SPECIFICATION ClientSpec
CONSTANTS
  MaxRecvThreads = 2
  MaxAttempts = 1
  MaxRequests = 1
  MaxPushes = 1
  MaxLosses = 1
  MaxSessions = 1
INVARIANTS NeverTerminates
CHECK_DEADLOCK FALSE
