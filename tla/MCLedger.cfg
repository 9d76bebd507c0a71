SPECIFICATION FairSpec
CONSTANTS
  Entries = {a, b, c, x}
  Key <- OwnKey
  Big = {x}
  NoEntry = NoEntry
  Capacity = 2
  MaxRetries = 1
  Replays = FALSE
  LostAcks = {"flush"}
  MaxFaults = 3
  MaxRestarts = 1
INVARIANTS TypeOK ChainIntact HeadInStep
PROPERTIES ImplementsLog AcceptedIsStored
CHECK_DEADLOCK FALSE
