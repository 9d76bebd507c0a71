SPECIFICATION RSpec
CONSTANTS
  Players = {p}
  NoPlayer = NoPlayer
  Conns = {c, d}
  MaxSessions = 1
  Generations = 4
  HeartbeatBudget = 1
  Grace = 1
  LoginMutex = TRUE
  MaxOpens = 1
  MaxVersion = 3
  Direct = FALSE
  MaxBegins = 2
PROPERTIES OldConnectionStaysOut
