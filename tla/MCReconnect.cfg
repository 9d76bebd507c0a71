\* Two slots for three connections, so that slots are reused; generations
\* modulo 4, so that they wrap without returning to a value in use.
SPECIFICATION FairRSpec
CONSTANTS
  Players = {p, q}
  NoPlayer = NoPlayer
  Conns = {c}
  MaxSessions = 2
  Generations = 4
  HeartbeatBudget = 1
  Grace = 1
  LoginMutex = TRUE
  MaxOpens = 3
  MaxVersion = 1
  Direct = TRUE
  MaxBegins = 1
INVARIANTS SlotsAccountedFor CountersAgree PlayerIndexExact OneSessionPerPlayer
PROPERTIES IdsAreFresh GraceIsKept ReplayIsRefused NothingStaysOverdue
