SPECIFICATION ServicesSpec
CONSTANTS
  FoNodes = {1, 2}
  FoRole <- MCRoles
  FoLoads = {1}
  FoSessions = {"s1", "s2"}
  FoHome <- MCHome
  SuspectAfter = 1
  DeadAfter = 2
  MaxWave = 1
  MaxLives = 2
  MaxFailures = 1
  CtlNodes = {1, 2}
  CtlRoles = {"G"}
  OddAddresses = {2}
  Pushers = {"p"}
  CtlTimeout = 2
  MaxClock = 2
  MaxConfig = 2
  MaxCtlEvents = 1
  MaxBoots = 1
  Clients = {"c1", "c2"}
  Savers = {"c1", "c2"}
  Keys = {1, 2, 3}
  ShardCount = 2
  PoolSizes = {1, 2}
  Batches <- MCBatches
  MaxCalls = 2
  MaxFaults = 1
  MigrationFiles <- MCMigrations
  Runners = {"r1"}
  MaxMigrationFaults = 2
  Callers = {"a", "b"}
  Attempts = 2
  Threshold = 2
  Cooldown = 2
  RedisPool = 1
  MaxRedisNow = 3
  MaxFailed = 3
  StoreUsers = {"u"}
  SessionIds = {1, 2, 3}
  RedisPlayers = {1, 2}
  PlayerOf <- MCPlayerOf
  MaxRedisFaults = 1
  WbKeys = {1, 2, 3}
  CacheCapacity = 2
  MaxQueued = 2
  MaxSaves = 2
  Scripts = {"a"}
  Sources = {"s1", "s2", "s3"}
  Broken = {}
  Banned = {"s3"}
  SmokeFails = {}
  Crashing = {"s2"}
  Workers = {1}
  Drainers = {1}
  MaxHistory = 2
  MaxActivations = 3
  MaxSwapFailures = 1
  ScriptNames = {"a"}
  ScriptEvents = {"e"}
  MaxRuns = 3
  MaxPending = 2
  MaxSubs = 1
  MaxRunDepth = 2
  Manifests <- MCManifests
  HostSources = {"s1", "s2", "bare", "bad"}
  NoCompile = {"bad"}
  Invalid = {}
  NoContract = {"bare"}
  SmokeCrash = {"s2"}
  KnownRefs = {"npc"}
  RawValues <- MCRawValues
  NotANumber = NotANumber
  MinPeriod = 2
  Requests <- MCRequests
  MaxBossPhase = 3
  MaxAmount = 3
  ActionCount = 2
  MaxMounted = 2
  HistoryKept = 2
  MaxStep = 1
  MaxSwaps = 3
INVARIANTS NodesAreAccountedFor DataIsKept ScriptsAreSound
PROPERTIES SettledStays LoopsCatchUp
CHECK_DEADLOCK FALSE
