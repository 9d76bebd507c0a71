SPECIFICATION EngineSpec
CONSTANTS
  Producers = {"p1", "p2"}
  QueueCapacity = 2
  MaxCalls = 2
  MaxTime = 3
  MaxTimers = 2
  MaxTicks = 2
  Periods = {1}
  MaxCatchUp = 2
  CompactMin = 2
  Writers = {"w1", "w2"}
  MaxRecords = 2
  RingSize = 1
  DrainBatch = 2
  EventKinds = {"econ", "plain"}
  CriticalKinds = {"econ"}
  BusCapacity = 2
  MaxEvents = 3
  MaxSubs = 2
  BusThreads = {"t1", "t2"}
  CallTypes = {"a"}
  MaxDepth = 2
  MaxThrows = 1
  Foreign = {"f1", "f2"}
  ChunkBlocks = 2
  MaxChunks = 2
  RemoteCapacity = 1
  MaxInvalid = 1
  ArenaBlock = 2
  ArenaSizes = {1, 2}
  MaxArenaBlocks = 3
  CfgFiles = {"f1"}
  CfgKeys = {"k1"}
  FileKeys <- MCFileKeys
  CfgDirs <- MCFileDirs
  CfgWriters = {"w1", "w2"}
  CfgReaders = {"r1"}
  MaxRevision = 1
  MaxVersion = 2
  MaxConnections = 1
  IdBase = 2
  RecvBuf = 3
  SendBuf = 3
  Payloads = {1, 3}
  MaxPayload = 2
  MaxFrames = 2
  MaxAccepts = 2
  RpcCalls = {1, 2}
  MaxRetries = 1
  Burst = 1
  PerTarget = 2
  MaxRefills = 1
  MaxRecvThreads = 2
  MaxAttempts = 1
  MaxRequests = 1
  MaxPushes = 2
  MaxLosses = 1
  MaxSessions = 1
  Uris = {"t1", "m2"}
  KindOf <- MCKindOf
  SizeOf <- MCSizeOf
  Levels <- MCLevels
  DefaultPresets <- MCDefaultPresets
  PresetFiles <- MCPresetFiles
  AudioBudget = 0
  RsWorkers = {"w1", "w2"}
  MaxIds = 3
  MaxTouches = 3
  Chunks = {0, 1, 2, 3}
  Radius = 1
  LoadTime <- MCLoadTime
  UnloadDelay = 2
  MaxPendingLoads = 1
  MaxUpdates = 5
INVARIANTS NothingIsLost OrderIsKept
PROPERTIES NothingComesBack WorkIsFinished
CHECK_DEADLOCK FALSE
