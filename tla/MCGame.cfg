SPECIFICATION MCSpec
CONSTANTS
  Foci <- MCFoci
  SocialPlayers = {1, 2, 3}
  PartySizeMax = 2
  GuildSizeMax = 2
  MaxGroups = 2
  MaxMails = 2
  MaxRefusals = 1
  QuestPlayers = {1, 2}
  QuestIds = {1, 2}
  Levels = {1, 2}
  QuestDirs <- MCQuestDirs
  DefsOffered <- MCDefsOffered
  OneShot = {"talk"}
  EventCounts = {0, 3}
  MaxRegistrations = 1
  MaxGrantFailures = 1
  WorldPlayers = {1, 2}
  InstanceConfigs <- MCInstanceConfigs
  EmptyTimeout = 2
  DestroyGrace = 1
  ShardingThreshold = 1
  MaxReclaimPerTick = 1
  EntitySlots = {1, 2, 3}
  MaxInstances = 2
  MaxShards = 2
  MaxGeneration = 2
  Npcs = {11}
  Avatars = {1}
  HomeOf <- MCHomes
  WorldHalf = 3
  LegalStep = 1
  TeleportStep = 2
  StopTimeout = 1
  CellSize = 2
  ViewRadius = 2
  AttackRange = 1
  AggroRadius = 2
  ChaseLeave = 3
  PatrolRadius = 1
  MaxHp = 2
  DecisionInterval = 2
  NoPos = NoPos
  Wishes <- MCWishes
  MaxSeq = 2
  Fighters = {1, 2}
  Side <- MCSides
  SkillTable <- MCSkills
  BuffTable <- MCBuffs
  BaseHp = 2
  PlainHps = {2, 3}
  BaseMp = 1
  Defense = 1
  RateScale = 10
  MitigationK = 4
  MitigationMax = 7
  CritDamage = 15
  MinDamage = 1
  FlightFrames = 1
  LeaveAfter = 1
  ThreatCapacity = 1
  BuffSlots = 2
  MaxFightCalls = 3
  MaxCombatEvents = 2
  Owners = {1}
  CharIds = {1, 2}
  StartingPrimary = 1
  PrimaryPerLevel = 1
  HpPerStamina = 1
  HpFloor = 0
  MpPerIntellect = 1
  MpFloor = 0
  PrimaryMax = 4
  VitalMax = 9
  ExpNeeds <- MCExpNeeds
  ExpTop = 4
  ItemTable <- MCItems
  ItemFiles <- MCItemFiles
  BadFile = "bad"
  BagSlots = 2
  EquipSlots = {"hand"}
  HpDeltas <- MCHpDeltas
  MpDeltas <- MCMpDeltas
  ExpGrants = {1, 4}
  ItemCounts = {1, 2}
  Damages = {2}
  MaxGuids = 2
  MaxSaveFailures = 2
  MaxCharCalls = 6
  Phases = {1, 2}
  Interval = 2
  MaxCatchUp = 2
  ClockCatchUp = 3
  MaxTime = 9
  FixedDt = 3
  MaxCatch = 2
  FrameTimes = {1, 4, 7}
  MaxFrames = 4
  SceneHosts = {1, 2}
  SceneIds = {1}
  MaxSceneVersion = 2
  IdNodes = {1, 2}
  IdKeys = {7}
  IdTtl = 1
  UptimeOf <- MCUptime
  MaxIdClock = 1
  MaxIdFaults = 1
  MaxIdRuns = 2
  TextMax = 7
  JsonMaxDepth = 2
  IdWidth = 3
  MaxVersion = 3
  BuffFiles <- MCBuffFiles
  SkillFiles <- MCSkillFiles
  PriceFiles <- MCPriceFiles
  WorldDirs <- MCWorldDirs
INVARIANTS PlayersAreServed ScenesAreSound FightsAddUp DefinitionsAreSound
PROPERTIES StepsAndRecordsAdvance EndedInstancesGo
CHECK_DEADLOCK FALSE
