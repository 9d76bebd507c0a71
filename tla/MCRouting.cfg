SPECIFICATION FairSpec
CONSTANTS
  Nodes = {n1, n2}
  NoNode = NoNode
  Players = {p1, p2, p3}
  Scenes = {town}
  Shards = {0, 1}
  Shard <- ApartShard
  Capacity = 2
  EventSlots = 1
  Roles = {"GameNode", "SceneNode"}
  DeadAfter = 2
  ReturnsEarly = FALSE
INVARIANTS RoutesAreAccounted SuspectIsMissed SceneOwnerUnique
PROPERTIES SilentNodeLeaves DeadRoutesVanish
