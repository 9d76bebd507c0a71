-------------------------------- MODULE World --------------------------------
(***************************************************************************)
(* The scenes of a game node and what lives in them: SceneManager and its  *)
(* scenes, the slot map of EntityManager with the components attached to   *)
(* its entities, InstanceManager with the life of dungeon instances, and   *)
(* WorldManager with the shards of the open world and the transfer of      *)
(* players.  One thread runs it; the host flushes destroyed entities at    *)
(* its ticks.  Times are kept as distances from now, no longer than the    *)
(* timeouts they are compared with.                                        *)
(***************************************************************************)
EXTENDS Integers, Sequences, FiniteSets, SequencesExt

CONSTANTS WorldPlayers,
          InstanceConfigs,   \* contents of the instance configuration: def -> [limit, most, spawns,
                             \* open]; open: of type openworld, whose scenes are numbered as the shards are
          EmptyTimeout, DestroyGrace, ShardingThreshold, MaxReclaimPerTick,
          EntitySlots,       \* max_entities_ slots
          MaxInstances,      \* bound: instances ever created
          MaxShards,         \* bound: shards of the open world
          MaxGeneration      \* bound: generations of a slot

ASSUME WorldAssumption ==
    /\ EmptyTimeout \in Nat /\ DestroyGrace \in Nat
    /\ ShardingThreshold \in Nat \ {0} /\ MaxReclaimPerTick \in Nat \ {0}
    /\ IsFiniteSet(EntitySlots) /\ InstanceConfigs \subseteq Seq([limit : Nat, most : Nat, spawns : Nat, open : BOOLEAN])

VARIABLES
    woDefs,        \* bundle_.instances
    woInstances,   \* instances_: id -> [def, scene, state, members, age, ran, left, entered]: the time
                   \* since it was created and started and the time left until destroy_at
    woNextId,      \* next_id_
    woSpawned,     \* spawned_: instance -> entities
    woScenes,      \* scenes_: scene -> [state, players], players: player -> his avatar
    woShards,      \* open_worlds_ of the one open world there is: its shards, in order
    woShardIndex,  \* world_scene_index_
    woWhere,       \* player_scene_: player -> the scene he was last transferred to
    woEntities,    \* slot -> [phase, gen, kind, scene]; phase: free, alive, or dead until flushed
    woParts        \* a component store: slot -> the entity its component was attached to, NoId for none

woInstanceVars == <<woDefs, woInstances, woNextId, woSpawned>>
woShardVars == <<woShards, woShardIndex>>
woSceneVars == <<woScenes, woShardVars, woWhere>>
woEntityVars == <<woEntities, woParts>>
worldVars == <<woInstanceVars, woSceneVars, woEntityVars>>

NoId == <<0, 0>>
Nowhere == <<"none", 0>>
InstanceScene(i) == <<"instance", i>>
Shard(n) == <<"world", n>>

WorldInit ==
    /\ woDefs \in InstanceConfigs
    /\ woInstances = <<>> /\ woNextId = 0 /\ woSpawned = <<>>
    /\ woScenes = <<>> /\ woShards = <<>> /\ woShardIndex = 0 /\ woWhere = [p \in WorldPlayers |-> Nowhere]
    /\ woEntities = [s \in EntitySlots |-> [phase |-> "free", gen |-> 1, kind |-> "npc", scene |-> Nowhere]]
    /\ woParts = [s \in EntitySlots |-> NoId]

----------------------------------------------------------------------------
(* EntityManager.  Which free slot is taken makes no difference. *)

AliveEntity(id) == id # NoId /\ woEntities[id[1]].phase = "alive" /\ woEntities[id[1]].gen = id[2]
FreeSlots == {s \in EntitySlots : woEntities[s].phase = "free"}
WithinGenerations == \A s \in EntitySlots : woEntities[s].gen <= MaxGeneration
AtMost(n) == IF n > Cardinality(FreeSlots) THEN Cardinality(FreeSlots) ELSE n
SlotsFor(n) == CHOOSE slots \in SUBSET FreeSlots : Cardinality(slots) = AtMost(n)
IdsIn(slots) == {<<s, woEntities[s].gen>> : s \in slots}

CreateEntities(slots, kind, scene) ==
    [s \in EntitySlots |-> IF s \in slots THEN [woEntities[s] EXCEPT !.phase = "alive", !.kind = kind, !.scene = scene]
                                          ELSE woEntities[s]]
DestroyEntities(entities, ids) ==
    [s \in EntitySlots |-> IF <<s, entities[s].gen>> \in ids /\ entities[s].phase = "alive"
                           THEN [entities[s] EXCEPT !.phase = "dead", !.gen = @ + 1] ELSE entities[s]]

FlushDeferred ==
    /\ \E s \in EntitySlots : woEntities[s].phase = "dead"
    /\ woEntities' = [s \in EntitySlots |-> IF woEntities[s].phase = "dead" THEN [woEntities[s] EXCEPT !.phase = "free"]
                                                                           ELSE woEntities[s]]
    /\ woParts' = [s \in EntitySlots |-> IF woEntities[s].phase = "dead" THEN NoId ELSE woParts[s]]
    /\ UNCHANGED <<woInstanceVars, woSceneVars>>

AttachComponent(id) ==
    /\ AliveEntity(id) /\ woParts[id[1]] = NoId
    /\ woParts' = [woParts EXCEPT ![id[1]] = id]
    /\ UNCHANGED <<woInstanceVars, woSceneVars, woEntities>>

DetachComponent(id) ==
    /\ AliveEntity(id) /\ woParts[id[1]] # NoId
    /\ woParts' = [woParts EXCEPT ![id[1]] = NoId]
    /\ UNCHANGED <<woInstanceVars, woSceneVars, woEntities>>

----------------------------------------------------------------------------
(* Scenes. *)

SceneAdmits(scene, p) == woScenes[scene].state = "Running" /\ p \notin DOMAIN woScenes[scene].players
Entered(scenes, scene, p, avatar) ==
    [scenes EXCEPT ![scene].players = [q \in DOMAIN @ \cup {p} |-> IF q = p THEN avatar ELSE @[q]]]
LeftScene(scenes, scene, p) == [scenes EXCEPT ![scene].players = [q \in DOMAIN @ \ {p} |-> @[q]]]
WithScene(scene, state) ==
    [s \in DOMAIN woScenes \cup {scene} |-> IF s = scene THEN [state |-> state, players |-> <<>>] ELSE woScenes[s]]
PlayerCount(scene) == Cardinality(DOMAIN woScenes[scene].players)

\* External: the game node logs a player in, with a new avatar, when he is nowhere.
EnterScene(p, scene) ==
    /\ \A s \in DOMAIN woScenes : p \notin DOMAIN woScenes[s].players
    /\ SceneAdmits(scene, p) /\ FreeSlots # {} /\ WithinGenerations
    /\ woEntities' = CreateEntities(SlotsFor(1), "player", scene)
    /\ woScenes' = Entered(woScenes, scene, p, CHOOSE id \in IdsIn(SlotsFor(1)) : TRUE)
    /\ UNCHANGED <<woInstanceVars, woShardVars, woWhere, woParts>>

LeaveScene(p, scene) ==
    /\ p \in DOMAIN woScenes[scene].players
    /\ woEntities' = DestroyEntities(woEntities, {woScenes[scene].players[p]})
    /\ woScenes' = LeftScene(woScenes, scene, p)
    /\ UNCHANGED <<woInstanceVars, woShardVars, woWhere, woParts>>

\* The first shard with room whose scene is there is returned; a new one is brought to Running at
\* once.  Where an instance has taken the new shard's scene there is none, and its number is used up.
GetOrCreateOpenWorld ==
    /\ \A shard \in ToSet(woShards) : shard \in DOMAIN woScenes => PlayerCount(shard) >= ShardingThreshold
    /\ woShardIndex < MaxShards
    /\ woShardIndex' = woShardIndex + 1
    /\ \/ /\ Shard(woShardIndex') \in DOMAIN woScenes
          /\ UNCHANGED <<woShards, woScenes>>
       \/ /\ Shard(woShardIndex') \notin DOMAIN woScenes
          /\ woShards' = Append(woShards, Shard(woShardIndex'))
          /\ woScenes' = WithScene(Shard(woShardIndex'), "Running")
    /\ UNCHANGED <<woInstanceVars, woWhere, woEntityVars>>

\* The player leaves, then a new avatar is made, which may fail, then he enters, or tries to
\* enter the scene he came from with the avatar made for the other.
TransferPlayer(p, from, to) ==
    LET left == LeftScene(woScenes, from, p)
        avatar == CHOOSE id \in IdsIn(SlotsFor(1)) : TRUE
        without == DestroyEntities(woEntities, {woScenes[from].players[p]})
    IN /\ from # to /\ p \in DOMAIN woScenes[from].players /\ WithinGenerations
       /\ to[1] = "world" => PlayerCount(to) < ShardingThreshold
       /\ \/ /\ FreeSlots = {}
             /\ woScenes' = left /\ woEntities' = without /\ UNCHANGED woWhere
          \/ /\ FreeSlots # {}
             /\ woEntities' = DestroyEntities(CreateEntities(SlotsFor(1), "player", to), {woScenes[from].players[p]})
             /\ \/ /\ SceneAdmits(to, p)
                   /\ woScenes' = Entered(left, to, p, avatar)
                   /\ woWhere' = [woWhere EXCEPT ![p] = to]
                \/ /\ ~SceneAdmits(to, p)
                   /\ woScenes' = IF woScenes[from].state = "Running" THEN Entered(left, from, p, avatar) ELSE left
                   /\ UNCHANGED woWhere
       /\ UNCHANGED <<woInstanceVars, woShardVars, woParts>>

----------------------------------------------------------------------------
(* InstanceManager. *)

LoadInstanceConfig(config) ==
    /\ woDefs' = config /\ woDefs' # woDefs
    /\ UNCHANGED <<woInstances, woNextId, woSpawned, woSceneVars, woEntityVars>>

SceneFor(def, i) == IF def.open THEN Shard(i) ELSE InstanceScene(i)
CreateInstance(def, members) ==
    /\ woNextId < MaxInstances /\ def \in DOMAIN woDefs
    /\ woNextId' = woNextId + 1
    /\ woInstances' = [i \in DOMAIN woInstances \cup {woNextId'} |->
                          IF i = woNextId'
                          THEN [def |-> def, scene |-> SceneFor(woDefs[def], i), state |-> "Pending",
                                members |-> members, age |-> 0, ran |-> 0, left |-> 0, entered |-> members # {}]
                          ELSE woInstances[i]]
    /\ UNCHANGED <<woDefs, woSpawned, woSceneVars, woEntityVars>>

\* A monster that cannot be made is left out.  The scene stays in the state it is created in.  An
\* instance whose scene is there already, as a shard, is given up as one whose definition is gone.
StartInstance(i) ==
    LET inst == woInstances[i]
    IN /\ inst.state = "Pending"
       /\ \/ /\ inst.def \notin DOMAIN woDefs \/ inst.scene \in DOMAIN woScenes
             /\ woInstances' = [woInstances EXCEPT ![i].state = "Destroying", ![i].left = 0]
             /\ UNCHANGED <<woSpawned, woScenes, woEntities>>
          \/ /\ inst.def \in DOMAIN woDefs /\ inst.scene \notin DOMAIN woScenes /\ WithinGenerations
             /\ LET slots == SlotsFor(woDefs[inst.def].spawns)
                IN /\ woSpawned' = [j \in DOMAIN woSpawned \cup {i} |-> IF j = i THEN IdsIn(slots) ELSE woSpawned[j]]
                   /\ woEntities' = CreateEntities(slots, "npc", inst.scene)
             /\ woScenes' = WithScene(inst.scene, "Creating")
             /\ woInstances' = [woInstances EXCEPT ![i].state = "Running", ![i].ran = 0]
       /\ UNCHANGED <<woDefs, woNextId, woShardVars, woWhere, woParts>>

CompleteInstance(i) ==
    /\ woInstances[i].state = "Running"
    /\ woInstances' = [woInstances EXCEPT ![i].state = "Completed", ![i].left = DestroyGrace]
    /\ UNCHANGED <<woDefs, woNextId, woSpawned, woSceneVars, woEntityVars>>

\* The definition is looked up again and, unlike elsewhere, taken to be there.
AddMember(i, p) ==
    /\ woInstances[i].state = "Running" /\ p \notin woInstances[i].members
    /\ woInstances[i].def \in DOMAIN woDefs
    /\ Cardinality(woInstances[i].members) < woDefs[woInstances[i].def].most
    /\ woInstances' = [woInstances EXCEPT ![i].members = @ \cup {p}, ![i].entered = TRUE]
    /\ UNCHANGED <<woDefs, woNextId, woSpawned, woSceneVars, woEntityVars>>

RemoveMember(i, p) ==
    LET inst == [woInstances[i] EXCEPT !.members = @ \ {p}]
    IN /\ p \in woInstances[i].members
       /\ woInstances' = [woInstances EXCEPT ![i] =
                             IF inst.members = {} /\ inst.state \in {"Running", "Completed"}
                             THEN [inst EXCEPT !.state = "Destroying", !.left = DestroyGrace] ELSE inst]
       /\ UNCHANGED <<woDefs, woNextId, woSpawned, woSceneVars, woEntityVars>>

\* Instances are taken away with their monsters and the scene they name, whoever made it.
Reclaim(instances, gone) ==
    /\ woInstances' = [i \in DOMAIN instances \ gone |-> instances[i]]
    /\ woSpawned' = [i \in DOMAIN woSpawned \ gone |-> woSpawned[i]]
    /\ woEntities' = DestroyEntities(woEntities, UNION {woSpawned[i] : i \in gone \cap DOMAIN woSpawned})
    /\ woScenes' = [s \in DOMAIN woScenes \ {instances[i].scene : i \in gone} |-> woScenes[s]]
    /\ UNCHANGED <<woDefs, woNextId, woShardVars, woWhere, woParts>>

DestroyInstance(i) == Reclaim(woInstances, {i})

Up(n, most) == IF n < most THEN n + 1 ELSE n
\* Mutant: the grace of a completed instance begins again at every tick.
OlderPutsOff(inst) ==
    [inst EXCEPT !.age = Up(@, EmptyTimeout),
                 !.left = IF inst.state = "Completed" THEN DestroyGrace ELSE IF @ = 0 THEN 0 ELSE @ - 1,
                 !.ran = IF inst.def \in DOMAIN woDefs THEN Up(@, woDefs[inst.def].limit) ELSE @]

Older(inst) ==
    [inst EXCEPT !.age = Up(@, EmptyTimeout), !.left = IF @ = 0 THEN 0 ELSE @ - 1,
                 !.ran = IF inst.def \in DOMAIN woDefs THEN Up(@, woDefs[inst.def].limit) ELSE @]

OverTime(inst) == inst.def \in DOMAIN woDefs /\ woDefs[inst.def].limit > 0 /\ inst.ran >= woDefs[inst.def].limit
NeverEntered(inst) == ~inst.entered /\ inst.age >= EmptyTimeout
Ticked(inst) ==
    CASE inst.state = "Running" /\ OverTime(inst) -> [inst EXCEPT !.state = "Completed", !.left = DestroyGrace]
      [] inst.state = "Running" /\ ~OverTime(inst) /\ NeverEntered(inst) ->
            [inst EXCEPT !.state = "Destroying", !.left = 0]
      [] inst.state = "Running" /\ ~OverTime(inst) /\ ~NeverEntered(inst) /\ inst.members = {} ->
            [inst EXCEPT !.state = "Destroying", !.left = DestroyGrace]
      [] inst.state = "Completed" /\ inst.left = 0 -> [inst EXCEPT !.state = "Destroying"]
      [] inst.state = "Pending" /\ NeverEntered(inst) -> [inst EXCEPT !.state = "Destroying", !.left = 0]
      [] OTHER -> inst

\* WorldManager::Tick one unit of time later: of the instances whose time has come, at most
\* MaxReclaimPerTick go, in no particular order.
WorldTick ==
    LET older == [i \in DOMAIN woInstances |-> Older(woInstances[i])]
        due == {i \in DOMAIN older : older[i].state \in {"Completed", "Destroying"} /\ older[i].left = 0}
    IN \E gone \in SUBSET due :
          /\ Cardinality(gone) = IF Cardinality(due) > MaxReclaimPerTick THEN MaxReclaimPerTick ELSE Cardinality(due)
          /\ Reclaim([i \in DOMAIN older |-> Ticked(older[i])], gone)

PlayersNext ==
    \/ FlushDeferred \/ GetOrCreateOpenWorld
    \/ \E s \in EntitySlots : LET id == <<s, woEntities[s].gen>> IN AttachComponent(id) \/ DetachComponent(id)
    \/ \E p \in WorldPlayers, scene \in DOMAIN woScenes :
          EnterScene(p, scene) \/ LeaveScene(p, scene) \/ \E to \in DOMAIN woScenes : TransferPlayer(p, scene, to)
InstancesNext ==
    \/ FlushDeferred \/ GetOrCreateOpenWorld \/ WorldTick
    \/ \E config \in InstanceConfigs : LoadInstanceConfig(config)
    \/ \E def \in DOMAIN woDefs, members \in SUBSET WorldPlayers : CreateInstance(def, members)
    \/ \E i \in DOMAIN woInstances :
          \/ StartInstance(i) \/ CompleteInstance(i) \/ DestroyInstance(i)
          \/ \E p \in WorldPlayers : AddMember(i, p) \/ RemoveMember(i, p)
WorldNext == PlayersNext \/ InstancesNext

WorldSpec == WorldInit /\ [][WorldNext]_worldVars
\* The host ticks for ever.
WorldFairness == WF_worldVars(WorldTick)

----------------------------------------------------------------------------
\* A shard has its scene, unless an instance of the open world's kind had its number and is gone;
\* the other scenes are those of the started instances that still exist, every live monster is of one
\* of them, an avatar belongs to one player in one scene, and a component belongs to the entity in its
\* slot, not to one that was there before.
StartedScenes == {woInstances[i].scene : i \in DOMAIN woSpawned}
OpenInstances == \E config \in InstanceConfigs : \E def \in DOMAIN config : config[def].open
ScenesAreOwned ==
    /\ DOMAIN woScenes \subseteq ToSet(woShards) \cup StartedScenes
    /\ StartedScenes \subseteq DOMAIN woScenes
    /\ \A n \in 1..MaxShards : Shard(n) \in ToSet(woShards) \ DOMAIN woScenes =>
          OpenInstances /\ n \in 1..woNextId /\ n \notin DOMAIN woInstances
NothingOutlivesItsScene ==
    /\ ScenesAreOwned
    /\ DOMAIN woSpawned \subseteq DOMAIN woInstances
    /\ \A s \in EntitySlots : woEntities[s].phase = "alive" /\ woEntities[s].kind = "npc"
                                 => \E i \in DOMAIN woSpawned : <<s, woEntities[s].gen>> \in woSpawned[i]
    /\ \A a, b \in DOMAIN woScenes : \A p \in DOMAIN woScenes[a].players, q \in DOMAIN woScenes[b].players :
          /\ AliveEntity(woScenes[a].players[p])
          /\ p = q => a = b
          /\ woScenes[a].players[p] = woScenes[b].players[q] => p = q /\ a = b
    /\ \A s \in EntitySlots : woParts[s] # NoId =>
          woParts[s] = <<s, woEntities[s].gen - (IF woEntities[s].phase = "dead" THEN 1 ELSE 0)>>

\* An instance that has ended is taken away in the end, however many end at once.
EndedInstancesGo ==
    \A i \in 1..MaxInstances :
        []<>~(i \in DOMAIN woInstances /\ woInstances[i].state \in {"Completed", "Destroying"})

\* Players may enter the scene of an instance that is Running.
RunningInstanceAdmits ==
    \A i \in DOMAIN woInstances :
        woInstances[i].state = "Running" /\ i \in DOMAIN woSpawned => woScenes[woInstances[i].scene].state = "Running"

\* The scene of a shard of the open world is there.
ShardsStay == ToSet(woShards) \subseteq DOMAIN woScenes

\* A transfer that fails leaves the player in a scene.
TransferKeepsPlayer ==
    [][\A p \in WorldPlayers, from, to \in DOMAIN woScenes :
          TransferPlayer(p, from, to) => \E s \in DOMAIN woScenes' : p \in DOMAIN woScenes'[s].players]_worldVars

\* An instance nobody ever entered is only given up after the time set for that.
NeverEnteredWaits ==
    \A i \in DOMAIN woInstances :
        LET inst == woInstances[i]
        IN inst.state = "Destroying" /\ ~inst.entered /\ i \in DOMAIN woSpawned => inst.age >= EmptyTimeout
=============================================================================
