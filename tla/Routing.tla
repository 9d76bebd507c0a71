------------------------------- MODULE Routing ------------------------------
(***************************************************************************)
(* GatewayRouter (gateway_router.h): the registry of game nodes with its   *)
(* heartbeat clock, one bounded LRU cache that the player router and the   *)
(* scene router share, and the event bus that carries a node's death from  *)
(* the registry's Tick to the cache, some time later.  Everything runs on  *)
(* the gateway's network thread; a step is one call from outside, one scan *)
(* of Tick, or one event that Drain dispatches.                            *)
(*                                                                         *)
(* A node's age is the number of whole heartbeat intervals since it was    *)
(* last heard of.  Which of the live nodes the consistent hash and the     *)
(* load window pick is left open.                                          *)
(***************************************************************************)
EXTENDS Integers, Sequences, FiniteSets

CONSTANTS
    Nodes,
    NoNode,       \* nullopt
    Players,      \* the keys the player router uses
    Scenes,       \* the keys the scene router uses, of the same type
    Shards,       \* the cache's shards
    Shard,        \* ShardOf: the shard of a key
    Capacity,     \* capacity_per_shard_
    EventSlots,  \* slots of the event queue
    Roles,        \* NodeRole
    DeadAfter,    \* kDeadAfterMisses
    ReturnsEarly  \* may a dead node register before its death is dispatched?

Keys == Players \cup Scenes

(* One shard for the players, one for the scenes.                          *)
ApartShard == [k \in Keys |-> IF k \in Scenes THEN 0 ELSE 1]

ASSUME RoutingAssumption ==
    /\ NoNode \notin Nodes /\ IsFiniteSet(Nodes)
    /\ Shard \in [Keys -> Shards]
    /\ IsFiniteSet(Keys)
    /\ Capacity \in Nat \ {0} /\ EventSlots \in Nat \ {0}
    /\ "GameNode" \in Roles
    /\ DeadAfter \in Nat \ {0, 1}
    /\ ReturnsEarly \in BOOLEAN

VARIABLES
    registry,   \* nodes_, by node
    cache,      \* the index of every shard: key -> node
    lru,        \* the list of every shard, most recently used first
    events,        \* the NodeDead events not dispatched yet
    departed,   \* history: nodes gone without an event, their routes unpurged
    granted     \* history: <<scene, node>> told OK and not ended since

vars == <<registry, cache, lru, events, departed, granted>>

Info == [role : Roles, age : 0 .. DeadAfter, missed : 0 .. DeadAfter,
         health : {"Healthy", "Suspect"}]
Absent == [role |-> "none", age |-> 0, missed |-> 0, health |-> "none"]

Registered == {n \in Nodes : registry[n] # Absent}
AliveFor(role) == {n \in Registered : registry[n].role = role}
Announced == {events[i] : i \in 1 .. Len(events)}

Init ==
    /\ registry = [n \in Nodes |-> Absent]
    /\ cache = [k \in Keys |-> NoNode]
    /\ lru = [s \in Shards |-> <<>>]
    /\ events = <<>>
    /\ departed = {} /\ granted = {}

-----------------------------------------------------------------------------
(* The cache.                                                              *)

Cached(s) == {k \in Keys : Shard[k] = s /\ cache[k] # NoNode}

Without(list, S) == LET Kept(k) == k \notin S IN SelectSeq(list, Kept)

(* A hit moves the key to the front.                                       *)
Touch(k) ==
    /\ cache[k] # NoNode
    /\ lru' = [lru EXCEPT ![Shard[k]] = <<k>> \o Without(@, {k})]
    /\ UNCHANGED cache

Victim(s) == IF Cardinality(Cached(s)) >= Capacity /\ lru[s] # <<>>
             THEN {lru[s][Len(lru[s])]} ELSE {}

(* Put of a key that is not there, as every caller has looked: a full      *)
(* shard gives up its last entry, in the list and in its index.            *)
Put(k, n) ==
    LET s == Shard[k]  v == Victim(s)
    IN  /\ cache' = [j \in Keys |-> IF j = k THEN n
                                    ELSE IF j \in Cached(s) \cap v THEN NoNode
                                    ELSE cache[j]]
        /\ lru' = [lru EXCEPT ![s] = <<k>> \o Without(@, v)]

Erase(S) ==
    /\ cache' = [k \in Keys |-> IF k \in S THEN NoNode ELSE cache[k]]
    /\ lru' = [s \in Shards |-> Without(lru[s], S)]

(* Mutant: only one shard is searched. *)
RoutesToInOneShard(n) ==
    LET s == CHOOSE s \in Shards : TRUE
    IN  {k \in Keys : cache[k] = n /\ Shard[k] = s}

RoutesTo(n) == {k \in Keys : cache[k] = n}

-----------------------------------------------------------------------------
(* The registry.                                                           *)

(* Registering a known node updates what is said of it, its role included, *)
(* and leaves its health alone.                                            *)
RegisterNode(n, role) ==
    /\ registry' = [registry EXCEPT ![n] =
            IF n \in Registered THEN [@ EXCEPT !.role = role]
            ELSE [role |-> role, age |-> 0, missed |-> 0, health |-> "Healthy"]]
    /\ n \in Registered \/ n \notin Announced \/ ReturnsEarly
    /\ UNCHANGED <<cache, lru, events, departed, granted>>

(* Mutant: a heartbeat forgives the misses and leaves the suspicion. *)
HeartbeatKeepsSuspicion(n) ==
    /\ n \in Registered
    /\ registry' = [registry EXCEPT ![n] = [@ EXCEPT !.age = 0, !.missed = 0]]
    /\ UNCHANGED <<cache, lru, events, departed, granted>>

Heartbeat(n) ==
    /\ n \in Registered
    /\ registry' = [registry EXCEPT ![n] =
            [@ EXCEPT !.age = 0, !.missed = 0, !.health = "Healthy"]]
    /\ UNCHANGED <<cache, lru, events, departed, granted>>

EndOwnership(S) == granted' = {g \in granted : g[2] \notin S}

(* UnregisterNode: the node leaves the registry; nobody tells the cache.   *)
UnregisterNode(n) ==
    /\ n \in Registered
    /\ registry' = [registry EXCEPT ![n] = Absent]
    /\ departed' = departed \cup {n}
    /\ EndOwnership({n})
    /\ UNCHANGED <<cache, lru, events>>

(* Time passes for a node, in whole heartbeat intervals.                   *)
Elapse(n) ==
    /\ n \in Registered /\ registry[n].age < DeadAfter
    /\ registry' = [registry EXCEPT ![n].age = @ + 1]
    /\ UNCHANGED <<cache, lru, events, departed, granted>>

OrdersOf(S) ==
    {q \in [1 .. Cardinality(S) -> S] : \A i, j \in DOMAIN q : q[i] = q[j] => i = j}

(* Publish of the events in q: what does not fit is dropped.               *)
PublishDeaths(q) ==
    LET fit == SubSeq(events \o q, 1, IF Len(events) + Len(q) > EventSlots
                                   THEN EventSlots ELSE Len(events) + Len(q))
    IN  /\ events' = fit
        /\ departed' = departed \cup
                {q[i] : i \in {i \in DOMAIN q : Len(events) + i > EventSlots}}

(* Mutant: a node that is suspect already is not looked at again. *)
OverdueOnce == {n \in Registered : registry[n].missed # registry[n].age
                               /\ registry[n].health = "Healthy"}

(* Tick looks at the nodes whose count of missed beats has changed.        *)
Overdue == {n \in Registered : registry[n].missed # registry[n].age}

Tick ==
    LET silent == {n \in Overdue : registry[n].age >= DeadAfter}
    IN  /\ Overdue # {}
        /\ registry' = [n \in Nodes |->
                IF n \in silent THEN Absent
                ELSE IF n \in Overdue
                     THEN [registry[n] EXCEPT !.missed = registry[n].age,
                                              !.health = "Suspect"]
                ELSE registry[n]]
        /\ \E q \in OrdersOf(silent) : PublishDeaths(q)
        /\ EndOwnership(silent)
        /\ UNCHANGED <<cache, lru>>

(* Drain dispatches one event: OnNodeDead purges the node's routes.        *)
DispatchDeath ==
    /\ events # <<>>
    /\ Erase(RoutesTo(Head(events)))
    /\ events' = Tail(events)
    /\ departed' = departed \ {Head(events)}
    /\ UNCHANGED <<registry, granted>>

-----------------------------------------------------------------------------
(* Routing.  RouteUpstream asks the player router when it knows the player *)
(* and the scene router otherwise; with no live node nothing changes.      *)

Pick == AliveFor("GameNode")

RoutePlayer(k) ==
    /\ \/ Touch(k)
       \/ /\ cache[k] = NoNode
          /\ \E n \in Pick : Put(k, n)
    /\ UNCHANGED <<registry, events, departed, granted>>

RouteScene(k) ==
    /\ \/ Touch(k) /\ UNCHANGED granted
       \/ /\ cache[k] = NoNode
          /\ \E n \in Pick :
                Put(k, n) /\ granted' = granted \cup {<<k, n>>}
    /\ UNCHANGED <<registry, events, departed>>

(* The end of a Bind that was told OK.  Owning through a node that has     *)
(* left since the route was cached gives nobody the scene.                 *)
Grant(k, n) == granted' = IF n \in Registered THEN granted \cup {<<k, n>>}
                          ELSE granted

(* Mutant: the target is not looked up among the live nodes. *)
BindAnywhere(k, n) ==
    /\ \/ cache[k] = n /\ Touch(k)
       \/ cache[k] = NoNode /\ Put(k, n)
    /\ Grant(k, n)
    /\ UNCHANGED <<registry, events, departed>>

(* Mutant: a scene that has an owner is given to the next one who asks. *)
BindOverwrites(k, n) ==
    /\ n \in AliveFor("GameNode")
    /\ IF cache[k] = NoNode THEN Put(k, n)
       ELSE cache' = [cache EXCEPT ![k] = n] /\ UNCHANGED lru
    /\ Grant(k, n)
    /\ UNCHANGED <<registry, events, departed>>

(* BindScene: the owner may repeat it, another node is refused, a free     *)
(* scene goes to a live game node.  (A refusal only touches the entry.)    *)
BindScene(k, n) ==
    /\ \/ cache[k] = n /\ Touch(k) /\ Grant(k, n)
       \/ cache[k] # n /\ Touch(k) /\ UNCHANGED granted
       \/ /\ cache[k] = NoNode /\ n \in AliveFor("GameNode")
          /\ Put(k, n) /\ Grant(k, n)
    /\ UNCHANGED <<registry, events, departed>>

(* Unbind: by the owner only.                                              *)
Unbind(k, n) ==
    /\ \/ cache[k] = n /\ Erase({k}) /\ granted' = granted \ {<<k, n>>}
       \/ cache[k] # n /\ Touch(k) /\ UNCHANGED granted
    /\ UNCHANGED <<registry, events, departed>>

(* PlayerRouter::Invalidate.                                               *)
Invalidate(k) ==
    /\ Erase({k})
    /\ UNCHANGED <<registry, events, departed, granted>>

Membership(n) ==
    \/ \E role \in Roles : RegisterNode(n, role)
    \/ Heartbeat(n) \/ UnregisterNode(n) \/ Elapse(n)

Next ==
    \/ \E n \in Nodes : Membership(n)
    \/ Tick \/ DispatchDeath
    \/ \E k \in Players : RoutePlayer(k) \/ Invalidate(k)
    \/ \E k \in Scenes : RouteScene(k)
    \/ \E k \in Scenes : \E n \in Nodes : BindScene(k, n) \/ Unbind(k, n)

Spec == Init /\ [][Next]_vars

(* The host's loop calls Tick and drains the bus; no node has to beat.     *)
FairSpec == Spec /\ WF_vars(Tick) /\ WF_vars(DispatchDeath)

-----------------------------------------------------------------------------
(* The types of the state; index and list of a shard hold the same keys,   *)
(* each once, and no more than fit (route_cache.cpp keeps the two apart).  *)
TypeOK ==
    /\ registry \in [Nodes -> Info \cup {Absent}]
    /\ cache \in [Keys -> Nodes \cup {NoNode}]
    /\ lru \in [Shards -> Seq(Keys)]
    /\ events \in Seq(Nodes) /\ Len(events) <= EventSlots
    /\ departed \subseteq Nodes
    /\ granted \subseteq Scenes \X Nodes

ShardsAreLists ==
    \A s \in Shards :
        /\ {lru[s][i] : i \in DOMAIN lru[s]} = Cached(s)
        /\ Len(lru[s]) = Cardinality(Cached(s))
        /\ Len(lru[s]) <= Capacity

(* A route leads to a registered node, or its removal is under way, or the *)
(* node left without an event: a purge never misses a route that was       *)
(* cached between a node's death and its dispatch (gateway_router.h:64).   *)
RoutesAreAccounted ==
    \A k \in Keys : cache[k] \in Registered \cup Announced \cup departed \cup {NoNode}

(* Suspicion is neither forgotten nor kept: a node is Suspect exactly when *)
(* the last scan found beats missing (node_registry.cpp:94, :193).         *)
SuspectIsMissed ==
    \A n \in Registered :
        /\ registry[n].health = "Suspect" <=> registry[n].missed > 0
        /\ registry[n].missed <= registry[n].age

(* A scene never has two owners: whom Bind or RouteUpstream told OK stays  *)
(* the only one until it unbinds, dies or leaves (scene_router.h:4).       *)
SceneOwnerUnique ==
    \A g, h \in granted : g[1] = h[1] => g[2] = h[2]

(* A node that stops beating leaves the registry, whatever the scans saw   *)
(* of it before (node_registry.cpp:186 skips nodes without news).          *)
SilentNodeLeaves ==
    \A n \in Nodes :
        (n \in Registered /\ registry[n].age = DeadAfter)
            ~> (n \notin Registered \/ registry[n].age = 0)

(* The routes to a node whose death was announced go away, unless the node *)
(* comes back.                                                             *)
DeadRoutesVanish ==
    \A n \in Nodes :
        (n \in Announced) ~>
            (n \in Registered \/ \A k \in Keys : cache[k] # n)
=============================================================================
