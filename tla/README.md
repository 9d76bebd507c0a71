# CAMI: formal models of the server

TLA+ models of the CAMI game server and its client, checked with TLC, and
theorems about them, checked with TLAPS. The models are translated from the C++
code; where a comment or a document promises something, the promise is stated as
a property and the code is measured by it.

1. [What the system consists of](#1-what-the-system-consists-of)
2. [Which module models what](#2-which-module-models-what)
3. [The runs](#3-the-runs)
4. [Bounds and fairness](#4-bounds-and-fairness)
5. [What is proved](#5-what-is-proved)
6. [Where the code disagrees with what it says](#6-where-the-code-disagrees-with-what-it-says)
7. [What is left out](#7-what-is-left-out)
8. [Plan](#8-plan)

To run: `tlc -workers 2 -config X.cfg M` for a configuration X of module M, and
`tlapm M.tla` for a module of proofs. Modules named `MC...` give the constants
their values; MCEngine, MCServices and MCGame also put components side by side.

## 1. What the system consists of

Paths are relative to `src/`. `PROJECT.json` lists the same components with
their sources and, for each, what of it is not modelled.

| Part | State it keeps | Operations | What makes it correct | Module |
|---|---|---|---|---|
| *Money* (`server/gamenode/economy/`) | | | | |
| Ledger | a ring of buffered entries, the chain head, the base of the batch; a store of rows | Append, Flush, direct write, VerifyChain | the rows are one hash chain; nothing accepted is lost, repeated or reordered | Ledger, DurableLog |
| Economy system | wallets, bags, counters of minted and burned money | Execute of eight kinds of command | money is conserved, and explained by the ledger but for what is flagged; a refused command changes nothing | Economy |
| Idempotency store | a row per key with a deadline, shared by the game nodes | TryBegin, Commit, Abort, Lookup, Rebegin | a command takes effect at most once; repeats get the first answer | Economy, Idempotency |
| *Gateway* (`server/gateway/`) | | | | |
| Sessions | slots with generations, a free stack, an index by player, counters | OnConnected, OnAuthenticate, OnHeartbeat, OnDisconnected, Reattach, Tick | slots neither lost nor shared; one session per player; grace periods kept; old ids dead | Sessions |
| Reconnect service | a record per session being reconnected | Begin, Advance, OnComplete | an old connection never takes a session back | Reconnect |
| Routing | registry with heartbeat ages, a sharded LRU cache of routes, the event queue | Register, Heartbeat, Tick, Route, Bind, Unbind, the handler of a death | a scene has one owner; no route outlives its node unnoticed | Routing |
| Health monitor, failover | a table of node health; the queue of sessions to move | Register, Heartbeat, Tick, OnNodeDead, Drain | a dead node is announced once and each of its sessions is accounted for | Failover |
| *Engine* (`engine/`) | | | | |
| Worker, task queue | cells with sequence numbers, two positions | TryPush, TryPop, Post, RunLoop, stop | each task once, in its producer's order; a stop drains | TaskThread |
| Timers | slots, a heap with cancelled entries | Schedule, Cancel, Tick | a cancelled timer stays silent; a reused slot is a new timer | Timers |
| Log | a ring, a counter of lost records, sinks | Log, Pump, Flush, Shutdown | a record is written, dropped and counted, or still in the ring | LogPump |
| Buses | a bounded queue, subscriptions, handlers | Publish, Drain, Subscribe, Send, Query | an accepted event reaches each subscriber once, in order | Buses |
| Memory | free lists, blocks and marks | Allocate, Free, Reset | a block is free, cached or in use | Memory |
| Configuration | layers, a version, readers' snapshots | LoadFile, overlays, Get | readers never go back | ConfigStore |
| Transport | slots of connections, two buffers each | accept, read, Send, flush, close | frames are cut where they were written; ids do not return | Transport |
| RPC | calls with attempts, a limiter, a counter | Call, Attempt, Deadline, Shutdown | a retry is safe; calls in flight are counted | Rpc |
| *Services* (`server/control/`, `server/dataservice/`) | | | | |
| Control service | nodes, configuration, both persisted | Register, Heartbeat, PushConfig, Drain, Kick, Tick, restart | the records are the state; the silent go offline and nobody else | Control |
| Stores in memory | a cache and a write-behind queue | Save, Load, Flush | a queued record is in the queue or in the store | WriteBehind |
| MySQL | a pool of connections, tables, versions, migrations | Acquire, Release, batches, Save with a version, Migrate | the pool's size; atomic batches; a recorded migration has run | MySql |
| Redis | a breaker, a pool, sessions under two keys | Execute, Put, Remove, Find | the breaker opens and recovers; an index leads to a body | Redis |
| *Scripting* (`scripting/`) | | | | |
| Lua context | names, slots, references, subscriptions | Load, Unload, Dispatch | names and slots agree, whatever fails half way | ScriptContext |
| Hot reload | a ticket and a history per script | Prepare, Validate, Activate, Rollback | what runs was validated; every swap is audited | HotReload |
| Gameplay host | mounted scripts, bindings, replies | Mount, hooks, Quarantine | who is routed to runs; decisions are clamped | GameplayHost |
| *Game* (`server/gamenode/`) | | | | |
| Social | parties, guilds, friends, mail; their records | every command | limits; the store follows memory; one grant for a mail | Social |
| Quests | progress, an index by event | Accept, events, TurnIn, Abandon, Save, Load | a reward is granted once, to who earned it | Quests |
| World, instances, scenes, entities | instances with members, scenes, slots of entities | Create, Enter, Leave, Destroy, Tick, Transfer | nothing outlives its scene; ended instances go | World |
| Monsters, movement, sight | states, positions, a grid, sights | Decide, Move, Enter, Leave | sights are told and mutual; no walk is faster than allowed | Creatures |
| Combat | casts, cooldowns, buffs, threat, projectiles | Cast, Tick, Damage, Heal, ApplyBuff, Dispel; levels and gear of a fighter | attributes are what the buffs add up to; a death is told once | Combat |
| Roles, inventory | levels, vitals, slots, gear, saves under way | Grant, Add, Remove, Equip, Unequip, Wear, Save | an item is in one place; levels are paid for; saves are not forgotten | Characters |
| Scheduler, scene recovery | stages, deadlines, checkpoints | Start, Stop, Tick, Checkpoint, Restore | ticks keep their beat; no checkpoint is lost | Simulation |
| Definitions | JSON readers, tables of buffs, skills, prices, worlds | Parse, Load | what a damaged file says is never taken for something else | Definitions |
| *Client* (`client/`) | | | | |
| Connection | a socket, a receiving thread, waiting requests, an inbox | Connect, Request, Poll, Reconnect | one receiver; an answer goes to its request | ClientNet |
| Resources, streaming, frame loop | a cache with a budget, loads under way, chunks; an accumulator | Acquire, Load, Evict, Update; Frame | the cache's size is exact; what is far is unloaded, after its delay | Resources, Simulation |
| Clocks, identifiers, errors; codecs; daemons; SQL schema; tools | | | not modelled: section 7 | |

How they interact. Clients reach the gateway over a transport that reports
connects, messages and disconnects to the session manager, on the gateway's
network thread. The reconnect service drives the session manager through the
same public calls. The gateway's router answers to which game node a message
goes; a node that stops beating is announced on the event bus by the registry's
`Tick`, and the router's handler purges the routes when the bus is drained, which
is a different moment; the failover coordinator hears the same announcement and
moves the sessions, in waves. On a game node one simulation thread runs the
stages of a tick: commands, the world, monsters, combat, scripts. Execute
consults the idempotency store, changes wallets and bags, appends to the ledger
and commits the key; the persistence thread flushes the ledger. The ledger's
store and the idempotency table are in a database that every game node uses, so
every call of them may fail, a failed call may have been carried out, and
another node may act between two of them.

What is hard in it, and what the properties are therefore about:

* calls of stores that fail between two steps of one command, and clients that
  repeat the command afterwards, on another node, before or after the key's row
  has expired;
* a batch that was written half, kept, and written again; a migration that ran
  half; a process that dies between two store calls;
* threads between two atomic accesses: the queue's cells, the breaker's state and
  its time of opening, the receiving thread that decides to reconnect;
* state read outside a lock or before a call and used after it: a loaded file,
  a resource, a ticket, a deadline, a session's version;
* callbacks that change what is being walked: timers, subscribers, scripts,
  the authentication provider;
* slots, generations, versions and free lists that are reused;
* a death or an event that is announced now and acted upon later, on a queue that
  may be full, and a cache as the only record of something;
* values that are derived and cached: hit points against attributes against gear
  and buffs, counters of members, indices by name.

`PROJECT.json` lists each of these under "hazards" with the line where it bites
and the properties that would notice, or why none of the passing runs can.

## 2. Which module models what

```
DurableLog   <==implements==  Ledger            <- PlayersProofs
                              Economy           <- EconomyProofs
                              Sessions          <- SessionsProofs
Sessions     <-extends-       Reconnect         <- SessionsProofs (also implements Sessions)
                              Routing           <- NetworkProofs

MCEngine   = TaskThread Timers LogPump Buses Memory ConfigStore Transport Rpc
             ClientNet Resources
MCServices = Failover Control MySql Redis WriteBehind HotReload ScriptContext
             GameplayHost
Game       = Social Quests World Creatures Combat Characters Simulation
             Idempotency
MCGame     = Game Definitions

Game       <- GameProofs -extends-> PlayersProofs (Social Quests Characters
                                                   Idempotency Ledger)
MCEngine   <- EngineProofs -extends-> NetworkProofs (Transport Rpc ClientNet Resources
                                                      Routing)
MCServices <- ServicesProofs
DataLemmas  lemmas about sequences, their members and sums, which the proofs share
```

MCEngine, MCServices and Game put components side by side that share no state. A
behaviour picks one of them (`focus`) and runs it; the others stay at their initial states.
The state space is therefore the sum of the parts and not their product, one run
checks them all, and a property of the run is the conjunction of the parts'
properties, each of which is stated in the part's own module.

The ledger, the reconnect service and the routing need no module beside their
own: their constants are ordinary numbers and strings, and the cfg files run
them directly.

**DurableLog** is the abstract specification of what `ledger.h` promises: a queue
in front of an append-only log, with nothing but the queue lost when the process
dies.

**Ledger** is the write side of the ledger at the grain of one store call.
`rows` is the store; `pending`, `lastHash`, `baseHash` are the ring and the two
hashes of the facade; `pc`, `arg`, `cursor`, `running`, `attempt` are the stack
frame of the thread inside Append, Flush or WriteOne. A store call succeeds,
fails, or (for the paths in LostAcks) stores the row and fails. Restart kills the
process anywhere and builds a new facade. A hash is the sequence of entries it
was computed from, which assumes that SHA-256 has no collisions and nothing else.

**Economy** is EconomySystem with its idempotency store, its ledger and the bags,
which are operators on records: of the inventory it is what the economy uses.
One Execute is one step, since on its node nothing else changes this state while
the simulation thread is in it; it is split into actions by outcome (Replay,
Blocked, Unreadable, Recover, BeginFails, RunRejected, RunApplied). `Do` computes
a command's effect the way the eight handlers do, with their order of steps and
their roll-backs. Flush is the persistence thread; Tick is the clock of the
table. The ledger here is its ring and a set of rows: order is Ledger's business.
PostLedger is asked after the balance has moved: an entry the ledger refuses,
because its ring is full and cannot be drained, is flagged (`flagged`) and counted
(`pending`, ledger_pending_count), and nothing else is ever done about it.

**Idempotency** is the same store seen by several nodes: a call of the table or
of the ledger is one step, a node is in the middle of at most one Execute, an
answer may be lost after the call was carried out, a node may die with what it
has buffered, and each node's clock has a zero of its own.

**Sessions** is SessionManager over InMemorySessionStore: one action per handler.
Time is relative (an age per session that stops above both limits). An
authentication is two steps, the call of the provider and its answer; other
handlers run in between. `free` counts how often a slot is on the free stack, so
that a slot pushed twice would be seen. **Reconnect** adds ReconnectService, with
one step per Advance.

**Routing** is GatewayRouter: NodeRegistry, the sharded RouteCache with index and
list kept apart as in the code, PlayerRouter, SceneRouter and the event queue.
Tick publishes deaths in any order (the registry iterates over a hash map) and
drops what does not fit; DispatchDeath is the handler. `granted` and `departed` are
history. Which live node the consistent hash picks is left open. **Failover** is
the monitor's own table and the coordinator: waves of rebinds that may fail.

The engine. **TaskThread** takes MpmcQueue one atomic access at a time: a
producer loads a cell's sequence number, exchanges the position, publishes; the
worker's loop sleeps, wakes, drains and stops. **Timers** keeps the heap of due
entries and the slots apart, and lets the callback schedule and cancel in the
middle of Tick. **LogPump**: writers, the ring, the counter of losses, the pump.
**Buses**: publishers on several threads, a drain whose subscribers subscribe and
unsubscribe and publish, commands and queries that nest. **Memory**: pool, object
pool with foreign threads, arena. **ConfigStore** parses outside the mutex and installs
inside; the files and the directories it has loaded are two lists, which Reload
goes through one after the other. **Transport** has one connection's bytes as a count and the frames as
lengths. **Rpc** has attempts, back-off and deadline against the server's
limiter. **ClientNet** takes one lock of the client at a time, the closing and the
dialling of a connection included; **Resources** takes one
section of the resource manager or of the streamer.

The services. **Control** persists by record and reads it back at a restart, where
each of the two loads may fail.
**WriteBehind** is the cache and its queue. **MySql** has three parts that do not
meet: the pool, the store's batches statement by statement (a guarded delete asks
first whether the row is there; a commit that fails may leave the connection whole),
and the migrations with several runners, whose record of a failure may itself fail.
**Redis** has the breaker (one atomic access at a time) and the sessions with
their two keys. **HotReload** has workers, the safe point and the audit's
drainers. **ScriptContext** nests: a script that runs may load, fail, subscribe.
**GameplayHost** mounts by manifest and asks its scripts in order.

The game. **Social**, **Quests** and **World** have one action per command, event
or tick; a refused call of the store or of the reward's receiver is an outcome.
In **World** a scene's id follows from the type of its instance: one of the type of
the open world takes the numbers of the open world's shards, so that its scene may
be there already, and it may be destroyed under a shard.
**Creatures** puts the monsters and the moving players on a line with cells and
two radii. **Combat** reduces formulas to small integers but keeps their order:
shield, mitigation, floor, death; a silenced caster casts nothing. A buff adds a
constant and a percentage to the maximum of hit points, the percentage taken of
what level and gear give (`plain`) at the moment of the recomputation, which is
remembered (`basis`); a change of level or gear (Refit) does not redo it.
**Characters** ties levels, gear and vitals.
**Simulation** has the scheduler's thread between its deadline and its tick, the
client's frame loop, and scenes with checkpoints on two hosts. **Definitions**
has the eight JSON readers as one descent with three switches (does four letters
pass for a word; does reading go on after the unexpected; how deep), compared
with the texts generated from all small values, and the tables they fill. **Game**
puts all of these but the definitions side by side; MCGame adds Definitions, which
needs RECURSIVE operators, and the constants. A behaviour of MCGame with the
variables of Definitions hidden is a behaviour of Game, so that what is proved of
GameSpec holds in the run.

## 3. The runs

| Run | Checks | Shows |
|---|---|---|
| `ledger` | TypeOK, ChainIntact, HeadInStep, ImplementsLog, AcceptedIsStored | whatever calls fail, are retried or lose their acknowledgement while flushing, the rows of a process are one chain, the facade's head is in step with them, the log is DurableLog, and what was accepted is stored in the end |
| `economy` | Conservation, LedgerExplainsBalances, AtMostOnce, NeverForgotten, ReplayIsFirstResult, RefusedIsNoOp, DeliveredInFull | two campaigns of commands, of money and of items through small bags, with repeats, expiry, flushes, entries the ledger refuses and failing stores: money is conserved, what the ledger cannot tell is exactly what was flagged, no command takes effect twice, and each is all or nothing |
| `reconnect` | SlotsAccountedFor, CountersAgree, PlayerIndexExact, OneSessionPerPlayer, IdsAreFresh, GraceIsKept, ReplayIsRefused, NothingStaysOverdue | sessions and the reconnect service together |
| `routing` | RoutesAreAccounted, SuspectIsMissed, SceneOwnerUnique, SilentNodeLeaves, DeadRoutesVanish | registry, cache and bus together |
| `engine` | NothingIsLost, OrderIsKept, NothingComesBack, WorkIsFinished | see below |
| `services` | NodesAreAccountedFor, DataIsKept, ScriptsAreSound, SettledStays, LoopsCatchUp | see below |
| `game` | PlayersAreServed, ScenesAreSound, FightsAddUp, DefinitionsAreSound, StepsAndRecordsAdvance, EndedInstancesGo | see below |
| `economy_pending`, `economy_mixed`, `old_connection`, `write_behind`, `client_reconnect` | one property each | a promise that the code does not keep: section 6 |

The composite properties and what each conjunct says:

| Property | Conjuncts |
|---|---|
| NothingIsLost | TasksAccountedFor (a task is in a cell, in a hand or has run), SlotsPartitioned (timers), NoRecordLost and LossIsReported (log), EventsAccountedFor (bus), CallsAreCounted (RPC), BlocksPartitioned (memory), IdsNeverReturn (transport), EventsOnce (client), LoadsAreUnderWay and CacheIsExact (resources) |
| OrderIsKept | PostOrderKept, OwesOnlyBehindUnpublished (a stopped worker leaves only what a producer had not published, or what lies behind it), SubscribersHearInOrder, FramesAreCut, CatchUpBounded, RetriesAreSafe, AnswersMatch, OneReceiver, LoadedIsNear |
| NothingComesBack | ReadersNeverGoBack (configuration), CancelledStaysSilent (timers), ChunksLinger (streaming) |
| WorkIsFinished | infinitely often the worker has caught up, the log is pumped out and no call waits |
| NodesAreAccountedFor | DeathIsAnnouncedOnce, StrandedIsExplained (failover), OverdueMeansSilent, RecordsAreCurrent (control) |
| DataIsKept | PoolIsExact, AtomicIsAtomic, AppliedHasRun (MySQL), QueuedIsKept (write-behind), RedisPoolIsExact, IndexHasBody (Redis) |
| ScriptsAreSound | OnlyValidatedRuns, AuditIsComplete (hot reload), NamesAndSlotsAgree, RegistryIsExact (Lua), RoutedScriptsRun, DecisionsAreSafe (gameplay) |
| SettledStays, LoopsCatchUp | AppliedStays, IdsNeverMove, ConfigOnlyMovesOn with one pusher; SilentNodesLeave, VerifiedInTheEnd |
| PlayersAreServed | GroupsAreSound, StoreFollowsMemory (social), RewardsAreEarned (quests), ItemsAreConserved, LevelsAreEarned, SavesAreNotForgotten (characters), OneRunUntilReaped, AnswersAreOfRuns (keys) |
| ScenesAreSound | NothingOutlivesItsScene (world), SightsAndStatesAreTold (monsters, sight), TicksKeepTheBeat, LoopKeepsTime |
| FightsAddUp | BuffsAddUp (a fighter's bonus and mask are what its live buffs add up to, percentages of the attributes at the last recomputation), ObituariesAreDeaths (combat), VitalsAreSound, GearCounts (characters) |
| DefinitionsAreSound | ReadersMeanJson (every reader), SkillsAreIndexed, PricesAreOfOneFile, BundleIsOfOneDir (tables) |
| StepsAndRecordsAdvance | StepsAreLegal (movement: of who is within the world and no faster than allowed), CheckpointsGrow (recovery), CompletedStays (keys) |

Each property of a passing run has a mutant, a plausible bug in a modelled
definition that makes TLC report the property as violated. The mutants stand next
to the definitions they change, under comments that begin with "Mutant".

## 4. Bounds and fairness

*Ledger*: a ring of two slots, three entries that fit and one that does not, so
that the ring fills, drains and is bypassed; three failing calls with one retry
each, so that a batch fails at any of its rows, is kept, fails again and succeeds;
one restart. The keys are distinct (Replays = FALSE, as the economy asks the
idempotency store first) and only the flush path loses acknowledgements: with a
lost acknowledgement on the direct path the chain head falls behind the store
until the next retry, which the theorems name as an assumption.

*Economy*: two players; balances up to 2, so that sums reach and pass the limit;
bags of two slots with a stacking and a non-stacking item, so that stacks fill,
bags fill and items are refused half way; a ring of two, which two failing calls
keep full until an entry is refused; rows that live one tick. A behaviour sends the
commands of one campaign: five keys, mostly of money, over two ticks, or six, mostly
of items, over one. Both include the purchase and the reward, which move money and
items. The deployment assumption SingleFault says
that the idempotency table and the ledger do not fail together and that an accepted
entry is stored before its key expires. Every command of the campaigns moves
items one unit at a time and transfers move money or items, not both;
`economy_mixed` and section 6 say why.

*Keys* (Idempotency): two nodes, one key, rows that live one tick of a clock that
ticks once, one fault (a lost answer or a death), two runs of the command; node
2's clock is one ahead of node 1's. That is enough for every pair of nodes to be
between any two of their calls, and for every refuted promise of section 6 to
show; the theorems need no bound.

*Sessions*: two slots and three connects, so that a slot is reused and its
generation moves on; generations modulo 4 instead of 2^32; budgets of one unit;
one reattachment per session and one reconnection through the service. Longer
chains of reattachments repeat the same comparison with a larger version, and
`old_connection` uses three.

*Routing*: two nodes; three players in a shard of two entries, so that entries are
evicted; the scene in a shard of its own; an event queue of one slot, so that
events are dropped. DeadAfter is 2 instead of 3, which keeps the threshold of
suspicion (1) apart from that of death. Ages are counted per node in whole
intervals, so nodes drift apart further than they can in the code.

*Engine*: every queue, ring, pool and buffer has one or two places and gets one or
two more items than places, so that it fills, wraps and refuses; there are two
threads of each kind, because the atomic steps of two already interleave in every
way a third could meet pairwise; a slot is used at least twice; a call is
retried once; frames are up to three bytes through buffers of three, so that one
is longer than what fits beside another; the stream has four chunks with a radius
of one, so that chunks come, go and come back.

*Services*: two nodes with two sessions and waves of one; pools of one or two
for two clients; batches that fail at any record; one runner with two failures
for the migrations (nothing in the code excludes a second one, section 5); a breaker with two attempts over a threshold
of two; three keys over a cache of two; three sources of a script, of which one
crashes and one is refused; runs nested twice.

*Game*: three players for parties of two and guilds of two, two mails, one
refusal of the store; two quests with a prerequisite; two instances over three
entity slots whose generations are reused; a monster and a player on a line of
seven places, so that a player leaves the sight of one who stands at home, asked
for places beyond either end; instances of both types of scene; two fighters, each at
one of two values of maximal hit points without buffs, with four skills, mana for one
of them, two buffs, one with a percentage, and three calls; a
character with two levels, three items and two slots; a scheduler that falls
behind by one tick more than it catches up; two hosts for one scene. The JSON
texts are those of at most seven tokens, JSON or with one token dropped, added or
replaced (6785 of them), which is the least length at which a list of objects is
damaged; integers are cut at 3 instead of 2^32.

Counters that are bounds only, in the guards, are named Max... in the cfg files.
CHECK_DEADLOCK is FALSE where the bounds let the system stop (all commands done
and the clock at its end, or the component in focus at its bounds).

Fairness. The ledger: weak fairness on Flush, which the persistence thread calls
(`ledger.h:10`), and on the steps of a thread that is inside the facade; failures
are finite by MaxFaults, and nobody has to append. `economy_pending` assumes more
than the code does, weak fairness on a flush that succeeds, and nothing less
would make its counterexample one: the entry is missing although every flush
works. Sessions: weak fairness on Tick, which the gateway's main loop calls in every round
(`server/daemon/gateway_main.cpp:192`), and on the passing of time. Routing: weak
fairness on Tick and on the dispatch of events. The main loop drains the bus in
every round (`gateway_main.cpp:195`); the router itself is not wired into the
daemon yet, so that its Tick is called is what `gateway_router.h:8` expects of
its host. Engine: threads that are in the middle of something go on (a producer
inside Post, the worker's loop, the pump, a writer between the ring and the
counter), and a call's attempts and deadline happen; nobody has to post, log or
call. Services: time passes, and the process that holds the health monitor ticks it,
drains the bus and lets the coordinator work. That is this host's duty, and the
repository has no such process yet: the gateway's loop ticks its sessions and
drains its bus and no monitor (`gateway_main.cpp:190-195`). The hot reloader's Tick
is called at the safe point of every frame. Game: the host goes on ticking the world
(`server/daemon/gamenode_main.cpp:78` ticks in every round; the hooks of the
game's modules are announced on the next line and not wired yet). No client, node, player or provider has
to do anything.

## 5. What is proved

TLAPS checks these for every value of the constants that satisfies the named
assumptions of the modules, and of the bounds.

*PlayersProofs: the ledger.* LedgerTypeCorrect, LedgerChainCorrect, LedgerHeadCorrect and
LedgerImplementsLog. The second and third assume Replays = FALSE and that the
direct write loses no acknowledgement. The chain alone is not inductive: a flush
starts again at the base of a batch that may be stored in part. The invariant
adds that the stored rows of the process are those before the batch followed by
the first k entries of the batch, for some k, that the base and the head agree,
and that buffered and stored keys are distinct. LedgerImplementsLog maps the
facade to DurableLog: its queue is what is buffered and not stored yet, and its
log is the keys of the rows in order. Every step of a flush, with its retries, is
a step of the queue or none.

*EconomyProofs.* MoneyCorrect (no balance leaves 0..kMaxBalance) and
ConservationCorrect (the wallets' total changes by what grants and debits name)
without further assumptions; AtMostOnceCorrect, NeverForgottenCorrect and
ReplayCorrect under SingleFault; LedgerExplainsCorrect under SingleFault and
Explicable: a purchase names the currency of its price, a transfer moves money or
items but not both (see section 6), and no other command names a second player.
It says that every balance which no flagged command moved is the sum of the entries
the ledger holds for it, that the flagged commands are exactly those that took
effect and are in no entry, and that the counter shown to the operator is their
number. It does not say that a flagged entry ever gets into the ledger: none does
(`economy_pending`). The invariant says for every key how its row, its count
of effects, its flag and its entry in the ledger go together: a key without an effect
has neither entry nor flag, a key with one has a row and one of the two, and an
unresolved one has its entry where a recovery will look for it. The sums rest on
DataLemmas: a change of one member changes the sum by the difference.

*PlayersProofs: the keys.* For any number of nodes, keys,
clocks, faults and lost answers: OneRunHolds (until its row is seen expired, a key
has at most one executor and its command takes effect at most once), AnswersHold
(a completed row and a ledger entry tell of a run that took place) and
CompletedHolds (nothing erases or replaces a completed row before it is seen
expired); IdempotencyAssumption is all they assume. The invariant (TableIInv) adds
to the types that a node which recovers a key has seen it expired, that a key's
row is in flight as long as somebody runs its command, and that whatever is on its
way into the table or the ledger tells of a run. The proof first shows that each
of the eleven steps of Execute has one of nine effects on the table and the
frames, and then that each effect keeps the invariant. What happens once a row was
seen expired is in section 6.

*GameProofs*, with PlayersProofs for what players have. PlayersServed, ScenesSound, FightsCorrect and
RecordsAdvance state the run's PlayersAreServed, ScenesAreSound, FightsAddUp and
StepsAndRecordsAdvance in full, of GameSpec, for any number of players, scenes,
entity slots, creatures, fighters, characters and hosts, any definitions of
quests, instances, skills, buffs, items and levels, and any limits, timers and
radii. They assume the modules' named assumptions and nothing else: sizes and
times are natural numbers, limits that the code divides by or starts from are not
nought, definitions are of the shape their loaders check, and the sets that are
counted are finite. OneSystemMoves shows that a step of the game is a step of one
system and a stutter of the others; GameIInv is the conjunction of what follows.
Few of the properties are inductive alone; the invariants add:

| System | Invariant | What it adds |
|---|---|---|
| parties, guilds | PartyIInv, GuildIInv | members are listed once and within the limit; who holds an invitation is not in that party, so that accepting lists nobody twice; a guild's leader is among its members; the store has a record of each guild, equal to it unless its save failed |
| friends, mail | FriendIInv, MailIInv | the lists of mails, of their records and of the grants have the same places |
| quests | QuestIInv | a quest that is turned in stays so, hence so do the prerequisites it was accepted under; the index has no entry of a quest that is not under way |
| world | WorldIInv | an instance that spawned anything is no longer pending; what it spawned has the slot's generation and is a living monster, or an older one; every living monster is listed by an instance; a scene is a shard's or a started instance's, and a shard that has lost its scene lost it to an instance of the open world's type that had its number and is gone; a player's entity is alive, in one scene, and nobody else's, whatever was destroyed, flushed and reused in between |
| monsters | NpcsIInv | each count is the number of monsters in that state; a respawn timer runs exactly for the dead |
| sight, movement | PlacesIInv | who saw whom was told is exactly the pairs within the radius at the grid's places; who is in the grid has a state of movement; a player's place there is his place in the scene |
| combat | CombatIInv | what the fights work on is a record of typed parts (Good) whose mask is that of its buffs, whose bonus is what they add up to over the attributes it was taken of, and whose dead have no hit points; every operator of a frame (damage, shield, heal, stack, tick, expiry, dispel, projectile) takes such a record to another whose buffs have the same names, or recomputes what was derived from them |
| characters | CharactersIInv | who is played by a player is his; the gear of a player's only character is the sum over what is worn, and nothing is worn by a player who plays nobody; no identity is twice in a bag, none is above the last one given, and two stacks of one identity, in the bag and on the body, are of one definition, which stacks; the slots of a bag are the held, the freed (listed once) and those never used; experience left and levels paid add up to what was granted |
| scheduler | SchedulerIInv | the next deadline is one interval after the last step, which is a whole number of intervals after the anchor; a thread that fires has reached its deadline |
| frame loop | LoopIInv | its types |

The induction over a frame's effects (a fold over the casts, targets, projectiles
and buffs in any order) is a recursive function of the model; the proofs carry the
invariant through it with a least counterexample. The sums over gear, levels and
buffs rest on DataLemmas.

*SessionsProofs.* TypeCorrect, NoSlotIsLost and CountersAreExact hold for any
callers. IndexIsExact and OneSessionEach assume LoginMutex: that the caller looks
FindByPlayer up before a login. They need to know that the pending authentication
holds the only claim to its player, since handlers run before its answer.

The reconnect service's theorems stand in the same module. GraceIsNeverCutShort
needs that the pending authentication's session cannot be a suspended one. IdsAreNeverReused and ReplayIsAlwaysRefused
assume fewer connects than generations: then the generation of a slot counts its
uses, and an id that was accepted at a version is dead or at a later one.
ServiceImplementsSessions shows that every step of the reconnect service is a
legal call of the session manager or none, so that the theorems about sessions
carry over; ServiceKeepsPromises is that conclusion, ServiceTypeCorrect the
service's own type invariant.

*NetworkProofs: the routes.* NoRouteIsForgotten and SuspicionIsExact without further
assumptions. OneOwnerPerScene assumes that player and scene ids do not collide,
that a dead node registers again only after its death was dispatched, and that
no shard holding a scene can overflow; its invariant is that an owner is
registered, not announced dead, and has the route. The first assumption and the
last are about the deployment.

*EngineProofs* and *NetworkProofs.* EngineLosesNothing, EngineKeepsOrder and
EngineNeverGoesBack state the run's NothingIsLost, OrderIsKept and
NothingComesBack for any number of threads, slots, workers and messages, under
the components' named assumptions, which say that sizes are natural numbers (the
queue's ring a power of two, as its constructor makes it) and that thread names
differ. Each component has an invariant of its own and a theorem of its own
(ThreadCorrect, TimersCorrect, LogCorrect, BusesCorrect, MemoryCorrect,
ConfigCorrect, TransportCorrect, RpcCorrect, ClientCorrect); OneMoves shows that a
step of the composition is a step of one component and a stutter of the others,
and EngineIInv is the conjunction. What the invariants add to what is promised:

| Component | Invariant | What it adds |
|---|---|---|
| queue and worker | ThreadIInv | the sequence number of a cell says which position it serves and whether it is free, claimed or published; claimed positions are distinct and lie between the two ends of the ring; what is behind an unpublished position is later than it in its producer's order |
| timers | TimerIInv | heap entries name each slot once at its generation, free slots are the others, an id in the index is in the heap and not discarded; what fires is in hand |
| log | LogIInv | the accepted records are those written, those in the batch and those in the ring, in this order |
| buses | EventsIInv, CallsIInv | each published event has one place (queue, hand of the drain, done, dropped), per subscriber what it heard is a subsequence in order of publication; the counters are what is on the stacks |
| memory | PoolIInv, ObjectIInv | free lists repeat nothing, the lists, the foreign list and the hands part the blocks |
| configuration | ConfigIInv | a cached snapshot is no newer than the current one and equal to it at equal versions |
| transport | NetIInv | the offset in the ring is the count of bytes read modulo its size; what was read lies before the end of the next frame; ids that are live, freed and waiting are apart |
| calls | RpcIInv | a call that is not idempotent has at most one attempt on its way or run; one that was told OK has run |
| client | ClientIInv | a request's number is owed, on its way, pending or taken, once; events wait in order at one place each; with reconnection off the caller holds the handle whenever it starts or joins |
| resources | CacheIInv | the bytes in use per kind are the sum over the entries in use, ids index their entries, and each load has one job |
| streaming | StreamerIInv | a loaded chunk is near, an unloading one has been away as long as its timer says |

*ServicesProofs.* NodesAccountedFor, DataKept, ScriptsSound and SettledForGood
state the run's NodesAreAccountedFor, DataIsKept, ScriptsAreSound and SettledStays
in full, for any number of nodes, sessions, clients, shards, scripts and failures.
OneServiceMoves lifts the components' theorems (FailoverCorrect, ControlCorrect,
MySqlCorrect, AppliedForGood, RedisCorrect, OnlyValidatedEver, AuditKept,
ScriptsCorrect, GameplayCorrect) to the composition, as in the engine. Four named
hypotheses say what the code leaves to its host, and each is needed: with two
threads or processes TLC finds a violation.

| Hypothesis | It says | Without it |
|---|---|---|
| OnePusher | one thread calls PushConfig | the check of the version and the publication are two steps: the later push may be undone by the earlier |
| OneRunner | one process migrates | two runners apply one file, and the one that fails marks it failed after it was applied |
| OneStoreUser | the sessions in Redis have one writer | the two keys of a session are written one after the other, and two writers leave an index without a body |
| OneDrainer | one thread calls DrainAudit | it appends the front, and pops the front without looking whether it still is the record appended (`hot_reloader.cpp:774-786`), though the header admits any thread (`hot_reloader.h:131`): two drainers append one record twice and lose the next |

| Component | Invariant | What it adds |
|---|---|---|
| failover | FailoverIInv | a node in the directory is alive, a live node has one more life than deaths, the wave's target is not dead |
| control | ControlIInv, PushFits | the record is the table unless a save was lost, and reading it back gives the table; a push that is about to be published is newer, one about to be saved is the published one |
| MySQL: stores | StoreIInv | a shard's count of connections in use is the number of clients that hold one, and with the idle ones it stays within the pool; each step of a client names the connection it holds |
| MySQL: migrations | MigrateIInv, FilesNotApplied | a runner in the middle of a file has run the statements before its place; what it has still to do is not applied yet |
| Redis: breaker | BreakerIInv | only a caller in an attempt holds a lease |
| Redis: sessions | SessionIInv | what is left of a user's operation determines which of the two keys is ahead |
| write-behind | WbIInv | the queue has a key once, with the version queued last; a key that is not queued is stored at that version |
| hot reload | HotReloadIInv, DrainFits | what a worker prepares and what a tick swaps in are validated sources; what the drainer holds is the front of the queue |
| scripts | ScriptsIInv | every reference of the registry has one holder (a slot, a queued load or a subscriber); a run becomes the module of one slot at most; the mark of each execution on the stack is where the queue stood when it began |
| gameplay | GhIInv | what the scripts' histories hold has passed, and every routed entry is enabled and runs a source that did |

The proofs about one component are lemmas in three layers: what its operators on
lists, sets and records do; one lemma per action that is not immediate; ...Steps,
which combines them. Where an induction would be natural (the least k such that)
they take a least counterexample instead, which needs no operator as a parameter.

Model-checked only. The liveness properties (AcceptedIsStored,
NothingStaysOverdue, SilentNodeLeaves, DeadRoutesVanish, WorkIsFinished,
LoopsCatchUp, EndedInstancesGo) are out of the prover's reach. So are
RefusedIsNoOp, DeliveredInFull and the types of the bags, which fold over
sequences, and the recency lists of Routing, because removal from them is a
recursive selection. What the JSON readers compute is an induction over texts,
and Definitions writes them as RECURSIVE operators, which keeps
DefinitionsAreSound from being stated in a theorem. ServiceTypeCorrect, the type
invariant of the reconnect service, is proved and no longer run.

## 6. Where the code disagrees with what it says

Five disagreements are runs of their own:

| Run | Code | Says otherwise |
|---|---|---|
| `economy_pending` | the ledger's refusal of an entry is logged, counted and forgotten, after the command took effect (`economy_system.cpp:690`): no code delivers the entry again or compares ledger and balances | `economy/docs/INTERFACE.md:104` |
| `economy_mixed` | a transfer whose item cannot move is rejected with the money gone (`economy_system.cpp:409`) | `economy/docs/INTERFACE.md:83-84` |
| `old_connection` | the reconnect service compares the version with one it has just read (`reconnect_service.cpp:79`) | `reconnect_service.h:4` |
| `write_behind` | a key that is queued is not queued again, so a later value goes to the cache only (`data_service.cpp:40`) | `data_service.h:6` |
| `client_reconnect` | the receiving thread clears `recv_running_` before it detaches its handle, and a reconnecting request assigns to it (`net_client.cpp:88`) | `net_client.cpp:114` |

The others are stated as definitions next to what does hold, each under a comment
with what is promised or assumed. TLC refutes each, with the constants of the
module's run unless a constant is given here; none is among the properties the
passing runs check.

| Module | Definition | Claim that the code does not keep |
|---|---|---|
| Ledger | WholeChainIntact | the whole store is one chain; the constructor starts at the zero hash over a store with rows (`ledger.cpp:54`) |
| Economy | AtMostOnce, with SingleFault = FALSE | a key whose commit failed runs again if its entry is not stored when its row expires (`economy_system.cpp:232`) |
| Economy | DeliveredInFull, with items in larger units | a purchase charges for units that did not fit (`economy_system.cpp:468`) |
| Idempotency | NeverTwice, CompletedForGood | two nodes recover one expired key, the second erases the row of the first and runs again; a late reap writes its copy over a completed row (`idempotency_store.cpp:149`) |
| Sessions | PlayerIndexExact, with LoginMutex = FALSE | one index entry per player, which authentication does not consult (`in_memory_session_store.cpp:104`) |
| Routing | SceneOwnerUnique, with the scene in a shard that overflows | a scene's owner is known to an LRU cache only (`scene_router.cpp:42`) |
| TaskThread | StopRunsWhatWasPosted | whatever was posted before the stop has run when the worker has left |
| Timers | RunningClosureStays | the closure that runs is not destroyed or moved under its own feet |
| LogPump | FlushMeansFlushed, WrittenIsFlushed | Flush waits until what was queued is written and flushed; a pump that has caught up flushes at once |
| Memory | ArenaReusesBlocks | the arena asks for a block only when none it has would do |
| ConfigStore | LoadedCanBeReloaded | what was loaded can be loaded again |
| Transport | GracefulDrains | a connection closed gracefully has given everything to the kernel first |
| Control | ConfigOnlyMovesOn, with two pushers; SilenceIsNoticed | the published version never goes back; every silent node is judged offline, after a restart too |
| MySql | GuardedWritesMoveVersions, ReportedSavedIsSaved | a write guarded by a version leaves another; what a batch reports as saved is kept (`mysql_store.cpp:372` against `idata_store.h:49`) |
| Redis | LiveSessionIsFound, OpenRefuses | a player with a session is found; an open breaker refuses until the cooldown is over |
| HotReload | RollbackIsToVerified | what is rolled back to has passed its verification before |
| ScriptContext | FailureLeavesNothing, PromisedIdsHold | a failed run leaves no callback; a queued load gets the id it was promised |
| GameplayHost | ManifestOrderWins, OnlineMeetsContract, NothingHalfMounted | the manifest's order decides; what is on line has its entry points; what is not mounted does not run |
| Social | LeaderIsMember, OnePartyEach, StoredFriendsMatch | no dangling leader; one party each; stored friends are the friends |
| Quests | HeldQuestsCanComplete | registering a definition strands nobody who holds the quest |
| World | RunningInstanceAdmits, TransferKeepsPlayer, NeverEnteredWaits, ShardsStay | a running instance admits; a failed transfer leaves its player in a scene; an instance nobody entered waits for its time; a shard of the open world has its scene (an instance defined with the open world's type, which the loader accepts and the shipped files do not use, has a shard's scene and destroys it) |
| Creatures | PlacesAgree, ChasersMove, NobodyLeaps | three records of a place agree and are within the world; who goes on chasing moves; nobody moves further at once than a legal step (a step that is cut for its length is not cut at the border, `validator.cpp:49-63`: it takes a player over the border, the next one puts him back onto it from wherever he is, and he goes on at that speed) |
| Combat | BonusIsCurrent, DeathsAreAnnounced, HpWithinMax, DeadHoldNoThreat, CastingIsTold, DeadStayDead | a percentage of a buff is of the attributes of now (`role_system.cpp:187` and `:262` recompute level and gear and leave the buffs' share); skills and the price of a skill kill without a word; the end of a buff lowers the maximum only; threat comes after the table was cleared; a flag outlives its cast; a healing skill revives |
| Characters | CleanIsStored, WornLeftTheBag | gear lowers hit points and does not mark the character; of a stack the whole is worn and the rest stays |
| Simulation | BurstIsBounded, OnlyBacklogIsLost, RestoredKeepsVersion, OneRunningOwner | after a stall the thread ticks without a pause; a frame of exactly the limit drops a rest; a restored scene has a new version; Restore does not ask whether another host still runs the scene |
| ClientNet | ConnectedListens | connected means that somebody receives |
| Resources | NearIsNeverUnloaded | entering the radius loads a chunk (`scene_streamer.cpp:3`); one that was unloaded keeps its record and is never loaded again |
| Definitions | NothingIsMadeUp, SkillLoadIsAtomic, NoPriceIsCut | a damaged file is refused (`npc_config.cpp:5`): `[{"k":}]` is read as a definition with a nought; a load of skills is atomic (`skill_registry.cpp:389`); no bound is cut silently (`price_table.cpp:219`) |

Smaller things met on the way: a node that registers again before its own death
is dispatched loses its new routes to the late purge (ReturnsEarly = TRUE in
Routing); UnregisterNode leaves the node's routes in the cache, and its scenes
cannot be bound to anybody until they are evicted; ValidateCommand asks a Reward
or Refund for items although the comment above it asks for a currency or items.

## 7. What is left out

Inside modelled components: the economy's older in-memory idempotency map and
ledger sink (used only when no store is configured), removal of items by guid,
events and metrics; Flush in a destructor is Flush followed by Restart. Sessions:
metrics, trace ids and events; the order of the free stack, of which only the
contents matter. Routing: hit counters, the load window, the hash ring; ids of
players and scenes that coincide. Rpc: TLS and the pool of channels. Lua: the
machine itself is external, and the bindings that forward values to commands are
left out, as are the bindings of the gameplay host beyond its hooks. MySQL: the
binding of columns. Scenes: the components' storage is which entity has one.
Movement and sight: positions on a line, no angles, paths or smoothing. Combat:
the formulas' floating point; of the attributes a buff changes, flatly or by a
percentage, the maximum of hit points stands for all; where level and gear come from
(Characters has that) is reduced to two values of it. Social: the records are written
and never read back, by the code as by the model, so that a claim whose write was
refused is lost with the process. Roles: what an attachment to a scene does.
Definitions: escapes and digits inside a token, the dotted paths the core's
reader makes, every single field of a definition beyond "fine or not".

Components that are not modelled, and why: clocks, identifiers and error text
are data (time is modelled where it is read); the protocol's codecs are largely
generated; the daemons' main loops keep no state and are what the fairness of
section 4 rests on; the SQL schema is run by MySQL (the unique key of the
ledger's table is an assumption of Ledger and Idempotency); tools, benchmarks and
deployment are not part of the running system.

The three composite runs check components that share no state beside each other.
What of their interaction the code has, and the models do not compose: a node's
death seen by the monitor and by the registry (two tables that need not agree,
each modelled in full), the reward of a quest through the economy (an answer that
may refuse), checkpoints of a scene whose instance is being reclaimed.

## 8. Plan

Done: money (Ledger, Economy, Idempotency), connections (Sessions, Reconnect),
routes (Routing, Failover), the engine, the services, scripting, the game's
systems, the client; theorems about all of them but Definitions. Next, in this
order:

1. The economy over several nodes: Economy's commands with Idempotency's table at
   the grain of a call, so that money is conserved until a key is seen expired.
2. World with Simulation's checkpoints: an instance that ends between a
   checkpoint and its restoration.
3. The readers of Definitions as recursive functions over the length of a text,
   of which more can be proved than of RECURSIVE operators.
