------------------------------ MODULE Creatures ------------------------------
(***************************************************************************)
(* What moves in a scene: AiSystem decides for the monsters, in a state    *)
(* machine driven by a table; MovementSystem applies the commands of the   *)
(* players and integrates velocities at each tick; DynamicGridAoi tells    *)
(* who comes into sight of whom, looking in the cells of a grid.  The      *)
(* position of an entity is kept three times, by the entity, by the        *)
(* movement system and by the grid.  One thread runs it.  The world is a   *)
(* line, the unit of time a tick, the unit of speed a legal step.          *)
(***************************************************************************)
EXTENDS Integers, Sequences, FiniteSets, SequencesExt

CONSTANTS Npcs, Avatars,    \* entity ids of monsters and players
          HomeOf,           \* entity -> where it is spawned
          WorldHalf,        \* legal positions are -WorldHalf..WorldHalf, for the grid too
          LegalStep, TeleportStep,   \* MaxStep with its tolerance, and with teleport_factor
          StopTimeout,      \* ticks without a command after which an entity is stopped
          CellSize, ViewRadius,
          AttackRange, AggroRadius, ChaseLeave, PatrolRadius, MaxHp,
          DecisionInterval, \* ticks between two decisions of a monster
          NoPos,            \* no position
          Wishes,           \* bound: where the commands of players want to go
          MaxSeq            \* bound: sequence numbers of commands

ASSUME CreaturesAssumption ==
    /\ CellSize \in Nat \ {0} /\ ViewRadius \in Nat /\ LegalStep \in Nat /\ TeleportStep \in Nat
    /\ WorldHalf \in Nat /\ NoPos \notin Int /\ Wishes \subseteq Int
    /\ StopTimeout \in Nat /\ {MaxHp, MaxSeq, DecisionInterval} \subseteq Nat
    /\ Npcs \cap Avatars = {} /\ IsFiniteSet(Npcs \cup Avatars) /\ HomeOf \in [Npcs \cup Avatars -> Int]

VARIABLES
    crNpcs,    \* comps_, hp_, respawn_timers_: monster -> [state, target, hp, patrol, wait, timer];
               \* states New and Gone are before Spawn and after Despawn
    crCounts,  \* state_counts_
    crMoving,  \* states_: entity -> [pos, velocity, silent, seq, moved]: ticks since its last command,
               \* its number, whether it came in this tick; pos NoPos for none
    crPos,     \* Entity::Pos
    crGrid,    \* the grid's entities_: entity -> position, NoPos for none
    crTold     \* ghost: pairs <<watcher, seen>> last told "entered" by notify_sink_

creatureVars == <<crNpcs, crCounts, crMoving, crPos, crGrid, crTold>>

NoTarget == 0
CreatureIds == Npcs \cup Avatars
AiStates == {"Idle", "Patrol", "Chase", "Attack", "Return", "Dead"}
Gap(a, b) == IF a >= b THEN a - b ELSE b - a
Unit(d) == CASE d > 0 -> 1 [] d < 0 -> -1 [] OTHER -> 0
Clamp(p) == CASE p > WorldHalf -> WorldHalf [] p < -WorldHalf -> -WorldHalf [] OTHER -> p
Unmoved == [pos |-> 0, velocity |-> 0, silent |-> StopTimeout + 1, seq |-> 0, moved |-> FALSE]

CreaturesInit ==
    /\ crNpcs = [n \in Npcs |-> [state |-> "New", target |-> NoTarget, hp |-> MaxHp, patrol |-> 0,
                                 wait |-> 0, timer |-> FALSE]]
    /\ crCounts = [s \in AiStates |-> 0]
    /\ crMoving = [e \in CreatureIds |-> [Unmoved EXCEPT !.pos = NoPos]]
    /\ crPos = HomeOf
    /\ crGrid = [e \in CreatureIds |-> NoPos] /\ crTold = {}

----------------------------------------------------------------------------
(* The grid: [pos, told] before and after a call. *)

CellOf(p) == p \div CellSize
Reach == LET cells == (ViewRadius + CellSize - 1) \div CellSize IN IF cells < 1 THEN 1 ELSE cells
ComputeVisible(grid, e, p) ==
    {o \in CreatureIds \ {e} : /\ grid[o] # NoPos /\ Gap(CellOf(grid[o]), CellOf(p)) <= Reach
                               /\ Gap(grid[o], p) <= ViewRadius}
BothWays(e, others) == {<<e, o>> : o \in others} \cup {<<o, e>> : o \in others}
Valid(p) == Gap(p, 0) <= WorldHalf

AoiEnter(aoi, e, p) ==
    IF ~Valid(p) \/ aoi.grid[e] # NoPos THEN aoi
    ELSE [grid |-> [aoi.grid EXCEPT ![e] = p], told |-> aoi.told \cup BothWays(e, ComputeVisible(aoi.grid, e, p))]
AoiLeave(aoi, e) ==
    IF aoi.grid[e] = NoPos THEN aoi
    ELSE [grid |-> [aoi.grid EXCEPT ![e] = NoPos],
          told |-> aoi.told \ BothWays(e, ComputeVisible(aoi.grid, e, aoi.grid[e]))]
\* Mutant: those who are left behind are not told.
AoiMoveArrivals(aoi, e, p) ==
    IF ~Valid(p) \/ aoi.grid[e] = NoPos THEN aoi
    ELSE [grid |-> [aoi.grid EXCEPT ![e] = p],
          told |-> aoi.told \cup BothWays(e, ComputeVisible(aoi.grid, e, p))]

AoiMove(aoi, e, p) ==
    IF ~Valid(p) \/ aoi.grid[e] = NoPos THEN aoi
    ELSE LET before == ComputeVisible(aoi.grid, e, aoi.grid[e])
             after  == ComputeVisible(aoi.grid, e, p)
         IN [grid |-> [aoi.grid EXCEPT ![e] = p],
             told |-> (aoi.told \cup BothWays(e, after \ before)) \ BothWays(e, before \ after)]
Aoi == [grid |-> crGrid, told |-> crTold]
SetAoi(aoi) == crGrid' = aoi.grid /\ crTold' = aoi.told

----------------------------------------------------------------------------
(* Movement. *)

\* External: the game node puts a player's avatar into the grid, and takes it out.
AvatarEnters(a) ==
    /\ crGrid[a] = NoPos
    /\ SetAoi(AoiEnter(Aoi, a, crPos[a]))
    /\ crMoving' = [crMoving EXCEPT ![a] = [Unmoved EXCEPT !.pos = crPos[a]]]
    /\ UNCHANGED <<crNpcs, crCounts, crPos>>
AvatarLeaves(a) ==
    /\ crGrid[a] # NoPos
    /\ SetAoi(AoiLeave(Aoi, a))
    /\ UNCHANGED <<crNpcs, crCounts, crMoving, crPos>>

\* Mutant: a command too fast is judged against the threshold of teleports only.
TargetUnclamped(from, to) == IF Gap(from, to) > TeleportStep THEN NoPos ELSE Clamp(to)

\* ValidateMovement and what ApplyCommand makes of it: the place the entity is put at, NoPos when
\* the command is refused.  Speed comes before bounds.
Target(from, to) ==
    CASE Gap(from, to) > TeleportStep -> NoPos
      [] Gap(from, to) > LegalStep /\ Gap(from, to) <= TeleportStep -> from + Unit(to - from) * LegalStep
      [] OTHER -> Clamp(to)

ApplyCommand(a, to, seq) ==
    LET st == crMoving[a]  at == Target(st.pos, to)
    IN /\ crGrid[a] # NoPos /\ at # NoPos
       /\ seq = 0 \/ seq > st.seq
       /\ crMoving' = [crMoving EXCEPT ![a] = [pos |-> at, velocity |-> at - st.pos, silent |-> 0, seq |-> seq,
                                               moved |-> TRUE]]
       /\ crPos' = [crPos EXCEPT ![a] = at]
       /\ SetAoi(AoiMove(Aoi, a, at))
       /\ UNCHANGED <<crNpcs, crCounts>>

\* One entity's turn in Integrate; moving, pos and aoi are threaded through the entities.
Integrated(sim, e) ==
    LET st == sim.moving[e]
    IN IF st.pos = NoPos \/ st.moved \/ st.velocity = 0 THEN sim
       ELSE IF st.silent > StopTimeout THEN [sim EXCEPT !.moving[e].velocity = 0]
       ELSE [sim EXCEPT !.moving[e].pos = Clamp(st.pos + st.velocity), !.pos[e] = Clamp(st.pos + st.velocity),
                        !.aoi = AoiMove(sim.aoi, e, Clamp(st.pos + st.velocity))]
\* Integrate goes through the entities in no particular order.
Integrate(sim, order) ==
    LET after[i \in 0 .. Len(order)] == IF i = 0 THEN sim ELSE Integrated(after[i - 1], order[i])
    IN after[Len(order)]
NextTick(moving) ==
    [e \in CreatureIds |-> [moving[e] EXCEPT !.moved = FALSE,
                                             !.silent = IF @ > StopTimeout THEN @ ELSE @ + 1]]

----------------------------------------------------------------------------
(* Monsters. *)

CanTransition(from, to) ==
    to \in CASE from = "Idle"   -> {"Patrol", "Dead"}
             [] from = "Patrol" -> {"Patrol", "Chase", "Dead"}
             [] from \in {"Chase", "Attack"} -> {"Chase", "Attack", "Return", "Dead"}
             [] from = "Return" -> {"Idle", "Chase", "Return", "Dead"}
             [] from = "Dead"   -> {"Idle"}
LiveNpc(n) == crNpcs[n].state \in AiStates \ {"Dead"}
Counted(counts, from, to) ==
    [s \in AiStates |-> counts[s] - (IF s = from THEN 1 ELSE 0) + (IF s = to THEN 1 ELSE 0)]

Spawn(n) ==
    /\ crNpcs[n].state = "New"
    /\ crNpcs' = [crNpcs EXCEPT ![n].state = "Idle"]
    /\ crCounts' = Counted(crCounts, "New", "Idle")
    /\ crMoving' = [crMoving EXCEPT ![n] = [Unmoved EXCEPT !.pos = HomeOf[n]]]
    /\ SetAoi(AoiEnter(Aoi, n, HomeOf[n]))
    /\ UNCHANGED crPos

Despawn(n) ==
    /\ crNpcs[n].state \in AiStates
    /\ crCounts' = Counted(crCounts, crNpcs[n].state, "Gone")
    /\ crNpcs' = [crNpcs EXCEPT ![n].state = "Gone", ![n].timer = FALSE, ![n].target = NoTarget]
    /\ crMoving' = [crMoving EXCEPT ![n].velocity = 0]
    /\ SetAoi(AoiLeave(Aoi, n))
    /\ UNCHANGED crPos

\* The nearest player in sight and within the aggro radius.
PickTarget(n) ==
    LET near == {a \in ComputeVisible(crGrid, n, crGrid[n]) \cap Avatars : Gap(crPos[a], crPos[n]) <= AggroRadius}
        nearest == {a \in near : \A b \in near : Gap(crPos[a], crPos[n]) <= Gap(crPos[b], crPos[n])}
    IN IF near = {} THEN {NoTarget} ELSE nearest
\* A target is kept as long as it is within the radius of the chase.
Targets(n) ==
    LET kept == crNpcs[n].target
    IN IF kept # NoTarget /\ Gap(crPos[n], crPos[kept]) <= ChaseLeave THEN {kept} ELSE PickTarget(n)

NextAiState(n, target) ==
    IF target # NoTarget
    THEN LET d == Gap(crPos[n], crPos[target])
         IN CASE d <= AttackRange -> "Attack" [] d > AttackRange /\ d > ChaseLeave -> "Return" [] OTHER -> "Chase"
    ELSE CASE crNpcs[n].state \in {"Attack", "Chase"} -> "Return"
           [] crNpcs[n].state = "Return" -> IF crPos[n] = HomeOf[n] THEN "Idle" ELSE "Return"
           [] OTHER -> "Patrol"

WayPoint(n) == HomeOf[n] + (IF crNpcs[n].patrol = 0 THEN PatrolRadius ELSE -PatrolRadius)
Velocity(n, next, target) ==
    CASE next = "Patrol" -> Unit(WayPoint(n) - crPos[n])
      [] next = "Chase"  -> Unit(crPos[target] - crPos[n])
      [] next = "Return" -> Unit(HomeOf[n] - crPos[n])
      [] OTHER -> 0

\* DecideAndAct: the velocity is of the state wanted, the state changes only where the table allows.
Decided(n, target) ==
    LET next == NextAiState(n, target)
    IN [crNpcs[n] EXCEPT !.target = target, !.wait = DecisionInterval - 1,
                         !.state = IF CanTransition(@, next) THEN next ELSE @,
                         !.patrol = IF next = "Patrol" /\ WayPoint(n) = crPos[n] THEN 1 - @ ELSE @]

\* One tick: AiSystem::Update for the monsters whose time to decide has come, then Integrate.
CreatureTick ==
    LET deciding == {n \in Npcs : LiveNpc(n) /\ crNpcs[n].wait = 0}
    IN \E targets \in [deciding -> Avatars \cup {NoTarget}] :
          /\ \A n \in deciding : targets[n] \in Targets(n)
          /\ crNpcs' = [n \in Npcs |-> IF n \in deciding THEN Decided(n, targets[n])
                                       ELSE [crNpcs[n] EXCEPT !.wait = IF @ = 0 THEN 0 ELSE @ - 1]]
          /\ crCounts' = [s \in AiStates |-> crCounts[s]
                              + Cardinality({n \in deciding : crNpcs'[n].state = s /\ crNpcs[n].state # s})
                              - Cardinality({n \in deciding : crNpcs[n].state = s /\ crNpcs'[n].state # s})]
          /\ LET willing == [e \in CreatureIds |->
                                IF e \in deciding
                                THEN [crMoving[e] EXCEPT !.velocity = Velocity(e, NextAiState(e, targets[e]), targets[e])]
                                ELSE crMoving[e]]
             IN \E order \in SetToSeqs(CreatureIds) :
                LET sim == Integrate([moving |-> willing, pos |-> crPos, aoi |-> Aoi], order)
                IN /\ crMoving' = NextTick(sim.moving) /\ crPos' = sim.pos /\ SetAoi(sim.aoi)

\* The attacker becomes the target; death stops the monster and sets the timer of its return.
OnDamaged(n, attacker, amount) ==
    LET hp == crNpcs[n].hp - amount
        pulled == IF crNpcs[n].state \in {"Idle", "Patrol", "Return"} /\ CanTransition(crNpcs[n].state, "Chase")
                  THEN "Chase" ELSE crNpcs[n].state
        after == IF hp <= 0 THEN "Dead" ELSE pulled
    IN /\ LiveNpc(n)
       /\ crNpcs' = [crNpcs EXCEPT ![n].hp = hp, ![n].state = after, ![n].timer = hp <= 0,
                                   ![n].target = IF hp <= 0 THEN NoTarget ELSE attacker]
       /\ crCounts' = Counted(crCounts, crNpcs[n].state, after)
       /\ crMoving' = IF hp <= 0 THEN [crMoving EXCEPT ![n].velocity = 0] ELSE crMoving
       /\ UNCHANGED <<crPos, crGrid, crTold>>

Revive(n) ==
    /\ crNpcs[n].timer /\ crNpcs[n].state \in AiStates
    /\ crNpcs' = [crNpcs EXCEPT ![n] = [state |-> "Idle", target |-> NoTarget, hp |-> MaxHp, patrol |-> 0,
                                        wait |-> 0, timer |-> FALSE]]
    /\ crCounts' = Counted(crCounts, crNpcs[n].state, "Idle")
    /\ crPos' = [crPos EXCEPT ![n] = HomeOf[n]]
    /\ crMoving' = [crMoving EXCEPT ![n].pos = HomeOf[n], ![n].velocity = 0]
    /\ SetAoi(AoiMove(Aoi, n, HomeOf[n]))

CreaturesNext ==
    \/ CreatureTick
    \/ \E a \in Avatars : \/ AvatarEnters(a) \/ AvatarLeaves(a)
                          \/ \E to \in Wishes, seq \in 0..MaxSeq : ApplyCommand(a, to, seq)
    \/ \E n \in Npcs : \/ Spawn(n) \/ Despawn(n) \/ Revive(n)
                       \/ \E a \in Avatars, amount \in 1..MaxHp : OnDamaged(n, a, amount)

CreaturesSpec == CreaturesInit /\ [][CreaturesNext]_creatureVars

----------------------------------------------------------------------------
\* Of whom an entity was last told that they are in sight are exactly those within the view radius,
\* both ways; the monsters in each state are counted; a dead one has a timer for its return.
SightsAndStatesAreTold ==
    /\ \A e \in CreatureIds, o \in CreatureIds :
          <<e, o>> \in crTold <=> e # o /\ crGrid[e] # NoPos /\ crGrid[o] # NoPos /\ Gap(crGrid[e], crGrid[o]) <= ViewRadius
    /\ \A s \in AiStates : crCounts[s] = Cardinality({n \in Npcs : crNpcs[n].state = s})
    /\ \A n \in Npcs : crNpcs[n].timer <=> crNpcs[n].state = "Dead"

\* A player who is within the world and no faster than allowed moves no further at once than a legal
\* step, and stays so until such a step takes him over the border.
WithinLimits(a) == Valid(crPos[a]) /\ Gap(crMoving[a].velocity, 0) <= LegalStep
StepsAreLegal ==
    [][\A a \in Avatars :
          WithinLimits(a) => /\ Gap(crPos[a], crPos'[a]) <= LegalStep
                             /\ Valid(crPos'[a]) => WithinLimits(a)']_creatureVars

\* No player ever moves further at once than a legal step.  A step that is cut for its length is not
\* cut at the border; who is outside is put back onto it at once, and goes on at that speed.
NobodyLeaps == [][\A a \in Avatars : Gap(crPos[a], crPos'[a]) <= LegalStep]_creatureVars

\* Every entity in the grid is within the world and at the same place in all three records.
PlacesAgree ==
    \A e \in CreatureIds : crGrid[e] # NoPos => crGrid[e] = crPos[e] /\ crPos[e] = crMoving[e].pos /\ Valid(crPos[e])

\* A monster that decides to go on chasing moves at that tick.
ChasersMove ==
    [][\A n \in Npcs : crNpcs[n].state = "Chase" /\ crNpcs[n].wait = 0 /\ crNpcs'[n].state = "Chase" /\ crNpcs'[n].wait # 0
                          => crPos'[n] # crPos[n]]_creatureVars
=============================================================================
