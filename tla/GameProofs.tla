----------------------------- MODULE GameProofs -----------------------------
(* Theorems about the systems of a game node, for every value of their      *)
(* constants: those that move its scenes, laid out as in PlayersProofs, and *)
(* in the last section all of them side by side.                            *)
EXTENDS Game, PlayersProofs

------------------------------------------------------------------------------
(* What drives a simulation, for any interval, catch-up and phases: ticks   *)
(* run their stages in order and keep to the beat of the clock, a client's  *)
(* loop owes less than a step, checkpoints are numbered without a gap.      *)

(* What drives a simulation: the scheduler's thread and its clock.          *)
PhasesInOrder(list) == list \in Seq(Phases) /\ Increasing(list)
SchedulerIInv ==
  /\ PhasesInOrder(smStages) /\ PhasesInOrder(smRan)
  /\ smSeeded \in BOOLEAN /\ smRunning \in BOOLEAN /\ smThread \in {"none", "wait", "fire"}
  /\ smNow \in Nat /\ smLast \in Nat /\ smNext \in Nat /\ smAnchor \in Nat /\ smTicks \in Nat
  /\ smAfter \in {0, 1}
  /\ smSeeded => smLast = smAnchor + smTicks * Interval /\ smNext = smLast + Interval
  /\ smThread # "none" => smSeeded /\ smLast <= smNow
  /\ smThread = "fire" => smNext <= smNow
  /\ smRunning \/ smThread = "fire" => smAfter = 0

LEMMA PhasesListed ==
  ASSUME NEW list, PhasesInOrder(list)
  PROVE  ToSet(list) \in SUBSET Phases /\ IsFiniteSet(ToSet(list))
<1>1. list \in Seq(Phases) /\ Phases \subseteq Nat BY SimulationAssumption DEF PhasesInOrder
<1>2. Len(list) \in Nat /\ DOMAIN list = 1 .. Len(list) /\ \A i \in DOMAIN list : list[i] \in Phases
  BY <1>1, LenProperties, ElementOfSeq
<1>3. NoRepeat(list)
  <2> SUFFICES ASSUME NEW i \in DOMAIN list, NEW j \in DOMAIN list, i < j PROVE list[i] # list[j]
    BY <1>2 DEF NoRepeat
  <2>1. list[i] < list[j] /\ list[i] \in Nat /\ list[j] \in Nat
    BY <1>1, <1>2 DEF PhasesInOrder, Increasing
  <2> QED BY <2>1
<1>4. ToSet(list) = Members(list) BY DEF ToSet, Members
<1> QED BY <1>1, <1>2, <1>3, <1>4, CountMembers DEF ToSet

LEMMA InPhaseIsInOrder ==
  ASSUME NEW S \in SUBSET Phases, IsFiniteSet(S)
  PROVE  PhasesInOrder(InPhase(S))
<1>1. S \in SUBSET Int
  <2> SUFFICES ASSUME NEW x \in S PROVE x \in Int OBVIOUS
  <2>1. x \in Nat BY SimulationAssumption
  <2> QED BY <2>1
<1>2. InPhase(S) \in Seq(S) /\ Increasing(InPhase(S)) BY <1>1, ChosenInOrder DEF InPhase
<1>3. InPhase(S) \in Seq(Phases)
  <2> DEFINE s == InPhase(S)
  <2> HIDE DEF s
  <2>1. s \in Seq(Phases) BY <1>2 DEF s
  <2> QED BY <2>1 DEF s
<1> QED BY <1>2, <1>3 DEF PhasesInOrder

LEMMA TickRunsInOrder ==
  ASSUME NEW thrown, PhasesInOrder(smStages), FireTick(thrown)
  PROVE  PhasesInOrder(smRan')
<1>1. ToSet(smStages) \ thrown \in SUBSET Phases /\ IsFiniteSet(ToSet(smStages) \ thrown)
  BY PhasesListed, FS_Subset
<1> QED BY <1>1, InPhaseIsInOrder DEF FireTick

LEMMA RatioIsNatural ==
  ASSUME NEW a \in Nat, NEW b \in Nat \ {0}
  PROVE  /\ a \div b \in Nat /\ (a \div b) * b \in Nat /\ (a \div b) * b <= a
         /\ a - (a \div b) * b < b
<1> DEFINE q == a \div b
           r == a % b
<1>1. q \in Int /\ r \in 0 .. b - 1 /\ a = b * q + r OBVIOUS
<1> HIDE DEF q, r
<1>2. q >= 0
  <2> SUFFICES ASSUME q < 0 PROVE FALSE BY <1>1
  <2>1. b * q <= -b BY <1>1
  <2> QED BY <1>1, <2>1
<1> QED BY <1>1, <1>2 DEF q

LEMMA StepsAreNatural ==
  ASSUME NEW now \in Nat, NEW prev \in Nat
  PROVE  AtMostOf(MaxCatchUp, CatchUpSteps(now, prev)) \in Nat
<1>1. MaxCatchUp \in Nat /\ ClockCatchUp \in Nat /\ Interval \in Nat \ {0}
  BY SimulationAssumption
<1>2. CASE now - prev < Interval BY <1>1, <1>2 DEF AtMostOf, CatchUpSteps
<1>3. CASE ~(now - prev < Interval)
  <2>1. (now - prev) \div Interval \in Nat BY <1>1, <1>3, RatioIsNatural
  <2> DEFINE q == (now - prev) \div Interval
  <2>2. CatchUpSteps(now, prev) = AtMostOf(q, ClockCatchUp) BY <1>3 DEF CatchUpSteps
  <2> HIDE DEF q
  <2> QED BY <1>1, <2>1, <2>2 DEF AtMostOf, q
<1> QED BY <1>2, <1>3

(* However many steps are made up for, the beat is kept; a step that is     *)
(* due comes one at a time.                                                 *)
LEMMA RunKeepsBeat ==
  ASSUME SchedulerIInv, NEW deadline \in Nat, RunTo(deadline)
  PROVE  /\ smLast' \in Nat /\ smNext' \in Nat /\ smAnchor' \in Nat /\ smTicks' \in Nat /\ smSeeded' = TRUE
         /\ smLast' = smAnchor' + smTicks' * Interval /\ smNext' = smLast' + Interval
         /\ smSeeded /\ deadline = smNext => smLast' <= deadline
<1>1. Interval \in Nat \ {0} /\ MaxCatchUp \in Nat \ {0} /\ ClockCatchUp \in Nat \ {0}
  BY SimulationAssumption
<1>2. smLast \in Nat /\ smTicks \in Nat /\ smAnchor \in Nat /\ smSeeded \in BOOLEAN
      /\ (smSeeded => smLast = smAnchor + smTicks * Interval /\ smNext = smLast + Interval)
  BY DEF SchedulerIInv
<1>3. CASE ~smSeeded BY <1>1, <1>2, <1>3 DEF RunTo, NextTickDeadline
<1>4. CASE smSeeded
  <2> DEFINE steps == AtMostOf(MaxCatchUp, CatchUpSteps(deadline, smLast))
  <2>1. steps \in Nat BY <1>2, StepsAreNatural
  <2>2. /\ smLast' = smLast + steps * Interval /\ smNext' = smLast' + Interval
        /\ smTicks' = smTicks + steps /\ smSeeded' = smSeeded /\ smAnchor' = smAnchor
    BY <1>4 DEF RunTo, NextTickDeadline
  <2>3. ASSUME deadline = smNext PROVE steps = 1
    <3>1. Interval \div Interval = 1
      <4>1. Interval = 1 * Interval BY <1>1
      <4> QED BY <1>1
    <3>2. CatchUpSteps(deadline, smLast) = AtMostOf(1, ClockCatchUp)
      BY <1>1, <1>2, <1>4, <2>3, <3>1 DEF CatchUpSteps
    <3> QED BY <1>1, <3>2 DEF AtMostOf
  <2> HIDE DEF steps
  <2>4. steps * Interval \in Nat /\ (smTicks + steps) * Interval = smTicks * Interval + steps * Interval
        /\ smTicks * Interval \in Nat
    BY <1>1, <1>2, <2>1
  <2> DEFINE a == steps * Interval
             b == smTicks * Interval
  <2> HIDE DEF a, b
  <2>5. smLast' \in Nat /\ smNext' \in Nat /\ smTicks' \in Nat /\ smLast' = smAnchor' + smTicks' * Interval
    BY <1>1, <1>2, <1>4, <2>1, <2>2, <2>4 DEF a, b
  <2>6. deadline = smNext => smLast' <= deadline
    <3> SUFFICES ASSUME deadline = smNext PROVE smLast' <= deadline OBVIOUS
    <3> QED BY <1>1, <1>2, <1>4, <2>2, <2>3
  <2> QED BY <1>2, <1>4, <2>2, <2>5, <2>6
<1> QED BY <1>2, <1>3, <1>4

LEMMA SchedulerStarts == SimulationInit => SchedulerIInv
<1> SUFFICES ASSUME SimulationInit PROVE SchedulerIInv OBVIOUS
<1>1. PhasesInOrder(<<>>) BY DEF PhasesInOrder, Increasing
<1> QED BY <1>1 DEF SimulationInit, SchedulerIInv

LEMMA SchedulerSteps == SchedulerIInv /\ [SchedulerNext]_smVars => SchedulerIInv'
<1> SUFFICES ASSUME SchedulerIInv, [SchedulerNext]_smVars PROVE SchedulerIInv' OBVIOUS
<1> USE DEF SchedulerIInv
<1>1. ASSUME NEW phase \in Phases, RegisterStage(phase) PROVE SchedulerIInv'
  <2>1. ToSet(smStages) \cup {phase} \in SUBSET Phases /\ IsFiniteSet(ToSet(smStages) \cup {phase})
    BY PhasesListed, FS_AddElement
  <2>2. PhasesInOrder(smStages') BY <1>1, <2>1, InPhaseIsInOrder DEF RegisterStage
  <2> QED BY <1>1, <2>2 DEF RegisterStage
<1>2. ASSUME NEW deadline \in 0 .. MaxTime, RunUntil(deadline) PROVE SchedulerIInv'
  <2>1. deadline \in Nat /\ RunTo(deadline) /\ smThread = "none"
        /\ UNCHANGED <<smStages, smNow, smRunning, smThread, smAfter, smBurst>>
    BY <1>2 DEF RunUntil
  <2>2. PhasesInOrder(smRan') BY <1>2, TickRunsInOrder DEF RunUntil
  <2> QED BY <2>1, <2>2, RunKeepsBeat
<1>3. CASE StartLoop BY <1>3, SimulationAssumption DEF StartLoop, NextTickDeadline
<1>4. CASE StopLoop BY <1>4 DEF StopLoop
<1>5. CASE Wake BY <1>5 DEF Wake
<1>6. CASE LoopTicks
  <2>1. smThread = "fire" /\ smThread' = "wait" /\ RunTo(smNext) /\ smSeeded /\ smNext <= smNow
        /\ UNCHANGED <<smStages, smNow, smRunning>> /\ smNext \in Nat
        /\ smAfter' = IF smRunning THEN 0 ELSE smAfter + 1
    BY <1>6 DEF LoopTicks
  <2>2. /\ smLast' \in Nat /\ smNext' \in Nat /\ smAnchor' \in Nat /\ smTicks' \in Nat /\ smSeeded' = TRUE
        /\ smLast' = smAnchor' + smTicks' * Interval /\ smNext' = smLast' + Interval
        /\ smLast' <= smNext
    BY <2>1, RunKeepsBeat
  <2>3. smLast' <= smNow' BY <2>1, <2>2
  <2> QED BY <1>6, <2>1, <2>2, <2>3, TickRunsInOrder DEF LoopTicks
<1>7. CASE TimePasses BY <1>7 DEF TimePasses
<1>8. CASE UNCHANGED smVars BY <1>8 DEF smVars
<1> HIDE DEF SchedulerIInv
<1> QED BY <1>1, <1>2, <1>3, <1>4, <1>5, <1>6, <1>7, <1>8 DEF SchedulerNext

LEMMA SchedulerSafe == SchedulerIInv => TicksKeepTheBeat
BY DEF SchedulerIInv, TicksKeepTheBeat, PhasesInOrder, Increasing

(* A client's frames.                                                       *)
LoopIInv ==
  /\ glAcc \in Nat /\ glSim \in Nat /\ glElapsed \in Nat /\ glLost \in Nat /\ glCatchups \in Nat
  /\ LoopKeepsTime

LEMMA LoopStarts == SimulationInit => LoopIInv
BY SimulationAssumption DEF SimulationInit, LoopIInv, LoopKeepsTime

LEMMA LoopSteps == LoopIInv /\ [FramesNext]_glVars => LoopIInv'
<1> SUFFICES ASSUME LoopIInv, [FramesNext]_glVars PROVE LoopIInv' OBVIOUS
<1>1. CASE UNCHANGED glVars BY <1>1 DEF glVars, LoopIInv, LoopKeepsTime
<1>2. ASSUME NEW delta \in FrameTimes, Frame(delta) PROVE LoopIInv'
  <2> DEFINE acc == glAcc + delta
             steps == AtMostOf(acc \div FixedDt, MaxCatch)
             used == steps * FixedDt
             left == IF steps = MaxCatch THEN 0 ELSE acc - used
  <2>1. FixedDt \in Nat \ {0} /\ MaxCatch \in Nat \ {0} /\ delta \in Nat BY SimulationAssumption
  <2>2. /\ glElapsed' = glElapsed + delta /\ glSim' = glSim + used /\ glAcc' = left
        /\ glLost' = glLost + (acc - used - left)
        /\ glCatchups' = glCatchups + (IF steps = MaxCatch THEN 1 ELSE 0)
    BY <1>2 DEF Frame, StepsOf
  <2>3. /\ glAcc \in Nat /\ glSim \in Nat /\ glElapsed \in Nat /\ glLost \in Nat /\ glCatchups \in Nat
        /\ glElapsed = glSim + glAcc + glLost /\ (glLost > 0 => glCatchups > 0)
    BY DEF LoopIInv, LoopKeepsTime
  <2>4. acc \in Nat BY <2>1, <2>3
  <2>5. used \in Nat /\ used <= acc /\ (steps # MaxCatch => acc - used < FixedDt)
    <3> DEFINE q == acc \div FixedDt
    <3> HIDE DEF acc
    <3>1. q \in Nat /\ q * FixedDt \in Nat /\ q * FixedDt <= acc /\ acc - q * FixedDt < FixedDt
      BY <2>1, <2>4, RatioIsNatural
    <3> HIDE DEF q
    <3>2. steps = AtMostOf(q, MaxCatch) BY DEF q
    <3>3. CASE q < MaxCatch
      <4>1. steps = q BY <3>2, <3>3 DEF AtMostOf
      <4> HIDE DEF steps
      <4> QED BY <3>1, <4>1
    <3>4. CASE ~(q < MaxCatch)
      <4>1. steps = MaxCatch /\ MaxCatch <= q BY <2>1, <3>1, <3>2, <3>4 DEF AtMostOf
      <4>2. MaxCatch * FixedDt \in Nat /\ MaxCatch * FixedDt <= q * FixedDt BY <2>1, <3>1, <4>1
      <4> HIDE DEF steps
      <4> QED BY <2>1, <2>4, <3>1, <4>1, <4>2
    <3> QED BY <3>3, <3>4
  <2> HIDE DEF steps, used, acc
  <2>6. left \in Nat /\ left < FixedDt /\ acc - used - left \in Nat /\ (steps # MaxCatch => left = acc - used)
    BY <2>1, <2>4, <2>5
  <2> HIDE DEF left
  <2>7. /\ glAcc' \in Nat /\ glSim' \in Nat /\ glElapsed' \in Nat /\ glLost' \in Nat /\ glCatchups' \in Nat
        /\ glElapsed' = glSim' + glAcc' + glLost' /\ glAcc' < FixedDt
    BY <2>1, <2>2, <2>3, <2>4, <2>5, <2>6 DEF acc
  <2> QED BY <2>2, <2>3, <2>4, <2>5, <2>6, <2>7 DEF LoopIInv, LoopKeepsTime
<1> QED BY <1>1, <1>2 DEF FramesNext

(* The checkpoints of scenes.                                               *)
CheckpointGrows ==
  \A s \in DOMAIN rcStore :
     /\ s \in DOMAIN rcStore'
     /\ rcStore'[s] # rcStore[s] => rcStore'[s].number = rcStore[s].number + 1

LEMMA CheckpointStep == RecoveryNext => CheckpointGrows
<1> SUFFICES ASSUME RecoveryNext PROVE CheckpointGrows OBVIOUS
<1>1. CASE rcStore' = rcStore BY <1>1 DEF CheckpointGrows
<1>2. ASSUME NEW n \in SceneHosts, NEW s \in SceneIds, Checkpoint(n, s) PROVE CheckpointGrows
  <2> DEFINE number == IF s \in DOMAIN rcStore THEN rcStore[s].number + 1 ELSE 1
             made == [owner |-> n, version |-> rcScenes[n][s].version, state |-> rcScenes[n][s].state,
                      number |-> number]
  <2>1. rcStore' = rcStore \/ rcStore' = [t \in DOMAIN rcStore \cup {s} |-> IF t = s THEN made ELSE rcStore[t]]
    BY <1>2 DEF Checkpoint
  <2>2. made.number = number OBVIOUS
  <2> HIDE DEF made
  <2> QED BY <1>1, <2>1, <2>2 DEF CheckpointGrows
<1> QED BY <1>1, <1>2 DEF RecoveryNext, BeginScene, TransitionTo, FailNextCheckpoint, Restore, HostDies

------------------------------------------------------------------------------
(* Scenes, players and instances, for any number of each: an entity is      *)
(* alive in the scene it is listed in, and goes with it.                    *)

(* Scenes: the entities in them, the monsters that were spawned for         *)
(* instances, the avatars of the players, and the components.               *)
Entity == [phase : {"free", "alive", "dead"}, gen : Nat \ {0}, kind : {"npc", "player"},
           scene : {Nowhere} \cup {InstanceScene(i) : i \in Nat} \cup {Shard(n) : n \in Nat}]
Monster(ents, s) == ents[s].phase = "alive" /\ ents[s].kind = "npc"
(* What was spawned under an identity is a monster as long as the slot has  *)
(* the identity still.                                                      *)
SpawnsAre(ents, spawned) ==
  \A i \in DOMAIN spawned : \A id \in spawned[i] :
      \E s \in EntitySlots, g \in Nat : /\ id = <<s, g>> /\ g <= ents[s].gen
                                        /\ g = ents[s].gen => Monster(ents, s)
NpcsAre(ents, spawned) ==
  \A s \in EntitySlots : Monster(ents, s) => \E i \in DOMAIN spawned : <<s, ents[s].gen>> \in spawned[i]
IsAvatar(ents, id) ==
  \E s \in EntitySlots : id = <<s, ents[s].gen>> /\ ents[s].phase = "alive" /\ ents[s].kind = "player"
AvatarsAre(ents, scenes) ==
  \A a \in DOMAIN scenes : \A p \in DOMAIN scenes[a].players : IsAvatar(ents, scenes[a].players[p])
OnePlace(scenes) ==
  \A a, b \in DOMAIN scenes : \A p \in DOMAIN scenes[a].players, q \in DOMAIN scenes[b].players :
      /\ p = q => a = b
      /\ scenes[a].players[p] = scenes[b].players[q] => p = q /\ a = b
PartsAre(ents, parts) ==
  \A s \in EntitySlots : parts[s] # NoId =>
      parts[s] = <<s, ents[s].gen - (IF ents[s].phase = "dead" THEN 1 ELSE 0)>>

LEMMA EntitiesDestroyed ==
  ASSUME NEW ents \in [EntitySlots -> Entity], NEW ids
  PROVE  LET new == DestroyEntities(ents, ids)
         IN /\ new \in [EntitySlots -> Entity]
            /\ \A spawned : SpawnsAre(ents, spawned) => SpawnsAre(new, spawned)
            /\ \A s \in EntitySlots : Monster(new, s) => /\ Monster(ents, s) /\ new[s].gen = ents[s].gen
                                                        /\ <<s, ents[s].gen>> \notin ids
            /\ \A id : IsAvatar(ents, id) /\ id \notin ids => IsAvatar(new, id)
            /\ \A parts : PartsAre(ents, parts) => PartsAre(new, parts)
<1> DEFINE new == DestroyEntities(ents, ids)
           hit(s) == <<s, ents[s].gen>> \in ids /\ ents[s].phase = "alive"
<1>1. ASSUME NEW s \in EntitySlots
      PROVE  /\ ents[s] \in Entity /\ ents[s].gen \in Nat \ {0} /\ new[s] \in Entity /\ new[s].kind = ents[s].kind
             /\ hit(s) => new[s].phase = "dead" /\ new[s].gen = ents[s].gen + 1
             /\ ~hit(s) => new[s] = ents[s]
  <2>1. ents[s] \in Entity /\ ents[s].gen \in Nat \ {0} /\ ents[s].gen + 1 \in Nat \ {0}
    BY DEF Entity
  <2>2. new[s] = IF hit(s) THEN [ents[s] EXCEPT !.phase = "dead", !.gen = @ + 1] ELSE ents[s]
    BY DEF DestroyEntities
  <2> DEFINE e == ents[s]
             x == [e EXCEPT !.phase = "dead", !.gen = @ + 1]
  <2>3. x \in Entity /\ x.kind = e.kind /\ x.phase = "dead" /\ x.gen = e.gen + 1
    <3> HIDE DEF e
    <3> QED BY <2>1 DEF Entity, e
  <2> HIDE DEF hit, new, x
  <2> QED BY <2>1, <2>2, <2>3 DEF x
<1>2. DOMAIN new = EntitySlots /\ new = [s \in EntitySlots |-> new[s]] BY DEF DestroyEntities
<1> HIDE DEF new
<1>3. ASSUME NEW spawned, SpawnsAre(ents, spawned) PROVE SpawnsAre(new, spawned)
  <2> SUFFICES ASSUME NEW i \in DOMAIN spawned, NEW id \in spawned[i]
               PROVE  \E s \in EntitySlots, g \in Nat : /\ id = <<s, g>> /\ g <= new[s].gen
                                                        /\ g = new[s].gen => Monster(new, s)
    BY DEF SpawnsAre
  <2>1. PICK s \in EntitySlots, g \in Nat : /\ id = <<s, g>> /\ g <= ents[s].gen
                                            /\ g = ents[s].gen => Monster(ents, s)
    BY <1>3 DEF SpawnsAre
  <2>2. CASE hit(s) BY <1>1, <2>1, <2>2
  <2>3. CASE ~hit(s) BY <1>1, <2>1, <2>3 DEF Monster
  <2> QED BY <2>2, <2>3
<1>4. ASSUME NEW s \in EntitySlots, Monster(new, s)
      PROVE  Monster(ents, s) /\ new[s].gen = ents[s].gen /\ <<s, ents[s].gen>> \notin ids
  BY <1>1, <1>4 DEF Monster
<1>5. ASSUME NEW id, IsAvatar(ents, id), id \notin ids PROVE IsAvatar(new, id)
  <2>1. PICK s \in EntitySlots : id = <<s, ents[s].gen>> /\ ents[s].phase = "alive" /\ ents[s].kind = "player"
    BY <1>5 DEF IsAvatar
  <2> QED BY <1>1, <1>5, <2>1 DEF IsAvatar
<1>6. ASSUME NEW parts, PartsAre(ents, parts) PROVE PartsAre(new, parts)
  <2>1. ASSUME NEW s \in EntitySlots, parts[s] # NoId
        PROVE  parts[s] = <<s, new[s].gen - (IF new[s].phase = "dead" THEN 1 ELSE 0)>>
    <3>1. parts[s] = <<s, ents[s].gen - (IF ents[s].phase = "dead" THEN 1 ELSE 0)>>
      BY <1>6, <2>1 DEF PartsAre
    <3>2. CASE hit(s) BY <1>1, <3>1, <3>2
    <3>3. CASE ~hit(s) BY <1>1, <3>1, <3>3
    <3> QED BY <3>2, <3>3
  <2> QED BY <2>1 DEF PartsAre
<1> QED BY <1>1, <1>2, <1>3, <1>4, <1>5, <1>6 DEF new

LEMMA EntitiesCreated ==
  ASSUME woEntities \in [EntitySlots -> Entity], NEW slots \in SUBSET FreeSlots, NEW kind \in {"npc", "player"},
         NEW scene, scene \in {InstanceScene(i) : i \in Nat} \cup {Shard(n) : n \in Nat}
  PROVE  LET new == CreateEntities(slots, kind, scene)
         IN /\ new \in [EntitySlots -> Entity]
            /\ \A spawned : SpawnsAre(woEntities, spawned) => SpawnsAre(new, spawned)
            /\ \A s \in EntitySlots : new[s].gen = woEntities[s].gen
            /\ \A s \in slots : new[s].phase = "alive" /\ new[s].kind = kind
            /\ \A s \in EntitySlots \ slots : new[s] = woEntities[s]
            /\ \A id : IsAvatar(woEntities, id) => IsAvatar(new, id) /\ id \notin IdsIn(slots)
            /\ \A parts : PartsAre(woEntities, parts) => PartsAre(new, parts)
            /\ kind = "npc" => \A id \in IdsIn(slots) : \E s \in EntitySlots, g \in Nat :
                                  /\ id = <<s, g>> /\ g = new[s].gen /\ Monster(new, s)
            /\ kind = "player" => \A id \in IdsIn(slots) : IsAvatar(new, id)
<1> DEFINE ents == woEntities
           new == CreateEntities(slots, kind, scene)
<1>1. slots \subseteq EntitySlots /\ \A s \in slots : ents[s].phase = "free" BY DEF FreeSlots
<1>2. ASSUME NEW s \in EntitySlots
      PROVE  /\ ents[s] \in Entity /\ ents[s].gen \in Nat \ {0} /\ new[s] \in Entity /\ new[s].gen = ents[s].gen
             /\ s \in slots => new[s].phase = "alive" /\ new[s].kind = kind
             /\ s \notin slots => new[s] = ents[s]
  <2> DEFINE e == ents[s]
             x == [e EXCEPT !.phase = "alive", !.kind = kind, !.scene = scene]
  <2>1. e \in Entity OBVIOUS
  <2>2. new[s] = IF s \in slots THEN x ELSE e BY DEF CreateEntities
  <2> HIDE DEF e, new
  <2>3. x \in Entity /\ x.kind = kind /\ x.phase = "alive" /\ x.gen = e.gen /\ e.gen \in Nat \ {0}
    BY <2>1 DEF Entity
  <2> HIDE DEF x
  <2> QED BY <2>1, <2>2, <2>3 DEF e
<1>3. DOMAIN new = EntitySlots /\ new = [s \in EntitySlots |-> new[s]] BY DEF CreateEntities
<1>4. \A id \in IdsIn(slots) : \E s \in slots : id = <<s, ents[s].gen>> BY DEF IdsIn
<1> HIDE DEF new
<1>5. new \in [EntitySlots -> Entity] BY <1>2, <1>3
<1>6. ASSUME NEW spawned, SpawnsAre(ents, spawned) PROVE SpawnsAre(new, spawned)
  <2> SUFFICES ASSUME NEW i \in DOMAIN spawned, NEW id \in spawned[i]
               PROVE  \E s \in EntitySlots, g \in Nat : /\ id = <<s, g>> /\ g <= new[s].gen
                                                        /\ g = new[s].gen => Monster(new, s)
    BY DEF SpawnsAre
  <2>1. PICK s \in EntitySlots, g \in Nat : /\ id = <<s, g>> /\ g <= ents[s].gen
                                            /\ g = ents[s].gen => Monster(ents, s)
    BY <1>6 DEF SpawnsAre
  <2> QED BY <1>1, <1>2, <2>1 DEF Monster
<1>7. ASSUME NEW id, IsAvatar(ents, id) PROVE IsAvatar(new, id) /\ id \notin IdsIn(slots)
  <2>1. PICK s \in EntitySlots : id = <<s, ents[s].gen>> /\ ents[s].phase = "alive" /\ ents[s].kind = "player"
    BY <1>7 DEF IsAvatar
  <2>2. s \notin slots /\ new[s] = ents[s] BY <1>1, <1>2, <2>1
  <2> QED BY <1>4, <2>1, <2>2 DEF IsAvatar
<1>8. ASSUME NEW parts, PartsAre(ents, parts) PROVE PartsAre(new, parts)
  BY <1>1, <1>2, <1>8 DEF PartsAre
<1>9. ASSUME kind = "npc", NEW id \in IdsIn(slots)
      PROVE  \E s \in EntitySlots, g \in Nat : /\ id = <<s, g>> /\ g = new[s].gen /\ Monster(new, s)
  BY <1>1, <1>2, <1>4, <1>9 DEF Monster
<1>10. ASSUME kind = "player", NEW id \in IdsIn(slots) PROVE IsAvatar(new, id)
  BY <1>1, <1>2, <1>4, <1>10 DEF IsAvatar
<1> QED BY <1>1, <1>2, <1>5, <1>6, <1>7, <1>8, <1>9, <1>10 DEF new

(* Of the free slots as many are taken as are asked for and there are.      *)
LEMMA PartOfCardinality ==
  ASSUME NEW S, IsFiniteSet(S), NEW k \in Nat, k <= Cardinality(S)
  PROVE  \E T \in SUBSET S : Cardinality(T) = k
<1>1. Cardinality(S) \in Nat /\ ExistsBijection(1 .. Cardinality(S), S) BY FS_CardinalityType
<1>2. PICK f : f \in Bijection(1 .. Cardinality(S), S) BY <1>1 DEF ExistsBijection
<1> DEFINE T == {f[i] : i \in 1 .. k}
           g == [i \in 1 .. k |-> f[i]]
<1>3. /\ f \in [1 .. Cardinality(S) -> S] /\ \A i, j \in 1 .. Cardinality(S) : f[i] = f[j] => i = j
  BY <1>2 DEF Bijection, Injection, IsInjective
<1>4. \A i \in 1 .. k : i \in 1 .. Cardinality(S) BY <1>1
<1>5. T \in SUBSET S BY <1>3, <1>4
<1>6. g \in [1 .. k -> T] /\ (\A i, j \in 1 .. k : g[i] = g[j] => i = j) /\ \A t \in T : \E i \in 1 .. k : g[i] = t
  BY <1>3, <1>4
<1> HIDE DEF T, g
<1>7. Cardinality(T) = k
  BY <1>6, FS_CountingElements DEF ExistsBijection, Bijection, Injection, Surjection, IsInjective
<1> QED BY <1>5, <1>7

LEMMA SlotsAreFree ==
  ASSUME NEW n \in Nat
  PROVE  /\ SlotsFor(n) \in SUBSET FreeSlots
         /\ n = 1 /\ FreeSlots # {} => IdsIn(SlotsFor(n)) # {}
<1>1. IsFiniteSet(FreeSlots) BY WorldAssumption, FS_Subset DEF FreeSlots
<1>2. Cardinality(FreeSlots) \in Nat BY <1>1, FS_CardinalityType
<1>3. \E T \in SUBSET FreeSlots : Cardinality(T) = AtMost(n)
  BY <1>1, <1>2, PartOfCardinality DEF AtMost
<1>4. SlotsFor(n) \in SUBSET FreeSlots /\ Cardinality(SlotsFor(n)) = AtMost(n)
  BY <1>3 DEF SlotsFor
<1>5. ASSUME n = 1, FreeSlots # {} PROVE IdsIn(SlotsFor(n)) # {}
  <2>1. AtMost(n) = 1 BY <1>1, <1>2, <1>5, FS_EmptySet DEF AtMost
  <2>2. SlotsFor(n) # {} BY <1>4, <2>1, FS_EmptySet
  <2> QED BY <2>2 DEF IdsIn
<1> QED BY <1>4, <1>5

SceneShape(x) == x = [state |-> x.state, players |-> x.players]
ScenesAre(scenes) == \A a \in DOMAIN scenes : SceneShape(scenes[a])
Present(scenes, p) == \E a \in DOMAIN scenes : p \in DOMAIN scenes[a].players
Used(scenes, id) == \E a \in DOMAIN scenes : \E p \in DOMAIN scenes[a].players : scenes[a].players[p] = id

LEMMA PlayerEnters ==
  ASSUME NEW scenes, ScenesAre(scenes), OnePlace(scenes), NEW ents, AvatarsAre(ents, scenes),
         NEW scene \in DOMAIN scenes, NEW p, NEW avatar, IsAvatar(ents, avatar),
         ~Present(scenes, p), ~Used(scenes, avatar)
  PROVE  LET new == Entered(scenes, scene, p, avatar)
         IN ScenesAre(new) /\ OnePlace(new) /\ AvatarsAre(ents, new) /\ DOMAIN new = DOMAIN scenes
<1> DEFINE old == scenes[scene]
           players == [q \in DOMAIN old.players \cup {p} |-> IF q = p THEN avatar ELSE old.players[q]]
           room == [old EXCEPT !.players = players]
           new == [scenes EXCEPT ![scene] = room]
<1>1. Entered(scenes, scene, p, avatar) = new BY DEF Entered
<1>2. room = [state |-> old.state, players |-> players] /\ room.players = players /\ SceneShape(room)
  <2>1. old = [state |-> old.state, players |-> old.players] BY DEF ScenesAre, SceneShape
  <2> HIDE DEF old, players
  <2> QED BY <2>1 DEF SceneShape
<1> HIDE DEF room
<1>3. DOMAIN new = DOMAIN scenes /\ new[scene] = room /\ \A a \in DOMAIN scenes : a # scene => new[a] = scenes[a]
  OBVIOUS
<1> HIDE DEF new
<1>4. ASSUME NEW a \in DOMAIN new, NEW q \in DOMAIN new[a].players
      PROVE  \/ a = scene /\ q = p /\ new[a].players[q] = avatar
             \/ /\ a \in DOMAIN scenes /\ q \in DOMAIN scenes[a].players /\ new[a].players[q] = scenes[a].players[q]
                /\ q # p /\ scenes[a].players[q] # avatar
  <2>1. CASE a = scene BY <1>2, <1>3, <2>1 DEF Present, Used
  <2>2. CASE a # scene BY <1>3, <2>2 DEF Present, Used
  <2> QED BY <2>1, <2>2
<1>5. AvatarsAre(ents, new) BY <1>4 DEF AvatarsAre
<1>6. OnePlace(new)
  <2> SUFFICES ASSUME NEW a \in DOMAIN new, NEW b \in DOMAIN new,
                      NEW x \in DOMAIN new[a].players, NEW y \in DOMAIN new[b].players
               PROVE  /\ x = y => a = b
                      /\ new[a].players[x] = new[b].players[y] => x = y /\ a = b
    BY DEF OnePlace
  <2> QED BY <1>4 DEF OnePlace
<1> QED BY <1>1, <1>2, <1>3, <1>5, <1>6 DEF ScenesAre

LEMMA PlayerLeaves ==
  ASSUME NEW scenes, ScenesAre(scenes), OnePlace(scenes), NEW ents, AvatarsAre(ents, scenes),
         NEW scene \in DOMAIN scenes, NEW p \in DOMAIN scenes[scene].players
  PROVE  LET new == LeftScene(scenes, scene, p)
         IN /\ ScenesAre(new) /\ OnePlace(new) /\ AvatarsAre(ents, new) /\ DOMAIN new = DOMAIN scenes
            /\ ~Present(new, p) /\ ~Used(new, scenes[scene].players[p])
            /\ \A id : Used(new, id) => Used(scenes, id)
<1> DEFINE old == scenes[scene]
           players == [q \in DOMAIN old.players \ {p} |-> old.players[q]]
           room == [old EXCEPT !.players = players]
           new == [scenes EXCEPT ![scene] = room]
<1>1. LeftScene(scenes, scene, p) = new BY DEF LeftScene
<1>2. room = [state |-> old.state, players |-> players] /\ room.players = players /\ SceneShape(room)
  <2>1. old = [state |-> old.state, players |-> old.players] BY DEF ScenesAre, SceneShape
  <2> HIDE DEF old, players
  <2> QED BY <2>1 DEF SceneShape
<1> HIDE DEF room
<1>3. DOMAIN new = DOMAIN scenes /\ new[scene] = room /\ \A a \in DOMAIN scenes : a # scene => new[a] = scenes[a]
  OBVIOUS
<1> HIDE DEF new
<1>4. ASSUME NEW a \in DOMAIN new, NEW q \in DOMAIN new[a].players
      PROVE  /\ a \in DOMAIN scenes /\ q \in DOMAIN scenes[a].players /\ new[a].players[q] = scenes[a].players[q]
             /\ a = scene => q # p
  <2>1. CASE a = scene BY <1>2, <1>3, <2>1
  <2>2. CASE a # scene BY <1>3, <2>2
  <2> QED BY <2>1, <2>2
<1>5. ScenesAre(new) BY <1>2, <1>3 DEF ScenesAre
<1>6. AvatarsAre(ents, new) BY <1>4 DEF AvatarsAre
<1>7. OnePlace(new) BY <1>4 DEF OnePlace
<1>8. ~Present(new, p) BY <1>4 DEF OnePlace, Present
<1>9. ~Used(new, scenes[scene].players[p]) BY <1>4 DEF OnePlace, Used
<1>10. \A id : Used(new, id) => Used(scenes, id) BY <1>4 DEF Used
<1> QED BY <1>1, <1>3, <1>5, <1>6, <1>7, <1>8, <1>9, <1>10

LEMMA SceneAdded ==
  ASSUME ScenesAre(woScenes), OnePlace(woScenes), NEW scene, NEW state
  PROVE  LET new == WithScene(scene, state)
         IN /\ ScenesAre(new) /\ OnePlace(new) /\ DOMAIN new = DOMAIN woScenes \cup {scene}
            /\ \A ents : AvatarsAre(ents, woScenes) => AvatarsAre(ents, new)
<1> DEFINE new == WithScene(scene, state)
           fresh == [state |-> state, players |-> <<>>]
<1>1. /\ DOMAIN new = DOMAIN woScenes \cup {scene} /\ new[scene] = fresh
      /\ \A a \in DOMAIN woScenes : a # scene => new[a] = woScenes[a]
  BY DEF WithScene
<1>2. DOMAIN fresh.players = {} /\ SceneShape(fresh) BY DEF SceneShape
<1> HIDE DEF new, fresh
<1>3. ASSUME NEW a \in DOMAIN new, NEW q \in DOMAIN new[a].players
      PROVE  a \in DOMAIN woScenes /\ new[a] = woScenes[a]
  BY <1>1, <1>2
<1>4. OnePlace(new) BY <1>3 DEF OnePlace
<1>5. \A ents : AvatarsAre(ents, woScenes) => AvatarsAre(ents, new) BY <1>3 DEF AvatarsAre
<1> QED BY <1>1, <1>2, <1>4, <1>5 DEF new, ScenesAre

(* Instances and their monsters, shards and scenes.                         *)
InstanceShape(x) ==
  x = [def |-> x.def, scene |-> x.scene, state |-> x.state, members |-> x.members, age |-> x.age, ran |-> x.ran,
       left |-> x.left, entered |-> x.entered]
KeepsScene(y, x) == y.scene = x.scene
NamesScene(i, scene) == scene \in {InstanceScene(i), Shard(i)} /\ (scene = Shard(i) => OpenInstances)
InstancesAre(instances, next) ==
  \A i \in DOMAIN instances : i \in 1 .. next /\ InstanceShape(instances[i]) /\ NamesScene(i, instances[i].scene)
SpawnedAre(instances, spawned) == \A i \in DOMAIN spawned : i \in DOMAIN instances /\ instances[i].state # "Pending"
(* A shard without a scene lost it with the instance that had its number.   *)
NumberGone(n, instances, next) == OpenInstances /\ n \in 1 .. next /\ n \notin DOMAIN instances
ScenesHave(scenes, shards, instances, spawned, next) ==
  /\ \A a \in DOMAIN scenes : a \in Members(shards) \/ \E i \in DOMAIN spawned : a = instances[i].scene
  /\ \A i \in DOMAIN spawned : instances[i].scene \in DOMAIN scenes
  /\ \A n \in Nat : Shard(n) \in Members(shards) /\ Shard(n) \notin DOMAIN scenes => NumberGone(n, instances, next)
EntitiesIInv(ents, spawned, parts) ==
  /\ ents \in [EntitySlots -> Entity]
  /\ SpawnsAre(ents, spawned) /\ NpcsAre(ents, spawned) /\ PartsAre(ents, parts)
RoomsIInv(ents, scenes) == ScenesAre(scenes) /\ OnePlace(scenes) /\ AvatarsAre(ents, scenes)

(* What is true of a world at any time.                                     *)
WorldIInv ==
  /\ woDefs \in InstanceConfigs /\ woNextId \in Nat /\ woShardIndex \in Nat
  /\ woShards \in Seq({Shard(n) : n \in Nat}) /\ woParts = [s \in EntitySlots |-> woParts[s]]
  /\ InstancesAre(woInstances, woNextId) /\ SpawnedAre(woInstances, woSpawned)
  /\ ScenesHave(woScenes, woShards, woInstances, woSpawned, woNextId)
  /\ EntitiesIInv(woEntities, woSpawned, woParts)
  /\ RoomsIInv(woEntities, woScenes)

LEMMA WorldStart ==
  WorldInit => WorldIInv
<1> SUFFICES ASSUME WorldInit PROVE WorldIInv OBVIOUS
<1> USE DEF WorldInit
<1>1. woDefs \in InstanceConfigs /\ woNextId \in Nat /\ woShardIndex \in Nat /\ woShards \in Seq({Shard(n) : n \in Nat})
  OBVIOUS
<1>2. DOMAIN woInstances = {} /\ DOMAIN woSpawned = {} /\ DOMAIN woScenes = {} /\ DOMAIN woShards = {}
  OBVIOUS
<1>3. InstancesAre(woInstances, woNextId) /\ SpawnedAre(woInstances, woSpawned)
  BY <1>2 DEF InstancesAre, SpawnedAre
<1>4. ScenesHave(woScenes, woShards, woInstances, woSpawned, woNextId) BY <1>2 DEF ScenesHave, Members
<1>5. RoomsIInv(woEntities, woScenes) BY <1>2 DEF RoomsIInv, ScenesAre, OnePlace, AvatarsAre
<1>6. woEntities \in [EntitySlots -> Entity] BY DEF Entity
<1>7. SpawnsAre(woEntities, woSpawned) BY <1>2 DEF SpawnsAre
<1>8. NpcsAre(woEntities, woSpawned) BY DEF NpcsAre, Monster
<1>9. PartsAre(woEntities, woParts) /\ woParts = [s \in EntitySlots |-> woParts[s]]
  BY DEF PartsAre
<1> QED BY <1>1, <1>3, <1>4, <1>5, <1>6, <1>7, <1>8, <1>9 DEF WorldIInv, EntitiesIInv

(* Entities that are dead leave their slots, and components come and go.    *)
LEMMA EntitiesFlushed ==
  ASSUME WorldIInv, FlushDeferred PROVE WorldIInv'
<1> DEFINE ents == woEntities
           new == woEntities'
<1>1. ASSUME NEW s \in EntitySlots
      PROVE  /\ ents[s] \in Entity /\ new[s] \in Entity /\ new[s].gen = ents[s].gen /\ new[s].kind = ents[s].kind
             /\ ents[s].phase = "dead" => new[s].phase = "free" /\ woParts'[s] = NoId
             /\ ents[s].phase # "dead" => new[s] = ents[s] /\ woParts'[s] = woParts[s]
  <2> DEFINE e == ents[s]
             x == [e EXCEPT !.phase = "free"]
  <2>1. e \in Entity BY DEF WorldIInv, EntitiesIInv
  <2>2. new[s] = IF e.phase = "dead" THEN x ELSE e BY DEF FlushDeferred
  <2>3. woParts'[s] = IF e.phase = "dead" THEN NoId ELSE woParts[s] BY DEF FlushDeferred
  <2> HIDE DEF e, new
  <2>4. x \in Entity /\ x.kind = e.kind /\ x.phase = "free" /\ x.gen = e.gen BY <2>1 DEF Entity
  <2> HIDE DEF x
  <2> QED BY <2>1, <2>2, <2>3, <2>4 DEF e
<1>2. /\ UNCHANGED <<woDefs, woInstances, woNextId, woSpawned, woScenes, woShards, woShardIndex>>
      /\ DOMAIN new = EntitySlots /\ new = [s \in EntitySlots |-> new[s]]
      /\ woParts' = [s \in EntitySlots |-> woParts'[s]]
  BY DEF FlushDeferred, woInstanceVars, woSceneVars, woShardVars
<1> HIDE DEF new
<1>3. \A s \in EntitySlots : Monster(new, s) <=> Monster(ents, s) BY <1>1 DEF Monster
<1>4. SpawnsAre(new, woSpawned)
  <2> SUFFICES ASSUME NEW i \in DOMAIN woSpawned, NEW id \in woSpawned[i]
               PROVE  \E s \in EntitySlots, g \in Nat : /\ id = <<s, g>> /\ g <= new[s].gen
                                                        /\ g = new[s].gen => Monster(new, s)
    BY DEF SpawnsAre
  <2>1. PICK s \in EntitySlots, g \in Nat : /\ id = <<s, g>> /\ g <= ents[s].gen
                                            /\ g = ents[s].gen => Monster(ents, s)
    BY DEF WorldIInv, EntitiesIInv, SpawnsAre
  <2> QED BY <1>1, <1>3, <2>1
<1>5. NpcsAre(new, woSpawned) BY <1>1, <1>3 DEF NpcsAre, WorldIInv, EntitiesIInv
<1>6. AvatarsAre(new, woScenes)
  <2>1. ASSUME NEW id, IsAvatar(ents, id) PROVE IsAvatar(new, id) BY <1>1, <2>1 DEF IsAvatar
  <2> QED BY <2>1 DEF AvatarsAre, WorldIInv, RoomsIInv
<1>7. PartsAre(new, woParts') BY <1>1 DEF PartsAre, WorldIInv, EntitiesIInv
<1> QED BY <1>1, <1>2, <1>4, <1>5, <1>6, <1>7 DEF WorldIInv, EntitiesIInv, RoomsIInv, new

LEMMA PartsChange ==
  ASSUME WorldIInv, NEW s \in EntitySlots,
         AttachComponent(<<s, woEntities[s].gen>>) \/ DetachComponent(<<s, woEntities[s].gen>>)
  PROVE  WorldIInv'
<1>1. /\ UNCHANGED <<woDefs, woInstances, woNextId, woSpawned, woScenes, woShards, woShardIndex, woEntities>>
      /\ woEntities[s].phase = "alive"
  BY DEF AttachComponent, DetachComponent, woInstanceVars, woSceneVars, woShardVars, AliveEntity
<1>2. /\ woParts' = [t \in EntitySlots |-> woParts'[t]] /\ \A t \in EntitySlots \ {s} : woParts'[t] = woParts[t]
      /\ woParts'[s] \in {NoId, <<s, woEntities[s].gen>>}
  BY DEF AttachComponent, DetachComponent, WorldIInv
<1>3. PartsAre(woEntities, woParts')
  <2>1. woEntities[s].gen = woEntities[s].gen - 0 BY DEF WorldIInv, EntitiesIInv, Entity
  <2> QED BY <1>1, <1>2, <2>1 DEF PartsAre, WorldIInv, EntitiesIInv
<1> QED BY <1>1, <1>2, <1>3 DEF WorldIInv, EntitiesIInv, RoomsIInv

(* Only instances change: none that was started becomes pending again.      *)
LEMMA InstancesChange ==
  ASSUME WorldIInv, UNCHANGED <<woSpawned, woScenes, woShards, woShardIndex, woEntities, woParts>>,
         woDefs' \in InstanceConfigs, woNextId' \in Nat, InstancesAre(woInstances', woNextId'),
         \A i \in DOMAIN woSpawned : /\ i \in DOMAIN woInstances' /\ woInstances'[i].state # "Pending"
                                     /\ woInstances'[i].scene = woInstances[i].scene,
         \A n \in Nat : NumberGone(n, woInstances, woNextId) => NumberGone(n, woInstances', woNextId')
  PROVE  WorldIInv'
<1>1. ScenesHave(woScenes', woShards', woInstances', woSpawned', woNextId') BY DEF WorldIInv, ScenesHave
<1> QED BY <1>1 DEF WorldIInv, EntitiesIInv, RoomsIInv, SpawnedAre

LEMMA ConfigIsLoaded ==
  ASSUME WorldIInv, NEW config \in InstanceConfigs, LoadInstanceConfig(config) PROVE WorldIInv'
<1> QED
  BY InstancesChange DEF WorldIInv, SpawnedAre, LoadInstanceConfig, woSceneVars, woShardVars, woEntityVars

LEMMA InstanceIsCreated ==
  ASSUME WorldIInv, NEW def \in DOMAIN woDefs, NEW members, CreateInstance(def, members) PROVE WorldIInv'
<1> DEFINE scene == SceneFor(woDefs[def], woNextId')
<1>1. /\ UNCHANGED <<woDefs, woSpawned, woScenes, woShards, woShardIndex, woEntities, woParts>>
      /\ woNextId' = woNextId + 1
      /\ woInstances' = [i \in DOMAIN woInstances \cup {woNextId'} |->
                          IF i = woNextId'
                          THEN [def |-> def, scene |-> SceneFor(woDefs[def], i), state |-> "Pending",
                                members |-> members, age |-> 0, ran |-> 0, left |-> 0, entered |-> members # {}]
                          ELSE woInstances[i]]
  BY DEF CreateInstance, woSceneVars, woShardVars, woEntityVars
<1> DEFINE fresh == [def |-> def, scene |-> scene, state |-> "Pending", members |-> members, age |-> 0,
                     ran |-> 0, left |-> 0, entered |-> members # {}]
           next == woNextId'
<1>2. InstanceShape(fresh) /\ fresh.scene = scene BY DEF InstanceShape
<1>3. /\ DOMAIN woInstances' = DOMAIN woInstances \cup {next}
      /\ \A i \in DOMAIN woInstances' : woInstances'[i] = IF i = next THEN fresh ELSE woInstances[i]
  BY <1>1
<1> HIDE DEF fresh
<1>4. woNextId \in Nat /\ InstancesAre(woInstances, woNextId) /\ SpawnedAre(woInstances, woSpawned) /\ woDefs \in InstanceConfigs
  BY DEF WorldIInv
<1>5. next \in Nat /\ next \notin DOMAIN woInstances /\ \A i \in DOMAIN woInstances : i \in 1 .. next
  BY <1>1, <1>4 DEF InstancesAre
<1>7. NamesScene(next, scene)
  <2>1. woDefs[def].open => OpenInstances BY <1>4 DEF OpenInstances
  <2>2. InstanceScene(next) # Shard(next) BY DEF InstanceScene, Shard
  <2>3. scene = IF woDefs[def].open THEN Shard(next) ELSE InstanceScene(next) BY DEF SceneFor
  <2> QED BY <2>1, <2>2, <2>3 DEF NamesScene
<1> HIDE DEF scene
<1>6. InstancesAre(woInstances', next)
  <2> SUFFICES ASSUME NEW i \in DOMAIN woInstances'
               PROVE  i \in 1 .. next /\ InstanceShape(woInstances'[i]) /\ NamesScene(i, woInstances'[i].scene)
    BY DEF InstancesAre
  <2>1. CASE i = next BY <1>1, <1>2, <1>3, <1>4, <1>5, <1>7, <2>1
  <2>2. CASE i # next BY <1>1, <1>3, <1>4, <2>2 DEF InstancesAre
  <2> QED BY <2>1, <2>2
<1>8. \A n \in Nat : NumberGone(n, woInstances, woNextId) => NumberGone(n, woInstances', woNextId')
  BY <1>1, <1>3, <1>4 DEF NumberGone
<1> QED BY <1>1, <1>3, <1>4, <1>5, <1>6, <1>8, InstancesChange DEF SpawnedAre

(* One instance changes and keeps its shape.                                *)
LEMMA InstanceChanges ==
  ASSUME WorldIInv, NEW i \in DOMAIN woInstances, NEW x, InstanceShape(x), KeepsScene(x, woInstances[i]),
         x.state = "Pending" => woInstances[i].state = "Pending",
         woInstances' = [woInstances EXCEPT ![i] = x],
         UNCHANGED <<woDefs, woNextId, woSpawned, woScenes, woShards, woShardIndex, woEntities, woParts>>
  PROVE  WorldIInv'
<1>1. /\ DOMAIN woInstances' = DOMAIN woInstances /\ woInstances'[i] = x
      /\ \A j \in DOMAIN woInstances : j # i => woInstances'[j] = woInstances[j]
  OBVIOUS
<1>2. \A j \in DOMAIN woSpawned : /\ j \in DOMAIN woInstances' /\ woInstances'[j].state # "Pending"
                                  /\ woInstances'[j].scene = woInstances[j].scene
  BY <1>1 DEF WorldIInv, SpawnedAre, KeepsScene
<1>3. woDefs' \in InstanceConfigs /\ woNextId' \in Nat BY DEF WorldIInv
<1>4. \A n \in Nat : NumberGone(n, woInstances, woNextId) => NumberGone(n, woInstances', woNextId')
  BY <1>1 DEF NumberGone
<1> QED BY <1>1, <1>2, <1>3, <1>4, InstancesChange DEF WorldIInv, InstancesAre, KeepsScene

LEMMA StateAndTime ==
  ASSUME NEW x, InstanceShape(x), NEW state, NEW left
  PROVE  LET y == [x EXCEPT !.state = state, !.left = left] IN InstanceShape(y) /\ y.state = state /\ KeepsScene(y, x)
<1> DEFINE y == [x EXCEPT !.state = state, !.left = left]
<1>1. y \in [def : {x.def}, scene : {x.scene}, state : {state}, members : {x.members}, age : {x.age}, ran : {x.ran}, left : {left}, entered : {x.entered}]
  BY DEF InstanceShape
<1> HIDE DEF y
<1>2. InstanceShape(y) /\ y.state = state /\ KeepsScene(y, x) BY <1>1 DEF InstanceShape, KeepsScene
<1> QED BY <1>2 DEF y

LEMMA StateOnly ==
  ASSUME NEW x, InstanceShape(x), NEW state
  PROVE  LET y == [x EXCEPT !.state = state] IN InstanceShape(y) /\ y.state = state /\ KeepsScene(y, x)
<1> DEFINE y == [x EXCEPT !.state = state]
<1>1. y \in [def : {x.def}, scene : {x.scene}, state : {state}, members : {x.members}, age : {x.age}, ran : {x.ran}, left : {x.left}, entered : {x.entered}]
  BY DEF InstanceShape
<1> HIDE DEF y
<1> QED BY <1>1 DEF y, InstanceShape, KeepsScene

LEMMA MembersJoin ==
  ASSUME NEW x, InstanceShape(x), NEW members, NEW entered
  PROVE  LET y == [x EXCEPT !.members = members, !.entered = entered] IN InstanceShape(y) /\ y.state = x.state /\ KeepsScene(y, x)
<1> DEFINE y == [x EXCEPT !.members = members, !.entered = entered]
<1>1. y \in [def : {x.def}, scene : {x.scene}, state : {x.state}, members : {members}, age : {x.age}, ran : {x.ran}, left : {x.left}, entered : {entered}]
  BY DEF InstanceShape
<1> HIDE DEF y
<1>2. InstanceShape(y) /\ y.state = x.state /\ KeepsScene(y, x) BY <1>1 DEF InstanceShape, KeepsScene
<1> QED BY <1>2 DEF y

LEMMA MembersChange ==
  ASSUME NEW x, InstanceShape(x), NEW members
  PROVE  LET y == [x EXCEPT !.members = members] IN InstanceShape(y) /\ y.state = x.state /\ KeepsScene(y, x)
<1> DEFINE y == [x EXCEPT !.members = members]
<1>1. y \in [def : {x.def}, scene : {x.scene}, state : {x.state}, members : {members}, age : {x.age}, ran : {x.ran}, left : {x.left}, entered : {x.entered}]
  BY DEF InstanceShape
<1> HIDE DEF y
<1> QED BY <1>1 DEF y, InstanceShape, KeepsScene

LEMMA WorldTimePasses ==
  ASSUME NEW x, InstanceShape(x), NEW age, NEW left, NEW ran
  PROVE  LET y == [x EXCEPT !.age = age, !.left = left, !.ran = ran] IN InstanceShape(y) /\ y.state = x.state /\ KeepsScene(y, x)
<1> DEFINE y == [x EXCEPT !.age = age, !.left = left, !.ran = ran]
<1>1. y \in [def : {x.def}, scene : {x.scene}, state : {x.state}, members : {x.members}, age : {age}, ran : {ran}, left : {left}, entered : {x.entered}]
  BY DEF InstanceShape
<1> HIDE DEF y
<1>2. InstanceShape(y) /\ y.state = x.state /\ KeepsScene(y, x) BY <1>1 DEF InstanceShape, KeepsScene
<1> QED BY <1>2 DEF y

(* An instance is started: its scene and its monsters are made.             *)
LEMMA InstanceStarts ==
  ASSUME WorldIInv, NEW i \in DOMAIN woInstances, StartInstance(i) PROVE WorldIInv'
<1> DEFINE inst == woInstances[i]
           given == [inst EXCEPT !.state = "Destroying", !.left = 0]
           run == [inst EXCEPT !.state = "Running", !.ran = 0]
<1>1. /\ InstanceShape(inst) /\ i \in 1 .. woNextId /\ woNextId \in Nat /\ woDefs \in InstanceConfigs
      /\ InstancesAre(woInstances, woNextId) /\ SpawnedAre(woInstances, woSpawned)
      /\ ScenesHave(woScenes, woShards, woInstances, woSpawned, woNextId) /\ EntitiesIInv(woEntities, woSpawned, woParts)
      /\ RoomsIInv(woEntities, woScenes) /\ woParts = [s \in EntitySlots |-> woParts[s]]
      /\ woShards \in Seq({Shard(n) : n \in Nat})
  BY DEF WorldIInv, InstancesAre
<1>2. /\ inst.state = "Pending" /\ i \notin DOMAIN woSpawned
      /\ UNCHANGED <<woDefs, woNextId, woShards, woShardIndex, woParts>>
  BY <1>1 DEF StartInstance, SpawnedAre, woShardVars
<1>3. CASE inst.def \notin DOMAIN woDefs \/ inst.scene \in DOMAIN woScenes
  <2>1. woInstances' = [woInstances EXCEPT ![i] = given] /\ UNCHANGED <<woSpawned, woScenes, woEntities>>
    BY <1>3 DEF StartInstance
  <2>2. InstanceShape(given) /\ given.state = "Destroying" /\ KeepsScene(given, inst) BY <1>1, StateAndTime
  <2> HIDE DEF given
  <2> QED BY <1>2, <2>1, <2>2, InstanceChanges
<1>4. CASE inst.def \in DOMAIN woDefs /\ inst.scene \notin DOMAIN woScenes
  <2> DEFINE n == woDefs[inst.def].spawns
             slots == SlotsFor(n)
             scene == inst.scene
  <2>1. /\ woInstances' = [woInstances EXCEPT ![i] = run]
        /\ woSpawned' = [j \in DOMAIN woSpawned \cup {i} |-> IF j = i THEN IdsIn(slots) ELSE woSpawned[j]]
        /\ woEntities' = CreateEntities(slots, "npc", scene)
        /\ woScenes' = WithScene(scene, "Creating")
    BY <1>4 DEF StartInstance
  <2>2. InstanceShape(run) /\ run.state = "Running" /\ run.scene = inst.scene
    <3>1. run \in [def : {inst.def}, scene : {inst.scene}, state : {"Running"}, members : {inst.members}, age : {inst.age}, ran : {0},
                   left : {inst.left}, entered : {inst.entered}]
      BY <1>1 DEF InstanceShape
    <3> HIDE DEF run
    <3> QED BY <3>1 DEF InstanceShape
  <2> HIDE DEF run
  <2>3. n \in Nat
    <3>1. \A S : woDefs \in Seq(S) => woDefs[inst.def] \in S BY <1>4
    <3>2. woDefs[inst.def] \in [limit : Nat, most : Nat, spawns : Nat, open : BOOLEAN]
      BY <1>1, <3>1, WorldAssumption
    <3> QED BY <3>2
  <2> HIDE DEF n
  <2>4. slots \in SUBSET FreeSlots BY <2>3, SlotsAreFree
  <2> HIDE DEF slots
  <2>5. NamesScene(i, scene) BY <1>1 DEF InstancesAre
  <2>19. scene \in {InstanceScene(k) : k \in Nat} \cup {Shard(k) : k \in Nat} BY <1>1, <2>5 DEF NamesScene
  <2>6. woEntities \in [EntitySlots -> Entity] BY <1>1 DEF EntitiesIInv
  <2>7. ("npc" \in {"npc", "player"}) /\ (("npc" = "npc") = TRUE) OBVIOUS
  <2> HIDE DEF scene
  <2>8. /\ woEntities' \in [EntitySlots -> Entity]
        /\ \A spawned : SpawnsAre(woEntities, spawned) => SpawnsAre(woEntities', spawned)
        /\ \A s \in EntitySlots : woEntities'[s].gen = woEntities[s].gen
        /\ \A s \in EntitySlots \ slots : woEntities'[s] = woEntities[s]
        /\ \A id : IsAvatar(woEntities, id) => IsAvatar(woEntities', id)
        /\ \A parts : PartsAre(woEntities, parts) => PartsAre(woEntities', parts)
        /\ \A id \in IdsIn(slots) : \E s \in EntitySlots, g \in Nat :
                                    /\ id = <<s, g>> /\ g = woEntities'[s].gen /\ Monster(woEntities', s)
    BY <2>1, <2>4, <2>19, <2>6, <2>7, EntitiesCreated
  <2>9. /\ DOMAIN woSpawned' = DOMAIN woSpawned \cup {i}
        /\ woSpawned'[i] = IdsIn(slots) /\ \A j \in DOMAIN woSpawned : woSpawned'[j] = woSpawned[j]
    BY <1>2, <2>1
  <2>10. /\ DOMAIN woInstances' = DOMAIN woInstances /\ woInstances'[i] = run
         /\ \A j \in DOMAIN woInstances : j # i => woInstances'[j] = woInstances[j]
    BY <2>1
  <2>11. InstancesAre(woInstances', woNextId') BY <1>1, <1>2, <2>2, <2>5, <2>10 DEF InstancesAre, scene
  <2>12. SpawnedAre(woInstances', woSpawned') BY <1>1, <1>2, <2>2, <2>9, <2>10 DEF SpawnedAre
  <2>13. /\ ScenesAre(woScenes') /\ OnePlace(woScenes') /\ DOMAIN woScenes' = DOMAIN woScenes \cup {scene}
         /\ \A ents : AvatarsAre(ents, woScenes) => AvatarsAre(ents, woScenes')
    BY <1>1, <2>1, SceneAdded DEF RoomsIInv
  <2>14. RoomsIInv(woEntities', woScenes')
    <3>1. AvatarsAre(woEntities', woScenes') BY <1>1, <2>8, <2>13 DEF AvatarsAre, RoomsIInv
    <3> QED BY <2>13, <3>1 DEF RoomsIInv
  <2>15. ScenesHave(woScenes', woShards', woInstances', woSpawned', woNextId')
    <3>1. \A j \in DOMAIN woInstances : woInstances'[j].scene = woInstances[j].scene BY <2>2, <2>10
    <3>2. DOMAIN woSpawned \subseteq DOMAIN woInstances /\ woInstances'[i].scene = scene
      BY <1>1, <3>1 DEF SpawnedAre, scene
    <3>3. \A x : NumberGone(x, woInstances, woNextId) => NumberGone(x, woInstances', woNextId')
      BY <1>2, <2>10 DEF NumberGone
    <3> QED BY <1>1, <1>2, <2>9, <2>13, <3>1, <3>2, <3>3 DEF ScenesHave
  <2>16. SpawnsAre(woEntities', woSpawned')
    <3> SUFFICES ASSUME NEW j \in DOMAIN woSpawned', NEW id \in woSpawned'[j]
                 PROVE  \E s \in EntitySlots, g \in Nat : /\ id = <<s, g>> /\ g <= woEntities'[s].gen
                                                          /\ g = woEntities'[s].gen => Monster(woEntities', s)
      BY DEF SpawnsAre
    <3>1. CASE j = i
      <4>1. PICK s \in EntitySlots, g \in Nat : id = <<s, g>> /\ g = woEntities'[s].gen /\ Monster(woEntities', s)
        BY <2>8, <2>9, <3>1
      <4> QED BY <4>1
    <3>2. CASE j # i BY <1>1, <2>8, <2>9, <3>2 DEF SpawnsAre, EntitiesIInv
    <3> QED BY <3>1, <3>2
  <2>17. NpcsAre(woEntities', woSpawned')
    <3> SUFFICES ASSUME NEW s \in EntitySlots, Monster(woEntities', s)
                 PROVE  \E j \in DOMAIN woSpawned' : <<s, woEntities'[s].gen>> \in woSpawned'[j]
      BY DEF NpcsAre
    <3>1. CASE s \in slots BY <2>8, <2>9, <3>1 DEF IdsIn
    <3>2. CASE s \notin slots BY <1>1, <2>8, <2>9, <3>2 DEF NpcsAre, EntitiesIInv, Monster
    <3> QED BY <3>1, <3>2
  <2>18. EntitiesIInv(woEntities', woSpawned', woParts')
    BY <1>1, <1>2, <2>8, <2>16, <2>17 DEF EntitiesIInv
  <2> QED BY <1>1, <1>2, <2>11, <2>12, <2>14, <2>15, <2>18 DEF WorldIInv
<1> QED BY <1>3, <1>4

(* Instances are taken away with their scene and their monsters.            *)
LEMMA InstancesReclaimed ==
  ASSUME WorldIInv, NEW instances, DOMAIN instances = DOMAIN woInstances, NEW gone \in SUBSET DOMAIN woInstances,
         \A i \in DOMAIN instances : /\ InstanceShape(instances[i]) /\ KeepsScene(instances[i], woInstances[i])
                                     /\ instances[i].state = "Pending" => woInstances[i].state = "Pending",
         Reclaim(instances, gone)
  PROVE  WorldIInv'
<1> DEFINE ids == UNION {woSpawned[i] : i \in gone \cap DOMAIN woSpawned}
           lost == {instances[i].scene : i \in gone}
<1>1. /\ woNextId \in Nat /\ woDefs \in InstanceConfigs
      /\ InstancesAre(woInstances, woNextId) /\ SpawnedAre(woInstances, woSpawned)
      /\ ScenesHave(woScenes, woShards, woInstances, woSpawned, woNextId) /\ EntitiesIInv(woEntities, woSpawned, woParts)
      /\ RoomsIInv(woEntities, woScenes) /\ woParts = [s \in EntitySlots |-> woParts[s]]
      /\ woShards \in Seq({Shard(n) : n \in Nat})
  BY DEF WorldIInv
<1>2. /\ woInstances' = [i \in DOMAIN instances \ gone |-> instances[i]]
      /\ woSpawned' = [i \in DOMAIN woSpawned \ gone |-> woSpawned[i]]
      /\ woEntities' = DestroyEntities(woEntities, ids)
      /\ woScenes' = [s \in DOMAIN woScenes \ lost |-> woScenes[s]]
      /\ UNCHANGED <<woDefs, woNextId, woShards, woShardIndex, woParts>>
  BY DEF Reclaim, woShardVars
<1>3. InstancesAre(woInstances', woNextId') BY <1>1, <1>2 DEF InstancesAre, KeepsScene
<1>4. SpawnedAre(woInstances', woSpawned') BY <1>1, <1>2 DEF SpawnedAre
<1>5. ScenesHave(woScenes', woShards', woInstances', woSpawned', woNextId')
  <2>1. /\ DOMAIN woScenes' = DOMAIN woScenes \ lost /\ DOMAIN woSpawned' = DOMAIN woSpawned \ gone
        /\ DOMAIN woInstances' = DOMAIN woInstances \ gone /\ DOMAIN woSpawned \subseteq DOMAIN woInstances
        /\ \A i \in DOMAIN woInstances' : woInstances'[i].scene = woInstances[i].scene
    BY <1>1, <1>2 DEF SpawnedAre, KeepsScene
  <2>2. \A a : a \in lost <=> \E i \in gone : a = woInstances[i].scene BY DEF KeepsScene
  <2> HIDE DEF lost
  <2>3. ASSUME NEW i \in DOMAIN woInstances, NEW j \in DOMAIN woInstances, i # j
        PROVE  woInstances[i].scene # woInstances[j].scene
    BY <1>1, <2>3 DEF InstancesAre, NamesScene, InstanceScene, Shard
  <2>4. ASSUME NEW a \in DOMAIN woScenes', a \notin Members(woShards)
        PROVE  \E i \in DOMAIN woSpawned' : a = woInstances'[i].scene
    <3>1. PICK i \in DOMAIN woSpawned : a = woInstances[i].scene BY <1>1, <2>1, <2>4 DEF ScenesHave
    <3> QED BY <2>1, <2>2, <3>1
  <2>5. ASSUME NEW i \in DOMAIN woSpawned' PROVE woInstances'[i].scene \in DOMAIN woScenes'
    <3>1. woInstances[i].scene \in DOMAIN woScenes BY <1>1, <2>1 DEF ScenesHave
    <3>2. woInstances[i].scene \notin lost BY <2>1, <2>2, <2>3
    <3> QED BY <2>1, <3>1, <3>2
  <2>6. ASSUME NEW n \in Nat, Shard(n) \in Members(woShards), Shard(n) \notin DOMAIN woScenes'
        PROVE  NumberGone(n, woInstances', woNextId')
    <3>1. CASE Shard(n) \notin DOMAIN woScenes
      BY <1>1, <1>2, <2>1, <2>6, <3>1 DEF ScenesHave, NumberGone
    <3>2. CASE Shard(n) \in lost
      <4>1. PICK i \in gone : Shard(n) = woInstances[i].scene BY <2>2, <3>2
      <4>2. n = i /\ OpenInstances BY <1>1, <4>1 DEF InstancesAre, NamesScene, InstanceScene, Shard
      <4> QED BY <1>1, <1>2, <2>1, <4>2 DEF NumberGone, InstancesAre
    <3> QED BY <2>1, <2>6, <3>1, <3>2
  <2> QED BY <1>2, <2>4, <2>5, <2>6 DEF ScenesHave
<1>6. /\ woEntities' \in [EntitySlots -> Entity]
      /\ \A spawned : SpawnsAre(woEntities, spawned) => SpawnsAre(woEntities', spawned)
      /\ \A s \in EntitySlots : Monster(woEntities', s) => /\ Monster(woEntities, s)
                                                           /\ woEntities'[s].gen = woEntities[s].gen
                                                           /\ <<s, woEntities[s].gen>> \notin ids
      /\ \A id : IsAvatar(woEntities, id) /\ id \notin ids => IsAvatar(woEntities', id)
      /\ \A parts : PartsAre(woEntities, parts) => PartsAre(woEntities', parts)
  <2>1. woEntities \in [EntitySlots -> Entity] BY <1>1 DEF EntitiesIInv
  <2> HIDE DEF ids
  <2> QED BY <1>2, <2>1, EntitiesDestroyed
<1>7. SpawnsAre(woEntities', woSpawned')
  <2>1. SpawnsAre(woEntities', woSpawned) BY <1>1, <1>6 DEF EntitiesIInv
  <2> QED BY <1>2, <2>1 DEF SpawnsAre
<1>8. NpcsAre(woEntities', woSpawned')
  <2> SUFFICES ASSUME NEW s \in EntitySlots, Monster(woEntities', s)
               PROVE  \E j \in DOMAIN woSpawned' : <<s, woEntities'[s].gen>> \in woSpawned'[j]
    BY DEF NpcsAre
  <2>1. Monster(woEntities, s) /\ woEntities'[s].gen = woEntities[s].gen /\ <<s, woEntities[s].gen>> \notin ids
    BY <1>6
  <2>2. PICK j \in DOMAIN woSpawned : <<s, woEntities[s].gen>> \in woSpawned[j]
    BY <1>1, <2>1 DEF NpcsAre, EntitiesIInv
  <2> QED BY <1>2, <2>1, <2>2
<1>9. EntitiesIInv(woEntities', woSpawned', woParts')
  BY <1>1, <1>2, <1>6, <1>7, <1>8 DEF EntitiesIInv
<1>10. \A id : IsAvatar(woEntities, id) => id \notin ids
  <2> SUFFICES ASSUME NEW id \in ids, IsAvatar(woEntities, id) PROVE FALSE OBVIOUS
  <2>1. PICK i \in DOMAIN woSpawned : id \in woSpawned[i] OBVIOUS
  <2>2. PICK s \in EntitySlots, g \in Nat : /\ id = <<s, g>> /\ g <= woEntities[s].gen
                                            /\ g = woEntities[s].gen => Monster(woEntities, s)
    BY <1>1, <2>1 DEF EntitiesIInv, SpawnsAre
  <2>3. PICK t \in EntitySlots : id = <<t, woEntities[t].gen>> /\ woEntities[t].kind = "player"
    BY DEF IsAvatar
  <2> QED BY <2>2, <2>3 DEF Monster
<1>11. /\ DOMAIN woScenes' \subseteq DOMAIN woScenes /\ \A a \in DOMAIN woScenes' : woScenes'[a] = woScenes[a]
  BY <1>2
<1>12. RoomsIInv(woEntities', woScenes')
  <2>1. AvatarsAre(woEntities', woScenes') BY <1>1, <1>6, <1>10, <1>11 DEF RoomsIInv, AvatarsAre
  <2> QED BY <1>1, <1>11, <2>1 DEF RoomsIInv, ScenesAre, OnePlace
<1> QED BY <1>1, <1>2, <1>3, <1>4, <1>5, <1>9, <1>12 DEF WorldIInv

LEMMA InstanceGoesOn ==
  ASSUME NEW x, InstanceShape(x)
  PROVE  LET y == Ticked(Older(x)) IN InstanceShape(y) /\ KeepsScene(y, x) /\ (y.state = "Pending" => x.state = "Pending")
<1> DEFINE age == Up(x.age, EmptyTimeout)
           left == IF x.left = 0 THEN 0 ELSE x.left - 1
           ran == IF x.def \in DOMAIN woDefs THEN Up(x.ran, woDefs[x.def].limit) ELSE x.ran
           o == [x EXCEPT !.age = age, !.left = left, !.ran = ran]
<1>1. Older(x) = o BY DEF Older
<1> HIDE DEF age, left, ran
<1>2. InstanceShape(o) /\ o.state = x.state /\ KeepsScene(o, x)
  <2> DEFINE aged(a, l, r) == [x EXCEPT !.age = a, !.left = l, !.ran = r]
  <2>1. o = aged(age, left, ran) OBVIOUS
  <2>2. \A a, l, r : InstanceShape(aged(a, l, r)) /\ aged(a, l, r).state = x.state /\ KeepsScene(aged(a, l, r), x)
    BY WorldTimePasses
  <2> HIDE DEF o, aged
  <2> QED BY <2>1, <2>2
<1> HIDE DEF o
<1> DEFINE y == Ticked(o)
<1>3. \/ y = [o EXCEPT !.state = "Completed", !.left = DestroyGrace]
      \/ y = [o EXCEPT !.state = "Destroying", !.left = 0]
      \/ y = [o EXCEPT !.state = "Destroying", !.left = DestroyGrace]
      \/ y = [o EXCEPT !.state = "Destroying"]
      \/ y = o
  BY DEF Ticked
<1> HIDE DEF y
<1>4. InstanceShape(y) /\ KeepsScene(y, o) /\ (y.state = "Pending" => o.state = "Pending")
  <2>1. ASSUME NEW l, NEW s \in {"Completed", "Destroying"}, y = [o EXCEPT !.state = s, !.left = l]
        PROVE  InstanceShape(y) /\ KeepsScene(y, o) /\ y.state \in {"Completed", "Destroying"}
    <3> DEFINE z == [o EXCEPT !.state = s, !.left = l]
    <3>1. InstanceShape(z) /\ z.state = s /\ KeepsScene(z, o) BY <1>2, StateAndTime
    <3>2. y = z BY <2>1
    <3> HIDE DEF z
    <3> QED BY <3>1, <3>2
  <2>2. ASSUME y = [o EXCEPT !.state = "Destroying"]
        PROVE  InstanceShape(y) /\ KeepsScene(y, o) /\ y.state = "Destroying"
    BY <1>2, <2>2, StateOnly
  <2>3. KeepsScene(o, o) BY DEF KeepsScene
  <2> QED BY <1>2, <1>3, <2>1, <2>2, <2>3
<1> QED BY <1>2, <1>1, <1>4 DEF y, KeepsScene

LEMMA InstanceEnds ==
  ASSUME WorldIInv, NEW i \in DOMAIN woInstances, DestroyInstance(i) PROVE WorldIInv'
<1>1. Reclaim(woInstances, {i}) BY DEF DestroyInstance
<1>2. \A j \in DOMAIN woInstances : InstanceShape(woInstances[j]) /\ KeepsScene(woInstances[j], woInstances[j])
  BY DEF WorldIInv, InstancesAre, KeepsScene
<1> QED BY <1>1, <1>2, InstancesReclaimed

LEMMA WorldTicks ==
  ASSUME WorldIInv, WorldTick PROVE WorldIInv'
<1> DEFINE older == [i \in DOMAIN woInstances |-> Older(woInstances[i])]
           ticked == [i \in DOMAIN older |-> Ticked(older[i])]
<1>1. PICK gone \in SUBSET DOMAIN woInstances : Reclaim(ticked, gone) BY DEF WorldTick
<1>2. DOMAIN ticked = DOMAIN woInstances /\ \A i \in DOMAIN woInstances : ticked[i] = Ticked(Older(woInstances[i]))
  OBVIOUS
<1> HIDE DEF ticked
<1>3. \A i \in DOMAIN ticked : /\ InstanceShape(ticked[i]) /\ KeepsScene(ticked[i], woInstances[i])
                               /\ ticked[i].state = "Pending" => woInstances[i].state = "Pending"
  BY <1>2, InstanceGoesOn DEF WorldIInv, InstancesAre
<1> QED BY <1>1, <1>2, <1>3, InstancesReclaimed

(* The rest of an instance's life.                                          *)
LEMMA InstanceCompletes ==
  ASSUME WorldIInv, NEW i \in DOMAIN woInstances, CompleteInstance(i) PROVE WorldIInv'
<1> DEFINE x == woInstances[i]
           y == [x EXCEPT !.state = "Completed", !.left = DestroyGrace]
<1>1. /\ InstanceShape(x) /\ woInstances' = [woInstances EXCEPT ![i] = y]
      /\ UNCHANGED <<woDefs, woNextId, woSpawned, woScenes, woShards, woShardIndex, woEntities, woParts>>
  BY DEF CompleteInstance, woSceneVars, woShardVars, woEntityVars, WorldIInv, InstancesAre
<1>2. InstanceShape(y) /\ y.state = "Completed" /\ KeepsScene(y, x) BY <1>1, StateAndTime
<1> HIDE DEF y
<1> QED BY <1>1, <1>2, InstanceChanges

LEMMA MemberJoins ==
  ASSUME WorldIInv, NEW i \in DOMAIN woInstances, NEW p, AddMember(i, p) PROVE WorldIInv'
<1> DEFINE x == woInstances[i]
           all == x.members \cup {p}
           y == [x EXCEPT !.members = all, !.entered = TRUE]
<1>1. /\ InstanceShape(x) /\ woInstances' = [woInstances EXCEPT ![i] = y]
      /\ UNCHANGED <<woDefs, woNextId, woSpawned, woScenes, woShards, woShardIndex, woEntities, woParts>>
  BY DEF AddMember, woSceneVars, woShardVars, woEntityVars, WorldIInv, InstancesAre
<1> HIDE DEF all
<1>2. InstanceShape(y) /\ y.state = x.state /\ KeepsScene(y, x) BY <1>1, MembersJoin
<1> HIDE DEF y
<1> QED BY <1>1, <1>2, InstanceChanges

LEMMA MemberGoes ==
  ASSUME WorldIInv, NEW i \in DOMAIN woInstances, NEW p, RemoveMember(i, p) PROVE WorldIInv'
<1> DEFINE x == woInstances[i]
           rest == x.members \ {p}
           y == [x EXCEPT !.members = rest]
           z == IF y.members = {} /\ y.state \in {"Running", "Completed"}
                THEN [y EXCEPT !.state = "Destroying", !.left = DestroyGrace] ELSE y
<1>1. /\ InstanceShape(x) /\ woInstances' = [woInstances EXCEPT ![i] = z]
      /\ UNCHANGED <<woDefs, woNextId, woSpawned, woScenes, woShards, woShardIndex, woEntities, woParts>>
  BY DEF RemoveMember, woSceneVars, woShardVars, woEntityVars, WorldIInv, InstancesAre
<1> HIDE DEF rest
<1>2. InstanceShape(y) /\ y.state = x.state /\ KeepsScene(y, x) BY <1>1, MembersChange
<1> HIDE DEF y
<1>3. InstanceShape(z) /\ KeepsScene(z, x) /\ (z.state = "Pending" => x.state = "Pending")
  <2> DEFINE w == [y EXCEPT !.state = "Destroying", !.left = DestroyGrace]
  <2>1. InstanceShape(w) /\ w.state = "Destroying" /\ KeepsScene(w, y) BY <1>2, StateAndTime
  <2>2. z \in {w, y} OBVIOUS
  <2> HIDE DEF w, z
  <2> QED BY <1>2, <2>1, <2>2 DEF KeepsScene
<1> HIDE DEF z
<1> QED BY <1>1, <1>3, InstanceChanges

(* A shard is added.                                                        *)
LEMMA ShardIsAdded ==
  ASSUME WorldIInv, GetOrCreateOpenWorld PROVE WorldIInv'
<1> DEFINE n == woShardIndex + 1
           S == {Shard(k) : k \in Nat}
           shard == Shard(n)
<1>1. /\ woShards \in Seq(S) /\ ScenesHave(woScenes, woShards, woInstances, woSpawned, woNextId)
      /\ RoomsIInv(woEntities, woScenes) /\ n \in Nat /\ shard \in S
  BY DEF WorldIInv
<1>2. /\ woShardIndex' = n /\ UNCHANGED <<woDefs, woInstances, woNextId, woSpawned, woEntities, woParts>>
      /\ \/ UNCHANGED <<woShards, woScenes>>
         \/ woShards' = Append(woShards, shard) /\ woScenes' = WithScene(shard, "Running")
  BY DEF GetOrCreateOpenWorld, woInstanceVars, woEntityVars
<1>3. CASE UNCHANGED <<woShards, woScenes>> BY <1>1, <1>2, <1>3 DEF WorldIInv, EntitiesIInv, RoomsIInv
<1>4. CASE woShards' = Append(woShards, shard) /\ woScenes' = WithScene(shard, "Running")
  <2> HIDE DEF S, shard
  <2>1. woShards' \in Seq(S) /\ Members(woShards') = Members(woShards) \cup {shard}
    BY <1>1, <1>4, AppendMembers
  <2>2. /\ ScenesAre(woScenes') /\ OnePlace(woScenes') /\ DOMAIN woScenes' = DOMAIN woScenes \cup {shard}
        /\ \A ents : AvatarsAre(ents, woScenes) => AvatarsAre(ents, woScenes')
    BY <1>1, <1>4, SceneAdded DEF RoomsIInv
  <2>3. ScenesHave(woScenes', woShards', woInstances', woSpawned', woNextId')
    BY <1>1, <1>2, <2>1, <2>2 DEF ScenesHave
  <2>4. woShards' \in Seq({Shard(k) : k \in Nat}) BY <2>1 DEF S
  <2> QED BY <1>1, <1>2, <2>2, <2>3, <2>4 DEF WorldIInv, EntitiesIInv, RoomsIInv
<1> QED BY <1>2, <1>3, <1>4

(* Entities and the players in scenes change, nothing else.                 *)
LEMMA PlayersChange ==
  ASSUME WorldIInv, woEntities' \in [EntitySlots -> Entity],
         SpawnsAre(woEntities', woSpawned), NpcsAre(woEntities', woSpawned), PartsAre(woEntities', woParts),
         RoomsIInv(woEntities', woScenes'), DOMAIN woScenes' = DOMAIN woScenes,
         UNCHANGED <<woDefs, woInstances, woNextId, woSpawned, woShards, woShardIndex, woParts>>
  PROVE  WorldIInv'
<1>1. EntitiesIInv(woEntities', woSpawned', woParts') BY DEF EntitiesIInv
<1> QED BY <1>1 DEF WorldIInv, ScenesHave

LEMMA AScene ==
  ASSUME WorldIInv, NEW a \in DOMAIN woScenes
  PROVE  a \in {InstanceScene(i) : i \in Nat} \cup {Shard(n) : n \in Nat}
<1>1. /\ a \in Members(woShards) \/ \E i \in DOMAIN woSpawned : a = woInstances[i].scene
      /\ woShards \in Seq({Shard(n) : n \in Nat})
  BY DEF WorldIInv, ScenesHave
<1>2. Members(woShards) \subseteq {Shard(n) : n \in Nat} BY <1>1 DEF Members
<1>3. \A i \in DOMAIN woSpawned : i \in Nat /\ woInstances[i].scene \in {InstanceScene(i), Shard(i)}
  BY DEF WorldIInv, SpawnedAre, InstancesAre, NamesScene
<1> QED BY <1>1, <1>2, <1>3

(* An avatar is made and one may go: the monsters, the components and the   *)
(* other avatars are those there were.                                      *)
LEMMA AvatarIsMade ==
  ASSUME WorldIInv, FreeSlots # {}, NEW scene \in DOMAIN woScenes
  PROVE  LET new == CreateEntities(SlotsFor(1), "player", scene)
             avatar == CHOOSE id \in IdsIn(SlotsFor(1)) : TRUE
         IN /\ new \in [EntitySlots -> Entity] /\ SpawnsAre(new, woSpawned) /\ NpcsAre(new, woSpawned)
            /\ PartsAre(new, woParts) /\ IsAvatar(new, avatar)
            /\ \A id : IsAvatar(woEntities, id) => IsAvatar(new, id) /\ id # avatar
<1> DEFINE slots == SlotsFor(1)
           kind == "player"
           new == CreateEntities(slots, kind, scene)
           avatar == CHOOSE id \in IdsIn(slots) : TRUE
<1>1. /\ woEntities \in [EntitySlots -> Entity] /\ SpawnsAre(woEntities, woSpawned) /\ NpcsAre(woEntities, woSpawned)
      /\ PartsAre(woEntities, woParts)
  BY DEF WorldIInv, EntitiesIInv
<1>2. slots \in SUBSET FreeSlots /\ IdsIn(slots) # {} BY SlotsAreFree
<1>3. avatar \in IdsIn(slots) BY <1>2
<1>4. scene \in {InstanceScene(i) : i \in Nat} \cup {Shard(n) : n \in Nat} BY AScene
<1>5. kind \in {"npc", "player"} /\ kind = "player" OBVIOUS
<1> HIDE DEF slots, kind, avatar
<1>6. /\ new \in [EntitySlots -> Entity]
      /\ \A spawned : SpawnsAre(woEntities, spawned) => SpawnsAre(new, spawned)
      /\ \A s \in EntitySlots : new[s].gen = woEntities[s].gen
      /\ \A s \in slots : new[s].phase = "alive" /\ new[s].kind = kind
      /\ \A s \in EntitySlots \ slots : new[s] = woEntities[s]
      /\ \A id : IsAvatar(woEntities, id) => IsAvatar(new, id) /\ id \notin IdsIn(slots)
      /\ \A parts : PartsAre(woEntities, parts) => PartsAre(new, parts)
      /\ kind = "player" => \A id \in IdsIn(slots) : IsAvatar(new, id)
  BY <1>1, <1>2, <1>4, <1>5, EntitiesCreated
<1> HIDE DEF new
<1>7. NpcsAre(new, woSpawned)
  <2> SUFFICES ASSUME NEW s \in EntitySlots, Monster(new, s)
               PROVE  \E j \in DOMAIN woSpawned : <<s, new[s].gen>> \in woSpawned[j]
    BY DEF NpcsAre
  <2>1. Monster(woEntities, s) /\ new[s].gen = woEntities[s].gen BY <1>5, <1>6 DEF Monster
  <2> QED BY <1>1, <2>1 DEF NpcsAre
<1>8. new \in [EntitySlots -> Entity] /\ SpawnsAre(new, woSpawned) /\ PartsAre(new, woParts)
  BY <1>1, <1>6
<1> QED BY <1>3, <1>5, <1>6, <1>7, <1>8 DEF new, avatar, slots, kind

LEMMA AvatarIsGone ==
  ASSUME NEW ents \in [EntitySlots -> Entity], NEW spawned, SpawnsAre(ents, spawned), NpcsAre(ents, spawned),
         NEW parts, PartsAre(ents, parts), NEW avatar
  PROVE  LET new == DestroyEntities(ents, {avatar})
         IN /\ new \in [EntitySlots -> Entity] /\ SpawnsAre(new, spawned) /\ NpcsAre(new, spawned)
            /\ PartsAre(new, parts) /\ \A id : IsAvatar(ents, id) /\ id # avatar => IsAvatar(new, id)
<1> DEFINE ids == {avatar}
           new == DestroyEntities(ents, ids)
<1>1. /\ new \in [EntitySlots -> Entity]
      /\ \A any : SpawnsAre(ents, any) => SpawnsAre(new, any)
      /\ \A s \in EntitySlots : Monster(new, s) => /\ Monster(ents, s) /\ new[s].gen = ents[s].gen
                                                  /\ <<s, ents[s].gen>> \notin ids
      /\ \A id : IsAvatar(ents, id) /\ id \notin ids => IsAvatar(new, id)
      /\ \A any : PartsAre(ents, any) => PartsAre(new, any)
  <2> HIDE DEF ids
  <2> QED BY EntitiesDestroyed
<1> HIDE DEF new
<1>2. /\ new \in [EntitySlots -> Entity] /\ SpawnsAre(new, spawned) /\ PartsAre(new, parts)
      /\ \A id : IsAvatar(ents, id) /\ id # avatar => IsAvatar(new, id)
  BY <1>1
<1> QED BY <1>1, <1>2 DEF new, NpcsAre

(* A player enters, leaves, and is transferred.                             *)
LEMMA PlayersMove ==
  ASSUME NEW ents, NEW scenes, AvatarsAre(ents, scenes), NEW new, NEW avatar, ~Used(scenes, avatar),
         \A id : IsAvatar(ents, id) /\ id # avatar => IsAvatar(new, id)
  PROVE  AvatarsAre(new, scenes)
  BY DEF AvatarsAre, Used

LEMMA SceneEntered ==
  ASSUME WorldIInv, NEW p, NEW scene \in DOMAIN woScenes, EnterScene(p, scene) PROVE WorldIInv'
<1> DEFINE avatar == CHOOSE id \in IdsIn(SlotsFor(1)) : TRUE
           new == CreateEntities(SlotsFor(1), "player", scene)
<1>1. /\ woEntities' = new /\ woScenes' = Entered(woScenes, scene, p, avatar)
      /\ UNCHANGED <<woDefs, woInstances, woNextId, woSpawned, woShards, woShardIndex, woParts>>
      /\ FreeSlots # {} /\ \A s \in DOMAIN woScenes : p \notin DOMAIN woScenes[s].players
  BY DEF EnterScene, woInstanceVars, woShardVars
<1>2. /\ new \in [EntitySlots -> Entity] /\ SpawnsAre(new, woSpawned) /\ NpcsAre(new, woSpawned)
      /\ PartsAre(new, woParts) /\ IsAvatar(new, avatar)
      /\ \A id : IsAvatar(woEntities, id) => IsAvatar(new, id) /\ id # avatar
  BY <1>1, AvatarIsMade
<1> HIDE DEF new, avatar
<1>3. ScenesAre(woScenes) /\ OnePlace(woScenes) /\ AvatarsAre(woEntities, woScenes)
  BY DEF WorldIInv, RoomsIInv
<1>4. ~Present(woScenes, p) /\ ~Used(woScenes, avatar) /\ AvatarsAre(new, woScenes)
  BY <1>1, <1>2, <1>3 DEF Present, Used, AvatarsAre
<1>5. ScenesAre(woScenes') /\ OnePlace(woScenes') /\ AvatarsAre(new, woScenes') /\ DOMAIN woScenes' = DOMAIN woScenes
  BY <1>1, <1>2, <1>3, <1>4, PlayerEnters
<1>6. RoomsIInv(woEntities', woScenes') BY <1>1, <1>5 DEF RoomsIInv
<1> QED BY <1>1, <1>2, <1>5, <1>6, PlayersChange

LEMMA SceneLeft ==
  ASSUME WorldIInv, NEW p, NEW scene \in DOMAIN woScenes, LeaveScene(p, scene) PROVE WorldIInv'
<1> DEFINE avatar == woScenes[scene].players[p]
           new == DestroyEntities(woEntities, {avatar})
<1>1. /\ woEntities' = new /\ woScenes' = LeftScene(woScenes, scene, p)
      /\ UNCHANGED <<woDefs, woInstances, woNextId, woSpawned, woShards, woShardIndex, woParts>>
      /\ p \in DOMAIN woScenes[scene].players
  BY DEF LeaveScene, woInstanceVars, woShardVars
<1>2. /\ ScenesAre(woScenes) /\ OnePlace(woScenes) /\ AvatarsAre(woEntities, woScenes)
      /\ woEntities \in [EntitySlots -> Entity] /\ SpawnsAre(woEntities, woSpawned) /\ NpcsAre(woEntities, woSpawned)
      /\ PartsAre(woEntities, woParts)
  BY DEF WorldIInv, RoomsIInv, EntitiesIInv
<1>3. /\ ScenesAre(woScenes') /\ OnePlace(woScenes') /\ AvatarsAre(woEntities, woScenes')
      /\ DOMAIN woScenes' = DOMAIN woScenes /\ ~Used(woScenes', avatar)
  BY <1>1, <1>2, PlayerLeaves
<1> HIDE DEF avatar
<1>4. /\ new \in [EntitySlots -> Entity] /\ SpawnsAre(new, woSpawned) /\ NpcsAre(new, woSpawned)
      /\ PartsAre(new, woParts) /\ \A id : IsAvatar(woEntities, id) /\ id # avatar => IsAvatar(new, id)
  BY <1>2, AvatarIsGone
<1> HIDE DEF new
<1>5. RoomsIInv(woEntities', woScenes') BY <1>1, <1>3, <1>4, PlayersMove DEF RoomsIInv
<1> QED BY <1>1, <1>3, <1>4, <1>5, PlayersChange

LEMMA PlayerIsTransferred ==
  ASSUME WorldIInv, NEW p, NEW from \in DOMAIN woScenes, NEW to \in DOMAIN woScenes, TransferPlayer(p, from, to)
  PROVE  WorldIInv'
<1> DEFINE left == LeftScene(woScenes, from, p)
           avatar == CHOOSE id \in IdsIn(SlotsFor(1)) : TRUE
           old == woScenes[from].players[p]
           without == DestroyEntities(woEntities, {old})
           made == CreateEntities(SlotsFor(1), "player", to)
           new == DestroyEntities(made, {old})
<1>1. /\ p \in DOMAIN woScenes[from].players
      /\ UNCHANGED <<woDefs, woInstances, woNextId, woSpawned, woShards, woShardIndex, woParts>>
      /\ \/ FreeSlots = {} /\ woScenes' = left /\ woEntities' = without
         \/ /\ FreeSlots # {} /\ woEntities' = new
            /\ \/ woScenes' = Entered(left, to, p, avatar)
               \/ woScenes' = Entered(left, from, p, avatar)
               \/ woScenes' = left
  BY DEF TransferPlayer, woInstanceVars, woShardVars
<1>2. /\ ScenesAre(woScenes) /\ OnePlace(woScenes) /\ AvatarsAre(woEntities, woScenes)
      /\ woEntities \in [EntitySlots -> Entity] /\ SpawnsAre(woEntities, woSpawned) /\ NpcsAre(woEntities, woSpawned)
      /\ PartsAre(woEntities, woParts)
  BY DEF WorldIInv, RoomsIInv, EntitiesIInv
<1>3. /\ ScenesAre(left) /\ OnePlace(left) /\ AvatarsAre(woEntities, left)
      /\ DOMAIN left = DOMAIN woScenes /\ ~Present(left, p) /\ ~Used(left, old)
      /\ \A id : Used(left, id) => Used(woScenes, id)
  BY <1>1, <1>2, PlayerLeaves
<1> HIDE DEF left
<1>4. IsAvatar(woEntities, old) BY <1>1, <1>2 DEF AvatarsAre
<1> HIDE DEF old
<1>5. CASE FreeSlots = {}
  <2>1. /\ without \in [EntitySlots -> Entity] /\ SpawnsAre(without, woSpawned) /\ NpcsAre(without, woSpawned)
        /\ PartsAre(without, woParts) /\ \A id : IsAvatar(woEntities, id) /\ id # old => IsAvatar(without, id)
    BY <1>2, AvatarIsGone
  <2> HIDE DEF without
  <2>2. woScenes' = left /\ woEntities' = without BY <1>1, <1>5
  <2>3. RoomsIInv(woEntities', woScenes') BY <1>3, <2>1, <2>2, PlayersMove DEF RoomsIInv
  <2> QED BY <1>1, <1>3, <2>1, <2>2, <2>3, PlayersChange
<1>6. CASE FreeSlots # {}
  <2>1. /\ made \in [EntitySlots -> Entity] /\ SpawnsAre(made, woSpawned) /\ NpcsAre(made, woSpawned)
        /\ PartsAre(made, woParts) /\ IsAvatar(made, avatar)
        /\ \A id : IsAvatar(woEntities, id) => IsAvatar(made, id) /\ id # avatar
    BY <1>6, AvatarIsMade
  <2> HIDE DEF made, avatar
  <2>2. /\ new \in [EntitySlots -> Entity] /\ SpawnsAre(new, woSpawned) /\ NpcsAre(new, woSpawned)
        /\ PartsAre(new, woParts) /\ \A id : IsAvatar(made, id) /\ id # old => IsAvatar(new, id)
    BY <2>1, AvatarIsGone
  <2> HIDE DEF new
  <2>3. IsAvatar(new, avatar) BY <1>4, <2>1, <2>2
  <2>4. AvatarsAre(new, left) BY <1>3, <2>1, <2>2, PlayersMove DEF AvatarsAre
  <2>5. ~Used(left, avatar) BY <1>3, <2>1 DEF AvatarsAre, Used
  <2>6. ASSUME NEW a \in DOMAIN woScenes, woScenes' = Entered(left, a, p, avatar)
        PROVE  RoomsIInv(new, woScenes') /\ DOMAIN woScenes' = DOMAIN woScenes
    <3>1. /\ ScenesAre(woScenes') /\ OnePlace(woScenes') /\ AvatarsAre(new, woScenes')
          /\ DOMAIN woScenes' = DOMAIN left
      BY <1>3, <2>3, <2>4, <2>5, <2>6, PlayerEnters
    <3> QED BY <1>3, <3>1 DEF RoomsIInv
  <2>7. ASSUME woScenes' = left
        PROVE  RoomsIInv(new, woScenes') /\ DOMAIN woScenes' = DOMAIN woScenes
    BY <1>3, <2>4, <2>7 DEF RoomsIInv
  <2> QED BY <1>1, <1>6, <2>2, <2>6, <2>7, PlayersChange
<1> QED BY <1>5, <1>6

LEMMA WorldSteps ==
  WorldIInv /\ [WorldNext]_worldVars => WorldIInv'
<1> SUFFICES ASSUME WorldIInv, [WorldNext]_worldVars PROVE WorldIInv' OBVIOUS
<1>1. CASE UNCHANGED worldVars
  BY <1>1 DEF worldVars, woInstanceVars, woSceneVars, woShardVars, woEntityVars, WorldIInv, EntitiesIInv, RoomsIInv
<1>2. CASE PlayersNext
  <2>1. CASE FlushDeferred BY <2>1, EntitiesFlushed
  <2>2. CASE GetOrCreateOpenWorld BY <2>2, ShardIsAdded
  <2>3. CASE \E s \in EntitySlots : LET id == <<s, woEntities[s].gen>> IN AttachComponent(id) \/ DetachComponent(id)
    BY <2>3, PartsChange
  <2>4. ASSUME NEW p \in WorldPlayers, NEW scene \in DOMAIN woScenes,
               EnterScene(p, scene) \/ LeaveScene(p, scene) \/ \E to \in DOMAIN woScenes : TransferPlayer(p, scene, to)
        PROVE  WorldIInv'
    BY <2>4, SceneEntered, SceneLeft, PlayerIsTransferred
  <2> QED BY <1>2, <2>1, <2>2, <2>3, <2>4 DEF PlayersNext
<1>3. CASE InstancesNext
  <2>1. CASE FlushDeferred BY <2>1, EntitiesFlushed
  <2>2. CASE WorldTick BY <2>2, WorldTicks
  <2>6. CASE GetOrCreateOpenWorld BY <2>6, ShardIsAdded
  <2>3. CASE \E config \in InstanceConfigs : LoadInstanceConfig(config) BY <2>3, ConfigIsLoaded
  <2>4. CASE \E def \in DOMAIN woDefs, members \in SUBSET WorldPlayers : CreateInstance(def, members)
    BY <2>4, InstanceIsCreated
  <2>5. ASSUME NEW i \in DOMAIN woInstances,
               \/ StartInstance(i) \/ CompleteInstance(i) \/ DestroyInstance(i)
               \/ \E p \in WorldPlayers : AddMember(i, p) \/ RemoveMember(i, p)
        PROVE  WorldIInv'
    BY <2>5, InstanceStarts, InstanceCompletes, InstanceEnds, MemberJoins, MemberGoes
  <2> QED BY <1>3, <2>1, <2>2, <2>3, <2>4, <2>5, <2>6 DEF InstancesNext
<1> QED BY <1>1, <1>2, <1>3 DEF WorldNext

LEMMA WorldSafe ==
  WorldIInv => NothingOutlivesItsScene
<1> SUFFICES ASSUME WorldIInv PROVE NothingOutlivesItsScene OBVIOUS
<1>1. DOMAIN woSpawned \subseteq DOMAIN woInstances BY DEF WorldIInv, SpawnedAre
<1>2. ASSUME NEW s \in EntitySlots, woEntities[s].phase = "alive" /\ woEntities[s].kind = "npc"
      PROVE  \E i \in DOMAIN woSpawned : <<s, woEntities[s].gen>> \in woSpawned[i]
  BY <1>2 DEF WorldIInv, EntitiesIInv, NpcsAre, Monster
<1>3. ASSUME NEW a \in DOMAIN woScenes, NEW b \in DOMAIN woScenes,
             NEW p \in DOMAIN woScenes[a].players, NEW q \in DOMAIN woScenes[b].players
      PROVE  /\ AliveEntity(woScenes[a].players[p])
             /\ p = q => a = b
             /\ woScenes[a].players[p] = woScenes[b].players[q] => p = q /\ a = b
  <2>1. PICK s \in EntitySlots : woScenes[a].players[p] = <<s, woEntities[s].gen>> /\ woEntities[s].phase = "alive"
    BY DEF WorldIInv, RoomsIInv, AvatarsAre, IsAvatar
  <2>2. AliveEntity(woScenes[a].players[p])
    BY <2>1 DEF AliveEntity, NoId, WorldIInv, EntitiesIInv, Entity
  <2> QED BY <2>2 DEF WorldIInv, RoomsIInv, OnePlace
<1>4. ASSUME NEW s \in EntitySlots, woParts[s] # NoId
      PROVE  woParts[s] = <<s, woEntities[s].gen - (IF woEntities[s].phase = "dead" THEN 1 ELSE 0)>>
  BY <1>4 DEF WorldIInv, EntitiesIInv, PartsAre
<1>5. ScenesAreOwned
  <2>1. /\ ScenesHave(woScenes, woShards, woInstances, woSpawned, woNextId) /\ ToSet(woShards) = Members(woShards)
        /\ \A n \in 1 .. MaxShards : n \in Nat
    BY DEF WorldIInv, ToSet, Members
  <2> QED BY <2>1 DEF ScenesAreOwned, StartedScenes, ScenesHave, NumberGone
<1> QED BY <1>1, <1>2, <1>3, <1>4, <1>5 DEF NothingOutlivesItsScene

------------------------------------------------------------------------------
(* Creatures, for any places, radii and timers: sights are as the           *)
(* distances are, a monster's state goes with its counts and timers, and a  *)
(* step is a legal one.                                                     *)

(* Places on the line and the cells of the grid.                            *)
LEMMA GapIs ==
  ASSUME NEW a \in Int, NEW b \in Int
  PROVE  Gap(a, b) \in Nat /\ Gap(a, b) = Gap(b, a) /\ Gap(a, a) = 0 /\ \A r \in Int : Gap(a, b) <= r <=> (a - b <= r /\ b - a <= r)
BY DEF Gap

LEMMA CellContains ==
  ASSUME NEW p \in Int, NEW C \in Nat \ {0}
  PROVE  p \div C \in Int /\ C * (p \div C) <= p /\ p < C * (p \div C) + C
OBVIOUS

LEMMA FartherCells ==
  ASSUME NEW C \in Nat \ {0}, NEW i \in Int, NEW j \in Int, NEW r \in Nat, i - j >= r + 1
  PROVE  C * i - C * j >= C * r + C
<1>1. PICK d \in Nat : i = j + r + 1 + d OBVIOUS
<1>2. C * d >= 0 /\ C * d \in Int /\ C * i \in Int /\ C * j \in Int /\ C * r \in Int OBVIOUS
<1> QED BY <1>1, <1>2

LEMMA ReachIs ==
  Reach \in Nat \ {0} /\ CellSize * Reach >= ViewRadius
<1> DEFINE C == CellSize
           cells == (ViewRadius + C - 1) \div C
<1>1. C \in Nat \ {0} /\ ViewRadius \in Nat BY CreaturesAssumption
<1>2. Reach = IF cells < 1 THEN 1 ELSE cells BY DEF Reach
<1>3. cells \in Int /\ ViewRadius + C - 1 < C * cells + C BY <1>1, CellContains
<1> HIDE DEF cells
<1>4. C * cells \in Int BY <1>1, <1>3
<1>5. C * cells >= ViewRadius BY <1>1, <1>3, <1>4
<1>6. CASE cells < 1
  <2>1. Reach = 1 /\ cells <= 0 BY <1>2, <1>3, <1>6
  <2>2. C * cells <= 0
    <3>1. PICK d \in Nat : cells = -d BY <1>3, <2>1
    <3> QED BY <1>1, <3>1
  <2> QED BY <1>1, <1>4, <1>5, <2>1, <2>2
<1>7. CASE ~(cells < 1) BY <1>2, <1>3, <1>5, <1>7
<1> QED BY <1>6, <1>7

(* What is within the view radius is within the cells looked in.            *)
LEMMA CellsAreNear ==
  ASSUME NEW a \in Int, NEW b \in Int, Gap(a, b) <= ViewRadius
  PROVE  Gap(CellOf(a), CellOf(b)) <= Reach
<1> DEFINE C == CellSize
           i == a \div C
           j == b \div C
<1>1. C \in Nat \ {0} /\ ViewRadius \in Nat /\ Reach \in Nat /\ C * Reach >= ViewRadius
  BY CreaturesAssumption, ReachIs
<1>2. /\ i \in Int /\ C * i <= a /\ a < C * i + C
      /\ j \in Int /\ C * j <= b /\ b < C * j + C
  BY <1>1, CellContains
<1>3. a - b <= ViewRadius /\ b - a <= ViewRadius BY <1>1, GapIs
<1> HIDE DEF i, j
<1>4. C * i \in Int /\ C * j \in Int /\ C * Reach \in Int BY <1>1, <1>2
<1>5. ~(i - j >= Reach + 1)
  <2> SUFFICES ASSUME i - j >= Reach + 1 PROVE FALSE OBVIOUS
  <2> QED BY <1>1, <1>2, <1>3, <1>4, FartherCells
<1>6. ~(j - i >= Reach + 1)
  <2> SUFFICES ASSUME j - i >= Reach + 1 PROVE FALSE OBVIOUS
  <2> QED BY <1>1, <1>2, <1>3, <1>4, FartherCells
<1> QED BY <1>1, <1>2, <1>5, <1>6 DEF CellOf, i, j, Gap

(* Who sees whom.                                                           *)
Place == Int \cup {NoPos}
Grids == [CreatureIds -> Place]
Near(grid, e, o) == e # o /\ grid[e] # NoPos /\ grid[o] # NoPos /\ Gap(grid[e], grid[o]) <= ViewRadius
SightsAre(grid, told) ==
  /\ grid \in Grids /\ told \in SUBSET (CreatureIds \X CreatureIds)
  /\ \A e, o \in CreatureIds : (<<e, o>> \in told) <=> Near(grid, e, o)

LEMMA VisibleAre ==
  ASSUME NEW grid \in Grids, NEW e \in CreatureIds, NEW p \in Int
  PROVE  /\ ComputeVisible(grid, e, p) \in SUBSET CreatureIds
         /\ \A o \in CreatureIds : o \in ComputeVisible(grid, e, p) <=>
               o # e /\ grid[o] # NoPos /\ Gap(grid[o], p) <= ViewRadius
<1>1. ASSUME NEW o \in CreatureIds, grid[o] # NoPos, Gap(grid[o], p) <= ViewRadius
      PROVE  Gap(CellOf(grid[o]), CellOf(p)) <= Reach
  BY <1>1, CellsAreNear DEF Grids, Place
<1>2. ASSUME NEW o \in CreatureIds
      PROVE  o \in ComputeVisible(grid, e, p) <=> o # e /\ grid[o] # NoPos /\ Gap(grid[o], p) <= ViewRadius
  BY <1>1 DEF ComputeVisible
<1> QED BY <1>2 DEF ComputeVisible

LEMMA BothWaysAre ==
  ASSUME NEW e, NEW others, NEW x, NEW y
  PROVE  <<x, y>> \in BothWays(e, others) <=> (x = e /\ y \in others) \/ (y = e /\ x \in others)
BY DEF BothWays

LEMMA PairsWithin ==
  ASSUME NEW e \in CreatureIds, NEW others \in SUBSET CreatureIds
  PROVE  BothWays(e, others) \in SUBSET (CreatureIds \X CreatureIds)
BY DEF BothWays

(* One entity is put somewhere else, or away: the pairs it is in change.    *)
LEMMA SightsChange ==
  ASSUME NEW grid, NEW told, SightsAre(grid, told), NEW e \in CreatureIds, NEW p \in Place, NEW new,
         new \in SUBSET (CreatureIds \X CreatureIds),
         \A x, y \in CreatureIds \ {e} : <<x, y>> \in new <=> <<x, y>> \in told,
         \A o \in CreatureIds : /\ <<e, o>> \in new <=> Near([grid EXCEPT ![e] = p], e, o)
                                /\ <<o, e>> \in new <=> Near([grid EXCEPT ![e] = p], e, o)
  PROVE  SightsAre([grid EXCEPT ![e] = p], new)
<1> DEFINE g == [grid EXCEPT ![e] = p]
<1>1. grid \in Grids /\ g \in Grids /\ g[e] = p /\ \A x \in CreatureIds \ {e} : g[x] = grid[x]
  BY DEF SightsAre, Grids
<1> HIDE DEF g
<1>2. ASSUME NEW x \in CreatureIds, NEW y \in CreatureIds PROVE <<x, y>> \in new <=> Near(g, x, y)
  <2>1. CASE x # e /\ y # e BY <1>1, <2>1 DEF SightsAre, Near
  <2>2. CASE x = e BY <2>2 DEF g
  <2>3. CASE y = e /\ x # e
    <3>1. Near(g, e, x) <=> Near(g, x, e) BY <1>1, GapIs DEF Near, Grids, Place
    <3> QED BY <2>3, <3>1 DEF g
  <2> QED BY <2>1, <2>2, <2>3
<1> QED BY <1>1, <1>2 DEF SightsAre, g

(* The three calls of the grid.                                             *)
AoiIInv(aoi) == aoi = [grid |-> aoi.grid, told |-> aoi.told] /\ SightsAre(aoi.grid, aoi.told)

LEMMA PutInPlace ==
  ASSUME NEW grid \in Grids, NEW e \in CreatureIds, NEW p \in Place
  PROVE  LET g == [grid EXCEPT ![e] = p]
         IN /\ g \in Grids /\ \A o \in CreatureIds : g[o] = IF o = e THEN p ELSE grid[o]
            /\ p \in Int => \A o \in CreatureIds :
                 Near(g, e, o) <=> (o # e /\ grid[o] # NoPos /\ Gap(grid[o], p) <= ViewRadius)
            /\ p = NoPos => \A o \in CreatureIds : ~Near(g, e, o)
<1> DEFINE g == [grid EXCEPT ![e] = p]
<1>1. g \in Grids /\ \A o \in CreatureIds : g[o] = IF o = e THEN p ELSE grid[o] BY DEF Grids
<1> HIDE DEF g
<1>2. ASSUME p \in Int, NEW o \in CreatureIds
      PROVE  Near(g, e, o) <=> (o # e /\ grid[o] # NoPos /\ Gap(grid[o], p) <= ViewRadius)
  <2>1. p # NoPos /\ (grid[o] # NoPos => grid[o] \in Int)
    BY <1>2, CreaturesAssumption DEF Grids, Place
  <2> QED BY <1>1, <1>2, <2>1, GapIs DEF Near
<1>3. ASSUME p = NoPos, NEW o \in CreatureIds PROVE ~Near(g, e, o) BY <1>1, <1>3 DEF Near
<1> QED BY <1>1, <1>2, <1>3 DEF g

LEMMA PairsOfOne ==
  ASSUME NEW grid, NEW told, SightsAre(grid, told), NEW e \in CreatureIds, NEW o \in CreatureIds
  PROVE  /\ <<e, o>> \in told <=> <<o, e>> \in told
         /\ <<e, o>> \in told <=>
              (grid[e] # NoPos /\ o # e /\ grid[o] # NoPos /\ Gap(grid[o], grid[e]) <= ViewRadius)
<1>1. grid[e] # NoPos /\ grid[o] # NoPos => Gap(grid[e], grid[o]) = Gap(grid[o], grid[e])
  BY GapIs DEF Place, SightsAre, Grids
<1> QED BY <1>1 DEF SightsAre, Near

LEMMA PlaceOf ==
  ASSUME NEW p \in Int PROVE p \in Place /\ p # NoPos
BY CreaturesAssumption DEF Place

LEMMA EntersSight ==
  ASSUME NEW aoi, AoiIInv(aoi), NEW e \in CreatureIds, NEW p \in Int
  PROVE  LET new == AoiEnter(aoi, e, p)
         IN AoiIInv(new) /\ \A o \in CreatureIds : o # e => new.grid[o] = aoi.grid[o]
<1> DEFINE grid == aoi.grid
           told == aoi.told
           seen == ComputeVisible(grid, e, p)
           new == AoiEnter(aoi, e, p)
           g == [grid EXCEPT ![e] = p]
           pairs == told \cup BothWays(e, seen)
<1>1. SightsAre(grid, told) /\ grid \in Grids /\ told \in SUBSET (CreatureIds \X CreatureIds)
  BY DEF AoiIInv, SightsAre
<1>2. CASE ~Valid(p) \/ grid[e] # NoPos BY <1>2 DEF AoiEnter
<1>3. CASE Valid(p) /\ grid[e] = NoPos
  <2>1. new = [grid |-> g, told |-> pairs] BY <1>3 DEF AoiEnter
  <2>2. /\ seen \in SUBSET CreatureIds
        /\ \A o \in CreatureIds : o \in seen <=> o # e /\ grid[o] # NoPos /\ Gap(grid[o], p) <= ViewRadius
    BY <1>1, VisibleAre
  <2>3. p \in Place BY PlaceOf
  <2>4. \A o \in CreatureIds : Near(g, e, o) <=> (o # e /\ grid[o] # NoPos /\ Gap(grid[o], p) <= ViewRadius)
    BY <1>1, <2>3, PutInPlace
  <2> HIDE DEF seen, new
  <2>5. pairs \in SUBSET (CreatureIds \X CreatureIds) BY <1>1, <2>2, PairsWithin
  <2>6. \A x, y : <<x, y>> \in pairs <=> (<<x, y>> \in told \/ (x = e /\ y \in seen) \/ (y = e /\ x \in seen))
    BY BothWaysAre
  <2>7. \A o \in CreatureIds : <<e, o>> \notin told /\ <<o, e>> \notin told
    BY <1>1, <1>3, PairsOfOne
  <2> HIDE DEF pairs
  <2>8. ASSUME NEW o \in CreatureIds PROVE (<<e, o>> \in pairs <=> Near(g, e, o)) /\ (<<o, e>> \in pairs <=> Near(g, e, o))
    BY <2>2, <2>4, <2>6, <2>7
  <2>9. SightsAre(g, pairs) BY <1>1, <2>3, <2>5, <2>6, <2>8, SightsChange
  <2> QED BY <1>1, <2>1, <2>9 DEF AoiIInv, new, Grids
<1> QED BY <1>2, <1>3

LEMMA LeavesSight ==
  ASSUME NEW aoi, AoiIInv(aoi), NEW e \in CreatureIds
  PROVE  LET new == AoiLeave(aoi, e)
         IN /\ AoiIInv(new) /\ \A o \in CreatureIds : o # e => new.grid[o] = aoi.grid[o]
            /\ new.grid[e] = NoPos
<1> DEFINE grid == aoi.grid
           told == aoi.told
           seen == ComputeVisible(grid, e, grid[e])
           new == AoiLeave(aoi, e)
           g == [grid EXCEPT ![e] = NoPos]
           pairs == told \ BothWays(e, seen)
<1>1. SightsAre(grid, told) /\ grid \in Grids /\ told \in SUBSET (CreatureIds \X CreatureIds)
  BY DEF AoiIInv, SightsAre
<1>2. CASE grid[e] = NoPos BY <1>2 DEF AoiLeave
<1>3. CASE grid[e] # NoPos
  <2>1. new = [grid |-> g, told |-> pairs] BY <1>3 DEF AoiLeave
  <2>2. /\ seen \in SUBSET CreatureIds /\ grid[e] \in Int
        /\ \A o \in CreatureIds : o \in seen <=> o # e /\ grid[o] # NoPos /\ Gap(grid[o], grid[e]) <= ViewRadius
    BY <1>1, <1>3, VisibleAre DEF Grids, Place
  <2>3. NoPos \in Place BY DEF Place
  <2>4. \A o \in CreatureIds : ~Near(g, e, o) BY <1>1, <2>3, PutInPlace
  <2> HIDE DEF seen, new
  <2>5. pairs \in SUBSET (CreatureIds \X CreatureIds) BY <1>1
  <2>6. \A x, y : <<x, y>> \in pairs <=> (<<x, y>> \in told /\ ~((x = e /\ y \in seen) \/ (y = e /\ x \in seen)))
    BY BothWaysAre
  <2>7. \A o \in CreatureIds : (<<e, o>> \in told => o \in seen) /\ (<<o, e>> \in told => o \in seen)
    BY <1>1, <2>2, PairsOfOne
  <2> HIDE DEF pairs
  <2>8. ASSUME NEW o \in CreatureIds PROVE (<<e, o>> \in pairs <=> Near(g, e, o)) /\ (<<o, e>> \in pairs <=> Near(g, e, o))
    BY <2>4, <2>6, <2>7
  <2>9. SightsAre(g, pairs) BY <1>1, <2>3, <2>5, <2>6, <2>8, SightsChange
  <2> QED BY <1>1, <2>1, <2>9 DEF AoiIInv, new, Grids
<1> QED BY <1>2, <1>3

LEMMA MovesInSight ==
  ASSUME NEW aoi, AoiIInv(aoi), NEW e \in CreatureIds, NEW p \in Int
  PROVE  LET new == AoiMove(aoi, e, p)
         IN AoiIInv(new) /\ \A o \in CreatureIds : new.grid[o] # NoPos => aoi.grid[o] # NoPos
<1> DEFINE grid == aoi.grid
           told == aoi.told
           before == ComputeVisible(grid, e, grid[e])
           after == ComputeVisible(grid, e, p)
           new == AoiMove(aoi, e, p)
           g == [grid EXCEPT ![e] = p]
           pairs == (told \cup BothWays(e, after \ before)) \ BothWays(e, before \ after)
<1>1. SightsAre(grid, told) /\ grid \in Grids /\ told \in SUBSET (CreatureIds \X CreatureIds)
  BY DEF AoiIInv, SightsAre
<1>2. CASE ~Valid(p) \/ grid[e] = NoPos BY <1>2 DEF AoiMove
<1>3. CASE Valid(p) /\ grid[e] # NoPos
  <2>1. new = [grid |-> g, told |-> pairs] BY <1>3 DEF AoiMove
  <2>2. /\ before \in SUBSET CreatureIds /\ grid[e] \in Int
        /\ \A o \in CreatureIds : o \in before <=> o # e /\ grid[o] # NoPos /\ Gap(grid[o], grid[e]) <= ViewRadius
    BY <1>1, <1>3, VisibleAre DEF Grids, Place
  <2>3. /\ after \in SUBSET CreatureIds
        /\ \A o \in CreatureIds : o \in after <=> o # e /\ grid[o] # NoPos /\ Gap(grid[o], p) <= ViewRadius
    BY <1>1, VisibleAre
  <2>4. p \in Place BY PlaceOf
  <2>5. \A o \in CreatureIds : Near(g, e, o) <=> (o # e /\ grid[o] # NoPos /\ Gap(grid[o], p) <= ViewRadius)
    BY <1>1, <2>4, PutInPlace
  <2> HIDE DEF before, after, new
  <2>6. pairs \in SUBSET (CreatureIds \X CreatureIds) BY <1>1, <2>3, PairsWithin
  <2>7. \A x, y : <<x, y>> \in pairs <=>
           /\ <<x, y>> \in told \/ (x = e /\ y \in after \ before) \/ (y = e /\ x \in after \ before)
           /\ ~((x = e /\ y \in before \ after) \/ (y = e /\ x \in before \ after))
    <3> DEFINE come == after \ before
               gone == before \ after
    <3> HIDE DEF come, gone
    <3>1. TAKE x, y
    <3>2. <<x, y>> \in BothWays(e, come) <=> (x = e /\ y \in come) \/ (y = e /\ x \in come)
      BY BothWaysAre
    <3>3. <<x, y>> \in BothWays(e, gone) <=> (x = e /\ y \in gone) \/ (y = e /\ x \in gone)
      BY BothWaysAre
    <3>4. pairs = (told \cup BothWays(e, come)) \ BothWays(e, gone) BY DEF come, gone
    <3> HIDE DEF pairs
    <3> QED BY <3>2, <3>3, <3>4 DEF come, gone
  <2>8. \A o \in CreatureIds : (<<e, o>> \in told <=> o \in before) /\ (<<o, e>> \in told <=> o \in before)
    BY <1>1, <1>3, <2>2, PairsOfOne
  <2>9. e \notin before /\ e \notin after BY <2>2, <2>3
  <2> HIDE DEF pairs
  <2>10. ASSUME NEW o \in CreatureIds PROVE (<<e, o>> \in pairs <=> Near(g, e, o)) /\ (<<o, e>> \in pairs <=> Near(g, e, o))
    <3>1. Near(g, e, o) <=> o \in after BY <2>3, <2>5
    <3> HIDE DEF g
    <3>2. <<o, e>> \in pairs <=> o \in after BY <2>7, <2>8, <2>9
    <3> QED BY <2>7, <2>8, <2>9, <3>1, <3>2
  <2>11. SightsAre(g, pairs) BY <1>1, <2>4, <2>6, <2>7, <2>10, SightsChange
  <2> QED BY <1>1, <1>3, <2>1, <2>11 DEF AoiIInv, new, Grids
<1> QED BY <1>2, <1>3

(* Integrate: each entity has one turn.                                     *)
Mov == [pos : Place, velocity : Int, silent : Int, seq : Int, moved : BOOLEAN]
Aois == {aoi \in [grid : Grids, told : SUBSET (CreatureIds \X CreatureIds)] : SightsAre(aoi.grid, aoi.told)}
Agreed(moving, pos, grid) ==
  /\ \A e \in CreatureIds : grid[e] # NoPos => moving[e].pos # NoPos
  /\ \A a \in Avatars : moving[a].pos # NoPos => moving[a].pos = pos[a]
Sims ==
  {sim \in [moving : [CreatureIds -> Mov], pos : [CreatureIds -> Int], aoi : Aois] :
     Agreed(sim.moving, sim.pos, sim.aoi.grid)}
Same(old, new, e) == new.moving[e] = old.moving[e] /\ new.pos[e] = old.pos[e]
Turned(old, new, e) ==
  /\ new.moving[e].velocity \in {0, old.moving[e].velocity}
  /\ \/ new.pos[e] = old.pos[e]
     \/ old.moving[e].pos # NoPos /\ new.pos[e] = Clamp(old.moving[e].pos + old.moving[e].velocity)

LEMMA AoisAre ==
  ASSUME NEW aoi PROVE aoi \in Aois <=> AoiIInv(aoi)
BY DEF Aois, AoiIInv, SightsAre

LEMMA ClampIs ==
  ASSUME NEW p \in Int
  PROVE  Clamp(p) \in Int /\ Clamp(p) \in Place /\ Clamp(p) # NoPos
<1> QED BY CreaturesAssumption, PlaceOf DEF Clamp

LEMMA MovWith ==
  ASSUME NEW m \in Mov, NEW p \in Place, NEW v \in Int
  PROVE  /\ [m EXCEPT !.pos = p] \in Mov /\ [m EXCEPT !.velocity = v] \in Mov
         /\ [m EXCEPT !.pos = p].pos = p /\ [m EXCEPT !.pos = p].velocity = m.velocity
         /\ [m EXCEPT !.velocity = v].pos = m.pos /\ [m EXCEPT !.velocity = v].velocity = v
<1>1. m \in [pos : Place, velocity : Int, silent : Int, seq : Int, moved : {m.moved}] /\ m.moved \in BOOLEAN
  BY DEF Mov
<1> QED BY <1>1 DEF Mov

LEMMA OneTurn ==
  ASSUME NEW sim \in Sims, NEW e \in CreatureIds
  PROVE  /\ Integrated(sim, e) \in Sims /\ Turned(sim, Integrated(sim, e), e)
         /\ \A o \in CreatureIds : o # e => Same(sim, Integrated(sim, e), o)
<1> DEFINE m == sim.moving[e]
           p == Clamp(m.pos + m.velocity)
           t == Integrated(sim, e)
           aoi == AoiMove(sim.aoi, e, p)
<1>1. /\ sim = [moving |-> sim.moving, pos |-> sim.pos, aoi |-> sim.aoi]
      /\ sim.moving \in [CreatureIds -> Mov] /\ sim.pos \in [CreatureIds -> Int] /\ sim.aoi \in Aois
      /\ Agreed(sim.moving, sim.pos, sim.aoi.grid)
  BY DEF Sims
<1>2. m \in Mov BY <1>1
<1>3. m.pos \in Place /\ m.velocity \in Int BY <1>2 DEF Mov
<1>4. CASE m.pos = NoPos \/ m.moved \/ m.velocity = 0 BY <1>4 DEF Integrated, Turned, Same
<1>5. CASE ~(m.pos = NoPos \/ m.moved \/ m.velocity = 0) /\ m.silent > StopTimeout
  <2> DEFINE n == [m EXCEPT !.velocity = 0]
             moving == [sim.moving EXCEPT ![e] = n]
  <2>1. t = [moving |-> moving, pos |-> sim.pos, aoi |-> sim.aoi] BY <1>1, <1>5 DEF Integrated
  <2>2. n \in Mov /\ n.pos = m.pos /\ n.velocity = 0
    <3> DEFINE old == m
    <3>1. old \in Mov /\ old.pos \in Place /\ 0 \in Int BY <1>2, <1>3
    <3> HIDE DEF old
    <3> QED BY <3>1, MovWith DEF old
  <2> HIDE DEF n
  <2>3. moving \in [CreatureIds -> Mov] /\ moving[e] = n /\ \A o \in CreatureIds : o # e => moving[o] = sim.moving[o]
    BY <1>1, <2>2
  <2>4. \A o \in CreatureIds : moving[o].pos = sim.moving[o].pos BY <2>2, <2>3
  <2> HIDE DEF moving
  <2>5. Agreed(moving, sim.pos, sim.aoi.grid) BY <1>1, <2>4 DEF Agreed, CreatureIds
  <2> HIDE DEF t
  <2>6. Turned(sim, t, e) BY <2>1, <2>2, <2>3 DEF Turned
  <2>7. \A o \in CreatureIds : o # e => Same(sim, t, o) BY <2>1, <2>3 DEF Same
  <2> QED BY <1>1, <2>1, <2>3, <2>5, <2>6, <2>7 DEF t, Sims
<1>6. CASE ~(m.pos = NoPos \/ m.moved \/ m.velocity = 0) /\ ~(m.silent > StopTimeout)
  <2> DEFINE n == [m EXCEPT !.pos = p]
             moving == [sim.moving EXCEPT ![e] = n]
             pos == [sim.pos EXCEPT ![e] = p]
  <2>1. t = [moving |-> moving, pos |-> pos, aoi |-> aoi] BY <1>1, <1>6 DEF Integrated
  <2>2. p \in Int /\ p \in Place /\ p # NoPos
    <3>1. m.pos + m.velocity \in Int BY <1>3, <1>6 DEF Place
    <3> QED BY <3>1, ClampIs
  <2>3. aoi \in Aois /\ \A o \in CreatureIds : aoi.grid[o] # NoPos => sim.aoi.grid[o] # NoPos
    <3> DEFINE old == sim.aoi
               q == p
    <3>1. q \in Int /\ AoiIInv(old) BY <1>1, <2>2, AoisAre
    <3> HIDE DEF old, q
    <3>2. AoiIInv(AoiMove(old, e, q)) /\ \A o \in CreatureIds : AoiMove(old, e, q).grid[o] # NoPos => old.grid[o] # NoPos
      BY <3>1, MovesInSight
    <3> QED BY <3>2, AoisAre DEF old, q
  <2>4. n \in Mov /\ n.pos = p /\ n.velocity = m.velocity BY <1>2, <1>3, <2>2, MovWith
  <2>5. Turned(sim, [moving |-> moving, pos |-> pos, aoi |-> aoi], e)
    BY <1>1, <1>6, <2>4 DEF Turned
  <2> HIDE DEF n, p, t, aoi
  <2>6. /\ moving \in [CreatureIds -> Mov] /\ moving[e] = n /\ \A o \in CreatureIds : o # e => moving[o] = sim.moving[o]
        /\ pos \in [CreatureIds -> Int] /\ pos[e] = p /\ \A o \in CreatureIds : o # e => pos[o] = sim.pos[o]
    BY <1>1, <2>2, <2>4
  <2> HIDE DEF moving, pos
  <2>7. Agreed(moving, pos, aoi.grid)
    <3>1. \A a \in Avatars : moving[a].pos # NoPos => moving[a].pos = pos[a]
      BY <1>1, <2>4, <2>6 DEF Agreed, CreatureIds
    <3> QED BY <1>1, <2>2, <2>3, <2>4, <2>6, <3>1 DEF Agreed
  <2>8. t \in Sims BY <1>1, <2>1, <2>3, <2>6, <2>7 DEF Sims
  <2>9. \A o \in CreatureIds : o # e => Same(sim, t, o) BY <2>1, <2>6 DEF Same
  <2> QED BY <2>1, <2>5, <2>8, <2>9 DEF t
<1> QED BY <1>4, <1>5, <1>6

TurnsDone(sim, order) ==
  {x \in Nat \X Sims :
     \A e \in CreatureIds : \/ Same(sim, x[2], e)
                            \/ Turned(sim, x[2], e) /\ \E i \in 1 .. x[1] : order[i] = e}

LEMMA AllTurn ==
  ASSUME NEW sim \in Sims, IsFiniteSet(CreatureIds), NEW order \in SetToSeqs(CreatureIds)
  PROVE  Integrate(sim, order) \in Sims /\ \A e \in CreatureIds : Turned(sim, Integrate(sim, order), e)
<1> DEFINE N == Len(order)
           F == [x \in (1 .. N) \X Sims |-> Integrated(x[2], order[x[1]])]
           IsRun(f) == f = [i \in 0 .. N |-> IF i = 0 THEN sim ELSE Integrated(f[i - 1], order[i])]
           f == CHOOSE f : IsRun(f)
           S == TurnsDone(sim, order)
           h == [i \in 0 .. N |-> <<i, f[i]>>]
<1>1. Integrate(sim, order) = f[N] BY DEF Integrate
<1>2. /\ N \in Nat /\ DOMAIN order = 1 .. N /\ NoRepeat(order) /\ Members(order) = CreatureIds
  BY ListedOnce, LenProperties
<1>3. \A i \in 1 .. N : order[i] \in CreatureIds BY <1>2 DEF Members
<1> HIDE DEF N
<1>4. F \in [(1 .. N) \X Sims -> Sims] BY <1>3, OneTurn
<1>5. PICK g \in [0 .. N -> Sims] : Iterated(g, N, sim, F)
  <2> HIDE DEF F
  <2> QED BY <1>2, <1>4, Iterates
<1>6. IsRun(g)
  <2>1. ASSUME NEW i \in 1 .. N PROVE g[i] = Integrated(g[i - 1], order[i])
    <3>1. g[i - 1] \in Sims BY <1>2
    <3> QED BY <1>5, <3>1 DEF Iterated
  <2>2. g[0] = sim BY <1>5 DEF Iterated
  <2> HIDE DEF F
  <2> QED BY <1>2, <1>5, <2>1, <2>2
<1>7. IsRun(f) BY <1>6
<1> HIDE DEF f, F
<1>8. f[0] = sim /\ \A i \in 1 .. N : f[i] = Integrated(f[i - 1], order[i]) BY <1>2, <1>7
<1>9. h[0] \in S
  <2>1. \A e \in CreatureIds : Same(sim, sim, e) BY DEF Same
  <2>2. h[0] = <<0, sim>> /\ 0 \in Nat /\ <<0, sim>> \in Nat \X Sims BY <1>2, <1>8
  <2> HIDE DEF h
  <2> QED BY <2>1, <2>2 DEF TurnsDone
<1>10. ASSUME NEW i \in 1 .. N, h[i - 1] \in S PROVE h[i] \in S
  <2> DEFINE b == f[i - 1]
             t == Integrated(b, order[i])
  <2>1. i - 1 \in 0 .. N /\ i \in 0 .. N /\ i \in Nat BY <1>2
  <2>2. h[i - 1] = <<i - 1, b>> /\ h[i] = <<i, t>> BY <1>8, <2>1
  <2>3. b \in Sims /\ \A e \in CreatureIds : Same(sim, b, e) \/ (Turned(sim, b, e) /\ \E j \in 1 .. i - 1 : order[j] = e)
    <3> HIDE DEF b, h
    <3> QED BY <1>10, <2>2 DEF TurnsDone
  <2>4. order[i] \in CreatureIds BY <1>3
  <2> HIDE DEF b
  <2>5. t \in Sims /\ Turned(b, t, order[i]) /\ \A o \in CreatureIds : o # order[i] => Same(b, t, o)
    BY <2>3, <2>4, OneTurn
  <2> HIDE DEF t
  <2>6. Same(sim, b, order[i]) BY <1>2, <2>3, <2>4 DEF NoRepeat
  <2>7. ASSUME NEW e \in CreatureIds, e # order[i]
        PROVE  Same(sim, t, e) \/ (Turned(sim, t, e) /\ \E j \in 1 .. i : order[j] = e)
    <3>1. Same(b, t, e) BY <2>5, <2>7
    <3>2. CASE Same(sim, b, e) BY <3>1, <3>2 DEF Same
    <3>3. CASE Turned(sim, b, e) /\ \E j \in 1 .. i - 1 : order[j] = e
      <4>1. \E j \in 1 .. i : order[j] = e BY <2>1, <3>3
      <4> QED BY <3>1, <3>3, <4>1 DEF Turned, Same
    <3> QED BY <2>3, <3>2, <3>3
  <2>8. \E j \in 1 .. i : order[j] = order[i] OBVIOUS
  <2>9. \A e \in CreatureIds : Same(sim, t, e) \/ (Turned(sim, t, e) /\ \E j \in 1 .. i : order[j] = e)
    BY <2>5, <2>6, <2>7, <2>8 DEF Turned, Same
  <2> HIDE DEF h
  <2> QED BY <2>1, <2>2, <2>5, <2>9 DEF TurnsDone
<1>11. N \in 0 .. N /\ h[N] = <<N, f[N]>> BY <1>2
<1> HIDE DEF h
<1>12. h[N] \in S
  <2> HIDE DEF S
  <2> QED BY <1>2, <1>9, <1>10, <1>11, IterationKeeps
<1>13. \A e \in CreatureIds : Same(sim, f[N], e) => Turned(sim, f[N], e) BY DEF Same, Turned
<1> QED BY <1>1, <1>11, <1>12, <1>13 DEF TurnsDone

(* How many monsters are in a state.                                        *)
NpcStates == AiStates \cup {"New", "Gone"}
Npc == [state : NpcStates, target : Avatars \cup {NoTarget}, hp : Int, patrol : Int, wait : Int, timer : BOOLEAN]
StateOf(npcs, s) == {n \in Npcs : npcs[n].state = s}
Arrived(npcs, new, deciding, s) == {n \in deciding : new[n].state = s /\ npcs[n].state # s}
CountsAre(npcs, counts) == counts \in [AiStates -> Int] /\ \A s \in AiStates : counts[s] = Cardinality(StateOf(npcs, s))

LEMMA FewNpcs == \A S \in SUBSET Npcs : IsFiniteSet(S) /\ Cardinality(S) \in Nat
<1>1. TAKE S \in SUBSET Npcs
<1>2. S \in SUBSET (Npcs \cup Avatars) OBVIOUS
<1>3. IsFiniteSet(S) BY <1>2, CreaturesAssumption, FS_Subset
<1> QED BY <1>3, FS_CardinalityType

(* What comes in and what goes out.                                         *)
LEMMA ComeAndGo ==
  ASSUME NEW X, IsFiniteSet(X), NEW come, IsFiniteSet(come), come \cap X = {},
         NEW gone \in SUBSET X, NEW Y, Y = (X \ gone) \cup come
  PROVE  Cardinality(Y) = Cardinality(X) + Cardinality(come) - Cardinality(gone)
<1>1. IsFiniteSet(gone) /\ IsFiniteSet(X \ gone) BY FS_Subset
<1>2. /\ Cardinality(X) \in Nat /\ Cardinality(come) \in Nat /\ Cardinality(gone) \in Nat
      /\ Cardinality(X \ gone) \in Nat
  BY <1>1, FS_CardinalityType
<1>3. Cardinality(X) = Cardinality(X \ gone) + Cardinality(gone)
  <2>1. Cardinality((X \ gone) \cup gone) = Cardinality(X \ gone) + Cardinality(gone) - Cardinality((X \ gone) \cap gone)
    BY <1>1, FS_Union
  <2> QED BY <1>2, <2>1, FS_EmptySet
<1>4. Cardinality(Y) = Cardinality(X \ gone) + Cardinality(come)
  <2>1. (X \ gone) \cap come = {} OBVIOUS
  <2> DEFINE rest == X \ gone
  <2> HIDE DEF rest
  <2>2. Cardinality(rest \cup come) = Cardinality(rest) + Cardinality(come) - Cardinality(rest \cap come)
    BY <1>1, FS_Union DEF rest
  <2>3. Y = rest \cup come BY DEF rest
  <2> QED BY <1>2, <2>1, <2>2, <2>3, FS_EmptySet DEF rest
<1> QED BY <1>2, <1>3, <1>4

LEMMA ManyDecide ==
  ASSUME NEW npcs, NEW new, NEW deciding \in SUBSET Npcs, NEW counts, CountsAre(npcs, counts),
         \A n \in Npcs \ deciding : new[n].state = npcs[n].state,
         NEW s \in AiStates
  PROVE  counts[s] + Cardinality(Arrived(npcs, new, deciding, s)) - Cardinality(Arrived(new, npcs, deciding, s))
            = Cardinality(StateOf(new, s))
<1> DEFINE X == StateOf(npcs, s)
           Y == StateOf(new, s)
           come == Arrived(npcs, new, deciding, s)
           gone == Arrived(new, npcs, deciding, s)
<1>1. X \in SUBSET Npcs /\ come \in SUBSET Npcs BY DEF StateOf, Arrived
<1>2. gone \in SUBSET X /\ come \cap X = {} /\ Y = (X \ gone) \cup come BY DEF StateOf, Arrived
<1> HIDE DEF X, Y, come, gone
<1>3. Cardinality(Y) = Cardinality(X) + Cardinality(come) - Cardinality(gone)
  BY <1>1, <1>2, FewNpcs, ComeAndGo
<1> QED BY <1>3 DEF X, Y, come, gone, CountsAre

LEMMA OneChanges ==
  ASSUME NEW npcs, NEW new, NEW n \in Npcs, NEW counts, CountsAre(npcs, counts), NEW from, NEW to,
         npcs[n].state = from, new[n].state = to, \A m \in Npcs \ {n} : new[m].state = npcs[m].state
  PROVE  CountsAre(new, Counted(counts, from, to))
<1>1. counts \in [AiStates -> Int] BY DEF CountsAre
<1>2. ASSUME NEW s \in AiStates
      PROVE  Counted(counts, from, to)[s] \in Int /\ Counted(counts, from, to)[s] = Cardinality(StateOf(new, s))
  <2> DEFINE come == Arrived(npcs, new, {n}, s)
             gone == Arrived(new, npcs, {n}, s)
  <2>1. counts[s] + Cardinality(come) - Cardinality(gone) = Cardinality(StateOf(new, s))
    <3> DEFINE one == {n}
    <3>1. one \in SUBSET Npcs /\ \A m \in Npcs \ one : new[m].state = npcs[m].state OBVIOUS
    <3> HIDE DEF one
    <3> QED BY <3>1, ManyDecide DEF one
  <2>2. counts[s] \in Int BY <1>1
  <2>3. Counted(counts, from, to)[s] = counts[s] - (IF s = from THEN 1 ELSE 0) + (IF s = to THEN 1 ELSE 0)
    BY DEF Counted
  <2>4. Cardinality({n}) = 1 /\ Cardinality({}) = 0 BY FS_Singleton, FS_EmptySet
  <2>5. come = (IF s = to /\ s # from THEN {n} ELSE {}) /\ gone = (IF s = from /\ s # to THEN {n} ELSE {})
    BY DEF Arrived
  <2> HIDE DEF come, gone
  <2> QED BY <2>1, <2>2, <2>3, <2>4, <2>5
<1>3. Counted(counts, from, to) \in [AiStates -> Int] BY <1>1 DEF Counted
<1> QED BY <1>2, <1>3 DEF CountsAre

------------------------------------------------------------------------------
(* The invariant.                                                           *)
NpcsIInv ==
  /\ crNpcs \in [Npcs -> Npc]
  /\ \A n \in Npcs : crNpcs[n].timer <=> crNpcs[n].state = "Dead"
  /\ CountsAre(crNpcs, crCounts)
PlacesIInv ==
  /\ crMoving \in [CreatureIds -> Mov] /\ crPos \in [CreatureIds -> Int]
  /\ SightsAre(crGrid, crTold) /\ Agreed(crMoving, crPos, crGrid)
CreaturesIInv == NpcsIInv /\ PlacesIInv

StepIsLegal ==
  \A a \in Avatars :
     WithinLimits(a) => /\ Gap(crPos[a], crPos'[a]) <= LegalStep
                        /\ Valid(crPos'[a]) => WithinLimits(a)'

LEMMA CreaturesSafe == CreaturesIInv => SightsAndStatesAreTold
<1> SUFFICES ASSUME CreaturesIInv PROVE SightsAndStatesAreTold OBVIOUS
<1>1. ASSUME NEW e \in CreatureIds, NEW o \in CreatureIds
      PROVE  <<e, o>> \in crTold <=> e # o /\ crGrid[e] # NoPos /\ crGrid[o] # NoPos /\ Gap(crGrid[e], crGrid[o]) <= ViewRadius
  BY DEF CreaturesIInv, PlacesIInv, SightsAre, Near
<1>2. \A n \in Npcs : crNpcs[n].timer <=> crNpcs[n].state = "Dead"
  BY DEF CreaturesIInv, NpcsIInv
<1> QED BY <1>1, <1>2 DEF SightsAndStatesAreTold, CreaturesIInv, NpcsIInv, CountsAre, StateOf

LEMMA AvatarsMove == \A a \in Avatars : a \in CreatureIds /\ a \notin Npcs
BY CreaturesAssumption DEF CreatureIds

LEMMA StaysPut ==
  ASSUME PlacesIInv, \A a \in Avatars : /\ crPos'[a] = crPos[a]
                                        /\ crMoving'[a].velocity \in {0, crMoving[a].velocity}
  PROVE  StepIsLegal
<1> SUFFICES ASSUME NEW a \in Avatars, WithinLimits(a)
             PROVE  /\ Gap(crPos[a], crPos'[a]) <= LegalStep /\ WithinLimits(a)'
  BY DEF StepIsLegal
<1>1. crPos[a] \in Int /\ LegalStep \in Nat BY AvatarsMove, CreaturesAssumption DEF PlacesIInv
<1>2. Gap(crPos[a], crPos[a]) = 0 /\ Gap(0, 0) = 0
  <2>1. Gap(0, 0) = 0 BY DEF Gap
  <2> QED BY <1>1, <2>1, GapIs
<1>3. Valid(crPos[a]) /\ Gap(crMoving[a].velocity, 0) <= LegalStep BY DEF WithinLimits
<1> QED BY <1>1, <1>2, <1>3 DEF WithinLimits

LEMMA StandsAt ==
  ASSUME NEW p \in Place
  PROVE  /\ [Unmoved EXCEPT !.pos = p] \in Mov /\ [Unmoved EXCEPT !.pos = p].pos = p
         /\ [Unmoved EXCEPT !.pos = p].velocity = 0
<1> DEFINE m == Unmoved
<1>1. m \in Mov /\ m.velocity = 0 /\ 0 \in Int BY CreaturesAssumption, PlaceOf DEF Unmoved, Mov
<1> HIDE DEF m
<1> QED BY <1>1, MovWith DEF m

LEMMA CreaturesStart == CreaturesInit => CreaturesIInv
<1> SUFFICES ASSUME CreaturesInit PROVE CreaturesIInv OBVIOUS
<1>1. /\ NoPos \in Place /\ 0 \in Place /\ 0 \in Int BY PlaceOf DEF Place
<1>2. StopTimeout + 1 \in Int /\ MaxHp \in Int /\ HomeOf \in [CreatureIds -> Int]
  BY CreaturesAssumption DEF CreatureIds
<1>3. NpcsIInv
  <2>1. \A n \in Npcs : crNpcs[n].state = "New" /\ crNpcs[n].timer = FALSE BY DEF CreaturesInit
  <2>2. CountsAre(crNpcs, crCounts)
    <3>1. crCounts = [s \in AiStates |-> 0] BY DEF CreaturesInit
    <3>2. \A s \in AiStates : crCounts[s] = Cardinality(StateOf(crNpcs, s))
      BY <2>1, <3>1, FS_EmptySet DEF StateOf, AiStates
    <3> QED BY <3>1, <3>2 DEF CountsAre
  <2>3. \A n \in Npcs : crNpcs[n].timer <=> crNpcs[n].state = "Dead" BY <2>1
  <2> QED BY <1>2, <2>2, <2>3 DEF NpcsIInv, CreaturesInit, Npc, NpcStates
<1>4. PlacesIInv
  <2> DEFINE m == [Unmoved EXCEPT !.pos = NoPos]
  <2>1. crMoving = [e \in CreatureIds |-> m] BY DEF CreaturesInit
  <2>2. m \in Mov /\ m.pos = NoPos BY <1>1, StandsAt
  <2> HIDE DEF m
  <2>3. crMoving \in [CreatureIds -> Mov] /\ \A e \in CreatureIds : crMoving[e].pos = NoPos
    BY <2>1, <2>2
  <2>4. crGrid \in Grids /\ crTold = {} /\ \A e \in CreatureIds : crGrid[e] = NoPos
    BY <1>1 DEF CreaturesInit, Grids
  <2>5. Agreed(crMoving, crPos, crGrid) BY <2>3, <2>4, AvatarsMove DEF Agreed
  <2>6. crPos \in [CreatureIds -> Int] BY <1>2 DEF CreaturesInit
  <2> QED BY <2>3, <2>4, <2>5, <2>6 DEF PlacesIInv, SightsAre, Near
<1> QED BY <1>3, <1>4 DEF CreaturesIInv

(* The places, when one entity moves.                                       *)
LEMMA OneMoved ==
  ASSUME PlacesIInv, NEW e \in CreatureIds, NEW m \in Mov, NEW p \in Int,
         crMoving' = [crMoving EXCEPT ![e] = m], crPos' = [crPos EXCEPT ![e] = p],
         SightsAre(crGrid', crTold'),
         \A o \in CreatureIds : o # e => (crGrid'[o] # NoPos => crGrid[o] # NoPos),
         crGrid'[e] # NoPos => m.pos # NoPos,
         e \in Avatars /\ m.pos # NoPos => m.pos = p
  PROVE  PlacesIInv'
<1>1. /\ crMoving \in [CreatureIds -> Mov] /\ crPos \in [CreatureIds -> Int]
      /\ Agreed(crMoving, crPos, crGrid)
  BY DEF PlacesIInv
<1>2. /\ crMoving' \in [CreatureIds -> Mov] /\ crPos' \in [CreatureIds -> Int]
      /\ crMoving'[e] = m /\ crPos'[e] = p
      /\ \A o \in CreatureIds : o # e => crMoving'[o] = crMoving[o] /\ crPos'[o] = crPos[o]
  BY <1>1
<1>3. \A a \in Avatars : crMoving'[a].pos # NoPos => crMoving'[a].pos = crPos'[a]
  BY <1>1, <1>2, AvatarsMove DEF Agreed
<1> QED BY <1>1, <1>2, <1>3 DEF PlacesIInv, Agreed

LEMMA AoiNow == PlacesIInv => AoiIInv(Aoi) /\ Aoi.grid = crGrid
BY DEF PlacesIInv, AoiIInv, Aoi

LEMMA AoiThen ==
  ASSUME NEW aoi, AoiIInv(aoi), SetAoi(aoi)
  PROVE  SightsAre(crGrid', crTold') /\ crGrid' = aoi.grid
BY DEF AoiIInv, SetAoi

LEMMA NpcsStay ==
  ASSUME NpcsIInv, UNCHANGED <<crNpcs, crCounts>>
  PROVE  NpcsIInv'
BY DEF NpcsIInv, CountsAre, StateOf

LEMMA EntersStep ==
  ASSUME CreaturesIInv, NEW a \in Avatars, AvatarEnters(a)
  PROVE  CreaturesIInv' /\ StepIsLegal
<1> DEFINE p == crPos[a]
           m == [Unmoved EXCEPT !.pos = p]
           aoi == AoiEnter(Aoi, a, p)
<1>1. NpcsIInv /\ PlacesIInv /\ a \in CreatureIds BY AvatarsMove DEF CreaturesIInv
<1>2. p \in Int /\ p \in Place /\ p # NoPos /\ crPos' = [crPos EXCEPT ![a] = p]
  <2>1. crPos' = crPos /\ crPos \in [CreatureIds -> Int] BY <1>1 DEF AvatarEnters, PlacesIInv
  <2> QED BY <1>1, <2>1, PlaceOf
<1>3. SetAoi(aoi) /\ crMoving' = [crMoving EXCEPT ![a] = m] BY DEF AvatarEnters
<1> HIDE DEF p
<1>4. m \in Mov /\ m.pos = p /\ m.velocity = 0 BY <1>2, StandsAt
<1>5. AoiIInv(aoi) /\ \A o \in CreatureIds : o # a => aoi.grid[o] = crGrid[o]
  <2> DEFINE old == Aoi
  <2>1. AoiIInv(old) /\ old.grid = crGrid BY <1>1, AoiNow
  <2> HIDE DEF old
  <2> QED BY <1>1, <1>2, <2>1, EntersSight DEF old
<1> HIDE DEF m, aoi
<1>6. SightsAre(crGrid', crTold') /\ crGrid' = aoi.grid BY <1>3, <1>5, AoiThen
<1>7. PlacesIInv' BY <1>1, <1>2, <1>3, <1>4, <1>5, <1>6, OneMoved
<1>8. StepIsLegal
  <2>1. \A b \in Avatars : crPos'[b] = crPos[b] /\ crMoving'[b].velocity \in {0, crMoving[b].velocity}
    BY <1>1, <1>2, <1>3, <1>4, AvatarsMove DEF p, PlacesIInv
  <2> QED BY <1>1, <2>1, StaysPut
<1> QED BY <1>1, <1>7, <1>8, NpcsStay DEF CreaturesIInv, AvatarEnters

LEMMA LeavesStep ==
  ASSUME CreaturesIInv, NEW a \in Avatars, AvatarLeaves(a)
  PROVE  CreaturesIInv' /\ StepIsLegal
<1> DEFINE aoi == AoiLeave(Aoi, a)
<1>1. NpcsIInv /\ PlacesIInv /\ a \in CreatureIds BY AvatarsMove DEF CreaturesIInv
<1>2. SetAoi(aoi) /\ UNCHANGED <<crNpcs, crCounts, crMoving, crPos>> BY DEF AvatarLeaves
<1>3. AoiIInv(aoi) /\ \A o \in CreatureIds : aoi.grid[o] # NoPos => crGrid[o] # NoPos
  <2> DEFINE old == Aoi
  <2>1. AoiIInv(old) /\ old.grid = crGrid BY <1>1, AoiNow
  <2> HIDE DEF old
  <2> QED BY <1>1, <2>1, LeavesSight DEF old
<1> HIDE DEF aoi
<1>4. PlacesIInv' BY <1>1, <1>2, <1>3, AoiThen DEF PlacesIInv, Agreed
<1>5. StepIsLegal BY <1>1, <1>2, StaysPut
<1> QED BY <1>1, <1>2, <1>4, <1>5, NpcsStay DEF CreaturesIInv

------------------------------------------------------------------------------
(* A command.                                                               *)
LEMMA ClampNear ==
  ASSUME NEW from \in Int, NEW to \in Int, Valid(from)
  PROVE  Gap(from, Clamp(to)) <= Gap(from, to)
<1> DEFINE W == WorldHalf
<1>1. W \in Nat /\ from <= W /\ -W <= from
  <2>1. Gap(from, 0) = IF from >= 0 THEN from - 0 ELSE 0 - from BY DEF Gap
  <2> QED BY <2>1, CreaturesAssumption DEF Valid
<1>2. Clamp(to) = IF to > W THEN W ELSE IF to < -W THEN -W ELSE to BY <1>1 DEF Clamp
<1> HIDE DEF W
<1>3. CASE to > W BY <1>1, <1>2, <1>3 DEF Gap
<1>4. CASE to < -W BY <1>1, <1>2, <1>4 DEF Gap
<1>5. CASE ~(to > W) /\ ~(to < -W) BY <1>2, <1>5, GapIs
<1> QED BY <1>3, <1>4, <1>5

LEMMA TargetIs ==
  ASSUME NEW from \in Int, NEW to \in Int, Target(from, to) # NoPos
  PROVE  Target(from, to) \in Int /\ (Valid(from) => Gap(from, Target(from, to)) <= LegalStep)
<1> DEFINE d == Gap(from, to)
           L == LegalStep
           T == TeleportStep
           there == from + Unit(to - from) * L
<1>1. d \in Nat /\ L \in Nat /\ T \in Nat BY GapIs, CreaturesAssumption
<1>2. CASE d > T
  <2> HIDE DEF d, T, L, there
  <2>1. Target(from, to) = NoPos BY <1>1, <1>2 DEF Target, d, T, L, there
  <2> QED BY <2>1
<1>3. CASE d > L /\ d <= T
  <2>1. Target(from, to) = there BY <1>1, <1>3 DEF Target
  <2>2. Unit(to - from) \in {1, -1} BY <1>1, <1>3 DEF Unit, Gap
  <2>3. there = from + L \/ there = from - L BY <1>1, <2>2
  <2> HIDE DEF there, L
  <2> QED BY <1>1, <2>1, <2>3 DEF L, Gap
<1>4. CASE ~(d > T) /\ ~(d > L)
  <2>1. Target(from, to) = Clamp(to) BY <1>1, <1>4 DEF Target
  <2>2. Clamp(to) \in Int BY ClampIs
  <2>3. ASSUME Valid(from) PROVE Gap(from, Clamp(to)) <= L
    <3>1. Gap(from, Clamp(to)) <= d /\ Gap(from, Clamp(to)) \in Nat
      BY <2>2, <2>3, ClampNear, GapIs
    <3> HIDE DEF d, L
    <3> QED BY <1>1, <1>4, <3>1
  <2> QED BY <2>1, <2>2, <2>3
<1> QED BY <1>1, <1>2, <1>3, <1>4

LEMMA CommandStep ==
  ASSUME CreaturesIInv, NEW a \in Avatars, NEW to \in Wishes, NEW seq \in 0 .. MaxSeq, ApplyCommand(a, to, seq)
  PROVE  CreaturesIInv' /\ StepIsLegal
<1> DEFINE from == crMoving[a].pos
           p == Target(from, to)
           m == [pos |-> p, velocity |-> p - from, silent |-> 0, seq |-> seq, moved |-> TRUE]
           aoi == AoiMove(Aoi, a, p)
<1>1. NpcsIInv /\ PlacesIInv /\ a \in CreatureIds BY AvatarsMove DEF CreaturesIInv
<1>2. /\ crGrid[a] # NoPos /\ p # NoPos /\ crMoving' = [crMoving EXCEPT ![a] = m] /\ crPos' = [crPos EXCEPT ![a] = p]
      /\ SetAoi(aoi) /\ UNCHANGED <<crNpcs, crCounts>>
  BY DEF ApplyCommand
<1>3. /\ from \in Int /\ crPos[a] = from /\ from # NoPos
      /\ crMoving \in [CreatureIds -> Mov] /\ crPos \in [CreatureIds -> Int]
  BY <1>1, <1>2 DEF PlacesIInv, Agreed
<1>4. to \in Int BY CreaturesAssumption
<1>5. p \in Int /\ p \in Place /\ (Valid(from) => Gap(from, p) <= LegalStep)
  <2> DEFINE f == from
  <2>1. f \in Int /\ Target(f, to) # NoPos BY <1>2, <1>3
  <2> HIDE DEF f
  <2> QED BY <1>4, <2>1, TargetIs, PlaceOf DEF f
<1>6. m \in Mov /\ m.pos = p /\ m.velocity = p - from
  <2>1. p - from \in Int /\ 0 \in Int /\ seq \in Int BY <1>3, <1>5
  <2> HIDE DEF p, from
  <2> QED BY <1>5, <2>1 DEF Mov
<1> HIDE DEF p, m
<1>7. AoiIInv(aoi) /\ \A o \in CreatureIds : aoi.grid[o] # NoPos => crGrid[o] # NoPos
  <2> DEFINE old == Aoi
  <2>1. AoiIInv(old) /\ old.grid = crGrid BY <1>1, AoiNow
  <2> HIDE DEF old
  <2> QED BY <1>1, <1>5, <2>1, MovesInSight DEF old
<1> HIDE DEF aoi
<1>8. SightsAre(crGrid', crTold') /\ crGrid' = aoi.grid BY <1>2, <1>7, AoiThen
<1>9. PlacesIInv' BY <1>1, <1>2, <1>5, <1>6, <1>7, <1>8, OneMoved
<1>10. NpcsIInv' BY <1>1, <1>2, NpcsStay
<1>11. StepIsLegal
  <2> SUFFICES ASSUME NEW b \in Avatars, WithinLimits(b)
               PROVE  /\ Gap(crPos[b], crPos'[b]) <= LegalStep /\ Gap(crMoving'[b].velocity, 0) <= LegalStep
    BY DEF StepIsLegal, WithinLimits
  <2>1. Valid(crPos[b]) /\ Gap(crMoving[b].velocity, 0) <= LegalStep /\ LegalStep \in Nat
    BY CreaturesAssumption DEF WithinLimits
  <2>2. b \in CreatureIds /\ crPos[b] \in Int BY <1>3, AvatarsMove
  <2>3. CASE b = a
    <3>1. crPos'[b] = p /\ crMoving'[b] = m /\ crPos[b] = from BY <1>1, <1>2, <1>3, <2>3
    <3>2. Gap(from, p) <= LegalStep BY <1>5, <2>1, <3>1
    <3> HIDE DEF from
    <3> QED BY <1>3, <1>5, <1>6, <3>1, <3>2 DEF Gap
  <2>4. CASE b # a
    <3>1. Gap(crPos[b], crPos[b]) = 0 BY <2>2, GapIs
    <3> QED BY <1>2, <1>3, <2>1, <2>2, <2>4, <3>1
  <2> QED BY <2>3, <2>4
<1> QED BY <1>9, <1>10, <1>11 DEF CreaturesIInv

(* One monster changes.                                                     *)
LEMMA OneNpc ==
  ASSUME NpcsIInv, NEW n \in Npcs, NEW m \in Npc, crNpcs' = [crNpcs EXCEPT ![n] = m],
         crCounts' = Counted(crCounts, crNpcs[n].state, m.state), m.timer <=> m.state = "Dead"
  PROVE  NpcsIInv'
<1>1. crNpcs \in [Npcs -> Npc] /\ CountsAre(crNpcs, crCounts) BY DEF NpcsIInv
<1>2. crNpcs' \in [Npcs -> Npc] /\ crNpcs'[n] = m /\ \A o \in Npcs \ {n} : crNpcs'[o] = crNpcs[o]
  BY <1>1
<1>3. CountsAre(crNpcs', crCounts')
  <2> DEFINE from == crNpcs[n].state
             to == m.state
             new == crNpcs'
  <2>1. crNpcs[n].state = from /\ new[n].state = to /\ \A o \in Npcs \ {n} : new[o].state = crNpcs[o].state
    BY <1>2
  <2>2. crCounts' = Counted(crCounts, from, to) OBVIOUS
  <2> HIDE DEF from, to, new
  <2>3. CountsAre(new, Counted(crCounts, from, to)) BY <1>1, <2>1, OneChanges
  <2> QED BY <2>2, <2>3 DEF new
<1>4. \A o \in Npcs : crNpcs'[o].timer <=> crNpcs'[o].state = "Dead" BY <1>2 DEF NpcsIInv
<1> QED BY <1>2, <1>3, <1>4 DEF NpcsIInv

LEMMA NpcsMove == \A n \in Npcs : n \in CreatureIds /\ n \notin Avatars /\ HomeOf[n] \in Int
BY CreaturesAssumption DEF CreatureIds

(* A monster's place in the records changes; the avatars stay.              *)
LEMMA MonsterMoved ==
  ASSUME PlacesIInv, NEW n \in Npcs, NEW m \in Mov, NEW p \in Int,
         crMoving' = [crMoving EXCEPT ![n] = m], crPos' = [crPos EXCEPT ![n] = p],
         NEW aoi, AoiIInv(aoi), SetAoi(aoi),
         \A o \in CreatureIds : o # n => (aoi.grid[o] # NoPos => crGrid[o] # NoPos),
         aoi.grid[n] # NoPos => m.pos # NoPos
  PROVE  PlacesIInv' /\ StepIsLegal
<1>1. n \in CreatureIds /\ n \notin Avatars BY NpcsMove
<1>2. PlacesIInv' BY <1>1, AoiThen, OneMoved
<1>3. \A a \in Avatars : crPos'[a] = crPos[a] /\ crMoving'[a].velocity \in {0, crMoving[a].velocity}
  BY <1>1, AvatarsMove DEF PlacesIInv
<1> QED BY <1>2, <1>3, StaysPut

LEMMA NpcIs ==
  ASSUME NpcsIInv, NEW n \in Npcs
  PROVE  /\ crNpcs[n] \in Npc /\ crNpcs[n].timer \in BOOLEAN
         /\ crNpcs[n] = [state |-> crNpcs[n].state, target |-> crNpcs[n].target, hp |-> crNpcs[n].hp,
                         patrol |-> crNpcs[n].patrol, wait |-> crNpcs[n].wait, timer |-> crNpcs[n].timer]
         /\ crNpcs[n].state \in NpcStates /\ crNpcs[n].target \in Avatars \cup {NoTarget}
         /\ crNpcs[n].hp \in Int /\ crNpcs[n].patrol \in Int /\ crNpcs[n].wait \in Int
<1>1. crNpcs[n] \in Npc BY DEF NpcsIInv
<1>2. crNpcs[n].timer \in BOOLEAN BY <1>1 DEF Npc
<1> DEFINE m == crNpcs[n]
<1>3. m \in [state : NpcStates, target : Avatars \cup {NoTarget}, hp : Int, patrol : Int, wait : Int, timer : {m.timer}]
  BY <1>1 DEF Npc
<1> HIDE DEF m
<1> QED BY <1>1, <1>2, <1>3 DEF m

LEMMA SpawnStep ==
  ASSUME CreaturesIInv, NEW n \in Npcs, Spawn(n)
  PROVE  CreaturesIInv' /\ StepIsLegal
<1> DEFINE p == HomeOf[n]
           c == [crNpcs[n] EXCEPT !.state = "Idle"]
           m == [Unmoved EXCEPT !.pos = p]
           aoi == AoiEnter(Aoi, n, p)
<1>1. NpcsIInv /\ PlacesIInv /\ n \in CreatureIds /\ p \in Int /\ p \in Place /\ p # NoPos
  BY NpcsMove, PlaceOf DEF CreaturesIInv
<1>2. /\ crNpcs[n].state = "New" /\ crNpcs' = [crNpcs EXCEPT ![n] = c]
      /\ crCounts' = Counted(crCounts, crNpcs[n].state, "Idle")
      /\ crMoving' = [crMoving EXCEPT ![n] = m] /\ SetAoi(aoi) /\ crPos' = crPos
  <2>1. crNpcs' = [crNpcs EXCEPT ![n] = c] BY DEF Spawn
  <2> HIDE DEF p, c, m
  <2> QED BY <2>1 DEF Spawn, p, m
<1>3. c \in Npc /\ c.state = "Idle" /\ ~c.timer
  <2>1. crNpcs[n] \in Npc /\ ~crNpcs[n].timer BY <1>1, <1>2, NpcIs DEF NpcsIInv
  <2>2. c.state = "Idle" BY <2>1 DEF Npc
  <2>3. c.timer = crNpcs[n].timer BY <2>1 DEF Npc
  <2> QED BY <2>1, <2>2, <2>3 DEF Npc, NpcStates, AiStates
<1>4. m \in Mov /\ m.pos = p
  <2> HIDE DEF p
  <2> QED BY <1>1, StandsAt
<1> HIDE DEF c, m
<1>5. NpcsIInv' BY <1>1, <1>2, <1>3, OneNpc
<1>6. AoiIInv(aoi) /\ \A o \in CreatureIds : o # n => aoi.grid[o] = crGrid[o]
  <2> DEFINE old == Aoi
  <2>1. AoiIInv(old) /\ old.grid = crGrid BY <1>1, AoiNow
  <2> HIDE DEF old, p
  <2> QED BY <1>1, <2>1, EntersSight DEF old
<1> HIDE DEF aoi
<1>7. crPos' = [crPos EXCEPT ![n] = crPos[n]] /\ crPos[n] \in Int BY <1>1, <1>2 DEF PlacesIInv
<1>8. PlacesIInv' /\ StepIsLegal
  <2> HIDE DEF p
  <2> QED BY <1>1, <1>2, <1>4, <1>6, <1>7, MonsterMoved
<1> QED BY <1>5, <1>8 DEF CreaturesIInv

LEMMA DespawnStep ==
  ASSUME CreaturesIInv, NEW n \in Npcs, Despawn(n)
  PROVE  CreaturesIInv' /\ StepIsLegal
<1> DEFINE c == [crNpcs[n] EXCEPT !.state = "Gone", !.timer = FALSE, !.target = NoTarget]
           m == [crMoving[n] EXCEPT !.velocity = 0]
           aoi == AoiLeave(Aoi, n)
<1>1. NpcsIInv /\ PlacesIInv /\ n \in CreatureIds BY NpcsMove DEF CreaturesIInv
<1>2. crNpcs' = [crNpcs EXCEPT ![n] = c]
  <2>1. crNpcs \in [Npcs -> Npc] BY <1>1 DEF NpcsIInv
  <2> QED BY <2>1 DEF Despawn
<1>3. /\ crCounts' = Counted(crCounts, crNpcs[n].state, "Gone")
      /\ crMoving' = [crMoving EXCEPT ![n] = m] /\ SetAoi(aoi) /\ crPos' = crPos
  BY DEF Despawn
<1>4. c \in Npc /\ c.state = "Gone" /\ ~c.timer
  <2>1. crNpcs[n] \in Npc BY <1>1, NpcIs
  <2>2. c.state = "Gone" BY <2>1 DEF Npc
  <2>3. ~c.timer BY <2>1 DEF Npc
  <2> QED BY <2>1, <2>2, <2>3 DEF Npc, NpcStates
<1>5. m \in Mov /\ m.pos = crMoving[n].pos
  <2> DEFINE old == crMoving[n]
  <2>1. old \in Mov /\ old.pos \in Place /\ 0 \in Int BY <1>1 DEF PlacesIInv, Mov
  <2> HIDE DEF old
  <2> QED BY <2>1, MovWith DEF old
<1> HIDE DEF c, m
<1>6. NpcsIInv' BY <1>1, <1>2, <1>3, <1>4, OneNpc
<1>7. AoiIInv(aoi) /\ aoi.grid[n] = NoPos /\ \A o \in CreatureIds : o # n => aoi.grid[o] = crGrid[o]
  <2> DEFINE old == Aoi
  <2>1. AoiIInv(old) /\ old.grid = crGrid BY <1>1, AoiNow
  <2> HIDE DEF old
  <2> QED BY <1>1, <2>1, LeavesSight DEF old
<1> HIDE DEF aoi
<1>8. PlacesIInv' /\ StepIsLegal BY <1>1, <1>3, <1>5, <1>7, MonsterMoved DEF PlacesIInv
<1> QED BY <1>6, <1>8 DEF CreaturesIInv

LEMMA ReviveStep ==
  ASSUME CreaturesIInv, NEW n \in Npcs, Revive(n)
  PROVE  CreaturesIInv' /\ StepIsLegal
<1> DEFINE p == HomeOf[n]
           c == [state |-> "Idle", target |-> NoTarget, hp |-> MaxHp, patrol |-> 0, wait |-> 0, timer |-> FALSE]
           m == [crMoving[n] EXCEPT !.pos = p, !.velocity = 0]
           aoi == AoiMove(Aoi, n, p)
<1>1. NpcsIInv /\ PlacesIInv /\ n \in CreatureIds /\ p \in Int /\ p \in Place /\ p # NoPos
  BY NpcsMove, PlaceOf DEF CreaturesIInv
<1>2. crNpcs' = [crNpcs EXCEPT ![n] = c] /\ crCounts' = Counted(crCounts, crNpcs[n].state, "Idle")
  BY DEF Revive
<1>3. /\ crPos' = [crPos EXCEPT ![n] = p] /\ SetAoi(aoi)
      /\ crMoving' = [crMoving EXCEPT ![n] = m]
  <2>1. /\ crPos' = [crPos EXCEPT ![n] = p] /\ SetAoi(aoi)
        /\ crMoving' = [crMoving EXCEPT ![n].pos = p, ![n].velocity = 0]
    BY DEF Revive
  <2>2. crMoving \in [CreatureIds -> Mov] BY <1>1 DEF PlacesIInv
  <2> HIDE DEF p
  <2> QED BY <1>1, <2>1, <2>2
<1> HIDE DEF p
<1>4. c \in Npc /\ c.state = "Idle" /\ ~c.timer
  BY CreaturesAssumption DEF Npc, NpcStates, AiStates
<1>5. m \in Mov /\ m.pos = p
  <2> DEFINE old == crMoving[n]
             mid == [old EXCEPT !.pos = p]
  <2>1. old \in Mov /\ old.velocity \in Int /\ 0 \in Int BY <1>1 DEF PlacesIInv, Mov
  <2> HIDE DEF old
  <2>2. mid \in Mov /\ mid.pos = p BY <1>1, <2>1, MovWith
  <2>3. [old EXCEPT !.pos = p, !.velocity = 0] = [mid EXCEPT !.velocity = 0] OBVIOUS
  <2> HIDE DEF mid
  <2> QED BY <1>1, <2>1, <2>2, <2>3, MovWith DEF old
<1> HIDE DEF c, m
<1>6. NpcsIInv' BY <1>1, <1>2, <1>4, OneNpc
<1>7. AoiIInv(aoi) /\ \A o \in CreatureIds : aoi.grid[o] # NoPos => crGrid[o] # NoPos
  <2> DEFINE old == Aoi
  <2>1. AoiIInv(old) /\ old.grid = crGrid BY <1>1, AoiNow
  <2> HIDE DEF old
  <2> QED BY <1>1, <2>1, MovesInSight DEF old
<1> HIDE DEF aoi
<1> QED BY <1>1, <1>3, <1>5, <1>6, <1>7, MonsterMoved DEF CreaturesIInv

LEMMA DamagedStep ==
  ASSUME CreaturesIInv, NEW n \in Npcs, NEW attacker \in Avatars, NEW amount \in 1 .. MaxHp,
         OnDamaged(n, attacker, amount)
  PROVE  CreaturesIInv' /\ StepIsLegal
<1> DEFINE hp == crNpcs[n].hp - amount
           pulled == IF crNpcs[n].state \in {"Idle", "Patrol", "Return"} /\ CanTransition(crNpcs[n].state, "Chase")
                     THEN "Chase" ELSE crNpcs[n].state
           after == IF hp <= 0 THEN "Dead" ELSE pulled
           target == IF hp <= 0 THEN NoTarget ELSE attacker
           c == [crNpcs[n] EXCEPT !.hp = hp, !.state = after, !.timer = hp <= 0, !.target = target]
           m == [crMoving[n] EXCEPT !.velocity = 0]
<1>1. NpcsIInv /\ PlacesIInv /\ n \in CreatureIds BY NpcsMove DEF CreaturesIInv
<1>2. crNpcs[n].state \in AiStates \ {"Dead"} BY DEF OnDamaged, LiveNpc
<1>3. crNpcs' = [crNpcs EXCEPT ![n] = c]
  <2>1. crNpcs' = [crNpcs EXCEPT ![n].hp = hp, ![n].state = after, ![n].timer = hp <= 0, ![n].target = target]
    BY DEF OnDamaged
  <2>2. crNpcs \in [Npcs -> Npc] BY <1>1 DEF NpcsIInv
  <2> HIDE DEF hp, after, target
  <2> QED BY <2>1, <2>2
<1>4. /\ crCounts' = Counted(crCounts, crNpcs[n].state, after)
      /\ crMoving' = IF hp <= 0 THEN [crMoving EXCEPT ![n] = m] ELSE crMoving
      /\ UNCHANGED <<crPos, crGrid, crTold>>
  BY DEF OnDamaged
<1>5. /\ hp \in Int /\ after \in NpcStates /\ (after = "Dead" <=> hp <= 0)
      /\ target \in Avatars \cup {NoTarget}
  <2>1. crNpcs[n].hp \in Int /\ amount \in Int
    <3>1. crNpcs[n].hp \in Int BY <1>1, NpcIs
    <3> QED BY <3>1, CreaturesAssumption
  <2>2. pulled \in AiStates \ {"Dead"} BY <1>2 DEF AiStates
  <2> HIDE DEF pulled
  <2> QED BY <2>1, <2>2 DEF NpcStates, AiStates
<1>6. c \in Npc /\ c.state = after /\ (c.timer <=> hp <= 0)
  <2>1. crNpcs[n] \in Npc BY <1>1, NpcIs
  <2> DEFINE old == crNpcs[n]
             late == hp <= 0
  <2>2. late \in BOOLEAN BY <1>5
  <2> HIDE DEF hp, after, target, old, late
  <2>3. c.state = after BY <2>1 DEF Npc
  <2>4. c.timer = late BY <2>1, <2>2 DEF Npc, late
  <2> QED BY <1>5, <2>1, <2>2, <2>3, <2>4 DEF late, Npc, old
<1> HIDE DEF c, after, hp, target
<1>7. NpcsIInv' BY <1>1, <1>3, <1>4, <1>5, <1>6, OneNpc
<1>8. m \in Mov /\ m.pos = crMoving[n].pos
  <2> DEFINE old == crMoving[n]
  <2>1. old \in Mov /\ old.pos \in Place /\ 0 \in Int BY <1>1 DEF PlacesIInv, Mov
  <2> HIDE DEF old
  <2> QED BY <2>1, MovWith DEF old
<1> HIDE DEF m
<1>9. /\ crMoving \in [CreatureIds -> Mov] /\ crPos \in [CreatureIds -> Int] /\ SightsAre(crGrid, crTold)
      /\ Agreed(crMoving, crPos, crGrid)
  BY <1>1 DEF PlacesIInv
<1>10. PlacesIInv' BY <1>4, <1>8, <1>9, AvatarsMove DEF PlacesIInv, Agreed
<1>11. StepIsLegal
  <2>1. \A a \in Avatars : crPos'[a] = crPos[a] /\ crMoving'[a].velocity \in {0, crMoving[a].velocity}
    BY <1>4, <1>9, AvatarsMove
  <2> QED BY <1>1, <2>1, StaysPut
<1> QED BY <1>7, <1>10, <1>11 DEF CreaturesIInv

(* A tick: monsters decide, and everybody moves.                            *)
LEMMA NextIsAlive == \A n, target : NextAiState(n, target) \in AiStates \ {"Dead"}
<1> TAKE n, target
<1>1. CASE target # NoTarget
  <2>1. NextAiState(n, target) \in {"Attack", "Return", "Chase"}
    <3> DEFINE d == Gap(crPos[n], crPos[target])
    <3>1. NextAiState(n, target) = CASE d <= AttackRange -> "Attack"
                                     [] d > AttackRange /\ d > ChaseLeave -> "Return" [] OTHER -> "Chase"
      BY <1>1 DEF NextAiState
    <3> HIDE DEF d
    <3> QED BY <3>1
  <2> QED BY <2>1 DEF AiStates
<1>2. CASE target = NoTarget
  <2>1. NextAiState(n, target) \in {"Return", "Idle", "Patrol"} BY <1>2 DEF NextAiState
  <2> QED BY <2>1 DEF AiStates
<1> QED BY <1>1, <1>2

LEMMA VelocityIs == \A n, next, target : Velocity(n, next, target) \in Int
<1> TAKE n, next, target
<1> DEFINE a == Unit(WayPoint(n) - crPos[n])
           b == Unit(crPos[target] - crPos[n])
           c == Unit(HomeOf[n] - crPos[n])
<1>1. a \in Int /\ b \in Int /\ c \in Int BY DEF Unit
<1>2. Velocity(n, next, target) = CASE next = "Patrol" -> a [] next = "Chase" -> b [] next = "Return" -> c [] OTHER -> 0
  BY DEF Velocity
<1> HIDE DEF a, b, c
<1> QED BY <1>1, <1>2

LEMMA DecidedIs ==
  ASSUME NpcsIInv, NEW n \in Npcs, LiveNpc(n), NEW target \in Avatars \cup {NoTarget}
  PROVE  Decided(n, target) \in Npc /\ ~Decided(n, target).timer /\ Decided(n, target).state # "Dead"
<1> DEFINE next == NextAiState(n, target)
           old == crNpcs[n]
           wait == DecisionInterval - 1
           state == IF CanTransition(old.state, next) THEN next ELSE old.state
           patrol == IF next = "Patrol" /\ WayPoint(n) = crPos[n] THEN 1 - old.patrol ELSE old.patrol
           new == [old EXCEPT !.target = target, !.wait = wait, !.state = state, !.patrol = patrol]
<1>1. old \in Npc /\ old.state \in AiStates \ {"Dead"} /\ old.patrol \in Int /\ ~old.timer
  BY NpcIs DEF LiveNpc, NpcsIInv
<1>2. Decided(n, target) = new BY DEF Decided
<1>3. next \in AiStates \ {"Dead"} BY NextIsAlive
<1>4. wait \in Int BY CreaturesAssumption
<1> HIDE DEF next, wait
<1>5. state \in AiStates \ {"Dead"} /\ patrol \in Int BY <1>1, <1>3
<1> HIDE DEF state, patrol, old
<1>6. new \in Npc BY <1>1, <1>4, <1>5 DEF Npc, NpcStates
<1>7. new.state = state BY <1>1 DEF Npc
<1>8. new.timer = old.timer BY <1>1 DEF Npc
<1> HIDE DEF new
<1> QED BY <1>1, <1>2, <1>5, <1>6, <1>7, <1>8

LEMMA WaitsIs ==
  ASSUME NpcsIInv, NEW n \in Npcs
  PROVE  LET new == [crNpcs[n] EXCEPT !.wait = IF @ = 0 THEN 0 ELSE @ - 1]
         IN new \in Npc /\ new.state = crNpcs[n].state /\ new.timer = crNpcs[n].timer
<1> DEFINE old == crNpcs[n]
           w == IF old.wait = 0 THEN 0 ELSE old.wait - 1
           new == [old EXCEPT !.wait = w]
<1>1. old \in Npc /\ w \in Int
  <2>1. old \in Npc /\ old.wait \in Int BY NpcIs
  <2> HIDE DEF old
  <2> QED BY <2>1
<1> HIDE DEF old, w
<1>2. new.state = old.state BY <1>1 DEF Npc
<1>3. new.timer = old.timer BY <1>1 DEF Npc
<1> QED BY <1>1, <1>2, <1>3 DEF old, w, Npc

LEMMA NextTickIs ==
  ASSUME NEW moving \in [CreatureIds -> Mov]
  PROVE  /\ NextTick(moving) \in [CreatureIds -> Mov]
         /\ \A e \in CreatureIds : /\ NextTick(moving)[e].pos = moving[e].pos
                                   /\ NextTick(moving)[e].velocity = moving[e].velocity
<1>1. ASSUME NEW e \in CreatureIds
      PROVE  /\ NextTick(moving)[e] \in Mov
             /\ NextTick(moving)[e].pos = moving[e].pos /\ NextTick(moving)[e].velocity = moving[e].velocity
  <2> DEFINE m == moving[e]
             s == IF m.silent > StopTimeout THEN m.silent ELSE m.silent + 1
             new == [m EXCEPT !.moved = FALSE, !.silent = s]
  <2>1. m \in Mov /\ s \in Int
    <3>1. m \in Mov OBVIOUS
    <3> QED BY <3>1 DEF Mov
  <2>2. NextTick(moving)[e] = new BY DEF NextTick
  <2> HIDE DEF m, s
  <2>3. new \in Mov BY <2>1 DEF Mov
  <2>4. new.pos = m.pos /\ new.velocity = m.velocity BY <2>1 DEF Mov
  <2> HIDE DEF new
  <2> QED BY <2>2, <2>3, <2>4 DEF m
<1> QED BY <1>1 DEF NextTick

LEMMA TickedNpcs ==
  ASSUME NpcsIInv, NEW deciding, deciding = {n \in Npcs : LiveNpc(n) /\ crNpcs[n].wait = 0},
         NEW targets \in [deciding -> Avatars \cup {NoTarget}],
         crNpcs' = [n \in Npcs |-> IF n \in deciding THEN Decided(n, targets[n])
                                   ELSE [crNpcs[n] EXCEPT !.wait = IF @ = 0 THEN 0 ELSE @ - 1]],
         crCounts' = [s \in AiStates |-> crCounts[s]
                            + Cardinality({n \in deciding : crNpcs'[n].state = s /\ crNpcs[n].state # s})
                            - Cardinality({n \in deciding : crNpcs[n].state = s /\ crNpcs'[n].state # s})]
  PROVE  NpcsIInv'
<1>1. ASSUME NEW n \in Npcs
      PROVE  /\ crNpcs'[n] \in Npc /\ (crNpcs'[n].timer <=> crNpcs'[n].state = "Dead")
             /\ n \notin deciding => crNpcs'[n].state = crNpcs[n].state
  <2>1. CASE n \in deciding
    <3>1. LiveNpc(n) /\ targets[n] \in Avatars \cup {NoTarget} /\ crNpcs'[n] = Decided(n, targets[n])
      BY <2>1
    <3> QED BY <2>1, <3>1, DecidedIs
  <2>2. CASE n \notin deciding
    <3> DEFINE new == [crNpcs[n] EXCEPT !.wait = IF @ = 0 THEN 0 ELSE @ - 1]
    <3>1. crNpcs'[n] = new BY <2>2
    <3>2. new \in Npc /\ new.state = crNpcs[n].state /\ new.timer = crNpcs[n].timer BY WaitsIs
    <3>3. crNpcs[n].timer <=> crNpcs[n].state = "Dead" BY DEF NpcsIInv
    <3> HIDE DEF new
    <3> QED BY <3>1, <3>2, <3>3
  <2> QED BY <2>1, <2>2
<1>2. crNpcs' \in [Npcs -> Npc] BY <1>1
<1>3. CountsAre(crNpcs, crCounts) BY DEF NpcsIInv
<1>4. crCounts \in [AiStates -> Int] BY <1>3 DEF CountsAre
<1>5. ASSUME NEW s \in AiStates PROVE crCounts'[s] \in Int /\ crCounts'[s] = Cardinality(StateOf(crNpcs', s))
  <2> DEFINE new == crNpcs'
  <2>1. deciding \in SUBSET Npcs /\ \A n \in Npcs \ deciding : new[n].state = crNpcs[n].state
    BY <1>1
  <2>2. crCounts'[s] = crCounts[s] + Cardinality(Arrived(crNpcs, new, deciding, s)) - Cardinality(Arrived(new, crNpcs, deciding, s))
    BY DEF Arrived
  <2> HIDE DEF new
  <2>3. crCounts'[s] = Cardinality(StateOf(new, s))
    <3> DEFINE D == deciding
               now == crNpcs
               counts == crCounts
    <3>1. /\ D \in SUBSET Npcs /\ \A n \in Npcs \ D : new[n].state = now[n].state
          /\ CountsAre(now, counts)
      BY <1>3, <2>1
    <3>2. crCounts'[s] = counts[s] + Cardinality(Arrived(now, new, D, s)) - Cardinality(Arrived(new, now, D, s))
      BY <2>2
    <3> HIDE DEF D, now, counts
    <3> QED BY <3>1, <3>2, ManyDecide
  <2>4. Cardinality(StateOf(new, s)) \in Nat BY FewNpcs DEF StateOf
  <2> QED BY <2>3, <2>4 DEF new
<1>6. crCounts' \in [AiStates -> Int] BY <1>5
<1> QED BY <1>1, <1>2, <1>5, <1>6 DEF NpcsIInv, CountsAre

LEMMA TickedPlaces ==
  ASSUME PlacesIInv, NEW willing \in [CreatureIds -> Mov],
         \A e \in CreatureIds : willing[e].pos = crMoving[e].pos,
         \A a \in Avatars : willing[a] = crMoving[a],
         NEW order \in SetToSeqs(CreatureIds), NEW sim,
         sim = Integrate([moving |-> willing, pos |-> crPos, aoi |-> Aoi], order),
         crMoving' = NextTick(sim.moving), crPos' = sim.pos, SetAoi(sim.aoi)
  PROVE  PlacesIInv' /\ StepIsLegal
<1> DEFINE start == [moving |-> willing, pos |-> crPos, aoi |-> Aoi]
<1>1. /\ crPos \in [CreatureIds -> Int] /\ Agreed(crMoving, crPos, crGrid) /\ crMoving \in [CreatureIds -> Mov]
  BY DEF PlacesIInv
<1>2. start \in Sims /\ start.moving = willing /\ start.pos = crPos
  <2>1. Agreed(willing, crPos, crGrid) BY <1>1, AvatarsMove DEF Agreed
  <2> DEFINE aoi == Aoi
  <2>2. aoi \in Aois /\ Agreed(willing, crPos, aoi.grid) BY <2>1, AoiNow, AoisAre
  <2> HIDE DEF aoi
  <2> QED BY <1>1, <2>2 DEF aoi, Sims
<1>3. IsFiniteSet(CreatureIds) BY CreaturesAssumption DEF CreatureIds
<1>4. sim = Integrate(start, order) OBVIOUS
<1> HIDE DEF start
<1>5. sim \in Sims /\ \A e \in CreatureIds : Turned(start, sim, e) BY <1>2, <1>3, <1>4, AllTurn
<1>6. /\ sim.moving \in [CreatureIds -> Mov] /\ sim.pos \in [CreatureIds -> Int] /\ AoiIInv(sim.aoi)
      /\ Agreed(sim.moving, sim.pos, sim.aoi.grid)
  BY <1>5, AoisAre DEF Sims
<1>7. /\ crMoving' \in [CreatureIds -> Mov]
      /\ \A e \in CreatureIds : crMoving'[e].pos = sim.moving[e].pos /\ crMoving'[e].velocity = sim.moving[e].velocity
  BY <1>6, NextTickIs
<1>8. PlacesIInv' BY <1>6, <1>7, AoiThen, AvatarsMove DEF PlacesIInv, Agreed
<1>9. StepIsLegal
  <2> SUFFICES ASSUME NEW a \in Avatars, WithinLimits(a)
               PROVE  /\ Gap(crPos[a], crPos'[a]) <= LegalStep /\ Gap(crMoving'[a].velocity, 0) <= LegalStep
    BY DEF StepIsLegal, WithinLimits
  <2> DEFINE p == crPos[a]
             q == crPos'[a]
             v == crMoving[a].velocity
             w == crMoving'[a].velocity
  <2>1. a \in CreatureIds /\ p \in Int /\ q \in Int /\ v \in Int /\ crMoving[a] \in Mov
    BY <1>1, <1>6, AvatarsMove DEF Mov
  <2>2. Valid(p) /\ Gap(v, 0) <= LegalStep /\ LegalStep \in Nat
    BY CreaturesAssumption DEF WithinLimits
  <2>3. /\ w \in {0, v} /\ (q = p \/ (crMoving[a].pos # NoPos /\ q = Clamp(crMoving[a].pos + v)))
    <3>1. crMoving'[a].velocity = sim.moving[a].velocity BY <1>7, <2>1
    <3> QED BY <1>2, <1>5, <2>1, <3>1 DEF Turned
  <2>4. q = p \/ q = Clamp(p + v) BY <1>1, <2>3 DEF Agreed
  <2> HIDE DEF p, q, v, w
  <2>5. Gap(w, 0) <= LegalStep BY <2>2, <2>3 DEF Gap
  <2>6. Gap(p, q) <= LegalStep
    <3>1. CASE q = p BY <2>1, <2>2, <3>1, GapIs
    <3>2. CASE q = Clamp(p + v)
      <4>1. Gap(p, Clamp(p + v)) <= Gap(p, p + v) BY <2>1, <2>2, ClampNear
      <4>2. Gap(p, q) \in Nat /\ Gap(v, 0) \in Nat BY <2>1, GapIs
      <4> QED BY <2>1, <2>2, <3>2, <4>1, <4>2 DEF Gap
    <3> QED BY <2>4, <3>1, <3>2
  <2> QED BY <2>5, <2>6 DEF p, q, w
<1> QED BY <1>8, <1>9

LEMMA TickStep ==
  ASSUME CreaturesIInv, CreatureTick
  PROVE  CreaturesIInv' /\ StepIsLegal
<1> DEFINE deciding == {n \in Npcs : LiveNpc(n) /\ crNpcs[n].wait = 0}
<1>1. NpcsIInv /\ PlacesIInv BY DEF CreaturesIInv
<1>2. PICK targets \in [deciding -> Avatars \cup {NoTarget}] :
        /\ crNpcs' = [n \in Npcs |-> IF n \in deciding THEN Decided(n, targets[n])
                                     ELSE [crNpcs[n] EXCEPT !.wait = IF @ = 0 THEN 0 ELSE @ - 1]]
        /\ crCounts' = [s \in AiStates |-> crCounts[s]
                              + Cardinality({n \in deciding : crNpcs'[n].state = s /\ crNpcs[n].state # s})
                              - Cardinality({n \in deciding : crNpcs[n].state = s /\ crNpcs'[n].state # s})]
        /\ LET willing == [e \in CreatureIds |->
                              IF e \in deciding
                              THEN [crMoving[e] EXCEPT !.velocity = Velocity(e, NextAiState(e, targets[e]), targets[e])]
                              ELSE crMoving[e]]
           IN \E order \in SetToSeqs(CreatureIds) :
              LET sim == Integrate([moving |-> willing, pos |-> crPos, aoi |-> Aoi], order)
              IN /\ crMoving' = NextTick(sim.moving) /\ crPos' = sim.pos /\ SetAoi(sim.aoi)
  BY DEF CreatureTick
<1> DEFINE willing == [e \in CreatureIds |->
                              IF e \in deciding
                              THEN [crMoving[e] EXCEPT !.velocity = Velocity(e, NextAiState(e, targets[e]), targets[e])]
                              ELSE crMoving[e]]
<1>3. PICK order \in SetToSeqs(CreatureIds) :
        LET sim == Integrate([moving |-> willing, pos |-> crPos, aoi |-> Aoi], order)
        IN /\ crMoving' = NextTick(sim.moving) /\ crPos' = sim.pos /\ SetAoi(sim.aoi)
  BY <1>2
<1> DEFINE sim == Integrate([moving |-> willing, pos |-> crPos, aoi |-> Aoi], order)
<1>4. crMoving' = NextTick(sim.moving) /\ crPos' = sim.pos /\ SetAoi(sim.aoi) BY <1>3
<1>5. sim = Integrate([moving |-> willing, pos |-> crPos, aoi |-> Aoi], order) OBVIOUS
<1> HIDE DEF sim
<1>6. NpcsIInv'
  <2> DEFINE D == deciding
  <2>1. D = {n \in Npcs : LiveNpc(n) /\ crNpcs[n].wait = 0} OBVIOUS
  <2>2. /\ targets \in [D -> Avatars \cup {NoTarget}]
        /\ crNpcs' = [n \in Npcs |-> IF n \in D THEN Decided(n, targets[n])
                                     ELSE [crNpcs[n] EXCEPT !.wait = IF @ = 0 THEN 0 ELSE @ - 1]]
        /\ crCounts' = [s \in AiStates |-> crCounts[s]
                              + Cardinality({n \in D : crNpcs'[n].state = s /\ crNpcs[n].state # s})
                              - Cardinality({n \in D : crNpcs[n].state = s /\ crNpcs'[n].state # s})]
    BY <1>2
  <2> HIDE DEF D
  <2> QED BY <1>1, <2>1, <2>2, TickedNpcs
<1>7. /\ \A e \in CreatureIds : willing[e] \in Mov /\ willing[e].pos = crMoving[e].pos
      /\ \A a \in Avatars : willing[a] = crMoving[a]
  <2>1. ASSUME NEW e \in CreatureIds PROVE willing[e] \in Mov /\ willing[e].pos = crMoving[e].pos
    <3> DEFINE v == Velocity(e, NextAiState(e, targets[e]), targets[e])
               m == crMoving[e]
    <3>1. v \in Int /\ m \in Mov BY <1>1, VelocityIs DEF PlacesIInv
    <3>2. willing[e] = IF e \in deciding THEN [m EXCEPT !.velocity = v] ELSE m OBVIOUS
    <3>3. m.pos \in Place BY <3>1 DEF Mov
    <3> HIDE DEF v, m, willing
    <3>4. [m EXCEPT !.velocity = v] \in Mov /\ [m EXCEPT !.velocity = v].pos = m.pos
      BY <3>1, <3>3, MovWith
    <3> QED BY <3>1, <3>2, <3>4 DEF m
  <2>2. \A a \in Avatars : willing[a] = crMoving[a] BY AvatarsMove
  <2> QED BY <2>1, <2>2
<1>8. willing \in [CreatureIds -> Mov]
  <2>1. willing = [e \in CreatureIds |-> willing[e]] OBVIOUS
  <2> HIDE DEF willing
  <2> QED BY <1>7, <2>1
<1> HIDE DEF willing
<1>9. PlacesIInv' /\ StepIsLegal BY <1>1, <1>4, <1>5, <1>7, <1>8, TickedPlaces
<1> QED BY <1>6, <1>9 DEF CreaturesIInv

LEMMA CreaturesSteps == CreaturesIInv /\ [CreaturesNext]_creatureVars => CreaturesIInv' /\ StepIsLegal
<1> SUFFICES ASSUME CreaturesIInv, [CreaturesNext]_creatureVars PROVE CreaturesIInv' /\ StepIsLegal
  OBVIOUS
<1>1. CASE UNCHANGED creatureVars
  <2>1. PlacesIInv BY DEF CreaturesIInv
  <2>2. StepIsLegal BY <1>1, <2>1, StaysPut DEF creatureVars
  <2> QED BY <1>1, <2>2 DEF creatureVars, CreaturesIInv, NpcsIInv, PlacesIInv, CountsAre, StateOf
<1>2. CASE CreatureTick BY <1>2, TickStep
<1>3. ASSUME NEW a \in Avatars, AvatarEnters(a) PROVE CreaturesIInv' /\ StepIsLegal
  BY <1>3, EntersStep
<1>4. ASSUME NEW a \in Avatars, AvatarLeaves(a) PROVE CreaturesIInv' /\ StepIsLegal
  BY <1>4, LeavesStep
<1>5. ASSUME NEW a \in Avatars, NEW to \in Wishes, NEW seq \in 0 .. MaxSeq, ApplyCommand(a, to, seq)
      PROVE  CreaturesIInv' /\ StepIsLegal
  BY <1>5, CommandStep
<1>6. ASSUME NEW n \in Npcs, Spawn(n) PROVE CreaturesIInv' /\ StepIsLegal BY <1>6, SpawnStep
<1>7. ASSUME NEW n \in Npcs, Despawn(n) PROVE CreaturesIInv' /\ StepIsLegal BY <1>7, DespawnStep
<1>8. ASSUME NEW n \in Npcs, Revive(n) PROVE CreaturesIInv' /\ StepIsLegal BY <1>8, ReviveStep
<1>9. ASSUME NEW n \in Npcs, NEW a \in Avatars, NEW amount \in 1 .. MaxHp, OnDamaged(n, a, amount)
      PROVE  CreaturesIInv' /\ StepIsLegal
  BY <1>9, DamagedStep
<1> QED BY <1>1, <1>2, <1>3, <1>4, <1>5, <1>6, <1>7, <1>8, <1>9 DEF CreaturesNext

------------------------------------------------------------------------------
(* Combat, for any skills and buffs: what a fighter's attributes are is     *)
(* what the buffs on it add up to, and a death is announced once.           *)

(* The instances on a fighter.                                              *)
Inst ==
  {i \in [buff : DOMAIN BuffTable, source : Fighters, stacks : Int, shield : Nat, left : Int, next : Int] :
     i.shield <= BuffTable[i.buff].shield}
Limit(b) == IF BuffTable[b].most = 0 THEN 1 ELSE BuffTable[b].most
Insts == {s \in Seq(Inst) : \A b \in DOMAIN BuffTable : Cardinality(PositionsOf(s, b)) <= Limit(b)}
Masks == UNION {BuffTable[b].mask : b \in DOMAIN BuffTable}
SameNames(a, b) == DOMAIN a = DOMAIN b /\ \A n \in DOMAIN a : a[n].buff = b[n].buff

LEMMA BuffsAre ==
  ASSUME NEW b \in DOMAIN BuffTable
  PROVE  /\ BuffTable[b].most \in Nat /\ BuffTable[b].shield \in Nat /\ BuffTable[b].lasts \in Nat
         /\ BuffTable[b].every \in Nat /\ BuffTable[b].maxHp \in Int /\ BuffTable[b].amount \in Int
         /\ BuffTable[b].percent \in Int /\ Limit(b) \in Nat \ {0}
<1>1. /\ {BuffTable[b].most, BuffTable[b].shield, BuffTable[b].lasts, BuffTable[b].every} \subseteq Nat
      /\ {BuffTable[b].maxHp, BuffTable[b].percent, BuffTable[b].amount} \subseteq Int
  BY CombatAssumption DEF CombatAssumption
<1> QED BY <1>1 DEF Limit

LEMMA InstIs ==
  ASSUME NEW s \in Seq(Inst), NEW n \in DOMAIN s
  PROVE  /\ s[n] \in Inst /\ s[n].buff \in DOMAIN BuffTable /\ s[n].source \in Fighters
         /\ s[n].stacks \in Int /\ s[n].shield \in Nat /\ s[n].left \in Int /\ s[n].next \in Int
         /\ s[n].shield <= BuffTable[s[n].buff].shield
         /\ n \in 1 .. Len(s) /\ Len(s) \in Nat
<1>1. s[n] \in Inst /\ n \in 1 .. Len(s) /\ Len(s) \in Nat
  <2> DEFINE S == Inst
  <2>1. s \in Seq(S) OBVIOUS
  <2> HIDE DEF S
  <2> QED BY <2>1, LenProperties, ElementOfSeq DEF S
<1> QED BY <1>1 DEF Inst

LEMMA FewInstances ==
  ASSUME NEW s \in Seq(Inst)
  PROVE  /\ Len(s) \in Nat /\ DOMAIN s = 1 .. Len(s) /\ IsFiniteSet(DOMAIN s)
         /\ \A b : PositionsOf(s, b) \in SUBSET DOMAIN s /\ IsFiniteSet(PositionsOf(s, b))
                   /\ Cardinality(PositionsOf(s, b)) \in Nat
<1>1. Len(s) \in Nat /\ DOMAIN s = 1 .. Len(s)
  <2> DEFINE S == Inst
  <2>1. s \in Seq(S) OBVIOUS
  <2> HIDE DEF S
  <2> QED BY <2>1, LenProperties
<1>2. IsFiniteSet(DOMAIN s) BY <1>1, FS_Interval
<1>3. ASSUME NEW b
      PROVE  /\ PositionsOf(s, b) \in SUBSET DOMAIN s /\ IsFiniteSet(PositionsOf(s, b))
             /\ Cardinality(PositionsOf(s, b)) \in Nat
  <2>1. PositionsOf(s, b) \in SUBSET DOMAIN s BY DEF PositionsOf
  <2> QED BY <1>2, <2>1, FS_Subset, FS_CardinalityType
<1> QED BY <1>1, <1>2, <1>3

(* What the buffs add up to depends on their names alone.                   *)
LEMMA NamesOnly ==
  ASSUME NEW a, NEW b, SameNames(a, b)
  PROVE  /\ \A plain : BonusOf(a, plain) = BonusOf(b, plain)
         /\ MaskOf(a) = MaskOf(b) /\ \A x : PositionsOf(a, x) = PositionsOf(b, x)
<1>1. DOMAIN a = DOMAIN b /\ \A n \in DOMAIN a : a[n].buff = b[n].buff BY DEF SameNames
<1>2. \A plain : BonusOf(a, plain) = BonusOf(b, plain) BY <1>1 DEF BonusOf
<1>3. \A x : PositionsOf(a, x) = PositionsOf(b, x) BY <1>1 DEF PositionsOf
<1> QED BY <1>1, <1>2, <1>3 DEF MaskOf

LEMMA QuotientIs ==
  ASSUME NEW a \in Int, NEW d \in Nat \ {0}
  PROVE  a \div d \in Int
OBVIOUS

LEMMA RoundedIs ==
  ASSUME NEW n \in Int, NEW d \in Nat \ {0}
  PROVE  Rounded(n, d) \in Int
<1> DEFINE a == d - 2 * n
           b == 2 * n + d
           e == 2 * d
<1>1. a \in Int /\ b \in Int /\ e \in Nat \ {0} OBVIOUS
<1>2. Rounded(n, d) = IF n < 0 THEN -(a \div e) ELSE b \div e BY DEF Rounded
<1> HIDE DEF a, b, e
<1>3. a \div e \in Int /\ b \div e \in Int BY <1>1, QuotientIs
<1> QED BY <1>2, <1>3

LEMMA GainIs ==
  ASSUME NEW i, i.buff \in DOMAIN BuffTable, NEW plain \in Int
  PROVE  Gain(i.buff, plain) \in Int
<1> DEFINE n == BuffTable[i.buff].percent * plain
<1>1. BuffTable[i.buff].percent \in Int /\ BuffTable[i.buff].maxHp \in Int BY BuffsAre
<1>2. n \in Int /\ RateScale \in Nat \ {0} BY <1>1, CombatAssumption DEF CombatAssumption
<1> HIDE DEF n
<1>3. Rounded(n, RateScale) \in Int BY <1>2, RoundedIs
<1> QED BY <1>1, <1>3 DEF Gain, n

LEMMA SumsOfBuffs ==
  ASSUME NEW s \in Seq(Inst), NEW plain \in Int
  PROVE  BonusOf(s, plain) \in Int /\ MaskOf(s) \in SUBSET Masks
<1>1. IsFiniteSet(DOMAIN s) /\ \A n \in DOMAIN s : s[n].buff \in DOMAIN BuffTable
  BY FewInstances, InstIs
<1> DEFINE f == [n \in DOMAIN s |-> Gain(s[n].buff, plain)]
           D == DOMAIN s
<1>2. \A n \in D : f[n] \in Int BY <1>1, GainIs
<1>3. BonusOf(s, plain) = Sum(f, D) BY DEF BonusOf, Sum
<1>4. Sum(f, D) \in Int
  <2> HIDE DEF f, D
  <2> QED BY <1>1, <1>2, SumOfIntegers DEF D
<1> QED BY <1>1, <1>3, <1>4 DEF MaskOf, Masks

LEMMA SumOfShields ==
  ASSUME NEW s \in Seq(Inst), NEW D \in SUBSET DOMAIN s
  PROVE  SumFunctionOnSet(ShieldsOf(s), D) \in Nat
<1>1. IsFiniteSet(D) BY FewInstances, FS_Subset
<1>2. \A n \in D : ShieldsOf(s)[n] \in Nat BY InstIs DEF ShieldsOf
<1> DEFINE f == ShieldsOf(s)
<1> HIDE DEF f
<1> QED BY <1>1, <1>2, SumOfNaturals DEF f, Sum

LEMMA SameNamesFit ==
  ASSUME NEW a \in Insts, NEW b \in Seq(Inst), SameNames(a, b)
  PROVE  b \in Insts
<1> QED BY NamesOnly DEF Insts

(* The instances one by one, each changed but for its name.                 *)
LEMMA InstsChange ==
  ASSUME NEW a \in Insts, NEW b, DOMAIN b = DOMAIN a, b = [n \in DOMAIN a |-> b[n]],
         \A n \in DOMAIN a : b[n] \in Inst /\ b[n].buff = a[n].buff
  PROVE  b \in Insts /\ SameNames(a, b) /\ Len(b) = Len(a)
<1>1. Len(a) \in Nat /\ DOMAIN a = 1 .. Len(a) BY FewInstances DEF Insts
<1> DEFINE S == Inst
           c == Len(a)
<1>2. c \in Nat /\ b \in [1 .. c -> S] BY <1>1
<1> HIDE DEF S, c
<1>3. SameNames(a, b) BY DEF SameNames
<1> QED BY <1>2, <1>3, SameNamesFit DEF S, c

LEMMA DrainedFits ==
  ASSUME NEW a \in Insts, NEW amount \in Int
  PROVE  Drained(a, amount) \in Insts /\ SameNames(a, Drained(a, amount))
<1> DEFINE b == Drained(a, amount)
           older(n) == SumFunctionOnSet(ShieldsOf(a), 1 .. (n - 1))
           left(n) == a[n].shield - Between(amount - older(n), 0, a[n].shield)
<1>1. a \in Seq(Inst) BY DEF Insts
<1>2. DOMAIN b = DOMAIN a /\ b = [n \in DOMAIN a |-> b[n]] /\ \A n \in DOMAIN a : b[n] = [a[n] EXCEPT !.shield = left(n)]
  BY DEF Drained
<1>3. ASSUME NEW n \in DOMAIN a PROVE b[n] \in Inst /\ b[n].buff = a[n].buff
  <2> DEFINE i == a[n]
             l == left(n)
  <2>1. i \in Inst /\ i.shield \in Nat /\ n \in 1 .. Len(a) /\ Len(a) \in Nat /\ DOMAIN a = 1 .. Len(a)
    BY <1>1, InstIs, FewInstances
  <2>2. older(n) \in Nat BY <1>1, <2>1, SumOfShields
  <2>3. l \in Nat /\ l <= i.shield BY <2>1, <2>2 DEF Between
  <2>4. b[n] = [i EXCEPT !.shield = l] BY <1>2
  <2> HIDE DEF i, l, b
  <2>5. [i EXCEPT !.shield = l] \in Inst /\ [i EXCEPT !.shield = l].buff = i.buff
    <3>1. l <= BuffTable[i.buff].shield BY <2>1, <2>3, BuffsAre DEF Inst
    <3> QED BY <2>1, <2>3, <3>1 DEF Inst
  <2> QED BY <2>4, <2>5 DEF i
<1> HIDE DEF b
<1> QED BY <1>2, <1>3, InstsChange DEF b

LEMMA InstWith ==
  ASSUME NEW i \in Inst, NEW m \in Int
  PROVE  /\ [i EXCEPT !.left = m] \in Inst /\ [i EXCEPT !.left = m].buff = i.buff
         /\ [i EXCEPT !.next = m] \in Inst /\ [i EXCEPT !.next = m].buff = i.buff
         /\ [i EXCEPT !.stacks = m] \in Inst /\ [i EXCEPT !.stacks = m].buff = i.buff
BY DEF Inst

(* A selection of the instances, in their order.                            *)
LEMMA FewerFit ==
  ASSUME NEW a \in Insts, NEW t \in Seq(Inst), NEW at \in [DOMAIN t -> DOMAIN a],
         \A m, n \in DOMAIN t : m # n => at[m] # at[n],
         \A n \in DOMAIN t : t[n] = a[at[n]]
  PROVE  /\ t \in Insts
         /\ \A b, k : k \in PositionsOf(a, b) /\ (\A n \in DOMAIN t : at[n] # k)
                        => Cardinality(PositionsOf(t, b)) < Cardinality(PositionsOf(a, b))
<1>1. a \in Seq(Inst) BY DEF Insts
<1>2. ASSUME NEW b, NEW T \in SUBSET PositionsOf(a, b), \A n \in DOMAIN t : at[n] \in PositionsOf(a, b) => at[n] \in T
      PROVE  Cardinality(PositionsOf(t, b)) <= Cardinality(T)
  <2> DEFINE P == PositionsOf(t, b)
             f == [n \in P |-> at[n]]
  <2>1. P \in SUBSET DOMAIN t /\ \A n \in P : at[n] \in PositionsOf(a, b) BY DEF PositionsOf
  <2> HIDE DEF P
  <2>2. f \in Injection(P, T) BY <1>2, <2>1 DEF Injection, IsInjective
  <2>3. IsFiniteSet(T) BY <1>1, FewInstances, FS_Subset
  <2> HIDE DEF f
  <2> QED BY <2>2, <2>3, FS_Injection DEF P
<1>3. t \in Insts
  <2>1. ASSUME NEW b \in DOMAIN BuffTable PROVE Cardinality(PositionsOf(t, b)) <= Limit(b)
    <3>1. Cardinality(PositionsOf(t, b)) \in Nat /\ Cardinality(PositionsOf(a, b)) \in Nat
      BY <1>1, FewInstances
    <3>2. Cardinality(PositionsOf(a, b)) <= Limit(b) BY DEF Insts
    <3>3. Limit(b) \in Nat BY BuffsAre
    <3> QED BY <1>2, <3>1, <3>2, <3>3
  <2> QED BY <2>1 DEF Insts
<1>4. ASSUME NEW b, NEW k, k \in PositionsOf(a, b), \A n \in DOMAIN t : at[n] # k
      PROVE  Cardinality(PositionsOf(t, b)) < Cardinality(PositionsOf(a, b))
  <2> DEFINE T == PositionsOf(a, b) \ {k}
             A == PositionsOf(a, b)
  <2>1. Cardinality(PositionsOf(t, b)) <= Cardinality(T)
    <3>1. T \in SUBSET PositionsOf(a, b) /\ \A n \in DOMAIN t : at[n] \in PositionsOf(a, b) => at[n] \in T
      BY <1>4
    <3> HIDE DEF T
    <3> QED BY <1>2, <3>1
  <2>2. IsFiniteSet(A) /\ k \in A /\ Cardinality(A) \in Nat BY <1>1, <1>4, FewInstances
  <2> HIDE DEF A
  <2>3. Cardinality(A \ {k}) = Cardinality(A) - 1 BY <2>2, FS_RemoveElement
  <2> QED BY <2>1, <2>2, <2>3, FewInstances DEF A
<1> QED BY <1>3, <1>4

LEMMA RemovedFits ==
  ASSUME NEW a \in Insts, NEW k \in DOMAIN a
  PROVE  /\ RemoveAt(a, k) \in Insts /\ Len(RemoveAt(a, k)) = Len(a) - 1 /\ Len(a) \in Nat \ {0}
         /\ \A b : k \in PositionsOf(a, b) => Cardinality(PositionsOf(RemoveAt(a, k), b)) < Cardinality(PositionsOf(a, b))
<1> DEFINE S == Inst
           c == Len(a)
           f == SubSeq(a, 1, k - 1)
           g == SubSeq(a, k + 1, c)
           t == RemoveAt(a, k)
           at == [n \in 1 .. (c - 1) |-> IF n < k THEN n ELSE n + 1]
<1>1. a \in Seq(S) /\ c \in Nat /\ k \in 1 .. c /\ DOMAIN a = 1 .. c BY FewInstances DEF Insts
<1>2. t = f \o g BY DEF RemoveAt
<1> HIDE DEF S, c, t
<1>3. f \in Seq(S) /\ Len(f) = k - 1 /\ \A i \in 1 .. k - 1 : f[i] = a[i]
  <2>1. /\ SubSeq(a, 1, k - 1) \in Seq(S) /\ Len(SubSeq(a, 1, k - 1)) = (k - 1) - 1 + 1
        /\ \A i \in 1 .. (k - 1) - 1 + 1 : SubSeq(a, 1, k - 1)[i] = a[1 + i - 1]
    BY <1>1, StretchOf DEF c
  <2> QED BY <1>1, <2>1
<1>4. g \in Seq(S) /\ Len(g) = c - k /\ \A i \in 1 .. c - k : g[i] = a[k + i]
  <2>1. /\ SubSeq(a, k + 1, c) \in Seq(S) /\ Len(SubSeq(a, k + 1, c)) = c - (k + 1) + 1
        /\ \A i \in 1 .. c - (k + 1) + 1 : SubSeq(a, k + 1, c)[i] = a[(k + 1) + i - 1]
    BY <1>1, StretchOf DEF c
  <2> QED BY <1>1, <2>1
<1> HIDE DEF f, g
<1>5. /\ t \in Seq(S) /\ Len(t) = c - 1 /\ DOMAIN t = 1 .. (c - 1)
      /\ \A n \in 1 .. (c - 1) : t[n] = IF n <= k - 1 THEN f[n] ELSE g[n - (k - 1)]
  <2>1. f \o g \in Seq(S) /\ Len(f \o g) = Len(f) + Len(g)
        /\ \A n \in 1 .. Len(f) + Len(g) : (f \o g)[n] = IF n <= Len(f) THEN f[n] ELSE g[n - Len(f)]
    BY <1>3, <1>4, ConcatProperties
  <2>2. t \in Seq(S) /\ Len(t) = c - 1 /\ \A n \in 1 .. (c - 1) : t[n] = IF n <= k - 1 THEN f[n] ELSE g[n - (k - 1)]
    BY <1>1, <1>2, <1>3, <1>4, <2>1
  <2> QED BY <2>2, LenProperties
<1>6. \A n \in 1 .. (c - 1) : at[n] \in 1 .. c /\ at[n] # k /\ t[n] = a[at[n]]
  <2>1. ASSUME NEW n \in 1 .. (c - 1), n < k PROVE at[n] \in 1 .. c /\ at[n] # k /\ t[n] = a[at[n]]
    BY <1>1, <1>3, <1>5, <2>1
  <2>2. ASSUME NEW n \in 1 .. (c - 1), ~(n < k) PROVE at[n] \in 1 .. c /\ at[n] # k /\ t[n] = a[at[n]]
    <3>1. n - (k - 1) \in 1 .. c - k /\ k + (n - (k - 1)) = n + 1 /\ ~(n <= k - 1) BY <1>1, <2>2
    <3>2. t[n] = a[n + 1] /\ at[n] = n + 1 BY <1>4, <1>5, <2>2, <3>1
    <3> QED BY <1>1, <2>2, <3>2
  <2> QED BY <2>1, <2>2
<1>7. \A m, n \in 1 .. (c - 1) : m # n => at[m] # at[n] BY <1>1
<1>8. at \in [DOMAIN t -> DOMAIN a] BY <1>1, <1>5, <1>6
<1> HIDE DEF at
<1>9. /\ t \in Insts
      /\ \A b, j : j \in PositionsOf(a, b) /\ (\A n \in DOMAIN t : at[n] # j)
                     => Cardinality(PositionsOf(t, b)) < Cardinality(PositionsOf(a, b))
  <2>1. /\ \A m, n \in DOMAIN t : m # n => at[m] # at[n]
        /\ \A n \in DOMAIN t : t[n] = a[at[n]]
    BY <1>5, <1>6, <1>7
  <2> QED BY <1>5, <1>8, <2>1, FewerFit DEF S
<1> QED BY <1>1, <1>5, <1>6, <1>9 DEF t, c

LEMMA WithoutFits ==
  ASSUME NEW a \in Insts, NEW b
  PROVE  WithoutBuff(a, b) \in Insts
<1> DEFINE places == DOMAIN a \ PositionsOf(a, b)
           at == CHOOSE at \in SetToSeqs(places) : \A m, n \in DOMAIN at : m < n => at[m] < at[n]
           t == WithoutBuff(a, b)
           S == Inst
<1>1. a \in Seq(S) /\ places \in SUBSET (DOMAIN a) BY DEF Insts
<1>2. t = [n \in DOMAIN at |-> a[at[n]]] BY DEF WithoutBuff
<1>3. Len(a) \in Nat /\ DOMAIN a = 1 .. Len(a) BY <1>1, FewInstances
<1> HIDE DEF S, places, t
<1>4. at \in Seq(places) /\ NoRepeat(at) /\ Members(at) = places /\ Len(at) <= Len(a)
  <2> DEFINE f == at
             c == Len(a)
  <2>1. c \in Nat /\ places \in SUBSET (1 .. c) /\ f = CHOOSE g \in SetToSeqs(places) : \A i, j \in DOMAIN g : i < j => g[i] < g[j]
    BY <1>1, <1>3
  <2> HIDE DEF f, c
  <2> QED BY <2>1, PlacesInOrder DEF f, c
<1> HIDE DEF at
<1>5. Len(at) \in Nat /\ DOMAIN at = 1 .. Len(at) /\ \A n \in DOMAIN at : at[n] \in places
  BY <1>4, LenProperties, ElementOfSeq
<1>6. t \in Seq(S) /\ DOMAIN t = DOMAIN at
  <2>1. t \in [1 .. Len(at) -> S] BY <1>1, <1>2, <1>5, ElementOfSeq, LenProperties
  <2> QED BY <1>2, <1>5, <2>1
<1>7. at \in [DOMAIN t -> DOMAIN a] /\ (\A n \in DOMAIN t : t[n] = a[at[n]])
  BY <1>1, <1>2, <1>4, <1>5, <1>6, LenProperties
<1>8. t \in Insts
  <2>1. t \in Seq(Inst) BY <1>6 DEF S
  <2> QED BY <1>4, <1>6, <1>7, <2>1, FewerFit DEF NoRepeat
<1> QED BY <1>8 DEF t

(* One instance more.                                                       *)
LEMMA OneMoreFits ==
  ASSUME NEW a \in Insts, NEW i \in Inst, Cardinality(PositionsOf(a, i.buff)) < Limit(i.buff)
  PROVE  Append(a, i) \in Insts
<1> DEFINE t == Append(a, i)
           c == Len(a)
           S == Inst
           x == i.buff
<1>1. a \in Seq(S) /\ i \in S /\ x \in DOMAIN BuffTable BY DEF Insts, Inst
<1>2. c \in Nat /\ DOMAIN a = 1 .. c BY <1>1, FewInstances
<1> HIDE DEF S
<1>3. /\ t \in Seq(S) /\ Len(t) = c + 1
      /\ \A n \in 1 .. c + 1 : t[n] = IF n = c + 1 THEN i ELSE a[n]
  BY <1>1, AppendOf
<1> HIDE DEF t, x
<1>4. DOMAIN t = 1 .. c + 1 BY <1>3, LenProperties
<1>5. ASSUME NEW b PROVE PositionsOf(t, b) = PositionsOf(a, b) \cup (IF b = x THEN {c + 1} ELSE {})
  <2>1. ASSUME NEW n PROVE n \in PositionsOf(t, b) <=> n \in PositionsOf(a, b) \/ (n = c + 1 /\ b = x)
    <3>1. CASE n = c + 1 BY <1>2, <1>3, <1>4, <3>1 DEF PositionsOf, x
    <3>2. CASE n # c + 1
      <4>1. n \in DOMAIN a => t[n] = a[n] BY <1>2, <1>3, <3>2
      <4> QED BY <1>2, <1>4, <3>2, <4>1 DEF PositionsOf
    <3> QED BY <3>1, <3>2
  <2> QED BY <2>1
<1>6. ASSUME NEW b \in DOMAIN BuffTable PROVE Cardinality(PositionsOf(t, b)) <= Limit(b)
  <2>1. Cardinality(PositionsOf(a, b)) <= Limit(b) /\ Limit(b) \in Nat BY BuffsAre DEF Insts
  <2>2. CASE b = x
    <3> DEFINE A == PositionsOf(a, b)
    <3>1. IsFiniteSet(A) /\ Cardinality(A) \in Nat BY <1>1, FewInstances DEF S
    <3>2. Cardinality(A) < Limit(b) BY <2>2 DEF x
    <3>3. PositionsOf(t, b) = A \cup {c + 1} BY <1>5, <2>2
    <3> HIDE DEF A
    <3> DEFINE k == c + 1
               B == A \cup {k}
    <3> HIDE DEF k
    <3>4. IsFiniteSet(B) /\ Cardinality(B) = IF k \in A THEN Cardinality(A) ELSE Cardinality(A) + 1
      BY <3>1, FS_AddElement
    <3>5. PositionsOf(t, b) = B BY <3>3 DEF k
    <3> HIDE DEF B
    <3> QED BY <2>1, <3>1, <3>2, <3>4, <3>5
  <2>3. CASE b # x BY <1>5, <2>1, <2>3
  <2> QED BY <2>2, <2>3
<1> QED BY <1>3, <1>6 DEF t, Insts, S

LEMMA NoneFits == << >> \in Insts
<1>1. ASSUME NEW b \in DOMAIN BuffTable PROVE Cardinality(PositionsOf(<< >>, b)) <= Limit(b)
  <2>1. Cardinality(PositionsOf(<< >>, b)) = 0 BY FS_EmptySet DEF PositionsOf
  <2> QED BY <2>1, BuffsAre
<1> QED BY <1>1 DEF Insts

------------------------------------------------------------------------------
(* The scenes a fight can be in.                                            *)
Role == [hp : Nat, mp : Int, dead : BOOLEAN]
Flight == [caster : Fighters, target : Fighters, skill : DOMAIN SkillTable, left : Int]
Kinds == {"damage", "heal", "died"}
Event == [kind : Kinds, source : Fighters, target : Fighters, amount : Int]
Scenes ==
  [roles : [Fighters -> Role], buffs : [Fighters -> Insts],
   plain : [Fighters -> Int], bonus : [Fighters -> Int], basis : [Fighters -> Int],
   mask : [Fighters -> SUBSET Masks], flights : Seq(Flight), events : Seq(Event), owed : [Fighters -> Nat]]
DeadAre(roles) == \A f \in Fighters : roles[f].dead <=> roles[f].hp = 0
Right(st, f) == st.bonus[f] = BonusOf(st.buffs[f], st.basis[f]) /\ st.mask[f] = MaskOf(st.buffs[f])
Fit == {st \in Scenes : DeadAre(st.roles)}
Good == {st \in Fit : \A f \in Fighters : Right(st, f)}
SameBuffs(st, t) ==
  t.bonus = st.bonus /\ t.basis = st.basis /\ t.mask = st.mask /\ \A f \in Fighters : SameNames(st.buffs[f], t.buffs[f])

LEMMA SceneIs ==
  ASSUME NEW st \in Fit
  PROVE  /\ st = [roles |-> st.roles, buffs |-> st.buffs, bonus |-> st.bonus, mask |-> st.mask,
                  plain |-> st.plain, basis |-> st.basis, flights |-> st.flights, events |-> st.events, owed |-> st.owed]
         /\ st.roles \in [Fighters -> Role] /\ st.buffs \in [Fighters -> Insts]
         /\ st.plain \in [Fighters -> Int] /\ st.basis \in [Fighters -> Int]
         /\ st.bonus \in [Fighters -> Int] /\ st.mask \in [Fighters -> SUBSET Masks]
         /\ st.flights \in Seq(Flight) /\ st.events \in Seq(Event) /\ st.owed \in [Fighters -> Nat]
         /\ DeadAre(st.roles)
BY DEF Fit, Scenes

LEMMA SceneOf ==
  ASSUME NEW roles \in [Fighters -> Role], NEW buffs \in [Fighters -> Insts], NEW bonus \in [Fighters -> Int],
         NEW plain \in [Fighters -> Int], NEW basis \in [Fighters -> Int],
         NEW mask \in [Fighters -> SUBSET Masks], NEW flights \in Seq(Flight), NEW events \in Seq(Event),
         NEW owed \in [Fighters -> Nat], DeadAre(roles)
  PROVE  [roles |-> roles, buffs |-> buffs, bonus |-> bonus, mask |-> mask,
          plain |-> plain, basis |-> basis, flights |-> flights, events |-> events, owed |-> owed] \in Fit
BY DEF Fit, Scenes

LEMMA SameIsSame == \A a : SameNames(a, a)
BY DEF SameNames

LEMMA NamesFollow ==
  ASSUME NEW a, NEW b, NEW c, SameNames(a, b), SameNames(b, c)
  PROVE  SameNames(a, c)
BY DEF SameNames

LEMMA BuffsFollow ==
  ASSUME NEW r, NEW s, NEW t, SameBuffs(r, s), SameBuffs(s, t)
  PROVE  SameBuffs(r, t)
BY NamesFollow DEF SameBuffs

LEMMA RightStays ==
  ASSUME NEW st, NEW t, SameBuffs(st, t), NEW f \in Fighters, Right(st, f)
  PROVE  Right(t, f)
<1>1. SameNames(st.buffs[f], t.buffs[f]) /\ t.bonus = st.bonus /\ t.basis = st.basis /\ t.mask = st.mask
  BY DEF SameBuffs
<1> QED BY <1>1, NamesOnly DEF Right

LEMMA GoodStays ==
  ASSUME NEW st \in Good, NEW t \in Fit, SameBuffs(st, t)
  PROVE  t \in Good
BY RightStays DEF Good

LEMMA PublishedFits ==
  ASSUME NEW st \in Fit, NEW kind \in Kinds, NEW source \in Fighters,
         NEW target \in Fighters, NEW amount \in Int
  PROVE  LET t == Published(st, kind, source, target, amount)
         IN t \in Fit /\ SameBuffs(st, t) /\ t.buffs = st.buffs /\ t.roles = st.roles /\ t.owed = st.owed /\ t.flights = st.flights
<1> DEFINE e == [kind |-> kind, source |-> source, target |-> target, amount |-> amount]
           events == Append(st.events, e)
           t == Published(st, kind, source, target, amount)
           S == Event
<1>0. /\ st = [roles |-> st.roles, buffs |-> st.buffs, bonus |-> st.bonus, mask |-> st.mask,
                plain |-> st.plain, basis |-> st.basis, flights |-> st.flights, events |-> st.events, owed |-> st.owed]
      /\ st.roles \in [Fighters -> Role] /\ st.buffs \in [Fighters -> Insts]
      /\ st.plain \in [Fighters -> Int] /\ st.basis \in [Fighters -> Int]
      /\ st.bonus \in [Fighters -> Int] /\ st.mask \in [Fighters -> SUBSET Masks]
      /\ st.flights \in Seq(Flight) /\ st.events \in Seq(Event) /\ st.owed \in [Fighters -> Nat]
      /\ DeadAre(st.roles)
  BY SceneIs
<1>1. t = [roles |-> st.roles, buffs |-> st.buffs, bonus |-> st.bonus, mask |-> st.mask,
           plain |-> st.plain, basis |-> st.basis, flights |-> st.flights, events |-> events, owed |-> st.owed]
  <2> DEFINE x == e
  <2>1. t = [st EXCEPT !.events = Append(@, x)] BY DEF Published
  <2> HIDE DEF x, t
  <2> QED BY <1>0, <2>1 DEF x
<1>2. e \in S /\ st.events \in Seq(S) BY <1>0 DEF Event
<1> HIDE DEF S, e
<1>3. events \in Seq(S) BY <1>2, AppendOf
<1> HIDE DEF events
<1>4. t \in Fit
  <2>1. events \in Seq(Event) BY <1>3 DEF S
  <2> HIDE DEF t
  <2> QED BY <1>0, <1>1, <2>1, SceneOf
<1> HIDE DEF t
<1> QED BY <1>1, <1>4, SameIsSame DEF t, SameBuffs

LEMMA RoleWith ==
  ASSUME NEW r \in Role, NEW n \in Nat, NEW v \in Int
  PROVE  /\ [r EXCEPT !.hp = n, !.dead = n = 0] \in Role
         /\ [r EXCEPT !.hp = n, !.dead = n = 0].hp = n
         /\ [r EXCEPT !.hp = n, !.dead = n = 0].dead <=> n = 0
         /\ [r EXCEPT !.mp = v] \in Role
         /\ [r EXCEPT !.mp = v].hp = r.hp /\ [r EXCEPT !.mp = v].dead = r.dead
<1> DEFINE d == n = 0
<1>1. d \in BOOLEAN OBVIOUS
<1> HIDE DEF d
<1>2. [r EXCEPT !.hp = n, !.dead = d].hp = n BY DEF Role
<1>3. [r EXCEPT !.hp = n, !.dead = d].dead = d BY DEF Role
<1>4. [r EXCEPT !.mp = v] \in Role BY DEF Role
<1>5. [r EXCEPT !.mp = v].hp = r.hp BY DEF Role
<1>6. [r EXCEPT !.mp = v].dead = r.dead BY DEF Role
<1> QED BY <1>1, <1>2, <1>3, <1>4, <1>5, <1>6 DEF d, Role

LEMMA MaxHpIs ==
  ASSUME NEW plain \in Int, NEW b \in Int
  PROVE  MaxHpWith(plain, b) \in Nat \ {0}
BY DEF MaxHpWith

LEMMA ModifyFits ==
  ASSUME NEW st \in Fit, NEW f \in Fighters, NEW delta \in Int
  PROVE  LET t == ModifyHp(st, f, delta)
         IN /\ t \in Fit /\ SameBuffs(st, t) /\ t.buffs = st.buffs /\ t.flights = st.flights
            /\ t.owed[f] = st.owed[f] + (IF st.roles[f].hp > 0 /\ t.roles[f].hp = 0 THEN 1 ELSE 0)
            /\ st.owed[f] \in Nat
<1> DEFINE old == st.roles[f].hp
           new == Between(old + delta, 0, MaxHpWith(st.plain[f], st.bonus[f]))
           r == [st.roles[f] EXCEPT !.hp = new, !.dead = new = 0]
           roles == [st.roles EXCEPT ![f] = r]
           o == st.owed[f] + IF old > 0 /\ new = 0 THEN 1 ELSE 0
           owed == [st.owed EXCEPT ![f] = o]
           t == ModifyHp(st, f, delta)
<1>1. /\ st.roles \in [Fighters -> Role] /\ st.bonus \in [Fighters -> Int] /\ st.owed \in [Fighters -> Nat]
      /\ st.plain \in [Fighters -> Int] /\ DeadAre(st.roles)
  BY SceneIs
<1>2. st.roles[f] \in Role /\ old \in Nat /\ st.owed[f] \in Nat /\ st.bonus[f] \in Int /\ st.plain[f] \in Int
  BY <1>1 DEF Role
<1>3. new \in Nat
  <2> DEFINE m == MaxHpWith(st.plain[f], st.bonus[f])
             x == old + delta
  <2>1. m \in Nat
    <3> DEFINE p == st.plain[f]
               b == st.bonus[f]
    <3>1. p \in Int /\ b \in Int BY <1>2
    <3>2. m = MaxHpWith(p, b) OBVIOUS
    <3> HIDE DEF p, b, m
    <3> QED BY <3>1, <3>2, MaxHpIs
  <2>2. x \in Int BY <1>2
  <2> HIDE DEF m, x
  <2> QED BY <2>1, <2>2 DEF m, x, Between
<1>4. t = [roles |-> roles, buffs |-> st.buffs, bonus |-> st.bonus, mask |-> st.mask,
           plain |-> st.plain, basis |-> st.basis, flights |-> st.flights, events |-> st.events, owed |-> owed]
  <2> DEFINE n == new
             m == o
  <2>1. t = [st EXCEPT !.roles[f].hp = n, !.roles[f].dead = n = 0, !.owed[f] = m] BY DEF ModifyHp
  <2>2. roles = [st.roles EXCEPT ![f].hp = n, ![f].dead = n = 0] BY <1>1, <1>2
  <2> HIDE DEF n, m, t, roles
  <2>3. /\ st = [roles |-> st.roles, buffs |-> st.buffs, bonus |-> st.bonus, mask |-> st.mask,
                 plain |-> st.plain, basis |-> st.basis, flights |-> st.flights, events |-> st.events, owed |-> st.owed]
        /\ st.roles \in [Fighters -> Role]
    BY SceneIs
  <2> QED BY <2>1, <2>2, <2>3 DEF m
<1> HIDE DEF new, t
<1>5. r \in Role /\ r.hp = new /\ (r.dead <=> new = 0) BY <1>2, <1>3, RoleWith
<1> HIDE DEF r
<1>6. roles \in [Fighters -> Role] /\ roles[f] = r /\ \A g \in Fighters : g # f => roles[g] = st.roles[g]
  BY <1>1, <1>5
<1>7. DeadAre(roles) BY <1>1, <1>5, <1>6 DEF DeadAre
<1>8. o \in Nat BY <1>2
<1> HIDE DEF roles, o
<1>9. owed \in [Fighters -> Nat] /\ owed[f] = o BY <1>1, <1>8
<1> HIDE DEF owed
<1>10. t \in Fit BY <1>4, <1>6, <1>7, <1>9, SceneIs, SceneOf
<1>11. t.roles[f].hp = new /\ t.owed[f] = o /\ t.buffs = st.buffs /\ t.flights = st.flights
  BY <1>4, <1>5, <1>6, <1>9
<1> QED BY <1>2, <1>4, <1>10, <1>11, SameIsSame DEF t, o, SameBuffs

(* The instances on one fighter change.                                     *)
LEMMA BuffsFit ==
  ASSUME NEW st \in Fit, NEW f \in Fighters, NEW new \in Insts
  PROVE  LET t == [st EXCEPT !.buffs[f] = new]
         IN /\ t \in Fit /\ t.buffs[f] = new /\ t.bonus = st.bonus /\ t.mask = st.mask /\ t.roles = st.roles
            /\ t.basis = st.basis
            /\ t.owed = st.owed /\ \A g \in Fighters : g # f => t.buffs[g] = st.buffs[g]
            /\ SameNames(st.buffs[f], new) => SameBuffs(st, t)
<1> DEFINE buffs == [st.buffs EXCEPT ![f] = new]
           t == [st EXCEPT !.buffs[f] = new]
<1>0. /\ st = [roles |-> st.roles, buffs |-> st.buffs, bonus |-> st.bonus, mask |-> st.mask,
                plain |-> st.plain, basis |-> st.basis, flights |-> st.flights, events |-> st.events, owed |-> st.owed]
      /\ st.roles \in [Fighters -> Role] /\ st.buffs \in [Fighters -> Insts]
      /\ st.plain \in [Fighters -> Int] /\ st.basis \in [Fighters -> Int]
      /\ st.bonus \in [Fighters -> Int] /\ st.mask \in [Fighters -> SUBSET Masks]
      /\ st.flights \in Seq(Flight) /\ st.events \in Seq(Event) /\ st.owed \in [Fighters -> Nat]
      /\ DeadAre(st.roles)
  BY SceneIs
<1>1. t = [roles |-> st.roles, buffs |-> buffs, bonus |-> st.bonus, mask |-> st.mask,
           plain |-> st.plain, basis |-> st.basis, flights |-> st.flights, events |-> st.events, owed |-> st.owed]
  <2> DEFINE x == new
  <2>1. t = [st EXCEPT !.buffs[f] = x] OBVIOUS
  <2> HIDE DEF x, t
  <2> QED BY <1>0, <2>1 DEF x
<1>2. buffs \in [Fighters -> Insts] /\ buffs[f] = new /\ \A g \in Fighters : g # f => buffs[g] = st.buffs[g]
  BY SceneIs
<1> HIDE DEF buffs, t
<1>3. t \in Fit BY <1>1, <1>2, SceneIs, SceneOf
<1> QED BY <1>1, <1>2, <1>3, SameIsSame DEF t, SameBuffs

LEMMA RecomputedFits ==
  ASSUME NEW st \in Fit, NEW f \in Fighters
  PROVE  LET t == Recomputed(st, f)
         IN /\ t \in Fit /\ t.buffs = st.buffs /\ Right(t, f) /\ \A g \in Fighters : g # f /\ Right(st, g) => Right(t, g)
<1> DEFINE p == st.plain[f]
           b == BonusOf(st.buffs[f], p)
           m == MaskOf(st.buffs[f])
           bonus == [st.bonus EXCEPT ![f] = b]
           basis == [st.basis EXCEPT ![f] = p]
           mask == [st.mask EXCEPT ![f] = m]
           t == Recomputed(st, f)
<1>0. /\ st = [roles |-> st.roles, buffs |-> st.buffs, bonus |-> st.bonus, mask |-> st.mask,
                plain |-> st.plain, basis |-> st.basis, flights |-> st.flights, events |-> st.events, owed |-> st.owed]
      /\ st.roles \in [Fighters -> Role] /\ st.buffs \in [Fighters -> Insts]
      /\ st.plain \in [Fighters -> Int] /\ st.basis \in [Fighters -> Int]
      /\ st.bonus \in [Fighters -> Int] /\ st.mask \in [Fighters -> SUBSET Masks]
      /\ st.flights \in Seq(Flight) /\ st.events \in Seq(Event) /\ st.owed \in [Fighters -> Nat]
      /\ DeadAre(st.roles)
  BY SceneIs
<1>1. t = [roles |-> st.roles, buffs |-> st.buffs, bonus |-> bonus, mask |-> mask,
           plain |-> st.plain, basis |-> basis, flights |-> st.flights, events |-> st.events, owed |-> st.owed]
  <2> DEFINE x == b
             y == m
             z == p
  <2>1. t = [st EXCEPT !.bonus[f] = x, !.basis[f] = z, !.mask[f] = y] BY DEF Recomputed
  <2> HIDE DEF x, y, z, t
  <2> QED BY <1>0, <2>1 DEF x, y, z
<1>2. p \in Int /\ b \in Int /\ m \in SUBSET Masks
  <2>1. st.buffs[f] \in Seq(Inst) /\ p \in Int BY SceneIs DEF Insts
  <2> DEFINE s == st.buffs[f]
  <2> HIDE DEF s, p
  <2> QED BY <2>1, SumsOfBuffs DEF s
<1> HIDE DEF b, m, p
<1>3. /\ bonus \in [Fighters -> Int] /\ bonus[f] = b /\ \A g \in Fighters : g # f => bonus[g] = st.bonus[g]
      /\ basis \in [Fighters -> Int] /\ basis[f] = p /\ \A g \in Fighters : g # f => basis[g] = st.basis[g]
      /\ mask \in [Fighters -> SUBSET Masks] /\ mask[f] = m /\ \A g \in Fighters : g # f => mask[g] = st.mask[g]
  BY <1>2, SceneIs
<1> HIDE DEF bonus, basis, mask, t
<1>4. t \in Fit BY <1>1, <1>3, SceneIs, SceneOf
<1>5. \A g \in Fighters : g # f /\ Right(st, g) => Right(t, g) BY <1>1, <1>3 DEF Right
<1> QED BY <1>1, <1>3, <1>4, <1>5 DEF t, Right, b, m

(* Hits and heals.                                                          *)
LEMMA RatesAre ==
  /\ RateScale \in Nat \ {0} /\ MitigationK \in Nat \ {0} /\ MitigationMax \in Int
  /\ Defense \in Int /\ CritDamage \in Int /\ MinDamage \in Int
BY CombatAssumption DEF CombatAssumption

LEMMA CritIs == \A raw \in Int : Crit(raw) \in Int
<1> TAKE raw \in Int
<1> DEFINE a == raw * CritDamage
<1>1. a \in Int /\ RateScale \in Nat \ {0} BY RatesAre
<1> HIDE DEF a
<1> QED BY <1>1, QuotientIs DEF Crit, a

LEMMA MitigateIs == \A raw \in Int : Mitigate(raw, Defense) \in Int
<1> TAKE raw \in Int
<1> DEFINE d == MitigationK + Between(Defense, 0, Defense)
           a == raw * MitigationK
           b == raw * (RateScale - MitigationMax)
           S == {a \div d, b \div RateScale, MinDamage}
           least == Max(S)
<1>1. d \in Nat \ {0} /\ RateScale \in Nat \ {0} /\ a \in Int /\ b \in Int /\ MinDamage \in Int
  BY RatesAre DEF Between
<1>2. Mitigate(raw, Defense) = IF raw <= 0 THEN 0 ELSE IF least > raw THEN raw ELSE least
  BY DEF Mitigate
<1> HIDE DEF a, b, d
<1>3. a \div d \in Int /\ b \div RateScale \in Int BY <1>1, QuotientIs
<1>4. S \in SUBSET Int /\ S # {} /\ IsFiniteSet(S)
  <2> DEFINE u == a \div d
             v == b \div RateScale
  <2> HIDE DEF u, v
  <2>1. IsFiniteSet({} \cup {u}) /\ IsFiniteSet(({} \cup {u}) \cup {v}) /\ IsFiniteSet((({} \cup {u}) \cup {v}) \cup {MinDamage})
    BY FS_EmptySet, FS_AddElement
  <2> QED BY <1>1, <1>3, <2>1 DEF u, v
<1> HIDE DEF S
<1>5. least \in Int
  <2>1. PICK m \in S : \A i \in S : i <= m BY <1>4, GreatestOf
  <2>2. least \in S BY <1>4, <2>1 DEF Max
  <2> QED BY <1>4, <2>2
<1> HIDE DEF least
<1> QED BY <1>2, <1>5

LEMMA SettledAre == \A raw \in Int : Settled(raw) \in SUBSET Int
<1> TAKE raw \in Int
<1>1. Mitigate(raw, Defense) \in Int /\ Mitigate(Crit(raw), Defense) \in Int
  BY CritIs, MitigateIs
<1> QED BY <1>1 DEF Settled

LEMMA OwedFits ==
  ASSUME NEW st \in Fit, NEW f \in Fighters, NEW n \in Nat
  PROVE  [st EXCEPT !.owed[f] = n] \in Fit /\ SameBuffs(st, [st EXCEPT !.owed[f] = n])
<1> DEFINE owed == [st.owed EXCEPT ![f] = n]
           t == [st EXCEPT !.owed[f] = n]
<1>0. /\ st = [roles |-> st.roles, buffs |-> st.buffs, bonus |-> st.bonus, mask |-> st.mask,
                plain |-> st.plain, basis |-> st.basis, flights |-> st.flights, events |-> st.events, owed |-> st.owed]
      /\ st.roles \in [Fighters -> Role] /\ st.buffs \in [Fighters -> Insts]
      /\ st.plain \in [Fighters -> Int] /\ st.basis \in [Fighters -> Int]
      /\ st.bonus \in [Fighters -> Int] /\ st.mask \in [Fighters -> SUBSET Masks]
      /\ st.flights \in Seq(Flight) /\ st.events \in Seq(Event) /\ st.owed \in [Fighters -> Nat]
      /\ DeadAre(st.roles)
  BY SceneIs
<1>1. t = [roles |-> st.roles, buffs |-> st.buffs, bonus |-> st.bonus, mask |-> st.mask,
           plain |-> st.plain, basis |-> st.basis, flights |-> st.flights, events |-> st.events, owed |-> owed]
  <2> DEFINE x == n
  <2> HIDE DEF x
  <2>1. t = [st EXCEPT !.owed[f] = x] BY DEF x
  <2> HIDE DEF t
  <2> QED BY <1>0, <2>1 DEF x
<1>2. owed \in [Fighters -> Nat] BY <1>0
<1> HIDE DEF owed, t
<1>3. t \in Fit BY <1>0, <1>1, <1>2, SceneOf
<1> QED BY <1>1, <1>3, SameIsSame DEF t, SameBuffs

LEMMA DamageFits ==
  ASSUME NEW st \in Fit, NEW source \in Fighters, NEW target \in Fighters, NEW amount \in Int,
         NEW t \in ApplyDamage(st, source, target, amount)
  PROVE  t \in Fit /\ SameBuffs(st, t)
<1>1. CASE amount < 0 \/ target \notin coHere \/ st.roles[target].hp = 0
  BY <1>1, SameIsSame DEF SameBuffs, ApplyDamage
<1>2. CASE ~(amount < 0 \/ target \notin coHere \/ st.roles[target].hp = 0)
  <2>1. PICK hit \in Settled(amount) :
          t = LET absorbed == IF hit < ShieldOf(st, target) THEN hit ELSE ShieldOf(st, target)
                  final == hit - absorbed
                  spent == [st EXCEPT !.buffs[target] = Drained(@, absorbed)]
                  struck == IF final > 0 THEN ModifyHp(spent, target, -final) ELSE spent
                  told == Published(struck, "damage", source, target, final)
              IN IF struck.roles[target].hp = 0
                 THEN [Published(told, "died", source, target, 0) EXCEPT !.owed[target] = @ - 1]
                 ELSE told
    BY <1>2 DEF ApplyDamage
  <2> DEFINE absorbed == IF hit < ShieldOf(st, target) THEN hit ELSE ShieldOf(st, target)
             final == hit - absorbed
             new == Drained(st.buffs[target], absorbed)
             spent == [st EXCEPT !.buffs[target] = new]
             struck == IF final > 0 THEN ModifyHp(spent, target, -final) ELSE spent
             told == Published(struck, "damage", source, target, final)
             died == Published(told, "died", source, target, 0)
  <2>2. t = IF struck.roles[target].hp = 0 THEN [died EXCEPT !.owed[target] = @ - 1] ELSE told
    BY <2>1
  <2>3. hit \in Int BY SettledAre
  <2>4. st.buffs[target] \in Insts /\ st.roles \in [Fighters -> Role] BY SceneIs
  <2>5. absorbed \in Int /\ final \in Int
    <3>1. ShieldOf(st, target) \in Nat
      <4> DEFINE s == st.buffs[target]
      <4>1. s \in Seq(Inst) /\ DOMAIN s \in SUBSET DOMAIN s BY <2>4 DEF Insts
      <4>2. ShieldOf(st, target) = SumFunctionOnSet(ShieldsOf(s), DOMAIN s) BY DEF ShieldOf
      <4> HIDE DEF s
      <4> QED BY <4>1, <4>2, SumOfShields
    <3> QED BY <2>3, <3>1
  <2> HIDE DEF absorbed, final
  <2>6. new \in Insts /\ SameNames(st.buffs[target], new) BY <2>4, <2>5, DrainedFits
  <2> HIDE DEF new
  <2>7. spent \in Fit /\ SameBuffs(st, spent) /\ spent.roles = st.roles BY <2>6, BuffsFit
  <2> HIDE DEF spent
  <2>8. /\ struck \in Fit /\ SameBuffs(st, struck)
        /\ struck.roles[target].hp = 0 => struck.owed[target] \in Nat \ {0}
    <3>1. CASE final > 0
      <4> DEFINE x == -final
      <4>1. x \in Int /\ struck = ModifyHp(spent, target, x) BY <2>5, <3>1
      <4> HIDE DEF x, struck
      <4>2. /\ struck \in Fit /\ SameBuffs(spent, struck) /\ spent.owed[target] \in Nat
            /\ struck.owed[target] = spent.owed[target] + (IF spent.roles[target].hp > 0 /\ struck.roles[target].hp = 0 THEN 1 ELSE 0)
        BY <2>7, <4>1, ModifyFits
      <4>3. spent.roles[target].hp > 0 BY <1>2, <2>4, <2>7 DEF Role
      <4> QED BY <2>7, <4>2, <4>3, BuffsFollow
    <3>2. CASE ~(final > 0) BY <1>2, <2>7, <3>2
    <3> QED BY <3>1, <3>2
  <2> HIDE DEF struck
  <2>9. told \in Fit /\ SameBuffs(st, told) /\ told.owed = struck.owed
    <3> DEFINE kind == "damage"
    <3>0. kind \in Kinds /\ told = Published(struck, kind, source, target, final) BY DEF Kinds
    <3> HIDE DEF kind, told
    <3>1. told \in Fit /\ SameBuffs(struck, told) /\ told.owed = struck.owed
      BY <2>5, <2>8, <3>0, PublishedFits
    <3> HIDE DEF told
    <3> QED BY <2>8, <3>1, BuffsFollow
  <2> HIDE DEF told
  <2>10. died \in Fit /\ SameBuffs(st, died) /\ died.owed = told.owed
    <3>1. died \in Fit /\ SameBuffs(told, died) /\ died.owed = told.owed
      BY <2>9, PublishedFits DEF Kinds
    <3> HIDE DEF died
    <3> QED BY <2>9, <3>1, BuffsFollow
  <2> HIDE DEF died
  <2>11. CASE struck.roles[target].hp = 0
    <3> DEFINE n == died.owed[target] - 1
    <3>1. n \in Nat /\ t = [died EXCEPT !.owed[target] = n] BY <2>2, <2>8, <2>9, <2>10, <2>11
    <3> HIDE DEF n
    <3> QED BY <2>10, <3>1, OwedFits, BuffsFollow
  <2>12. CASE struck.roles[target].hp # 0 BY <2>2, <2>9, <2>12
  <2> QED BY <2>11, <2>12
<1> QED BY <1>1, <1>2

LEMMA HealFits ==
  ASSUME NEW st \in Fit, NEW source \in Fighters, NEW target \in Fighters, NEW amount \in Int,
         NEW t \in ApplyHeal(st, source, target, amount)
  PROVE  t \in Fit /\ SameBuffs(st, t)
<1> DEFINE room == MaxHpWith(st.plain[target], st.bonus[target]) - st.roles[target].hp
           effective(raw) == Between(raw, 0, Between(room, 0, room))
           mended(raw) == IF effective(raw) > 0 THEN ModifyHp(st, target, effective(raw)) ELSE st
<1>1. CASE amount < 0 \/ target \notin coHere \/ st.roles[target].hp = 0
  BY <1>1, SameIsSame DEF SameBuffs, ApplyHeal
<1>2. CASE ~(amount < 0 \/ target \notin coHere \/ st.roles[target].hp = 0)
  <2>1. PICK raw \in {amount, Crit(amount)} :
          t = IF raw > 0 /\ effective(raw) = 0 THEN st
              ELSE Published(mended(raw), "heal", source, target, effective(raw))
    BY <1>2 DEF ApplyHeal
  <2> DEFINE e == effective(raw)
  <2>2. room \in Int
    <3>1. st.plain[target] \in Int /\ st.bonus[target] \in Int /\ st.roles[target].hp \in Nat
      BY SceneIs DEF Role
    <3> DEFINE p == st.plain[target]
               b == st.bonus[target]
               m == MaxHpWith(p, b)
    <3>2. p \in Int /\ b \in Int /\ room = m - st.roles[target].hp BY <3>1
    <3> HIDE DEF p, b, room
    <3>3. m \in Nat BY <3>2, MaxHpIs
    <3> HIDE DEF m
    <3> QED BY <3>1, <3>2, <3>3
  <2>3. raw \in Int BY CritIs
  <2>4. e \in Int
    <3> HIDE DEF room
    <3>1. Between(room, 0, room) \in Nat BY <2>2 DEF Between
    <3> DEFINE hi == Between(room, 0, room)
    <3> HIDE DEF hi
    <3> QED BY <2>3, <3>1 DEF hi, Between
  <2> DEFINE healed == IF e > 0 THEN ModifyHp(st, target, e) ELSE st
  <2>5. t = st \/ t = Published(healed, "heal", source, target, e)
    BY <2>1
  <2> HIDE DEF e
  <2>6. CASE t = st BY <2>6, SameIsSame DEF SameBuffs
  <2>7. CASE t = Published(healed, "heal", source, target, e)
    <3>1. healed \in Fit /\ SameBuffs(st, healed)
      <4>1. CASE e > 0 BY <2>4, <4>1, ModifyFits
      <4>2. CASE ~(e > 0) BY <4>2, SameIsSame DEF SameBuffs
      <4> QED BY <4>1, <4>2
    <3> HIDE DEF healed
    <3>2. t \in Fit /\ SameBuffs(healed, t) BY <2>4, <2>7, <3>1, PublishedFits DEF Kinds
    <3> QED BY <3>1, <3>2, BuffsFollow
  <2> QED BY <2>5, <2>6, <2>7
<1> QED BY <1>1, <1>2

------------------------------------------------------------------------------
(* The effects of skills.                                                   *)
Effect2 == [kind : {"damage", "heal"}, amount : Int]

LEMMA EffectFits ==
  ASSUME NEW st \in Good, NEW caster \in Fighters, NEW target \in Fighters, NEW effect \in Effect2
  PROVE  EffectOn(st, caster, target, effect) \in Good
<1> DEFINE amount == effect.amount
           kind == effect.kind
           told == Published(st, kind, caster, target, amount)
           delta == IF kind = "heal" THEN amount ELSE -amount
           t == EffectOn(st, caster, target, effect)
<1>1. amount \in Int /\ kind \in Kinds /\ delta \in Int /\ st \in Fit
  BY DEF Effect2, Good, Kinds
<1>2. t = IF target \in coHere THEN ModifyHp(told, target, delta) ELSE told BY DEF EffectOn
<1> HIDE DEF amount, kind, delta, t
<1>3. told \in Fit /\ SameBuffs(st, told) BY <1>1, PublishedFits
<1> HIDE DEF told
<1>4. t \in Fit /\ SameBuffs(st, t) BY <1>1, <1>2, <1>3, ModifyFits, BuffsFollow
<1> QED BY <1>4, GoodStays DEF t

LEMMA EffectsFit ==
  ASSUME NEW st \in Good, NEW caster \in Fighters, NEW target \in Fighters, NEW effects \in Seq(Effect2)
  PROVE  EffectsOn(st, caster, target, effects) \in Good
<1> DEFINE N == Len(effects)
           S == Good
           a == st
           F == [x \in (1 .. N) \X S |-> EffectOn(x[2], caster, target, effects[x[1]])]
           IsRun(f) == f = [k \in 0 .. N |-> IF k = 0 THEN a ELSE EffectOn(f[k - 1], caster, target, effects[k])]
           f == CHOOSE f : IsRun(f)
<1>1. EffectsOn(st, caster, target, effects) = f[N] BY DEF EffectsOn
<1>2. N \in Nat /\ a \in S BY LenProperties
<1>3. ASSUME NEW i \in 1 .. N, NEW s \in S PROVE EffectOn(s, caster, target, effects[i]) \in S
  <2> DEFINE E == Effect2
  <2>1. effects \in Seq(E) OBVIOUS
  <2> HIDE DEF E
  <2> QED BY <2>1, ElementOfSeq, EffectFits DEF E
<1> HIDE DEF N, S, a
<1>4. F \in [(1 .. N) \X S -> S] BY <1>3
<1>5. PICK g \in [0 .. N -> S] : Iterated(g, N, a, F)
  <2> HIDE DEF F
  <2> QED BY <1>2, <1>4, Iterates
<1>6. IsRun(g)
  <2>1. ASSUME NEW i \in 1 .. N PROVE g[i] = EffectOn(g[i - 1], caster, target, effects[i])
    <3>1. g[i - 1] \in S BY <1>2
    <3> QED BY <1>5, <3>1 DEF Iterated
  <2>2. g[0] = a BY <1>5 DEF Iterated
  <2> HIDE DEF F
  <2> QED BY <1>2, <1>5, <2>1, <2>2
<1>7. IsRun(f) BY <1>6
<1> HIDE DEF f, F
<1>8. f[0] = a /\ \A i \in 1 .. N : f[i] = EffectOn(f[i - 1], caster, target, effects[i])
  BY <1>2, <1>7
<1>9. \A i \in 0 .. N : f[i] \in S
  <2>1. \A i \in 1 .. N : f[i - 1] \in S => f[i] \in S BY <1>3, <1>8
  <2> QED BY <1>2, <1>8, <2>1, IterationKeeps
<1>10. f[N] \in S BY <1>2, <1>9
<1> QED BY <1>1, <1>10 DEF S

LEMMA ApplyEffectsFit ==
  ASSUME NEW st \in Good, NEW caster \in Fighters, NEW effects \in Seq(Effect2), NEW targets \in Seq(Fighters)
  PROVE  ApplyEffects(st, caster, effects, targets) \in Good
<1> DEFINE N == Len(targets)
           S == Good
           a == st
           F == [x \in (1 .. N) \X S |-> EffectsOn(x[2], caster, targets[x[1]], effects)]
           IsRun(f) == f = [k \in 0 .. N |-> IF k = 0 THEN a ELSE EffectsOn(f[k - 1], caster, targets[k], effects)]
           f == CHOOSE f : IsRun(f)
<1>1. ApplyEffects(st, caster, effects, targets) = f[N] BY DEF ApplyEffects
<1>2. N \in Nat /\ a \in S BY LenProperties
<1>3. ASSUME NEW i \in 1 .. N, NEW s \in S PROVE EffectsOn(s, caster, targets[i], effects) \in S
  BY ElementOfSeq, EffectsFit
<1> HIDE DEF N, S, a
<1>4. F \in [(1 .. N) \X S -> S] BY <1>3
<1>5. PICK g \in [0 .. N -> S] : Iterated(g, N, a, F)
  <2> HIDE DEF F
  <2> QED BY <1>2, <1>4, Iterates
<1>6. IsRun(g)
  <2>1. ASSUME NEW i \in 1 .. N PROVE g[i] = EffectsOn(g[i - 1], caster, targets[i], effects)
    <3>1. g[i - 1] \in S BY <1>2
    <3> QED BY <1>5, <3>1 DEF Iterated
  <2>2. g[0] = a BY <1>5 DEF Iterated
  <2> HIDE DEF F
  <2> QED BY <1>2, <1>5, <2>1, <2>2
<1>7. IsRun(f) BY <1>6
<1> HIDE DEF f, F
<1>8. f[0] = a /\ \A i \in 1 .. N : f[i] = EffectsOn(f[i - 1], caster, targets[i], effects)
  BY <1>2, <1>7
<1>9. \A i \in 0 .. N : f[i] \in S
  <2>1. \A i \in 1 .. N : f[i - 1] \in S => f[i] \in S BY <1>3, <1>8
  <2> QED BY <1>2, <1>8, <2>1, IterationKeeps
<1>10. f[N] \in S BY <1>2, <1>9
<1> QED BY <1>1, <1>10 DEF S

(* The projectiles, the events, who is hostile.                             *)
Cast == [skill : DOMAIN SkillTable, left : Int, targets : Seq(Fighters)]
CastsAre == \A f \in Fighters : coCasts[f] # NoCast => coCasts[f] \in Cast

LEMMA SkillsAre ==
  ASSUME NEW s \in DOMAIN SkillTable
  PROVE  /\ SkillTable[s].aim \in {"self", "single", "shot", "aoe"} /\ SkillTable[s].cast \in Nat
         /\ SkillTable[s].effects \in Seq(Effect2) /\ SkillTable[s].hp \in Int /\ SkillTable[s].mana \in Int
<1> QED BY CombatAssumption DEF CombatAssumption, Effect2

LEMMA FlightsWith ==
  ASSUME NEW st \in Good, NEW new \in Seq(Flight)
  PROVE  [st EXCEPT !.flights = new] \in Good
<1> DEFINE t == [st EXCEPT !.flights = new]
<1>0. /\ st = [roles |-> st.roles, buffs |-> st.buffs, bonus |-> st.bonus, mask |-> st.mask,
                plain |-> st.plain, basis |-> st.basis, flights |-> st.flights, events |-> st.events, owed |-> st.owed]
      /\ st.roles \in [Fighters -> Role] /\ st.buffs \in [Fighters -> Insts]
      /\ st.plain \in [Fighters -> Int] /\ st.basis \in [Fighters -> Int]
      /\ st.bonus \in [Fighters -> Int] /\ st.mask \in [Fighters -> SUBSET Masks]
      /\ st.flights \in Seq(Flight) /\ st.events \in Seq(Event) /\ st.owed \in [Fighters -> Nat]
      /\ DeadAre(st.roles)
  BY SceneIs DEF Good
<1>1. t = [roles |-> st.roles, buffs |-> st.buffs, bonus |-> st.bonus, mask |-> st.mask,
           plain |-> st.plain, basis |-> st.basis, flights |-> new, events |-> st.events, owed |-> st.owed]
  <2> DEFINE x == new
  <2>1. t = [st EXCEPT !.flights = x] BY DEF x
  <2> HIDE DEF x, t
  <2> QED BY <1>0, <2>1 DEF x
<1> HIDE DEF t
<1>2. SameBuffs(st, t) BY <1>1, SameIsSame DEF SameBuffs
<1> QED BY <1>0, <1>1, <1>2, SceneOf, GoodStays DEF t

LEMMA EventsWith ==
  ASSUME NEW st \in Good, NEW new \in Seq(Event)
  PROVE  [st EXCEPT !.events = new] \in Good
<1> DEFINE t == [st EXCEPT !.events = new]
<1>0. /\ st = [roles |-> st.roles, buffs |-> st.buffs, bonus |-> st.bonus, mask |-> st.mask,
                plain |-> st.plain, basis |-> st.basis, flights |-> st.flights, events |-> st.events, owed |-> st.owed]
      /\ st.roles \in [Fighters -> Role] /\ st.buffs \in [Fighters -> Insts]
      /\ st.plain \in [Fighters -> Int] /\ st.basis \in [Fighters -> Int]
      /\ st.bonus \in [Fighters -> Int] /\ st.mask \in [Fighters -> SUBSET Masks]
      /\ st.flights \in Seq(Flight) /\ st.events \in Seq(Event) /\ st.owed \in [Fighters -> Nat]
      /\ DeadAre(st.roles)
  BY SceneIs DEF Good
<1>1. t = [roles |-> st.roles, buffs |-> st.buffs, bonus |-> st.bonus, mask |-> st.mask,
           plain |-> st.plain, basis |-> st.basis, flights |-> st.flights, events |-> new, owed |-> st.owed]
  <2> DEFINE x == new
  <2>1. t = [st EXCEPT !.events = x] BY DEF x
  <2> HIDE DEF x, t
  <2> QED BY <1>0, <2>1 DEF x
<1> HIDE DEF t
<1>2. SameBuffs(st, t) BY <1>1, SameIsSame DEF SameBuffs
<1> QED BY <1>0, <1>1, <1>2, SceneOf, GoodStays DEF t

LEMMA HostileListed ==
  ASSUME coHere \in SUBSET Fighters, NEW f
  PROVE  SetToSeq(Hostile(f)) \in Seq(Fighters)
<1> DEFINE H == Hostile(f)
           c == Cardinality(H)
           h == CHOOSE h \in [1 .. c -> H] : IsInjective(h)
<1>1. H \in SUBSET Fighters /\ IsFiniteSet(H)
  <2>1. H \in SUBSET Fighters /\ IsFiniteSet(Fighters)
    BY CombatAssumption DEF Hostile, CombatAssumption
  <2> HIDE DEF H
  <2> QED BY <2>1, FS_Subset
<1>2. SetToSeq(H) = h BY DEF SetToSeq
<1> HIDE DEF H
<1>3. c \in Nat /\ ExistsBijection(1 .. c, H) BY <1>1, FS_CardinalityType
<1> HIDE DEF c
<1>4. PICK g : g \in Bijection(1 .. c, H) BY <1>3 DEF ExistsBijection
<1>5. h \in [1 .. c -> H] BY <1>4 DEF Bijection, Injection, Surjection, IsInjective
<1> HIDE DEF h
<1>6. h \in Seq(Fighters) BY <1>1, <1>3, <1>5
<1> QED BY <1>2, <1>6 DEF H

LEMMA CastEndFits ==
  ASSUME CastsAre, NEW st \in Good, NEW f \in Fighters
  PROVE  CastEnds(st, f) \in Good
<1>1. CASE f \in CastsDone
  <2> DEFINE c == coCasts[f]
             effects == SkillTable[c.skill].effects
             targets == c.targets
  <2>1. c.skill \in DOMAIN SkillTable /\ targets \in Seq(Fighters)
    BY <1>1 DEF Cast, CastsAre, CastsDone
  <2>2. effects \in Seq(Effect2) BY <2>1, SkillsAre
  <2>3. CastEnds(st, f) = ApplyEffects(st, f, effects, targets) BY <1>1 DEF CastEnds
  <2> HIDE DEF effects, targets
  <2> QED BY <2>1, <2>2, <2>3, ApplyEffectsFit
<1>2. CASE f \notin CastsDone BY <1>2 DEF CastEnds
<1> QED BY <1>1, <1>2

LEMMA CastsFit ==
  ASSUME CastsAre, NEW st \in Good, NEW order \in Seq(Fighters)
  PROVE  CastsEnd(st, order) \in Good
<1> DEFINE N == Len(order)
           S == Good
           a == st
           F == [x \in (1 .. N) \X S |-> CastEnds(x[2], order[x[1]])]
           IsRun(f) == f = [k \in 0 .. N |-> IF k = 0 THEN a ELSE CastEnds(f[k - 1], order[k])]
           f == CHOOSE f : IsRun(f)
<1>1. CastsEnd(st, order) = f[N] BY DEF CastsEnd
<1>2. N \in Nat /\ a \in S BY LenProperties
<1>3. ASSUME NEW i \in 1 .. N, NEW s \in S PROVE CastEnds(s, order[i]) \in S
  BY ElementOfSeq, CastEndFits
<1> HIDE DEF N, S, a
<1>4. F \in [(1 .. N) \X S -> S] BY <1>3
<1>5. PICK g \in [0 .. N -> S] : Iterated(g, N, a, F)
  <2> HIDE DEF F
  <2> QED BY <1>2, <1>4, Iterates
<1>6. IsRun(g)
  <2>1. ASSUME NEW i \in 1 .. N PROVE g[i] = CastEnds(g[i - 1], order[i])
    <3>1. g[i - 1] \in S BY <1>2
    <3> QED BY <1>5, <3>1 DEF Iterated
  <2>2. g[0] = a BY <1>5 DEF Iterated
  <2> HIDE DEF F
  <2> QED BY <1>2, <1>5, <2>1, <2>2
<1>7. IsRun(f) BY <1>6
<1> HIDE DEF f, F
<1>8. f[0] = a /\ \A i \in 1 .. N : f[i] = CastEnds(f[i - 1], order[i]) BY <1>2, <1>7
<1>9. \A i \in 0 .. N : f[i] \in S
  <2>1. \A i \in 1 .. N : f[i - 1] \in S => f[i] \in S BY <1>3, <1>8
  <2> QED BY <1>2, <1>8, <2>1, IterationKeeps
<1>10. f[N] \in S BY <1>2, <1>9
<1> QED BY <1>1, <1>10 DEF S

EachFlightEnds(X, p) == UNION { FlightEnds(z, p) : z \in X }

LEMMA FlightEndFits ==
  ASSUME NEW st \in Good, NEW p \in Flight
  PROVE  FlightEnds(st, p) \in SUBSET Good
<1> DEFINE q == [p EXCEPT !.left = @ - 1]
           further == [st EXCEPT !.flights = Append(@, q)]
           hit == ApplyEffects(st, p.caster, SkillTable[p.skill].effects, << p.target >>)
<1>1. /\ p.caster \in Fighters /\ p.target \in Fighters /\ p.skill \in DOMAIN SkillTable /\ p.left \in Int
      /\ q \in Flight
  BY DEF Flight
<1>2. hit \in Good
  <2> DEFINE effects == SkillTable[p.skill].effects
             targets == << p.target >>
  <2>1. effects \in Seq(Effect2) /\ targets \in Seq(Fighters) BY <1>1, SkillsAre
  <2> HIDE DEF effects, targets
  <2> QED BY <1>1, <2>1, ApplyEffectsFit DEF effects, targets
<1>3. further \in Good
  <2> DEFINE S == Flight
             new == Append(st.flights, q)
  <2>1. st.flights \in Seq(S) /\ q \in S BY <1>1, SceneIs DEF Good
  <2> HIDE DEF S, q
  <2>2. new \in Seq(S) BY <2>1, AppendOf
  <2>3. further = [st EXCEPT !.flights = new] BY SceneIs DEF Good
  <2> HIDE DEF new, further
  <2> QED BY <2>2, <2>3, FlightsWith DEF S
<1>4. FlightEnds(st, p) \in SUBSET {st, hit, further} BY DEF FlightEnds
<1> HIDE DEF hit, further
<1> QED BY <1>2, <1>3, <1>4

LEMMA FlightsFit ==
  ASSUME NEW st \in Good, coFlights \in Seq(Flight)
  PROVE  FlightsEnd(st) \in SUBSET Good
<1> DEFINE N == Len(coFlights)
           S == SUBSET Good
           a == {[st EXCEPT !.flights = << >>]}
           F == [x \in (1 .. N) \X S |-> EachFlightEnds(x[2], coFlights[x[1]])]
           IsRun(f) == f = [k \in 0 .. N |-> IF k = 0 THEN a ELSE EachFlightEnds(f[k - 1], coFlights[k])]
           f == CHOOSE f : IsRun(f)
<1>1. FlightsEnd(st) = f[N] BY DEF FlightsEnd, EachFlightEnds
<1>2. N \in Nat /\ a \in S
  <2>1. Len(coFlights) \in Nat BY LenProperties
  <2>2. << >> \in Seq(Flight) OBVIOUS
  <2> QED BY <2>1, <2>2, FlightsWith
<1>3. ASSUME NEW i \in 1 .. N, NEW s \in S PROVE EachFlightEnds(s, coFlights[i]) \in S
  <2> DEFINE P == Flight
  <2>1. coFlights \in Seq(P) OBVIOUS
  <2> HIDE DEF P
  <2>2. \A z \in s : FlightEnds(z, coFlights[i]) \in SUBSET Good
    BY <2>1, ElementOfSeq, FlightEndFits DEF P
  <2> QED BY <2>2 DEF EachFlightEnds
<1> HIDE DEF N, S, a
<1>4. F \in [(1 .. N) \X S -> S] BY <1>3
<1>5. PICK g \in [0 .. N -> S] : Iterated(g, N, a, F)
  <2> HIDE DEF F
  <2> QED BY <1>2, <1>4, Iterates
<1>6. IsRun(g)
  <2>1. ASSUME NEW i \in 1 .. N PROVE g[i] = EachFlightEnds(g[i - 1], coFlights[i])
    <3>1. g[i - 1] \in S BY <1>2
    <3> QED BY <1>5, <3>1 DEF Iterated
  <2>2. g[0] = a BY <1>5 DEF Iterated
  <2> HIDE DEF F
  <2> QED BY <1>2, <1>5, <2>1, <2>2
<1>7. IsRun(f) BY <1>6
<1> HIDE DEF f, F
<1>8. f[0] = a /\ \A i \in 1 .. N : f[i] = EachFlightEnds(f[i - 1], coFlights[i]) BY <1>2, <1>7
<1>9. \A i \in 0 .. N : f[i] \in S
  <2>1. \A i \in 1 .. N : f[i - 1] \in S => f[i] \in S BY <1>3, <1>8
  <2> QED BY <1>2, <1>8, <2>1, IterationKeeps
<1>10. f[N] \in S BY <1>2, <1>9
<1> QED BY <1>1, <1>10 DEF S

(* The pass over the instances of one character, newest first.              *)
Ticking(f, count, k) ==
  {s \in Fit : /\ count - k <= Len(s.buffs[f]) /\ Len(s.buffs[f]) <= count
               /\ \A g \in Fighters : (g # f \/ Len(s.buffs[f]) = count) => Right(s, g)}

LEMMA LengthsAre ==
  ASSUME NEW st \in Fit, NEW f \in Fighters
  PROVE  /\ st.buffs[f] \in Insts /\ st.buffs[f] \in Seq(Inst)
         /\ Len(st.buffs[f]) \in Nat /\ DOMAIN st.buffs[f] = 1 .. Len(st.buffs[f])
<1> DEFINE a == st.buffs[f]
<1>1. a \in Insts BY SceneIs
<1> HIDE DEF a
<1>2. a \in Seq(Inst) BY <1>1 DEF Insts
<1> QED BY <1>1, <1>2, FewInstances DEF a

LEMMA SameLength ==
  ASSUME NEW st \in Fit, NEW t \in Fit, NEW f \in Fighters, SameBuffs(st, t)
  PROVE  Len(t.buffs[f]) = Len(st.buffs[f])
<1> DEFINE m == Len(st.buffs[f])
           n == Len(t.buffs[f])
<1>1. m \in Nat /\ n \in Nat /\ 1 .. m = 1 .. n BY LengthsAre DEF SameBuffs, SameNames
<1> HIDE DEF m, n
<1> QED BY <1>1 DEF m, n

LEMMA StillTicking ==
  ASSUME NEW f \in Fighters, NEW count \in Nat, NEW k \in 1 .. count,
         NEW s \in Ticking(f, count, k - 1), NEW t \in Fit, SameBuffs(s, t)
  PROVE  t \in Ticking(f, count, k)
<1>1. /\ s \in Fit /\ count - (k - 1) <= Len(s.buffs[f]) /\ Len(s.buffs[f]) <= count
      /\ \A g \in Fighters : (g # f \/ Len(s.buffs[f]) = count) => Right(s, g)
  BY DEF Ticking
<1>2. Len(t.buffs[f]) = Len(s.buffs[f]) /\ Len(s.buffs[f]) \in Nat
  BY <1>1, SameLength, LengthsAre
<1>3. ASSUME NEW g \in Fighters, g # f \/ Len(t.buffs[f]) = count PROVE Right(t, g)
  BY <1>1, <1>2, <1>3, RightStays
<1> QED BY <1>1, <1>2, <1>3 DEF Ticking

LEMMA InstanceTicksOnce ==
  ASSUME NEW f \in Fighters, NEW count \in Nat, NEW k \in 1 .. count,
         NEW s \in Ticking(f, count, k - 1), NEW t \in InstanceTicks(s, f, count + 1 - k)
  PROVE  t \in Ticking(f, count, k)
<1> DEFINE n == count + 1 - k
           a == s.buffs[f]
           i == a[n]
           d == BuffTable[i.buff]
           j == [i EXCEPT !.next = d.every]
           b == [a EXCEPT ![n] = j]
           after == [s EXCEPT !.buffs[f] = b]
           amount == d.amount * i.stacks
<1>1. /\ s \in Fit /\ count - (k - 1) <= Len(a) /\ Len(a) <= count
      /\ \A g \in Fighters : (g # f \/ Len(a) = count) => Right(s, g)
  BY DEF Ticking
<1>2. a \in Insts /\ a \in Seq(Inst) /\ Len(a) \in Nat /\ DOMAIN a = 1 .. Len(a)
  BY <1>1, LengthsAre
<1>3. n \in DOMAIN a BY <1>1, <1>2
<1>4. i \in Inst /\ i.source \in Fighters /\ i.stacks \in Int /\ i.buff \in DOMAIN BuffTable
  <2> HIDE DEF a, n
  <2> QED BY <1>2, <1>3, InstIs
<1>5. d.every \in Int /\ d.amount \in Int BY <1>4, BuffsAre
<1>6. amount \in Int BY <1>4, <1>5
<1>7. t \in IF d.lasts > 0 /\ i.left = 0 THEN {[s EXCEPT !.buffs[f] = RemoveAt(a, n)]}
            ELSE IF d.amount = 0 \/ d.every = 0 \/ i.next > 0 THEN {s}
            ELSE IF d.heals THEN ApplyHeal(after, i.source, f, amount)
            ELSE ApplyDamage(after, i.source, f, amount)
  <2> DEFINE after2 == [s EXCEPT !.buffs[f][n].next = d.every]
  <2>1. [s EXCEPT !.buffs[f] = RemoveAt(@, n)] = [s EXCEPT !.buffs[f] = RemoveAt(a, n)] OBVIOUS
  <2>2. after2 = after OBVIOUS
  <2> HIDE DEF after
  <2> QED BY <2>1, <2>2 DEF InstanceTicks
<1>8. CASE t = [s EXCEPT !.buffs[f] = RemoveAt(a, n)]
  <2> DEFINE new == RemoveAt(a, n)
  <2> HIDE DEF a, n
  <2>1. new \in Insts /\ Len(new) = Len(a) - 1 BY <1>2, <1>3, RemovedFits
  <2>2. t = [s EXCEPT !.buffs[f] = new] BY <1>8
  <2> HIDE DEF new
  <2>3. /\ t \in Fit /\ t.buffs[f] = new /\ t.bonus = s.bonus /\ t.basis = s.basis /\ t.mask = s.mask
        /\ \A g \in Fighters : g # f => t.buffs[g] = s.buffs[g]
    BY <1>1, <2>1, <2>2, BuffsFit
  <2>4. count - k <= Len(t.buffs[f]) /\ Len(t.buffs[f]) <= count /\ Len(t.buffs[f]) # count
    <3> DEFINE l == Len(a)
               m == Len(t.buffs[f])
    <3>1. l \in Int /\ count - (k - 1) <= l /\ l <= count /\ m = l - 1
      <4>1. l \in Int BY <1>2
      <4>2. l <= count BY <1>1
      <4>3. m = l - 1 BY <2>1, <2>3
      <4> QED BY <1>1, <4>1, <4>2, <4>3
    <3> HIDE DEF l, m
    <3> QED BY <3>1 DEF m
  <2> QED BY <1>1, <2>3, <2>4 DEF Ticking, Right
<1>9. after \in Fit /\ SameBuffs(s, after)
  <2>1. j \in Inst /\ j.buff = i.buff
    <3> HIDE DEF i
    <3> QED BY <1>4, <1>5, InstWith
  <2> HIDE DEF a, n, j, i
  <2>2. DOMAIN b = DOMAIN a /\ b = [m \in DOMAIN a |-> b[m]] /\ \A m \in DOMAIN a : b[m] = IF m = n THEN j ELSE a[m]
    BY <1>2
  <2>3. \A m \in DOMAIN a : b[m] \in Inst /\ b[m].buff = a[m].buff
    <3>1. j.buff = a[n].buff BY <2>1 DEF i
    <3> QED BY <1>2, <2>1, <2>2, <3>1, InstIs
  <2> HIDE DEF b
  <2> QED BY <1>1, <1>2, <2>2, <2>3, InstsChange, BuffsFit DEF a
<1> HIDE DEF after, amount
<1>10. CASE t \in ApplyHeal(after, i.source, f, amount) \/ t \in ApplyDamage(after, i.source, f, amount)
  <2> DEFINE source == i.source
  <2>0. source \in Fighters BY <1>4
  <2> HIDE DEF source
  <2>1. t \in Fit /\ SameBuffs(after, t)
    <3>1. CASE t \in ApplyHeal(after, source, f, amount) BY <1>6, <1>9, <2>0, <3>1, HealFits
    <3>2. CASE t \in ApplyDamage(after, source, f, amount) BY <1>6, <1>9, <2>0, <3>2, DamageFits
    <3> QED BY <1>10, <3>1, <3>2 DEF source
  <2> QED BY <1>9, <2>1, BuffsFollow, StillTicking
<1>11. CASE t = s BY <1>1, <1>11, SameIsSame, StillTicking DEF SameBuffs
<1> QED BY <1>7, <1>8, <1>10, <1>11

EachInstanceTicks(X, f, n) == UNION { InstanceTicks(s, f, n) : s \in X }

LEMMA AllTickOnce ==
  ASSUME NEW f \in Fighters, NEW count \in Nat, NEW k \in 1 .. count,
         NEW X \in SUBSET Ticking(f, count, k - 1)
  PROVE  EachInstanceTicks(X, f, count + 1 - k) \in SUBSET Ticking(f, count, k)
BY InstanceTicksOnce DEF EachInstanceTicks

LEMMA CharacterTicksFit ==
  ASSUME NEW st \in Good, NEW f \in Fighters
  PROVE  CharacterTicks(st, f) \in SUBSET Good
<1> DEFINE count == Len(st.buffs[f])
           S == SUBSET Fit
           a == {st}
           T(k) == Ticking(f, count, k)
           F == [x \in (1 .. count) \X S |->
                   IF x[2] \in SUBSET T(x[1] - 1) THEN EachInstanceTicks(x[2], f, count + 1 - x[1]) ELSE {}]
           IsRun(h) == h = [k \in 0 .. count |-> IF k = 0 THEN a ELSE EachInstanceTicks(h[k - 1], f, count + 1 - k)]
           ends == CHOOSE h : IsRun(h)
           GraphOf(h) == [k \in 0 .. count |-> <<k, h[k]>>]
           P == {x \in Nat \X S : x[2] \in SUBSET T(x[1])}
<1>1. CharacterTicks(st, f) = { IF Len(s.buffs[f]) < count THEN Recomputed(s, f) ELSE s : s \in ends[count] }
  BY DEF CharacterTicks, EachInstanceTicks
<1>2. count \in Nat /\ st \in Fit /\ a \in S /\ a \in SUBSET T(0)
  <2>1. count \in Nat /\ st \in Fit BY LengthsAre DEF Good
  <2> QED BY <2>1 DEF Ticking, Good
<1> HIDE DEF count, a
<1>3. ASSUME NEW i \in 1 .. count, NEW X \in SUBSET T(i - 1)
      PROVE  EachInstanceTicks(X, f, count + 1 - i) \in SUBSET T(i) /\ T(i) \in S
  BY <1>2, <1>3, AllTickOnce DEF Ticking
<1> HIDE DEF T
<1>4. F \in [(1 .. count) \X S -> S]
  <2>1. ASSUME NEW x \in (1 .. count) \X S
        PROVE  (IF x[2] \in SUBSET T(x[1] - 1) THEN EachInstanceTicks(x[2], f, count + 1 - x[1]) ELSE {}) \in S
    <3> DEFINE i == x[1]
               X == x[2]
    <3>1. i \in 1 .. count BY <2>1
    <3> HIDE DEF i, X
    <3>2. (IF X \in SUBSET T(i - 1) THEN EachInstanceTicks(X, f, count + 1 - i) ELSE {}) \in S
      BY <1>3, <3>1
    <3> QED BY <3>2 DEF i, X
  <2> QED BY <2>1
<1> HIDE DEF S
<1>5. PICK g \in [0 .. count -> S] : Iterated(g, count, a, F)
  <2> HIDE DEF F
  <2> QED BY <1>2, <1>4, Iterates
<1>6. g[0] = a /\ \A i \in 1 .. count : g[i] = F[<<i, g[i - 1]>>] BY <1>5 DEF Iterated
<1>7. \A i \in 1 .. count : g[i - 1] \in SUBSET T(i - 1) => g[i] = EachInstanceTicks(g[i - 1], f, count + 1 - i)
  <2> TAKE i \in 1 .. count
  <2>1. g[i - 1] \in S BY <1>2
  <2> QED BY <1>6, <2>1
<1> HIDE DEF F
<1>8. ASSUME NEW h, h[0] = a,
             \A i \in 1 .. count : h[i - 1] \in SUBSET T(i - 1) => h[i] = EachInstanceTicks(h[i - 1], f, count + 1 - i)
      PROVE  \A i \in 0 .. count : h[i] \in SUBSET T(i)
  <2> DEFINE b == GraphOf(h)
  <2>1. \A i \in 0 .. count : b[i] = <<i, h[i]>> OBVIOUS
  <2> HIDE DEF b
  <2>2. b[0] \in P
    <3>1. b[0] = <<0, a>> BY <1>2, <1>8, <2>1
    <3> QED BY <1>2, <3>1
  <2>3. ASSUME NEW i \in 1 .. count, b[i - 1] \in P PROVE b[i] \in P
    <3>1. i - 1 \in 0 .. count /\ i \in 0 .. count /\ i \in Nat BY <1>2
    <3>2. b[i - 1] = <<i - 1, h[i - 1]>> /\ b[i] = <<i, h[i]>> BY <2>1, <3>1
    <3>3. h[i] \in SUBSET T(i) /\ T(i) \in S BY <1>3, <1>8, <2>3, <3>2
    <3>4. h[i] \in S BY <3>3 DEF S
    <3> HIDE DEF P
    <3> QED BY <3>1, <3>2, <3>3, <3>4 DEF P
  <2> HIDE DEF P
  <2>4. \A i \in 0 .. count : b[i] \in P BY <1>2, <2>2, <2>3, IterationKeeps
  <2> TAKE i \in 0 .. count
  <2> QED BY <2>1, <2>4 DEF P
<1>9. IsRun(g)
  <2>1. \A i \in 1 .. count : g[i] = EachInstanceTicks(g[i - 1], f, count + 1 - i)
    <3> TAKE i \in 1 .. count
    <3>1. i - 1 \in 0 .. count BY <1>2
    <3> QED BY <1>6, <1>7, <1>8, <3>1
  <2>2. ASSUME NEW k \in 0 .. count PROVE g[k] = IF k = 0 THEN a ELSE EachInstanceTicks(g[k - 1], f, count + 1 - k)
    BY <1>2, <1>6, <2>1
  <2> QED BY <1>5, <2>2
<1>10. IsRun(ends) BY <1>9
<1> HIDE DEF ends
<1>11. ends[0] = a /\ \A i \in 1 .. count : ends[i] = EachInstanceTicks(ends[i - 1], f, count + 1 - i)
  BY <1>2, <1>10
<1>12. ends[count] \in SUBSET T(count)
  <2>1. count \in 0 .. count BY <1>2
  <2> QED BY <1>8, <1>11, <2>1
<1>13. ASSUME NEW s \in ends[count] PROVE (IF Len(s.buffs[f]) < count THEN Recomputed(s, f) ELSE s) \in Good
  <2>1. /\ s \in Fit /\ Len(s.buffs[f]) <= count
        /\ \A g2 \in Fighters : (g2 # f \/ Len(s.buffs[f]) = count) => Right(s, g2)
    BY <1>12 DEF T, Ticking
  <2>2. Len(s.buffs[f]) \in Nat BY <2>1, LengthsAre
  <2>3. CASE Len(s.buffs[f]) < count
    <3> DEFINE t == Recomputed(s, f)
    <3>1. t \in Fit /\ Right(t, f) /\ \A g2 \in Fighters : g2 # f /\ Right(s, g2) => Right(t, g2)
      BY <2>1, RecomputedFits
    <3> HIDE DEF t
    <3> QED BY <2>1, <2>3, <3>1 DEF t, Good
  <2>4. CASE ~(Len(s.buffs[f]) < count) BY <1>2, <2>1, <2>2, <2>4 DEF Good
  <2> QED BY <2>3, <2>4
<1> QED BY <1>1, <1>13

EachCharacterTicks(X, f) == UNION { CharacterTicks(s, f) : s \in X }

LEMMA BuffsTickFit ==
  ASSUME NEW st \in Good, NEW order \in Seq(Fighters)
  PROVE  BuffsTick(st, order) \in SUBSET Good
<1> DEFINE N == Len(order)
           S == SUBSET Good
           a == {st}
           F == [x \in (1 .. N) \X S |-> EachCharacterTicks(x[2], order[x[1]])]
           IsRun(f) == f = [k \in 0 .. N |-> IF k = 0 THEN a ELSE EachCharacterTicks(f[k - 1], order[k])]
           f == CHOOSE f : IsRun(f)
<1>1. BuffsTick(st, order) = f[N] BY DEF BuffsTick, EachCharacterTicks
<1>2. N \in Nat /\ a \in S BY LenProperties
<1>3. ASSUME NEW i \in 1 .. N, NEW s \in S PROVE EachCharacterTicks(s, order[i]) \in S
  <2>1. \A z \in s : CharacterTicks(z, order[i]) \in SUBSET Good
    BY ElementOfSeq, CharacterTicksFit
  <2> QED BY <2>1 DEF EachCharacterTicks
<1> HIDE DEF N, S, a
<1>4. F \in [(1 .. N) \X S -> S] BY <1>3
<1>5. PICK g \in [0 .. N -> S] : Iterated(g, N, a, F)
  <2> HIDE DEF F
  <2> QED BY <1>2, <1>4, Iterates
<1>6. IsRun(g)
  <2>1. ASSUME NEW i \in 1 .. N PROVE g[i] = EachCharacterTicks(g[i - 1], order[i])
    <3>1. g[i - 1] \in S BY <1>2
    <3> QED BY <1>5, <3>1 DEF Iterated
  <2>2. g[0] = a BY <1>5 DEF Iterated
  <2> HIDE DEF F
  <2> QED BY <1>2, <1>5, <2>1, <2>2
<1>7. IsRun(f) BY <1>6
<1> HIDE DEF f, F
<1>8. f[0] = a /\ \A i \in 1 .. N : f[i] = EachCharacterTicks(f[i - 1], order[i]) BY <1>2, <1>7
<1>9. \A i \in 0 .. N : f[i] \in S
  <2>1. \A i \in 1 .. N : f[i - 1] \in S => f[i] \in S BY <1>3, <1>8
  <2> QED BY <1>2, <1>8, <2>1, IterationKeeps
<1>10. f[N] \in S BY <1>2, <1>9
<1> QED BY <1>1, <1>10 DEF S

(* What every step of the fights keeps.                                     *)
Tables ==
  {t \in Seq(Fighters \X Int) : Len(t) <= ThreatCapacity /\ \A m, n \in DOMAIN t : t[m][1] = t[n][1] => m = n}
CombatIInv ==
  /\ Scene2 \in Good
  /\ coHere \in SUBSET Fighters
  /\ coCasts \in [Fighters -> {NoCast} \cup Cast]
  /\ coThreat \in [Fighters -> Tables]

LEMMA SceneBecomes ==
  ASSUME NEW st \in Good, Becomes(st)
  PROVE  Scene2' \in Good
<1>1. st = [roles |-> st.roles, buffs |-> st.buffs, bonus |-> st.bonus, mask |-> st.mask,
                plain |-> st.plain, basis |-> st.basis, flights |-> st.flights, events |-> st.events, owed |-> st.owed]
  BY SceneIs DEF Good
<1>2. Scene2' = st BY <1>1 DEF Scene2, Becomes
<1> QED BY <1>2

LEMMA SceneStays ==
  ASSUME CombatIInv, UNCHANGED << coRoles, coBuffs, coPlain, coBonus, coBasis, coMask, coFlights, coEvents, coOwed >>
  PROVE  Scene2' \in Good
<1> QED BY DEF CombatIInv, Scene2

LEMMA SceneParts ==
  ASSUME CombatIInv
  PROVE  /\ Scene2 \in Good /\ Scene2 \in Fit
         /\ Scene2.roles = coRoles /\ Scene2.buffs = coBuffs /\ Scene2.bonus = coBonus /\ Scene2.mask = coMask
         /\ Scene2.flights = coFlights /\ Scene2.events = coEvents /\ Scene2.owed = coOwed
         /\ Scene2.plain = coPlain /\ Scene2.basis = coBasis
         /\ coPlain \in [Fighters -> Int] /\ coBasis \in [Fighters -> Int]
         /\ coRoles \in [Fighters -> Role] /\ coBuffs \in [Fighters -> Insts] /\ coBonus \in [Fighters -> Int]
         /\ coMask \in [Fighters -> SUBSET Masks] /\ coFlights \in Seq(Flight) /\ coEvents \in Seq(Event)
         /\ coOwed \in [Fighters -> Nat] /\ DeadAre(coRoles)
         /\ CastsAre
<1>1. Scene2 \in Good /\ Scene2 \in Fit BY DEF CombatIInv, Good
<1>2. /\ Scene2.roles = coRoles /\ Scene2.buffs = coBuffs /\ Scene2.bonus = coBonus /\ Scene2.mask = coMask
      /\ Scene2.flights = coFlights /\ Scene2.events = coEvents /\ Scene2.owed = coOwed
      /\ Scene2.plain = coPlain /\ Scene2.basis = coBasis
  BY DEF Scene2
<1> DEFINE s == Scene2
<1>3. s \in Fit BY <1>1
<1> HIDE DEF s
<1>4. CastsAre BY DEF CombatIInv, CastsAre
<1> QED BY <1>1, <1>2, <1>3, <1>4, SceneIs DEF s

LEMMA NoTable == << >> \in Tables
<1>1. 0 <= ThreatCapacity BY CombatAssumption DEF CombatAssumption
<1> QED BY <1>1 DEF Tables

LEMMA ThreatAddedFits ==
  ASSUME NEW table \in Tables, NEW source \in Fighters, NEW amount \in Int
  PROVE  ThreatAdded(table, source, amount) \in Tables
<1> DEFINE known == { n \in DOMAIN table : table[n][1] = source }
           least == CHOOSE n \in DOMAIN table :
                      /\ \A m \in DOMAIN table : table[n][2] <= table[m][2]
                      /\ \A m \in 1 .. (n - 1) : table[m][2] > table[n][2]
           first == Min(known)
           S == Fighters \X Int
           c == Len(table)
           t == ThreatAdded(table, source, amount)
           e == <<source, amount>>
           p == <<source, table[first][2] + amount>>
<1>1. /\ table \in Seq(S) /\ c \in Nat /\ DOMAIN table = 1 .. c /\ c <= ThreatCapacity
      /\ \A m, n \in DOMAIN table : table[m][1] = table[n][1] => m = n
      /\ \A n \in 1 .. c : table[n] \in S /\ table[n][2] \in Int
      /\ ThreatCapacity \in Nat
  <2>1. /\ table \in Seq(S) /\ c <= ThreatCapacity
        /\ \A m, n \in DOMAIN table : table[m][1] = table[n][1] => m = n
    BY DEF Tables
  <2>2. ThreatCapacity \in Nat BY CombatAssumption DEF CombatAssumption
  <2>3. \A x \in S : x[2] \in Int OBVIOUS
  <2> HIDE DEF S
  <2> QED BY <2>1, <2>2, <2>3, LenProperties, ElementOfSeq
<1>2. t = IF known # {} THEN [table EXCEPT ![first] = <<source, @[2] + amount>>]
          ELSE IF c < ThreatCapacity THEN Append(table, e) ELSE [table EXCEPT ![least] = e]
  BY DEF ThreatAdded
<1>3. e \in S /\ e[1] = source OBVIOUS
<1> HIDE DEF least
<1>4. ASSUME NEW u, NEW k, NEW x \in S, u = [table EXCEPT ![k] = x],
             \A n \in DOMAIN table : table[n][1] = x[1] => n = k
      PROVE  u \in Tables
  <2>1. \A n \in 1 .. c : u[n] = IF n = k THEN x ELSE table[n] BY <1>1, <1>4
  <2> HIDE DEF S
  <2>2. u \in [1 .. c -> S] BY <1>1, <1>4
  <2>3. u \in Seq(S) /\ Len(u) = c /\ DOMAIN u = 1 .. c BY <1>1, <2>2
  <2>4. u \in Seq(Fighters \X Int) BY <2>3 DEF S
  <2> QED BY <1>1, <1>4, <2>1, <2>3, <2>4 DEF Tables
<1>5. CASE known # {}
  <2>1. first \in known
    <3>1. known \in SUBSET Nat BY <1>1
    <3> QED BY <1>5, <3>1, LeastOf DEF Min
  <2> HIDE DEF first
  <2>2. p \in S /\ p[1] = source BY <1>1, <2>1
  <2>3. t = [table EXCEPT ![first] = p] BY <1>2, <1>5
  <2>4. \A n \in DOMAIN table : table[n][1] = p[1] => n = first BY <1>1, <2>1, <2>2
  <2> HIDE DEF p, t, S
  <2> QED BY <1>4, <2>2, <2>3, <2>4 DEF t
<1>6. CASE known = {} /\ c < ThreatCapacity
  <2>1. t = Append(table, e) BY <1>2, <1>6
  <2>2. \A n \in DOMAIN table : table[n][1] # source BY <1>6
  <2> HIDE DEF S, e, t
  <2>3. t \in Seq(S) /\ Len(t) = c + 1 /\ \A i \in 1 .. c + 1 : t[i] = IF i = c + 1 THEN e ELSE table[i]
    BY <1>1, <1>3, <2>1, AppendOf
  <2>4. ASSUME NEW m \in 1 .. c + 1, NEW n \in 1 .. c + 1, t[m][1] = t[n][1] PROVE m = n
    <3>1. CASE m = c + 1 /\ n # c + 1 BY <1>1, <1>3, <2>2, <2>3, <2>4, <3>1
    <3>2. CASE m # c + 1 /\ n = c + 1 BY <1>1, <1>3, <2>2, <2>3, <2>4, <3>2
    <3>3. CASE m # c + 1 /\ n # c + 1 BY <1>1, <2>3, <2>4, <3>3
    <3> QED BY <3>1, <3>2, <3>3
  <2>5. Len(t) <= ThreatCapacity BY <1>1, <1>6, <2>3
  <2>6. t \in Seq(Fighters \X Int) BY <2>3 DEF S
  <2> QED BY <2>3, <2>4, <2>5, <2>6, LenProperties DEF Tables, t
<1>7. CASE known = {} /\ ~(c < ThreatCapacity)
  <2>1. t = [table EXCEPT ![least] = e] BY <1>2, <1>7
  <2>2. \A n \in DOMAIN table : table[n][1] = e[1] => n = least BY <1>3, <1>7
  <2> HIDE DEF S, e, t
  <2> QED BY <1>3, <1>4, <2>1, <2>2 DEF t
<1> QED BY <1>5, <1>6, <1>7

------------------------------------------------------------------------------
LEMMA UnmovedFights ==
  ASSUME CombatIInv, UNCHANGED << coBodies, coFlights, coEvents >>,
         coCasts' \in [Fighters -> {NoCast} \cup Cast], coThreat' \in [Fighters -> Tables]
  PROVE  CombatIInv'
<1>1. coHere' = coHere BY DEF coBodies
<1> QED BY <1>1, SceneStays DEF CombatIInv, coBodies

LEMMA FightsWritten ==
  ASSUME CombatIInv, NEW st \in Good, Becomes(st), coHere' = coHere,
         coCasts' \in [Fighters -> {NoCast} \cup Cast], coThreat' \in [Fighters -> Tables]
  PROVE  CombatIInv'
<1> QED BY SceneBecomes DEF CombatIInv

LEMMA LeavingClears ==
  ASSUME CombatIInv, NEW out, LeaveFights(out)
  PROVE  coThreat' \in [Fighters -> Tables]
<1>1. coThreat \in [Fighters -> Tables] BY DEF CombatIInv
<1> QED BY <1>1, NoTable DEF LeaveFights

LEMMA EnterKeeps == ASSUME CombatIInv, NEW f \in Fighters, NEW g \in Fighters, EnterFight(f, g) PROVE CombatIInv'
<1> QED BY UnmovedFights DEF CombatIInv, EnterFight, coSkills

LEMMA LeaveKeeps == ASSUME CombatIInv, NEW f \in Fighters, LeaveFight(f) PROVE CombatIInv'
<1>1. UNCHANGED << coBodies, coFlights, coEvents, coCasts >> /\ LeaveFights({f})
  BY DEF LeaveFight, coSkills
<1> QED BY <1>1, LeavingClears, UnmovedFights DEF CombatIInv

LEMMA InterruptKeeps == ASSUME CombatIInv, NEW f \in Fighters, Interrupt(f) PROVE CombatIInv'
<1>1. UNCHANGED << coBodies, coFlights, coEvents, coThreat >> /\ coCasts' = [coCasts EXCEPT ![f] = NoCast]
  BY DEF Interrupt
<1> QED BY <1>1, UnmovedFights DEF CombatIInv

LEMMA SilenceKeeps == ASSUME CombatIInv, NEW f \in Fighters, NEW b, SetSilenced(f, b) PROVE CombatIInv'
<1> QED BY UnmovedFights DEF CombatIInv, SetSilenced, coFights

LEMMA DepartKeeps == ASSUME CombatIInv, NEW f \in Fighters, Depart(f) PROVE CombatIInv'
<1>1. /\ coHere' = coHere \ {f} /\ coCasts' = [coCasts EXCEPT ![f] = NoCast]
      /\ UNCHANGED << coRoles, coBuffs, coPlain, coBonus, coBasis, coMask, coOwed,
                      coFlights, coThreat, coEvents >>
  BY DEF Depart, coFights
<1> QED BY <1>1, SceneStays DEF CombatIInv

LEMMA RefusalKeeps ==
  ASSUME CombatIInv, NEW f \in Fighters, NEW s, NEW t, CastRefused(f, s, t) PROVE CombatIInv'
<1>1. Scene2 \in Good BY DEF CombatIInv
<1> QED BY <1>1, FightsWritten DEF CombatIInv, CastRefused, NotedAsFighter

(* The cast of a skill.                                                     *)
LEMMA ManaFits ==
  ASSUME NEW st \in Good, NEW f \in Fighters, NEW v \in Int
  PROVE  [st EXCEPT !.roles[f].mp = v] \in Good
<1> DEFINE r == [st.roles[f] EXCEPT !.mp = v]
           roles == [st.roles EXCEPT ![f] = r]
           t == [st EXCEPT !.roles[f].mp = v]
<1>0. /\ st = [roles |-> st.roles, buffs |-> st.buffs, bonus |-> st.bonus, mask |-> st.mask,
                plain |-> st.plain, basis |-> st.basis, flights |-> st.flights, events |-> st.events, owed |-> st.owed]
      /\ st.roles \in [Fighters -> Role] /\ st.buffs \in [Fighters -> Insts]
      /\ st.plain \in [Fighters -> Int] /\ st.basis \in [Fighters -> Int]
      /\ st.bonus \in [Fighters -> Int] /\ st.mask \in [Fighters -> SUBSET Masks]
      /\ st.flights \in Seq(Flight) /\ st.events \in Seq(Event) /\ st.owed \in [Fighters -> Nat]
      /\ DeadAre(st.roles)
  BY SceneIs DEF Good
<1>1. t = [roles |-> roles, buffs |-> st.buffs, bonus |-> st.bonus, mask |-> st.mask,
           plain |-> st.plain, basis |-> st.basis, flights |-> st.flights, events |-> st.events, owed |-> st.owed]
  <2> DEFINE x == r
  <2>1. t = [st EXCEPT !.roles[f] = x] BY DEF x
  <2> HIDE DEF x, t
  <2> QED BY <1>0, <2>1 DEF x
<1>2. r \in Role /\ r.hp = st.roles[f].hp /\ r.dead = st.roles[f].dead
  <2> DEFINE q == st.roles[f]
  <2>1. q \in Role /\ 0 \in Nat BY <1>0
  <2> HIDE DEF q
  <2> QED BY <2>1, RoleWith DEF q
<1> HIDE DEF r, t
<1>3. roles \in [Fighters -> Role] /\ \A g \in Fighters : roles[g].hp = st.roles[g].hp /\ roles[g].dead = st.roles[g].dead
  BY <1>0, <1>2
<1>4. DeadAre(roles) BY <1>0, <1>3 DEF DeadAre
<1> HIDE DEF roles
<1>5. t \in Fit BY <1>0, <1>1, <1>3, <1>4, SceneOf
<1> QED BY <1>1, <1>5, SameIsSame, GoodStays DEF t, SameBuffs

LEMMA PaidFits ==
  ASSUME NEW st \in Good, NEW f \in Fighters, NEW s \in DOMAIN SkillTable
  PROVE  Paid(st, f, s) \in Good
<1> DEFINE v == Between(st.roles[f].mp - SkillTable[s].mana, 0, BaseMp)
           mana == [st EXCEPT !.roles[f].mp = v]
           d == -SkillTable[s].hp
<1>1. st.roles[f].mp \in Int /\ BaseMp \in Nat
  BY SceneIs, CombatAssumption DEF CombatAssumption, Role, Good
<1>2. v \in Int /\ d \in Int BY <1>1, SkillsAre DEF Between
<1>3. Paid(st, f, s) = IF SkillTable[s].hp > 0 THEN ModifyHp(mana, f, d) ELSE mana BY DEF Paid
<1> HIDE DEF v, d
<1>4. mana \in Good BY <1>2, ManaFits
<1> HIDE DEF mana
<1>5. ModifyHp(mana, f, d) \in Fit /\ SameBuffs(mana, ModifyHp(mana, f, d))
  BY <1>2, <1>4, ModifyFits DEF Good
<1> QED BY <1>3, <1>4, <1>5, GoodStays

LEMMA TargetsAre ==
  ASSUME coHere \in SUBSET Fighters, NEW f \in Fighters, NEW s \in DOMAIN SkillTable, NEW t \in Fighters
  PROVE  TargetsOf(f, s, t) \in Seq(Fighters)
<1>1. SkillTable[s].aim \in {"self", "single", "shot", "aoe"} BY SkillsAre
<1> DEFINE listed == SetToSeq(Hostile(f))
<1>2. listed \in Seq(Fighters) BY HostileListed
<1> HIDE DEF listed
<1>3. TargetsOf(f, s, t) \in {<< f >>, << t >>, << >>, listed}
  <2>1. CASE SkillTable[s].aim = "self" BY <2>1 DEF TargetsOf
  <2>2. CASE SkillTable[s].aim \in {"single", "shot"} BY <2>2 DEF TargetsOf
  <2>3. CASE SkillTable[s].aim = "aoe" BY <2>3 DEF TargetsOf, listed
  <2> QED BY <1>1, <2>1, <2>2, <2>3
<1>4. << f >> \in Seq(Fighters) /\ << t >> \in Seq(Fighters) /\ << >> \in Seq(Fighters) OBVIOUS
<1> QED BY <1>2, <1>3, <1>4

LEMMA CastKeeps ==
  ASSUME CombatIInv, NEW f \in Fighters, NEW s \in DOMAIN SkillTable, NEW t \in Fighters, TryCast(f, s, t)
  PROVE  CombatIInv'
<1> DEFINE skill == SkillTable[s]
           targets == TargetsOf(f, s, t)
           paid == Paid(Scene2, f, s)
           shot == [caster |-> f, target |-> t, skill |-> s, left |-> FlightFrames]
           flying == [paid EXCEPT !.flights = Append(@, shot)]
           hit == ApplyEffects(paid, f, skill.effects, targets)
           cast == [skill |-> s, left |-> skill.cast, targets |-> targets]
<1>1. UNCHANGED << coThreat, coHere >> BY DEF TryCast, NotedAsFighter
<1>2. /\ skill.aim \in {"self", "single", "shot", "aoe"} /\ skill.cast \in Nat /\ skill.effects \in Seq(Effect2)
      /\ targets \in Seq(Fighters)
  BY SkillsAre, TargetsAre DEF CombatIInv
<1>3. paid \in Good BY PaidFits DEF CombatIInv
<1>4. \/ Becomes(flying) /\ coCasts' = coCasts
      \/ Becomes(paid) /\ coCasts' = [coCasts EXCEPT ![f] = cast]
      \/ Becomes(hit) /\ coCasts' = coCasts
  <2>1. CASE skill.aim = "shot" BY <2>1 DEF TryCast
  <2>2. CASE skill.aim # "shot" /\ skill.cast > 0 BY <2>2 DEF TryCast
  <2>3. CASE skill.aim # "shot" /\ ~(skill.cast > 0) BY <2>3 DEF TryCast
  <2> QED BY <2>1, <2>2, <2>3
<1> HIDE DEF paid
<1>5. flying \in Good
  <2> DEFINE S == Flight
             new == Append(paid.flights, shot)
  <2>1. FlightFrames \in Int BY CombatAssumption DEF CombatAssumption
  <2>2. paid \in Fit BY <1>3 DEF Good
  <2>3. paid.flights \in Seq(S) /\ shot \in S BY <2>1, <2>2, SceneIs DEF Flight
  <2>4. flying = [paid EXCEPT !.flights = new] BY <2>2, SceneIs
  <2> HIDE DEF S, shot
  <2>5. new \in Seq(S) BY <2>3, AppendOf
  <2> HIDE DEF new, flying
  <2> QED BY <1>3, <2>4, <2>5, FlightsWith DEF S
<1>6. hit \in Good
  <2> DEFINE effects == skill.effects
  <2>1. effects \in Seq(Effect2) BY <1>2
  <2> HIDE DEF effects, targets
  <2> QED BY <1>2, <1>3, <2>1, ApplyEffectsFit DEF effects
<1>7. cast \in Cast
  <2> HIDE DEF targets
  <2> QED BY <1>2 DEF Cast
<1> HIDE DEF flying, hit, cast, targets
<1>8. coCasts \in [Fighters -> {NoCast} \cup Cast] /\ coThreat \in [Fighters -> Tables]
  BY DEF CombatIInv
<1>9. CASE Becomes(flying) /\ coCasts' = coCasts BY <1>1, <1>5, <1>8, <1>9, FightsWritten
<1>10. CASE Becomes(paid) /\ coCasts' = [coCasts EXCEPT ![f] = cast]
  BY <1>1, <1>3, <1>7, <1>8, <1>10, FightsWritten
<1>11. CASE Becomes(hit) /\ coCasts' = coCasts BY <1>1, <1>6, <1>8, <1>11, FightsWritten
<1> QED BY <1>4, <1>9, <1>10, <1>11

------------------------------------------------------------------------------
(* Instances come and go.                                                   *)
LEMMA BuffsWritten ==
  ASSUME NEW st \in Good, NEW f \in Fighters, NEW new \in Insts
  PROVE  /\ Recomputed([st EXCEPT !.buffs[f] = new], f) \in Good
         /\ SameNames(st.buffs[f], new) => [st EXCEPT !.buffs[f] = new] \in Good
<1> DEFINE t == [st EXCEPT !.buffs[f] = new]
           u == Recomputed(t, f)
<1>1. st \in Fit /\ \A g \in Fighters : Right(st, g) BY DEF Good
<1>2. /\ t \in Fit /\ t.bonus = st.bonus /\ t.basis = st.basis /\ t.mask = st.mask /\ \A g \in Fighters : g # f => t.buffs[g] = st.buffs[g]
      /\ SameNames(st.buffs[f], new) => SameBuffs(st, t)
  BY <1>1, BuffsFit
<1> HIDE DEF t
<1>3. u \in Fit /\ Right(u, f) /\ \A g \in Fighters : g # f /\ Right(t, g) => Right(u, g)
  BY <1>2, RecomputedFits
<1>4. \A g \in Fighters : g # f => Right(t, g) BY <1>1, <1>2 DEF Right
<1> HIDE DEF u
<1>5. SameNames(st.buffs[f], new) => t \in Good BY <1>2, GoodStays
<1> QED BY <1>3, <1>4, <1>5 DEF t, u, Good

LEMMA RemoveKeeps ==
  ASSUME CombatIInv, NEW f \in Fighters, NEW b, RemoveBuff(f, b)
  PROVE  CombatIInv'
<1> DEFINE new == WithoutBuff(coBuffs[f], b)
           st == Scene2
           t == Recomputed([st EXCEPT !.buffs[f] = new], f)
<1>1. Becomes(t) /\ UNCHANGED << coHere, coCasts, coThreat >>
  <2>1. /\ Becomes(Recomputed([Scene2 EXCEPT !.buffs[f] = WithoutBuff(@, b)], f))
        /\ UNCHANGED << coHere, coCasts, coThreat >>
    BY DEF RemoveBuff, coSkills, coFights
  <2> QED BY <2>1 DEF Scene2
<1>2. st \in Good /\ coBuffs[f] \in Insts BY SceneParts
<1>3. new \in Insts BY <1>2, WithoutFits
<1> HIDE DEF new, st
<1>4. t \in Good BY <1>2, <1>3, BuffsWritten
<1> HIDE DEF t
<1> QED BY <1>1, <1>4, FightsWritten DEF CombatIInv

(* A level or a piece of gear: another maximum, the buffs' part as it was.   *)
LEMMA RefitKeeps ==
  ASSUME CombatIInv, NEW f \in Fighters, NEW plain \in PlainHps, Refit(f, plain)
  PROVE  CombatIInv'
<1> DEFINE old == coRoles[f]
           n == Between(old.hp, 0, MaxHpWith(plain, coBonus[f]))
           r == [old EXCEPT !.hp = n]
           u == Scene2'
<1>1. /\ coRoles' = [coRoles EXCEPT ![f] = r] /\ coPlain' = [coPlain EXCEPT ![f] = plain]
      /\ UNCHANGED << coHere, coBuffs, coBonus, coBasis, coMask, coOwed, coCasts, coFlights, coThreat, coEvents >>
  BY DEF Refit, coSkills, coFights
<1>2. /\ coRoles \in [Fighters -> Role] /\ coBonus \in [Fighters -> Int] /\ coPlain \in [Fighters -> Int]
      /\ DeadAre(coRoles) /\ plain \in Int
  BY SceneParts, CombatAssumption DEF CombatAssumption
<1>3. old \in Role /\ old.hp \in Nat /\ (old.dead <=> old.hp = 0)
  BY <1>2 DEF Role, DeadAre
<1>4. n \in Nat /\ (n = 0 <=> old.hp = 0)
  <2> DEFINE m == MaxHpWith(plain, coBonus[f])
  <2>1. m \in Nat \ {0} BY <1>2, MaxHpIs
  <2> HIDE DEF m
  <2> QED BY <1>3, <2>1 DEF Between, m
<1> HIDE DEF n, old
<1>5. r \in Role /\ (r.dead <=> r.hp = 0) BY <1>3, <1>4 DEF Role
<1> HIDE DEF r
<1>6. coRoles' \in [Fighters -> Role] /\ DeadAre(coRoles') BY <1>1, <1>2, <1>5 DEF DeadAre
<1>7. coPlain' \in [Fighters -> Int] BY <1>1, <1>2
<1>8. u = [roles |-> coRoles', buffs |-> coBuffs, bonus |-> coBonus, mask |-> coMask, plain |-> coPlain',
           basis |-> coBasis, flights |-> coFlights, events |-> coEvents, owed |-> coOwed]
  BY <1>1 DEF Scene2
<1>9. u \in Fit
  <2> DEFINE roles == coRoles'
             plains == coPlain'
  <2>1. roles \in [Fighters -> Role] /\ DeadAre(roles) /\ plains \in [Fighters -> Int] BY <1>6, <1>7
  <2> HIDE DEF u
  <2>2. u = [roles |-> roles, buffs |-> coBuffs, bonus |-> coBonus, mask |-> coMask, plain |-> plains,
             basis |-> coBasis, flights |-> coFlights, events |-> coEvents, owed |-> coOwed]
    BY <1>8
  <2> HIDE DEF roles, plains
  <2> QED BY <2>1, <2>2, SceneParts, SceneOf
<1> HIDE DEF u
<1>10. SameBuffs(Scene2, u) BY <1>8, SceneParts, SameIsSame DEF SameBuffs
<1>11. u \in Good BY <1>9, <1>10, SceneParts, GoodStays
<1> QED BY <1>1, <1>11 DEF CombatIInv, u

LEMMA DiesWithout ==
  ASSUME NEW st \in Good, NEW f \in Fighters
  PROVE  BuffsOnDeath(st, f) \in Good
<1> DEFINE new == << >>
<1>1. new \in Insts BY NoneFits
<1>2. BuffsOnDeath(st, f) = Recomputed([st EXCEPT !.buffs[f] = new], f) BY DEF BuffsOnDeath
<1> HIDE DEF new
<1> QED BY <1>1, <1>2, BuffsWritten

LEMMA RenewedIs ==
  ASSUME NEW i \in Inst, NEW b \in DOMAIN BuffTable
  PROVE  Renewed(i, BuffTable[b]) \in Inst /\ Renewed(i, BuffTable[b]).buff = i.buff
<1> DEFINE d == BuffTable[b]
           n == IF d.rule = "Refresh" /\ i.stacks < d.most THEN i.stacks + 1 ELSE i.stacks
           l == d.lasts
           r == [i EXCEPT !.left = l]
<1>1. l \in Int /\ n \in Int BY BuffsAre DEF Inst
<1>2. Renewed(i, d) = [r EXCEPT !.stacks = n] BY DEF Renewed, Inst
<1> HIDE DEF l, n
<1>3. r \in Inst /\ r.buff = i.buff BY <1>1, InstWith
<1> HIDE DEF r
<1>4. [r EXCEPT !.stacks = n] \in Inst /\ [r EXCEPT !.stacks = n].buff = r.buff
  BY <1>1, <1>3, InstWith
<1> QED BY <1>2, <1>3, <1>4

LEMMA ApplyBuffKeeps ==
  ASSUME CombatIInv, NEW f \in Fighters, NEW b \in DOMAIN BuffTable, NEW source \in Fighters, ApplyBuff(f, b, source)
  PROVE  CombatIInv'
<1> DEFINE d == BuffTable[b]
           a == coBuffs[f]
           held == PositionsOf(a, b)
           first == Min(held)
           kept == IF held # {} /\ Cardinality(held) >= d.most THEN RemoveAt(a, first) ELSE a
           i == Instance(b, source)
           more == Append(kept, i)
           fresh == Renewed(a[first], d)
           renewed == [a EXCEPT ![first] = fresh]
           st == Scene2
<1>1. UNCHANGED << coHere, coCasts, coThreat >> BY DEF ApplyBuff, coSkills, coFights
<1>2. st \in Good /\ a \in Insts /\ a \in Seq(Inst) /\ st.buffs[f] = a /\ coBuffs \in [Fighters -> Insts]
  BY SceneParts DEF Insts
<1>3. /\ d.most \in Nat /\ d.shield \in Nat /\ d.lasts \in Nat /\ d.every \in Nat /\ Limit(b) \in Nat \ {0}
      /\ d.most # 0 => Limit(b) = d.most
  BY BuffsAre DEF Limit
<1>4. \/ held # {} /\ Becomes([st EXCEPT !.buffs[f] = renewed])
      \/ (held = {} \/ held # {}) /\ (Becomes(Recomputed([st EXCEPT !.buffs[f] = kept], f))
                                         \/ Becomes(Recomputed([st EXCEPT !.buffs[f] = more], f)))
  BY DEF ApplyBuff, Scene2
<1>5. DOMAIN a = 1 .. Len(a) /\ Len(a) \in Nat /\ held \in SUBSET DOMAIN a /\ Cardinality(held) \in Nat
      /\ Cardinality(held) <= Limit(b)
  <2> HIDE DEF a
  <2> QED BY <1>2, FewInstances DEF Insts
<1>6. ASSUME held # {} PROVE first \in held
  <2> HIDE DEF held
  <2>1. \E m \in held : \A n \in held : m <= n BY <1>5, <1>6, LeastOf
  <2> QED BY <2>1 DEF Min
<1> HIDE DEF first, st
<1>7. ASSUME held # {} PROVE renewed \in Insts /\ SameNames(a, renewed)
  <2> DEFINE q == a[first]
  <2>1. first \in DOMAIN a /\ q \in Inst
    <3>1. first \in DOMAIN a BY <1>5, <1>6, <1>7
    <3> HIDE DEF a
    <3> QED BY <1>2, <3>1, InstIs
  <2> HIDE DEF q
  <2>2. fresh \in Inst /\ fresh.buff = q.buff BY <2>1, RenewedIs DEF q
  <2> HIDE DEF fresh
  <2>3. DOMAIN renewed = DOMAIN a /\ renewed = [n \in DOMAIN a |-> renewed[n]]
        /\ \A n \in DOMAIN a : renewed[n] = IF n = first THEN fresh ELSE a[n]
    <3>1. a = [n \in DOMAIN a |-> a[n]] BY <1>2
    <3> HIDE DEF a
    <3> QED BY <3>1
  <2> HIDE DEF renewed
  <2>4. \A n \in DOMAIN a : renewed[n] \in Inst /\ renewed[n].buff = a[n].buff
    <3>1. \A n \in DOMAIN a : a[n] \in Inst
      <4> HIDE DEF a
      <4> QED BY <1>2, InstIs
    <3> QED BY <2>2, <2>3, <3>1 DEF q
  <2> HIDE DEF a
  <2> QED BY <1>2, <2>3, <2>4, InstsChange
<1>8. /\ kept \in Insts
      /\ Cardinality(PositionsOf(kept, b)) < Limit(b)
  <2>1. CASE held # {} /\ Cardinality(held) >= d.most
    <3>1. kept = RemoveAt(a, first) /\ first \in held /\ first \in DOMAIN a BY <1>5, <1>6, <2>1
    <3> DEFINE t == RemoveAt(a, first)
    <3>2. t \in Insts /\ Cardinality(PositionsOf(t, b)) < Cardinality(held)
      <4> HIDE DEF a
      <4> QED BY <1>2, <3>1, RemovedFits
    <3>3. t \in Seq(Inst) BY <3>2 DEF Insts
    <3> HIDE DEF t, held
    <3>4. Cardinality(PositionsOf(t, b)) < Limit(b) BY <1>3, <1>5, <3>2, <3>3, FewInstances
    <3> QED BY <3>1, <3>2, <3>4 DEF t
  <2>2. CASE held = {}
    <3>1. kept = a /\ Cardinality(held) = 0 BY <2>2, FS_EmptySet
    <3> QED BY <1>2, <1>3, <3>1
  <2>3. CASE held # {} /\ ~(Cardinality(held) >= d.most)
    <3>1. Cardinality(held) < Limit(b) BY <1>3, <1>5, <2>3
    <3> QED BY <1>2, <2>3, <3>1
  <2> QED BY <2>1, <2>2, <2>3
<1>9. i \in Inst /\ i.buff = b BY <1>3 DEF Inst, Instance
<1> HIDE DEF kept, i
<1>10. more \in Insts BY <1>8, <1>9, OneMoreFits
<1> HIDE DEF more, renewed, a
<1>11. CASE held # {} /\ Becomes([st EXCEPT !.buffs[f] = renewed])
  <2> DEFINE t == [st EXCEPT !.buffs[f] = renewed]
  <2>1. t \in Good BY <1>2, <1>7, <1>11, BuffsWritten
  <2>2. Becomes(t) BY <1>11
  <2> HIDE DEF t
  <2> QED BY <1>1, <2>1, <2>2, FightsWritten DEF CombatIInv
<1>12. ASSUME NEW new \in Insts, Becomes(Recomputed([st EXCEPT !.buffs[f] = new], f)) PROVE CombatIInv'
  <2> DEFINE t == Recomputed([st EXCEPT !.buffs[f] = new], f)
  <2>1. t \in Good BY <1>2, <1>12, BuffsWritten
  <2>2. Becomes(t) BY <1>12
  <2> HIDE DEF t
  <2> QED BY <1>1, <2>1, <2>2, FightsWritten DEF CombatIInv
<1> QED BY <1>4, <1>8, <1>10, <1>11, <1>12

(* The bus hands over an event.                                             *)
LEMMA DeliveryKeeps == ASSUME CombatIInv, DeliverEvent PROVE CombatIInv'
<1> DEFINE e == Head(coEvents)
           left == Tail(coEvents)
           amount == IF e.kind = "heal" THEN e.amount \div 2 ELSE e.amount
           st == Scene2
           told == [st EXCEPT !.events = left]
<1>1. e \in Event /\ left \in Seq(Event)
  <2> DEFINE S == Event
  <2>1. coEvents \in Seq(S) /\ coEvents # << >> BY SceneParts DEF DeliverEvent
  <2> HIDE DEF S
  <2> QED BY <2>1, TailOf DEF S
<1>2. e.source \in Fighters /\ e.target \in Fighters /\ e.amount \in Int
  <2> HIDE DEF e
  <2> QED BY <1>1 DEF Event
<1>3. amount \in Int
  <2> DEFINE n == e.amount
  <2>1. n \in Int BY <1>2
  <2> HIDE DEF n
  <2> QED BY <1>2, <2>1 DEF n
<1>4. UNCHANGED << coHere, coCasts >> BY DEF DeliverEvent, coSkills
<1>5. \/ /\ Becomes(told)
         /\ coThreat' = IF e.target \in coKnown
                        THEN [coThreat EXCEPT ![e.target] = ThreatAdded(@, e.source, amount)] ELSE coThreat
      \/ Becomes(BuffsOnDeath(told, e.target)) /\ LeaveFights({e.target})
      \/ Becomes(told) /\ coThreat' = coThreat
  BY DEF DeliverEvent
<1>6. st \in Good /\ coCasts \in [Fighters -> {NoCast} \cup Cast] /\ coThreat \in [Fighters -> Tables]
  BY DEF CombatIInv
<1> HIDE DEF left, st, e, amount
<1>7. told \in Good BY <1>1, <1>6, EventsWith
<1> HIDE DEF told
<1>8. [coThreat EXCEPT ![e.target] = ThreatAdded(@, e.source, amount)] \in [Fighters -> Tables]
  <2> DEFINE t == ThreatAdded(coThreat[e.target], e.source, amount)
  <2>1. t \in Tables BY <1>2, <1>3, <1>6, ThreatAddedFits
  <2> HIDE DEF t
  <2> QED BY <1>6, <2>1 DEF t
<1>9. CASE Becomes(told) /\ coThreat' \in [Fighters -> Tables]
  BY <1>4, <1>6, <1>7, <1>9, FightsWritten
<1>10. CASE Becomes(BuffsOnDeath(told, e.target)) /\ LeaveFights({e.target})
  <2> DEFINE t == BuffsOnDeath(told, e.target)
  <2>1. t \in Good BY <1>2, <1>7, DiesWithout
  <2>2. Becomes(t) BY <1>10
  <2>3. coThreat' \in [Fighters -> Tables] BY <1>10, LeavingClears
  <2> HIDE DEF t
  <2> QED BY <1>4, <1>6, <2>1, <2>2, <2>3, FightsWritten
<1> QED BY <1>5, <1>6, <1>8, <1>9, <1>10

------------------------------------------------------------------------------
(* A frame.                                                                 *)
OneFrameOlder(i) == [i EXCEPT !.left = Sooner(@), !.next = Sooner(@)]
Aging == [Scene2 EXCEPT !.buffs = [f \in Fighters |-> [n \in DOMAIN coBuffs[f] |-> OneFrameOlder(coBuffs[f][n])]]]

LEMMA OlderIs == ASSUME NEW i \in Inst PROVE OneFrameOlder(i) \in Inst /\ OneFrameOlder(i).buff = i.buff
<1> DEFINE l == Sooner(i.left)
           n == Sooner(i.next)
           r == [i EXCEPT !.left = l]
<1>1. l \in Int /\ n \in Int BY DEF Inst, Sooner
<1>2. OneFrameOlder(i) = [r EXCEPT !.next = n] BY DEF OneFrameOlder, Inst
<1> HIDE DEF l, n
<1>3. r \in Inst /\ r.buff = i.buff BY <1>1, InstWith
<1> HIDE DEF r
<1>4. [r EXCEPT !.next = n] \in Inst /\ [r EXCEPT !.next = n].buff = r.buff
  BY <1>1, <1>3, InstWith
<1> QED BY <1>2, <1>3, <1>4

LEMMA AgingFits == ASSUME CombatIInv PROVE Aging \in Good
<1> DEFINE st == Scene2
           aged(f) == [n \in DOMAIN coBuffs[f] |-> OneFrameOlder(coBuffs[f][n])]
           buffs == [f \in Fighters |-> aged(f)]
           t == Aging
<1>1. st \in Good /\ st \in Fit /\ st.buffs = coBuffs /\ coBuffs \in [Fighters -> Insts]
  BY SceneParts
<1>2. t = [st EXCEPT !.buffs = buffs] BY DEF Aging
<1>3. ASSUME NEW f \in Fighters PROVE aged(f) \in Insts /\ SameNames(coBuffs[f], aged(f))
  <2> DEFINE a == coBuffs[f]
             b == aged(f)
  <2>1. a \in Insts /\ a \in Seq(Inst) BY <1>1 DEF Insts
  <2>2. DOMAIN b = DOMAIN a /\ b = [n \in DOMAIN a |-> b[n]] /\ \A n \in DOMAIN a : b[n] = OneFrameOlder(a[n])
    OBVIOUS
  <2> HIDE DEF a, b
  <2>3. b \in Insts /\ SameNames(a, b) BY <2>1, <2>2, InstIs, OlderIs, InstsChange
  <2> QED BY <2>3 DEF a, b
<1> HIDE DEF st, t, aged
<1>4. buffs \in [Fighters -> Insts] /\ \A f \in Fighters : SameNames(st.buffs[f], buffs[f])
  BY <1>1, <1>3
<1> HIDE DEF buffs
<1>5. /\ st = [roles |-> st.roles, buffs |-> st.buffs, bonus |-> st.bonus, mask |-> st.mask,
                plain |-> st.plain, basis |-> st.basis, flights |-> st.flights, events |-> st.events, owed |-> st.owed]
      /\ st.roles \in [Fighters -> Role] /\ st.buffs \in [Fighters -> Insts]
      /\ st.plain \in [Fighters -> Int] /\ st.basis \in [Fighters -> Int]
      /\ st.bonus \in [Fighters -> Int] /\ st.mask \in [Fighters -> SUBSET Masks]
      /\ st.flights \in Seq(Flight) /\ st.events \in Seq(Event) /\ st.owed \in [Fighters -> Nat]
      /\ DeadAre(st.roles)
  BY <1>1, SceneIs
<1>6. t = [roles |-> st.roles, buffs |-> buffs, bonus |-> st.bonus, mask |-> st.mask,
                plain |-> st.plain, basis |-> st.basis, flights |-> st.flights, events |-> st.events, owed |-> st.owed]
  BY <1>2, <1>5
<1>7. t \in Fit BY <1>4, <1>5, <1>6, SceneOf
<1> QED BY <1>1, <1>4, <1>6, <1>7, GoodStays DEF t, SameBuffs

LEMMA FrameKeeps == ASSUME CombatIInv, FightFrame PROVE CombatIInv'
<1>1. PICK out : LeaveFights(out) BY DEF FightFrame
<1>2. /\ coHere' = coHere
      /\ coCasts' = [f \in Fighters |->
                        IF f \in CastsDone THEN NoCast
                        ELSE IF coCasts[f] = NoCast THEN NoCast ELSE [coCasts[f] EXCEPT !.left = @ - 1]]
  BY DEF FightFrame
<1>3. PICK order \in SetToSeqs(Fighters) : \E flown \in FlightsEnd(CastsEnd(Aging, order)) :
         \E st \in BuffsTick(flown, order) : Becomes(st)
  BY DEF FightFrame, Aging, OneFrameOlder
<1>4. order \in Seq(Fighters) BY CombatAssumption, ListedOnce DEF CombatAssumption
<1> DEFINE aged == Aging
           cast == CastsEnd(aged, order)
<1>5. aged \in Good /\ CastsAre /\ coFlights \in Seq(Flight) BY AgingFits, SceneParts
<1>6. PICK flown \in FlightsEnd(cast) : \E st \in BuffsTick(flown, order) : Becomes(st) BY <1>3
<1> HIDE DEF aged
<1>7. cast \in Good BY <1>4, <1>5, CastsFit
<1> HIDE DEF cast
<1>8. flown \in Good BY <1>5, <1>6, <1>7, FlightsFit
<1>9. PICK st \in BuffsTick(flown, order) : Becomes(st) BY <1>6
<1>10. st \in Good BY <1>4, <1>8, <1>9, BuffsTickFit
<1>11. coCasts' \in [Fighters -> {NoCast} \cup Cast]
  <2>1. ASSUME NEW f \in Fighters, coCasts[f] # NoCast PROVE [coCasts[f] EXCEPT !.left = @ - 1] \in Cast
    <3> DEFINE c == coCasts[f]
    <3>1. c \in Cast BY <2>1 DEF CombatIInv
    <3> HIDE DEF c
    <3> QED BY <3>1 DEF c, Cast
  <2> QED BY <1>2, <2>1
<1>12. coThreat' \in [Fighters -> Tables] BY <1>1, LeavingClears
<1> QED BY <1>2, <1>9, <1>10, <1>11, <1>12, FightsWritten

------------------------------------------------------------------------------
LEMMA CombatStart == CombatInit => CombatIInv
<1> SUFFICES ASSUME CombatInit PROVE CombatIInv OBVIOUS
<1>1. BonusOf(<< >>, BaseHp) = 0 /\ MaskOf(<< >>) = {}
  <2>1. DOMAIN << >> = {} OBVIOUS
  <2> DEFINE f == [n \in DOMAIN << >> |-> Gain(<< >>[n].buff, BaseHp)]
  <2>2. BonusOf(<< >>, BaseHp) = Sum(f, {}) BY <2>1 DEF BonusOf, Sum
  <2> HIDE DEF f
  <2>3. MaskOf(<< >>) = {} BY <2>1 DEF MaskOf
  <2> QED BY <2>2, <2>3, FS_EmptySet, SumOfZeros
<1>2. BaseHp \in Nat \ {0} /\ BaseMp \in Nat BY CombatAssumption DEF CombatAssumption
<1> DEFINE role == [hp |-> BaseHp, mp |-> BaseMp, dead |-> FALSE]
<1>3. role \in Role /\ role.hp # 0 /\ ~role.dead BY <1>2 DEF Role
<1> HIDE DEF role
<1>4. coRoles = [f \in Fighters |-> role] BY DEF CombatInit, role
<1>5. coRoles \in [Fighters -> Role] /\ DeadAre(coRoles) BY <1>3, <1>4 DEF DeadAre
<1>6. coBuffs = [f \in Fighters |-> << >>] /\ coBuffs \in [Fighters -> Insts]
  BY NoneFits DEF CombatInit
<1>7. /\ coBonus = [f \in Fighters |-> 0] /\ coBonus \in [Fighters -> Int]
      /\ coBasis = [f \in Fighters |-> BaseHp] /\ coBasis \in [Fighters -> Int] /\ coPlain \in [Fighters -> Int]
  BY <1>2 DEF CombatInit
<1>8. coMask = [f \in Fighters |-> {}] /\ coMask \in [Fighters -> SUBSET Masks]
  BY DEF CombatInit
<1>9. coFlights \in Seq(Flight) /\ coEvents \in Seq(Event) BY DEF CombatInit
<1>10. Scene2 \in Fit BY <1>5, <1>6, <1>7, <1>8, <1>9, SceneOf DEF Scene2, CombatInit
<1>11. \A f \in Fighters : Right(Scene2, f) BY <1>1, <1>6, <1>7, <1>8 DEF Right, Scene2
<1>12. coThreat \in [Fighters -> Tables] BY NoTable DEF CombatInit
<1> QED BY <1>10, <1>11, <1>12 DEF CombatIInv, Good, CombatInit

LEMMA CombatSteps == CombatIInv /\ [CombatNext]_combatVars => CombatIInv'
<1> SUFFICES ASSUME CombatIInv, [CombatNext]_combatVars PROVE CombatIInv' OBVIOUS
<1>1. CASE UNCHANGED combatVars
  BY <1>1, UnmovedFights DEF CombatIInv, combatVars, coSkills, coFights
<1>2. CASE \E f, g \in Fighters : EnterFight(f, g) BY <1>2, EnterKeeps
<1>3. CASE \E f \in Fighters : LeaveFight(f) \/ Interrupt(f) \/ Depart(f)
  BY <1>3, LeaveKeeps, InterruptKeeps, DepartKeeps
<1>4. CASE \E f \in Fighters, silenced \in BOOLEAN : SetSilenced(f, silenced)
  BY <1>4, SilenceKeeps
<1>5. CASE \E f, g \in Fighters, s \in DOMAIN SkillTable : CastRefused(f, s, g)
  BY <1>5, RefusalKeeps
<1>6. CASE \E f, g \in Fighters, s \in DOMAIN SkillTable : TryCast(f, s, g) BY <1>6, CastKeeps
<1>7. CASE \E f, g \in Fighters, b \in DOMAIN BuffTable : ApplyBuff(f, b, g)
  BY <1>7, ApplyBuffKeeps
<1>8. CASE \E f \in Fighters, b \in DOMAIN BuffTable : RemoveBuff(f, b) BY <1>8, RemoveKeeps
<1>9. CASE \E f \in Fighters, plain \in PlainHps : Refit(f, plain) BY <1>9, RefitKeeps
<1> QED BY <1>1, <1>2, <1>3, <1>4, <1>5, <1>6, <1>7, <1>8, <1>9, FrameKeeps, DeliveryKeeps DEF CombatNext

LEMMA CombatSafe == CombatIInv => BuffsAddUp /\ ObituariesAreDeaths
<1> SUFFICES ASSUME CombatIInv PROVE BuffsAddUp /\ ObituariesAreDeaths OBVIOUS
<1>1. ASSUME NEW f \in Fighters
      PROVE  /\ coBonus[f] = BonusOf(coBuffs[f], coBasis[f]) /\ coMask[f] = MaskOf(coBuffs[f])
             /\ coBuffs[f] \in Insts /\ coOwed[f] >= 0 /\ (coRoles[f].dead <=> coRoles[f].hp = 0)
             /\ coThreat[f] \in Tables
  <2>1. coBonus[f] = BonusOf(coBuffs[f], coBasis[f]) /\ coMask[f] = MaskOf(coBuffs[f])
    BY SceneParts DEF Right, CombatIInv, Good
  <2>2. coThreat[f] \in Tables BY DEF CombatIInv
  <2> QED BY <2>1, <2>2, SceneParts DEF DeadAre
<1>2. ASSUME NEW f \in Fighters, NEW n \in DOMAIN coBuffs[f]
      PROVE  coBuffs[f][n].shield \in 0 .. BuffTable[coBuffs[f][n].buff].shield
  <2> DEFINE a == coBuffs[f]
  <2>1. a \in Seq(Inst) BY <1>1 DEF Insts
  <2> HIDE DEF a
  <2>2. ASSUME NEW m \in DOMAIN a PROVE a[m].shield \in 0 .. BuffTable[a[m].buff].shield
    <3>1. a[m].shield \in Nat /\ a[m].shield <= BuffTable[a[m].buff].shield /\ a[m].buff \in DOMAIN BuffTable
      BY <2>1, InstIs
    <3> QED BY <3>1, BuffsAre
  <2> QED BY <2>2 DEF a
<1>3. ASSUME NEW f \in Fighters, NEW b \in DOMAIN BuffTable
      PROVE  Cardinality(PositionsOf(coBuffs[f], b)) <= IF BuffTable[b].most = 0 THEN 1 ELSE BuffTable[b].most
  BY <1>1 DEF Insts, Limit
<1>4. ASSUME NEW f \in Fighters
      PROVE  /\ Len(coThreat[f]) <= ThreatCapacity
             /\ \A m, n \in DOMAIN coThreat[f] : coThreat[f][m][1] = coThreat[f][n][1] => m = n
  BY <1>1 DEF Tables
<1>5. ObituariesAreDeaths BY <1>1 DEF ObituariesAreDeaths
<1> QED BY <1>1, <1>2, <1>3, <1>4, <1>5 DEF BuffsAddUp

------------------------------------------------------------------------------
(* The systems side by side.  A step of the game is a step of a part of one *)
(* of them and leaves the variables of the others alone.                    *)

SocialIInv == PartyIInv /\ GuildIInv /\ FriendIInv /\ MailIInv
GameIInv ==
  /\ SocialIInv /\ QuestIInv /\ WorldIInv /\ CreaturesIInv /\ CombatIInv
  /\ CharactersIInv /\ SchedulerIInv /\ LoopIInv /\ TableIInv

LEMMA GameStarts == GameInit => GameIInv
<1> SUFFICES ASSUME GameInit PROVE GameIInv OBVIOUS
<1>1. /\ SocialInit /\ QuestsInit /\ WorldInit /\ CreaturesInit /\ CombatInit
      /\ CharactersInit /\ SimulationInit /\ IdempotencyInit
  BY DEF GameInit
<1>2. SocialIInv BY <1>1, PartiesStart, GuildsStart, FriendsStart, MailsStart DEF SocialIInv
<1> QED BY <1>1, <1>2, QuestsStart, WorldStart, CreaturesStart, CombatStart, CharactersStart,
           SchedulerStarts, LoopStarts, InitHolds DEF GameIInv

GameStep ==
  /\ [PartiesNext]_partyVars /\ [GuildsNext]_guildVars
  /\ [FriendsNext]_friendVars /\ [MailsNext]_mailVars
  /\ [QuestsNext]_questVars /\ [WorldNext]_worldVars
  /\ [CreaturesNext]_creatureVars /\ [CombatNext]_combatVars
  /\ [CharactersNext]_charVars /\ [SchedulerNext]_smVars
  /\ [FramesNext]_glVars /\ [RecoveryNext]_rcVars /\ [IdempotencyNext]_idVars

LEMMA SocialApart ==
  /\ UNCHANGED socialVars => UNCHANGED <<partyVars, guildVars, friendVars, mailVars>>
  /\ PartiesNext => UNCHANGED <<guildVars, friendVars, mailVars>>
  /\ GuildsNext => UNCHANGED <<partyVars, friendVars, mailVars>>
  /\ FriendsNext => UNCHANGED <<partyVars, guildVars, mailVars>>
  /\ MailsNext => UNCHANGED <<partyVars, guildVars, friendVars>>
BY DEF socialVars, PartiesNext, GuildsNext, FriendsNext, MailsNext

LEMMA SimulationApart ==
  /\ UNCHANGED simVars => UNCHANGED <<smVars, glVars, rcVars>>
  /\ SchedulerNext => UNCHANGED <<glVars, rcVars>>
  /\ FramesNext => UNCHANGED <<smVars, rcVars>>
  /\ RecoveryNext => UNCHANGED <<smVars, glVars>>
BY DEF simVars, SchedulerNext, FramesNext, RecoveryNext

LEMMA OneSystemMoves == [GameNext]_gameVars => GameStep
<1> SUFFICES ASSUME [GameNext]_gameVars PROVE GameStep OBVIOUS
<1>1. CASE OnSocial
  BY <1>1, SocialApart, SimulationApart DEF OnSocial, GameStep, fightVars, driverVars
<1>2. CASE OnQuests
  BY <1>2, SocialApart, SimulationApart DEF OnQuests, GameStep, fightVars, driverVars
<1>3. CASE OnPlayers
  BY <1>3, SocialApart, SimulationApart DEF OnPlayers, WorldNext, GameStep, fightVars, driverVars
<1>4. CASE OnInstances(InstancesNext)
  BY <1>4, SocialApart, SimulationApart DEF OnInstances, WorldNext, GameStep, fightVars, driverVars
<1>5. CASE OnCreatures
  BY <1>5, SocialApart, SimulationApart DEF OnCreatures, GameStep, playVars, driverVars
<1>6. CASE OnCombat
  BY <1>6, SocialApart, SimulationApart DEF OnCombat, GameStep, playVars, driverVars
<1>7. CASE OnCharacters
  BY <1>7, SocialApart, SimulationApart DEF OnCharacters, GameStep, playVars, fightVars, driverVars
<1>8. CASE OnSimulation
  BY <1>8, SocialApart, SimulationApart DEF OnSimulation, GameStep, playVars, fightVars
<1>9. CASE OnKeys
  BY <1>9, SocialApart, SimulationApart DEF OnKeys, GameStep, playVars, fightVars
<1>10. CASE UNCHANGED gameVars
  BY <1>10, SocialApart, SimulationApart DEF gameVars, GameStep, playVars, fightVars, driverVars
<1> QED BY <1>1, <1>2, <1>3, <1>4, <1>5, <1>6, <1>7, <1>8, <1>9, <1>10 DEF GameNext

LEMMA GameSteps == GameIInv /\ [GameNext]_gameVars => GameIInv'
<1> SUFFICES ASSUME GameIInv, [GameNext]_gameVars PROVE GameIInv' OBVIOUS
<1>1. GameStep BY OneSystemMoves
<1>2. SocialIInv'
  BY <1>1, PartySteps, GuildSteps, FriendSteps, MailSteps DEF GameIInv, GameStep, SocialIInv
<1>3. QuestIInv' /\ WorldIInv' /\ CreaturesIInv'
  BY <1>1, QuestsSteps, WorldSteps, CreaturesSteps DEF GameIInv, GameStep
<1>4. SchedulerIInv' /\ LoopIInv' /\ TableIInv'
  BY <1>1, SchedulerSteps, LoopSteps, NextKeeps DEF GameIInv, GameStep
<1> QED BY <1>1, <1>2, <1>3, <1>4, CombatSteps, CharactersSteps DEF GameIInv, GameStep

(* The inductive invariant of the whole game node.                          *)
LEMMA GameInvariant == GameSpec => []GameIInv
BY GameStarts, GameSteps, PTL DEF GameSpec

(* For any number of players, limits, definitions, items and calls, what    *)
(* the players hold is what was earned: groups keep their limits, the store *)
(* follows memory, a reward and a mail's grant come once, an item is in one *)
(* place, levels are paid for, saves are not forgotten, and a command whose *)
(* key was never seen expired takes effect at most once.                    *)
THEOREM PlayersServed == GameSpec => []PlayersAreServed
<1>1. GameIInv => PlayersAreServed
  <2> SUFFICES ASSUME GameIInv PROVE PlayersAreServed OBVIOUS
  <2>1. RewardsAreEarned /\ ItemsAreConserved /\ LevelsAreEarned /\ SavesAreNotForgotten
    BY QuestsSafe, CharactersSafe DEF GameIInv
  <2>2. OneRunUntilReaped /\ AnswersAreOfRuns BY OneRunSafe DEF GameIInv, TableIInv
  <2> QED BY <2>1, <2>2, SocialSafe DEF PlayersAreServed, GameIInv, SocialIInv
<1> QED BY <1>1, GameInvariant, PTL

(* For any number of scenes, instances, creatures and phases, a live monster *)
(* is of an instance that is, and a player's avatar of his one scene; who   *)
(* was told of whom is within sight, a monster's state is counted and a     *)
(* dead one's timer runs; ticks and frames keep their beat.                 *)
THEOREM ScenesSound == GameSpec => []ScenesAreSound
<1>1. GameIInv => ScenesAreSound
  BY WorldSafe, CreaturesSafe, SchedulerSafe DEF GameIInv, LoopIInv, ScenesAreSound
<1> QED BY <1>1, GameInvariant, PTL

(* For any skills, buffs, items and levels, a fighter's bonus and mask are  *)
(* what its live buffs add up to, no death is announced that was not one or *)
(* was announced before, and a character's vitals are within what its level *)
(* and its gear, which is counted once, allow.                              *)
THEOREM FightsCorrect == GameSpec => []FightsAddUp
<1>1. GameIInv => FightsAddUp BY CombatSafe, CharactersSafe DEF GameIInv, FightsAddUp
<1> QED BY <1>1, GameInvariant, PTL

(* A walker within the limits takes legal steps and stays within them while *)
(* in the world, a checkpoint is replaced by the next only, and a completed *)
(* command's answer stays until its row is seen expired.                    *)
THEOREM RecordsAdvance == GameSpec => StepsAndRecordsAdvance
<1>1. GameIInv /\ [GameNext]_gameVars
        => /\ [StepIsLegal]_creatureVars
           /\ [CheckpointGrows]_rcStore
           /\ [\A k \in IdKeys \ idReaped : idRows[k].st = "Completed" => idRows'[k] = idRows[k]]_idVars
  <2> SUFFICES ASSUME GameIInv, [GameNext]_gameVars
               PROVE  /\ StepIsLegal /\ [CheckpointGrows]_rcStore
                      /\ \A k \in IdKeys \ idReaped :
                            idRows[k].st = "Completed" => idRows'[k] = idRows[k]
    OBVIOUS
  <2>1. GameStep BY OneSystemMoves
  <2>2. [CheckpointGrows]_rcStore BY <2>1, CheckpointStep DEF GameStep, rcVars
  <2>3. \A k \in IdKeys \ idReaped : idRows[k].st = "Completed" => idRows'[k] = idRows[k]
    BY <2>1, CompletedStep DEF GameIInv, GameStep
  <2> QED BY <2>1, <2>2, <2>3, CreaturesSteps DEF GameIInv, GameStep
<1> QED BY <1>1, GameInvariant, PTL
        DEF GameSpec, StepsAndRecordsAdvance, StepsAreLegal, StepIsLegal, CheckpointsGrow,
            CheckpointGrows, CompletedStays
=============================================================================
