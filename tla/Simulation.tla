----------------------------- MODULE Simulation -----------------------------
(***************************************************************************)
(* What drives a simulation: the fixed step of a scene on its own thread   *)
(* or by hand (scheduler/, TickClock), the fixed step of a client between  *)
(* frames (GameLoop), and the checkpoints from which a scene is rebuilt on *)
(* another node (scene recovery).  The three share no state.               *)
(***************************************************************************)
EXTENDS Integers, Sequences, FiniteSets, SequencesExt

CONSTANTS
    Phases,          \* TickPhase: the phases of a tick, numbered in order
    Interval,        \* interval_ns_
    MaxCatchUp,      \* Config::max_catchup
    ClockCatchUp,    \* kMaxCatchUpSteps
    MaxTime,         \* bound: time the scheduler is watched for
    FixedDt,         \* fixed_dt_ns of the client
    MaxCatch,        \* max_catchup of the client
    FrameTimes,      \* times a frame may take
    MaxFrames,       \* bound: frames
    SceneHosts,      \* nodes that can own a scene
    SceneIds,
    MaxSceneVersion  \* bound: checkpoints of a scene

ASSUME SimulationAssumption ==
    /\ Phases \subseteq Nat /\ FrameTimes \subseteq Nat
    /\ {Interval, FixedDt, MaxCatchUp, ClockCatchUp, MaxCatch} \subseteq Nat \ {0}

VARIABLES
    smStages,   \* stages_: the phases registered
    smRan,      \* the phases the last tick ran
    smNow,      \* the steady clock
    smSeeded,   \* seeded_
    smRunning,  \* running_
    smThread,   \* the thread: none, "wait" before the deadline, "fire" after the check
    smLast,     \* last_fired_
    smNext,     \* next_deadline_
    smAnchor,   \* auxiliary: the instant the steps are counted from ...
    smTicks,    \* ... and the steps since
    smAfter,    \* auxiliary: ticks begun since Stop was called
    smBurst,    \* auxiliary: ticks of the thread since it last slept
    glAcc,      \* acc
    glSim,      \* sim_time
    glElapsed,  \* time of the frames so far
    glLost,     \* auxiliary: time dropped
    glCatchups, \* stats.catchups
    glFrames,   \* stats.frames
    rcScenes,   \* scenes of each node: scene -> [state, version]
    rcStore,    \* store_: scene -> [owner, version, state, number]
    rcFail      \* fail_next_

smVars == <<smStages, smRan, smNow, smSeeded, smRunning, smThread, smLast, smNext, smAnchor,
            smTicks, smAfter, smBurst>>
glVars == <<glAcc, glSim, glElapsed, glLost, glCatchups, glFrames>>
rcVars == <<rcScenes, rcStore, rcFail>>
simVars == <<smVars, glVars, rcVars>>

SimulationInit ==
    /\ smStages = <<>> /\ smRan = <<>> /\ smNow = 0 /\ smSeeded = FALSE /\ smRunning = FALSE
    /\ smThread = "none" /\ smLast = 0 /\ smNext = 0 /\ smAnchor = 0 /\ smTicks = 0
    /\ smAfter = 0 /\ smBurst = 0
    /\ glAcc = 0 /\ glSim = 0 /\ glElapsed = 0 /\ glLost = 0 /\ glCatchups = 0 /\ glFrames = 0
    /\ rcScenes = [n \in SceneHosts |-> << >>] /\ rcStore = << >> /\ rcFail = FALSE

AtMostOf(a, b) == IF a < b THEN a ELSE b

-----------------------------------------------------------------------------
(* TickClock and SimulationScheduler.                                       *)

NextTickDeadline(prev) == prev + Interval
CatchUpSteps(now, prev) ==
    IF now - prev < Interval THEN 0 ELSE AtMostOf((now - prev) \div Interval, ClockCatchUp)

InPhase(S) == CHOOSE at \in SetToSeqs(S) : \A i, j \in DOMAIN at : i < j => at[i] < at[j]

\* A stage goes to its place in the order of the phases; one stage a phase.
RegisterStage(phase) ==
    /\ smThread = "none" /\ ~\E i \in DOMAIN smStages : smStages[i] = phase
    /\ smStages' = InPhase(ToSet(smStages) \cup {phase})
    /\ UNCHANGED <<smRan, smNow, smSeeded, smRunning, smThread, smLast, smNext, smAnchor,
                   smTicks, smAfter, smBurst>>

\* FireTick: a stage that throws is left, the ones after it run.
FireTick(thrown) == smRan' = InPhase(ToSet(smStages) \ thrown)

\* RunUntil: the first call ticks once, at the deadline; a later one makes up
\* for the steps due, at most MaxCatchUp of them, each at its own deadline.
RunTo(deadline) ==
    IF smSeeded
      THEN LET steps == AtMostOf(MaxCatchUp, CatchUpSteps(deadline, smLast))
           IN  /\ smLast' = smLast + steps * Interval
               /\ smNext' = NextTickDeadline(smLast')
               /\ smTicks' = smTicks + steps
               /\ UNCHANGED <<smSeeded, smAnchor>>
      ELSE /\ smSeeded' = TRUE
           /\ smLast' = deadline /\ smAnchor' = deadline /\ smTicks' = 0
           /\ smNext' = NextTickDeadline(deadline)

RunUntil(deadline) ==
    /\ smThread = "none"
    /\ RunTo(deadline)
    /\ IF smSeeded /\ smLast' = smLast THEN UNCHANGED smRan
       ELSE \E thrown \in SUBSET ToSet(smStages) : FireTick(thrown)
    /\ UNCHANGED <<smStages, smNow, smRunning, smThread, smAfter, smBurst>>

StartLoop ==
    /\ ~smRunning /\ smThread = "none"
    /\ smRunning' = TRUE /\ smSeeded' = TRUE /\ smThread' = "wait"
    /\ smLast' = smNow /\ smAnchor' = smNow /\ smTicks' = 0
    /\ smNext' = NextTickDeadline(smNow)
    /\ smAfter' = 0 /\ smBurst' = 0
    /\ UNCHANGED <<smStages, smRan, smNow>>

\* Stop clears the flag and waits for the thread.
StopLoop ==
    /\ smRunning /\ smRunning' = FALSE
    /\ UNCHANGED <<smStages, smRan, smNow, smSeeded, smThread, smLast, smNext, smAnchor,
                   smTicks, smAfter, smBurst>>

\* The deadline has come, at once if it was missed: the thread looks at the flag.
Wake ==
    /\ smThread = "wait" /\ smNext <= smNow
    /\ smThread' = IF smRunning THEN "fire" ELSE "none"
    /\ UNCHANGED <<smStages, smRan, smNow, smSeeded, smRunning, smLast, smNext, smAnchor,
                   smTicks, smAfter, smBurst>>

LoopTicks ==
    /\ smThread = "fire" /\ smThread' = "wait"
    /\ RunTo(smNext)
    /\ \E thrown \in SUBSET ToSet(smStages) : FireTick(thrown)
    /\ smAfter' = IF smRunning THEN 0 ELSE smAfter + 1
    /\ smBurst' = IF smNext' > smNow THEN 0 ELSE smBurst + 1
    /\ UNCHANGED <<smStages, smNow, smRunning>>

TimePasses ==
    /\ smNow < MaxTime /\ smNow' = smNow + 1
    /\ UNCHANGED <<smStages, smRan, smSeeded, smRunning, smThread, smLast, smNext, smAnchor,
                   smTicks, smAfter, smBurst>>

SchedulerNext ==
    /\ \/ \E phase \in Phases : RegisterStage(phase)
       \/ \E deadline \in 0..MaxTime : RunUntil(deadline)
       \/ StartLoop \/ StopLoop \/ Wake \/ LoopTicks \/ TimePasses
    /\ UNCHANGED <<glVars, rcVars>>

-----------------------------------------------------------------------------
(* GameLoop::Run: a frame of some length, its steps, and at the limit the   *)
(* rest of the time given up.                                               *)

\* Steps until the time left is below a step, or as many as the limit allows,
\* and then what is left, less than a step or more, is dropped.
StepsOf(acc) ==
    LET steps == AtMostOf(acc \div FixedDt, MaxCatch)
    IN  [steps |-> steps, left |-> IF steps = MaxCatch THEN 0 ELSE acc - steps * FixedDt]

Frame(delta) ==
    LET acc == glAcc + delta
        s == StepsOf(acc)
    IN  /\ glFrames < MaxFrames /\ glFrames' = glFrames + 1
        /\ glElapsed' = glElapsed + delta
        /\ glSim' = glSim + s.steps * FixedDt
        /\ glAcc' = s.left
        /\ glLost' = glLost + (acc - s.steps * FixedDt - s.left)
        /\ glCatchups' = glCatchups + (IF s.steps = MaxCatch THEN 1 ELSE 0)

FramesNext == (\E delta \in FrameTimes : Frame(delta)) /\ UNCHANGED <<smVars, rcVars>>

-----------------------------------------------------------------------------
(* SceneRecovery, and of a scene what it looks at.                          *)

Legal == {<<"Creating", "Loading">>, <<"Creating", "Destroying">>, <<"Loading", "Running">>,
          <<"Loading", "Destroying">>, <<"Running", "Draining">>, <<"Running", "Destroying">>,
          <<"Draining", "Destroying">>}
SceneAt(n, s) == s \in DOMAIN rcScenes[n]
WithSceneAt(n, s, scene) ==
    [rcScenes EXCEPT ![n] = [t \in DOMAIN @ \cup {s} |-> IF t = s THEN scene ELSE @[t]]]

\* A scene begins where no node has it.
BeginScene(n, s) ==
    /\ \A m \in SceneHosts : ~SceneAt(m, s)
    /\ s \notin DOMAIN rcStore
    /\ rcScenes' = WithSceneAt(n, s, [state |-> "Creating", version |-> 1])
    /\ UNCHANGED <<rcStore, rcFail>>

TransitionTo(n, s, to) ==
    /\ SceneAt(n, s) /\ <<rcScenes[n][s].state, to>> \in Legal
    /\ rcScenes' = [rcScenes EXCEPT ![n][s] = [state |-> to, version |-> @.version + 1]]
    /\ UNCHANGED <<rcStore, rcFail>>

FailNextCheckpoint == ~rcFail /\ rcFail' = TRUE /\ UNCHANGED <<rcScenes, rcStore>>

\* The store fails before anything is touched, or the record is replaced whole.
Checkpoint(n, s) ==
    /\ SceneAt(n, s)
    /\ rcFail' = FALSE
    /\ LET number == IF s \in DOMAIN rcStore THEN rcStore[s].number + 1 ELSE 1
           made == [owner |-> n, version |-> rcScenes[n][s].version, state |-> rcScenes[n][s].state,
                    number |-> number]
       IN  IF rcFail THEN UNCHANGED rcStore
           ELSE /\ number <= MaxSceneVersion
                /\ rcStore' = [t \in DOMAIN rcStore \cup {s} |-> IF t = s THEN made ELSE rcStore[t]]
    /\ UNCHANGED rcScenes

\* A new scene of that name, brought to Running; its version begins anew.
Restore(s, n) ==
    /\ s \in DOMAIN rcStore /\ ~SceneAt(n, s)
    /\ rcScenes' = WithSceneAt(n, s, [state |-> "Running", version |-> 3])
    /\ UNCHANGED <<rcStore, rcFail>>

\* A node dies with its scenes, or lets go of one that has ended.
HostDies(n) ==
    /\ DOMAIN rcScenes[n] # {} /\ rcScenes' = [rcScenes EXCEPT ![n] = << >>]
    /\ UNCHANGED <<rcStore, rcFail>>

RecoveryNext ==
    /\ \/ \E n \in SceneHosts, s \in SceneIds :
              \/ BeginScene(n, s) \/ Checkpoint(n, s) \/ Restore(s, n)
              \/ \E to \in {"Loading", "Running", "Draining", "Destroying"} : TransitionTo(n, s, to)
       \/ FailNextCheckpoint
       \/ \E n \in SceneHosts : HostDies(n)
    /\ UNCHANGED <<smVars, glVars>>

SimulationNext == SchedulerNext \/ FramesNext \/ RecoveryNext
SimulationSpec == SimulationInit /\ [][SimulationNext]_simVars

-----------------------------------------------------------------------------
(* The steps of a scene fall on the beat of its anchor, however late the    *)
(* thread or the caller comes and however many steps the limit cuts off;    *)
(* the phases of a tick run in their order, and the thread never ticks      *)
(* before the deadline, nor twice after Stop (simulation_scheduler.cpp).    *)
TicksKeepTheBeat ==
    /\ smSeeded => smLast = smAnchor + smTicks * Interval /\ smNext = smLast + Interval
    /\ \A i, j \in DOMAIN smRan : i < j => smRan[i] < smRan[j]
    /\ smThread # "none" => smLast <= smNow
    /\ smAfter <= 1

(* The client's logical time is behind the time of its frames by less than  *)
(* a step and what it gave up, and a step that long never stays owed        *)
(* (game_loop.cpp:39).                                                      *)
LoopKeepsTime ==
    /\ glElapsed = glSim + glAcc + glLost
    /\ glAcc < FixedDt
    /\ glLost > 0 => glCatchups > 0

(* A checkpoint that fails leaves the last reliable one: the numbers of a   *)
(* scene's checkpoints go up by one, and none is ever lost.                 *)
CheckpointsGrow ==
    [][\A s \in DOMAIN rcStore :
          /\ s \in DOMAIN rcStore'
          /\ rcStore'[s] # rcStore[s] => rcStore'[s].number = rcStore[s].number + 1]_rcStore

(* Refuted: a tick catches up with at most so many steps                    *)
(* (simulation_scheduler.cpp:114); the thread asks for its next deadline    *)
(* each time, and after a stall ticks without a pause until it is there.    *)
BurstIsBounded == smBurst < MaxCatchUp

(* Refuted: what is dropped is backlog (game_loop.cpp:52): with exactly as  *)
(* many steps as the limit nothing was owed but the rest of a step.         *)
OnlyBacklogIsLost == [][glLost' > glLost => glLost' - glLost >= FixedDt]_glLost

(* Refuted: the version of a scene is rebuilt with it                       *)
(* (scene_recovery.h: identity, version, hash and counts are rebuilt).      *)
RestoredKeepsVersion ==
    [][\A n \in SceneHosts : \A s \in DOMAIN rcStore :
          ~SceneAt(n, s) /\ s \in DOMAIN rcScenes'[n] => rcScenes'[n][s].version >= rcStore[s].version]_rcScenes

(* Refuted: a scene has one owner; Restore does not ask whether another     *)
(* node still runs it.                                                      *)
OneRunningOwner ==
    \A s \in SceneIds : Cardinality({n \in SceneHosts : SceneAt(n, s)}) <= 1
=============================================================================
