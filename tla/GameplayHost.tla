---------------------------- MODULE GameplayHost ----------------------------
(***************************************************************************)
(* The host of the gameplay scripts of one scene: it mounts the scripts of *)
(* a manifest, asks them at five hooks, calls the periodic ones, and       *)
(* exchanges a script at a safe point, checking that the new one still has *)
(* its four entry points.  The Lua context is the script each name runs;   *)
(* the reloader is, by name, its history and whether it is to be verified. *)
(* A source is told apart by whether it compiles, passes validation, keeps *)
(* the contract of the entry points and survives its smoke call.  Numbers  *)
(* are small integers; NotANumber is what no clamp accepts.                *)
(***************************************************************************)
EXTENDS Integers, Sequences, FiniteSets, SequencesExt

CONSTANTS Manifests,     \* sequences of bindings [name, hook, keys, period, enabled, needs]
          HostSources,   \* what a script file may hold
          NoCompile, Invalid, NoContract, SmokeCrash,   \* sets of sources
          KnownRefs,     \* what the reference registry knows
          RawValues,     \* what a script may return
          NotANumber,    \* or that
          MinPeriod,     \* a second, in the model's units
          Requests,      \* the (hook, key) pairs the game asks
          MaxBossPhase, MaxAmount, ActionCount, MaxMounted, HistoryKept,
          MaxStep,       \* bound: length of a tick
          MaxSwaps       \* bound: activations

ASSUME GameplayHostAssumption ==
    /\ NoCompile \cup Invalid \cup NoContract \cup SmokeCrash \subseteq HostSources
    /\ \A m \in Manifests : m \in Seq({m[i] : i \in DOMAIN m})
    /\ RawValues \subseteq Int /\ "none" \notin HostSources
    /\ MaxBossPhase \in Nat \ {0} /\ MaxAmount \in Nat /\ ActionCount \in Nat \ {0} /\ HistoryKept \in Nat \ {0}

VARIABLES
    ghEntries,   \* entries_: [bind, version, accum] in the manifest's order
    ghRun,       \* context_: name -> the source it runs, or NoSource
    ghHistory,   \* history of the reloader, name -> sources, newest first
    ghVerify,    \* needs_verify: name -> "no" | "fresh" (this safe point) | "due"
    ghSwaps,     \* activations so far
    ghOpen,      \* the safe point is open
    ghAnswer     \* what the last step decided: [request, asked, matched, ok, value, clamped, script]

ghVars == <<ghEntries, ghRun, ghHistory, ghVerify, ghSwaps, ghOpen, ghAnswer>>

NoSource == "none"
ScriptNamesOf(m) == {m[i].name : i \in DOMAIN m}
AllNames == UNION {ScriptNamesOf(m) : m \in Manifests}
Silence == [request |-> <<>>, asked |-> <<>>, matched |-> FALSE, ok |-> FALSE, value |-> 0,
            clamped |-> FALSE, script |-> ""]

GameplayInit ==
    /\ ghEntries = <<>> /\ ghRun = [n \in AllNames |-> NoSource]
    /\ ghHistory = [n \in AllNames |-> <<>>] /\ ghVerify = [n \in AllNames |-> "no"]
    /\ ghSwaps = 0 /\ ghOpen = FALSE /\ ghAnswer = Silence

Mounted == {ghEntries[i].bind.name : i \in DOMAIN ghEntries}
EntryOf(n) == CHOOSE i \in DOMAIN ghEntries : ghEntries[i].bind.name = n

----------------------------------------------------------------------------
(* Loading a manifest. *)

CategoryHook == [quest |-> "QuestEvent", skill |-> "SkillFormula", ai |-> "AiDecide",
                 boss |-> "BossPhase", event |-> "ActivityModifier"]

\* ParseOneBinding and ParseManifest, ValidateManifest: known words, one name once, hooks its
\* category allows, at most 1 Hz.
BindingIsSound(b) ==
    /\ b.category \in DOMAIN CategoryHook /\ b.hook \in {CategoryHook[c] : c \in DOMAIN CategoryHook}
    /\ b.enabled \in BOOLEAN /\ b.period \in Nat
ManifestIsSound(m) ==
    /\ \A i, j \in DOMAIN m : m[i].name = m[j].name => i = j
    /\ \A i \in DOMAIN m : /\ BindingIsSound(m[i])
                           /\ m[i].hook = CategoryHook[m[i].category]
                           /\ m[i].period = 0 \/ m[i].period >= MinPeriod
\* The places of a set in their order, and the bindings there.
InOrder(places) == CHOOSE at \in SetToSeqs(places) : \A i, j \in DOMAIN at : i < j => at[i] < at[j]
Those(m, places) == LET at == InOrder(places) IN [i \in DOMAIN at |-> m[at[i]]]
EnabledOf(m) == Those(m, {i \in DOMAIN m : m[i].enabled})
ReferencesExist(m) == \A i \in DOMAIN m : m[i].needs \subseteq KnownRefs

\* What a load of one script leaves, given the source its file holds: the context runs it once it
\* compiles, the reloader keeps it once it is validated, and a later failure unloads it.
Passes(s) == s \notin NoCompile \cup Invalid
\* Mutant: what does not compile is kept, the contract alone decides.
KeepsOnContract(s) == s \notin Invalid /\ s \notin NoContract

Keeps(s) == Passes(s) /\ s \notin NoContract
RunAfterLoad(n, s) == IF s \in NoCompile THEN ghRun[n] ELSE IF Keeps(s) THEN s ELSE NoSource
Remembered(h, s) == LET g == <<s>> \o h IN IF Len(g) > HistoryKept THEN SubSeq(g, 1, HistoryKept) ELSE g

LoadManifest(m) ==
    /\ ~ghOpen /\ ManifestIsSound(m) /\ Len(EnabledOf(m)) <= MaxMounted /\ ReferencesExist(m)
    /\ \E file \in [ScriptNamesOf(m) -> HostSources] :
          LET wanted == EnabledOf(m)
              names == ScriptNamesOf(wanted)
              swapped == {n \in names : Passes(file[n])}
          IN /\ ghSwaps' = ghSwaps + Cardinality(swapped) /\ ghSwaps' <= MaxSwaps
             /\ ghRun' = [n \in AllNames |-> IF n \in names THEN RunAfterLoad(n, file[n]) ELSE ghRun[n]]
             /\ ghHistory' = [n \in AllNames |-> IF n \in swapped THEN Remembered(ghHistory[n], file[n])
                                                                  ELSE ghHistory[n]]
             /\ ghVerify' = [n \in AllNames |-> IF n \in swapped THEN "fresh" ELSE ghVerify[n]]
             /\ LET good == Those(wanted, {i \in DOMAIN wanted : Keeps(file[wanted[i].name])})
                IN ghEntries' = [i \in DOMAIN good |-> [bind |-> good[i], version |-> 1, accum |-> 0]]
    /\ ghAnswer' = Silence /\ UNCHANGED ghOpen

----------------------------------------------------------------------------
(* Asking. *)

\* CollectRoutes: the scripts bound to the key, then those bound to no key, each in manifest order.
CollectRoutes(hook, key) ==
    LET hooked == {i \in DOMAIN ghEntries : ghEntries[i].bind.hook = hook}
    IN InOrder({i \in hooked : key \in ghEntries[i].bind.keys}) \o InOrder({i \in hooked : ghEntries[i].bind.keys = {}})

\* What the game is given for what a script said: an amount, an action, a phase.
ClampAmount(raw) == IF raw = NotANumber THEN 0 ELSE IF raw < 0 THEN 0 ELSE IF raw > MaxAmount THEN MaxAmount ELSE raw
ClampAction(raw) == IF raw < 0 \/ raw >= ActionCount THEN 0 ELSE raw
ClampPhase(raw) == IF raw < 1 THEN 1 ELSE IF raw > MaxBossPhase THEN MaxBossPhase ELSE raw

\* The routes are asked in order up to the first that produces a result; the ones before it failed
\* or declined, and so may all. "given" pairs what a script may say with what the game gets for it.
Ask(hook, key, given) ==
    /\ ~ghOpen /\ <<hook, key>> \in Requests
    /\ LET routes == CollectRoutes(hook, key)
       IN \/ /\ \E at \in DOMAIN routes, say \in given :
                   ghAnswer' = [request |-> <<hook, key>>, asked |-> SubSeq(routes, 1, at), matched |-> TRUE,
                                ok |-> TRUE, value |-> say[2], clamped |-> say[2] # say[1],
                                script |-> ghEntries[routes[at]].bind.name]
          \/ ghAnswer' = [Silence EXCEPT !.request = <<hook, key>>, !.asked = routes, !.matched = routes # <<>>]
    /\ UNCHANGED <<ghEntries, ghRun, ghHistory, ghVerify, ghSwaps, ghOpen>>

ComputeSkillFormula(key) == Ask("SkillFormula", key, {<<raw, ClampAmount(raw)>> : raw \in RawValues \cup {NotANumber}})
DecideAi(key) == Ask("AiDecide", key, {<<raw, ClampAction(raw)>> : raw \in RawValues})
CheckBossPhase(key) == Ask("BossPhase", key, {<<raw, ClampPhase(raw)>> : raw \in RawValues})
QueryActivity(key) == Ask("ActivityModifier", key, {<<raw, ClampAmount(raw)>> : raw \in RawValues \cup {NotANumber}})

\* DispatchQuestEvent: every route is asked, and a failing script stops none of the others.
DispatchQuestEvent(key) ==
    /\ ~ghOpen /\ <<"QuestEvent", key>> \in Requests
    /\ LET routes == CollectRoutes("QuestEvent", key)
       IN ghAnswer' = [Silence EXCEPT !.request = <<"QuestEvent", key>>, !.asked = routes, !.matched = routes # <<>>]
    /\ UNCHANGED <<ghEntries, ghRun, ghHistory, ghVerify, ghSwaps, ghOpen>>

\* Tick: a periodic script is called once its period has gone by; the backlog is dropped.
TickOf(e, dt) ==
    IF e.bind.period = 0 THEN e
    ELSE [e EXCEPT !.accum = IF e.accum + dt < e.bind.period THEN e.accum + dt ELSE 0]
HostTick(dt) ==
    /\ ~ghOpen /\ ghEntries' = [i \in DOMAIN ghEntries |-> TickOf(ghEntries[i], dt)]
    /\ ghAnswer' = Silence /\ UNCHANGED <<ghRun, ghHistory, ghVerify, ghSwaps, ghOpen>>

----------------------------------------------------------------------------
(* The safe point. *)

OpenSafePoint ==
    /\ ~ghOpen /\ ghOpen' = TRUE
    /\ ghVerify' = [n \in AllNames |-> IF ghVerify[n] = "fresh" THEN "due" ELSE ghVerify[n]]
    /\ ghAnswer' = Silence /\ UNCHANGED <<ghEntries, ghRun, ghHistory, ghSwaps>>

CloseSafePoint ==
    /\ ghOpen /\ ghOpen' = FALSE
    /\ ghAnswer' = Silence /\ UNCHANGED <<ghEntries, ghRun, ghHistory, ghVerify, ghSwaps>>

\* The newest version kept that is not the one at the head of h.
Distinct(h) == {i \in DOMAIN h : h[i] # h[1]}
Previous(h) == h[CHOOSE i \in Distinct(h) : \A j \in Distinct(h) : i <= j]
Swap(n, h, verify, times) ==
    /\ ghSwaps' = ghSwaps + times /\ ghSwaps' <= MaxSwaps
    /\ ghRun' = [ghRun EXCEPT ![n] = h[1]] /\ ghHistory' = [ghHistory EXCEPT ![n] = h]
    /\ ghVerify' = [ghVerify EXCEPT ![n] = verify]

\* ActivateReload of a validated source: swapped in, probed for its four entry points, and rolled
\* back at once when one is missing; the host's version follows.
ActivateReload(n, s) ==
    /\ ghOpen /\ n \in Mounted /\ Passes(s)
    /\ LET h == Remembered(ghHistory[n], s)
       IN IF s \notin NoContract
          THEN /\ Swap(n, h, "fresh", 1)
               /\ ghEntries' = [ghEntries EXCEPT ![EntryOf(n)].version = @ + 1]
          ELSE /\ UNCHANGED ghEntries
               /\ IF Distinct(h) = {} THEN Swap(n, h, "fresh", 1)
                                      ELSE Swap(n, Remembered(h, Previous(h)), "no", 2)
    /\ ghAnswer' = Silence /\ UNCHANGED ghOpen

\* Rollback asked for by the operator: to the newest version kept that differs, with no probe.
HostRollback(n) ==
    /\ ghOpen /\ n \in Mounted /\ ghHistory[n] # <<>> /\ Distinct(ghHistory[n]) # {}
    /\ Swap(n, Remembered(ghHistory[n], Previous(ghHistory[n])), "no", 1)
    /\ ghEntries' = [ghEntries EXCEPT ![EntryOf(n)].version = IF @ > 1 THEN @ - 1 ELSE @]
    /\ ghAnswer' = Silence /\ UNCHANGED ghOpen

\* VerifyPass for one name: also of one whose load failed since, as the reloader still knows it.
HostVerify(n) ==
    /\ ghOpen /\ ghVerify[n] = "due"
    /\ IF ghRun[n] # NoSource /\ ghRun[n] \notin SmokeCrash
       THEN ghVerify' = [ghVerify EXCEPT ![n] = "no"] /\ UNCHANGED <<ghRun, ghHistory, ghSwaps>>
       ELSE IF Distinct(ghHistory[n]) = {}
            THEN ghVerify' = [ghVerify EXCEPT ![n] = "no"] /\ UNCHANGED <<ghRun, ghHistory, ghSwaps>>
            ELSE Swap(n, Remembered(ghHistory[n], Previous(ghHistory[n])), "no", 1)
    /\ ghAnswer' = Silence /\ UNCHANGED <<ghEntries, ghOpen>>

GameplayNext ==
    \/ \E m \in Manifests : LoadManifest(m)
    \/ \E r \in Requests : \/ ComputeSkillFormula(r[2]) \/ DecideAi(r[2]) \/ CheckBossPhase(r[2])
                           \/ QueryActivity(r[2]) \/ DispatchQuestEvent(r[2])
    \/ \E dt \in 1..MaxStep : HostTick(dt)
    \/ OpenSafePoint \/ CloseSafePoint
    \/ \E n \in AllNames : HostRollback(n) \/ HostVerify(n) \/ \E s \in HostSources : ActivateReload(n, s)

GameplaySpec == GameplayInit /\ [][GameplayNext]_ghVars

----------------------------------------------------------------------------
\* Whatever is loaded, exchanged, rolled back and verified, a script the game is routed to runs in
\* the context, and runs a source that passed its validation.
RoutedScriptsRun == \A n \in Mounted : ghRun[n] # NoSource /\ Passes(ghRun[n])

\* What a decision hands to the game is in the range of its hook, comes from a script mounted for
\* the request, and from the last one asked.
DecisionsAreSafe ==
    ghAnswer.ok =>
        /\ ghAnswer.value \in CASE ghAnswer.request[1] = "AiDecide" -> 0..(ActionCount - 1)
                                [] ghAnswer.request[1] = "BossPhase" -> 1..MaxBossPhase
                                [] OTHER -> 0..MaxAmount
        /\ LET by == ghEntries[Last(ghAnswer.asked)].bind
           IN /\ by.name = ghAnswer.script /\ by.enabled /\ by.hook = ghAnswer.request[1]
              /\ by.keys = {} \/ ghAnswer.request[2] \in by.keys

\* The first script in the manifest's order that serves a request is asked before any other.
ManifestOrderWins == \A i, j \in DOMAIN ghAnswer.asked : i < j => ghAnswer.asked[i] < ghAnswer.asked[j]

\* No version without its entry points stays on line once it has been found so and rolled back.
OnlineMeetsContract == \A n \in Mounted : ghRun[n] \notin NoContract

\* A script that is not mounted does not run: nothing is left half mounted.
NothingHalfMounted == \A n \in AllNames \ Mounted : ghRun[n] = NoSource
=============================================================================
