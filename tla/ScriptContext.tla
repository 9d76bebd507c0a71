---------------------------- MODULE ScriptContext ---------------------------
(***************************************************************************)
(* The scripts of one scene in one Lua machine.  A script is compiled, its *)
(* chunk is run, and only then is it entered under its name; while a       *)
(* script runs, loads and unloads are queued for the next safe point, and  *)
(* an execution that hits a limit takes back what it queued.  Scripts      *)
(* subscribe to events, which the host dispatches to their callbacks.  A   *)
(* run of a chunk is its number; registry references are kept as the set   *)
(* of what they refer to.  What a script computes is its own business.     *)
(***************************************************************************)
EXTENDS Naturals, Sequences, FiniteSets, SequencesExt

CONSTANTS ScriptNames, ScriptEvents,
          MaxRuns,      \* bound: chunks run
          MaxPending,   \* bound: pending operations at once
          MaxSubs,      \* bound: subscriptions
          MaxRunDepth   \* bound: run_depth_

ASSUME ScriptContextAssumption == MaxRuns \in Nat /\ MaxRunDepth \in Nat \ {0}

VARIABLES
    scSlots,     \* scripts_: [name, module, env]; module = 0 when unloaded, env the runs whose values it keeps
    scIds,       \* by_name_: name -> id, a partial function
    scPending,   \* pending_
    scStack,     \* the executions under way, the innermost first: run_depth_ is their number
    scApply,     \* the operations ApplyPendingChanges took and has not applied
    scSubs,      \* subscribers_: [event, run], run the chunk run that subscribed
    scInstalled, \* installed_events_
    scDispatch,  \* the event being dispatched and the subscribers left, [event, left], or NoDispatch
    scRefs,      \* registry references: <<"chunk" | "module" | "env" | "fn", n>>
    scRuns,      \* chunk runs so far
    scFailed,    \* the runs that failed or were aborted
    scPromised   \* <<name, id>> returned by a Load that was queued

scVars == <<scSlots, scIds, scPending, scStack, scApply, scSubs, scInstalled, scDispatch,
            scRefs, scRuns, scFailed, scPromised>>

NoDispatch == [event |-> "", left |-> <<>>]
Running == scStack # <<>>
IsLoaded(id) == id \in DOMAIN scSlots /\ scSlots[id].module # 0
Frame(kind, name, run, env) ==
    [kind |-> kind, name |-> name, run |-> run, env |-> env, mark |-> Len(scPending)]
Owner == IF Running THEN Head(scStack).run ELSE 0

ScriptContextInit ==
    /\ scSlots = <<>> /\ scIds = <<>> /\ scPending = <<>> /\ scStack = <<>> /\ scApply = <<>>
    /\ scSubs = <<>> /\ scInstalled = {} /\ scDispatch = NoDispatch
    /\ scRefs = {} /\ scRuns = 0 /\ scFailed = {} /\ scPromised = {}

----------------------------------------------------------------------------
(* Chunks.  RunCompiledChunk: a new environment, into which a reload copies *)
(* what is no function; the guard raises the depth and marks the queue.     *)

EnterChunk(kind, n, env) ==
    /\ scRuns < MaxRuns /\ scRuns' = scRuns + 1
    /\ scStack' = <<Frame(kind, n, scRuns + 1, env)>> \o scStack

\* Load with nothing running; a chunk that does not compile changes nothing.
LoadScript(n) ==
    /\ ~Running /\ scApply = <<>> /\ scDispatch = NoDispatch
    /\ EnterChunk("load", n, {})
    /\ UNCHANGED <<scSlots, scIds, scPending, scApply, scSubs, scInstalled, scDispatch, scRefs,
                   scFailed, scPromised>>

\* ReloadInPlace: only of a loaded name, only with nothing running.
ReloadInPlace(n) ==
    /\ ~Running /\ scApply = <<>> /\ scDispatch = NoDispatch
    /\ n \in DOMAIN scIds /\ IsLoaded(scIds[n])
    /\ EnterChunk("load", n, scSlots[scIds[n]].env)
    /\ UNCHANGED <<scSlots, scIds, scPending, scApply, scSubs, scInstalled, scDispatch, scRefs,
                   scFailed, scPromised>>

\* Load while a script runs: compiled, promised the id it would get now, and queued.
QueueLoad(n) ==
    /\ Running /\ Len(scPending) < MaxPending
    /\ LET id == IF n \in DOMAIN scIds THEN scIds[n] ELSE Len(scSlots) + 1
           chunk == <<"chunk", Cardinality({r \in scRefs : r[1] = "chunk"}) + 1>>
       IN /\ chunk \notin scRefs
          /\ scPending' = Append(scPending, [kind |-> "Load", id |-> id, name |-> n, chunk |-> chunk])
          /\ scRefs' = scRefs \cup {chunk} /\ scPromised' = scPromised \cup {<<n, id>>}
    /\ UNCHANGED <<scSlots, scIds, scStack, scApply, scSubs, scInstalled, scDispatch, scRuns, scFailed>>

\* ActivateScript: under a known name the slot keeps its id, otherwise a slot is added.
Entered(n, run, env) == [name |-> n, module |-> run, env |-> env \cup {run}]
SlotRefs(id) == IF IsLoaded(id) THEN {<<"module", scSlots[id].module>>, <<"env", scSlots[id].module>>} ELSE {}
ActivateScript(n, run, env) ==
    IF n \in DOMAIN scIds
    THEN /\ scSlots' = [scSlots EXCEPT ![scIds[n]] = Entered(n, run, env)]
         /\ scRefs' = (scRefs \ SlotRefs(scIds[n])) \cup {<<"module", run>>, <<"env", run>>}
         /\ UNCHANGED scIds
    ELSE /\ scSlots' = Append(scSlots, Entered(n, run, env))
         /\ scIds' = [m \in DOMAIN scIds \cup {n} |-> IF m = n THEN Len(scSlots) + 1 ELSE scIds[m]]
         /\ scRefs' = scRefs \cup {<<"module", run>>, <<"env", run>>}

\* ExitRun of an aborted execution: what it queued is taken back, its chunks released.
TakenBack == SubSeq(scPending, Head(scStack).mark + 1, Len(scPending))
Chunks(ops) == {ops[i].chunk : i \in {j \in DOMAIN ops : ops[j].kind = "Load"}}

ExitOk ==
    /\ Running /\ scStack' = Tail(scStack)
    /\ LET f == Head(scStack)
       IN IF f.kind = "load" THEN ActivateScript(f.name, f.run, f.env)
                             ELSE UNCHANGED <<scSlots, scIds, scRefs>>
    /\ UNCHANGED <<scPending, scApply, scSubs, scInstalled, scDispatch, scRuns, scFailed, scPromised>>

ExitFailed ==
    /\ Running /\ scStack' = Tail(scStack)
    /\ LET f == Head(scStack)
       IN scFailed' = IF f.kind = "load" THEN scFailed \cup {f.run} ELSE scFailed
    /\ \/ UNCHANGED <<scPending, scRefs>>                                   \* an error
       \/ /\ scPending' = SubSeq(scPending, 1, Head(scStack).mark)          \* a limit
          /\ scRefs' = scRefs \ Chunks(TakenBack)
    /\ UNCHANGED <<scSlots, scIds, scApply, scSubs, scInstalled, scDispatch, scRuns, scPromised>>

\* CallWithArgs: a function of a loaded script, from the host or from a handler a script called.
CallScript(id) ==
    /\ scApply = <<>> /\ IsLoaded(id) /\ Len(scStack) < MaxRunDepth
    /\ scStack' = <<Frame("call", scSlots[id].name, scSlots[id].module, {})>> \o scStack
    /\ UNCHANGED <<scSlots, scIds, scPending, scApply, scSubs, scInstalled, scDispatch, scRefs,
                   scRuns, scFailed, scPromised>>

----------------------------------------------------------------------------
(* Unloading and the safe point. *)

UnloadImmediate(id) ==
    IF IsLoaded(id)
    THEN /\ scSlots' = [scSlots EXCEPT ![id].module = 0, ![id].env = {}]
         /\ scIds' = [m \in DOMAIN scIds \ {scSlots[id].name} |-> scIds[m]]
         /\ scRefs' = scRefs \ SlotRefs(id)
    ELSE UNCHANGED <<scSlots, scIds, scRefs>>

Unload(id) ==
    /\ IsLoaded(id)
    /\ \/ /\ ~Running /\ scApply = <<>> /\ scDispatch = NoDispatch
          /\ UnloadImmediate(id) /\ UNCHANGED scPending
       \/ /\ Running /\ Len(scPending) < MaxPending
          /\ scPending' = Append(scPending, [kind |-> "Unload", id |-> id, name |-> scSlots[id].name, chunk |-> <<>>])
          /\ UNCHANGED <<scSlots, scIds, scRefs>>
    /\ UNCHANGED <<scStack, scApply, scSubs, scInstalled, scDispatch, scRuns, scFailed, scPromised>>

\* ApplyPendingChanges takes the whole queue ...
ApplyPendingChanges ==
    /\ ~Running /\ scApply = <<>> /\ scDispatch = NoDispatch /\ scPending # <<>>
    /\ scApply' = scPending /\ scPending' = <<>>
    /\ UNCHANGED <<scSlots, scIds, scStack, scSubs, scInstalled, scDispatch, scRefs, scRuns, scFailed, scPromised>>

\* ... and applies one operation after the other, running the chunks in fresh environments.
ApplyNext ==
    /\ ~Running /\ scApply # <<>> /\ scApply' = Tail(scApply)
    /\ LET op == Head(scApply)
       IN \/ /\ op.kind = "Unload" /\ UnloadImmediate(op.id) /\ UNCHANGED <<scStack, scRuns>>
          \/ /\ op.kind = "Load" /\ EnterChunk("load", op.name, {})
             /\ scRefs' = scRefs \ {op.chunk} /\ UNCHANGED <<scSlots, scIds>>
    /\ UNCHANGED <<scPending, scSubs, scInstalled, scDispatch, scFailed, scPromised>>

----------------------------------------------------------------------------
(* Events. *)

\* event.subscribe: the bus is subscribed to once per name, the callback entered in any case.
Subscribe(e) ==
    /\ Running /\ Len(scSubs) < MaxSubs
    /\ scInstalled' = scInstalled \cup {e}
    /\ scSubs' = Append(scSubs, [event |-> e, run |-> Owner])
    /\ scRefs' = scRefs \cup {<<"fn", Len(scSubs) + 1>>}
    /\ UNCHANGED <<scSlots, scIds, scPending, scStack, scApply, scDispatch, scRuns, scFailed, scPromised>>

\* DispatchEventToSubscribers walks the callbacks of the name.
SubsOf(e) == SelectSeq([i \in DOMAIN scSubs |-> i], LAMBDA i : scSubs[i].event = e)
Dispatch(e) ==
    /\ ~Running /\ scApply = <<>> /\ scDispatch = NoDispatch /\ SubsOf(e) # <<>>
    /\ scDispatch' = [event |-> e, left |-> SubsOf(e)]
    /\ UNCHANGED <<scSlots, scIds, scPending, scStack, scApply, scSubs, scInstalled, scRefs, scRuns,
                   scFailed, scPromised>>

DispatchNext ==
    /\ ~Running /\ scDispatch # NoDispatch
    /\ IF scDispatch.left = <<>>
       THEN scDispatch' = NoDispatch /\ UNCHANGED scStack
       ELSE /\ scDispatch' = [scDispatch EXCEPT !.left = Tail(@)]
            /\ scStack' = <<Frame("event", "", scSubs[Head(scDispatch.left)].run, {})>>
    /\ UNCHANGED <<scSlots, scIds, scPending, scApply, scSubs, scInstalled, scRefs, scRuns,
                   scFailed, scPromised>>

ScriptContextNext ==
    \/ \E n \in ScriptNames : LoadScript(n) \/ ReloadInPlace(n) \/ QueueLoad(n)
    \/ \E id \in DOMAIN scSlots : CallScript(id) \/ Unload(id)
    \/ ExitOk \/ ExitFailed \/ ApplyPendingChanges \/ ApplyNext \/ DispatchNext
    \/ \E e \in ScriptEvents : Subscribe(e) \/ Dispatch(e)

ScriptContextSpec == ScriptContextInit /\ [][ScriptContextNext]_scVars

----------------------------------------------------------------------------
\* The index by name and the slots say the same: a name leads to the one loaded slot that bears it.
NamesAndSlotsAgree ==
    /\ \A n \in DOMAIN scIds : IsLoaded(scIds[n]) /\ scSlots[scIds[n]].name = n
    /\ \A id \in DOMAIN scSlots : IsLoaded(id) => scSlots[id].name \in DOMAIN scIds /\ scIds[scSlots[id].name] = id

\* However loads, reloads, failures, aborts and unloads mix, the registry holds exactly what a
\* loaded script, a queued chunk or a subscriber refers to: nothing leaks and nothing is lost.
RegistryIsExact ==
    LET queued == Chunks(scPending) \cup Chunks(scApply)
    IN scRefs = (UNION {SlotRefs(id) : id \in DOMAIN scSlots}) \cup queued
                    \cup {<<"fn", i>> : i \in DOMAIN scSubs}

\* An id once given to a script is never that of another one.
IdsNeverMove ==
    [][\A id \in DOMAIN scSlots : id \in DOMAIN scSlots' /\ scSlots'[id].name = scSlots[id].name]_scVars

\* A load that fails leaves no half-done thing behind: no callback of a failed run is subscribed.
FailureLeavesNothing == ~Running => \A i \in DOMAIN scSubs : scSubs[i].run \notin scFailed

\* The id a queued load returned is the one its script has once it is loaded.
PromisedIdsHold ==
    scPending = <<>> /\ scApply = <<>> /\ ~Running =>
        \A p \in scPromised : p[1] \in DOMAIN scIds => scIds[p[1]] = p[2]
=============================================================================
