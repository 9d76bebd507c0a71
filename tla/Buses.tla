------------------------------- MODULE Buses -------------------------------
(***************************************************************************)
(* The three buses of the engine: events (one to many, queued, dispatched  *)
(* by the host thread under a budget), commands (one handler per type) and *)
(* queries (the same, inside a read-only scope that is counted per         *)
(* thread).  Any thread publishes at any time; a drain holds the reader    *)
(* lock of the subscription table from its first to its last event, so a   *)
(* subscription waits for it, and a callback may publish in its turn.      *)
(***************************************************************************)
EXTENDS Integers, Sequences, FiniteSets, SequencesExt

CONSTANTS EventKinds, CriticalKinds,   \* event types, and those with kCritical
          BusCapacity,                 \* queue_capacity
          MaxEvents, MaxSubs,          \* bounds: events ever made, subscribers ever made
          BusThreads, CallTypes,       \* threads that dispatch and ask, types of their calls
          MaxDepth, MaxThrows          \* bounds: nesting of calls, exceptions thrown

ASSUME BusAssumption ==
    /\ CriticalKinds \subseteq EventKinds
    /\ BusCapacity \in Nat \ {0} /\ MaxEvents \in Nat /\ MaxSubs \in Nat /\ MaxDepth \in Nat

VARIABLES
    busSubs,      \* kind -> subscribers in the order of their registration
    busNextSub,   \* next_sub_id_
    busQueue,     \* queue_: the events published and not taken
    busMade,      \* number of events made: their identities, in queue order
    busDropped,   \* the events dropped_ counts
    busRefused,   \* the critical events answered BUSY
    busErrors,    \* sub_errors_
    busDrain,     \* the drain or immediate dispatch under way
    busInbox,     \* subscriber -> the queued events it has received, in order
    busDone,      \* the events dispatched to the end
    busHandlers,  \* the <<bus, type>> with a handler
    busCalls,     \* thread -> the calls it is inside of, outermost first
    busInFlight,  \* in_flight_ of the command bus
    busReadOnly,  \* thread -> t_readonly_depth
    busProbe      \* [writes, violations] of a SideEffectProbe

eventVars == <<busSubs, busNextSub, busQueue, busMade, busDropped, busRefused, busErrors, busDrain, busInbox, busDone>>
callVars == <<busHandlers, busCalls, busInFlight, busReadOnly, busProbe>>
busVars == <<eventVars, callVars>>

Event == [id : 1..MaxEvents, kind : EventKinds]
NoEvent == [id |-> 0, kind |-> "none"]
IdleDrain == [on |-> FALSE, left |-> 0, event |-> NoEvent, to |-> <<>>]

BusesInit ==
    /\ busSubs = [k \in EventKinds |-> <<>>] /\ busNextSub = 0
    /\ busQueue = <<>> /\ busMade = 0
    /\ busDropped = {} /\ busRefused = {} /\ busErrors = 0
    /\ busDrain = IdleDrain /\ busInbox = [s \in 1..MaxSubs |-> <<>>] /\ busDone = {}
    /\ busHandlers = {} /\ busCalls = [t \in BusThreads |-> <<>>]
    /\ busInFlight = 0 /\ busReadOnly = [t \in BusThreads |-> 0]
    /\ busProbe = [writes |-> 0, violations |-> 0]

----------------------------------------------------------------------------
(* Events. *)

\* Subscribe: the writer lock waits for a drain to end.
Subscribe(k) ==
    /\ ~busDrain.on /\ busNextSub < MaxSubs
    /\ busNextSub' = busNextSub + 1
    /\ busSubs' = [busSubs EXCEPT ![k] = Append(@, busNextSub')]
    /\ UNCHANGED <<busQueue, busMade, busDropped, busRefused, busErrors, busDrain, busInbox, busDone, callVars>>

\* Unsubscribe, idempotent: an identity that is gone is not an error.
Erased(subs, id) ==
    IF \E i \in DOMAIN subs : subs[i] = id
    THEN RemoveAt(subs, CHOOSE i \in DOMAIN subs : subs[i] = id) ELSE subs

Unsubscribe(s) ==
    /\ ~busDrain.on /\ s \in 1..busNextSub
    /\ busSubs' = [k \in EventKinds |-> Erased(busSubs[k], s)]
    /\ UNCHANGED <<busNextSub, busQueue, busMade, busDropped, busRefused, busErrors, busDrain, busInbox, busDone, callVars>>

\* Publish: on a full queue a critical event goes back to the caller, any other is dropped and counted.
Published(k) ==
    LET e == [id |-> busMade + 1, kind |-> k] IN
    /\ busMade < MaxEvents /\ busMade' = busMade + 1
    /\ \/ /\ Len(busQueue) < BusCapacity
          /\ busQueue' = Append(busQueue, e) /\ UNCHANGED <<busDropped, busRefused>>
       \/ /\ Len(busQueue) >= BusCapacity /\ k \in CriticalKinds
          /\ busRefused' = busRefused \cup {e.id} /\ UNCHANGED <<busQueue, busDropped>>
       \/ /\ Len(busQueue) >= BusCapacity /\ k \notin CriticalKinds
          /\ busDropped' = busDropped \cup {e.id} /\ UNCHANGED <<busQueue, busRefused>>

Publish(k) ==
    /\ Published(k)
    /\ UNCHANGED <<busSubs, busNextSub, busErrors, busDrain, busInbox, busDone, callVars>>

\* PublishImmediate: the same thread, no queue; every subscriber of the kind is called, whoever
\* throws.  It shares the reader lock, so it comes in the middle of a drain too.
PublishImmediate(k) ==
    /\ \E n \in 0..Len(busSubs[k]) : busErrors + n <= MaxThrows /\ busErrors' = busErrors + n
    /\ UNCHANGED <<busSubs, busNextSub, busQueue, busMade, busDropped, busRefused, busDrain, busInbox, busDone, callVars>>

DrainBegin(max) ==
    /\ ~busDrain.on /\ max > 0
    /\ busDrain' = [IdleDrain EXCEPT !.on = TRUE, !.left = max]
    /\ UNCHANGED <<busSubs, busNextSub, busQueue, busMade, busDropped, busRefused, busErrors, busInbox, busDone, callVars>>

\* TryPop of the loop of Drain, and the subscribers DispatchOneLocked will call.
DrainPop ==
    /\ busDrain.on /\ busDrain.event = NoEvent /\ busDrain.left > 0 /\ busQueue # <<>>
    /\ LET e == Head(busQueue) IN
       busDrain' = [busDrain EXCEPT !.event = e, !.to = busSubs[e.kind]]
    /\ busQueue' = Tail(busQueue)
    /\ UNCHANGED <<busSubs, busNextSub, busMade, busDropped, busRefused, busErrors, busInbox, busDone, callVars>>

\* One callback: it returns, throws (counted, the others still get the event) or publishes.
Deliver ==
    /\ busDrain.event # NoEvent /\ busDrain.to # <<>>
    /\ busInbox' = [busInbox EXCEPT ![Head(busDrain.to)] = Append(@, busDrain.event.id)]
    /\ busDrain' = [busDrain EXCEPT !.to = Tail(@)]
    /\ \/ UNCHANGED <<busErrors, busQueue, busMade, busDropped, busRefused>>
       \/ /\ busErrors < MaxThrows /\ busErrors' = busErrors + 1
          /\ UNCHANGED <<busQueue, busMade, busDropped, busRefused>>
       \/ (\E k \in EventKinds : Published(k)) /\ UNCHANGED busErrors
    /\ UNCHANGED <<busSubs, busNextSub, busDone, callVars>>

\* After each event: ++processed, and the clock may have passed the deadline.
DrainNext ==
    /\ busDrain.event # NoEvent /\ busDrain.to = <<>>
    /\ busDone' = busDone \cup {busDrain.event.id}
    /\ busDrain' \in {[busDrain EXCEPT !.event = NoEvent, !.left = @ - 1], IdleDrain}
    /\ UNCHANGED <<busSubs, busNextSub, busQueue, busMade, busDropped, busRefused, busErrors, busInbox, callVars>>

DrainEnd ==
    /\ busDrain.on /\ busDrain.event = NoEvent /\ (busDrain.left = 0 \/ busQueue = <<>>)
    /\ busDrain' = IdleDrain
    /\ UNCHANGED <<busSubs, busNextSub, busQueue, busMade, busDropped, busRefused, busErrors, busInbox, busDone, callVars>>

----------------------------------------------------------------------------
(* Commands and queries: calls of a thread nest. *)

\* RegisterErased: a type that has a handler keeps it.
RegisterHandler(bus, type) ==
    /\ busHandlers' = busHandlers \cup {<<bus, type>>}
    /\ UNCHANGED <<busCalls, busInFlight, busReadOnly, busProbe, eventVars>>

Dispatch(t, type) ==
    /\ <<"command", type>> \in busHandlers /\ Len(busCalls[t]) < MaxDepth
    /\ busCalls' = [busCalls EXCEPT ![t] = Append(@, "command")]
    /\ busInFlight' = busInFlight + 1
    /\ UNCHANGED <<busHandlers, busReadOnly, busProbe, eventVars>>

Ask(t, type) ==
    /\ <<"query", type>> \in busHandlers /\ Len(busCalls[t]) < MaxDepth
    /\ busCalls' = [busCalls EXCEPT ![t] = Append(@, "query")]
    /\ busReadOnly' = [busReadOnly EXCEPT ![t] = @ + 1]
    /\ UNCHANGED <<busHandlers, busInFlight, busProbe, eventVars>>

\* The innermost handler returns or throws: both guards run either way.
CallEnds(t) ==
    /\ busCalls[t] # <<>>
    /\ busCalls' = [busCalls EXCEPT ![t] = Front(@)]
    /\ \/ /\ Last(busCalls[t]) = "command" /\ busInFlight' = busInFlight - 1 /\ UNCHANGED busReadOnly
       \/ /\ Last(busCalls[t]) = "query" /\ UNCHANGED busInFlight
          /\ busReadOnly' = [busReadOnly EXCEPT ![t] = IF @ > 0 THEN @ - 1 ELSE @]
    /\ UNCHANGED <<busHandlers, busProbe, eventVars>>

\* SideEffectProbe::Write.
ProbeWrite(t) ==
    /\ busCalls[t] # <<>> /\ busProbe.writes = 0
    /\ busProbe' = [writes |-> 1, violations |-> IF busReadOnly[t] > 0 THEN 1 ELSE 0]
    /\ UNCHANGED <<busHandlers, busCalls, busInFlight, busReadOnly, eventVars>>

EventsNext ==
    \/ \E k \in EventKinds : Subscribe(k) \/ Publish(k) \/ PublishImmediate(k)
    \/ \E s \in 1..MaxSubs : Unsubscribe(s)
    \/ \E max \in 0..BusCapacity : DrainBegin(max)
    \/ DrainPop \/ Deliver \/ DrainNext \/ DrainEnd

CallsNext ==
    \E t \in BusThreads, type \in CallTypes :
        \/ \E bus \in {"command", "query"} : RegisterHandler(bus, type)
        \/ Dispatch(t, type) \/ Ask(t, type) \/ CallEnds(t) \/ ProbeWrite(t)

BusesNext == EventsNext \/ CallsNext
BusesSpec == BusesInit /\ [][BusesNext]_busVars

----------------------------------------------------------------------------
\* Every event ever published is in exactly one place: waiting, in the drain's
\* hand, dispatched, dropped or handed back; a critical one is never dropped.
QueuedEvents == {busQueue[i].id : i \in DOMAIN busQueue}
EventInHand == IF busDrain.event = NoEvent THEN {} ELSE {busDrain.event.id}

EventsAccountedFor ==
    /\ 1..busMade = QueuedEvents \cup EventInHand \cup busDone \cup busDropped \cup busRefused
    /\ busMade = Len(busQueue) + Cardinality(EventInHand) + Cardinality(busDone)
                 + Cardinality(busDropped) + Cardinality(busRefused)
    /\ \A i \in DOMAIN busQueue : busQueue[i].id \notin busDone

\* A subscriber hears of events in the order of the queue and of none twice,
\* whatever the callbacks publish, throw or unsubscribe in between.
SubscribersHearInOrder ==
    \A s \in 1..MaxSubs : \A i, j \in DOMAIN busInbox[s] : i < j => busInbox[s][i] < busInbox[s][j]

\* The two counters that nested and throwing calls share say what is running.
CallsUnderWay(bus) ==
    {c \in BusThreads \X (1..MaxDepth) : c[2] \in DOMAIN busCalls[c[1]] /\ busCalls[c[1]][c[2]] = bus}

CallsAreCounted ==
    /\ busInFlight = Cardinality(CallsUnderWay("command"))
    /\ \A t \in BusThreads : busReadOnly[t] = Cardinality({i \in DOMAIN busCalls[t] : busCalls[t][i] = "query"})
=============================================================================
