------------------------------- MODULE Timers --------------------------------
(* The Scheduler: timers in slots, a heap of slots ordered by deadline, an *)
(* index from timer to slot, and lazy deletion.  One host thread calls it; *)
(* calls during a Tick come from the callback that is running, so a Tick   *)
(* is a sequence of steps with the callback's calls between them.          *)
(*                                                                         *)
(* The heap is the set of its slots: only its minimum is ever looked at.   *)
EXTENDS Integers, Sequences, FiniteSets

CONSTANTS
  MaxTime,          \* bound: deadlines and ticks
  MaxTimers,        \* bound: timers scheduled
  MaxTicks,         \* bound: calls of Tick
  Periods,          \* periods in use
  MaxCatchUp,       \* kMaxCatchUpPerTick
  CompactMin        \* kCompactMinCancelled

ASSUME TimersAssumption ==
  /\ MaxTime \in Nat /\ MaxTimers \in Nat /\ MaxTicks \in Nat
  /\ Periods \subseteq Nat \ {0}
  /\ MaxCatchUp \in Nat \ {0} /\ CompactMin \in Nat \ {0}

VARIABLES
  timers,           \* slot -> [id, deadline, period]; period 0: one shot
  dead,             \* slots whose timer is cancelled and still in the heap
  freeSlots,        \* stack of recycled slots
  heap,             \* slots in the heap
  index,            \* ids that Cancel finds
  cancelledCount,
  nextId,
  lastTick,
  ticks,            \* bound: calls of Tick so far
  tick,             \* the Tick that runs: time, slot, id and rounds left
  callback,         \* the timer whose callback runs, or 0
  closureLives,     \* its closure is still where the call found it
  fired,            \* timer -> times fired
  firedNow          \* timer -> times fired in this Tick

timerVars == <<timers, dead, freeSlots, heap, index, cancelledCount, nextId,
               lastTick, ticks, tick, callback, closureLives, fired, firedNow>>
slotVars == <<timers, dead, freeSlots, heap, index, cancelledCount, nextId>>

Ids == 1 .. MaxTimers
NoTick == [on |-> FALSE, now |-> 0, slot |-> 0, id |-> 0, rounds |-> 0]
NoTimer == [id |-> 0, deadline |-> 0, period |-> 0]

TimersInit ==
  /\ timers = <<>> /\ dead = {} /\ freeSlots = <<>> /\ heap = {} /\ index = {}
  /\ cancelledCount = 0 /\ nextId = 1 /\ lastTick = 0 /\ ticks = 0
  /\ tick = NoTick /\ callback = 0 /\ closureLives = TRUE
  /\ fired = [i \in Ids |-> 0] /\ firedNow = [i \in Ids |-> 0]

HostMayCall == ~tick.on \/ callback # 0
SlotOf(id) == CHOOSE s \in heap : timers[s].id = id
Earlier(a, b) ==
  \/ timers[a].deadline < timers[b].deadline
  \/ timers[a].deadline = timers[b].deadline /\ timers[a].id <= timers[b].id
Top == CHOOSE s \in heap : \A t \in heap : Earlier(s, t)

-----------------------------------------------------------------------------
(* Register takes a recycled slot or grows the vector, which may move every *)
(* timer, and the closure kept in it, to new memory.                        *)
Schedule(deadline, period, moves) ==
  /\ HostMayCall /\ nextId <= MaxTimers
  /\ LET new == [id |-> nextId, deadline |-> deadline, period |-> period]
         grows == freeSlots = <<>>
         slot == IF grows THEN Len(timers) + 1 ELSE freeSlots[Len(freeSlots)]
     IN
     /\ timers' = IF grows THEN Append(timers, new) ELSE [timers EXCEPT ![slot] = new]
     /\ freeSlots' = IF grows THEN freeSlots
                     ELSE SubSeq(freeSlots, 1, Len(freeSlots) - 1)
     /\ heap' = heap \cup {slot}
     /\ closureLives' = (closureLives /\ ~(grows /\ moves /\ tick.rounds > 0))
  /\ index' = index \cup {nextId}
  /\ nextId' = nextId + 1
  /\ UNCHANGED <<dead, cancelledCount, lastTick, ticks, tick, callback, fired, firedNow>>

(* MaybeCompact's condition after the call changed count and heap. *)
CompactDue(count, size) ==
  \/ count >= CompactMin /\ count * 2 >= size
  \/ count > 0 /\ count = size

(* Compact recycles every dead slot of the heap, in the heap's order, which *)
(* is left open; recycling a slot destroys its closure.                     *)
Orders(S) == {o \in [1 .. Cardinality(S) -> S] : \A i, j \in DOMAIN o : i # j => o[i] # o[j]}

Recycled(slots, gone) == [s \in DOMAIN slots |->
  IF s \in gone THEN [slots[s] EXCEPT !.id = 0, !.period = 0] ELSE slots[s]]

Compact(gone) ==
  /\ timers' = Recycled(timers, gone)
  /\ \E o \in Orders(gone) : freeSlots' = freeSlots \o o
  /\ heap' = heap \ gone
  /\ dead' = {}
  /\ cancelledCount' = 0

(* Cancel marks the timer and may compact; an id that is not in the index   *)
(* was fired or cancelled before, which is no error.                        *)
Cancel(id) ==
  /\ HostMayCall /\ id \in index
  /\ LET gone == dead \cup {SlotOf(id)} IN
     /\ index' = index \ {id}
     /\ IF CompactDue(cancelledCount + 1, Cardinality(heap))
        THEN /\ Compact(gone)
             /\ closureLives' = (closureLives /\ ~(tick.rounds > 0 /\ tick.slot \in gone))
        ELSE /\ dead' = gone /\ cancelledCount' = cancelledCount + 1
             /\ UNCHANGED <<timers, freeSlots, heap, closureLives>>
  /\ UNCHANGED <<nextId, lastTick, ticks, tick, callback, fired, firedNow>>

-----------------------------------------------------------------------------
TickBegin(now) ==
  /\ ~tick.on /\ now >= lastTick /\ ticks < MaxTicks
  /\ tick' = [NoTick EXCEPT !.on = TRUE, !.now = now]
  /\ lastTick' = now /\ ticks' = ticks + 1
  /\ firedNow' = [i \in Ids |-> 0]
  /\ UNCHANGED <<slotVars, callback, closureLives, fired>>

AtTop == tick.on /\ callback = 0 /\ tick.rounds = 0 /\ heap # {}

\* Mutant: the slot of a cancelled timer is not given back.
DiscardTopLeaks ==
  /\ AtTop /\ Top \in dead
  /\ heap' = heap \ {Top} /\ dead' = dead \ {Top}
  /\ timers' = Recycled(timers, {Top})
  /\ UNCHANGED <<freeSlots, index, cancelledCount, nextId, lastTick, ticks, tick, callback,
                 closureLives, fired, firedNow>>

(* A cancelled timer at the top goes back to the free slots; the count of   *)
(* cancelled timers stays as it is.                                         *)
DiscardTop ==
  /\ AtTop /\ Top \in dead
  /\ heap' = heap \ {Top} /\ dead' = dead \ {Top}
  /\ timers' = Recycled(timers, {Top})
  /\ freeSlots' = Append(freeSlots, Top)
  /\ UNCHANGED <<index, cancelledCount, nextId, lastTick, ticks, tick, callback,
                 closureLives, fired, firedNow>>

\* Mutant: the look at the cancelled timers is left to DiscardTop.
DueUnlessDiscarded == AtTop /\ timers[Top].deadline <= tick.now

Due == AtTop /\ Top \notin dead /\ timers[Top].deadline <= tick.now

Fire(id) ==
  /\ callback' = id
  /\ closureLives' = TRUE
  /\ fired' = [fired EXCEPT ![id] = @ + 1]
  /\ firedNow' = [firedNow EXCEPT ![id] = @ + 1]

(* A one-shot timer leaves its slot before its task runs. *)
FireOnce ==
  /\ Due /\ timers[Top].period = 0
  /\ heap' = heap \ {Top}
  /\ index' = index \ {timers[Top].id}
  /\ timers' = Recycled(timers, {Top})
  /\ freeSlots' = Append(freeSlots, Top)
  /\ Fire(timers[Top].id)
  /\ UNCHANGED <<dead, cancelledCount, nextId, lastTick, ticks, tick>>

(* Rounds a periodic timer has missed, at most MaxCatchUp of them. *)
Rounds(deadline, period, now) ==
  LET missed == (now - deadline) \div period + 1
  IN  IF missed < MaxCatchUp THEN missed ELSE MaxCatchUp
NextDeadline(deadline, period, now) ==
  LET next == deadline + Rounds(deadline, period, now) * period
  IN  IF next <= now THEN now + period ELSE next

(* A periodic timer gets its next deadline and is back in the heap before  *)
(* its rounds run.                                                          *)
RearmPeriodic ==
  /\ Due /\ timers[Top].period > 0
  /\ timers' = [timers EXCEPT ![Top].deadline = NextDeadline(@, timers[Top].period, tick.now)]
  /\ tick' = [tick EXCEPT !.slot = Top, !.id = timers[Top].id,
       !.rounds = Rounds(timers[Top].deadline, timers[Top].period, tick.now)]
  /\ UNCHANGED <<dead, freeSlots, heap, index, cancelledCount, nextId, lastTick, ticks,
                 callback, closureLives, fired, firedNow>>

StillThere == timers[tick.slot].id = tick.id /\ tick.slot \notin dead

FireRound ==
  /\ tick.on /\ tick.rounds > 0 /\ callback = 0 /\ StillThere
  /\ Fire(tick.id)
  /\ UNCHANGED <<slotVars, lastTick, ticks, tick>>

SkipRounds ==
  /\ tick.on /\ tick.rounds > 0 /\ callback = 0 /\ ~StillThere
  /\ tick' = [tick EXCEPT !.rounds = 0]
  /\ UNCHANGED <<slotVars, lastTick, ticks, callback, closureLives, fired, firedNow>>

(* The callback returns or throws; either way the Tick goes on. *)
CallbackEnds ==
  /\ callback # 0
  /\ callback' = 0
  /\ tick' = [tick EXCEPT !.rounds = IF @ > 0 THEN @ - 1 ELSE 0]
  /\ UNCHANGED <<slotVars, lastTick, ticks, closureLives, fired, firedNow>>

(* Nothing is due any more; the dead slots may be recycled. *)
TickEnd ==
  /\ tick.on /\ callback = 0 /\ tick.rounds = 0
  /\ heap # {} => (Top \notin dead /\ timers[Top].deadline > tick.now)
  /\ tick' = NoTick
  /\ IF CompactDue(cancelledCount, Cardinality(heap)) THEN Compact(dead)
     ELSE UNCHANGED <<timers, freeSlots, heap, dead, cancelledCount>>
  /\ UNCHANGED <<index, nextId, lastTick, ticks, callback, closureLives, fired, firedNow>>

-----------------------------------------------------------------------------
TickStep == DiscardTop \/ FireOnce \/ RearmPeriodic \/ FireRound \/ SkipRounds
            \/ CallbackEnds \/ TickEnd

TimersNext ==
  \/ \E deadline \in 0 .. MaxTime, period \in Periods \cup {0}, moves \in BOOLEAN :
       Schedule(deadline, period, moves)
  \/ \E id \in Ids : Cancel(id)
  \/ \E now \in 0 .. MaxTime : TickBegin(now)
  \/ TickStep

TimersSpec == TimersInit /\ [][TimersNext]_timerVars

-----------------------------------------------------------------------------
Slots == DOMAIN timers
Freed == {freeSlots[i] : i \in DOMAIN freeSlots}

(* Every slot is in the heap or free, never both and never twice, and the   *)
(* index names exactly the timers in the heap that are not cancelled, also  *)
(* while callbacks schedule, cancel and cause a compaction during a Tick:   *)
(* no slot leaks and no timer is lost.                                      *)
SlotsPartitioned ==
  /\ heap \cap Freed = {} /\ heap \cup Freed = Slots
  /\ Cardinality(Freed) = Len(freeSlots)
  /\ dead \subseteq heap
  /\ index = {timers[s].id : s \in heap \ dead}
  /\ \A s, t \in heap : timers[s].id = timers[t].id => s = t

(* A timer that Cancel has taken out never fires again, and within one Tick *)
(* a timer fires at most MaxCatchUp times however late the Tick is.         *)
CancelledStaysSilent ==
  [][\A i \in Ids : i < nextId /\ i \notin index => fired'[i] = fired[i]]_timerVars
CatchUpBounded == \A i \in Ids : firedNow[i] <= MaxCatchUp

(* scheduler.cpp lists the ways in which a callback may change the          *)
(* containers and says that each is dealt with ("实现逐一处理"): the closure    *)
(* that runs is not destroyed or moved under its own feet.                  *)
RunningClosureStays == callback # 0 => closureLives
=============================================================================
