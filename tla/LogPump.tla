------------------------------ MODULE LogPump --------------------------------
(* The asynchronous log: writers put records into a ring and count them,   *)
(* the pump thread takes batches out of it, hands them to the sinks and     *)
(* flushes the sinks, not after every batch: a batch that is not full means *)
(* that the backlog is gone.  Flush waits on the counters.                  *)
(*                                                                         *)
(* The ring is the queue its algorithm implements (the one of TaskThread).  *)
(* Shutdown is called when no writer is inside a call, since it frees the   *)
(* ring they use.                                                           *)
EXTENDS Integers, Sequences, SequencesExt, FiniteSets

CONSTANTS
  Writers,
  MaxRecords,      \* bound: calls of WriteRaw per writer
  RingSize,        \* capacity of the ring
  DrainBatch       \* kDrainBatch

ASSUME LogPumpAssumption ==
  MaxRecords \in Nat /\ RingSize \in Nat \ {0} /\ DrainBatch \in Nat \ {0}

VARIABLES
  ring,            \* records in the ring
  write,           \* writer -> where its call is
  records,         \* writer -> calls of WriteRaw so far
  accepted,        \* every record that entered the ring, in order
  target,          \* writer -> what its Flush waits for
  mark,            \* writer -> its own last accepted record's place, at Flush
  enqueued, dropped, written, flushed,
  pump,            \* where the pump's loop is
  batch,           \* the records it has taken and not yet counted
  round,           \* [didWork, lastBatch, lastDropped, burst] of the loop
  onSink,          \* records handed to the sinks
  durable,         \* how many of them the sinks have flushed
  warnings,
  logRunning

pumpVars == <<pump, batch, round, onSink, durable, warnings>>
logVars == <<ring, write, records, accepted, target, mark, enqueued, dropped, written,
             flushed, pump, batch, round, onSink, durable, warnings, logRunning>>

LogInit ==
  /\ ring = <<>> /\ accepted = <<>> /\ onSink = <<>> /\ batch = <<>>
  /\ write = [w \in Writers |-> "idle"]
  /\ records = [w \in Writers |-> 0]
  /\ target = [w \in Writers |-> 0] /\ mark = [w \in Writers |-> 0]
  /\ enqueued = 0 /\ dropped = 0 /\ written = 0 /\ flushed = 0
  /\ pump = "drain"
  /\ round = [didWork |-> FALSE, lastBatch |-> 0, lastDropped |-> 0, burst |-> FALSE]
  /\ durable = 0 /\ warnings = 0 /\ logRunning = TRUE

-----------------------------------------------------------------------------
(* WriteRaw: into the ring and then counted, or dropped and counted. *)
WriteRaw(w) ==
  /\ logRunning /\ write[w] = "idle" /\ records[w] < MaxRecords
  /\ records' = [records EXCEPT ![w] = @ + 1]
  /\ IF Len(ring) < RingSize
     THEN /\ ring' = Append(ring, <<w, records[w] + 1>>)
          /\ accepted' = Append(accepted, <<w, records[w] + 1>>)
          /\ write' = [write EXCEPT ![w] = "count"]
          /\ UNCHANGED dropped
     ELSE /\ dropped' = dropped + 1
          /\ UNCHANGED <<ring, accepted, write>>
  /\ UNCHANGED <<target, mark, enqueued, written, flushed, pumpVars, logRunning>>

CountRecord(w) ==
  /\ write[w] = "count"
  /\ enqueued' = enqueued + 1
  /\ write' = [write EXCEPT ![w] = "idle"]
  /\ UNCHANGED <<ring, records, accepted, target, mark, dropped, written, flushed,
                 pumpVars, logRunning>>

LastOf(w) == LET own == {i \in DOMAIN accepted : accepted[i][1] = w}
             IN  IF own = {} THEN 0 ELSE CHOOSE i \in own : \A j \in own : j <= i

Flush(w) ==
  /\ logRunning /\ write[w] = "idle"
  /\ target' = [target EXCEPT ![w] = enqueued + dropped]
  /\ mark' = [mark EXCEPT ![w] = LastOf(w)]
  /\ write' = [write EXCEPT ![w] = "flush"]
  /\ UNCHANGED <<ring, records, accepted, enqueued, dropped, written, flushed,
                 pumpVars, logRunning>>

(* It returns when the counters have caught up, or after five seconds. *)
FlushReturns(w) ==
  /\ write[w] = "flush"
  /\ flushed + dropped >= target[w]
  /\ write' = [write EXCEPT ![w] = "idle"]
  /\ UNCHANGED <<ring, records, accepted, target, mark, enqueued, dropped, written,
                 flushed, pumpVars, logRunning>>

FlushTimesOut(w) ==
  /\ write[w] = "flush"
  /\ flushed + dropped < target[w]
  /\ write' = [write EXCEPT ![w] = "idle"]
  /\ UNCHANGED <<ring, records, accepted, target, mark, enqueued, dropped, written,
                 flushed, pumpVars, logRunning>>

ShutdownLog ==
  /\ logRunning /\ \A w \in Writers : write[w] = "idle"
  /\ logRunning' = FALSE
  /\ UNCHANGED <<ring, write, records, accepted, target, mark, enqueued, dropped, written,
                 flushed, pumpVars>>

-----------------------------------------------------------------------------
Smaller(a, b) == IF a < b THEN a ELSE b

Writing == <<write, records, accepted, target, mark, enqueued, dropped, logRunning>>

(* Batches are taken until none is left, also once more after the stop. *)
TakeBatch ==
  /\ pump \in {"drain", "tail"} /\ batch = <<>> /\ ring # <<>>
  /\ LET n == Smaller(Len(ring), DrainBatch) IN
     /\ batch' = SubSeq(ring, 1, n)
     /\ ring' = SubSeq(ring, n + 1, Len(ring))
  /\ UNCHANGED <<Writing, written, flushed, pump, round, onSink, durable, warnings>>

DispatchBatch ==
  /\ batch # <<>>
  /\ onSink' = onSink \o batch
  /\ written' = written + Len(batch)
  /\ round' = IF pump = "drain" THEN [round EXCEPT !.didWork = TRUE, !.lastBatch = Len(batch)]
              ELSE round
  /\ batch' = <<>>
  /\ UNCHANGED <<Writing, ring, flushed, pump, durable, warnings>>

(* The ring was found empty; writers may fill it before the losses are read. *)
BacklogGone ==
  /\ pump = "drain" /\ batch = <<>> /\ ring = <<>>
  /\ pump' = "losses"
  /\ UNCHANGED <<Writing, ring, written, flushed, batch, round, onSink, durable, warnings>>

(* One warning per burst: again only after a round without a loss. *)
CheckOverflow ==
  /\ pump = "losses"
  /\ pump' = "sync"
  /\ IF dropped > round.lastDropped
     THEN /\ round' = [round EXCEPT !.lastDropped = dropped, !.burst = TRUE,
                                    !.didWork = @ \/ ~round.burst]
          /\ warnings' = warnings + (IF round.burst THEN 0 ELSE 1)
     ELSE /\ round' = [round EXCEPT !.burst = FALSE]
          /\ UNCHANGED warnings
  /\ UNCHANGED <<Writing, ring, written, flushed, batch, onSink, durable>>

(* The sinks are flushed when the backlog is gone or the interval is over. *)
SyncSinks(intervalOver) ==
  /\ pump = "sync"
  /\ pump' = "stop?"
  /\ IF round.didWork /\ (round.lastBatch < DrainBatch \/ intervalOver)
     THEN durable' = Len(onSink) /\ flushed' = written
     ELSE UNCHANGED <<durable, flushed>>
  /\ UNCHANGED <<Writing, ring, written, batch, round, onSink, warnings>>

\* Mutant: the pump ends as soon as it sees the flag.
NextRoundOrEnd ==
  /\ pump = "stop?"
  /\ pump' = IF logRunning THEN "drain" ELSE "ended"
  /\ round' = [round EXCEPT !.didWork = FALSE]
  /\ UNCHANGED <<Writing, ring, written, flushed, batch, onSink, durable, warnings>>

NextRound ==
  /\ pump = "stop?"
  /\ pump' = IF logRunning THEN "drain" ELSE "tail"
  /\ round' = [round EXCEPT !.didWork = FALSE]
  /\ UNCHANGED <<Writing, ring, written, flushed, batch, onSink, durable, warnings>>

PumpEnds ==
  /\ pump = "tail" /\ batch = <<>> /\ ring = <<>>
  /\ pump' = "ended"
  /\ durable' = Len(onSink) /\ flushed' = written
  /\ UNCHANGED <<Writing, ring, written, batch, round, onSink, warnings>>

-----------------------------------------------------------------------------
PumpStep == TakeBatch \/ DispatchBatch \/ BacklogGone \/ CheckOverflow \/ NextRound
            \/ PumpEnds \/ \E over \in BOOLEAN : SyncSinks(over)
WriterStep(w) == CountRecord(w) \/ FlushReturns(w)

LogNext ==
  \/ \E w \in Writers : WriteRaw(w) \/ Flush(w) \/ FlushTimesOut(w) \/ WriterStep(w)
  \/ ShutdownLog
  \/ PumpStep

(* The pump's thread runs, and a writer inside a call goes on. *)
LogFairness == WF_logVars(PumpStep) /\ \A w \in Writers : WF_logVars(CountRecord(w))
LogSpec == LogInit /\ [][LogNext]_logVars

-----------------------------------------------------------------------------
(* The sinks get every accepted record once and in the order of the ring,  *)
(* through batches, full rings and the last drain; what the counters say is *)
(* never ahead of the sinks, and a pump that has ended leaves nothing       *)
(* unwritten or unflushed.                                                  *)
NoRecordLost ==
  /\ onSink \o batch \o ring = accepted
  /\ flushed <= durable /\ durable <= Len(onSink) /\ written = Len(onSink)
  /\ pump = "ended" => Len(accepted) = durable

(* Of the losses the pump has seen, every burst is told of, and not more    *)
(* than once per lost record.                                               *)
LossIsReported ==
  /\ warnings <= round.lastDropped
  /\ round.lastDropped > 0 => warnings > 0

(* logger.h says that Flush waits until whatever was in the queue at the    *)
(* call is written and flushed ("截至调用时点已入队的日志全部落到 sink 并 flush").    *)
FlushMeansFlushed ==
  [][\A w \in Writers : FlushReturns(w) => durable >= mark[w]]_logVars

(* logger.cpp says that a pump that has caught up flushes at once.          *)
WrittenIsFlushed ==
  \A n \in 1 .. MaxRecords * Cardinality(Writers) : Len(onSink) >= n ~> durable >= n

(* Every accepted record reaches the sinks: the pump catches up, again and  *)
(* again, with whatever the writers put into the ring.                      *)
PumpedOut == Len(onSink) = Len(accepted)
AcceptedIsWritten == []<>PumpedOut
=============================================================================
