----------------------------- MODULE TaskThread ------------------------------
(* A Thread of the engine: producers post tasks into a bounded lock-free   *)
(* queue (MpmcQueue), one worker runs them, and a stop request lets the    *)
(* worker leave once it finds the queue empty.                             *)
(*                                                                         *)
(* A push loads the position, reads the cell's sequence number, takes the  *)
(* position by compare-and-swap and publishes the cell: four steps, and    *)
(* other threads run between them.  A pop takes the position and hands the *)
(* cell to the next round.  An idle worker waits at most a millisecond, so *)
(* it may always wake by itself and the notification of a producer adds no *)
(* behaviour; it is left out.                                              *)
EXTENDS Integers, Sequences, FiniteSets

CONSTANTS
  Producers,       \* threads that post
  QueueCapacity,   \* the capacity asked for
  MaxCalls         \* bound: calls of Post or PostBlocking per producer

ASSUME TaskThreadAssumption ==
  QueueCapacity \in Nat \ {0} /\ MaxCalls \in Nat

(* The capacity in use: the least power of two, two at least. *)
IsPowerOfTwo(v) == \A d \in 2 .. v : v % d = 0 => d % 2 = 0
RoundUpPow2(n) ==
  LET powers == {v \in 2 .. 2 * n : v >= n /\ IsPowerOfTwo(v)}
  IN  CHOOSE v \in powers : \A w \in powers : v <= w

QueueSize == RoundUpPow2(QueueCapacity)
CellOf(pos) == pos % QueueSize

VARIABLES
  cells,        \* cell -> its sequence number and the task in it
  enqueuePos, dequeuePos,
  post,         \* producer -> the call it is in: step, position, kind
  calls,        \* producer -> calls made so far
  worker,       \* where the worker's loop is
  running,      \* the task the worker holds
  stopping,     \* RequestStop was called
  executed,     \* the tasks run, in order
  postedOk,     \* tasks whose call returned OK
  inTime        \* those of them that returned before the stop request

queueVars == <<cells, enqueuePos, dequeuePos>>
threadVars == <<cells, enqueuePos, dequeuePos, post, calls, worker, running,
                stopping, executed, postedOk, inTime>>

NoTask == <<>>
Task(p) == <<p, calls[p]>>
Idle == [step |-> "idle", pos |-> 0, blocking |-> FALSE]

ThreadInit ==
  /\ cells = [c \in 0 .. QueueSize - 1 |-> [seq |-> c, task |-> NoTask]]
  /\ enqueuePos = 0 /\ dequeuePos = 0
  /\ post = [p \in Producers |-> Idle]
  /\ calls = [p \in Producers |-> 0]
  /\ worker = "pop" /\ running = NoTask
  /\ stopping = FALSE
  /\ executed = <<>> /\ postedOk = {} /\ inTime = {}

-----------------------------------------------------------------------------
(* Post and PostBlocking begin alike: load the enqueue position. *)
Post(p, blocking) ==
  /\ post[p].step = "idle" /\ calls[p] < MaxCalls
  /\ calls' = [calls EXCEPT ![p] = @ + 1]
  /\ post' = [post EXCEPT ![p] =
       [step |-> "look", pos |-> enqueuePos, blocking |-> blocking]]
  /\ UNCHANGED <<queueVars, worker, running, stopping, executed, postedOk, inTime>>

(* Read the cell: ours, of an earlier round (full), or overtaken. *)
LookAtCell(p) ==
  LET dif == cells[CellOf(post[p].pos)].seq - post[p].pos
  IN
  /\ post[p].step = "look"
  /\ post' = [post EXCEPT ![p] =
       IF dif = 0 THEN [@ EXCEPT !.step = "claim"]
       ELSE IF dif < 0 THEN [@ EXCEPT !.step = "full"]
       ELSE [@ EXCEPT !.pos = enqueuePos]]
  /\ UNCHANGED <<queueVars, calls, worker, running, stopping, executed, postedOk, inTime>>

(* The compare-and-swap: it takes the position or reloads it. *)
ClaimPosition(p) ==
  /\ post[p].step = "claim"
  /\ IF enqueuePos = post[p].pos
     THEN /\ enqueuePos' = enqueuePos + 1
          /\ post' = [post EXCEPT ![p].step = "publish"]
     ELSE /\ post' = [post EXCEPT ![p].step = "look", ![p].pos = enqueuePos]
          /\ UNCHANGED enqueuePos
  /\ UNCHANGED <<cells, dequeuePos, calls, worker, running, stopping, executed,
                 postedOk, inTime>>

(* The cell becomes visible and the call returns OK. *)
PublishCell(p) ==
  /\ post[p].step = "publish"
  /\ cells' = [cells EXCEPT ![CellOf(post[p].pos)] =
       [seq |-> post[p].pos + 1, task |-> Task(p)]]
  /\ post' = [post EXCEPT ![p] = Idle]
  /\ postedOk' = postedOk \cup {Task(p)}
  /\ inTime' = IF stopping THEN inTime ELSE inTime \cup {Task(p)}
  /\ UNCHANGED <<enqueuePos, dequeuePos, calls, worker, running, stopping, executed>>

(* A full queue: Post answers BUSY; PostBlocking does so when the thread is *)
(* stopping and tries again otherwise.                                      *)
QueueFull(p) ==
  /\ post[p].step = "full"
  /\ post' = [post EXCEPT ![p] =
       IF @.blocking /\ ~stopping THEN [@ EXCEPT !.step = "look", !.pos = enqueuePos]
       ELSE Idle]
  /\ UNCHANGED <<queueVars, calls, worker, running, stopping, executed, postedOk, inTime>>

RequestStop ==
  /\ ~stopping
  /\ stopping' = TRUE
  /\ UNCHANGED <<queueVars, post, calls, worker, running, executed, postedOk, inTime>>

-----------------------------------------------------------------------------
(* The worker's TryPop: the next cell when it is published. *)
CellPublished == cells[CellOf(dequeuePos)].seq = dequeuePos + 1

TakeTask ==
  /\ worker \in {"pop", "lastPop"}
  /\ CellPublished
  /\ running' = cells[CellOf(dequeuePos)].task
  /\ dequeuePos' = dequeuePos + 1
  /\ worker' = "release"
  /\ UNCHANGED <<cells, enqueuePos, post, calls, stopping, executed, postedOk, inTime>>

(* The cell is handed to the producers' next round. *)
ReleaseCell ==
  /\ worker = "release"
  /\ cells' = [cells EXCEPT ![CellOf(dequeuePos - 1)].seq = dequeuePos - 1 + QueueSize]
  /\ worker' = "run"
  /\ UNCHANGED <<enqueuePos, dequeuePos, post, calls, running, stopping, executed,
                 postedOk, inTime>>

RunTask ==
  /\ worker = "run"
  /\ executed' = Append(executed, running)
  /\ running' = NoTask
  /\ worker' = "pop"
  /\ UNCHANGED <<queueVars, post, calls, stopping, postedOk, inTime>>

(* An empty queue: read the stop flag, and then either wait or look again. *)
FindEmpty ==
  /\ worker = "pop"
  /\ ~CellPublished
  /\ worker' = "stop?"
  /\ UNCHANGED <<queueVars, post, calls, running, stopping, executed, postedOk, inTime>>

ReadStopFlag ==
  /\ worker = "stop?"
  /\ worker' = IF stopping THEN "lastPop" ELSE "wait"
  /\ UNCHANGED <<queueVars, post, calls, running, stopping, executed, postedOk, inTime>>

(* The wait ends on a task, on the stop flag or after its millisecond. *)
Wake ==
  /\ worker = "wait"
  /\ worker' = "pop"
  /\ UNCHANGED <<queueVars, post, calls, running, stopping, executed, postedOk, inTime>>

Finish ==
  /\ worker = "lastPop"
  /\ ~CellPublished
  /\ worker' = "finished"
  /\ UNCHANGED <<queueVars, post, calls, running, stopping, executed, postedOk, inTime>>

-----------------------------------------------------------------------------
RunLoop == TakeTask \/ ReleaseCell \/ RunTask \/ FindEmpty \/ ReadStopFlag \/ Wake \/ Finish
PostStep(p) == LookAtCell(p) \/ ClaimPosition(p) \/ PublishCell(p) \/ QueueFull(p)

ThreadNext ==
  \/ \E p \in Producers, blocking \in BOOLEAN : Post(p, blocking)
  \/ \E p \in Producers : PostStep(p)
  \/ RequestStop
  \/ RunLoop

ThreadSpec == ThreadInit /\ [][ThreadNext]_threadVars

(* The scheduler of the machine runs every thread: a call goes on, and so  *)
(* does the worker's loop.                                                  *)
ThreadFairness ==
  /\ \A p \in Producers : WF_threadVars(PostStep(p))
  /\ WF_threadVars(RunLoop)

-----------------------------------------------------------------------------
Executed == {executed[i] : i \in DOMAIN executed}
Queued == {cells[CellOf(q)].task : q \in {q \in dequeuePos .. enqueuePos - 1 :
                                            cells[CellOf(q)].seq = q + 1}}
Held == IF running = NoTask THEN {} ELSE {running}

(* No task is lost, doubled or overwritten inside the queue, however the   *)
(* four steps of the pushes and the steps of the worker interleave, when   *)
(* the ring wraps and when it is full: what was accepted is run, held or   *)
(* in its cell, each once.                                                 *)
TasksAccountedFor ==
  /\ Cardinality(Executed) = Len(executed)
  /\ postedOk = Executed \cup Held \cup Queued
  /\ Executed \cap Held = {} /\ (Executed \cup Held) \cap Queued = {}

(* Two tasks of one producer run in the order in which it posted them. *)
PostOrderKept ==
  \A i, j \in DOMAIN executed :
    i < j /\ executed[i][1] = executed[j][1] => executed[i][2] < executed[j][2]

(* A worker that has left owes nothing to whoever posted before the stop   *)
(* request, except what stands behind a position that another producer had *)
(* taken and not yet published: the worker takes such a queue for empty.   *)
OwesOnlyBehindUnpublished ==
  worker = "finished" =>
    \A t \in inTime \ Executed :
      /\ \E q \in dequeuePos + 1 .. enqueuePos - 1 : cells[CellOf(q)].task = t
      /\ cells[CellOf(dequeuePos)].seq = dequeuePos + 1 =>
           cells[CellOf(dequeuePos)].task \notin inTime

(* What thread.h promises of a stop: whatever was posted before the stop   *)
(* request has run when the worker has left ("已提交的任务仍会被执行完").       *)
StopRunsWhatWasPosted == worker = "finished" => inTime \subseteq Executed

(* Without a stop request every task that was accepted runs in the end:    *)
(* neither a full ring nor a producer that stands between taking and       *)
(* publishing a position starves it.                                       *)
CaughtUp == stopping \/ postedOk \subseteq Executed
AcceptedRuns == []<>CaughtUp
=============================================================================
