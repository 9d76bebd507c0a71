----------------------------- MODULE DurableLog -----------------------------
(***************************************************************************)
(* What the economy ledger promises (ledger.h): an append-only log behind  *)
(* a queue.  Entries become durable one at a time, in the order in which   *)
(* they were accepted, each of them once; an entry may bypass the queue    *)
(* only when the queue is empty; the queue, and nothing else, is lost when *)
(* the process dies.                                                       *)
(***************************************************************************)
EXTENDS Sequences

CONSTANT Entries

VARIABLES
    durable,      \* the log that survives
    accepted      \* accepted entries that are not durable yet, oldest first

Init == durable = <<>> /\ accepted = <<>>

Accept(e) ==
    /\ accepted' = Append(accepted, e)
    /\ UNCHANGED durable

Persist ==
    /\ accepted # <<>>
    /\ durable' = Append(durable, Head(accepted))
    /\ accepted' = Tail(accepted)

(* The step that makes the last queued entry durable may accept another.   *)
PersistLast(e) ==
    /\ Len(accepted) = 1
    /\ durable' = Append(durable, Head(accepted))
    /\ accepted' = <<e>>

PersistDirectly(e) ==
    /\ accepted = <<>>
    /\ durable' = Append(durable, e)
    /\ UNCHANGED accepted

Lose ==
    /\ accepted' = <<>>
    /\ UNCHANGED durable

Next ==
    \/ Persist
    \/ Lose
    \/ \E e \in Entries : Accept(e) \/ PersistLast(e) \/ PersistDirectly(e)

Spec == Init /\ [][Next]_<<durable, accepted>>

=============================================================================
