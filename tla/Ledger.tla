------------------------------- MODULE Ledger -------------------------------
(***************************************************************************)
(* The write side of the economy ledger: the GameNode facade that buffers  *)
(* entries and chains their hashes when it writes them (ledger.cpp), over  *)
(* the append-only store that keeps them (ledger_store.cpp).               *)
(*                                                                         *)
(* One thread at a time is inside the facade (ledger.h asks its caller for *)
(* that), but a flush is a loop of store calls: each call may be lost,     *)
(* refused or acknowledged too late, and the process may die between two   *)
(* of them.  One step of this specification is therefore one store call.   *)
(***************************************************************************)
EXTENDS Integers, Sequences, FiniteSets

CONSTANTS
    Entries,      \* the entries that callers may append
    Key,          \* Key[e]: the idempotency key of entry e
    Big,          \* the entries of more than kInlineItemDeltas item deltas
    NoEntry,      \* no entry is being appended
    Capacity,     \* slots of the ring
    MaxRetries,   \* retries of one store call
    Replays,      \* may a caller append a key it has appended already?
    LostAcks,     \* the paths on which a call may store a row and still fail
    MaxFaults,    \* bound: store calls that fail
    MaxRestarts   \* bound: process restarts

ASSUME LedgerAssumption ==
    /\ NoEntry \notin Entries
    /\ Big \subseteq Entries
    /\ Capacity \in Nat \ {0}
    /\ MaxRetries \in Nat
    /\ MaxFaults \in Nat
    /\ MaxRestarts \in Nat
    /\ Replays \in BOOLEAN
    /\ LostAcks \subseteq {"flush", "direct"}
    /\ DOMAIN Key = Entries

(* Every entry under a key of its own.                                     *)
OwnKey == [e \in Entries |-> e]

VARIABLES
    rows,         \* the store: every row in writing order
    pending,      \* the ring between head_ and head_ + count_
    lastHash,     \* last_hash_
    baseHash,     \* pending_base_hash_
    pc,           \* where the thread is: outside, in Flush or in the direct write
    arg,          \* the entry whose Append is under way
    cursor,       \* the loop variable of Flush
    running,      \* the chain head of Flush
    attempt,      \* the loop variable of WriteOne
    reply,        \* what the last completed call returned
    faults,       \* store calls that have failed
    restarts,     \* processes that have died
    origin        \* history: rows in the store when this process started

store  == <<rows, faults>>
ring   == <<pending, lastHash, baseHash>>
frame  == <<pc, arg, cursor, running, attempt>>
epoch  == <<restarts, origin>>
vars   == <<store, ring, frame, reply, epoch>>

-----------------------------------------------------------------------------
(* The hash chain.  SHA-256 over (previous hash, fields) is taken to be    *)
(* injective, so a hash is the sequence of entries it was computed from.   *)

ZeroHash == <<>>

EntryHash(prev, e) == Append(prev, e)

Row(prev, e) == [entry |-> e, prev |-> prev, hash |-> EntryHash(prev, e)]

(* What VerifyChain(0, to) computes over the rows it loads. *)
VerifyChainOf(log, base) ==
    \A i \in 1..Len(log) :
        /\ log[i].prev = IF i = 1 THEN base ELSE log[i - 1].hash
        /\ log[i].hash = EntryHash(log[i].prev, log[i].entry)

StoredKeys == {Key[rows[i].entry] : i \in 1..Len(rows)}

PendingContains(e) == \E i \in 1..Len(pending) : Key[pending[i]] = Key[e]

-----------------------------------------------------------------------------
(* The store.  A key that is present is a duplicate, not an error, and     *)
(* leaves its row alone.  A failed call leaves no row, except that its     *)
(* acknowledgement may be what was lost.                                   *)

StoreAppends(row) ==
    /\ rows' = IF Key[row.entry] \in StoredKeys THEN rows ELSE Append(rows, row)
    /\ UNCHANGED faults

StoreFails ==
    /\ faults < MaxFaults
    /\ faults' = faults + 1
    /\ UNCHANGED rows

StoreLosesAck(row) ==
    /\ pc \in LostAcks
    /\ Key[row.entry] \notin StoredKeys
    /\ faults < MaxFaults
    /\ faults' = faults + 1
    /\ rows' = Append(rows, row)

StoreFailsRetryably(row) == StoreFails \/ StoreLosesAck(row)

-----------------------------------------------------------------------------
Init ==
    /\ rows = <<>> /\ faults = 0
    /\ pending = <<>> /\ lastHash = ZeroHash /\ baseHash = ZeroHash
    /\ pc = "idle" /\ arg = NoEntry
    /\ cursor = 1 /\ running = ZeroHash /\ attempt = 0
    /\ reply = "none"
    /\ restarts = 0 /\ origin = 0

Idle ==
    /\ pc' = "idle" /\ arg' = NoEntry
    /\ cursor' = 1 /\ running' = ZeroHash /\ attempt' = 0

(* Flush starts its loop at the base of the batch, whatever was written of *)
(* the batch by an earlier flush that failed.                              *)
BeginFlush(e) ==
    /\ pc' = "flush" /\ arg' = e
    /\ cursor' = 1 /\ running' = baseHash /\ attempt' = 0
    /\ UNCHANGED <<store, ring, reply, epoch>>

BeginDirect(e) ==
    /\ pc' = "direct" /\ arg' = e
    /\ cursor' = 1 /\ running' = ZeroHash /\ attempt' = 0

(* A caller appends an entry once, unless replays are allowed.            *)
CallerMayAppend(e) == Replays \/ ~(Key[e] \in StoredKeys \/ PendingContains(e))

(* Mutant: the check for a full ring is off by one. *)
AppendInlineOverfull(e) ==
    /\ pc = "idle" /\ e \notin Big /\ CallerMayAppend(e)
    /\ Len(pending) <= Capacity
    /\ ~PendingContains(e)
    /\ pending' = Append(pending, e)
    /\ baseHash' = IF pending = <<>> THEN lastHash ELSE baseHash
    /\ reply' = "OK"
    /\ UNCHANGED <<store, lastHash, frame, epoch>>

(* Append of an entry that fits a slot, with a free slot. *)
AppendInline(e) ==
    /\ pc = "idle" /\ e \notin Big /\ CallerMayAppend(e)
    /\ Len(pending) < Capacity
    /\ ~PendingContains(e)
    /\ pending' = Append(pending, e)
    /\ baseHash' = IF pending = <<>> THEN lastHash ELSE baseHash
    /\ reply' = "OK"
    /\ UNCHANGED <<store, lastHash, frame, epoch>>

AppendDuplicate(e) ==
    /\ pc = "idle" /\ e \notin Big
    /\ Len(pending) < Capacity
    /\ PendingContains(e)
    /\ reply' = "VERSION_CONFLICT"
    /\ UNCHANGED <<store, ring, frame, epoch>>

(* Append on a full ring drains it first. *)
AppendFull(e) ==
    /\ pc = "idle" /\ e \notin Big /\ CallerMayAppend(e)
    /\ Len(pending) = Capacity
    /\ BeginFlush(e)

(* Mutant: a big entry is written around what is buffered. *)
AppendBigUndrained(e) ==
    /\ pc = "idle" /\ e \in Big /\ CallerMayAppend(e)
    /\ BeginDirect(e)
    /\ UNCHANGED <<store, ring, reply, epoch>>

(* Append of a big entry drains the ring first: the entry is written       *)
(* without passing through a slot and must not overtake what is buffered.  *)
AppendBig(e) ==
    /\ pc = "idle" /\ e \in Big /\ CallerMayAppend(e)
    /\ IF pending = <<>>
         THEN BeginDirect(e) /\ UNCHANGED <<store, ring, reply, epoch>>
         ELSE BeginFlush(e)

(* Mutant: a batch that is not full is left for the next call. *)
FlushWhenFull ==
    /\ pc = "idle"
    /\ Len(pending) = Capacity
    /\ BeginFlush(NoEntry)

Flush ==
    /\ pc = "idle"
    /\ pending # <<>>
    /\ BeginFlush(NoEntry)

-----------------------------------------------------------------------------
(* The loop of Flush: one store call of WriteOne per step. *)

FlushRow == Row(running, pending[cursor])

(* Mutant: the base of the next batch is forgotten. *)
FlushDoneKeepsBase(h) ==
    /\ lastHash' = h /\ UNCHANGED baseHash
    /\ pending' = IF arg \in Entries \ Big THEN <<arg>> ELSE <<>>
    /\ IF arg \in Big
         THEN BeginDirect(arg) /\ UNCHANGED reply
         ELSE Idle /\ reply' = "OK"

(* The batch is stored: advance the chain, empty the ring and return to    *)
(* whoever called Flush.                                                   *)
FlushDone(h) ==
    /\ lastHash' = h /\ baseHash' = h
    /\ pending' = IF arg \in Entries \ Big THEN <<arg>> ELSE <<>>
    /\ IF arg \in Big
         THEN BeginDirect(arg) /\ UNCHANGED reply
         ELSE Idle /\ reply' = "OK"

WriteOne ==
    /\ pc = "flush"
    /\ StoreAppends(FlushRow)
    /\ IF cursor = Len(pending)
         THEN FlushDone(FlushRow.hash)
         ELSE /\ cursor' = cursor + 1
              /\ running' = FlushRow.hash
              /\ attempt' = 0
              /\ UNCHANGED <<ring, pc, arg, reply>>
    /\ UNCHANGED epoch

WriteRetry ==
    /\ pc = "flush"
    /\ attempt < MaxRetries
    /\ StoreFailsRetryably(FlushRow)
    /\ attempt' = attempt + 1
    /\ UNCHANGED <<ring, pc, arg, cursor, running, reply, epoch>>

(* Mutant: the batch is dropped with the failure. *)
FlushFailsAndDrops ==
    /\ pc = "flush"
    /\ \/ attempt = MaxRetries /\ StoreFailsRetryably(FlushRow)
       \/ StoreFails
    /\ reply' = IF arg = NoEntry THEN "TIMEOUT" ELSE "BUSY"
    /\ Idle
    /\ pending' = <<>> /\ UNCHANGED <<lastHash, baseHash, epoch>>

(* WriteOne gives up: Flush keeps every entry of the batch, the written    *)
(* ones too.  A caller inside Append is told BUSY.                         *)
FlushFails ==
    /\ pc = "flush"
    /\ \/ attempt = MaxRetries /\ StoreFailsRetryably(FlushRow)
       \/ StoreFails                                  \* not retryable
    /\ reply' = IF arg = NoEntry THEN "TIMEOUT" ELSE "BUSY"
    /\ Idle
    /\ UNCHANGED <<ring, epoch>>

-----------------------------------------------------------------------------
(* The direct write of a big entry. *)

DirectRow == Row(lastHash, arg)

DirectWrite ==
    /\ pc = "direct"
    /\ StoreAppends(DirectRow)
    /\ lastHash' = DirectRow.hash /\ baseHash' = DirectRow.hash
    /\ reply' = "OK"
    /\ Idle
    /\ UNCHANGED <<pending, epoch>>

DirectRetry ==
    /\ pc = "direct"
    /\ attempt < MaxRetries
    /\ StoreFailsRetryably(DirectRow)
    /\ attempt' = attempt + 1
    /\ UNCHANGED <<ring, pc, arg, cursor, running, reply, epoch>>

DirectFails ==
    /\ pc = "direct"
    /\ \/ attempt = MaxRetries /\ StoreFailsRetryably(DirectRow)
       \/ StoreFails
    /\ reply' = "TIMEOUT"
    /\ Idle
    /\ UNCHANGED <<ring, epoch>>

-----------------------------------------------------------------------------
(* The process dies at any point and a new facade is built over the store  *)
(* that survived: the constructor starts from the zero hash.               *)
Restart ==
    /\ restarts < MaxRestarts
    /\ restarts' = restarts + 1
    /\ origin' = Len(rows)
    /\ pending' = <<>> /\ lastHash' = ZeroHash /\ baseHash' = ZeroHash
    /\ Idle
    /\ reply' = "none"
    /\ UNCHANGED store

FlushStep == WriteOne \/ WriteRetry \/ FlushFails

DirectStep == DirectWrite \/ DirectRetry \/ DirectFails

AppendStep(e) ==
    \/ AppendInline(e)
    \/ AppendDuplicate(e)
    \/ AppendFull(e)
    \/ AppendBig(e)

Next ==
    \/ \E e \in Entries : AppendStep(e)
    \/ Flush
    \/ FlushStep
    \/ DirectStep
    \/ Restart

Spec == Init /\ [][Next]_vars

(* The persistence thread keeps calling Flush, and a thread inside the     *)
(* facade keeps running; nobody has to append, and nothing has to restart. *)
Fairness == WF_vars(Flush) /\ WF_vars(FlushStep) /\ WF_vars(DirectStep)

FairSpec == Spec /\ Fairness

-----------------------------------------------------------------------------
Hashes == Seq(Entries)

Rows == [entry : Entries, prev : Hashes, hash : Hashes]

(* Every variable keeps its type and every cursor stays inside the ring.   *)
TypeOK ==
    /\ rows \in Seq(Rows)
    /\ faults \in 0..MaxFaults
    /\ pending \in Seq(Entries \ Big) /\ Len(pending) <= Capacity
    /\ lastHash \in Hashes /\ baseHash \in Hashes /\ running \in Hashes
    /\ pc \in {"idle", "flush", "direct"}
    /\ arg \in Entries \cup {NoEntry}
    /\ cursor \in Nat /\ attempt \in 0..MaxRetries
    /\ reply \in {"none", "OK", "BUSY", "TIMEOUT", "VERSION_CONFLICT"}
    /\ restarts \in 0..MaxRestarts
    /\ origin \in 0..Len(rows)
    /\ pc = "flush" => cursor \in 1..Len(pending)
    /\ pc = "direct" => arg \in Big /\ pending = <<>>
    /\ pc = "idle" => arg = NoEntry

(* The rows one process wrote are a chain from the zero hash, whatever     *)
(* calls failed, were retried or were abandoned half way (Flush, WriteOne  *)
(* and the direct write advance last_hash_ and pending_base_hash_ in step  *)
(* with the store).                                                        *)
ThisProcess == SubSeq(rows, origin + 1, Len(rows))

ChainIntact == VerifyChainOf(ThisProcess, ZeroHash)

(* The entries of a batch that the store already has.                      *)
StoredOf(batch, stored) == {i \in 1..Len(batch) : Key[batch[i]] \in stored}

(* The chain head of the facade is the last row it wrote, up to the rows   *)
(* of a batch it still retains: neither a failed flush nor a failed direct *)
(* write leaves the facade ahead of or behind the store.                   *)
HeadInStep ==
    LET written == StoredOf(pending, StoredKeys)
        head    == IF ThisProcess = <<>> THEN ZeroHash ELSE rows[Len(rows)].hash
    IN  /\ written = 1..Cardinality(written)
        /\ head = lastHash \o SubSeq(pending, 1, Cardinality(written))

(* ledger_store.h and ledger.h: VerifyChain over the whole store answers   *)
(* true.  The facade's constructor does not read the store, and a retry or *)
(* a replay that finds its key stored moves the chain all the same.        *)
WholeChainIntact == VerifyChainOf(rows, ZeroHash)

(* What the store does not have yet of a batch: its rows are written in     *)
(* order, so the ones that are stored come first.                          *)
Unstored(batch, stored) ==
    SubSeq(batch, Cardinality(StoredOf(batch, stored)) + 1, Len(batch))

(* The facade over its store implements the log that ledger.h promises: a  *)
(* retained batch that is written again, a big entry written around the    *)
(* ring, a lost acknowledgement and a restart neither reorder, repeat nor  *)
(* drop an entry.                                                          *)
Log == INSTANCE DurableLog WITH
    durable  <- [i \in 1..Len(rows) |-> rows[i].entry],
    accepted <- Unstored(pending, StoredKeys)

ImplementsLog == Log!Spec

(* What was accepted is stored in the end, unless the process dies first:  *)
(* a batch kept after a failure is written by a later flush, the entries   *)
(* that the store already holds counting as written.                       *)
AcceptedIsStored ==
    \A e \in Entries : \A n \in 0..MaxRestarts :
        (restarts = n /\ \E i \in 1..Len(pending) : pending[i] = e)
            ~> (restarts > n \/ Key[e] \in StoredKeys)

=============================================================================
