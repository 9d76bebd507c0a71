--------------------------- MODULE PlayersProofs ----------------------------
(* Theorems about what the players of a game node have, for every value of  *)
(* the constants: their groups, mail, quests, characters and bags, and the  *)
(* keys and the ledger that their commands are recorded under and in.  Each *)
(* system has an inductive invariant (...IInv), lemmas that say that it     *)
(* holds at first, that every step of the system keeps it and what it       *)
(* implies.                                                                 *)
EXTENDS Social, Quests, Characters, Idempotency, Ledger, DataLemmas

------------------------------------------------------------------------------
(* Every variable keeps its type in every step.                             *)

LEMMA RowIsTyped ==
  ASSUME NEW prev \in Hashes, NEW e \in Entries
  PROVE  Row(prev, e) \in Rows /\ Row(prev, e).hash \in Hashes
BY DEF Row, Rows, Hashes, EntryHash

LEMMA StoreIsTyped ==
  ASSUME rows \in Seq(Rows), faults \in 0..MaxFaults, NEW row \in Rows,
         StoreAppends(row) \/ StoreFails \/ StoreFailsRetryably(row)
  PROVE  /\ rows' \in Seq(Rows) /\ faults' \in 0..MaxFaults
         /\ Len(rows) <= Len(rows')
BY LedgerAssumption DEF StoreAppends, StoreFails, StoreFailsRetryably, StoreLosesAck

LEMMA TypeInit == Init => TypeOK
BY LedgerAssumption DEF Init, TypeOK, ZeroHash, Hashes

LEMMA TypeStep == TypeOK /\ [Next]_vars => TypeOK'
<1> SUFFICES ASSUME TypeOK, [Next]_vars PROVE TypeOK' OBVIOUS
<1> USE LedgerAssumption
<1>1. ASSUME NEW e \in Entries, AppendInline(e) PROVE TypeOK'
  BY <1>1 DEF TypeOK, AppendInline, store, frame, epoch, Hashes
<1>2. ASSUME NEW e \in Entries, AppendDuplicate(e) PROVE TypeOK'
  BY <1>2 DEF TypeOK, AppendDuplicate, store, ring, frame, epoch
<1>3. ASSUME NEW e \in Entries, AppendFull(e) PROVE TypeOK'
  BY <1>3 DEF TypeOK, AppendFull, BeginFlush, store, ring, epoch
<1>4. ASSUME NEW e \in Entries, AppendBig(e) PROVE TypeOK'
  <2>1. CASE pending = <<>>
    BY <1>4, <2>1 DEF TypeOK, AppendBig, BeginDirect, store, ring, epoch, ZeroHash, Hashes
  <2>2. CASE pending # <<>> BY <1>4, <2>2 DEF TypeOK, AppendBig, BeginFlush, store, ring, epoch
  <2>3. QED BY <2>1, <2>2
<1>5. CASE Flush BY <1>5 DEF TypeOK, Flush, BeginFlush, store, ring, epoch
<1>6. CASE WriteOne
  <2> DEFINE row == FlushRow
  <2>1. row \in Rows /\ row.hash \in Hashes BY <1>6, RowIsTyped DEF WriteOne, TypeOK, FlushRow
  <2>2. rows' \in Seq(Rows) /\ faults' \in 0..MaxFaults /\ Len(rows) <= Len(rows')
    BY <1>6, <2>1, StoreIsTyped DEF WriteOne, TypeOK
  <2>3. CASE cursor = Len(pending) /\ arg \in Big
    BY <1>6, <2>1, <2>2, <2>3
       DEF WriteOne, TypeOK, FlushDone, BeginDirect, epoch, ZeroHash, Hashes
  <2>4. CASE cursor = Len(pending) /\ arg \notin Big
    <3>1. pending' \in Seq(Entries \ Big) /\ Len(pending') <= Capacity
      <4>1. pending' = IF arg \in Entries \ Big THEN <<arg>> ELSE <<>>
        BY <1>6, <2>4 DEF WriteOne, FlushDone
      <4>2. CASE arg \in Entries \ Big BY <4>1, <4>2
      <4>3. CASE arg \notin Entries \ Big BY <4>1, <4>3
      <4>4. QED BY <4>2, <4>3
    <3>2. QED
      BY <1>6, <2>1, <2>2, <2>4, <3>1 DEF TypeOK, Hashes, WriteOne, FlushDone, Idle, ZeroHash, epoch
  <2>5. CASE cursor # Len(pending) BY <1>6, <2>1, <2>2, <2>5 DEF WriteOne, TypeOK, ring, epoch
  <2>6. QED BY <2>3, <2>4, <2>5
<1>7. CASE WriteRetry \/ FlushFails
  <2>1. rows' \in Seq(Rows) /\ faults' \in 0..MaxFaults /\ Len(rows) <= Len(rows')
    BY <1>7, RowIsTyped, StoreIsTyped DEF WriteRetry, FlushFails, TypeOK, FlushRow
  <2>2. CASE WriteRetry BY <2>1, <2>2 DEF WriteRetry, TypeOK, ring, epoch
  <2>3. CASE FlushFails
    <3>1. /\ pc' = "idle" /\ arg' = NoEntry /\ cursor' = 1 /\ attempt' = 0
          /\ running' = <<>>
          /\ UNCHANGED <<pending, lastHash, baseHash, restarts, origin>>
      BY <2>3 DEF FlushFails, Idle, ZeroHash, ring, epoch
    <3>2. QED BY <2>1, <2>3, <3>1 DEF TypeOK, Hashes, FlushFails
  <2>4. QED BY <1>7, <2>2, <2>3
<1>8. CASE DirectStep
  <2>1. DirectRow \in Rows /\ DirectRow.hash \in Hashes
    BY <1>8, RowIsTyped
       DEF DirectStep, DirectWrite, DirectRetry, DirectFails, TypeOK, DirectRow
  <2>2. rows' \in Seq(Rows) /\ faults' \in 0..MaxFaults /\ Len(rows) <= Len(rows')
    BY <1>8, <2>1, StoreIsTyped
       DEF DirectStep, DirectWrite, DirectRetry, DirectFails, TypeOK
  <2>3. CASE DirectWrite
    BY <2>1, <2>2, <2>3 DEF DirectWrite, Idle, TypeOK, epoch, ZeroHash, Hashes
  <2>4. CASE DirectRetry BY <2>2, <2>4 DEF DirectRetry, TypeOK, ring, epoch
  <2>5. CASE DirectFails
    <3>1. /\ pc' = "idle" /\ arg' = NoEntry /\ cursor' = 1 /\ attempt' = 0
          /\ running' = <<>>
          /\ UNCHANGED <<pending, lastHash, baseHash, restarts, origin>>
      BY <2>5 DEF DirectFails, Idle, ZeroHash, ring, epoch
    <3> QED BY <2>2, <2>5, <3>1 DEF TypeOK, Hashes, DirectFails
  <2>6. QED BY <1>8, <2>3, <2>4, <2>5 DEF DirectStep
<1>9. CASE Restart BY <1>9 DEF TypeOK, Restart, Idle, store, ZeroHash, Hashes
<1>10. CASE UNCHANGED vars BY <1>10 DEF TypeOK, vars, store, ring, frame, epoch
<1>11. QED
  BY <1>1, <1>2, <1>3, <1>4, <1>5, <1>6, <1>7, <1>8, <1>9, <1>10
     DEF Next, AppendStep, FlushStep

(* The facade never indexes outside its ring and never writes a big entry   *)
(* past a buffered one: TypeOK, with its clauses on pc, holds of every      *)
(* behaviour of Ledger.                                                     *)
THEOREM LedgerTypeCorrect == Spec => []TypeOK
<1>1. QED BY TypeInit, TypeStep, PTL DEF Spec

------------------------------------------------------------------------------
(* The chain.  The theorems below are about callers that append a key once  *)
(* and a store that never loses the acknowledgement of a direct write.      *)

Assumption == Replays = FALSE /\ "direct" \notin LostAcks

Tip == IF Len(rows) = origin THEN ZeroHash ELSE rows[Len(rows)].hash

Chained ==
    \A i \in origin + 1..Len(rows) :
        /\ rows[i].prev = IF i = origin + 1 THEN ZeroHash ELSE rows[i - 1].hash
        /\ rows[i].hash = EntryHash(rows[i].prev, rows[i].entry)

Distinct ==
    \A i, j \in 1..Len(pending) : i # j => Key[pending[i]] # Key[pending[j]]

ArgIsNew == arg \in Entries => Key[arg] \notin StoredKeys /\ ~PendingContains(arg)

(* The store has the first k entries of the batch, and no other.            *)
Written(k) ==
    /\ Tip = lastHash \o SubSeq(pending, 1, k)
    /\ \A i \in 1..Len(pending) : Key[pending[i]] \in StoredKeys <=> i <= k
    /\ pc = "flush" => /\ cursor <= k + 1
                       /\ running = lastHash \o SubSeq(pending, 1, cursor - 1)

IInv ==
    /\ TypeOK
    /\ Chained
    /\ Distinct
    /\ ArgIsNew
    /\ baseHash = lastHash
    /\ \E k \in 0..Len(pending) : Written(k)

(* Chaining one more entry of a batch onto a head.                          *)
LEMMA ChainExtends ==
  ASSUME NEW h \in Hashes, NEW p \in Seq(Entries), NEW c \in 1..Len(p)
  PROVE  EntryHash(h \o SubSeq(p, 1, c - 1), p[c]) = h \o SubSeq(p, 1, c)
<1> DEFINE s == SubSeq(p, 1, c - 1)
<1>1. s \in Seq(Entries) BY SubSeqProperties
<1>2. p[c] \in Entries /\ <<p[c]>> \in Seq(Entries) OBVIOUS
<1>3. SubSeq(p, 1, c) = s \o <<p[c]>> BY SubSeqRecursiveSecond
<1>4. Append(h \o s, p[c]) = (h \o s) \o <<p[c]>>
  BY <1>1, <1>2, ConcatProperties, AppendIsConcat DEF Hashes
<1>5. (h \o s) \o <<p[c]>> = h \o (s \o <<p[c]>>)
  <2> HIDE DEF s
  <2>1. h \in Seq(Entries) BY DEF Hashes
  <2>2. QED BY <1>1, <1>2, <2>1, ConcatAssociative
<1>6. QED BY <1>3, <1>4, <1>5 DEF EntryHash

LEMMA EmptyPrefix ==
  ASSUME NEW h \in Hashes, NEW p
  PROVE  h \o SubSeq(p, 1, 0) = h
<1>1. QED BY SubSeqEmpty, ConcatEmptySeq DEF Hashes

(* A row computed from the tip extends the chain and becomes the tip.       *)
LEMMA RowExtendsChain ==
  ASSUME TypeOK, Chained, NEW e \in Entries,
         rows' = Append(rows, Row(Tip, e)), origin' = origin
  PROVE  /\ Chained'
         /\ Tip' = EntryHash(Tip, e)
         /\ StoredKeys' = StoredKeys \cup {Key[e]}
<1> DEFINE row == Row(Tip, e)  n == Len(rows)
<1>1. rows \in Seq(Rows) /\ n \in Nat /\ origin \in 0..n BY DEF TypeOK
<1>2. row.prev = Tip /\ row.hash = EntryHash(Tip, e) /\ row.entry = e BY DEF Row
<1>3. /\ Len(rows') = n + 1
      /\ rows'[n + 1] = row
      /\ \A i \in 1..n : rows'[i] = rows[i]
  BY <1>1
<1> HIDE DEF row
<1>4. Chained'
  <2> SUFFICES ASSUME NEW i \in origin + 1..n + 1
               PROVE  /\ rows'[i].prev = IF i = origin + 1 THEN ZeroHash
                                         ELSE rows'[i - 1].hash
                      /\ rows'[i].hash = EntryHash(rows'[i].prev, rows'[i].entry)
    BY <1>3 DEF Chained
  <2>1. CASE i = n + 1 BY <1>1, <1>2, <1>3, <2>1 DEF Tip
  <2>2. CASE i \in origin + 1..n BY <1>1, <1>3, <2>2 DEF Chained
  <2>3. QED BY <1>1, <2>1, <2>2
<1>5. StoredKeys' = StoredKeys \cup {Key[e]}
  <2>1. \A key : key \in StoredKeys <=> \E i \in 1..n : key = Key[rows[i].entry]
    BY DEF StoredKeys
  <2>2. \A key : key \in StoredKeys' <=> key \in StoredKeys \/ key = Key[e]
    BY <1>1, <1>2, <1>3, <2>1 DEF StoredKeys
  <2>3. QED BY <2>2
<1>6. QED BY <1>1, <1>2, <1>3, <1>4, <1>5 DEF Tip

(* Whatever a store call of Flush does, the store still has a prefix of     *)
(* the batch, and has its entry under the cursor if the call succeeded.     *)
LEMMA FlushCall ==
  ASSUME IInv, pc = "flush", origin' = origin,
         StoreAppends(FlushRow) \/ StoreFails \/ StoreFailsRetryably(FlushRow)
  PROVE  /\ Chained'
         /\ arg \in Entries => Key[arg] \notin StoredKeys'
         /\ \E k \in 0..Len(pending) :
               /\ Tip' = lastHash \o SubSeq(pending, 1, k)
               /\ \A i \in 1..Len(pending) :
                      Key[pending[i]] \in StoredKeys' <=> i <= k
               /\ cursor <= k + 1
               /\ StoreAppends(FlushRow) => cursor <= k
<1> DEFINE e == pending[cursor]
<1>1. PICK k \in 0..Len(pending) : Written(k) BY DEF IInv
<1>2. /\ cursor \in 1..Len(pending) /\ Len(pending) \in Nat
      /\ pending \in Seq(Entries) /\ e \in Entries
      /\ lastHash \in Hashes /\ rows \in Seq(Rows) /\ TypeOK
  BY SeqMonotonic DEF IInv, TypeOK
<1>3. /\ Tip = lastHash \o SubSeq(pending, 1, k)
      /\ \A i \in 1..Len(pending) : Key[pending[i]] \in StoredKeys <=> i <= k
      /\ cursor <= k + 1
      /\ running = lastHash \o SubSeq(pending, 1, cursor - 1)
  BY <1>1 DEF Written
<1>4. FlushRow = Row(running, e) /\ FlushRow.entry = e BY DEF FlushRow, Row
<1>5. CASE rows' = rows /\ (StoreAppends(FlushRow) => cursor <= k)
  BY <1>3, <1>5 DEF IInv, ArgIsNew, Chained, Tip, StoredKeys
<1>6. CASE rows' = Append(rows, FlushRow) /\ Key[e] \notin StoredKeys
  <2>1. cursor = k + 1 BY <1>2, <1>3, <1>6
  <2>2. running = Tip BY <1>3, <2>1
  <2>3. Chained' /\ Tip' = EntryHash(Tip, e) /\ StoredKeys' = StoredKeys \cup {Key[e]}
    BY <1>2, <1>4, <1>6, <2>2, RowExtendsChain DEF IInv
  <2>4. Tip' = lastHash \o SubSeq(pending, 1, cursor) BY <1>2, <1>3, <2>2, <2>3, ChainExtends
  <2>5. \A i \in 1..Len(pending) : Key[pending[i]] \in StoredKeys' <=> i <= cursor
    BY <1>2, <1>3, <2>1, <2>3 DEF IInv, Distinct
  <2>6. arg \in Entries => Key[arg] \notin StoredKeys'
    BY <1>2, <2>3 DEF IInv, ArgIsNew, PendingContains
  <2>7. cursor \in 0..Len(pending) /\ cursor <= cursor + 1 /\ cursor <= cursor BY <1>2
  <2>8. QED BY <2>3, <2>4, <2>5, <2>6, <2>7
<1>7. QED
  BY <1>2, <1>3, <1>4, <1>5, <1>6 DEF StoreAppends, StoreFails, StoreFailsRetryably, StoreLosesAck

LEMMA InvInit == Init => IInv
<1> SUFFICES ASSUME Init PROVE IInv OBVIOUS
<1>1. TypeOK BY TypeInit
<1>2. rows = <<>> /\ pending = <<>> /\ origin = 0 /\ lastHash = <<>> /\ pc = "idle"
  BY DEF Init, ZeroHash
<1>3. Chained /\ Distinct /\ Tip = <<>> /\ StoredKeys = {}
  BY <1>2 DEF Chained, Distinct, Tip, StoredKeys, ZeroHash
<1>4. Written(0) BY <1>1, <1>2, <1>3, EmptyPrefix DEF Written, TypeOK
<1>5. QED BY <1>1, <1>2, <1>3, <1>4, LedgerAssumption DEF IInv, Init, ArgIsNew

LEMMA InvStep == Assumption /\ IInv /\ [Next]_vars => IInv'
<1> SUFFICES ASSUME Assumption, IInv, [Next]_vars PROVE IInv' OBVIOUS
<1>1. TypeOK' BY TypeStep DEF IInv
<1>2. PICK k \in 0..Len(pending) : Written(k) BY DEF IInv
<1>3. /\ TypeOK /\ Chained /\ Distinct /\ ArgIsNew /\ baseHash = lastHash
      /\ pending \in Seq(Entries \ Big) /\ pending \in Seq(Entries)
      /\ Len(pending) \in Nat
      /\ lastHash \in Hashes /\ rows \in Seq(Rows) /\ origin \in 0..Len(rows)
      /\ NoEntry \notin Entries
  BY LedgerAssumption, SeqMonotonic DEF IInv, TypeOK
<1>4. lastHash \o SubSeq(pending, 1, 0) = lastHash BY <1>3, EmptyPrefix
<1>5. ASSUME rows' = rows, origin' = origin
      PROVE  Chained' /\ Tip' = Tip /\ StoredKeys' = StoredKeys
  BY <1>3, <1>5 DEF Chained, Tip, StoredKeys
<1>6. ASSUME NEW e \in Entries, AppendInline(e) PROVE IInv'
  <2>1. /\ Key[e] \notin StoredKeys /\ ~PendingContains(e)
        /\ pending' = Append(pending, e)
        /\ rows' = rows /\ origin' = origin /\ lastHash' = lastHash
        /\ pc = "idle" /\ pc' = pc /\ arg' = arg
    BY <1>6 DEF AppendInline, CallerMayAppend, Assumption, store, frame, epoch
  <2>2. baseHash' = lastHash' BY <1>3, <1>6, <2>1 DEF AppendInline
  <2>3. Chained' /\ Tip' = Tip /\ StoredKeys' = StoredKeys BY <1>5, <2>1
  <2>4. /\ Len(pending') = Len(pending) + 1
        /\ pending'[Len(pending) + 1] = e
        /\ \A i \in 1..Len(pending) : pending'[i] = pending[i]
    BY <1>3, <2>1
  <2>5. Distinct' BY <1>3, <2>1, <2>4 DEF Distinct, PendingContains
  <2>6. ArgIsNew' BY <1>3, <2>1 DEF ArgIsNew, TypeOK
  <2>7. SubSeq(pending', 1, k) = SubSeq(pending, 1, k)
    <3>1. /\ SubSeq(pending, 1, k) \in Seq(Entries)
          /\ SubSeq(pending', 1, k) \in Seq(Entries)
          /\ Len(SubSeq(pending, 1, k)) = k /\ Len(SubSeq(pending', 1, k)) = k
          /\ \A i \in 1..k : SubSeq(pending', 1, k)[i] = SubSeq(pending, 1, k)[i]
      BY <1>3, <2>4, SubSeqProperties
    <3>2. QED BY <3>1, SeqEqual
  <2>8. Written(k)'
    <3>1. Tip' = lastHash' \o SubSeq(pending', 1, k) BY <1>2, <2>1, <2>3, <2>7 DEF Written
    <3>2. QED BY <1>2, <1>3, <2>1, <2>3, <2>4, <3>1 DEF Written
  <2>9. k \in 0..Len(pending') BY <1>3, <2>4
  <2>10. QED BY <1>1, <2>2, <2>3, <2>5, <2>6, <2>8, <2>9 DEF IInv
<1>7. ASSUME NEW e \in Entries \cup {NoEntry}, BeginFlush(e),
             e \in Entries => CallerMayAppend(e)
      PROVE  IInv'
  <2>1. /\ pending' = pending /\ rows' = rows /\ origin' = origin
        /\ lastHash' = lastHash /\ baseHash' = baseHash
        /\ arg' = e /\ cursor' = 1 /\ running' = lastHash
    BY <1>3, <1>7 DEF BeginFlush, store, ring, epoch
  <2>2. Chained' /\ Tip' = Tip /\ StoredKeys' = StoredKeys BY <1>5, <2>1
  <2>3. Written(k)' BY <1>2, <1>3, <1>4, <2>1, <2>2 DEF Written
  <2>4. QED
    BY <1>1, <1>3, <1>7, <2>1, <2>2, <2>3 DEF IInv, Distinct, ArgIsNew, PendingContains,
       CallerMayAppend, Assumption
<1>8. ASSUME NEW e \in Entries, AppendBig(e), pending = <<>> PROVE IInv'
  <2>1. /\ pending' = pending /\ rows' = rows /\ origin' = origin
        /\ lastHash' = lastHash /\ baseHash' = baseHash
        /\ arg' = e /\ pc' = "direct"
    BY <1>8 DEF AppendBig, BeginDirect, store, ring, epoch
  <2>2. Chained' /\ Tip' = Tip /\ StoredKeys' = StoredKeys BY <1>5, <2>1
  <2>3. Written(k)' BY <1>2, <2>1, <2>2 DEF Written
  <2>4. QED
    BY <1>1, <1>3, <1>8, <2>1, <2>2, <2>3 DEF IInv, Distinct, ArgIsNew, AppendBig, PendingContains,
       CallerMayAppend, Assumption
<1>9. CASE FlushStep
  <2>1. pc = "flush" /\ origin' = origin
    BY <1>9 DEF FlushStep, WriteOne, WriteRetry, FlushFails, epoch
  <2>2. StoreAppends(FlushRow) \/ StoreFails \/ StoreFailsRetryably(FlushRow)
    BY <1>9 DEF FlushStep, WriteOne, WriteRetry, FlushFails
  <2>3. Chained' /\ (arg \in Entries => Key[arg] \notin StoredKeys') BY <2>1, <2>2, FlushCall
  <2>4. PICK j \in 0..Len(pending) :
            /\ Tip' = lastHash \o SubSeq(pending, 1, j)
            /\ \A i \in 1..Len(pending) : Key[pending[i]] \in StoredKeys' <=> i <= j
            /\ cursor <= j + 1
            /\ StoreAppends(FlushRow) => cursor <= j
    BY <2>1, <2>2, FlushCall
  <2>5. cursor \in 1..Len(pending) BY <1>3, <2>1 DEF TypeOK
  <2>6. running = lastHash \o SubSeq(pending, 1, cursor - 1) BY <1>2, <2>1 DEF Written
  <2>7. ASSUME pending' = pending, lastHash' = lastHash, baseHash' = baseHash,
               arg' = arg \/ arg' = NoEntry,
               pc' = "flush" => /\ cursor' <= j + 1
                                /\ running' = lastHash \o SubSeq(pending, 1, cursor' - 1)
        PROVE  IInv'
    <3>1. Written(j)' BY <2>4, <2>7 DEF Written
    <3>2. QED BY <1>1, <1>3, <2>3, <2>7, <3>1 DEF IInv, Distinct, ArgIsNew, PendingContains
  <2>8. CASE WriteOne
    <3>1. FlushRow.hash = lastHash \o SubSeq(pending, 1, cursor)
      BY <1>3, <2>5, <2>6, ChainExtends DEF FlushRow, Row
    <3>2. cursor <= j BY <2>4, <2>8 DEF WriteOne
    <3>3. CASE cursor # Len(pending)
      <4>1. /\ cursor' = cursor + 1 /\ running' = FlushRow.hash
            /\ pending' = pending /\ lastHash' = lastHash /\ baseHash' = baseHash
            /\ arg' = arg
        BY <2>8, <3>3 DEF WriteOne, ring
      <4>2. QED BY <2>5, <2>7, <3>1, <3>2, <4>1
    <3>4. CASE cursor = Len(pending)
      <4>1. /\ lastHash' = FlushRow.hash /\ baseHash' = FlushRow.hash
            /\ pending' = IF arg \in Entries \ Big THEN <<arg>> ELSE <<>>
            /\ arg \in Big => pc' = "direct" /\ arg' = arg
            /\ arg \notin Big => pc' = "idle" /\ arg' = NoEntry
        BY <2>8, <3>4 DEF WriteOne, FlushDone, BeginDirect, Idle
      <4>2. Tip' = lastHash' BY <2>4, <2>5, <3>1, <3>2, <3>4, <4>1
      <4>3. lastHash' \o SubSeq(pending', 1, 0) = lastHash' BY <1>1, EmptyPrefix DEF TypeOK
      <4>4. /\ Len(pending') \in Nat
            /\ \A i \in 1..Len(pending') : i = 1 /\ arg \in Entries \ Big /\ pending'[i] = arg
        <5>1. CASE arg \in Entries \ Big BY <4>1, <5>1
        <5>2. CASE arg \notin Entries \ Big BY <4>1, <5>2
        <5>3. QED BY <5>1, <5>2
      <4>5. Distinct' BY <4>4 DEF Distinct
      <4>6. ArgIsNew' BY <1>3, <2>3, <4>1, <4>4 DEF ArgIsNew, PendingContains
      <4>7. Written(0)' BY <2>3, <4>1, <4>2, <4>3, <4>4 DEF Written
      <4>8. QED BY <1>1, <2>3, <4>1, <4>4, <4>5, <4>6, <4>7 DEF IInv
    <3>5. QED BY <3>3, <3>4
  <2>9. CASE WriteRetry BY <2>1, <2>4, <2>6, <2>7, <2>9 DEF WriteRetry, ring
  <2>10. CASE FlushFails BY <2>7, <2>10 DEF FlushFails, Idle, ring
  <2>11. QED BY <1>9, <2>8, <2>9, <2>10 DEF FlushStep
<1>10. CASE DirectStep
  <2>1. /\ pc = "direct" /\ origin' = origin /\ pending' = pending /\ pending = <<>>
        /\ arg \in Entries
    BY <1>3, <1>10, LedgerAssumption
       DEF DirectStep, DirectWrite, DirectRetry, DirectFails, TypeOK, ring, epoch
  <2>2. Len(pending) = 0 /\ k = 0 BY <2>1
  <2>3. Distinct' BY <2>1, <2>2 DEF Distinct
  <2>4. CASE DirectWrite
    <3>1. /\ rows' = Append(rows, Row(Tip, arg))
          /\ lastHash' = EntryHash(Tip, arg) /\ baseHash' = lastHash'
          /\ pc' = "idle" /\ arg' = NoEntry
      BY <1>2, <1>3, <1>4, <2>1, <2>2, <2>4 DEF DirectWrite, StoreAppends, DirectRow, Row, Idle,
         ArgIsNew, Written
    <3>2. Chained' /\ Tip' = lastHash' BY <1>3, <2>1, <3>1, RowExtendsChain
    <3>3. Written(0)' BY <1>1, <2>1, <2>2, <3>1, <3>2, EmptyPrefix DEF Written, TypeOK
    <3>4. ArgIsNew' BY <1>3, <3>1 DEF ArgIsNew
    <3>5. QED BY <1>1, <2>1, <2>2, <2>3, <3>1, <3>2, <3>3, <3>4 DEF IInv
  <2>5. CASE DirectRetry \/ DirectFails
    <3>1. /\ rows' = rows /\ lastHash' = lastHash /\ baseHash' = baseHash
          /\ pc' # "flush" /\ (arg' = arg \/ arg' = NoEntry)
      BY <2>1, <2>5
         DEF DirectRetry, DirectFails, StoreFailsRetryably, StoreFails,
             StoreLosesAck, Idle, ring, Assumption
    <3>2. Chained' /\ Tip' = Tip /\ StoredKeys' = StoredKeys BY <1>5, <2>1, <3>1
    <3>3. ArgIsNew' BY <1>3, <2>1, <3>1, <3>2 DEF ArgIsNew, PendingContains
    <3>4. Written(k)' BY <1>2, <2>1, <3>1, <3>2 DEF Written
    <3>5. QED BY <1>1, <1>3, <2>1, <2>3, <3>1, <3>2, <3>3, <3>4 DEF IInv
  <2>6. QED BY <1>10, <2>4, <2>5 DEF DirectStep
<1>11. CASE Restart
  <2>1. /\ rows' = rows /\ origin' = Len(rows) /\ pending' = <<>>
        /\ lastHash' = <<>> /\ baseHash' = <<>> /\ pc' = "idle" /\ arg' = NoEntry
    BY <1>11 DEF Restart, Idle, store, ZeroHash
  <2>2. Chained' /\ Tip' = <<>> /\ Distinct' /\ ArgIsNew'
    BY <1>3, <2>1 DEF Chained, Tip, Distinct, ArgIsNew, ZeroHash
  <2>3. Written(0)' BY <1>1, <2>1, <2>2, EmptyPrefix DEF Written, TypeOK
  <2>4. QED BY <1>1, <2>1, <2>2, <2>3 DEF IInv
<1>12. ASSUME UNCHANGED <<rows, pending, lastHash, baseHash, pc, arg, cursor, running, origin>>
       PROVE  IInv'
  <2>1. Chained' /\ Tip' = Tip /\ StoredKeys' = StoredKeys BY <1>5, <1>12
  <2>2. QED
    BY <1>1, <1>2, <1>3, <1>12, <2>1 DEF IInv, Distinct, ArgIsNew, PendingContains, Written
<1>13. ASSUME NEW e \in Entries, AppendStep(e) PROVE IInv'
  <2>1. CASE AppendDuplicate(e) BY <1>12, <2>1 DEF AppendDuplicate, store, ring, frame, epoch
  <2>2. CASE AppendFull(e) BY <1>7, <2>2 DEF AppendFull
  <2>3. CASE AppendBig(e) /\ pending # <<>> BY <1>7, <2>3 DEF AppendBig
  <2>4. QED BY <1>6, <1>8, <1>13, <2>1, <2>2, <2>3 DEF AppendStep
<1>14. CASE Flush BY <1>3, <1>7, <1>14 DEF Flush
<1>15. CASE UNCHANGED vars BY <1>12, <1>15 DEF vars, store, ring, frame, epoch
<1>16. QED BY <1>9, <1>10, <1>11, <1>13, <1>14, <1>15 DEF Next

LEMMA InvCorrect == ASSUME Assumption PROVE Spec => []IInv
<1>1. IInv /\ [Next]_vars => IInv' BY Assumption, InvStep
<1>2. QED BY InvInit, <1>1, PTL DEF Spec

------------------------------------------------------------------------------
(* IInv implies the two properties that runs check.                         *)

LEMMA InvChain == IInv => ChainIntact
<1> SUFFICES ASSUME IInv, NEW i \in 1..Len(ThisProcess)
             PROVE  /\ ThisProcess[i].prev = IF i = 1 THEN ZeroHash
                                             ELSE ThisProcess[i - 1].hash
                    /\ ThisProcess[i].hash
                          = EntryHash(ThisProcess[i].prev, ThisProcess[i].entry)
  BY DEF ChainIntact, VerifyChainOf
<1>1. rows \in Seq(Rows) /\ origin \in 0..Len(rows) /\ Len(rows) \in Nat /\ Chained
  BY DEF IInv, TypeOK
<1>2. /\ Len(ThisProcess) = Len(rows) - origin
      /\ \A n \in 1..Len(rows) - origin : ThisProcess[n] = rows[origin + n]
  BY <1>1, SubSeqProperties DEF ThisProcess
<1>3. origin + i \in origin + 1..Len(rows) /\ i \in 1..Len(rows) - origin BY <1>1, <1>2
<1>4. /\ rows[origin + i].prev = IF i = 1 THEN ZeroHash ELSE rows[origin + i - 1].hash
      /\ rows[origin + i].hash = EntryHash(rows[origin + i].prev, rows[origin + i].entry)
  BY <1>1, <1>3 DEF Chained
<1>5. QED BY <1>1, <1>2, <1>3, <1>4

LEMMA InvHead == IInv => HeadInStep
<1> SUFFICES ASSUME IInv PROVE HeadInStep OBVIOUS
<1> DEFINE written == StoredOf(pending, StoredKeys)
<1>1. PICK k \in 0..Len(pending) : Written(k) BY DEF IInv
<1>2. rows \in Seq(Rows) /\ origin \in 0..Len(rows) /\ Len(pending) \in Nat BY DEF IInv, TypeOK
<1>3. written = 1..k BY <1>1, <1>2 DEF Written, StoredOf
<1>4. Cardinality(written) = k
  <2> HIDE DEF written
  <2>1. QED BY <1>2, <1>3, FS_Interval
<1>5. (ThisProcess = <<>>) <=> (Len(rows) = origin)
  <2>1. /\ ThisProcess \in Seq(Rows)
        /\ Len(ThisProcess) = IF origin + 1 <= Len(rows) THEN Len(rows) - origin ELSE 0
    BY <1>2, SubSeqProperties DEF ThisProcess
  <2>2. QED BY <1>2, <2>1, EmptySeq
<1>6. Tip = IF ThisProcess = <<>> THEN ZeroHash ELSE rows[Len(rows)].hash BY <1>5 DEF Tip
<1>7. Tip = lastHash \o SubSeq(pending, 1, k) BY <1>1 DEF Written
<1> HIDE DEF written
<1>8. QED BY <1>3, <1>4, <1>6, <1>7 DEF HeadInStep, written

(* The rows that one process writes are always a hash chain: of callers     *)
(* that append a key once, no failed, retried, half-written or repeated     *)
(* flush and no direct write can break it (Flush, WriteOne, Append).        *)
THEOREM LedgerChainCorrect == ASSUME Assumption PROVE Spec => []ChainIntact
BY InvCorrect, InvChain, PTL

(* last_hash_ is the hash of the last row, but for the rows of a batch      *)
(* that is retained after a failed flush and written again.                 *)
THEOREM LedgerHeadCorrect == ASSUME Assumption PROVE Spec => []HeadInStep
BY InvCorrect, InvHead, PTL

------------------------------------------------------------------------------
(* The facade over its store implements DurableLog.  By IInv the stored     *)
(* rows of a batch are its first k, so what is still queued is the rest.    *)

LEMMA UnstoredIsSuffix ==
  ASSUME NEW batch \in Seq(Entries), NEW stored, NEW k \in 0..Len(batch),
         \A i \in 1..Len(batch) : Key[batch[i]] \in stored <=> i <= k
  PROVE  Unstored(batch, stored) = SubSeq(batch, k + 1, Len(batch))
<1>1. Len(batch) \in Nat OBVIOUS
<1>2. StoredOf(batch, stored) = 1..k BY <1>1 DEF StoredOf
<1>3. Cardinality(1..k) = k BY <1>1, FS_Interval
<1>4. QED BY <1>2, <1>3 DEF Unstored

(* A queue of nothing, and of one entry that is not stored.                 *)
LEMMA UnstoredOfShort ==
  ASSUME NEW stored
  PROVE  /\ Unstored(<<>>, stored) = <<>>
         /\ \A e \in Entries : Key[e] \notin stored => Unstored(<<e>>, stored) = <<e>>
<1>1. Unstored(<<>>, stored) = <<>>
  <2>1. /\ <<>> \in Seq(Entries) /\ Len(<<>>) = 0 /\ 0 \in 0..Len(<<>>)
        /\ \A i \in 1..Len(<<>>) : Key[<<>>[i]] \in stored <=> i <= 0
    OBVIOUS
  <2>2. Unstored(<<>>, stored) = SubSeq(<<>>, 0 + 1, Len(<<>>)) BY <2>1, UnstoredIsSuffix, Zenon
  <2>3. QED BY <2>1, <2>2, SubSeqEmpty
<1>2. ASSUME NEW e \in Entries, Key[e] \notin stored
      PROVE  Unstored(<<e>>, stored) = <<e>>
  <2> DEFINE one == <<e>>
  <2>1. /\ one \in Seq(Entries) /\ Len(one) = 1 /\ 0 \in 0..Len(one)
        /\ \A i \in 1..Len(one) : Key[one[i]] \in stored <=> i <= 0
    BY <1>2
  <2> HIDE DEF one
  <2>2. Unstored(one, stored) = SubSeq(one, 0 + 1, Len(one)) BY <2>1, UnstoredIsSuffix
  <2>3. QED BY <2>1, <2>2, SubSeqFull DEF one
<1>3. QED BY <1>1, <1>2

durable == [i \in 1..Len(rows) |-> rows[i].entry]

accepted == Unstored(pending, StoredKeys)

(* One more row is one more durable entry.                                  *)
LEMMA DurableGrows ==
  ASSUME rows \in Seq(Rows), NEW row \in Rows, rows' = Append(rows, row)
  PROVE  durable' = Append(durable, row.entry)
<1>1. /\ Len(rows') = Len(rows) + 1 /\ Len(rows) \in Nat
      /\ \A i \in 1..Len(rows) : rows'[i] = rows[i]
      /\ rows'[Len(rows) + 1] = row
  OBVIOUS
<1> \A r \in Rows : r.entry \in Entries BY DEF Rows
<1>2. durable \in Seq(Entries) /\ Len(durable) = Len(rows) BY <1>1 DEF durable
<1>3. durable' \in Seq(Entries) /\ Len(durable') = Len(rows) + 1 BY <1>1 DEF durable
<1>4. /\ Append(durable, row.entry) \in Seq(Entries)
      /\ Len(Append(durable, row.entry)) = Len(rows) + 1
      /\ \A i \in 1..Len(rows) : Append(durable, row.entry)[i] = durable[i]
      /\ Append(durable, row.entry)[Len(rows) + 1] = row.entry
  BY <1>2 DEF Rows
<1>5. QED BY <1>1, <1>3, <1>4, SeqEqual DEF durable

LogStep == [Log!Next]_<<durable, accepted>>

LEMMA LogStepForms ==
  /\ UNCHANGED <<durable, accepted>> => LogStep
  /\ \A e \in Entries : accepted' = Append(accepted, e) /\ durable' = durable => LogStep
  /\ \A e \in Entries : /\ Len(accepted) = 1 /\ accepted' = <<e>>
                        /\ durable' = Append(durable, Head(accepted))
                       => LogStep
  /\ /\ accepted # <<>> /\ accepted' = Tail(accepted)
     /\ durable' = Append(durable, Head(accepted))
    => LogStep
  /\ \A e \in Entries : /\ accepted = <<>> /\ accepted' = accepted
                        /\ durable' = Append(durable, e)
                       => LogStep
  /\ accepted' = <<>> /\ durable' = durable => LogStep
BY DEF LogStep, Log!Next, Log!Accept, Log!Persist, Log!PersistLast,
       Log!PersistDirectly, Log!Lose, durable, accepted

LEMMA LogInit == Init => Log!Init
<1> SUFFICES ASSUME Init PROVE Log!Init OBVIOUS
<1>1. rows = <<>> /\ pending = <<>> BY DEF Init
<1>2. [i \in 1..Len(rows) |-> rows[i].entry] = <<>> BY <1>1
<1>3. QED BY <1>1, <1>2, UnstoredOfShort DEF Log!Init

(* A store call of Flush makes the entry under the cursor durable, if it    *)
(* was not, and that entry is the oldest of the queue.                      *)
LEMMA FlushCallPersists ==
  ASSUME IInv, pc = "flush",
         StoreAppends(FlushRow) \/ StoreFails \/ StoreFailsRetryably(FlushRow)
  PROVE  \E k \in 0..Len(pending) :
            /\ Written(k) /\ accepted = SubSeq(pending, k + 1, Len(pending))
            /\ \/ rows' = rows /\ (StoreAppends(FlushRow) => cursor <= k)
               \/ /\ rows' = Append(rows, FlushRow) /\ cursor = k + 1
                  /\ FlushRow \in Rows /\ FlushRow.entry = Head(accepted)
                  /\ accepted # <<>> /\ StoredKeys' = StoredKeys \cup {Key[pending[cursor]]}
<1>1. PICK k \in 0..Len(pending) : Written(k) BY DEF IInv
<1>2. /\ cursor \in 1..Len(pending) /\ Len(pending) \in Nat
      /\ pending \in Seq(Entries) /\ pending[cursor] \in Entries
      /\ running \in Hashes /\ rows \in Seq(Rows)
  BY SeqMonotonic DEF IInv, TypeOK
<1>3. /\ \A i \in 1..Len(pending) : Key[pending[i]] \in StoredKeys <=> i <= k
      /\ cursor <= k + 1
  BY <1>1 DEF Written
<1>4. accepted = SubSeq(pending, k + 1, Len(pending))
  BY <1>2, <1>3, UnstoredIsSuffix DEF accepted
<1>5. FlushRow \in Rows /\ FlushRow.entry = pending[cursor]
  BY <1>2, RowIsTyped DEF FlushRow, Row
<1>6. CASE rows' = Append(rows, FlushRow) /\ Key[pending[cursor]] \notin StoredKeys
  <2>1. cursor = k + 1 BY <1>2, <1>3, <1>6
  <2>2. accepted # <<>> /\ Head(accepted) = pending[cursor]
    <3>1. Len(accepted) = Len(pending) - k /\ accepted \in Seq(Entries)
      BY <1>2, <1>4, <2>1, SubSeqProperties
    <3>2. Head(accepted) = pending[k + 1] BY <1>2, <1>4, <2>1, HeadTailOfSubSeq
    <3>3. QED BY <1>2, <2>1, <3>1, <3>2
  <2>3. StoredKeys' = StoredKeys \cup {Key[pending[cursor]]}
    <3>1. /\ Len(rows') = Len(rows) + 1 /\ rows'[Len(rows) + 1] = FlushRow
          /\ \A i \in 1..Len(rows) : rows'[i] = rows[i]
      BY <1>2, <1>5, <1>6
    <3>2. \A key : key \in StoredKeys <=> \E i \in 1..Len(rows) : key = Key[rows[i].entry]
      BY DEF StoredKeys
    <3>3. \A key : key \in StoredKeys' <=> key \in StoredKeys \/ key = Key[pending[cursor]]
      BY <1>2, <1>5, <3>1, <3>2 DEF StoredKeys
    <3>4. QED BY <3>3
  <2>4. QED BY <1>1, <1>4, <1>5, <1>6, <2>1, <2>2, <2>3
<1>7. QED
  BY <1>1, <1>2, <1>3, <1>4, <1>5, <1>6 DEF StoreAppends, StoreFails, StoreFailsRetryably,
     StoreLosesAck

LEMMA LogSimulated == Assumption /\ IInv /\ IInv' /\ [Next]_vars => LogStep
<1> SUFFICES ASSUME Assumption, IInv, IInv', [Next]_vars PROVE LogStep OBVIOUS
<1>1. /\ TypeOK /\ ArgIsNew /\ pending \in Seq(Entries) /\ rows \in Seq(Rows)
      /\ Len(pending) \in Nat /\ NoEntry \notin Entries /\ lastHash \in Hashes
  <2>1. TypeOK /\ ArgIsNew BY DEF IInv
  <2>2. pending \in Seq(Entries \ Big) /\ rows \in Seq(Rows) /\ lastHash \in Hashes BY <2>1 DEF TypeOK
  <2>3. pending \in Seq(Entries) /\ Len(pending) \in Nat BY <2>2, SeqMonotonic
  <2> QED BY <2>1, <2>2, <2>3, LedgerAssumption
<1>2. ASSUME rows' = rows, pending' = pending
      PROVE  LogStep
  BY <1>2, LogStepForms DEF durable, accepted, StoredKeys
<1>3. ASSUME NEW e \in Entries, AppendInline(e) PROVE LogStep
  <2>1. /\ Key[e] \notin StoredKeys /\ pending' = Append(pending, e) /\ rows' = rows
    BY <1>3 DEF AppendInline, CallerMayAppend, Assumption, store
  <2>2. StoredKeys' = StoredKeys /\ durable' = durable BY <2>1 DEF StoredKeys, durable
  <2>3. PICK k \in 0..Len(pending) : Written(k) BY DEF IInv
  <2>4. \A i \in 1..Len(pending) : Key[pending[i]] \in StoredKeys <=> i <= k BY <2>3 DEF Written
  <2>5. accepted = SubSeq(pending, k + 1, Len(pending))
    BY <1>1, <2>4, UnstoredIsSuffix DEF accepted
  <2>6. /\ pending' \in Seq(Entries) /\ Len(pending') = Len(pending) + 1
        /\ pending'[Len(pending) + 1] = e
        /\ \A i \in 1..Len(pending) : pending'[i] = pending[i]
    BY <1>1, <2>1
  <2>7. \A i \in 1..Len(pending') : Key[pending'[i]] \in StoredKeys <=> i <= k
    BY <1>1, <2>1, <2>4, <2>6
  <2>8. accepted' = SubSeq(pending', k + 1, Len(pending) + 1)
    <3>1. k \in 0..Len(pending') BY <1>1, <2>6
    <3>2. QED BY <2>2, <2>6, <2>7, <3>1, UnstoredIsSuffix DEF accepted
  <2>9. SubSeq(pending', k + 1, Len(pending) + 1)
           = SubSeq(pending', k + 1, Len(pending)) \o <<e>>
    <3> DEFINE n == Len(pending) + 1
    <3>1. k + 1 \in 1..Len(pending') /\ n \in k + 1..Len(pending') BY <1>1, <2>6
    <3>2. n - 1 = Len(pending) /\ pending'[n] = e BY <1>1, <2>6
    <3> HIDE DEF n
    <3>3. SubSeq(pending', k + 1, n) = SubSeq(pending', k + 1, Len(pending)) \o <<e>>
      BY <2>6, <3>1, <3>2, SubSeqRecursiveSecond
    <3>4. QED BY <3>3 DEF n
  <2>10. SubSeq(pending', k + 1, Len(pending)) = accepted /\ accepted \in Seq(Entries)
    <3>1. /\ \A i \in k + 1..Len(pending) : pending'[i] \in Entries /\ pending[i] \in Entries
          /\ k + 1 \in Int /\ Len(pending) \in Int
      BY <1>1, <2>6
    <3>2. /\ accepted \in Seq(Entries)
          /\ Len(accepted) = IF k + 1 <= Len(pending) THEN Len(pending) - (k + 1) + 1 ELSE 0
          /\ \A i \in 1..Len(pending) - (k + 1) + 1 : accepted[i] = pending[k + 1 + i - 1]
      BY <2>5, <3>1, SubSeqProperties
    <3> DEFINE t == SubSeq(pending', k + 1, Len(pending))
    <3>3. /\ t \in Seq(Entries)
          /\ Len(t) = IF k + 1 <= Len(pending) THEN Len(pending) - (k + 1) + 1 ELSE 0
          /\ \A i \in 1..Len(pending) - (k + 1) + 1 : t[i] = pending'[k + 1 + i - 1]
      BY <3>1, SubSeqProperties
    <3> HIDE DEF t
    <3>4. \A i \in 1..Len(t) : t[i] = accepted[i] BY <1>1, <2>6, <3>2, <3>3
    <3>5. QED BY <3>2, <3>3, <3>4, SeqEqual DEF t
  <2>11. QED BY <2>2, <2>8, <2>9, <2>10, AppendIsConcat, LogStepForms
<1>4. ASSUME NEW e \in Entries, AppendStep(e) PROVE LogStep
  <2>1. CASE AppendDuplicate(e) BY <1>2, <2>1 DEF AppendDuplicate, store, ring
  <2>2. CASE AppendFull(e) BY <1>2, <2>2 DEF AppendFull, BeginFlush, store, ring
  <2>3. CASE AppendBig(e) BY <1>2, <2>3 DEF AppendBig, BeginFlush, BeginDirect, store, ring
  <2>4. QED BY <1>3, <1>4, <2>1, <2>2, <2>3 DEF AppendStep
<1>5. CASE Flush BY <1>2, <1>5 DEF Flush, BeginFlush, store, ring
<1>6. CASE FlushStep
  <2>1. /\ pc = "flush"
        /\ StoreAppends(FlushRow) \/ StoreFails \/ StoreFailsRetryably(FlushRow)
    BY <1>6 DEF FlushStep, WriteOne, WriteRetry, FlushFails
  <2>2. PICK k \in 0..Len(pending) :
              /\ Written(k) /\ accepted = SubSeq(pending, k + 1, Len(pending))
              /\ \/ rows' = rows /\ (StoreAppends(FlushRow) => cursor <= k)
                 \/ /\ rows' = Append(rows, FlushRow) /\ cursor = k + 1
                    /\ FlushRow \in Rows /\ FlushRow.entry = Head(accepted)
                    /\ accepted # <<>> /\ StoredKeys' = StoredKeys \cup {Key[pending[cursor]]}
    BY <2>1, FlushCallPersists
  <2>3. cursor \in 1..Len(pending) BY <1>1, <2>1 DEF TypeOK
  <2>4. CASE pending' = pending
    <3>1. CASE rows' = rows BY <1>2, <2>4, <3>1
    <3>2. CASE rows' # rows
      <4>1. PICK m \in 0..Len(pending') : Written(m)' BY DEF IInv
      <4>2. accepted' = SubSeq(pending, m + 1, Len(pending))
        <5>1. Unstored(pending, StoredKeys') = SubSeq(pending, m + 1, Len(pending))
          BY <1>1, <2>4, <4>1, UnstoredIsSuffix DEF Written
        <5>2. QED BY <2>4, <5>1 DEF accepted
      <4>3. m = k + 1
        <5>1. \A i \in 1..Len(pending) : Key[pending[i]] \in StoredKeys' <=> i <= m
          BY <2>4, <4>1 DEF Written
        <5>2. \A i \in 1..Len(pending) : i <= m <=> i <= k + 1
          <6>1. \A i \in 1..Len(pending) :
                   Key[pending[i]] \in StoredKeys' <=> Key[pending[i]] \in StoredKeys \/ i = cursor
            BY <2>2, <2>3, <3>2 DEF IInv, Distinct
          <6>2. QED BY <2>2, <3>2, <5>1, <6>1 DEF Written
        <5>3. k + 1 \in 1..Len(pending) /\ m \in 0..Len(pending) BY <1>1, <2>2, <2>3, <2>4, <3>2
        <5>4. QED BY <1>1, <5>2, <5>3
      <4>4. accepted' = Tail(accepted)
        <5>1. Tail(SubSeq(pending, k + 1, Len(pending)))
                 = SubSeq(pending, k + 1 + 1, Len(pending))
          BY <1>1, <2>2, <2>3, <3>2, HeadTailOfSubSeq
        <5>2. QED BY <2>2, <4>2, <4>3, <5>1
      <4>5. QED BY <1>1, <2>2, <3>2, <4>4, DurableGrows, LogStepForms
    <3>3. QED BY <3>1, <3>2
  <2>5. CASE WriteOne /\ cursor = Len(pending)
    <3>1. /\ pending' = IF arg \in Entries \ Big THEN <<arg>> ELSE <<>>
          /\ StoreAppends(FlushRow)
      BY <2>5 DEF WriteOne, FlushDone
    <3>2. /\ arg \in Entries \ Big => accepted' = <<arg>>
          /\ arg \notin Entries \ Big => accepted' = <<>>
      BY <1>1, <2>1, <2>5, <3>1, FlushCall, UnstoredOfShort DEF accepted, WriteOne, epoch
    <3>3. CASE rows' = rows
      <4>1. accepted = <<>>
        <5>1. k = Len(pending) BY <1>1, <2>2, <2>3, <2>5, <3>1, <3>3
        <5>2. QED BY <1>1, <2>2, <5>1, SubSeqEmpty
      <4>2. durable' = durable BY <3>3 DEF durable
      <4>3. CASE arg \in Entries \ Big BY <3>2, <4>1, <4>2, <4>3, LogStepForms
      <4>4. CASE arg \notin Entries \ Big BY <3>2, <4>2, <4>4, LogStepForms
      <4>5. QED BY <4>3, <4>4
    <3>4. CASE rows' # rows
      <4>1. durable' = Append(durable, Head(accepted)) /\ accepted # <<>>
        BY <1>1, <2>2, <3>4, DurableGrows
      <4>2. Len(accepted) = 1 /\ Tail(accepted) = <<>>
        <5>1. k + 1 = Len(pending) /\ k + 1 \in 1..Len(pending) BY <1>1, <2>2, <2>3, <2>5, <3>4
        <5>2. SubSeq(pending, k + 1 + 1, Len(pending)) = <<>> BY <1>1, <5>1, SubSeqEmpty
        <5>3. Len(SubSeq(pending, k + 1, Len(pending))) = 1
          <6>1. Len(SubSeq(pending, k + 1, Len(pending)))
                  = IF k + 1 <= Len(pending) THEN Len(pending) - (k + 1) + 1 ELSE 0
            BY <1>1, SubSeqProperties
          <6>2. QED BY <5>1, <6>1
        <5>4. QED BY <1>1, <2>2, <5>1, <5>2, <5>3, HeadTailOfSubSeq
      <4>3. CASE arg \in Entries \ Big BY <3>2, <4>1, <4>2, <4>3, LogStepForms
      <4>4. CASE arg \notin Entries \ Big BY <3>2, <4>1, <4>2, <4>4, LogStepForms
      <4>5. QED BY <4>3, <4>4
    <3>5. QED BY <3>3, <3>4
  <2>6. QED BY <1>6, <2>4, <2>5 DEF FlushStep, WriteOne, WriteRetry, FlushFails, ring
<1>7. CASE DirectStep
  <2>1. /\ pending = <<>> /\ pending' = <<>> /\ arg \in Entries
        /\ Key[arg] \notin StoredKeys
    BY <1>1, <1>7, LedgerAssumption
       DEF DirectStep, DirectWrite, DirectRetry, DirectFails, TypeOK, ring, ArgIsNew
  <2>2. CASE DirectWrite
    <3>1. rows' = Append(rows, DirectRow) /\ DirectRow.entry = arg /\ DirectRow \in Rows
      <4>1. DirectRow \in Rows BY <1>1, <2>1, RowIsTyped DEF DirectRow
      <4>2. QED BY <2>1, <2>2, <4>1 DEF DirectWrite, StoreAppends, DirectRow, Row
    <3>2. durable' = Append(durable, arg) BY <1>1, <3>1, DurableGrows
    <3>3. QED BY <2>1, <3>2, UnstoredOfShort, LogStepForms DEF accepted
  <2>3. CASE DirectRetry \/ DirectFails
    BY <1>2, <2>1, <2>3 DEF DirectRetry, DirectFails, StoreFailsRetryably, StoreFails,
       StoreLosesAck, Assumption
  <2>4. QED BY <1>7, <2>2, <2>3 DEF DirectStep
<1>8. CASE Restart
  <2>1. accepted' = <<>> /\ durable' = durable
    BY <1>8, UnstoredOfShort DEF accepted, durable, Restart, store
  <2>2. QED BY <2>1, LogStepForms
<1>9. CASE UNCHANGED vars BY <1>2, <1>9 DEF vars, store, ring
<1>10. QED BY <1>4, <1>5, <1>6, <1>7, <1>8, <1>9 DEF Next

(* The ledger implements the log it promises: of callers that append a key  *)
(* once, entries become durable in the order in which they were accepted,   *)
(* each of them once, and only a restart loses what is queued, through      *)
(* every failure, retry and lost acknowledgement of a flush (Append, Flush, *)
(* WriteOne, the direct write).                                             *)
THEOREM LedgerImplementsLog == ASSUME Assumption PROVE Spec => ImplementsLog
<1>1. IInv /\ IInv' /\ [Next]_vars => [Log!Next]_<<durable, accepted>>
  BY Assumption, LogSimulated DEF LogStep
<1>2. Init => Log!Init BY LogInit
<1>3. Spec => []IInv BY Assumption, InvCorrect
<1>4. Spec => Log!Init /\ [][Log!Next]_<<durable, accepted>> BY <1>1, <1>2, <1>3, PTL DEF Spec
<1>5. QED BY <1>4, PTL DEF ImplementsLog, Log!Spec, durable, accepted

------------------------------------------------------------------------------
(* The shared idempotency table, for any number of nodes, keys and faults:  *)
(* until a row is seen expired its key has one executor and one run,        *)
(* answers tell of runs, and a completed row stays.                         *)

Running == {"run", "commit", "abort"}
Reaping == {"reap", "query", "recover", "release"}
Steps == {"out", "load", "insert", "lookup"} \cup Running \cup Reaping

IdRow == [st : {"none", "InFlight", "Failed", "Completed"}, deadline : Nat, run : Nat]
CallFrame == [step : Steps, key : IdKeys \cup {0}, seen : IdRow, now : Nat, again : BOOLEAN]

IdTypeOK ==
    /\ idRows \in [IdKeys -> IdRow]
    /\ idFrame \in [IdNodes -> CallFrame]
    /\ idBuffered \in [IdNodes -> Seq(IdKeys \X Nat)]
    /\ idStored \in [IdKeys -> Nat] /\ idRuns \in [IdKeys -> Nat]
    /\ idReaped \subseteq IdKeys /\ idClock \in Nat /\ idFaults \in Nat
    /\ \A n \in IdNodes : ~At(n, "out") => KeyOf(n) \in IdKeys

\* A key is recovered, and a row is marked Failed, only once the row was seen expired.
RecoveryIsOfReaped ==
    /\ \A n \in IdNodes : idFrame[n].step \in Reaping => KeyOf(n) \in idReaped
    /\ \A k \in IdKeys : idRows[k].st = "Failed" => k \in idReaped

\* Until then the row is in flight while its command runs, and what was counted is one run.
Executes(n, k) == KeyOf(n) = k /\ idFrame[n].step \in Running
InFlightWhileRunning ==
    \A k \in IdKeys \ idReaped :
        /\ idRuns[k] <= 1
        /\ idRows[k].st = "none" => idRuns[k] = 0
        /\ \A n \in IdNodes : Executes(n, k) =>
              /\ idRows[k].st = "InFlight"
              /\ ~At(n, "commit") => idRuns[k] = 0
              /\ \A m \in IdNodes : Executes(m, k) => m = n

\* What is on its way into the table or the ledger tells of a run as well.
TidingsAreOfRuns ==
    /\ \A n \in IdNodes : At(n, "commit") => idFrame[n].seen.run \in 1..idRuns[KeyOf(n)]
    /\ \A n \in IdNodes : At(n, "recover") => idStored[KeyOf(n)] # 0
    /\ \A n \in IdNodes : \A i \in DOMAIN idBuffered[n] :
          idBuffered[n][i][2] \in 1..idRuns[idBuffered[n][i][1]]

TableIInv ==
    /\ IdTypeOK /\ RecoveryIsOfReaped /\ InFlightWhileRunning
    /\ AnswersAreOfRuns /\ TidingsAreOfRuns

------------------------------------------------------------------------------
(* Types.                                                                   *)

LEMMA ConstantsAreTyped ==
  /\ NoIdRow \in IdRow /\ OutOfExecute \in CallFrame /\ OutOfExecute.step = "out"
  /\ \A n \in IdNodes : idClock \in Nat => NowMs(n) \in Nat
BY IdempotencyAssumption DEF NoIdRow, IdRow, OutOfExecute, CallFrame, Steps, NowMs

LEMMA InitIsTyped == IdempotencyInit => IdTypeOK
BY ConstantsAreTyped DEF IdempotencyInit, IdTypeOK, At

\* The frame of a step forward.
LEMMA GoesIsTyped ==
  ASSUME NEW f \in CallFrame, NEW s \in Steps
  PROVE  [f EXCEPT !.step = s] \in CallFrame
BY DEF CallFrame

LEMMA BegunIsTyped ==
  ASSUME NEW k \in IdKeys, NEW t \in Nat
  PROVE  [OutOfExecute EXCEPT !.step = "load", !.key = k, !.now = t] \in CallFrame
BY ConstantsAreTyped DEF CallFrame, Steps, OutOfExecute, IdRow, NoIdRow

LEMMA SeenIsTyped ==
  ASSUME NEW f \in CallFrame, NEW s \in Steps, NEW row \in IdRow
  PROVE  [f EXCEPT !.step = s, !.seen = row] \in CallFrame
BY DEF CallFrame

LEMMA RanIsTyped ==
  ASSUME NEW f \in CallFrame, NEW run \in Nat
  PROVE  /\ [f EXCEPT !.step = "commit", !.seen.run = run] \in CallFrame
         /\ [f EXCEPT !.step = "commit", !.seen.run = run].key = f.key
<1>1. [f EXCEPT !.step = "commit", !.seen.run = run]
        = [f EXCEPT !.step = "commit", !.seen = [f.seen EXCEPT !.run = run]]
  BY DEF CallFrame
<1>2. "commit" \in Steps BY DEF Steps, Running
<1>3. [f EXCEPT !.step = "commit", !.seen = [f.seen EXCEPT !.run = run]].key = f.key
  BY DEF CallFrame
<1> QED BY <1>1, <1>2, <1>3, SeenIsTyped DEF CallFrame, IdRow

LEMMA AgainIsTyped ==
  ASSUME NEW f \in CallFrame, NEW t \in Nat
  PROVE  [f EXCEPT !.step = "load", !.again = TRUE, !.now = t] \in CallFrame
BY DEF CallFrame, Steps

LEMMA RowsAreTyped ==
  ASSUME NEW row \in IdRow, NEW t \in Nat, NEW run \in Nat
  PROVE  /\ [row EXCEPT !.st = "Failed"] \in IdRow
         /\ [st |-> "InFlight", deadline |-> t, run |-> 0] \in IdRow
         /\ [st |-> "Completed", deadline |-> 0, run |-> run] \in IdRow
BY DEF IdRow

\* A node's frame is replaced by another.
LEMMA FrameIsTyped ==
  ASSUME IdTypeOK, NEW n \in IdNodes, NEW f \in CallFrame, f.step = "out" \/ f.key \in IdKeys,
         idFrame' = [idFrame EXCEPT ![n] = f]
  PROVE  /\ idFrame' \in [IdNodes -> CallFrame] /\ idFrame'[n] = f
         /\ \A m \in IdNodes \ {n} : idFrame'[m] = idFrame[m]
         /\ \A m \in IdNodes : idFrame'[m].step # "out" => idFrame'[m].key \in IdKeys
BY DEF IdTypeOK, At, KeyOf

LEMMA WritesIsTyped ==
  ASSUME IdTypeOK, NEW k \in IdKeys, NEW row \in IdRow
  PROVE  Writes(k, row) => idRows' \in [IdKeys -> IdRow]
BY DEF IdTypeOK, Writes

LEMMA FaultsAreTyped ==
  IdTypeOK /\ (Works \/ Fails) => idFaults' \in Nat
BY DEF IdTypeOK, Works, Fails

\* What each step of Execute leaves in the frame it is of.
LEMMA ExecuteIsTyped ==
  ASSUME IdTypeOK, NEW n \in IdNodes, ExecuteStep(n)
  PROVE  IdTypeOK'
<1>1. ASSUME NEW k \in IdKeys, TryBegin(n, k) PROVE IdTypeOK'
  <2>1. PICK f \in CallFrame : f.key = k /\ idFrame' = [idFrame EXCEPT ![n] = f]
    <3>1. [OutOfExecute EXCEPT !.step = "load", !.key = k, !.now = NowMs(n)] \in CallFrame
      BY ConstantsAreTyped, BegunIsTyped DEF IdTypeOK
    <3> QED BY <1>1, <3>1 DEF TryBegin, OutOfExecute
  <2> QED BY <1>1, <2>1, FrameIsTyped DEF TryBegin, IdTypeOK, At, KeyOf, IdLedgerVars
<1> DEFINE k == KeyOf(n)
           f == idFrame[n]
<1> f \in CallFrame /\ n \in IdNodes BY DEF IdTypeOK
<1>k. CASE f.step # "out"
  <2> k \in IdKeys /\ f.key = k /\ idRows[k] \in IdRow /\ idRuns[k] \in Nat /\ idStored[k] \in Nat
    BY <1>k DEF IdTypeOK, At, KeyOf
  <2>out. Returns(n) => /\ idFrame' \in [IdNodes -> CallFrame]
                        /\ \A m \in IdNodes : idFrame'[m].step # "out" => idFrame'[m].key \in IdKeys
    BY ConstantsAreTyped, FrameIsTyped DEF Returns
  <2>goes. \A s \in Steps : Goes(n, s) =>
              /\ idFrame' \in [IdNodes -> CallFrame]
              /\ \A m \in IdNodes : idFrame'[m].step # "out" => idFrame'[m].key \in IdKeys
    <3> SUFFICES ASSUME NEW s \in Steps, Goes(n, s)
                 PROVE  /\ idFrame' \in [IdNodes -> CallFrame]
                        /\ \A m \in IdNodes :
                              idFrame'[m].step # "out" => idFrame'[m].key \in IdKeys
      OBVIOUS
    <3>1. idFrame' = [idFrame EXCEPT ![n] = [f EXCEPT !.step = s]] BY DEF Goes
    <3> QED BY <3>1, GoesIsTyped, FrameIsTyped DEF CallFrame
  <2>1. ASSUME Load(n) PROVE IdTypeOK'
    <3> DEFINE row == idRows[k]
               step == NextOf(row, f.now, f.again)
    <3>1. [f EXCEPT !.step = step, !.seen = row] \in CallFrame
          /\ [f EXCEPT !.step = step, !.seen = row].key = k
      BY SeenIsTyped DEF CallFrame, NextOf, Steps, Reaping, Running, IdRow
    <3>2. CASE Returns(n)
      BY <2>1, <2>out, <3>2, FaultsAreTyped
      DEF Load, IdTypeOK, At, KeyOf, IdLedgerVars
    <3>3. CASE idFrame' = [idFrame EXCEPT ![n].step = step, ![n].seen = row]
      <4>1. idFrame' = [idFrame EXCEPT ![n] = [f EXCEPT !.step = step, !.seen = row]] BY <3>3
      <4> QED
        BY <2>1, <3>1, <4>1, FrameIsTyped, FaultsAreTyped DEF Load, IdTypeOK, At, KeyOf,
           IdLedgerVars
    <3> QED BY <2>1, <3>2, <3>3 DEF Load
  <2>2. ASSUME Reap(n) PROVE IdTypeOK'
    <3>1. idRows' \in [IdKeys -> IdRow]
      BY <2>2, RowsAreTyped, WritesIsTyped DEF Reap, IdTypeOK, CallFrame
    <3> QED
      BY <2>out, <2>goes, <2>2, <3>1, FaultsAreTyped DEF Reap, IdTypeOK, At, KeyOf, IdLedgerVars,
         Steps, Reaping
  <2>3. ASSUME InsertIfAbsent(n) PROVE IdTypeOK'
    <3>1. idRows' \in [IdKeys -> IdRow]
      <4> DEFINE row == [st |-> "InFlight", deadline |-> f.now + IdTtl, run |-> 0]
      <4>1. row \in IdRow BY IdempotencyAssumption DEF IdRow, CallFrame
      <4>2. Writes(k, row) \/ idRows' = idRows BY <2>3 DEF InsertIfAbsent
      <4> QED BY <4>1, <4>2, WritesIsTyped DEF IdTypeOK
    <3> QED
      BY <2>out, <2>goes, <2>3, <3>1, FaultsAreTyped DEF InsertIfAbsent, IdTypeOK, At, KeyOf,
         IdLedgerVars, Steps, Running
  <2>4. ASSUME Lookup(n) PROVE IdTypeOK'
    BY <2>4, <2>out DEF Lookup, IdTypeOK, At, KeyOf, IdLedgerVars
  <2>5. ASSUME QueryByKey(n) PROVE IdTypeOK'
    BY <2>goes, <2>5, FaultsAreTyped DEF QueryByKey, IdTypeOK, At, KeyOf, IdLedgerVars, Steps,
       Reaping
  <2>6. ASSUME RecoverFromLedger(n) PROVE IdTypeOK'
    <3>1. idRows' \in [IdKeys -> IdRow]
      BY <2>6, RowsAreTyped, WritesIsTyped DEF RecoverFromLedger, Completes, IdTypeOK
    <3> QED BY <2>6, <2>out, <3>1, FaultsAreTyped
            DEF RecoverFromLedger, IdTypeOK, At, KeyOf, IdLedgerVars
  <2>7. ASSUME RebeginIdempotency(n) PROVE IdTypeOK'
    <3>1. idRows' \in [IdKeys -> IdRow]
      BY <2>7, ConstantsAreTyped, WritesIsTyped DEF RebeginIdempotency, IdTypeOK
    <3> DEFINE g == [f EXCEPT !.step = "load", !.again = TRUE, !.now = NowMs(n)]
    <3>2. g \in CallFrame /\ g.key = k BY ConstantsAreTyped, AgainIsTyped DEF CallFrame, IdTypeOK
    <3>3. idFrame' = [idFrame EXCEPT ![n] = g] BY <2>7 DEF RebeginIdempotency
    <3> QED
      BY <2>7, <3>1, <3>2, <3>3, FrameIsTyped, FaultsAreTyped DEF RebeginIdempotency, IdTypeOK, At,
         KeyOf, IdLedgerVars
  <2>8. ASSUME RunCommand(n) PROVE IdTypeOK'
    <3>1. idRuns' \in [IdKeys -> Nat]
      <4>1. idRuns' = [idRuns EXCEPT ![k] = idRuns[k] + 1] \/ idRuns' = idRuns
        BY <2>8 DEF RunCommand
      <4>2. idRuns[k] + 1 \in Nat /\ idRuns \in [IdKeys -> Nat] BY DEF IdTypeOK
      <4> HIDE DEF k
      <4> QED BY <4>1, <4>2
    <3>2. idBuffered' \in [IdNodes -> Seq(IdKeys \X Nat)]
      <4>1. Append(idBuffered[n], <<k, idRuns[k] + 1>>) \in Seq(IdKeys \X Nat) BY DEF IdTypeOK
      <4> QED BY <2>8, <4>1 DEF IdTypeOK, RunCommand
    <3>3. CASE Goes(n, "abort")
      BY <2>goes, <2>8, <3>1, <3>2, <3>3, FaultsAreTyped DEF RunCommand, IdTypeOK, At, KeyOf, Steps,
         Running
    <3>4. CASE idFrame' = [idFrame EXCEPT ![n].step = "commit", ![n].seen.run = idRuns[k] + 1]
      <4> DEFINE g == [f EXCEPT !.step = "commit", !.seen.run = idRuns[k] + 1]
      <4>1. g \in CallFrame /\ g.key = k
        <5>1. idRuns[k] + 1 \in Nat /\ f \in CallFrame /\ f.key = k OBVIOUS
        <5> HIDE DEF k, f
        <5> QED BY <5>1, RanIsTyped
      <4>2. idFrame' = [idFrame EXCEPT ![n] = g] BY <3>4
      <4>3. idFrame' \in [IdNodes -> CallFrame]
            /\ \A m \in IdNodes : idFrame'[m].step # "out" => idFrame'[m].key \in IdKeys
        BY <4>1, <4>2, FrameIsTyped
      <4>4. idFaults' \in Nat BY <2>8, FaultsAreTyped DEF RunCommand
      <4>5. UNCHANGED <<idRows, idStored, idReaped, idClock>> BY <2>8 DEF RunCommand
      <4> HIDE DEF k, f
      <4> QED BY <3>1, <3>2, <4>3, <4>4, <4>5 DEF IdTypeOK, At, KeyOf
    <3> QED BY <2>8, <3>3, <3>4 DEF RunCommand
  <2>9. ASSUME Commit(n) PROVE IdTypeOK'
    <3>1. idRows' \in [IdKeys -> IdRow]
      BY <2>9, RowsAreTyped, WritesIsTyped DEF Commit, Completes, IdTypeOK, CallFrame, IdRow
    <3> QED BY <2>9, <2>out, <3>1, FaultsAreTyped DEF Commit, IdTypeOK, At, KeyOf, IdLedgerVars
  <2>10. ASSUME Abort(n) PROVE IdTypeOK'
    <3>1. idRows' \in [IdKeys -> IdRow]
      BY <2>10, ConstantsAreTyped, WritesIsTyped DEF Abort, IdTypeOK
    <3> QED BY <2>10, <2>out, <3>1, FaultsAreTyped DEF Abort, IdTypeOK, At, KeyOf, IdLedgerVars
  <2> QED BY <1>1, <2>1, <2>2, <2>3, <2>4, <2>5, <2>6, <2>7, <2>8, <2>9, <2>10 DEF ExecuteStep
<1>o. CASE f.step = "out"
  BY <1>1, <1>o DEF ExecuteStep, At, Load, Reap, InsertIfAbsent, Lookup, QueryByKey,
     RecoverFromLedger, RebeginIdempotency, RunCommand, Commit, Abort
<1> QED BY <1>k, <1>o

------------------------------------------------------------------------------
(* What a step of Execute does to the key it is about, in the nine ways     *)
(* that matter to the invariants.                                           *)

Goal(n, k, steps) ==
    /\ idFrame'[n].step \in steps /\ (idFrame'[n].step # "out" => idFrame'[n].key = k)
    /\ \A m \in IdNodes \ {n} : idFrame'[m] = idFrame[m]
    /\ idFrame' \in [IdNodes -> CallFrame]
    /\ idReaped \subseteq idReaped' /\ idReaped' \subseteq idReaped \cup {k}
    /\ idStored' = idStored
SameRuns == idRuns' = idRuns /\ idBuffered' = idBuffered
RowBecomes(k, row) == idRows' = [idRows EXCEPT ![k] = row]

StaysOut(n, k) == Goal(n, k, {"out", "load", "insert", "lookup"}) /\ SameRuns /\ idRows' = idRows
Recovers(n, k) ==
    /\ Goal(n, k, Reaping \ {"recover"}) /\ SameRuns /\ k \in idReaped'
    /\ \/ idRows' = idRows
       \/ k \in idReaped /\ RowBecomes(k, [idFrame[n].seen EXCEPT !.st = "Failed"])
Finds(n, k) ==
    /\ Goal(n, k, {"recover"}) /\ SameRuns /\ k \in idReaped /\ idRows' = idRows
    /\ idStored[k] # 0
Restores(n, k) ==
    /\ Goal(n, k, {"out"}) /\ SameRuns /\ k \in idReaped /\ idStored[k] # 0
    /\ RowBecomes(k, [st |-> "Completed", deadline |-> 0, run |-> idStored[k]])
Releases(n, k) ==
    /\ Goal(n, k, {"out", "load"}) /\ SameRuns /\ k \in idReaped
    /\ \/ RowBecomes(k, NoIdRow)
       \/ RowBecomes(k, [idFrame[n].seen EXCEPT !.st = "Failed"])
Takes(n, k) ==
    /\ Goal(n, k, {"run"}) /\ SameRuns /\ idRows[k] = NoIdRow
    /\ \E t \in Nat : RowBecomes(k, [st |-> "InFlight", deadline |-> t, run |-> 0])
Rejects(n, k) ==
    /\ Goal(n, k, {"abort"}) /\ SameRuns /\ Executes(n, k) /\ At(n, "run") /\ idRows' = idRows
TakesEffect(n, k) ==
    /\ Goal(n, k, {"commit"}) /\ Executes(n, k) /\ At(n, "run") /\ idRows' = idRows
    /\ idRuns' = [idRuns EXCEPT ![k] = @ + 1]
    /\ \/ idBuffered' = idBuffered
       \/ idBuffered' = [idBuffered EXCEPT ![n] = Append(@, <<k, idRuns[k] + 1>>)]
    /\ idFrame'[n].seen.run = idRuns[k] + 1
Finishes(n, k) ==
    /\ Goal(n, k, {"out"}) /\ SameRuns /\ Executes(n, k)
    /\ \/ /\ At(n, "commit")
          /\ RowBecomes(k, [st |-> "Completed", deadline |-> 0, run |-> idFrame[n].seen.run])
       \/ At(n, "abort") /\ RowBecomes(k, NoIdRow)

Does(n, k) ==
    \/ StaysOut(n, k) \/ Recovers(n, k) \/ Finds(n, k) \/ Restores(n, k) \/ Releases(n, k)
    \/ Takes(n, k) \/ Rejects(n, k) \/ TakesEffect(n, k) \/ Finishes(n, k)

LEMMA ExecuteDoes ==
  ASSUME TableIInv, NEW n \in IdNodes, ExecuteStep(n)
  PROVE  \E k \in IdKeys : Does(n, k)
<1> USE DEF Does, Goal, SameRuns, RowBecomes, IdLedgerVars
<1>t. IdTypeOK /\ RecoveryIsOfReaped /\ TidingsAreOfRuns /\ IdTypeOK'
  BY ExecuteIsTyped DEF TableIInv
<1>f. idFrame' \in [IdNodes -> CallFrame] /\ idFrame \in [IdNodes -> CallFrame]
  BY <1>t DEF IdTypeOK
<1>1. ASSUME NEW k \in IdKeys, TryBegin(n, k) PROVE Does(n, k)
  BY <1>1, <1>f DEF TryBegin, StaysOut, OutOfExecute, CallFrame
<1> DEFINE k == KeyOf(n)
<1>k. CASE ~At(n, "out")
  <2>k. k \in IdKeys /\ idFrame[n].key = k BY <1>k, <1>t DEF IdTypeOK, KeyOf
  <2> HIDE DEF k
  <2>out. Returns(n) => Goal(n, k, {"out"}) \/ ~(idReaped' = idReaped /\ idStored' = idStored)
    BY <1>f DEF Returns, OutOfExecute
  <2>goes. ASSUME NEW s \in Steps, Goes(n, s), idReaped' = idReaped, idStored' = idStored
           PROVE  Goal(n, k, {s})
    BY <2>goes, <2>k, <1>f DEF Goes, CallFrame
  <2>1. ASSUME Load(n) PROVE Does(n, k)
    <3> DEFINE row == idRows[k]
               step == NextOf(row, idFrame[n].now, idFrame[n].again)
    <3>1. idRows' = idRows /\ SameRuns /\ idStored' = idStored BY <2>1 DEF Load
    <3>2. CASE Returns(n) /\ idReaped' = idReaped BY <3>1, <3>2, <2>out DEF StaysOut
    <3>3. CASE Returns(n) /\ step = "out"
      BY <2>1, <3>1, <3>3, <2>out, <2>k DEF StaysOut, Load, KeyOf
    <3>4. CASE /\ idFrame' = [idFrame EXCEPT ![n].step = step, ![n].seen = row]
               /\ idReaped' = (IF step = "reap" THEN idReaped \cup {k} ELSE idReaped)
      <4>1. idFrame'[n].step = step /\ idFrame'[n].key = k
            /\ \A m \in IdNodes \ {n} : idFrame'[m] = idFrame[m]
        BY <3>4, <2>k, <1>f DEF CallFrame
      <4>2. step \in {"out", "insert", "lookup", "reap", "query"}
            /\ (step = "query" => row.st = "Failed")
        BY <1>t, <2>k DEF NextOf, IdRow, IdTypeOK
      <4>3. step = "query" => k \in idReaped BY <4>2, <2>k, <1>t DEF RecoveryIsOfReaped
      <4> HIDE DEF step
      <4> QED BY <3>1, <3>4, <4>1, <4>2, <4>3, <1>f DEF StaysOut, Recovers, Reaping
    <3> QED BY <2>1, <2>k, <3>2, <3>3, <3>4 DEF Load, KeyOf
  <2>2. ASSUME Reap(n) PROVE Does(n, k)
    <3>1. SameRuns /\ idReaped' = idReaped /\ idStored' = idStored /\ k \in idReaped
      BY <2>2, <2>k, <1>t DEF Reap, RecoveryIsOfReaped, Reaping, At, KeyOf
    <3>2. idRows' = idRows \/ RowBecomes(k, [idFrame[n].seen EXCEPT !.st = "Failed"])
      BY <2>2, <2>k DEF Reap, Writes, KeyOf
    <3>3. CASE Returns(n) BY <3>1, <3>2, <3>3, <2>out DEF StaysOut, Releases
    <3>4. CASE Goes(n, "query") BY <3>1, <3>2, <3>4, <2>goes DEF Recovers, Reaping, Steps
    <3> QED BY <2>2, <3>3, <3>4 DEF Reap
  <2>3. ASSUME InsertIfAbsent(n) PROVE Does(n, k)
    <3>1. SameRuns /\ idReaped' = idReaped /\ idStored' = idStored BY <2>3 DEF InsertIfAbsent
    <3>2. CASE Returns(n) /\ idRows' = idRows BY <3>1, <3>2, <2>out DEF StaysOut
    <3>3. CASE /\ idRows[k] = NoIdRow /\ Goes(n, "run")
               /\ Writes(k, [st |-> "InFlight", deadline |-> idFrame[n].now + IdTtl, run |-> 0])
      <4>1. idFrame[n].now + IdTtl \in Nat BY <1>f, IdempotencyAssumption DEF CallFrame
      <4> QED BY <2>goes, <3>1, <3>3, <4>1 DEF Takes, Writes, Steps, Running
    <3> QED BY <2>3, <2>k, <3>2, <3>3 DEF InsertIfAbsent, KeyOf
  <2>4. ASSUME Lookup(n) PROVE Does(n, k) BY <2>4, <2>out DEF Lookup, StaysOut
  <2>5. ASSUME QueryByKey(n) PROVE Does(n, k)
    <3>1. /\ SameRuns /\ idReaped' = idReaped /\ idStored' = idStored /\ k \in idReaped
          /\ idRows' = idRows
      BY <2>5, <2>k, <1>t DEF QueryByKey, RecoveryIsOfReaped, Reaping, At, KeyOf
    <3>2. CASE Goes(n, "recover") /\ idStored[k] # 0
      BY <3>1, <3>2, <2>goes DEF Finds, Reaping, Steps
    <3>3. CASE Goes(n, "release") BY <3>1, <3>3, <2>goes DEF Recovers, Reaping, Steps
    <3> QED BY <2>5, <2>k, <3>2, <3>3 DEF QueryByKey, KeyOf
  <2>6. ASSUME RecoverFromLedger(n) PROVE Does(n, k)
    <3>1. /\ SameRuns /\ idReaped' = idReaped /\ idStored' = idStored /\ k \in idReaped
          /\ idStored[k] # 0 /\ Goal(n, k, {"out"})
      BY <2>6, <2>k, <2>out, <1>t
      DEF RecoverFromLedger, RecoveryIsOfReaped, TidingsAreOfRuns, Reaping, At, KeyOf
    <3> QED
      BY <2>k, <2>6, <3>1 DEF StaysOut, Restores, RecoverFromLedger, Completes, Writes, KeyOf
  <2>7. ASSUME RebeginIdempotency(n) PROVE Does(n, k)
    <3>1. SameRuns /\ idReaped' = idReaped /\ idStored' = idStored /\ k \in idReaped
      BY <2>7, <2>k, <1>t DEF RebeginIdempotency, RecoveryIsOfReaped, Reaping, At, KeyOf
    <3>2. idRows' = idRows \/ RowBecomes(k, NoIdRow)
      BY <2>7, <2>k DEF RebeginIdempotency, Writes, KeyOf
    <3> QED BY <1>f, <2>k, <2>7, <3>1, <3>2 DEF StaysOut, Releases, RebeginIdempotency, CallFrame
  <2>8. ASSUME RunCommand(n) PROVE Does(n, k)
    <3>1. idReaped' = idReaped /\ idStored' = idStored /\ idRows' = idRows /\ Executes(n, k)
          /\ At(n, "run")
      BY <2>8, <2>k DEF RunCommand, Executes, Running, At, KeyOf
    <3>2. CASE Goes(n, "abort") /\ UNCHANGED <<idRuns, idBuffered>>
      BY <3>1, <3>2, <2>goes DEF Rejects, Steps, Running
    <3>3. CASE /\ idRuns' = [idRuns EXCEPT ![k] = idRuns[k] + 1]
               /\ \/ idBuffered' = [idBuffered EXCEPT ![n] = Append(@, <<k, idRuns[k] + 1>>)]
                  \/ UNCHANGED idBuffered
               /\ idFrame' = [idFrame EXCEPT ![n].step = "commit",
                                             ![n].seen.run = idRuns[k] + 1]
      <4>1. idFrame'[n].seen.run = idRuns[k] + 1 BY <3>3, <1>f DEF CallFrame, IdRow
      <4> QED BY <1>f, <2>k, <3>1, <3>3, <4>1 DEF TakesEffect, CallFrame
    <3> QED BY <2>8, <2>k, <3>2, <3>3 DEF RunCommand, KeyOf
  <2>9. ASSUME Commit(n) PROVE Does(n, k)
    <3>1. \/ idRows' = idRows
          \/ RowBecomes(k, [st |-> "Completed", deadline |-> 0, run |-> idFrame[n].seen.run])
      BY <2>9, <2>k DEF Commit, Completes, Writes, KeyOf
    <3> QED
      BY <2>k, <2>out, <2>9, <3>1 DEF StaysOut, Finishes, Commit, Executes, Running, At, KeyOf
  <2>10. ASSUME Abort(n) PROVE Does(n, k)
    <3>1. idRows' = idRows \/ RowBecomes(k, NoIdRow) BY <2>10, <2>k DEF Abort, Writes, KeyOf
    <3> QED
      BY <2>k, <2>out, <2>10, <3>1 DEF StaysOut, Finishes, Abort, Executes, Running, At, KeyOf
  <2>11. \A j \in IdKeys : ~TryBegin(n, j) BY <1>k DEF TryBegin
  <2> QED
    BY <2>k, <2>1, <2>2, <2>3, <2>4, <2>5, <2>6, <2>7, <2>8, <2>9, <2>10, <2>11 DEF ExecuteStep
<1>o. CASE At(n, "out")
  BY <1>1, <1>o DEF ExecuteStep, At, Load, Reap, InsertIfAbsent, Lookup, QueryByKey,
     RecoverFromLedger, RebeginIdempotency, RunCommand, Commit, Abort
<1> QED BY <1>k, <1>o

------------------------------------------------------------------------------
(* The nine ways preserve the three parts of the invariant.                 *)

LEMMA DoesKeepsRecovery ==
  ASSUME IdTypeOK, RecoveryIsOfReaped, NEW n \in IdNodes, NEW k \in IdKeys, Does(n, k)
  PROVE  RecoveryIsOfReaped'
<1>1. /\ idReaped \subseteq idReaped'
      /\ \A m \in IdNodes \ {n} : idFrame'[m] = idFrame[m]
      /\ idFrame'[n].step # "out" => idFrame'[n].key = k
      /\ idFrame'[n].step \in Reaping => k \in idReaped'
  BY DEF Does, Goal, StaysOut, Recovers, Finds, Restores, Releases, Takes, Rejects, TakesEffect,
     Finishes, Reaping, Running
<1>2. /\ \A j \in IdKeys \ {k} : idRows'[j] = idRows[j]
      /\ idRows'[k].st = "Failed" => idRows[k].st = "Failed" \/ k \in idReaped
  BY DEF Does, StaysOut, Recovers, Finds, Restores, Releases, Takes, Rejects, TakesEffect,
     Finishes, RowBecomes, NoIdRow, IdTypeOK
<1> QED BY <1>1, <1>2 DEF RecoveryIsOfReaped, KeyOf, Reaping

LEMMA DoesKeepsInFlight ==
  ASSUME IdTypeOK, InFlightWhileRunning, RecoveryIsOfReaped,
         NEW n \in IdNodes, NEW k \in IdKeys, Does(n, k)
  PROVE  InFlightWhileRunning'
<1> SUFFICES ASSUME NEW j \in IdKeys, j \notin idReaped'
             PROVE  /\ idRuns'[j] <= 1
                    /\ idRows'[j].st = "none" => idRuns'[j] = 0
                    /\ \A m \in IdNodes : Executes(m, j)' =>
                          /\ idRows'[j].st = "InFlight"
                          /\ ~At(m, "commit")' => idRuns'[j] = 0
                          /\ \A l \in IdNodes : Executes(l, j)' => l = m
  BY DEF InFlightWhileRunning
<1>g. /\ \A m \in IdNodes \ {n} : idFrame'[m] = idFrame[m]
      /\ idFrame'[n].step # "out" => idFrame'[n].key = k
      /\ j \notin idReaped
  BY DEF Does, Goal, StaysOut, Recovers, Finds, Restores, Releases, Takes, Rejects, TakesEffect,
     Finishes
<1>i. /\ idRuns[j] <= 1 /\ (idRows[j].st = "none" => idRuns[j] = 0)
      /\ \A m \in IdNodes : Executes(m, j) =>
            /\ idRows[j].st = "InFlight"
            /\ ~At(m, "commit") => idRuns[j] = 0
            /\ \A l \in IdNodes : Executes(l, j) => l = m
  BY <1>g DEF InFlightWhileRunning
<1>o. \A m \in IdNodes \ {n} : (Executes(m, j)' <=> Executes(m, j)) /\ (At(m, "commit")' <=> At(m, "commit"))
  BY <1>g DEF Executes, At, KeyOf
<1>1. CASE j # k
  <2>1. idRows'[j] = idRows[j] /\ idRuns'[j] = idRuns[j]
    BY <1>1 DEF Does, StaysOut, Recovers, Finds, Restores, Releases, Takes, Rejects, TakesEffect,
       Finishes, RowBecomes, SameRuns, IdTypeOK
  <2> QED BY <1>g, <1>i, <1>o, <1>1, <2>1 DEF Executes, Running, KeyOf
<1>2. CASE j = k
  <2>r. idRows[k] \in IdRow /\ idRuns[k] \in Nat BY DEF IdTypeOK
  <2>1. CASE StaysOut(n, k) BY <1>i, <1>o, <2>1 DEF StaysOut, Goal, SameRuns, Executes, Running
  <2>2. CASE Recovers(n, k) \/ Finds(n, k) \/ Restores(n, k) \/ Releases(n, k)
    BY <1>2, <2>2 DEF Recovers, Finds, Restores, Releases, Goal
  <2>3. CASE Takes(n, k)
    <3>1. idRows[k].st = "none" /\ idRows'[k].st = "InFlight" /\ idRuns'[k] = idRuns[k]
      BY <2>3 DEF Takes, NoIdRow, RowBecomes, SameRuns, IdTypeOK
    <3> QED BY <1>i, <1>o, <1>2, <3>1
  <2>4. CASE Rejects(n, k) BY <1>i, <1>o, <1>2, <2>4 DEF Rejects, SameRuns, At
  <2>5. CASE TakesEffect(n, k)
    <3>1. /\ idRows' = idRows /\ Executes(n, k) /\ ~At(n, "commit") /\ At(n, "commit")'
          /\ idRuns'[k] = idRuns[k] + 1
      BY <2>5 DEF TakesEffect, At, Goal, IdTypeOK
    <3>2. \A m \in IdNodes \ {n} : ~Executes(m, k) BY <1>2, <1>i, <3>1
    <3> QED BY <1>i, <1>o, <1>2, <3>1, <3>2
  <2>6. CASE Finishes(n, k)
    <3>1. /\ Executes(n, k) /\ ~Executes(n, k)' /\ idRuns' = idRuns
          /\ idRows'[k].st = "none" => ~At(n, "commit")
      BY <2>6 DEF Finishes, Goal, SameRuns, Executes, Running, RowBecomes, IdTypeOK, At
    <3>2. \A m \in IdNodes : ~Executes(m, k)' BY <1>i, <1>o, <1>2, <3>1
    <3> QED BY <1>2, <1>i, <3>1, <3>2
  <2> QED BY <2>1, <2>2, <2>3, <2>4, <2>5, <2>6 DEF Does
<1> QED BY <1>1, <1>2

LEMMA DoesKeepsTidings ==
  ASSUME IdTypeOK, IdTypeOK', AnswersAreOfRuns, TidingsAreOfRuns,
         NEW n \in IdNodes, NEW k \in IdKeys, Does(n, k)
  PROVE  AnswersAreOfRuns' /\ TidingsAreOfRuns'
<1>t. /\ idRuns[k] \in Nat /\ idStored' = idStored
      /\ \A j \in IdKeys : idRuns[j] \in Nat /\ idRuns'[j] \in Nat /\ idRuns[j] <= idRuns'[j]
      /\ \A m \in IdNodes \ {n} : idFrame'[m] = idFrame[m]
      /\ idFrame'[n].step # "out" => idFrame'[n].key = k
  <2>1. /\ idStored' = idStored /\ (\A m \in IdNodes \ {n} : idFrame'[m] = idFrame[m])
        /\ idFrame'[n].step # "out" => idFrame'[n].key = k
        /\ idRuns' = idRuns \/ idRuns' = [idRuns EXCEPT ![k] = idRuns[k] + 1]
    BY DEF Does, StaysOut, Recovers, Finds, Restores, Releases, Takes, Rejects, TakesEffect,
       Finishes, SameRuns, Goal
  <2>2. idRuns \in [IdKeys -> Nat] BY DEF IdTypeOK
  <2> QED BY <2>1, <2>2
<1>1. \A j \in IdKeys : idStored'[j] <= idRuns'[j] BY <1>t DEF AnswersAreOfRuns, IdTypeOK
<1>2. \A j \in IdKeys : idRows'[j].st = "Completed" => idRows'[j].run \in 1..idRuns'[j]
  <2>1. \A j \in IdKeys : idRows[j].st = "Completed" => idRows[j].run \in 1..idRuns'[j]
    BY <1>t DEF AnswersAreOfRuns
  <2>2. \A j \in IdKeys \ {k} : idRows'[j] = idRows[j]
    BY DEF Does, StaysOut, Recovers, Finds, Restores, Releases, Takes, Rejects, TakesEffect,
       Finishes, RowBecomes, IdTypeOK
  <2>3. CASE Restores(n, k) BY <1>t, <1>1, <2>1, <2>2, <2>3 DEF Restores, RowBecomes, IdTypeOK
  <2>4. CASE Finishes(n, k)
    <3>1. \/ idRows'[k].st = "none"
          \/ /\ idRows'[k].run = idFrame[n].seen.run
             /\ idFrame[n].seen.run \in 1..idRuns[k]
      BY <2>4 DEF Finishes, RowBecomes, IdTypeOK, NoIdRow, TidingsAreOfRuns, Executes
    <3> QED BY <2>1, <2>2, <3>1, <1>t
  <2>5. CASE ~Restores(n, k) /\ ~Finishes(n, k)
    <3>1. \/ idRows' = idRows \/ RowBecomes(k, [idFrame[n].seen EXCEPT !.st = "Failed"])
          \/ RowBecomes(k, NoIdRow)
          \/ \E t \in Nat : RowBecomes(k, [st |-> "InFlight", deadline |-> t, run |-> 0])
      BY <2>5 DEF Does, StaysOut, Recovers, Finds, Releases, Takes, Rejects, TakesEffect
    <3>2. [idFrame[n].seen EXCEPT !.st = "Failed"].st = "Failed" /\ NoIdRow.st = "none"
      BY DEF IdTypeOK, CallFrame, IdRow, NoIdRow
    <3>3. \A row : RowBecomes(k, row) => idRows'[k] = row BY DEF RowBecomes, IdTypeOK
    <3>4. idRows'[k] = idRows[k] \/ idRows'[k].st # "Completed"
      <4>1. CASE RowBecomes(k, [idFrame[n].seen EXCEPT !.st = "Failed"]) BY <3>2, <3>3, <4>1
      <4>2. CASE RowBecomes(k, NoIdRow) BY <3>2, <3>3, <4>2
      <4>3. ASSUME NEW t \in Nat, RowBecomes(k, [st |-> "InFlight", deadline |-> t, run |-> 0])
            PROVE  idRows'[k].st = "InFlight"
        BY <3>3, <4>3
      <4> QED BY <3>1, <4>1, <4>2, <4>3
    <3> QED BY <2>1, <2>2, <3>4
  <2> QED BY <2>3, <2>4, <2>5
<1>3. \A m \in IdNodes : idFrame'[m].step = "commit" =>
         idFrame'[m].seen.run \in 1..idRuns'[idFrame'[m].key]
  <2>1. idFrame'[n].step = "commit" => idFrame'[n].seen.run \in 1..idRuns'[k]
    <3>1. idFrame'[n].step = "commit" => TakesEffect(n, k)
      BY DEF Does, StaysOut, Recovers, Finds, Restores, Releases, Takes, Rejects, Finishes, Goal,
         Reaping
    <3> QED BY <1>t, <3>1 DEF TakesEffect, IdTypeOK
  <2>2. \A m \in IdNodes \ {n} : idFrame[m].step = "commit" =>
           idFrame[m].key \in IdKeys /\ idFrame[m].seen.run \in 1..idRuns'[idFrame[m].key]
    BY <1>t DEF TidingsAreOfRuns, IdTypeOK, At, KeyOf
  <2> QED BY <1>t, <2>1, <2>2
<1>4. \A m \in IdNodes : idFrame'[m].step = "recover" => idStored'[idFrame'[m].key] # 0
  <2>1. idFrame'[n].step = "recover" => idStored[k] # 0
    BY DEF Does, StaysOut, Recovers, Finds, Restores, Releases, Takes, Rejects, TakesEffect,
       Finishes, Goal, Reaping
  <2> QED BY <1>t, <2>1 DEF TidingsAreOfRuns, At, KeyOf
<1>5. \A m \in IdNodes : \A i \in DOMAIN idBuffered'[m] :
         idBuffered'[m][i][2] \in 1..idRuns'[idBuffered'[m][i][1]]
  <2> SUFFICES ASSUME NEW m \in IdNodes, NEW i \in DOMAIN idBuffered'[m]
               PROVE  idBuffered'[m][i][2] \in 1..idRuns'[idBuffered'[m][i][1]]
    OBVIOUS
  <2>1. ASSUME i \in DOMAIN idBuffered[m], idBuffered'[m][i] = idBuffered[m][i]
        PROVE  idBuffered'[m][i][2] \in 1..idRuns'[idBuffered'[m][i][1]]
    <3>1. idBuffered[m][i] \in IdKeys \X Nat BY <2>1 DEF IdTypeOK
    <3> QED BY <2>1, <3>1, <1>t DEF TidingsAreOfRuns
  <2>2. CASE idBuffered' = idBuffered BY <2>1, <2>2
  <2>3. CASE /\ idBuffered' = [idBuffered EXCEPT ![n] = Append(idBuffered[n], <<k, idRuns[k] + 1>>)]
             /\ idRuns' = [idRuns EXCEPT ![k] = idRuns[k] + 1]
    <3>1. CASE m # n BY <2>1, <2>3, <3>1 DEF IdTypeOK
    <3>2. CASE m = n
      <4>1. idBuffered[n] \in Seq(IdKeys \X Nat)
            /\ idBuffered'[n] = Append(idBuffered[n], <<k, idRuns[k] + 1>>)
        BY <2>3 DEF IdTypeOK
      <4>2. CASE i \in DOMAIN idBuffered[n] BY <2>1, <3>2, <4>1, <4>2
      <4>3. CASE i \notin DOMAIN idBuffered[n]
        <5>1. idRuns'[k] = idRuns[k] + 1 BY <2>3 DEF IdTypeOK
        <5> QED BY <1>t, <3>2, <4>1, <4>3, <5>1
      <4> QED BY <4>2, <4>3
    <3> QED BY <3>1, <3>2
  <2> QED
    BY <2>2, <2>3 DEF Does, StaysOut, Recovers, Finds, Restores, Releases, Takes, Rejects,
       TakesEffect, Finishes, SameRuns
<1> QED BY <1>1, <1>2, <1>3, <1>4, <1>5 DEF AnswersAreOfRuns, TidingsAreOfRuns, At, KeyOf

------------------------------------------------------------------------------
(* The other steps, and the theorems.                                       *)

LEMMA FlushKeeps ==
  ASSUME TableIInv, NEW n \in IdNodes, FlushLedger(n)
  PROVE  TableIInv'
<1> DEFINE e == Head(idBuffered[n])
<1>1. e \in IdKeys \X Nat /\ Tail(idBuffered[n]) \in Seq(IdKeys \X Nat)
      /\ e = idBuffered[n][1] /\ 1 \in DOMAIN idBuffered[n]
  BY DEF TableIInv, IdTypeOK, FlushLedger
<1>2. e[1] \in IdKeys /\ e[2] \in Nat /\ e[2] \in 1..idRuns[e[1]]
  BY <1>1 DEF TableIInv, TidingsAreOfRuns
<1>3. /\ UNCHANGED <<idRows, idFrame, idRuns, idReaped, idClock, idFaults>>
      /\ idBuffered' = [idBuffered EXCEPT ![n] = Tail(idBuffered[n])]
      /\ idStored' = [idStored EXCEPT ![e[1]] = IF idStored[e[1]] = 0 THEN e[2] ELSE idStored[e[1]]]
  BY DEF FlushLedger
<1> HIDE DEF e
<1>4. /\ idStored' \in [IdKeys -> Nat]
      /\ \A k \in IdKeys : idStored[k] # 0 => idStored'[k] # 0
      /\ \A k \in IdKeys : idStored'[k] = idStored[k] \/ idStored'[k] \in 1..idRuns[k]
  BY <1>2, <1>3 DEF TableIInv, IdTypeOK
<1>5. RecoveryIsOfReaped' /\ InFlightWhileRunning'
  BY <1>3 DEF TableIInv, RecoveryIsOfReaped, InFlightWhileRunning, Executes, At, KeyOf
<1>6. AnswersAreOfRuns' BY <1>3, <1>4 DEF TableIInv, AnswersAreOfRuns, IdTypeOK
<1>7. TidingsAreOfRuns'
  <2>1. \A m \in IdNodes : \A i \in DOMAIN idBuffered'[m] :
           idBuffered'[m][i][2] \in 1..idRuns[idBuffered'[m][i][1]]
    <3> SUFFICES ASSUME NEW m \in IdNodes, NEW i \in DOMAIN idBuffered'[m]
                 PROVE  idBuffered'[m][i][2] \in 1..idRuns[idBuffered'[m][i][1]]
      OBVIOUS
    <3>1. CASE m # n BY <1>3, <3>1 DEF TableIInv, IdTypeOK, TidingsAreOfRuns
    <3>2. CASE m = n
      <4>1. i + 1 \in DOMAIN idBuffered[n] /\ idBuffered'[n][i] = idBuffered[n][i + 1]
        BY <1>3, <3>2 DEF TableIInv, IdTypeOK, FlushLedger
      <4> QED BY <3>2, <4>1 DEF TableIInv, TidingsAreOfRuns
    <3> QED BY <3>1, <3>2
  <2> QED BY <1>3, <1>4, <2>1 DEF TableIInv, TidingsAreOfRuns, At, KeyOf, IdTypeOK
<1> QED BY <1>1, <1>3, <1>4, <1>5, <1>6, <1>7 DEF TableIInv, IdTypeOK, At, KeyOf

LEMMA DeathKeeps ==
  ASSUME TableIInv, NEW n \in IdNodes, NodeDies(n)
  PROVE  TableIInv'
<1>1. /\ UNCHANGED <<idRows, idStored, idRuns, idReaped, idClock>> /\ Fails
      /\ idFrame' = [idFrame EXCEPT ![n] = OutOfExecute]
      /\ idBuffered' = [idBuffered EXCEPT ![n] = <<>>]
  BY DEF NodeDies, Returns
<1>2. /\ idFrame' \in [IdNodes -> CallFrame] /\ idFrame'[n].step = "out"
      /\ \A m \in IdNodes \ {n} : idFrame'[m] = idFrame[m]
      /\ \A m \in IdNodes : idFrame'[m].step # "out" => idFrame'[m].key \in IdKeys
  BY <1>1, ConstantsAreTyped, FrameIsTyped DEF TableIInv
<1>3. /\ idBuffered' \in [IdNodes -> Seq(IdKeys \X Nat)]
      /\ idBuffered'[n] = <<>> /\ \A m \in IdNodes \ {n} : idBuffered'[m] = idBuffered[m]
  BY <1>1 DEF TableIInv, IdTypeOK
<1>4. IdTypeOK' BY <1>1, <1>2, <1>3, FaultsAreTyped DEF TableIInv, IdTypeOK, At, KeyOf
<1>5. InFlightWhileRunning'
  BY <1>1, <1>2 DEF TableIInv, InFlightWhileRunning, Executes, Running, KeyOf, At
<1>6. AnswersAreOfRuns' /\ TidingsAreOfRuns'
  BY <1>1, <1>2, <1>3 DEF TableIInv, AnswersAreOfRuns, TidingsAreOfRuns, At, KeyOf
<1> QED BY <1>1, <1>2, <1>4, <1>5, <1>6 DEF TableIInv, RecoveryIsOfReaped, Reaping, KeyOf

LEMMA StillKeeps ==
  ASSUME TableIInv, UNCHANGED idVars \/ IdClockTicks
  PROVE  TableIInv'
<1>1. UNCHANGED <<idRows, idFrame, idBuffered, idStored, idRuns, idReaped>>
      /\ idClock' \in Nat /\ idFaults' \in Nat
  BY DEF TableIInv, IdTypeOK, idVars, IdClockTicks, IdLedgerVars
<1>2. RecoveryIsOfReaped' /\ InFlightWhileRunning' /\ AnswersAreOfRuns' /\ TidingsAreOfRuns'
  BY <1>1 DEF TableIInv, RecoveryIsOfReaped, InFlightWhileRunning, AnswersAreOfRuns, TidingsAreOfRuns,
     Executes, At, KeyOf
<1> QED BY <1>1, <1>2 DEF TableIInv, IdTypeOK, At, KeyOf

LEMMA ExecuteKeeps ==
  ASSUME TableIInv, NEW n \in IdNodes, ExecuteStep(n)
  PROVE  TableIInv'
<1>1. PICK k \in IdKeys : Does(n, k) BY ExecuteDoes
<1> QED
  BY <1>1, ExecuteIsTyped, DoesKeepsRecovery, DoesKeepsInFlight, DoesKeepsTidings DEF TableIInv

LEMMA NextKeeps == TableIInv /\ [IdempotencyNext]_idVars => TableIInv'
BY ExecuteKeeps, FlushKeeps, DeathKeeps, StillKeeps DEF IdempotencyNext

LEMMA InitHolds == IdempotencyInit => TableIInv
<1> SUFFICES ASSUME IdempotencyInit PROVE TableIInv OBVIOUS
<1>1. \A n \in IdNodes : idFrame[n].step = "out" /\ idBuffered[n] = <<>>
  BY DEF IdempotencyInit, OutOfExecute
<1>2. \A k \in IdKeys : idRows[k].st = "none" /\ idRuns[k] = 0 /\ idStored[k] = 0
  BY DEF IdempotencyInit, NoIdRow
<1>3. RecoveryIsOfReaped /\ InFlightWhileRunning /\ AnswersAreOfRuns /\ TidingsAreOfRuns
  BY <1>1, <1>2 DEF RecoveryIsOfReaped, InFlightWhileRunning, AnswersAreOfRuns, TidingsAreOfRuns,
     Executes, Running, Reaping, At
<1> QED BY <1>3, InitIsTyped DEF TableIInv

(* Whatever nodes race for a key, die or lose answers, the invariant holds. *)
THEOREM Invariance == IdempotencySpec => []TableIInv
BY InitHolds, NextKeeps, PTL DEF IdempotencySpec

LEMMA OneRunSafe == TableIInv => OneRunUntilReaped
<1> SUFFICES ASSUME TableIInv, NEW k \in IdKeys \ idReaped
             PROVE  idRuns[k] <= 1 /\ Cardinality(Executors(k)) <= 1
  BY DEF OneRunUntilReaped
<1>1. CASE Executors(k) = {} BY <1>1, FS_EmptySet DEF TableIInv, InFlightWhileRunning
<1>2. CASE Executors(k) # {}
  <2>1. PICK n : Executors(k) = {n}
    BY <1>2 DEF TableIInv, InFlightWhileRunning, Executors, Executes, Running
  <2> QED BY <2>1, FS_Singleton DEF TableIInv, InFlightWhileRunning
<1> QED BY <1>1, <1>2

(* Until its row is seen expired, a key has one executor and one run.       *)
THEOREM OneRunHolds == IdempotencySpec => []OneRunUntilReaped
BY OneRunSafe, Invariance, PTL

(* No answer, of the table or of the ledger, tells of a run that was not.   *)
THEOREM AnswersHold == IdempotencySpec => []AnswersAreOfRuns
<1>1. TableIInv => AnswersAreOfRuns BY DEF TableIInv
<1> QED BY <1>1, Invariance, PTL

LEMMA CompletedStep ==
  ASSUME TableIInv, [IdempotencyNext]_idVars
  PROVE  \A k \in IdKeys \ idReaped : idRows[k].st = "Completed" => idRows'[k] = idRows[k]
<1> SUFFICES ASSUME NEW j \in IdKeys, j \notin idReaped, idRows[j].st = "Completed"
             PROVE  idRows'[j] = idRows[j]
  OBVIOUS
<1>1. ASSUME NEW n \in IdNodes, ExecuteStep(n) PROVE idRows'[j] = idRows[j]
  <2>1. PICK k \in IdKeys : Does(n, k) BY <1>1, ExecuteDoes
  <2>2. idRows' = idRows \/ k \in idReaped \/ idRows[k] = NoIdRow \/ Executes(n, k)
    BY <2>1 DEF Does, StaysOut, Recovers, Finds, Restores, Releases, Takes, Rejects, TakesEffect,
       Finishes
  <2>3. CASE j = k BY <2>2, <2>3 DEF NoIdRow, TableIInv, InFlightWhileRunning
  <2>4. CASE j # k
    <3>1. idRows' = idRows \/ \E row : RowBecomes(k, row)
      BY <2>1 DEF Does, StaysOut, Recovers, Finds, Restores, Releases, Takes, Rejects,
         TakesEffect, Finishes
    <3> QED BY <2>4, <3>1 DEF RowBecomes, TableIInv, IdTypeOK
  <2> QED BY <2>3, <2>4
<1> QED BY <1>1 DEF IdempotencyNext, FlushLedger, NodeDies, IdClockTicks, idVars

(* A completed row stays as it is until somebody sees the key expired.      *)
THEOREM CompletedHolds == IdempotencySpec => CompletedStays
BY CompletedStep, Invariance, PTL DEF IdempotencySpec, CompletedStays

------------------------------------------------------------------------------
(* Parties, guilds, friends and mail, for any number of players, limits     *)
(* and groups: a group keeps to its limit and is led by a member, who is in *)
(* a group knows it, friendship is mutual, the store holds what memory does *)
(* and a mail's attachment is granted once.                                 *)

(* Parties, friends, guilds and mail.                                       *)
SocialGroup == [members : Seq(SocialPlayers), leader : SocialPlayers \cup {0}]
GroupFits(group, limit) ==
  group \in SocialGroup /\ NoRepeat(group.members) /\ Len(group.members) <= limit
Led(group) == Exists(group) => In(group, group.leader)

LEMMA FoundedFits ==
  ASSUME NEW p \in SocialPlayers, NEW limit \in Nat \ {0}
  PROVE  GroupFits(Founded(p), limit) /\ Led(Founded(p)) /\ \A q : In(Founded(p), q) => q = p
<1> QED BY DEF GroupFits, Founded, SocialGroup, Led, In, NoRepeat

LEMMA NobodyFits ==
  ASSUME NEW limit \in Nat
  PROVE  GroupFits(Nobody, limit) /\ Led(Nobody) /\ ~Exists(Nobody) /\ \A q : ~In(Nobody, q)
<1> QED BY DEF GroupFits, Nobody, SocialGroup, Led, In, NoRepeat, Exists

LEMMA JoinedFits ==
  ASSUME NEW limit \in Nat, NEW g, GroupFits(g, limit), NEW p \in SocialPlayers,
         ~In(g, p), Len(g.members) < limit
  PROVE  /\ GroupFits(Joined(g, p), limit) /\ \A q : In(Joined(g, p), q) <=> In(g, q) \/ q = p
         /\ Joined(g, p).leader = g.leader /\ Exists(Joined(g, p))
<1> DEFINE m == g.members
           t == Append(m, p)
<1>1. m \in Seq(SocialPlayers) /\ NoRepeat(m) /\ Len(m) < limit /\ Len(m) \in Nat
  BY LenProperties DEF GroupFits, SocialGroup
<1>2. p \notin Members(m) BY DEF In, Members
<1> HIDE DEF m
<1>3. t \in Seq(SocialPlayers) /\ Members(t) = Members(m) \cup {p} /\ NoRepeat(t) /\ Len(t) = Len(m) + 1
  BY <1>1, <1>2, AppendMembers, AppendOf
<1>4. t # <<>> BY <1>1, <1>3
<1> HIDE DEF t
<1>5. Joined(g, p) \in SocialGroup /\ Joined(g, p).members = t /\ Joined(g, p).leader = g.leader
  BY <1>3 DEF Joined, GroupFits, SocialGroup, m, t
<1>6. \A q : In(Joined(g, p), q) <=> q \in Members(t) BY <1>5 DEF In, Members
<1>7. \A q : In(g, q) <=> q \in Members(m) BY DEF In, Members, m
<1> QED BY <1>1, <1>3, <1>4, <1>5, <1>6, <1>7 DEF GroupFits, Exists

LEMMA PartingFits ==
  ASSUME NEW limit \in Nat, NEW g, GroupFits(g, limit), NEW p
  PROVE  /\ GroupFits(Without(g, p), limit)
         /\ \A q : In(Without(g, p), q) <=> In(g, q) /\ q # p
         /\ Without(g, p).leader = g.leader
<1> DEFINE m == g.members
           places == {i \in DOMAIN m : m[i] # p}
           at == CHOOSE f \in SetToSeqs(places) : \A i, j \in DOMAIN f : i < j => f[i] < f[j]
           t == [i \in DOMAIN at |-> m[at[i]]]
<1>1. m \in Seq(SocialPlayers) /\ NoRepeat(m) /\ Len(m) <= limit /\ Len(m) \in Nat
  BY LenProperties DEF GroupFits, SocialGroup
<1>2. Staying(m, p) = t BY DEF Staying
<1> HIDE DEF m
<1>0. m \in Seq(SocialPlayers) /\ places \in SUBSET (DOMAIN m) /\ NoRepeat(m)
      /\ PicksOut(t, m, at, places)
  BY <1>1 DEF PicksOut
<1>p. \A q : q \in {m[i] : i \in places} <=> q \in Members(m) \ {p} BY DEF Members
<1> HIDE DEF t, at, places
<1>3. t \in Seq(SocialPlayers) /\ Len(t) <= Len(m) /\ Members(t) = {m[i] : i \in places} /\ NoRepeat(t)
  BY <1>0, PickedPlaces
<1>4. Members(t) = Members(m) \ {p} /\ Len(t) \in Nat BY <1>3, <1>p, LenProperties
<1>5. Without(g, p) \in SocialGroup /\ Without(g, p).members = t /\ Without(g, p).leader = g.leader
  BY <1>2, <1>3 DEF Without, GroupFits, SocialGroup, m
<1>6. \A q : In(Without(g, p), q) <=> q \in Members(t) BY <1>5 DEF In, Members
<1>7. \A q : In(g, q) <=> q \in Members(m) BY DEF In, Members, m
<1> QED BY <1>1, <1>3, <1>4, <1>5, <1>6, <1>7 DEF GroupFits

LEMMA LeftFits ==
  ASSUME NEW limit \in Nat, NEW g, GroupFits(g, limit), NEW p
  PROVE  /\ GroupFits(Left(g, p), limit)
         /\ \A q : In(Left(g, p), q) => In(g, q)
         /\ Led(g) => Led(Left(g, p))
<1> DEFINE rest == Without(g, p)
<1>1. /\ GroupFits(rest, limit) /\ rest.leader = g.leader
      /\ \A q : In(rest, q) <=> In(g, q) /\ q # p
  BY PartingFits
<1>2. Left(g, p) = IF ~Exists(rest) THEN Nobody
                   ELSE IF g.leader = p THEN [rest EXCEPT !.leader = Head(rest.members)] ELSE rest
  BY DEF Left
<1> HIDE DEF rest
<1>3. CASE ~Exists(rest) BY <1>2, <1>3, NobodyFits
<1>4. CASE Exists(rest) /\ g.leader = p
  <2> DEFINE m == rest.members
             new == [rest EXCEPT !.leader = Head(rest.members)]
  <2>1. m \in Seq(SocialPlayers) /\ m # <<>> BY <1>1, <1>4 DEF GroupFits, SocialGroup, Exists
  <2>2. Head(m) \in SocialPlayers /\ Head(m) = m[1] /\ 1 \in DOMAIN m
    <3> HIDE DEF m
    <3> QED BY <2>1, TailOf, LenProperties
  <2>3. new \in SocialGroup /\ new.members = m /\ new.leader = m[1]
    BY <1>1, <2>2 DEF GroupFits, SocialGroup
  <2>4. Led(new) BY <2>2, <2>3 DEF Led, In
  <2> QED BY <1>1, <1>2, <1>4, <2>3, <2>4 DEF GroupFits, In
<1>5. CASE Exists(rest) /\ g.leader # p
  <2>1. Led(g) => Led(rest)
    <3>1. \A q : In(rest, q) => In(g, q) BY <1>1
    <3>2. Exists(g)
      <4>1. rest.members \in Seq(SocialPlayers) /\ rest.members # <<>>
        BY <1>1, <1>5 DEF GroupFits, SocialGroup, Exists
      <4>2. 1 \in DOMAIN rest.members
        <5> DEFINE m == rest.members
        <5> HIDE DEF m
        <5>1. 1 \in DOMAIN m BY <4>1, TailOf, LenProperties DEF m
        <5> QED BY <5>1 DEF m
      <4>3. In(g, rest.members[1]) BY <3>1, <4>2 DEF In
      <4>4. DOMAIN g.members # {} BY <4>3 DEF In
      <4>5. DOMAIN <<>> = {} OBVIOUS
      <4> HIDE DEF rest
      <4> QED BY <4>4, <4>5 DEF Exists
    <3> QED BY <1>1, <1>5, <3>2 DEF Led
  <2> QED BY <1>1, <1>2, <1>5, <2>1
<1> QED BY <1>3, <1>4, <1>5

(* Parties: who is invited to a party is not in it.                         *)
PartyIInv ==
  /\ soParties \in Seq(SocialGroup) /\ \A i \in DOMAIN soParties : GroupFits(soParties[i], PartySizeMax)
  /\ soPlayerParty \in [SocialPlayers -> 0 .. Len(soParties)]
  /\ soInvites \in [SocialPlayers -> SUBSET (DOMAIN soParties)]
  /\ \A p \in SocialPlayers : \A i \in soInvites[p] : ~In(soParties[i], p)

LEMMA PartiesStart == SocialInit => PartyIInv
<1> SUFFICES ASSUME SocialInit PROVE PartyIInv OBVIOUS
<1> QED BY DEF SocialInit, PartyIInv

(* The party pid becomes a group that nobody who is invited is in.          *)
LEMMA OnePartyChanges ==
  ASSUME PartyIInv, NEW pid \in DOMAIN soParties, NEW g, GroupFits(g, PartySizeMax),
         soParties' = [soParties EXCEPT ![pid] = g],
         soPlayerParty' \in [SocialPlayers -> 0 .. Len(soParties)],
         soInvites' \in [SocialPlayers -> SUBSET (DOMAIN soParties)],
         \A p \in SocialPlayers : soInvites'[p] \subseteq soInvites[p],
         \A p \in SocialPlayers : pid \in soInvites'[p] => ~In(g, p)
  PROVE  PartyIInv'
<1>1. /\ Len(soParties) \in Nat /\ DOMAIN soParties = 1 .. Len(soParties)
      /\ \A i \in DOMAIN soParties : soParties[i] \in SocialGroup /\ GroupFits(soParties[i], PartySizeMax)
      /\ soParties \in Seq(SocialGroup)
  BY LenProperties, ElementOfSeq DEF PartyIInv
<1>2. soParties' \in Seq(SocialGroup) /\ Len(soParties') = Len(soParties) /\ DOMAIN soParties' = DOMAIN soParties
  BY <1>1 DEF GroupFits
<1>3. \A i \in DOMAIN soParties : soParties'[i] = IF i = pid THEN g ELSE soParties[i] BY <1>1
<1> QED BY <1>1, <1>2, <1>3 DEF PartyIInv

LEMMA PartyIsCreated ==
  ASSUME PartyIInv, NEW p \in SocialPlayers, HPartyCreate(p)
  PROVE  PartyIInv'
<1> DEFINE n == Len(soParties)
           g == Founded(p)
<1>1. /\ n \in Nat /\ DOMAIN soParties = 1 .. n /\ soParties \in Seq(SocialGroup)
      /\ \A i \in DOMAIN soParties : GroupFits(soParties[i], PartySizeMax)
  BY LenProperties DEF PartyIInv
<1>2. GroupFits(g, PartySizeMax) /\ g \in SocialGroup
  BY FoundedFits, SocialAssumption DEF GroupFits
<1>3. soParties' = Append(soParties, g) /\ soPlayerParty' = [soPlayerParty EXCEPT ![p] = n + 1] /\ soInvites' = soInvites
  BY DEF HPartyCreate
<1> HIDE DEF n, g
<1>4. /\ soParties' \in Seq(SocialGroup) /\ Len(soParties') = n + 1
      /\ \A i \in 1 .. n + 1 : soParties'[i] = IF i = n + 1 THEN g ELSE soParties[i]
  BY <1>1, <1>2, <1>3, AppendOf DEF n
<1>5. DOMAIN soParties' = 1 .. n + 1 BY <1>4, LenProperties
<1>6. \A i \in DOMAIN soParties' : GroupFits(soParties'[i], PartySizeMax)
  BY <1>1, <1>2, <1>4, <1>5
<1>7. soPlayerParty' \in [SocialPlayers -> 0 .. n + 1]
  <2>1. soPlayerParty \in [SocialPlayers -> 0 .. n + 1] /\ n + 1 \in 0 .. n + 1
    BY <1>1 DEF PartyIInv, n
  <2> QED BY <1>3, <2>1
<1>8. soInvites' \in [SocialPlayers -> SUBSET (DOMAIN soParties')]
      /\ \A q \in SocialPlayers : \A i \in soInvites'[q] : i \in 1 .. n /\ ~In(soParties[i], q)
  BY <1>1, <1>3, <1>5 DEF PartyIInv
<1> QED BY <1>1, <1>4, <1>6, <1>7, <1>8 DEF PartyIInv

LEMMA PartySteps == PartyIInv /\ [PartiesNext]_partyVars => PartyIInv'
<1> SUFFICES ASSUME PartyIInv, [PartiesNext]_partyVars PROVE PartyIInv' OBVIOUS
<1>0. /\ soPlayerParty \in [SocialPlayers -> 0 .. Len(soParties)]
      /\ soInvites \in [SocialPlayers -> SUBSET (DOMAIN soParties)]
      /\ DOMAIN soParties = 1 .. Len(soParties) /\ Len(soParties) \in Nat
      /\ \A i \in DOMAIN soParties : soParties[i] \in SocialGroup /\ GroupFits(soParties[i], PartySizeMax)
      /\ PartySizeMax \in Nat
  BY SocialAssumption, LenProperties, ElementOfSeq DEF PartyIInv
<1>1. CASE UNCHANGED partyVars BY <1>1 DEF partyVars, PartyIInv
<1>2. ASSUME NEW p \in SocialPlayers, NEW q \in SocialPlayers, NEW pid \in DOMAIN soParties, HInvite(p, q, pid)
      PROVE  PartyIInv'
  BY <1>0, <1>2 DEF PartyIInv, HInvite
<1>3. ASSUME NEW p \in SocialPlayers, NEW pid \in DOMAIN soParties, HAccept(p, pid)
      PROVE  PartyIInv'
  <2>1. soInvites' = [soInvites EXCEPT ![p] = @ \ {pid}] /\ pid \in soInvites[p] /\ ~In(soParties[pid], p)
    BY <1>3 DEF HAccept, PartyIInv
  <2>2. /\ soInvites' \in [SocialPlayers -> SUBSET (DOMAIN soParties)] /\ pid \notin soInvites'[p]
        /\ \A o \in SocialPlayers : soInvites'[o] \subseteq soInvites[o]
    BY <1>0, <2>1
  <2>3. CASE UNCHANGED <<soParties, soPlayerParty>> BY <2>2, <2>3 DEF PartyIInv
  <2>4. CASE /\ Exists(soParties[pid]) /\ Len(soParties[pid].members) < PartySizeMax
             /\ soParties' = [soParties EXCEPT ![pid] = Joined(@, p)]
             /\ soPlayerParty' = [soPlayerParty EXCEPT ![p] = pid]
    <3> DEFINE g == Joined(soParties[pid], p)
    <3>1. GroupFits(g, PartySizeMax) /\ \A o : In(g, o) <=> In(soParties[pid], o) \/ o = p
      BY <1>0, <2>1, <2>4, JoinedFits
    <3>2. soParties' = [soParties EXCEPT ![pid] = g] BY <2>4
    <3>3. soPlayerParty' \in [SocialPlayers -> 0 .. Len(soParties)] BY <1>0, <2>4
    <3> HIDE DEF g
    <3> QED BY <2>2, <3>1, <3>2, <3>3, OnePartyChanges DEF PartyIInv
  <2> QED BY <1>3, <2>3, <2>4 DEF HAccept
<1>4. ASSUME NEW p \in SocialPlayers, NEW pid \in DOMAIN soParties, HDecline(p, pid)
      PROVE  PartyIInv'
  BY <1>0, <1>4 DEF PartyIInv, HDecline
<1>5. ASSUME NEW p \in SocialPlayers, HLeave(p) PROVE PartyIInv'
  <2> DEFINE pid == soPlayerParty[p]
             g == Left(soParties[pid], p)
  <2>1. /\ pid \in DOMAIN soParties /\ soPlayerParty' = [soPlayerParty EXCEPT ![p] = 0] /\ soInvites' = soInvites
        /\ soParties' = IF Exists(soParties[pid]) THEN [soParties EXCEPT ![pid] = g] ELSE soParties
    BY <1>0, <1>5 DEF HLeave
  <2>2. GroupFits(g, PartySizeMax) /\ \A o : In(g, o) => In(soParties[pid], o)
    BY <1>0, <2>1, LeftFits
  <2>3. soPlayerParty' \in [SocialPlayers -> 0 .. Len(soParties)] BY <1>0, <2>1
  <2>4. CASE soParties' = soParties BY <2>1, <2>3, <2>4 DEF PartyIInv
  <2>5. CASE soParties' = [soParties EXCEPT ![pid] = g]
    <3>1. \A o \in SocialPlayers : pid \in soInvites'[o] => ~In(g, o) BY <2>1, <2>2 DEF PartyIInv
    <3> HIDE DEF g, pid
    <3>2. soInvites' \in [SocialPlayers -> SUBSET (DOMAIN soParties)]
          /\ \A o \in SocialPlayers : soInvites'[o] \subseteq soInvites[o]
      BY <1>0, <2>1
    <3> QED BY <2>1, <2>2, <2>3, <2>5, <3>1, <3>2, OnePartyChanges
  <2> HIDE DEF g
  <2> QED BY <2>1, <2>4, <2>5
<1>6. ASSUME NEW p \in SocialPlayers, NEW q \in SocialPlayers, NEW pid \in DOMAIN soParties, HKick(p, q, pid)
      PROVE  PartyIInv'
  <2> DEFINE rest == Without(soParties[pid], q)
             g == IF Exists(rest) THEN rest ELSE Nobody
  <2>1. /\ soParties' = [soParties EXCEPT ![pid] = g] /\ soPlayerParty' = [soPlayerParty EXCEPT ![q] = 0]
        /\ soInvites' = soInvites
    BY <1>6 DEF HKick
  <2>2. GroupFits(g, PartySizeMax) /\ \A o : In(g, o) => In(soParties[pid], o)
    BY <1>0, PartingFits, NobodyFits
  <2>3. /\ soPlayerParty' \in [SocialPlayers -> 0 .. Len(soParties)]
        /\ soInvites' \in [SocialPlayers -> SUBSET (DOMAIN soParties)]
        /\ \A o \in SocialPlayers : soInvites'[o] \subseteq soInvites[o]
    BY <1>0, <2>1
  <2>4. \A o \in SocialPlayers : pid \in soInvites'[o] => ~In(g, o) BY <2>1, <2>2 DEF PartyIInv
  <2> HIDE DEF g
  <2> QED BY <2>1, <2>2, <2>3, <2>4, OnePartyChanges
<1>7. ASSUME NEW p \in SocialPlayers, NEW q \in SocialPlayers, NEW pid \in DOMAIN soParties, HPromote(p, q, pid)
      PROVE  PartyIInv'
  <2> DEFINE old == soParties[pid]
             g == [old EXCEPT !.leader = q]
  <2>1. soParties' = [soParties EXCEPT ![pid].leader = q] /\ UNCHANGED <<soPlayerParty, soInvites>>
    BY <1>7 DEF HPromote
  <2>2. old \in SocialGroup /\ GroupFits(old, PartySizeMax) BY <1>0
  <2>3. g \in SocialGroup /\ g.members = old.members /\ soParties' = [soParties EXCEPT ![pid] = g]
    BY <1>0, <2>1, <2>2 DEF SocialGroup
  <2>4. GroupFits(g, PartySizeMax) /\ \A o : In(g, o) => In(old, o)
    BY <2>2, <2>3 DEF GroupFits, In
  <2>5. /\ soPlayerParty' \in [SocialPlayers -> 0 .. Len(soParties)]
        /\ soInvites' \in [SocialPlayers -> SUBSET (DOMAIN soParties)]
        /\ \A o \in SocialPlayers : soInvites'[o] \subseteq soInvites[o]
    BY <1>0, <2>1
  <2>6. \A o \in SocialPlayers : pid \in soInvites'[o] => ~In(g, o) BY <2>1, <2>4 DEF PartyIInv
  <2> HIDE DEF g
  <2> QED BY <2>3, <2>4, <2>5, <2>6, OnePartyChanges
<1>8. CASE PartiesNext
  BY <1>2, <1>3, <1>4, <1>5, <1>6, <1>7, <1>8, PartyIsCreated DEF PartiesNext
<1> QED BY <1>1, <1>8

(* Guilds: a guild whose last write succeeded is in the store as it is.     *)
GuildIInv ==
  /\ soGuilds \in Seq(SocialGroup)
  /\ \A i \in DOMAIN soGuilds : GroupFits(soGuilds[i], GuildSizeMax) /\ Led(soGuilds[i])
  /\ DOMAIN soStoredGuilds = DOMAIN soGuilds
  /\ \A i \in DOMAIN soGuilds : i \notin soUnsaved => soStoredGuilds[i] = soGuilds[i]

LEMMA GuildsStart == SocialInit => GuildIInv
<1> SUFFICES ASSUME SocialInit PROVE GuildIInv OBVIOUS
<1> QED BY DEF SocialInit, GuildIInv

(* One guild is new, or changed, and written or not.                        *)
LEMMA GuildIsWritten ==
  ASSUME GuildIInv, NEW gid \in DOMAIN soGuilds', soGuilds' \in Seq(SocialGroup),
         DOMAIN soGuilds' = DOMAIN soGuilds \cup {gid},
         \A i \in DOMAIN soGuilds' : i # gid => soGuilds'[i] = soGuilds[i],
         GroupFits(soGuilds'[gid], GuildSizeMax), Led(soGuilds'[gid]), PersistGuild(gid)
  PROVE  GuildIInv'
<1>1. \A i \in DOMAIN soGuilds' : GroupFits(soGuilds'[i], GuildSizeMax) /\ Led(soGuilds'[i])
  BY DEF GuildIInv
<1>2. CASE /\ soStoredGuilds' = [i \in DOMAIN soGuilds' |-> IF i = gid THEN soGuilds'[gid] ELSE soStoredGuilds[i]]
           /\ soUnsaved' = soUnsaved \ {gid}
  BY <1>1, <1>2 DEF GuildIInv
<1>3. CASE /\ soStoredGuilds' = [i \in DOMAIN soGuilds' |->
                                   IF i \in DOMAIN soStoredGuilds THEN soStoredGuilds[i] ELSE Nobody]
           /\ soUnsaved' = soUnsaved \cup {gid}
  BY <1>1, <1>3 DEF GuildIInv
<1> QED BY <1>2, <1>3 DEF PersistGuild

LEMMA GuildSteps == GuildIInv /\ [GuildsNext]_guildVars => GuildIInv'
<1> SUFFICES ASSUME GuildIInv, [GuildsNext]_guildVars PROVE GuildIInv' OBVIOUS
<1>0. /\ soGuilds \in Seq(SocialGroup) /\ GuildSizeMax \in Nat \ {0}
      /\ DOMAIN soGuilds = 1 .. Len(soGuilds) /\ Len(soGuilds) \in Nat
      /\ \A i \in DOMAIN soGuilds : GroupFits(soGuilds[i], GuildSizeMax) /\ Led(soGuilds[i])
  BY SocialAssumption, LenProperties DEF GuildIInv
<1>1. CASE UNCHANGED guildVars BY <1>1 DEF guildVars, GuildIInv
<1>2. ASSUME NEW gid \in DOMAIN soGuilds, NEW g, GroupFits(g, GuildSizeMax), Led(g), PersistGuild(gid),
             soGuilds' = [soGuilds EXCEPT ![gid] = g]
      PROVE  GuildIInv'
  <2>1. /\ soGuilds' \in Seq(SocialGroup) /\ DOMAIN soGuilds' = DOMAIN soGuilds /\ soGuilds'[gid] = g
        /\ \A i \in DOMAIN soGuilds' : i # gid => soGuilds'[i] = soGuilds[i]
    BY <1>0, <1>2 DEF GroupFits
  <2>2. GroupFits(soGuilds'[gid], GuildSizeMax) /\ Led(soGuilds'[gid]) BY <1>2, <2>1
  <2> QED BY <1>2, <2>1, <2>2, GuildIsWritten
<1>3. ASSUME NEW p \in SocialPlayers, HGuildCreate(p) PROVE GuildIInv'
  <2> DEFINE n == Len(soGuilds)
             g == Founded(p)
  <2>1. soGuilds' = Append(soGuilds, g) /\ PersistGuild(Len(soGuilds')) BY <1>3 DEF HGuildCreate
  <2>2. GroupFits(g, GuildSizeMax) /\ Led(g) /\ g \in SocialGroup
    BY <1>0, FoundedFits DEF GroupFits
  <2> HIDE DEF g
  <2>3. /\ soGuilds' \in Seq(SocialGroup) /\ Len(soGuilds') = n + 1
        /\ \A i \in 1 .. n + 1 : soGuilds'[i] = IF i = n + 1 THEN g ELSE soGuilds[i]
    BY <1>0, <2>1, <2>2, AppendOf
  <2>4. DOMAIN soGuilds' = 1 .. n + 1 /\ DOMAIN soGuilds = 1 .. n /\ n \in Nat /\ PersistGuild(n + 1)
    BY <1>0, <2>1, <2>3, LenProperties
  <2> HIDE DEF n
  <2> QED BY <2>2, <2>3, <2>4, GuildIsWritten
<1>4. ASSUME NEW p \in SocialPlayers, NEW gid \in DOMAIN soGuilds, HJoinGuild(p, gid) PROVE GuildIInv'
  <2> DEFINE g == Joined(soGuilds[gid], p)
  <2>1. /\ soGuilds' = [soGuilds EXCEPT ![gid] = g] /\ PersistGuild(gid)
        /\ ~In(soGuilds[gid], p) /\ Len(soGuilds[gid].members) < GuildSizeMax /\ Exists(soGuilds[gid])
    BY <1>4 DEF HJoinGuild
  <2>2. GroupFits(g, GuildSizeMax) /\ (\A q : In(g, q) <=> In(soGuilds[gid], q) \/ q = p)
        /\ g.leader = soGuilds[gid].leader
    BY <1>0, <2>1, JoinedFits
  <2>3. Led(g) BY <1>0, <2>1, <2>2 DEF Led
  <2> HIDE DEF g
  <2> QED BY <1>2, <2>1, <2>2, <2>3
<1>5. ASSUME NEW p \in SocialPlayers, NEW gid \in DOMAIN soGuilds, LeaveGuild(p, gid) PROVE GuildIInv'
  <2> DEFINE g == Left(soGuilds[gid], p)
  <2>1. soGuilds' = [soGuilds EXCEPT ![gid] = g] /\ PersistGuild(gid) BY <1>5 DEF LeaveGuild
  <2>2. GroupFits(g, GuildSizeMax) /\ Led(g) BY <1>0, LeftFits
  <2> HIDE DEF g
  <2> QED BY <1>2, <2>1, <2>2
<1>6. CASE GuildsNext BY <1>3, <1>4, <1>5, <1>6 DEF GuildsNext
<1> QED BY <1>1, <1>6

(* Friendship is mutual.                                                    *)
FriendIInv ==
  /\ soFriends \in [SocialPlayers -> SUBSET SocialPlayers]
  /\ \A p, q \in SocialPlayers : p \in soFriends[q] <=> q \in soFriends[p]

LEMMA FriendsStart == SocialInit => FriendIInv
BY DEF SocialInit, FriendIInv

LEMMA FriendSteps == FriendIInv /\ [FriendsNext]_friendVars => FriendIInv'
<1> SUFFICES ASSUME FriendIInv, [FriendsNext]_friendVars PROVE FriendIInv' OBVIOUS
<1>1. CASE UNCHANGED friendVars BY <1>1 DEF friendVars, FriendIInv
<1>2. ASSUME NEW p \in SocialPlayers, NEW q \in SocialPlayers, p # q,
             soFriends' = [soFriends EXCEPT ![p] = @ \cup {q}, ![q] = @ \cup {p}]
      PROVE  FriendIInv'
  BY <1>2 DEF FriendIInv
<1>3. ASSUME NEW p \in SocialPlayers, NEW q \in SocialPlayers,
             soFriends' = [soFriends EXCEPT ![p] = @ \ {q}, ![q] = @ \ {p}]
      PROVE  FriendIInv'
  <2>1. CASE p = q BY <1>3, <2>1 DEF FriendIInv
  <2>2. CASE p # q BY <1>3, <2>2 DEF FriendIInv
  <2> QED BY <2>1, <2>2
<1>4. CASE FriendsNext BY <1>2, <1>3, <1>4 DEF FriendsNext, HAddFriend, HRemoveFriend
<1> QED BY <1>1, <1>4

(* Mail: what was granted was claimed, and so was what the store calls so.  *)
SocialMail == [from : SocialPlayers, to : SocialPlayers, claimed : BOOLEAN]
MailIInv ==
  /\ soMails \in Seq(SocialMail) /\ soGranted \in Seq(Nat) /\ Len(soGranted) = Len(soMails)
  /\ DOMAIN soStoredMails = DOMAIN soMails
  /\ \A i \in DOMAIN soMails : /\ soGranted[i] = IF soMails[i].claimed THEN 1 ELSE 0
                               /\ soStoredMails[i].claimed => soMails[i].claimed

LEMMA MailsStart == SocialInit => MailIInv
<1> SUFFICES ASSUME SocialInit PROVE MailIInv OBVIOUS
<1> QED BY DEF SocialInit, MailIInv

LEMMA MailSteps == MailIInv /\ [MailsNext]_mailVars => MailIInv'
<1> SUFFICES ASSUME MailIInv, [MailsNext]_mailVars PROVE MailIInv' OBVIOUS
<1> DEFINE n == Len(soMails)
<1>0. /\ n \in Nat /\ DOMAIN soMails = 1 .. n /\ DOMAIN soGranted = 1 .. n /\ DOMAIN soStoredMails = 1 .. n
      /\ \A i \in 1 .. n : soMails[i] \in SocialMail /\ soGranted[i] \in Nat
  BY LenProperties, ElementOfSeq DEF MailIInv
<1>1. CASE UNCHANGED mailVars BY <1>1 DEF mailVars, MailIInv
<1>2. ASSUME NEW mid, PersistMail(mid)
      PROVE  /\ DOMAIN soStoredMails' = DOMAIN soMails'
             /\ \A i \in DOMAIN soMails' : \/ soStoredMails'[i] = soMails'[i]
                                           \/ i \in DOMAIN soStoredMails /\ soStoredMails'[i] = soStoredMails[i]
                                           \/ soStoredMails'[i] = NoMail
                                           \/ soStoredMails'[i] = soStoredMails[i] /\ i # mid
  <2>1. CASE soStoredMails' = [i \in DOMAIN soMails' |-> IF i = mid THEN soMails'[mid] ELSE soStoredMails[i]]
    BY <2>1
  <2>2. CASE soStoredMails' = [i \in DOMAIN soMails' |-> IF i \in DOMAIN soStoredMails THEN soStoredMails[i]
                                                                                      ELSE NoMail]
    BY <2>2
  <2> QED BY <1>2, <2>1, <2>2 DEF PersistMail
<1>3. ASSUME NEW p \in SocialPlayers, NEW q \in SocialPlayers, HSendMail(p, q) PROVE MailIInv'
  <2> DEFINE mail == [from |-> p, to |-> q, claimed |-> FALSE]
  <2>1. /\ soMails' = Append(soMails, mail) /\ soGranted' = Append(soGranted, 0) /\ PersistMail(Len(soMails'))
    BY <1>3 DEF HSendMail
  <2>2. mail \in SocialMail /\ mail.claimed = FALSE BY DEF SocialMail
  <2> HIDE DEF mail
  <2>3. /\ soMails' \in Seq(SocialMail) /\ Len(soMails') = n + 1
        /\ \A i \in 1 .. n + 1 : soMails'[i] = IF i = n + 1 THEN mail ELSE soMails[i]
    BY <2>1, <2>2, AppendOf DEF MailIInv
  <2>4. /\ soGranted' \in Seq(Nat) /\ Len(soGranted') = n + 1
        /\ \A i \in 1 .. n + 1 : soGranted'[i] = IF i = n + 1 THEN 0 ELSE soGranted[i]
    <3>1. soGranted \in Seq(Nat) /\ Len(soGranted) = n BY DEF MailIInv
    <3> HIDE DEF n
    <3> QED BY <2>1, <3>1, AppendOf
  <2>5. DOMAIN soMails' = 1 .. n + 1 BY <2>3, LenProperties
  <2> HIDE DEF n
  <2>6. NoMail.claimed = FALSE BY DEF NoMail
  <2>7. ASSUME NEW i \in DOMAIN soMails'
        PROVE  /\ soGranted'[i] = IF soMails'[i].claimed THEN 1 ELSE 0
               /\ soStoredMails'[i].claimed => soMails'[i].claimed
    <3>1. CASE i = n + 1
      <4>1. soMails'[i] = mail /\ soGranted'[i] = 0 /\ i \notin DOMAIN soStoredMails
        BY <1>0, <2>3, <2>4, <2>5, <3>1
      <4>2. soStoredMails'[i] = mail \/ soStoredMails'[i] = NoMail \/ i # Len(soMails')
        BY <1>2, <2>1, <2>5, <2>7, <4>1
      <4> QED BY <2>2, <2>3, <2>6, <3>1, <4>1, <4>2
    <3>2. CASE i \in 1 .. n
      <4>1. /\ soMails'[i] = soMails[i] /\ soGranted'[i] = soGranted[i] /\ i # n + 1 /\ i \in DOMAIN soMails
        BY <1>0, <2>3, <2>4, <2>5, <3>2
      <4>2. /\ soGranted[i] = IF soMails[i].claimed THEN 1 ELSE 0
            /\ soStoredMails[i].claimed => soMails[i].claimed
        BY <4>1 DEF MailIInv
      <4> QED BY <1>2, <2>1, <2>6, <4>1, <4>2
    <3> QED BY <1>0, <2>5, <3>1, <3>2
  <2> QED BY <1>2, <2>1, <2>3, <2>4, <2>7 DEF MailIInv
<1>4. ASSUME NEW p \in SocialPlayers, NEW mid \in DOMAIN soMails, HClaimMail(p, mid) PROVE MailIInv'
  <2> DEFINE mail == [soMails[mid] EXCEPT !.claimed = TRUE]
  <2>1. /\ soMails' = [soMails EXCEPT ![mid].claimed = TRUE] /\ soGranted' = [soGranted EXCEPT ![mid] = @ + 1]
        /\ ~soMails[mid].claimed /\ PersistMail(mid)
    BY <1>4 DEF HClaimMail
  <2>2. mail \in SocialMail /\ mail.claimed = TRUE BY <1>0 DEF SocialMail
  <2>3. soMails' = [soMails EXCEPT ![mid] = mail] BY <1>0, <2>1 DEF SocialMail
  <2> HIDE DEF mail
  <2>4. /\ soMails' \in Seq(SocialMail) /\ DOMAIN soMails' = DOMAIN soMails /\ Len(soMails') = n
        /\ \A i \in DOMAIN soMails : soMails'[i] = IF i = mid THEN mail ELSE soMails[i]
    BY <1>0, <2>2, <2>3 DEF MailIInv
  <2>5. soGranted[mid] = 0 BY <2>1 DEF MailIInv
  <2>6. /\ soGranted' \in Seq(Nat) /\ Len(soGranted') = n
        /\ \A i \in DOMAIN soMails : soGranted'[i] = IF i = mid THEN 1 ELSE soGranted[i]
    <3>1. soGranted \in Seq(Nat) /\ Len(soGranted) = n BY DEF MailIInv
    <3>2. soGranted' = [soGranted EXCEPT ![mid] = 1] BY <1>0, <2>1, <2>5
    <3> HIDE DEF n
    <3> QED BY <1>0, <3>1, <3>2
  <2> HIDE DEF n
  <2>7. ASSUME NEW i \in DOMAIN soMails
        PROVE  /\ soGranted'[i] = IF soMails'[i].claimed THEN 1 ELSE 0
               /\ soStoredMails'[i].claimed => soMails'[i].claimed
    <3>1. CASE i = mid BY <2>2, <2>4, <2>6, <3>1
    <3>2. CASE i # mid
      <4>1. soStoredMails'[i] = soMails'[i] \/ soStoredMails'[i] = soStoredMails[i] \/ soStoredMails'[i] = NoMail
        BY <1>2, <2>1, <2>4
      <4>2. /\ soGranted[i] = IF soMails[i].claimed THEN 1 ELSE 0
            /\ soStoredMails[i].claimed => soMails[i].claimed
        BY DEF MailIInv
      <4>3. NoMail.claimed = FALSE BY DEF NoMail
      <4> QED BY <2>4, <2>6, <3>2, <4>1, <4>2, <4>3
    <3> QED BY <3>1, <3>2
  <2> QED BY <1>2, <2>1, <2>4, <2>6, <2>7 DEF MailIInv
<1>5. CASE MailsNext BY <1>3, <1>4, <1>5 DEF MailsNext
<1> QED BY <1>1, <1>5

LEMMA SocialSafe ==
  PartyIInv /\ GuildIInv /\ FriendIInv /\ MailIInv => GroupsAreSound /\ StoreFollowsMemory
<1> SUFFICES ASSUME PartyIInv, GuildIInv, FriendIInv, MailIInv PROVE GroupsAreSound /\ StoreFollowsMemory
  OBVIOUS
<1>1. ASSUME NEW limit \in Nat, NEW g, GroupFits(g, limit)
      PROVE  Len(g.members) <= limit /\ Cardinality(ToSet(g.members)) = Len(g.members)
  <2>1. Cardinality(ToSet(g.members)) = Len(g.members)
    <3>1. ToSet(g.members) = Members(g.members) BY DEF ToSet, Members
    <3> QED BY <1>1, <3>1, CountMembers DEF GroupFits, SocialGroup
  <2> QED BY <1>1, <2>1 DEF GroupFits
<1>2. GroupsAreSound BY <1>1, SocialAssumption DEF GroupsAreSound, PartyIInv, GuildIInv, Led
<1> QED BY <1>2 DEF StoreFollowsMemory, GuildIInv, FriendIInv, MailIInv

------------------------------------------------------------------------------
(* Quests, for any definitions: what was granted was turned in, and once.   *)

(* Quests.                                                                  *)
Statuses == {"None", "Accepted", "Completed", "Abandoned", "TurnedIn"}
QuestInstances == [status : Statuses, progress : Seq(Int), needs : SUBSET QuestIds]
QuestTypes ==
  /\ quDefs \in [QuestIds -> QuestDefs \cup {NoDef}]
  /\ quHeld \in [QuestPlayers -> [QuestIds -> QuestInstances]]
  /\ quGranted \in [QuestPlayers -> [QuestIds -> {0, 1}]]
  /\ quIndex \subseteq [player : QuestPlayers, quest : QuestIds, objective : Nat, event : STRING]

(* One player's instance of one quest, with what was granted for it, who    *)
(* turned it in and which of its events are indexed.                        *)
EarnedSoFar(held, granted, turnedIn, index, p, q) ==
  /\ granted[p][q] = IF held[p][q].status = "TurnedIn" THEN 1 ELSE 0
  /\ <<p, q>> \in turnedIn <=> held[p][q].status = "TurnedIn"
  /\ \A pre \in held[p][q].needs : held[p][pre].status = "TurnedIn"
  /\ held[p][q].status \in {"None", "Abandoned", "TurnedIn"} =>
        \A e \in index : ~(e.player = p /\ e.quest = q)
AllEarned(held, granted, turnedIn, index) ==
  \A p \in QuestPlayers, q \in QuestIds : EarnedSoFar(held, granted, turnedIn, index, p, q)
QuestIInv == QuestTypes /\ AllEarned(quHeld, quGranted, quTurnedIn, quIndex)

LEMMA QuestsStart == QuestsInit => QuestIInv
<1> SUFFICES ASSUME QuestsInit PROVE QuestIInv OBVIOUS
<1>1. NotHeld \in QuestInstances /\ NotHeld.status = "None" /\ NotHeld.needs = {}
  BY DEF NotHeld, QuestInstances, Statuses
<1>2. AllEarned(quHeld, quGranted, quTurnedIn, quIndex)
  BY <1>1 DEF QuestsInit, AllEarned, EarnedSoFar
<1> QED BY <1>1, <1>2 DEF QuestIInv, QuestsInit, QuestTypes

(* One instance changes: what was turned in before stays so, and the rest   *)
(* of the record is untouched.                                              *)
HoldingChanges(held, p, q, inst, granted, granted2, turnedIn, turnedIn2, index, index2) ==
  /\ held[p][q].status # "TurnedIn"
  /\ \A o \in QuestPlayers, r \in QuestIds : <<o, r>> # <<p, q>> =>
        granted2[o][r] = granted[o][r] /\ (<<o, r>> \in turnedIn2 <=> <<o, r>> \in turnedIn)
  /\ \A e \in index2 : e \in index \/ (e.player = p /\ e.quest = q)
  /\ granted2[p][q] = IF inst.status = "TurnedIn" THEN 1 ELSE 0
  /\ <<p, q>> \in turnedIn2 <=> inst.status = "TurnedIn"
  /\ \A pre \in inst.needs : held[p][pre].status = "TurnedIn"
  /\ inst.status \in {"None", "Abandoned", "TurnedIn"} =>
        \A e \in index2 : ~(e.player = p /\ e.quest = q)

LEMMA OneInstanceChanges ==
  ASSUME NEW held \in [QuestPlayers -> [QuestIds -> QuestInstances]],
         NEW p \in QuestPlayers, NEW q \in QuestIds, NEW inst \in QuestInstances,
         NEW granted, NEW granted2, NEW turnedIn, NEW turnedIn2, NEW index, NEW index2,
         AllEarned(held, granted, turnedIn, index),
         HoldingChanges(held, p, q, inst, granted, granted2, turnedIn, turnedIn2, index, index2)
  PROVE  AllEarned([held EXCEPT ![p][q] = inst], granted2, turnedIn2, index2)
<1> DEFINE held2 == [held EXCEPT ![p][q] = inst]
<1>1. /\ held2[p][q] = inst
      /\ \A o \in QuestPlayers, r \in QuestIds : <<o, r>> # <<p, q>> => held2[o][r] = held[o][r]
  OBVIOUS
<1>2. \A o \in QuestPlayers, r \in QuestIds :
         held[o][r].status = "TurnedIn" => held2[o][r].status = "TurnedIn"
  BY <1>1 DEF HoldingChanges
<1>3. \A o \in QuestPlayers, r \in QuestIds : held[o][r].needs \subseteq QuestIds /\ inst.needs \subseteq QuestIds
  BY DEF QuestInstances
<1> HIDE DEF held2
<1> USE DEF HoldingChanges
<1> SUFFICES ASSUME NEW o \in QuestPlayers, NEW r \in QuestIds
             PROVE  EarnedSoFar(held2, granted2, turnedIn2, index2, o, r)
  BY DEF AllEarned, held2
<1>4. EarnedSoFar(held, granted, turnedIn, index, o, r) BY DEF AllEarned
<1>5. CASE <<o, r>> = <<p, q>>
  <2>1. \A pre \in inst.needs : held2[p][pre].status = "TurnedIn" BY <1>2, <1>3
  <2> QED BY <1>1, <1>5, <2>1 DEF EarnedSoFar
<1>6. CASE <<o, r>> # <<p, q>>
  <2>1. \A pre \in held[o][r].needs : held2[o][pre].status = "TurnedIn"
    BY <1>2, <1>3, <1>4 DEF EarnedSoFar
  <2>2. \A e \in index2 : e.player = o /\ e.quest = r => e \in index BY <1>6
  <2> QED BY <1>1, <1>4, <1>6, <2>1, <2>2 DEF EarnedSoFar
<1> QED BY <1>5, <1>6

LEMMA LoadKeepsQuests ==
  ASSUME QuestIInv, NEW dir \in QuestDirs, LoadQuests(dir)
  PROVE  QuestIInv'
<1>1. DOMAIN dir = 1 .. Len(dir) /\ Len(dir) \in Nat /\ \A i \in DOMAIN dir : dir[i] \in QuestDefs
  BY QuestsAssumption, LenProperties, ElementOfSeq
<1>2. ASSUME NEW q \in QuestIds, NEW at, at = {i \in DOMAIN dir : dir[i].id = q}, at # {}
      PROVE  dir[Max(at)] \in QuestDefs
  <2>1. IsFiniteSet(DOMAIN dir) BY <1>1, FS_Interval
  <2>2. IsFiniteSet(at) /\ at \in SUBSET Int BY <1>1, <1>2, <2>1, FS_Subset
  <2>3. \E m \in at : \A i \in at : m >= i BY <1>2, <2>2, GreatestOf
  <2>4. Max(at) \in at BY <2>3 DEF Max
  <2> QED BY <1>1, <1>2, <2>4
<1> QED BY <1>2 DEF LoadQuests, QuestIInv, QuestTypes

LEMMA RegisterKeepsQuests ==
  ASSUME QuestIInv, NEW d \in DefsOffered, RegisterDef(d)
  PROVE  QuestIInv'
<1>1. quDefs' \in [QuestIds -> QuestDefs \cup {NoDef}]
  BY QuestsAssumption DEF RegisterDef, QuestIInv, QuestTypes, QuestDefs
<1> QED BY <1>1 DEF RegisterDef, QuestIInv, QuestTypes

LEMMA AcceptKeepsQuests ==
  ASSUME QuestIInv, NEW p \in QuestPlayers, NEW q \in QuestIds, NEW level, Accept(p, q, level)
  PROVE  QuestIInv'
<1> DEFINE d == quDefs[q]
           inst == [status |-> "Accepted", needs |-> d.pre, progress |-> [i \in DOMAIN d.objectives |-> 0]]
<1>1. QuestTypes /\ AllEarned(quHeld, quGranted, quTurnedIn, quIndex) BY DEF QuestIInv
<1>2. /\ quHeld[p][q].status # "TurnedIn" /\ \A pre \in d.pre : quHeld[p][pre].status = "TurnedIn"
      /\ quHeld' = [quHeld EXCEPT ![p][q] = inst]
      /\ quIndex' = EraseQuest(quIndex, p, q) \cup InsertObjectives(p, q, d) /\ d # NoDef
      /\ quDefs' = quDefs /\ quTurnedIn' = quTurnedIn /\ quGranted' = quGranted
  BY DEF Accept, CanAccept
<1>3. d \in QuestDefs /\ d.pre \in SUBSET QuestIds
      /\ d.objectives \in Seq([event : STRING, count : Int])
  BY <1>1, <1>2 DEF QuestTypes, QuestDefs
<1>4. DOMAIN d.objectives = 1 .. Len(d.objectives) /\ Len(d.objectives) \in Nat
      /\ \A i \in DOMAIN d.objectives : d.objectives[i].event \in STRING /\ i \in Nat
  <2> DEFINE o == d.objectives
             R == [event : STRING, count : Int]
  <2>0. \A r \in R : r.event \in STRING OBVIOUS
  <2> HIDE DEF o, R
  <2>1. DOMAIN o = 1 .. Len(o) /\ Len(o) \in Nat /\ \A i \in 1 .. Len(o) : o[i] \in R
    BY <1>3, LenProperties, ElementOfSeq DEF o, R
  <2> QED BY <2>0, <2>1 DEF o
<1>5. inst \in QuestInstances BY <1>3, <1>4 DEF QuestInstances, Statuses
<1> HIDE DEF d
<1>6. quIndex' \subseteq [player : QuestPlayers, quest : QuestIds, objective : Nat, event : STRING]
      /\ \A e \in quIndex' : e \in quIndex \/ (e.player = p /\ e.quest = q)
  BY <1>1, <1>2, <1>4 DEF QuestTypes, EraseQuest, InsertObjectives
<1>7. QuestTypes' BY <1>1, <1>2, <1>5, <1>6 DEF QuestTypes
<1>8. quGranted[p][q] = 0 /\ <<p, q>> \notin quTurnedIn BY <1>1, <1>2 DEF AllEarned, EarnedSoFar
<1>9. inst.status = "Accepted" /\ inst.needs = d.pre OBVIOUS
<1> HIDE DEF inst
<1>10. HoldingChanges(quHeld, p, q, inst, quGranted, quGranted', quTurnedIn, quTurnedIn', quIndex, quIndex')
  BY <1>2, <1>6, <1>8, <1>9 DEF HoldingChanges
<1>11. AllEarned(quHeld', quGranted', quTurnedIn', quIndex')
  BY <1>1, <1>2, <1>5, <1>10, OneInstanceChanges DEF QuestTypes
<1> QED BY <1>7, <1>11 DEF QuestIInv

LEMMA AbandonKeepsQuests ==
  ASSUME QuestIInv, NEW p \in QuestPlayers, NEW q \in QuestIds, Abandon(p, q)
  PROVE  QuestIInv'
<1> DEFINE old == quHeld[p][q]
           inst == [old EXCEPT !.status = "Abandoned", !.progress = [i \in DOMAIN @ |-> 0]]
<1>1. QuestTypes /\ AllEarned(quHeld, quGranted, quTurnedIn, quIndex)
      /\ quHeld \in [QuestPlayers -> [QuestIds -> QuestInstances]]
  BY DEF QuestIInv, QuestTypes
<1>2. old \in QuestInstances /\ old.progress \in Seq(Int) BY <1>1 DEF QuestInstances
<1>3. [i \in DOMAIN old.progress |-> 0] \in Seq(Int)
  <2> DEFINE s == old.progress
  <2>1. DOMAIN s = 1 .. Len(s) /\ Len(s) \in Nat BY <1>2, LenProperties
  <2> HIDE DEF s
  <2> QED BY <2>1 DEF s
<1>4. inst \in QuestInstances /\ inst.status = "Abandoned" /\ inst.needs = old.needs
  BY <1>2, <1>3 DEF QuestInstances, Statuses
<1>5. /\ old.status # "TurnedIn" /\ quHeld' = [quHeld EXCEPT ![p][q] = inst]
      /\ quIndex' = EraseQuest(quIndex, p, q)
      /\ quDefs' = quDefs /\ quTurnedIn' = quTurnedIn /\ quGranted' = quGranted
  BY <1>1 DEF Abandon, QuestInstances
<1>6. quIndex' \subseteq quIndex /\ \A e \in quIndex' : ~(e.player = p /\ e.quest = q)
  BY <1>5 DEF EraseQuest
<1>7. quGranted[p][q] = 0 /\ <<p, q>> \notin quTurnedIn /\ \A pre \in old.needs : quHeld[p][pre].status = "TurnedIn"
  BY <1>1, <1>5 DEF AllEarned, EarnedSoFar
<1> HIDE DEF inst
<1>8. AllEarned(quHeld', quGranted', quTurnedIn', quIndex')
  BY <1>1, <1>4, <1>5, <1>6, <1>7, OneInstanceChanges DEF HoldingChanges
<1> QED BY <1>1, <1>4, <1>5, <1>6, <1>8 DEF QuestIInv, QuestTypes

LEMMA TurnInKeepsQuests ==
  ASSUME QuestIInv, NEW p \in QuestPlayers, NEW q \in QuestIds, TurnIn(p, q)
  PROVE  QuestIInv'
<1> DEFINE old == quHeld[p][q]
           inst == [old EXCEPT !.status = "TurnedIn"]
<1>1. QuestTypes /\ AllEarned(quHeld, quGranted, quTurnedIn, quIndex)
      /\ quHeld \in [QuestPlayers -> [QuestIds -> QuestInstances]]
      /\ quGranted \in [QuestPlayers -> [QuestIds -> {0, 1}]]
  BY DEF QuestIInv, QuestTypes
<1>2. CASE UNCHANGED <<quGranted, quHeld, quTurnedIn, quIndex>>
  BY <1>1, <1>2 DEF TurnIn, QuestIInv, QuestTypes
<1>3. CASE /\ quGranted' = [quGranted EXCEPT ![p][q] = @ + 1]
           /\ quHeld' = [quHeld EXCEPT ![p][q].status = "TurnedIn"]
           /\ quTurnedIn' = quTurnedIn \cup {<<p, q>>}
           /\ quIndex' = EraseQuest(quIndex, p, q)
  <2>1. old.status = "Completed" /\ quDefs' = quDefs BY DEF TurnIn
  <2>2. old \in QuestInstances BY <1>1
  <2>3. inst \in QuestInstances /\ inst.status = "TurnedIn" /\ inst.needs = old.needs
    BY <2>2 DEF QuestInstances, Statuses
  <2>4. quHeld' = [quHeld EXCEPT ![p][q] = inst] BY <1>1, <1>3 DEF QuestInstances
  <2>5. quIndex' \subseteq quIndex /\ \A e \in quIndex' : ~(e.player = p /\ e.quest = q)
    BY <1>3 DEF EraseQuest
  <2>6. quGranted[p][q] = 0 /\ \A pre \in old.needs : quHeld[p][pre].status = "TurnedIn"
    BY <1>1, <2>1 DEF AllEarned, EarnedSoFar
  <2>7. /\ quGranted' \in [QuestPlayers -> [QuestIds -> {0, 1}]] /\ quGranted'[p][q] = 1
        /\ \A o \in QuestPlayers, r \in QuestIds : <<o, r>> # <<p, q>> => quGranted'[o][r] = quGranted[o][r]
    BY <1>1, <1>3, <2>6
  <2>8. /\ <<p, q>> \in quTurnedIn'
        /\ \A o \in QuestPlayers, r \in QuestIds :
              <<o, r>> # <<p, q>> => (<<o, r>> \in quTurnedIn' <=> <<o, r>> \in quTurnedIn)
    BY <1>3
  <2> HIDE DEF inst
  <2>9. QuestTypes' BY <1>1, <2>1, <2>3, <2>4, <2>5, <2>7 DEF QuestTypes
  <2>10. HoldingChanges(quHeld, p, q, inst, quGranted, quGranted', quTurnedIn, quTurnedIn', quIndex, quIndex')
    BY <2>1, <2>3, <2>5, <2>6, <2>7, <2>8 DEF HoldingChanges
  <2> QED BY <1>1, <2>3, <2>4, <2>9, <2>10, OneInstanceChanges DEF QuestIInv
<1> QED BY <1>2, <1>3 DEF TurnIn

(* An event moves only instances that are accepted, to accepted or          *)
(* completed ones.                                                          *)
LEMMA EventKeepsQuests ==
  ASSUME QuestIInv, NEW p \in QuestPlayers, NEW event, NEW count \in EventCounts, OnEvent(p, event, count)
  PROVE  QuestIInv'
<1> DEFINE hit == {e \in quIndex : e.player = p /\ e.event = event /\ Advances(e)}
           After(e) == RefreshCompletion([quHeld[p][e.quest] EXCEPT !.progress[e.objective] = Progressed(e, count)],
                                         quDefs[e.quest])
           OneOf(q) == CHOOSE e \in hit : e.quest = q
<1>1. QuestTypes /\ AllEarned(quHeld, quGranted, quTurnedIn, quIndex)
      /\ quHeld \in [QuestPlayers -> [QuestIds -> QuestInstances]]
  BY DEF QuestIInv, QuestTypes
<1>2. /\ quHeld' = [quHeld EXCEPT ![p] = [q \in QuestIds |->
                        IF \E e \in hit : e.quest = q THEN After(OneOf(q)) ELSE @[q]]]
      /\ quIndex' \subseteq quIndex
      /\ quDefs' = quDefs /\ quTurnedIn' = quTurnedIn /\ quGranted' = quGranted
  BY DEF OnEvent
<1>3. ASSUME NEW e \in hit
      PROVE  /\ quHeld[p][e.quest].status = "Accepted" /\ After(e) \in QuestInstances
             /\ After(e).status \in {"Accepted", "Completed"} /\ After(e).needs = quHeld[p][e.quest].needs
  <2> DEFINE old == quHeld[p][e.quest]
             o == quDefs[e.quest].objectives
             k == e.objective
             now == [old EXCEPT !.progress[k] = Progressed(e, count)]
  <2>1. e.player = p /\ e.quest \in QuestIds /\ old.status = "Accepted" /\ k \in DOMAIN o /\ k \in DOMAIN old.progress
    BY <1>1, <1>3 DEF Advances, QuestTypes
  <2>2. old \in QuestInstances /\ old.progress \in Seq(Int) BY <1>1, <2>1 DEF QuestInstances
  <2>3. o[k].count \in Int
    <3>1. quDefs[e.quest] \in QuestDefs BY <1>1, <2>1 DEF QuestTypes, NoDef
    <3>2. o \in Seq([event : STRING, count : Int]) BY <3>1 DEF QuestDefs
    <3> HIDE DEF o
    <3>3. o[k] \in [event : STRING, count : Int] BY <2>1, <3>2, LenProperties, ElementOfSeq
    <3> QED BY <3>3
  <2>4. old.progress[k] \in Int
    <3> DEFINE s == old.progress
    <3> HIDE DEF s
    <3>1. s[k] \in Int BY <2>1, <2>2, LenProperties, ElementOfSeq DEF s
    <3> QED BY <3>1 DEF s
  <2>5. Progressed(e, count) \in Int BY <2>1, <2>3, <2>4, QuestsAssumption DEF Progressed
  <2>6. [old.progress EXCEPT ![k] = Progressed(e, count)] \in Seq(Int)
    <3> DEFINE s == old.progress
               v == Progressed(e, count)
    <3> HIDE DEF s, v
    <3>1. s \in Seq(Int) /\ v \in Int BY <2>2, <2>5 DEF s, v
    <3>2. s \in [1 .. Len(s) -> Int] /\ Len(s) \in Nat BY <3>1, LenProperties, ElementOfSeq
    <3>3. [s EXCEPT ![k] = v] \in [1 .. Len(s) -> Int] BY <3>1, <3>2
    <3> QED BY <3>2, <3>3 DEF s, v
  <2>7. now \in QuestInstances /\ now.status = "Accepted" /\ now.needs = old.needs
    BY <2>1, <2>2, <2>6 DEF QuestInstances
  <2> HIDE DEF now
  <2>8. /\ [now EXCEPT !.status = "Completed"] \in QuestInstances
        /\ [now EXCEPT !.status = "Completed"].status = "Completed"
        /\ [now EXCEPT !.status = "Completed"].needs = now.needs
    BY <2>7 DEF QuestInstances, Statuses
  <2>9. After(e) \in {now, [now EXCEPT !.status = "Completed"]} BY DEF now, RefreshCompletion
  <2> HIDE DEF After
  <2> QED BY <2>1, <2>7, <2>8, <2>9
<1> HIDE DEF hit, After
<1>4. ASSUME NEW q \in QuestIds
      PROVE  \/ quHeld'[p][q] = quHeld[p][q]
             \/ /\ quHeld[p][q].status = "Accepted" /\ quHeld'[p][q] \in QuestInstances
                /\ quHeld'[p][q].status \in {"Accepted", "Completed"} /\ quHeld'[p][q].needs = quHeld[p][q].needs
  <2>1. CASE \E e \in hit : e.quest = q
    <3>1. OneOf(q) \in hit /\ OneOf(q).quest = q BY <2>1
    <3>2. quHeld'[p][q] = After(OneOf(q)) BY <1>1, <1>2, <2>1
    <3> HIDE DEF OneOf
    <3> QED BY <1>3, <3>1, <3>2
  <2>2. CASE ~\E e \in hit : e.quest = q BY <1>1, <1>2, <2>2
  <2> QED BY <2>1, <2>2
<1>5. \A o \in QuestPlayers : o # p => quHeld'[o] = quHeld[o] BY <1>1, <1>2
<1>6. quHeld' \in [QuestPlayers -> [QuestIds -> QuestInstances]]
  <2>1. quHeld' = [o \in QuestPlayers |-> quHeld'[o]] /\ quHeld'[p] = [q \in QuestIds |-> quHeld'[p][q]]
    BY <1>1, <1>2
  <2>2. quHeld'[p] \in [QuestIds -> QuestInstances] BY <1>1, <1>4, <2>1
  <2> QED BY <1>1, <1>5, <2>1, <2>2
<1>7. ASSUME NEW o \in QuestPlayers, NEW q \in QuestIds
      PROVE  EarnedSoFar(quHeld', quGranted', quTurnedIn', quIndex', o, q)
  <2>1. EarnedSoFar(quHeld, quGranted, quTurnedIn, quIndex, o, q) /\ quHeld[o][q].needs \subseteq QuestIds
    BY <1>1 DEF AllEarned, QuestInstances
  <2>2. \A pre \in quHeld[o][q].needs : quHeld'[o][pre].status = "TurnedIn"
    BY <1>4, <1>5, <2>1 DEF EarnedSoFar
  <2>3. CASE quHeld'[o][q] = quHeld[o][q] BY <1>2, <2>1, <2>2, <2>3 DEF EarnedSoFar
  <2>4. CASE quHeld'[o][q] # quHeld[o][q] BY <1>2, <1>4, <1>5, <2>1, <2>2, <2>4 DEF EarnedSoFar
  <2> QED BY <2>3, <2>4
<1> QED BY <1>1, <1>2, <1>6, <1>7 DEF QuestIInv, AllEarned, QuestTypes

LEMMA QuestsSteps == QuestIInv /\ [QuestsNext]_questVars => QuestIInv'
<1> SUFFICES ASSUME QuestIInv, [QuestsNext]_questVars PROVE QuestIInv' OBVIOUS
<1>1. CASE UNCHANGED questVars BY <1>1 DEF questVars, QuestIInv, QuestTypes
<1>2. CASE QuestsNext
  BY <1>2, LoadKeepsQuests, RegisterKeepsQuests, AcceptKeepsQuests, AbandonKeepsQuests,
     TurnInKeepsQuests, EventKeepsQuests DEF QuestsNext
<1> QED BY <1>1, <1>2

LEMMA QuestsSafe == QuestIInv => RewardsAreEarned
BY DEF QuestIInv, AllEarned, EarnedSoFar, RewardsAreEarned, EraseQuest

------------------------------------------------------------------------------
(* Characters and what they carry, for any items, levels and calls: a       *)
(* level was paid for with experience, vitals keep to what the level and    *)
(* the gear allow, a change is marked for saving until it is saved, items   *)
(* stay in one place and the gear's bonus counts what is worn.              *)

(* Characters: their vitals, their experience, and what is saved.           *)
Character ==
  [owner : Owners, level : 1 .. MaxLevel, exp : Int, base : Int, gear : Int, hp : Int, mp : Int,
   dirty : BOOLEAN, dead : BOOLEAN]
Healthy(ch) ==
  /\ ch \in Character /\ ch.hp \in 0 .. MaxHpOf(ch) /\ ch.mp \in 0 .. MaxMpOf(ch)
  /\ ch.dead <=> ch.hp = 0
SpentOn(level) == Sum(ExpNeeds, 1 .. (level - 1))
Earned(ch, total) == ch.level < MaxLevel => total = ch.exp + SpentOn(ch.level)
Lives(ch, total, deaths) ==
  Healthy(ch) /\ Earned(ch, total) /\ total \in Int /\ deaths = (IF ch.dead THEN 1 ELSE 0)

RolesIInv ==
  /\ IsFiniteSet(DOMAIN roChars)
  /\ DOMAIN roGained = DOMAIN roChars /\ DOMAIN roDeaths = DOMAIN roChars
  /\ \A c \in DOMAIN roChars : Lives(roChars[c], roGained[c], roDeaths[c])
OwnersIInv ==
  /\ \A p \in DOMAIN roByPlayer : roByPlayer[p] \in DOMAIN roChars /\ roChars[roByPlayer[p]].owner = p
  /\ \A c \in DOMAIN roChars : roChars[c].owner \in DOMAIN roByPlayer
SavesIInv ==
  /\ roRetry \in Seq(CharIds) /\ Members(roRetry) \subseteq DOMAIN roChars
  /\ roFailed \subseteq Members(roRetry)
  /\ DOMAIN roStored \subseteq DOMAIN roChars
  /\ \A c \in DOMAIN roChars : ~roChars[c].dirty => c \in DOMAIN roStored /\ roStored[c].level = roChars[c].level

LEMMA WithinFits ==
  ASSUME NEW v \in Int, NEW low \in Int, NEW high \in Int, low <= high
  PROVE  /\ Within(v, low, high) \in low .. high
         /\ Within(v, low, high) = low <=> v <= low \/ low = high
BY DEF Within

LEMMA VitalFits ==
  ASSUME NEW v \in Int, NEW top \in Nat
  PROVE  Within(v, 0, top) \in 0 .. top
BY WithinFits

LEMMA CeilingsFit ==
  ASSUME NEW ch, ch.base \in Int, ch.gear \in Int
  PROVE  MaxHpOf(ch) \in 1 .. VitalMax /\ MaxMpOf(ch) \in 0 .. VitalMax
<1> DEFINE a == Within(ch.base + ch.gear, 0, PrimaryMax)
           b == Within(ch.base, 0, PrimaryMax)
<1>0. /\ PrimaryMax \in Nat /\ VitalMax \in Nat /\ 1 <= VitalMax /\ 0 <= PrimaryMax /\ 0 <= VitalMax
      /\ HpPerStamina \in Int /\ HpFloor \in Int /\ MpPerIntellect \in Int /\ MpFloor \in Int
  BY CharactersAssumption
<1>1. a \in Int /\ b \in Int
  <2>1. ch.base + ch.gear \in Int /\ 0 \in Int /\ PrimaryMax \in Int BY <1>0
  <2>2. a \in 0 .. PrimaryMax BY <1>0, <2>1, WithinFits
  <2>3. b \in 0 .. PrimaryMax BY <1>0, <2>1, WithinFits
  <2> HIDE DEF a, b
  <2> QED BY <1>0, <2>2, <2>3
<1> HIDE DEF a, b
<1> DEFINE x == HpPerStamina * a + HpFloor
           y == MpPerIntellect * b + MpFloor
<1>2. x \in Int /\ y \in Int BY <1>0, <1>1
<1>3. MaxHpOf(ch) = Within(x, 1, VitalMax) /\ MaxMpOf(ch) = Within(y, 0, VitalMax)
  BY DEF MaxHpOf, MaxMpOf, a, b
<1> HIDE DEF x, y
<1> QED BY <1>0, <1>2, <1>3, WithinFits

(* The ceilings are those of the primary attributes, whatever else is.      *)
LEMMA SameCeilings ==
  ASSUME NEW ch, NEW new, new.base = ch.base, new.gear = ch.gear
  PROVE  MaxHpOf(new) = MaxHpOf(ch) /\ MaxMpOf(new) = MaxMpOf(ch)
BY DEF MaxHpOf, MaxMpOf

LEMMA ClampedIsHealthy ==
  ASSUME NEW ch \in Character, ch.hp >= 0, ch.mp >= 0, ch.dead <=> ch.hp = 0
  PROVE  LET new == ClampVitals(ch)
         IN /\ Healthy(new) /\ new.owner = ch.owner /\ new.level = ch.level /\ new.exp = ch.exp
            /\ new.base = ch.base /\ new.gear = ch.gear /\ new.dirty = ch.dirty /\ new.dead = ch.dead
<1> DEFINE h == ch.hp
           m == ch.mp
           hpMax == MaxHpOf(ch)
           mpMax == MaxMpOf(ch)
           hp == Within(h, 0, hpMax)
           mp == Within(m, 0, mpMax)
           new == [ch EXCEPT !.hp = hp, !.mp = mp]
<1>1. /\ MaxHpOf(ch) \in Nat /\ MaxHpOf(ch) >= 1 /\ MaxMpOf(ch) \in Nat /\ ch.hp \in Int /\ ch.mp \in Int
      /\ ch.base \in Int /\ ch.gear \in Int
  <2>1. ch.hp \in Int /\ ch.mp \in Int /\ ch.base \in Int /\ ch.gear \in Int BY DEF Character
  <2>2. VitalMax \in Nat BY CharactersAssumption
  <2>3. MaxHpOf(ch) \in 1 .. VitalMax /\ MaxMpOf(ch) \in 0 .. VitalMax BY <2>1, CeilingsFit
  <2> QED BY <2>1, <2>2, <2>3
<1>a. hpMax \in Nat /\ hpMax >= 1 /\ mpMax \in Nat /\ h \in Int /\ m \in Int /\ h >= 0 BY <1>1
<1>2. hp \in 0 .. MaxHpOf(ch) /\ mp \in 0 .. MaxMpOf(ch) /\ (hp = 0 <=> ch.hp = 0)
  <2>1. ASSUME NEW v \in Int, NEW high \in Nat
        PROVE  Within(v, 0, high) \in 0 .. high /\ (Within(v, 0, high) = 0 <=> v <= 0 \/ 0 = high)
    BY WithinFits
  <2> HIDE DEF h, m, hpMax, mpMax
  <2>2. hp \in 0 .. hpMax /\ (hp = 0 <=> h <= 0 \/ 0 = hpMax) BY <1>a, <2>1
  <2>3. hp = 0 <=> h = 0 BY <1>a, <2>2
  <2> QED BY <1>a, <2>1, <2>2, <2>3 DEF h, m, hpMax, mpMax
<1>3. ClampVitals(ch) = new BY DEF ClampVitals
<1> HIDE DEF hp, mp
<1>4. /\ new \in Character /\ new.hp = hp /\ new.mp = mp /\ new.owner = ch.owner /\ new.level = ch.level
      /\ new.exp = ch.exp /\ new.base = ch.base /\ new.gear = ch.gear /\ new.dirty = ch.dirty /\ new.dead = ch.dead
  <2>1. hp \in Int /\ mp \in Int BY <1>1, <1>2
  <2>2. new \in Character BY <2>1 DEF Character
  <2>3. new.dirty = ch.dirty /\ new.dead = ch.dead BY Zenon DEF Character
  <2>4. /\ new.hp = hp /\ new.mp = mp /\ new.owner = ch.owner /\ new.level = ch.level
        /\ new.exp = ch.exp /\ new.base = ch.base /\ new.gear = ch.gear
    BY DEF Character
  <2> HIDE DEF new
  <2> QED BY <2>2, <2>3, <2>4
<1> HIDE DEF new
<1> QED BY <1>2, <1>3, <1>4, SameCeilings DEF Healthy

LEMMA OneMoreLevel ==
  ASSUME NEW level \in 1 .. (MaxLevel - 1)
  PROVE  /\ SpentOn(level) \in Int /\ SpentOn(level + 1) = SpentOn(level) + ExpNeeds[level]
         /\ ExpNeeds[level] \in Nat
<1>1. /\ ExpNeeds \in Seq(Nat \ {0}) /\ DOMAIN ExpNeeds = 1 .. Len(ExpNeeds) /\ Len(ExpNeeds) \in Nat
      /\ \A i \in DOMAIN ExpNeeds : ExpNeeds[i] \in Nat
  BY CharactersAssumption, LenProperties, ElementOfSeq
<1>2. level \in Nat /\ level >= 1 /\ level <= Len(ExpNeeds) BY <1>1 DEF MaxLevel
<1>3. /\ \A i \in 1 .. level : ExpNeeds[i] \in Int
      /\ (1 .. level) \ {level} = 1 .. (level - 1) /\ (level + 1) - 1 = level /\ level \in 1 .. level
  BY <1>1, <1>2
<1>4. IsFiniteSet(1 .. level) /\ IsFiniteSet(1 .. (level - 1)) BY <1>2, FS_Interval
<1>5. Sum(ExpNeeds, 1 .. level) = ExpNeeds[level] + Sum(ExpNeeds, 1 .. (level - 1))
  BY <1>3, <1>4, SumRemove
<1> QED BY <1>1, <1>2, <1>3, <1>4, <1>5, SumOfIntegers DEF SpentOn

(* Levels are bought one after the other, and nothing else changes.         *)
LevelStates(ch, total) ==
  {b \in Character : /\ Healthy(b) /\ Earned(b, total) /\ b.owner = ch.owner /\ b.gear = ch.gear
                     /\ b.dead = ch.dead}
LevelStep(b) ==
  IF b.level < MaxLevel /\ b.exp >= ExpNeeds[b.level]
  THEN ClampVitals([b EXCEPT !.exp = @ - ExpNeeds[b.level], !.level = @ + 1, !.base = @ + PrimaryPerLevel])
  ELSE b

LEMMA LevelIsBought ==
  ASSUME NEW ch, NEW total \in Int, NEW b \in LevelStates(ch, total)
  PROVE  LevelStep(b) \in LevelStates(ch, total)
<1>1. CASE ~(b.level < MaxLevel /\ b.exp >= ExpNeeds[b.level]) BY <1>1 DEF LevelStep
<1>2. CASE b.level < MaxLevel /\ b.exp >= ExpNeeds[b.level]
  <2> DEFINE need == ExpNeeds[b.level]
             up == [b EXCEPT !.exp = @ - need, !.level = @ + 1, !.base = @ + PrimaryPerLevel]
  <2>0. b \in Character /\ Healthy(b) /\ total = b.exp + SpentOn(b.level)
    BY <1>2 DEF LevelStates, Earned
  <2>1. b.level \in 1 .. (MaxLevel - 1) /\ MaxLevel \in Nat /\ b.exp \in Int /\ b.base \in Int /\ b.hp \in Int
        /\ PrimaryPerLevel \in Int /\ b.level + 1 \in 1 .. MaxLevel /\ b.mp \in Int
    <3>1. MaxLevel \in Nat /\ PrimaryPerLevel \in Int
      BY CharactersAssumption, LenProperties DEF MaxLevel
    <3>2. /\ b.level \in 1 .. MaxLevel /\ b.exp \in Int /\ b.base \in Int /\ b.hp \in Int /\ b.mp \in Int
      BY <2>0 DEF Character
    <3>3. b.level < MaxLevel BY <1>2
    <3> DEFINE l == b.level
    <3> HIDE DEF l
    <3> QED BY <3>1, <3>2, <3>3 DEF l
  <2>2. need \in Nat /\ SpentOn(b.level + 1) = SpentOn(b.level) + need /\ SpentOn(b.level) \in Int
    BY <2>1, OneMoreLevel
  <2> HIDE DEF need
  <2>3. /\ up \in Character /\ up.exp = b.exp - need /\ up.level = b.level + 1 /\ up.hp = b.hp /\ up.mp = b.mp
        /\ up.dead = b.dead /\ up.owner = b.owner /\ up.gear = b.gear
    <3>1. b.exp - need \in Int /\ b.base + PrimaryPerLevel \in Int BY <2>1, <2>2
    <3>2. up \in Character BY <2>0, <2>1, <3>1 DEF Character
    <3>3. up.dead = b.dead BY <2>0, Zenon DEF Character
    <3>4. /\ up.exp = b.exp - need /\ up.level = b.level + 1 /\ up.hp = b.hp /\ up.mp = b.mp
          /\ up.owner = b.owner /\ up.gear = b.gear
      BY <2>0 DEF Character
    <3> HIDE DEF up
    <3> QED BY <3>2, <3>3, <3>4
  <2>4. up.hp >= 0 /\ up.mp >= 0 /\ (up.dead <=> up.hp = 0)
    BY <2>0, <2>3, CeilingsFit, CharactersAssumption DEF Healthy, Character
  <2>5. LevelStep(b) = ClampVitals(up) BY <1>2 DEF LevelStep, need
  <2> HIDE DEF up
  <2> DEFINE new == ClampVitals(up)
  <2>6. /\ Healthy(new) /\ new.owner = b.owner /\ new.level = b.level + 1 /\ new.exp = b.exp - need
        /\ new.gear = b.gear /\ new.dead = b.dead
    BY <2>3, <2>4, ClampedIsHealthy
  <2> HIDE DEF new
  <2> QED BY <2>0, <2>1, <2>2, <2>5, <2>6 DEF LevelStates, Healthy, new, Earned
<1> QED BY <1>1, <1>2

LEMMA LevelsAreBought ==
  ASSUME NEW ch, NEW total \in Int, ch \in LevelStates(ch, total)
  PROVE  LevelUps(ch) \in LevelStates(ch, total)
<1> DEFINE S == LevelStates(ch, total)
           F == [x \in (1 .. MaxLevel) \X S |-> LevelStep(x[2])]
           IsRun(f) == f = [n \in 0 .. MaxLevel |-> IF n = 0 THEN ch ELSE LevelStep(f[n - 1])]
           f == CHOOSE f : IsRun(f)
<1>0. MaxLevel \in Nat BY CharactersAssumption, LenProperties DEF MaxLevel
<1>1. LevelUps(ch) = f[MaxLevel] BY DEF LevelUps, LevelStep
<1>2. F \in [(1 .. MaxLevel) \X S -> S] BY LevelIsBought
<1>3. PICK g \in [0 .. MaxLevel -> S] : Iterated(g, MaxLevel, ch, F)
  <2> HIDE DEF S, F
  <2> QED BY <1>0, <1>2, Iterates DEF S
<1>4. IsRun(g)
  <2>1. ASSUME NEW n \in 1 .. MaxLevel PROVE g[n] = LevelStep(g[n - 1])
    <3>1. F[<<n, g[n - 1]>>] = LevelStep(g[n - 1]) BY <1>0, <1>3
    <3> QED BY <1>3, <3>1 DEF Iterated
  <2>2. g[0] = ch BY <1>3 DEF Iterated
  <2> HIDE DEF S, F
  <2> QED BY <1>0, <1>3, <2>1, <2>2
<1>5. IsRun(f) BY <1>4
<1> HIDE DEF f
<1>6. /\ f[0] = ch /\ \A n \in 1 .. MaxLevel : f[n] = LevelStep(f[n - 1]) BY <1>0, <1>5
<1>7. \A n \in 0 .. MaxLevel : f[n] \in S
  <2>1. \A n \in 1 .. MaxLevel : f[n - 1] \in S => f[n] \in S BY <1>6, LevelIsBought
  <2>2. f[0] \in S BY <1>6
  <2> HIDE DEF S
  <2> QED BY <1>0, <2>1, <2>2, IterationKeeps
<1> QED BY <1>0, <1>1, <1>7

(* One character changes; what is queued and stored does not.               *)
RolePart == RolesIInv /\ OwnersIInv /\ SavesIInv
GearKept ==
  /\ UNCHANGED roByPlayer /\ DOMAIN roChars' = DOMAIN roChars
  /\ \A c \in DOMAIN roChars : roChars'[c].owner = roChars[c].owner /\ roChars'[c].gear = roChars[c].gear

LEMMA OneCharacter ==
  ASSUME RolePart, NEW c \in DOMAIN roChars, NEW ch,
         DOMAIN roChars' = DOMAIN roChars,
         \A x \in DOMAIN roChars : roChars'[x] = IF x = c THEN ch ELSE roChars[x],
         DOMAIN roGained' = DOMAIN roChars, DOMAIN roDeaths' = DOMAIN roChars,
         \A x \in DOMAIN roChars : x # c => roGained'[x] = roGained[x] /\ roDeaths'[x] = roDeaths[x],
         Lives(ch, roGained'[c], roDeaths'[c]), ch.owner = roChars[c].owner,
         ch.dirty \/ (ch.level = roChars[c].level /\ ch.dirty = roChars[c].dirty),
         UNCHANGED <<roByPlayer, roRetry, roStored, roFailed>>
  PROVE  RolePart' /\ (ch.gear = roChars[c].gear => GearKept)
<1>1. RolesIInv' BY DEF RolePart, RolesIInv
<1>2. OwnersIInv' BY DEF RolePart, OwnersIInv
<1>3. SavesIInv' BY DEF RolePart, SavesIInv
<1> QED BY <1>1, <1>2, <1>3 DEF RolePart, GearKept

LEMMA SameBody ==
  ASSUME NEW ch, NEW total, NEW deaths, Lives(ch, total, deaths), NEW new \in Character,
         new.level = ch.level, new.exp = ch.exp, new.base = ch.base, new.gear = ch.gear,
         new.hp = ch.hp, new.mp = ch.mp, new.dead = ch.dead
  PROVE  Lives(new, total, deaths)
<1> QED BY SameCeilings DEF Lives, Healthy, Earned

LEMMA MaxLevelIs == MaxLevel \in Nat /\ MaxLevel >= 1
BY CharactersAssumption, LenProperties DEF MaxLevel

LEMMA CharacterIsCreated ==
  ASSUME RolePart, NEW p \in Owners, NEW c \in CharIds, LoadOrCreate(p, c)
  PROVE  RolePart'
<1> DEFINE fresh == [owner |-> p, level |-> 1, exp |-> 0, base |-> StartingPrimary, gear |-> 0,
                     hp |-> 0, mp |-> 0, dirty |-> TRUE, dead |-> FALSE]
           new == [fresh EXCEPT !.hp = MaxHpOf(fresh), !.mp = MaxMpOf(fresh)]
<1>1. /\ roChars' = Put(roChars, c, new) /\ roByPlayer' = Put(roByPlayer, p, c) /\ c \notin DOMAIN roChars
      /\ roGained' = Put(roGained, c, 0) /\ roDeaths' = Put(roDeaths, c, 0)
      /\ UNCHANGED <<roRetry, roStored, roFailed>>
  BY DEF LoadOrCreate, Has
<1>2. MaxHpOf(fresh) \in 1 .. VitalMax /\ MaxMpOf(fresh) \in 0 .. VitalMax
  BY CeilingsFit, CharactersAssumption
<1>3. MaxHpOf(new) = MaxHpOf(fresh) /\ MaxMpOf(new) = MaxMpOf(fresh) BY SameCeilings
<1>4. /\ new.owner = p /\ new.level = 1 /\ new.exp = 0 /\ new.hp = MaxHpOf(fresh) /\ new.mp = MaxMpOf(fresh)
      /\ ~new.dead /\ new.dirty
  OBVIOUS
<1>5. new \in Character
  <2> DEFINE hpMax == MaxHpOf(fresh)
             mpMax == MaxMpOf(fresh)
  <2>1. hpMax \in Int /\ mpMax \in Int /\ 1 \in 1 .. MaxLevel /\ StartingPrimary \in Int
    BY <1>2, CharactersAssumption, MaxLevelIs
  <2> HIDE DEF hpMax, mpMax
  <2>2. fresh \in Character BY <2>1 DEF Character
  <2> HIDE DEF fresh
  <2> QED BY <2>1, <2>2 DEF Character, hpMax, mpMax
<1> HIDE DEF new, fresh
<1>6. SpentOn(new.level) = 0
  <2>1. 1 .. (1 - 1) = {} /\ IsFiniteSet({}) BY FS_EmptySet
  <2> QED BY <1>4, <2>1, SumOfZeros DEF SpentOn
<1>7. Lives(new, 0, 0) BY <1>2, <1>3, <1>4, <1>5, <1>6 DEF Lives, Healthy, Earned
<1>8. /\ DOMAIN roChars' = DOMAIN roChars \cup {c} /\ roChars'[c] = new
       /\ \A x \in DOMAIN roChars : roChars'[x] = roChars[x]
  BY <1>1 DEF Put
<1>9. RolesIInv'
  <2>1. /\ DOMAIN roGained' = DOMAIN roChars' /\ DOMAIN roDeaths' = DOMAIN roChars'
        /\ roGained'[c] = 0 /\ roDeaths'[c] = 0
        /\ \A x \in DOMAIN roChars : roGained'[x] = roGained[x] /\ roDeaths'[x] = roDeaths[x]
    BY <1>1, <1>8 DEF Put, RolePart, RolesIInv
  <2>2. \A x \in DOMAIN roChars' : Lives(roChars'[x], roGained'[x], roDeaths'[x])
    BY <1>7, <1>8, <2>1 DEF RolePart, RolesIInv
  <2> QED BY <1>8, <2>1, <2>2, FS_AddElement DEF RolesIInv, RolePart
<1>10. OwnersIInv' BY <1>1, <1>4, <1>8 DEF OwnersIInv, RolePart, Put
<1> QED BY <1>1, <1>4, <1>8, <1>9, <1>10 DEF RolePart, SavesIInv

LEMMA HpIsModified ==
  ASSUME RolePart, NEW c, NEW delta \in HpDeltas, RoleModifyHp(c, delta)
  PROVE  RolePart' /\ GearKept
<1> DEFINE ch == roChars[c]
           top == MaxHpOf(ch)
           hp == Within(ch.hp + delta, 0, top)
           new == [ch EXCEPT !.hp = hp, !.dirty = TRUE, !.dead = (hp = 0)]
           now == roDeaths[c] + (IF hp = 0 /\ ~ch.dead THEN 1 ELSE 0) - (IF hp > 0 /\ ch.dead THEN 1 ELSE 0)
<1>1. /\ c \in DOMAIN roChars /\ roDeaths' = [roDeaths EXCEPT ![c] = now] /\ roGained' = roGained
      /\ roChars' = [roChars EXCEPT ![c].hp = hp, ![c].dirty = TRUE, ![c].dead = (hp = 0)]
      /\ UNCHANGED <<roByPlayer, roRetry, roStored, roFailed>>
  BY DEF RoleModifyHp, Has
<1>2. Lives(ch, roGained[c], roDeaths[c]) /\ ch \in Character
  BY <1>1 DEF RolePart, RolesIInv, Lives, Healthy
<1>3. top \in Nat /\ top >= 1 /\ ch.hp + delta \in Int
  <2>1. ch.base \in Int /\ ch.gear \in Int /\ ch.hp \in Int /\ ch.mp \in Int
    BY <1>2 DEF Character
  <2>2. MaxHpOf(ch) \in 1 .. VitalMax /\ MaxMpOf(ch) \in 0 .. VitalMax BY <2>1, CeilingsFit
  <2> QED BY <2>1, <2>2, CharactersAssumption
<1> HIDE DEF top
<1>4. hp \in 0 .. top BY <1>3, VitalFits
<1> HIDE DEF hp
<1>5. new \in Character /\ new.hp = hp
  <2>1. hp \in Int BY <1>3, <1>4
  <2> QED BY <1>2, <2>1 DEF Character
<1>6. (new.dead <=> hp = 0) /\ new.dirty BY <1>2, Zenon DEF Character
<1>7. /\ new.level = ch.level /\ new.exp = ch.exp /\ new.base = ch.base /\ new.gear = ch.gear /\ new.mp = ch.mp
      /\ new.owner = ch.owner
  BY <1>2 DEF Character
<1>8. DOMAIN roChars' = DOMAIN roChars /\ \A x \in DOMAIN roChars : roChars'[x] = IF x = c THEN new ELSE roChars[x]
  BY <1>1, <1>2 DEF Character
<1>9. /\ DOMAIN roDeaths' = DOMAIN roChars /\ roDeaths'[c] = now
      /\ \A x \in DOMAIN roChars : x # c => roDeaths'[x] = roDeaths[x]
  BY <1>1 DEF RolePart, RolesIInv
<1> HIDE DEF new
<1>10. Healthy(new) /\ Earned(new, roGained[c]) /\ roGained[c] \in Int
  BY <1>2, <1>4, <1>5, <1>6, <1>7, SameCeilings DEF Lives, Healthy, Earned, top
<1>11. now = (IF new.dead THEN 1 ELSE 0)
  <2>1. hp >= 0 /\ hp \in Int BY <1>3, <1>4
  <2> DEFINE alive == ~ch.dead
             dies == IF hp = 0 /\ alive THEN 1 ELSE 0
             revives == IF hp > 0 /\ ~alive THEN 1 ELSE 0
  <2>2. now = roDeaths[c] + dies - revives /\ roDeaths[c] = (IF alive THEN 0 ELSE 1)
    BY <1>2 DEF Lives
  <2> HIDE DEF alive, now
  <2> QED BY <1>6, <2>1, <2>2
<1> HIDE DEF now
<1>12. Lives(new, roGained'[c], roDeaths'[c]) BY <1>1, <1>9, <1>10, <1>11 DEF Lives
<1>13. DOMAIN roGained' = DOMAIN roChars BY <1>1 DEF RolePart, RolesIInv
<1> QED BY <1>1, <1>6, <1>7, <1>8, <1>9, <1>12, <1>13, OneCharacter

LEMMA MpIsModified ==
  ASSUME RolePart, NEW c, NEW delta \in MpDeltas, ModifyMp(c, delta)
  PROVE  RolePart' /\ GearKept
<1> DEFINE ch == roChars[c]
           top == MaxMpOf(ch)
           mp == Within(ch.mp + delta, 0, top)
           new == [ch EXCEPT !.mp = mp, !.dirty = TRUE]
<1>1. /\ c \in DOMAIN roChars /\ roChars' = [roChars EXCEPT ![c].mp = mp, ![c].dirty = TRUE]
      /\ UNCHANGED <<roByPlayer, roRetry, roStored, roFailed, roGained, roDeaths>>
  BY DEF ModifyMp, Has
<1>2. Lives(ch, roGained[c], roDeaths[c]) /\ ch \in Character
  BY <1>1 DEF RolePart, RolesIInv, Lives, Healthy
<1>3. top \in Nat /\ ch.mp + delta \in Int
  <2>1. ch.base \in Int /\ ch.gear \in Int /\ ch.hp \in Int /\ ch.mp \in Int
    BY <1>2 DEF Character
  <2>2. MaxHpOf(ch) \in 1 .. VitalMax /\ MaxMpOf(ch) \in 0 .. VitalMax BY <2>1, CeilingsFit
  <2> QED BY <2>1, <2>2, CharactersAssumption
<1> HIDE DEF top
<1>4. mp \in 0 .. top BY <1>3, VitalFits
<1> HIDE DEF mp
<1>5. new \in Character /\ new.mp = mp
  <2>1. mp \in Int BY <1>3, <1>4
  <2> QED BY <1>2, <2>1 DEF Character
<1>6. new.dead = ch.dead /\ new.dirty BY <1>2, Zenon DEF Character
<1>7. /\ new.level = ch.level /\ new.exp = ch.exp /\ new.base = ch.base /\ new.gear = ch.gear /\ new.hp = ch.hp
      /\ new.owner = ch.owner
  BY <1>2 DEF Character
<1>8. DOMAIN roChars' = DOMAIN roChars /\ \A x \in DOMAIN roChars : roChars'[x] = IF x = c THEN new ELSE roChars[x]
  BY <1>1, <1>2 DEF Character
<1> HIDE DEF new
<1>9. Lives(new, roGained[c], roDeaths[c])
  BY <1>2, <1>4, <1>5, <1>6, <1>7, SameCeilings DEF Lives, Healthy, Earned, top
<1> QED BY <1>1, <1>6, <1>7, <1>8, <1>9, OneCharacter DEF RolePart, RolesIInv

LEMMA ExpIsAdded ==
  ASSUME RolePart, NEW c, NEW amount \in ExpGrants, AddExp(c, amount)
  PROVE  RolePart' /\ GearKept
<1> DEFINE ch == roChars[c]
           paid == [ch EXCEPT !.exp = @ + amount]
           up == LevelUps(paid)
           total == roGained[c] + amount
           richer == [ch EXCEPT !.exp = ExpTop]
           raised == [up EXCEPT !.exp = IF up.level >= MaxLevel THEN 0 ELSE @, !.dirty = TRUE]
<1>1. /\ c \in DOMAIN roChars /\ UNCHANGED <<roByPlayer, roRetry, roStored, roFailed, roDeaths>>
      /\ \/ /\ roChars' = [roChars EXCEPT ![c].exp = ExpTop]
            /\ roGained' = [roGained EXCEPT ![c] = ExpTop - ch.exp + @]
         \/ /\ roChars' = [roChars EXCEPT ![c] = raised]
            /\ roGained' = [roGained EXCEPT ![c] = IF up.level >= MaxLevel THEN 0 ELSE @ + amount]
  BY DEF AddExp, Has
<1>2. Lives(ch, roGained[c], roDeaths[c]) /\ ch \in Character
  BY <1>1 DEF RolePart, RolesIInv, Lives, Healthy
<1>3. /\ ch.exp \in Int /\ roGained[c] \in Int /\ amount \in Int /\ ExpTop \in Int /\ total \in Int
      /\ ch.level \in 1 .. MaxLevel /\ MaxLevel \in Nat
  <2> DEFINE x == roChars[c]
             gained == roGained[c]
  <2>1. x \in Character /\ gained \in Int BY <1>2 DEF Lives
  <2>2. ExpGrants \subseteq Nat /\ ExpTop \in Nat /\ MaxLevel \in Nat
    BY CharactersAssumption, MaxLevelIs DEF CharactersAssumption
  <2> HIDE DEF x, gained
  <2>3. gained + amount \in Int /\ amount \in Int /\ ExpTop \in Int BY <2>1, <2>2
  <2> QED BY <2>1, <2>2, <2>3 DEF x, gained, Character
<1>4. ch.level < MaxLevel => SpentOn(ch.level) \in Int BY <1>3, OneMoreLevel
<1>5. /\ DOMAIN roGained = DOMAIN roChars /\ DOMAIN roDeaths = DOMAIN roChars
  BY DEF RolePart, RolesIInv
<1>6. CASE /\ roChars' = [roChars EXCEPT ![c].exp = ExpTop]
           /\ roGained' = [roGained EXCEPT ![c] = ExpTop - ch.exp + @]
  <2>1. /\ richer.exp = ExpTop /\ richer.level = ch.level /\ richer.base = ch.base /\ richer.gear = ch.gear
        /\ richer.hp = ch.hp /\ richer.mp = ch.mp /\ richer.owner = ch.owner
    BY <1>2 DEF Character
  <2>2. richer.dead = ch.dead /\ richer.dirty = ch.dirty BY <1>2, Zenon DEF Character
  <2>3. richer \in Character BY <1>2, <1>3 DEF Character
  <2>4. \A x \in DOMAIN roChars : roChars'[x] = IF x = c THEN richer ELSE roChars[x] BY <1>6
  <2>5. DOMAIN roChars' = DOMAIN roChars BY <1>6
  <2>6. /\ DOMAIN roGained' = DOMAIN roChars /\ roGained'[c] = ExpTop - ch.exp + roGained[c]
        /\ \A x \in DOMAIN roChars : x # c => roGained'[x] = roGained[x]
    BY <1>1, <1>5, <1>6
  <2> HIDE DEF richer
  <2>7. Earned(richer, ExpTop - ch.exp + roGained[c]) BY <1>2, <1>3, <1>4, <2>1 DEF Lives, Earned
  <2>8. MaxHpOf(richer) = MaxHpOf(ch) /\ MaxMpOf(richer) = MaxMpOf(ch) BY <2>1, SameCeilings
  <2>9. Lives(richer, roGained'[c], roDeaths'[c])
    BY <1>1, <1>2, <1>3, <2>1, <2>2, <2>3, <2>6, <2>7, <2>8 DEF Lives, Healthy
  <2> QED BY <1>1, <1>5, <2>1, <2>2, <2>4, <2>5, <2>6, <2>9, OneCharacter
<1>7. CASE /\ roChars' = [roChars EXCEPT ![c] = raised]
           /\ roGained' = [roGained EXCEPT ![c] = IF up.level >= MaxLevel THEN 0 ELSE @ + amount]
  <2>1. /\ paid.exp = ch.exp + amount /\ paid.level = ch.level /\ paid.base = ch.base /\ paid.gear = ch.gear
        /\ paid.hp = ch.hp /\ paid.mp = ch.mp /\ paid.owner = ch.owner
    BY <1>2 DEF Character
  <2>2. paid.dead = ch.dead BY <1>2, Zenon DEF Character
  <2>3. paid \in Character BY <1>2, <1>3 DEF Character
  <2> HIDE DEF paid
  <2>4. MaxHpOf(paid) = MaxHpOf(ch) /\ MaxMpOf(paid) = MaxMpOf(ch) BY <2>1, SameCeilings
  <2>5. Healthy(paid) /\ Earned(paid, total)
    BY <1>2, <1>3, <1>4, <2>1, <2>2, <2>3, <2>4 DEF Lives, Healthy, Earned
  <2>6. up \in LevelStates(paid, total) BY <1>3, <2>3, <2>5, LevelsAreBought DEF LevelStates
  <2> HIDE DEF up, total
  <2>7. /\ up \in Character /\ Healthy(up) /\ Earned(up, total) /\ up.owner = ch.owner /\ (up.dead <=> ch.dead)
    BY <2>1, <2>2, <2>6 DEF LevelStates
  <2>8. up.level \in 1 .. MaxLevel /\ up.exp \in Int BY <2>7 DEF Character
  <2> DEFINE left == IF up.level >= MaxLevel THEN 0 ELSE up.exp
  <2>9. left \in Int /\ (up.level < MaxLevel => left = up.exp) BY <1>3, <2>8
  <2>10. raised = [up EXCEPT !.exp = left, !.dirty = TRUE] OBVIOUS
  <2> HIDE DEF left, raised
  <2>11. /\ raised.exp = left /\ raised.level = up.level /\ raised.base = up.base /\ raised.gear = up.gear
         /\ raised.hp = up.hp /\ raised.mp = up.mp /\ raised.owner = up.owner
    BY <2>7, <2>10 DEF Character
  <2>12. (raised.dead <=> up.dead) /\ raised.dirty BY <2>7, <2>10, Zenon DEF Character
  <2>13. raised \in Character BY <2>7, <2>9, <2>10 DEF Character
  <2>14. MaxHpOf(raised) = MaxHpOf(up) /\ MaxMpOf(raised) = MaxMpOf(up) BY <2>11, SameCeilings
  <2>15. /\ DOMAIN roGained' = DOMAIN roChars
         /\ roGained'[c] = IF up.level >= MaxLevel THEN 0 ELSE total
         /\ \A x \in DOMAIN roChars : x # c => roGained'[x] = roGained[x]
    BY <1>1, <1>5, <1>7 DEF total
  <2>16. roGained'[c] \in Int /\ Earned(raised, roGained'[c])
    BY <1>3, <2>7, <2>8, <2>9, <2>11, <2>15 DEF Earned
  <2>17. Lives(raised, roGained'[c], roDeaths'[c])
    BY <1>1, <1>2, <2>7, <2>11, <2>12, <2>13, <2>14, <2>16 DEF Lives, Healthy
  <2>18. /\ DOMAIN roChars' = DOMAIN roChars
         /\ \A x \in DOMAIN roChars : roChars'[x] = IF x = c THEN raised ELSE roChars[x]
    BY <1>7
  <2>19. raised.gear = ch.gear BY <2>1, <2>6, <2>11 DEF LevelStates
  <2> QED BY <1>1, <1>5, <2>7, <2>11, <2>12, <2>15, <2>17, <2>18, <2>19, OneCharacter
<1> HIDE DEF ch, raised, up
<1> QED BY <1>1, <1>6, <1>7

(* What is saved is no longer marked as changed.                            *)
LEMMA CleanLives ==
  ASSUME NEW ch, NEW total, NEW deaths, Lives(ch, total, deaths)
  PROVE  LET new == [ch EXCEPT !.dirty = FALSE]
         IN Lives(new, total, deaths) /\ new.owner = ch.owner /\ new.level = ch.level /\ ~new.dirty
<1> DEFINE new == [ch EXCEPT !.dirty = FALSE]
<1>1. ch \in Character BY DEF Lives, Healthy
<1>2. /\ new.exp = ch.exp /\ new.level = ch.level /\ new.base = ch.base /\ new.gear = ch.gear
      /\ new.hp = ch.hp /\ new.mp = ch.mp /\ new.owner = ch.owner
  BY <1>1 DEF Character
<1>3. new.dead = ch.dead /\ ~new.dirty BY <1>1, Zenon DEF Character
<1>4. new \in Character BY <1>1 DEF Character
<1> HIDE DEF new
<1> QED BY <1>2, <1>3, <1>4, SameBody DEF new

(* Some characters are saved, with what is queued after that.               *)
LEMMA SomeAreSaved ==
  ASSUME RolePart, NEW saved \in SUBSET (DOMAIN roChars),
         DOMAIN roChars' = DOMAIN roChars,
         \A c \in DOMAIN roChars : roChars'[c] = IF c \in saved THEN [roChars[c] EXCEPT !.dirty = FALSE]
                                                               ELSE roChars[c],
         DOMAIN roStored' = DOMAIN roStored \cup saved,
         \A c \in DOMAIN roStored' : IF c \in saved THEN roStored'[c].level = roChars[c].level
                                                   ELSE roStored'[c] = roStored[c],
         roRetry' \in Seq(CharIds), Members(roRetry') \subseteq DOMAIN roChars, roFailed' \subseteq Members(roRetry'),
         UNCHANGED <<roByPlayer, roGained, roDeaths>>
  PROVE  RolePart' /\ GearKept
<1>1. ASSUME NEW c \in DOMAIN roChars
      PROVE  /\ Lives(roChars'[c], roGained[c], roDeaths[c]) /\ roChars'[c].owner = roChars[c].owner
             /\ roChars'[c].level = roChars[c].level /\ (c \notin saved => roChars'[c].dirty = roChars[c].dirty)
  <2>1. Lives(roChars[c], roGained[c], roDeaths[c]) BY DEF RolePart, RolesIInv
  <2>2. CASE c \in saved
    <3> DEFINE new == [roChars[c] EXCEPT !.dirty = FALSE]
    <3>1. /\ Lives(new, roGained[c], roDeaths[c]) /\ new.owner = roChars[c].owner
          /\ new.level = roChars[c].level
      BY <2>1, CleanLives
    <3>2. roChars'[c] = new BY <2>2
    <3> HIDE DEF new
    <3> QED BY <2>2, <3>1, <3>2
  <2>3. CASE c \notin saved BY <2>1, <2>3
  <2> QED BY <2>2, <2>3
<1>2. OwnersIInv' BY <1>1 DEF RolePart, OwnersIInv
<1>3. SavesIInv'
  <2>1. ASSUME NEW c \in DOMAIN roChars, ~roChars'[c].dirty
        PROVE  c \in DOMAIN roStored' /\ roStored'[c].level = roChars'[c].level
    <3>1. CASE c \in saved BY <1>1, <3>1
    <3>2. CASE c \notin saved
      <4>1. c \in DOMAIN roStored /\ roStored[c].level = roChars[c].level
        BY <1>1, <2>1, <3>2 DEF RolePart, SavesIInv
      <4> QED BY <1>1, <3>2, <4>1
    <3> QED BY <3>1, <3>2
  <2> QED BY <2>1 DEF SavesIInv, RolePart
<1>4. GearKept
  <2>1. ASSUME NEW c \in DOMAIN roChars PROVE roChars'[c].gear = roChars[c].gear
    BY DEF Character, RolePart, RolesIInv, Lives, Healthy
  <2> QED BY <1>1, <2>1 DEF GearKept
<1> QED BY <1>1, <1>2, <1>3, <1>4 DEF RolePart, RolesIInv

LEMMA CharacterIsSaved ==
  ASSUME RolePart, NEW c \in CharIds, Save(c)
  PROVE  RolePart' /\ GearKept
<1>1. c \in DOMAIN roChars /\ UNCHANGED <<roByPlayer, roGained, roDeaths>> BY DEF Save, Has
<1>2. CASE Enqueued(c) /\ roRetry' = roRetry
  <2> DEFINE saved == {c}
  <2>1. /\ saved \in SUBSET (DOMAIN roChars) /\ DOMAIN roChars' = DOMAIN roChars
        /\ \A x \in DOMAIN roChars : roChars'[x] = IF x \in saved THEN [roChars[x] EXCEPT !.dirty = FALSE] ELSE roChars[x]
        /\ DOMAIN roStored' = DOMAIN roStored \cup saved
        /\ \A x \in DOMAIN roStored' : IF x \in saved THEN roStored'[x].level = roChars[x].level
                                                        ELSE roStored'[x] = roStored[x]
    BY <1>1, <1>2 DEF Enqueued, Put
  <2>2. /\ roRetry' \in Seq(CharIds) /\ Members(roRetry') \subseteq DOMAIN roChars
        /\ roFailed' \subseteq Members(roRetry')
    BY <1>2 DEF Enqueued, RolePart, SavesIInv
  <2> HIDE DEF saved
  <2> QED BY <1>1, <2>1, <2>2, SomeAreSaved
<1>3. CASE /\ roRetry' = IF Contains(roRetry, c) THEN roRetry ELSE Append(roRetry, c)
           /\ roFailed' = roFailed \cup {c} /\ UNCHANGED <<roChars, roStored>>
  <2>1. roRetry \in Seq(CharIds) /\ Members(roRetry) \subseteq DOMAIN roChars /\ roFailed \subseteq Members(roRetry)
    BY DEF RolePart, SavesIInv
  <2>2. roRetry' \in Seq(CharIds) /\ Members(roRetry') = Members(roRetry) \cup {c}
    <3>1. CASE Contains(roRetry, c) BY <1>3, <2>1, <3>1 DEF Contains, Members
    <3>2. CASE ~Contains(roRetry, c) BY <1>3, <2>1, <3>2, AppendMembers, AppendOf
    <3> QED BY <3>1, <3>2
  <2> QED BY <1>1, <1>3, <2>1, <2>2 DEF RolePart, RolesIInv, OwnersIInv, GearKept, SavesIInv
<1> QED BY <1>2, <1>3 DEF Save

LEMMA RetriesAreFlushed ==
  ASSUME RolePart, NEW refused, FlushRetries(refused)
  PROVE  RolePart' /\ GearKept
<1> DEFINE queued == ToSet(roRetry)
           saved == queued \ refused
<1>1. /\ refused \subseteq queued /\ roRetry' = Kept(roRetry, refused)
      /\ roFailed' = (roFailed \ queued) \cup refused
      /\ roChars' = [c \in DOMAIN roChars |-> IF c \in saved THEN [roChars[c] EXCEPT !.dirty = FALSE] ELSE roChars[c]]
      /\ roStored' = [c \in DOMAIN roStored \cup saved |->
                         IF c \in saved THEN [level |-> roChars[c].level, hp |-> roChars[c].hp] ELSE roStored[c]]
      /\ UNCHANGED <<roByPlayer, roGained, roDeaths>>
  BY DEF FlushRetries
<1>2. queued = Members(roRetry) BY DEF ToSet, Members
<1>3. roRetry \in Seq(CharIds) /\ queued \subseteq DOMAIN roChars /\ roFailed \subseteq queued
  BY <1>2 DEF RolePart, SavesIInv
<1>4. roRetry' \in Seq(CharIds) /\ Members(roRetry') = refused
  <2> DEFINE places == {i \in DOMAIN roRetry : roRetry[i] \in refused}
             at == CHOOSE f \in SetToSeqs(places) : \A i, j \in DOMAIN f : i < j => f[i] < f[j]
             t == [i \in DOMAIN at |-> roRetry[at[i]]]
  <2>1. roRetry' = t /\ PicksOut(t, roRetry, at, places) BY <1>1 DEF Kept, PicksOut
  <2>2. places \in SUBSET (DOMAIN roRetry) /\ {roRetry[i] : i \in places} = refused
    BY <1>1, <1>2 DEF Members
  <2> HIDE DEF at, places, t
  <2> QED BY <1>3, <2>1, <2>2, PickedPlaces
<1>5. roFailed' \subseteq Members(roRetry') /\ Members(roRetry') \subseteq DOMAIN roChars
  BY <1>1, <1>3, <1>4
<1> HIDE DEF queued
<1>6. /\ saved \in SUBSET (DOMAIN roChars) /\ DOMAIN roChars' = DOMAIN roChars
      /\ \A x \in DOMAIN roChars : roChars'[x] = IF x \in saved THEN [roChars[x] EXCEPT !.dirty = FALSE] ELSE roChars[x]
      /\ DOMAIN roStored' = DOMAIN roStored \cup saved
      /\ \A x \in DOMAIN roStored' : IF x \in saved THEN roStored'[x].level = roChars[x].level
                                                      ELSE roStored'[x] = roStored[x]
  BY <1>1, <1>3
<1> HIDE DEF saved
<1> QED BY <1>1, <1>4, <1>5, <1>6, SomeAreSaved

(* Gear changes what the character is capable of.                           *)
LEMMA GearedLives ==
  ASSUME NEW ch, NEW total, NEW deaths, Lives(ch, total, deaths), NEW gear \in Int
  PROVE  LET new == ClampVitals([ch EXCEPT !.gear = gear])
         IN /\ Lives(new, total, deaths) /\ new.owner = ch.owner /\ new.level = ch.level
            /\ new.dirty = ch.dirty /\ new.gear = gear
<1> DEFINE worn == [ch EXCEPT !.gear = gear]
           new == ClampVitals(worn)
<1>1. ch \in Character BY DEF Lives, Healthy
<1>2. /\ worn.exp = ch.exp /\ worn.level = ch.level /\ worn.gear = gear /\ worn.hp = ch.hp /\ worn.mp = ch.mp
      /\ worn.owner = ch.owner
  BY <1>1 DEF Character
<1>3. worn.dead = ch.dead /\ worn.dirty = ch.dirty BY <1>1, Zenon DEF Character
<1>4. worn \in Character BY <1>1 DEF Character
<1>5. ch.hp >= 0 /\ ch.mp >= 0
  <2>1. ch.base \in Int /\ ch.gear \in Int /\ VitalMax \in Nat
    BY <1>1, CharactersAssumption DEF Character
  <2> QED BY <2>1, CeilingsFit DEF Lives, Healthy
<1> HIDE DEF worn
<1>6. /\ Healthy(new) /\ new.owner = ch.owner /\ new.level = ch.level /\ new.exp = ch.exp
      /\ new.gear = gear /\ new.dirty = ch.dirty /\ new.dead = ch.dead
  BY <1>2, <1>3, <1>4, <1>5, ClampedIsHealthy DEF Lives, Healthy
<1> HIDE DEF new
<1> QED BY <1>6 DEF new, worn, Lives, Earned

LEMMA RolesAreGeared ==
  ASSUME RolePart, NEW p, NEW b, GearOf(b) \in Int, roChars' = Geared(p, b),
         UNCHANGED <<roByPlayer, roRetry, roStored, roFailed, roGained, roDeaths>>
  PROVE  /\ RolePart' /\ DOMAIN roChars' = DOMAIN roChars
         /\ \A c \in DOMAIN roChars :
               /\ roChars'[c].owner = roChars[c].owner
               /\ roChars'[c].gear = IF p \in DOMAIN roByPlayer /\ c = roByPlayer[p] THEN GearOf(b)
                                                                                   ELSE roChars[c].gear
<1>1. CASE p \notin DOMAIN roByPlayer
  BY <1>1 DEF RolePart, RolesIInv, OwnersIInv, SavesIInv, Geared
<1>2. CASE p \in DOMAIN roByPlayer
  <2> DEFINE c == roByPlayer[p]
             ch == roChars[c]
             new == ClampVitals([ch EXCEPT !.gear = GearOf(b)])
  <2>1. c \in DOMAIN roChars /\ roChars' = [roChars EXCEPT ![c] = new]
    BY <1>2 DEF Geared, RolePart, OwnersIInv
  <2>2. /\ Lives(new, roGained[c], roDeaths[c]) /\ new.owner = ch.owner /\ new.level = ch.level
        /\ new.dirty = ch.dirty /\ new.gear = GearOf(b)
    BY <2>1, GearedLives DEF RolePart, RolesIInv
  <2> HIDE DEF new
  <2>3. /\ DOMAIN roChars' = DOMAIN roChars
        /\ \A x \in DOMAIN roChars : roChars'[x] = IF x = c THEN new ELSE roChars[x]
    BY <2>1
  <2>4. RolePart' BY <2>1, <2>2, <2>3, OneCharacter DEF RolePart, RolesIInv
  <2> QED BY <1>2, <2>2, <2>3, <2>4
<1> QED BY <1>1, <1>2

LEMMA RolesStart == CharactersInit => RolePart
<1> SUFFICES ASSUME CharactersInit PROVE RolePart OBVIOUS
<1>1. DOMAIN <<>> = {} /\ <<>> \in Seq(CharIds) /\ Members(<<>>) = {} /\ IsFiniteSet({})
  BY FS_EmptySet DEF Members
<1> QED BY <1>1 DEF RolePart, RolesIInv, OwnersIInv, SavesIInv, CharactersInit

(* Bags: what is in them, what is worn, and the slots that are free.        *)
Stack == [def : DOMAIN ItemTable \cup {NoItem}, n : Int, wear : Int, guid : Nat]
StackFits(st, last) ==
  /\ st \in Stack /\ (st.guid = 0 => st = EmptyStack)
  /\ st.guid # 0 => /\ st.def \in DOMAIN ItemTable /\ st.guid <= last
                    /\ ItemTable[st.def].stack = 1 => st.n = 1
Bag == [bag : [1 .. BagSlots -> Stack], free : Seq(1 .. BagSlots), next : 1 .. (BagSlots + 1),
        worn : [EquipSlots -> Stack]]
ShelfFits(b, last) ==
  /\ b \in Bag /\ \A i \in 1 .. BagSlots : StackFits(b.bag[i], last)
  /\ \A i, j \in 1 .. BagSlots : i # j /\ b.bag[i].guid # 0 => b.bag[i].guid # b.bag[j].guid
  /\ \A i \in 1 .. BagSlots : b.bag[i].guid = 0 <=> (i >= b.next \/ i \in Members(b.free))
  /\ NoRepeat(b.free) /\ \A i \in Members(b.free) : i < b.next
(* Two stacks of one identity are of the same definition, which stacks.     *)
Copies(st, other) == other.guid = st.guid => other.def = st.def /\ ItemTable[st.def].stack # 1
GearFits(b, last) ==
  /\ \A s \in EquipSlots : StackFits(b.worn[s], last)
  /\ \A s \in EquipSlots : b.worn[s].guid # 0 =>
        /\ ItemTable[b.worn[s].def].slots # {}
        /\ \A i \in 1 .. BagSlots : Copies(b.worn[s], b.bag[i])
        /\ \A t \in EquipSlots \ {s} : Copies(b.worn[s], b.worn[t])
BagFits(b, last) == ShelfFits(b, last) /\ GearFits(b, last)

UnitsOf(st, d) == IF st.def = d THEN st.n ELSE 0
WornCount(b, d) == Cardinality({s \in EquipSlots : b.worn[s].def = d})
Tallied(b, made) ==
  \A d \in DOMAIN ItemTable : SingleUnit(d) => made[d] = UnitsIn(b.bag, d) + WornCount(b, d)

LEMMA EmptyFits ==
  ASSUME NEW last \in Nat
  PROVE  /\ StackFits(EmptyStack, last) /\ EmptyStack \in Stack /\ EmptyStack.guid = 0
         /\ \A d \in DOMAIN ItemTable : UnitsOf(EmptyStack, d) = 0 /\ EmptyStack.def # d
BY ItemsAssumption DEF StackFits, EmptyStack, Stack, UnitsOf

LEMMA LaterFits ==
  ASSUME NEW st, NEW last \in Nat, NEW later \in Nat, last <= later, StackFits(st, last)
  PROVE  StackFits(st, later)
BY DEF StackFits, Stack

LEMMA SlotsAreFew == BagSlots \in Nat /\ BagSlots >= 1 /\ IsFiniteSet(1 .. BagSlots)
BY CharactersAssumption, FS_Interval

LEMMA OneSlotUnits ==
  ASSUME NEW bag \in [1 .. BagSlots -> Stack], NEW new \in [1 .. BagSlots -> Stack], NEW i \in 1 .. BagSlots,
         \A j \in 1 .. BagSlots : j # i => new[j] = bag[j], NEW d
  PROVE  /\ UnitsIn(bag, d) \in Int
         /\ UnitsIn(new, d) = UnitsIn(bag, d) + UnitsOf(new[i], d) - UnitsOf(bag[i], d)
<1> DEFINE f == [j \in 1 .. BagSlots |-> IF bag[j].def = d THEN bag[j].n ELSE 0]
           g == [j \in 1 .. BagSlots |-> IF new[j].def = d THEN new[j].n ELSE 0]
<1>1. UnitsIn(bag, d) = Sum(f, 1 .. BagSlots) /\ UnitsIn(new, d) = Sum(g, 1 .. BagSlots)
  BY DEF UnitsIn, Sum
<1>2. \A j \in 1 .. BagSlots : bag[j] \in Stack /\ new[j] \in Stack OBVIOUS
<1>3. \A j \in 1 .. BagSlots : f[j] \in Int /\ g[j] \in Int BY <1>2 DEF Stack
<1>4. \A j \in (1 .. BagSlots) \ {i} : f[j] = g[j] BY <1>2
<1>5. f[i] = UnitsOf(bag[i], d) /\ g[i] = UnitsOf(new[i], d) BY <1>2 DEF UnitsOf
<1>6. i \in 1 .. BagSlots /\ IsFiniteSet(1 .. BagSlots) BY SlotsAreFew
<1> HIDE DEF f, g
<1> DEFINE S == 1 .. BagSlots
<1> HIDE DEF S
<1>7. Sum(g, S) = Sum(f, S) + g[i] - f[i] /\ Sum(f, S) \in Int
  <2>1. /\ IsFiniteSet(S) /\ i \in S /\ (\A j \in S : f[j] \in Int /\ g[j] \in Int)
        /\ \A j \in S \ {i} : f[j] = g[j]
    BY <1>3, <1>4, <1>6 DEF S
  <2>2. Sum(f, S) \in Int BY <2>1, SumOfIntegers
  <2> QED BY <2>1, <2>2, SumChanges
<1> QED BY <1>1, <1>5, <1>7 DEF S

(* A stack is put where there is room.                                      *)
LEMMA PlacedFits ==
  ASSUME NEW last \in Nat, NEW b, ShelfFits(b, last), FreeSlot(b) # 0,
         NEW st, StackFits(st, last), st.guid # 0, \A i \in 1 .. BagSlots : b.bag[i].guid # st.guid
  PROVE  LET new == Placed(b, st)
         IN /\ ShelfFits(new, last) /\ new.worn = b.worn
            /\ \A d \in DOMAIN ItemTable : UnitsIn(new.bag, d) = UnitsIn(b.bag, d) + UnitsOf(st, d)
            /\ \A i \in 1 .. BagSlots : new.bag[i] = st \/ new.bag[i] = b.bag[i]
<1> DEFINE i == FreeSlot(b)
           free == IF b.free # <<>> THEN Front(b.free) ELSE b.free
           next == IF b.free = <<>> THEN b.next + 1 ELSE b.next
           bag == [b.bag EXCEPT ![i] = st]
           new == [b EXCEPT !.bag[i] = st, !.free = free, !.next = next]
<1>0. /\ b \in Bag /\ b.bag \in [1 .. BagSlots -> Stack] /\ b.free \in Seq(1 .. BagSlots)
      /\ b.next \in 1 .. (BagSlots + 1) /\ b.worn \in [EquipSlots -> Stack] /\ BagSlots \in Nat
      /\ \A j \in 1 .. BagSlots : StackFits(b.bag[j], last)
      /\ \A j \in 1 .. BagSlots : b.bag[j].guid = 0 <=> (j >= b.next \/ j \in Members(b.free))
      /\ NoRepeat(b.free) /\ \A j \in Members(b.free) : j < b.next
  BY SlotsAreFew DEF ShelfFits, Bag
<1>1. /\ i \in 1 .. BagSlots /\ free \in Seq(1 .. BagSlots) /\ NoRepeat(free) /\ next \in 1 .. (BagSlots + 1)
      /\ (\A j \in 1 .. BagSlots : j # i => (j >= next \/ j \in Members(free) <=> j >= b.next \/ j \in Members(b.free)))
      /\ i < next /\ i \notin Members(free) /\ (\A j \in Members(free) : j < next) /\ b.bag[i].guid = 0
  <2>1. CASE b.free # <<>>
    <3> DEFINE s == b.free
    <3>1. s \in Seq(1 .. BagSlots) /\ s # <<>> /\ NoRepeat(s) BY <1>0, <2>1
    <3>2. i = Last(s) /\ free = Front(s) /\ next = b.next BY <2>1 DEF FreeSlot
    <3> HIDE DEF s
    <3>3. /\ Front(s) \in Seq(1 .. BagSlots) /\ NoRepeat(Front(s)) /\ Last(s) = s[Len(s)]
          /\ Members(Front(s)) = Members(s) \ {s[Len(s)]} /\ s[Len(s)] \in Members(s)
      <4>1. Front(s) = SubSeq(s, 1, Len(s) - 1) /\ Last(s) = s[Len(s)] BY DEF Front, Last
      <4> DEFINE f == SubSeq(s, 1, Len(s) - 1)
                 P == 1 .. BagSlots
      <4> HIDE DEF P
      <4>2. /\ f \in Seq(P) /\ NoRepeat(f) /\ s[Len(s)] \in Members(s)
            /\ Members(f) = Members(s) \ {s[Len(s)]}
        BY <3>1, FrontMembers DEF P
      <4> HIDE DEF f
      <4> QED BY <4>1, <4>2 DEF f, P
    <3>4. Members(s) \subseteq 1 .. BagSlots BY <3>1, MembersIn
    <3>5. i \in Members(s) /\ Members(free) = Members(s) \ {i} /\ i \in 1 .. BagSlots
      BY <3>2, <3>3, <3>4
    <3> HIDE DEF i, free, next
    <3> QED BY <1>0, <3>2, <3>3, <3>5 DEF s
  <2>2. CASE b.free = <<>>
    <3>1. Members(b.free) = {} BY <2>2 DEF Members
    <3>2. i = b.next /\ free = b.free /\ next = b.next + 1 /\ b.next <= BagSlots
      BY <1>0, <2>2 DEF FreeSlot
    <3> HIDE DEF i, free, next
    <3>3. i \in 1 .. BagSlots /\ next \in 1 .. (BagSlots + 1) /\ i < next BY <1>0, <3>2
    <3> QED BY <1>0, <3>1, <3>2, <3>3
  <2> QED BY <2>1, <2>2
<1>2. Placed(b, st) = new BY DEF Placed
<1> HIDE DEF i, free, next
<1>3. st \in Stack /\ bag \in [1 .. BagSlots -> Stack] /\ \A j \in 1 .. BagSlots : bag[j] = IF j = i THEN st ELSE b.bag[j]
  BY <1>0, <1>1 DEF StackFits
<1>4. new.bag = bag /\ new.free = free /\ new.next = next /\ new.worn = b.worn /\ new \in Bag
  <2>1. new.bag = bag /\ new.free = free /\ new.next = next /\ new.worn = b.worn BY <1>0 DEF Bag
  <2>2. new = [b EXCEPT !.bag = bag, !.free = free, !.next = next] BY <1>0 DEF Bag
  <2> HIDE DEF new, bag
  <2> QED BY <1>0, <1>1, <1>3, <2>1, <2>2 DEF Bag
<1>5. \A d \in DOMAIN ItemTable : UnitsIn(bag, d) = UnitsIn(b.bag, d) + UnitsOf(st, d)
  <2>1. ASSUME NEW d \in DOMAIN ItemTable PROVE UnitsIn(bag, d) = UnitsIn(b.bag, d) + UnitsOf(st, d)
    <3>1. UnitsIn(bag, d) = UnitsIn(b.bag, d) + UnitsOf(st, d) - UnitsOf(b.bag[i], d) /\ UnitsIn(b.bag, d) \in Int
      <4>1. bag[i] = st /\ (\A j \in 1 .. BagSlots : j # i => bag[j] = b.bag[j]) /\ b.bag \in [1 .. BagSlots -> Stack]
            /\ i \in 1 .. BagSlots
        BY <1>0, <1>1, <1>3
      <4>2. UnitsIn(bag, d) = UnitsIn(b.bag, d) + UnitsOf(bag[i], d) - UnitsOf(b.bag[i], d) /\ UnitsIn(b.bag, d) \in Int
        <5> DEFINE old == b.bag
        <5> HIDE DEF old, bag
        <5> QED BY <1>3, <4>1, OneSlotUnits DEF old
      <4> QED BY <4>1, <4>2
    <3>2. UnitsOf(b.bag[i], d) = 0 BY <1>0, <1>1, EmptyFits DEF StackFits
    <3> QED BY <1>3, <3>1, <3>2 DEF Stack, UnitsOf
  <2> QED BY <2>1
<1> HIDE DEF new, bag
<1>6. ShelfFits(new, last)
  <2>1. ASSUME NEW j \in 1 .. BagSlots, NEW k \in 1 .. BagSlots, j # k, new.bag[j].guid # 0
        PROVE  new.bag[j].guid # new.bag[k].guid
    BY <1>3, <1>4, <2>1 DEF ShelfFits
  <2>2. ASSUME NEW j \in 1 .. BagSlots PROVE new.bag[j].guid = 0 <=> (j >= new.next \/ j \in Members(new.free))
    <3>1. CASE j = i BY <1>1, <1>3, <1>4, <3>1
    <3>2. CASE j # i BY <1>0, <1>1, <1>3, <1>4, <3>2
    <3> QED BY <3>1, <3>2
  <2>3. NoRepeat(new.free) /\ \A j \in Members(new.free) : j < new.next BY <1>1, <1>4
  <2> QED BY <1>0, <1>3, <1>4, <2>1, <2>2, <2>3 DEF ShelfFits
<1> QED BY <1>2, <1>3, <1>4, <1>5, <1>6

(* Some of a stack leaves, or all of it and with it the slot.               *)
LEMMA TakenFits ==
  ASSUME NEW last \in Nat, NEW b, ShelfFits(b, last), NEW i \in 1 .. BagSlots, b.bag[i].guid # 0,
         NEW count \in Nat, ItemTable[b.bag[i].def].stack = 1 => count <= 1
  PROVE  LET new == Taken(b, i, count)
             st  == b.bag[i]
         IN /\ ShelfFits(new, last) /\ new.worn = b.worn
            /\ \A d \in DOMAIN ItemTable : /\ d # st.def => UnitsIn(new.bag, d) = UnitsIn(b.bag, d)
                                           /\ d = st.def /\ count <= st.n =>
                                                 UnitsIn(new.bag, d) = UnitsIn(b.bag, d) - count
            /\ \A j \in 1 .. BagSlots : j # i => new.bag[j] = b.bag[j]
            /\ \/ new.bag[i] = EmptyStack
               \/ new.bag[i].guid = st.guid /\ new.bag[i].def = st.def /\ st.n > count
<1> DEFINE st == b.bag[i]
           less == [st EXCEPT !.n = @ - count]
           left == IF st.n > count THEN less ELSE EmptyStack
           free == IF st.n > count THEN b.free ELSE Append(b.free, i)
           bag == [b.bag EXCEPT ![i] = left]
           new == [b EXCEPT !.bag = bag, !.free = free]
<1>0. /\ b \in Bag /\ b.bag \in [1 .. BagSlots -> Stack] /\ b.free \in Seq(1 .. BagSlots)
      /\ b.next \in 1 .. (BagSlots + 1) /\ b.worn \in [EquipSlots -> Stack] /\ BagSlots \in Nat
      /\ \A j \in 1 .. BagSlots : StackFits(b.bag[j], last)
      /\ \A j \in 1 .. BagSlots : b.bag[j].guid = 0 <=> (j >= b.next \/ j \in Members(b.free))
      /\ NoRepeat(b.free) /\ \A j \in Members(b.free) : j < b.next
  BY SlotsAreFew DEF ShelfFits, Bag
<1>1. /\ st \in Stack /\ st.n \in Int /\ st.guid \in Nat /\ st.guid # 0 /\ st.def \in DOMAIN ItemTable /\ st.guid <= last
      /\ StackFits(st, last)
  BY <1>0 DEF StackFits, Stack
<1>2. Taken(b, i, count) = new
  <2>1. CASE st.n > count
    <3>1. Taken(b, i, count) = [b EXCEPT !.bag[i].n = @ - count] BY <2>1 DEF Taken
    <3>2. new = [b EXCEPT !.bag = [b.bag EXCEPT ![i] = [st EXCEPT !.n = @ - count]], !.free = b.free]
      BY <2>1
    <3>3. b.bag[i].n - count = st.n - count OBVIOUS
    <3> HIDE DEF new
    <3> QED BY <1>0, <3>1, <3>2 DEF Bag
  <2>2. CASE ~(st.n > count)
    <3>1. Taken(b, i, count) = [b EXCEPT !.bag[i] = EmptyStack, !.free = Append(@, i)]
      BY <2>2 DEF Taken
    <3>2. new = [b EXCEPT !.bag = [b.bag EXCEPT ![i] = EmptyStack], !.free = Append(b.free, i)]
      BY <2>2
    <3> HIDE DEF new
    <3> QED BY <1>0, <3>1, <3>2 DEF Bag
  <2> QED BY <2>1, <2>2
<1>3. /\ less \in Stack /\ less.guid = st.guid /\ less.def = st.def /\ less.n = st.n - count
  BY <1>1 DEF Stack
<1>4. /\ StackFits(left, last) /\ left \in Stack
      /\ left = EmptyStack \/ (left.guid = st.guid /\ left.def = st.def /\ st.n > count)
      /\ left.guid = 0 \/ left.guid = st.guid
      /\ left.guid = 0 <=> ~(st.n > count)
  <2>1. CASE st.n > count
    <3>1. left = less BY <2>1
    <3> HIDE DEF less, left
    <3>2. ItemTable[less.def].stack = 1 => less.n = 1 BY <1>1, <1>3, <2>1 DEF StackFits
    <3> QED BY <1>1, <1>3, <2>1, <3>1, <3>2 DEF StackFits
  <2>2. CASE ~(st.n > count) BY <2>2, EmptyFits
  <2> QED BY <2>1, <2>2
<1>5. \A d \in DOMAIN ItemTable : /\ d # st.def => UnitsOf(left, d) = UnitsOf(st, d)
                                  /\ d = st.def /\ count <= st.n => UnitsOf(left, d) = UnitsOf(st, d) - count
  <2> SUFFICES ASSUME NEW d \in DOMAIN ItemTable
               PROVE  /\ d # st.def => UnitsOf(left, d) = UnitsOf(st, d)
                      /\ d = st.def /\ count <= st.n => UnitsOf(left, d) = UnitsOf(st, d) - count
    OBVIOUS
  <2>1. CASE st.n > count
    <3>1. left = less BY <2>1
    <3> HIDE DEF less, left, st
    <3> QED BY <1>3, <3>1 DEF UnitsOf
  <2>2. CASE ~(st.n > count)
    <3>1. left = EmptyStack /\ UnitsOf(EmptyStack, d) = 0 BY <2>2, EmptyFits
    <3> HIDE DEF less, left, st
    <3> QED BY <1>1, <2>2, <3>1 DEF UnitsOf
  <2> QED BY <2>1, <2>2
<1>6. i < b.next /\ i \notin Members(b.free) BY <1>0
<1>7. /\ free \in Seq(1 .. BagSlots) /\ NoRepeat(free) /\ (\A j \in Members(free) : j < b.next)
      /\ \A j \in 1 .. BagSlots : j \in Members(free) <=> j \in Members(b.free) \/ (j = i /\ ~(st.n > count))
  <2>1. CASE st.n > count BY <1>0, <2>1
  <2>2. CASE ~(st.n > count)
    <3> DEFINE s == b.free
    <3>1. s \in Seq(1 .. BagSlots) /\ NoRepeat(s) /\ i \notin Members(s) /\ free = Append(s, i)
      BY <1>0, <1>6, <2>2
    <3> HIDE DEF s, free
    <3>2. free \in Seq(1 .. BagSlots) /\ Members(free) = Members(s) \cup {i} /\ NoRepeat(free)
      <4>1. /\ Append(s, i) \in Seq(1 .. BagSlots) /\ Members(Append(s, i)) = Members(s) \cup {i}
            /\ NoRepeat(s) /\ i \notin Members(s) => NoRepeat(Append(s, i))
        BY <3>1, AppendMembers
      <4> QED BY <3>1, <4>1
    <3> QED BY <1>0, <1>6, <2>2, <3>2 DEF s
  <2> QED BY <2>1, <2>2
<1> HIDE DEF left, free
<1>8. bag \in [1 .. BagSlots -> Stack] /\ \A j \in 1 .. BagSlots : bag[j] = IF j = i THEN left ELSE b.bag[j]
  BY <1>0, <1>4
<1>9. \A d \in DOMAIN ItemTable : /\ d # st.def => UnitsIn(bag, d) = UnitsIn(b.bag, d)
                                  /\ d = st.def /\ count <= st.n => UnitsIn(bag, d) = UnitsIn(b.bag, d) - count
  <2> SUFFICES ASSUME NEW d \in DOMAIN ItemTable
               PROVE  /\ d # st.def => UnitsIn(bag, d) = UnitsIn(b.bag, d)
                      /\ d = st.def /\ count <= st.n => UnitsIn(bag, d) = UnitsIn(b.bag, d) - count
    OBVIOUS
  <2> DEFINE old == b.bag
  <2>1. old \in [1 .. BagSlots -> Stack] /\ bag[i] = left /\ (\A j \in 1 .. BagSlots : j # i => bag[j] = old[j])
    BY <1>0, <1>8
  <2> HIDE DEF old, bag
  <2>2. UnitsIn(bag, d) = UnitsIn(old, d) + UnitsOf(bag[i], d) - UnitsOf(old[i], d) /\ UnitsIn(old, d) \in Int
    BY <1>8, <2>1, OneSlotUnits
  <2>3. old[i] = st BY DEF old
  <2> HIDE DEF st
  <2>4. UnitsOf(st, d) \in Int BY <1>1 DEF UnitsOf
  <2>5. UnitsIn(bag, d) = UnitsIn(old, d) + UnitsOf(left, d) - UnitsOf(st, d) BY <2>1, <2>2, <2>3
  <2>6. CASE d # st.def BY <1>5, <2>2, <2>4, <2>5, <2>6 DEF old
  <2>7. CASE d = st.def BY <1>5, <2>2, <2>4, <2>5, <2>7 DEF old
  <2> QED BY <2>6, <2>7
<1> HIDE DEF bag
<1>10. new.bag = bag /\ new.free = free /\ new.next = b.next /\ new.worn = b.worn
  BY <1>0 DEF Bag
<1>11. new \in Bag BY <1>0, <1>7, <1>8 DEF Bag
<1> HIDE DEF new
<1>12. ShelfFits(new, last)
  <2>1. \A j \in 1 .. BagSlots : StackFits(new.bag[j], last) BY <1>0, <1>4, <1>8, <1>10
  <2>2. ASSUME NEW j \in 1 .. BagSlots, NEW k \in 1 .. BagSlots, j # k, new.bag[j].guid # 0
        PROVE  new.bag[j].guid # new.bag[k].guid
    BY <1>4, <1>8, <1>10, <2>2 DEF ShelfFits
  <2>3. ASSUME NEW j \in 1 .. BagSlots PROVE new.bag[j].guid = 0 <=> (j >= new.next \/ j \in Members(new.free))
    <3>1. CASE j = i
      <4>1. ~(i >= b.next) BY <1>0, <1>6
      <4> QED BY <1>4, <1>6, <1>7, <1>8, <1>10, <3>1, <4>1
    <3>2. CASE j # i BY <1>0, <1>7, <1>8, <1>10, <3>2
    <3> QED BY <3>1, <3>2
  <2> QED BY <1>7, <1>10, <1>11, <2>1, <2>2, <2>3 DEF ShelfFits
<1> QED BY <1>2, <1>4, <1>8, <1>9, <1>10, <1>12

(* One stack of the bag changes, and is the same item still.                *)
LEMMA RestackedFits ==
  ASSUME NEW last \in Nat, NEW b, ShelfFits(b, last), NEW i \in 1 .. BagSlots,
         NEW st, StackFits(st, last), st.guid # 0, st.guid = b.bag[i].guid
  PROVE  LET new == [b EXCEPT !.bag = [b.bag EXCEPT ![i] = st]]
         IN /\ ShelfFits(new, last) /\ new.worn = b.worn /\ new.bag[i] = st
            /\ \A j \in 1 .. BagSlots : j # i => new.bag[j] = b.bag[j]
            /\ \A d : UnitsIn(new.bag, d) = UnitsIn(b.bag, d) + UnitsOf(st, d) - UnitsOf(b.bag[i], d)
            /\ \A d : UnitsIn(b.bag, d) \in Int
<1> DEFINE bag == [b.bag EXCEPT ![i] = st]
           new == [b EXCEPT !.bag = bag]
<1>1. /\ b \in Bag /\ b.bag \in [1 .. BagSlots -> Stack] /\ st \in Stack
      /\ \A j \in 1 .. BagSlots : StackFits(b.bag[j], last)
  BY DEF ShelfFits, Bag, StackFits
<1>2. /\ bag \in [1 .. BagSlots -> Stack] /\ bag[i] = st
      /\ \A j \in 1 .. BagSlots : j # i => bag[j] = b.bag[j]
  BY <1>1
<1> HIDE DEF bag
<1>3. new.bag = bag /\ new.free = b.free /\ new.next = b.next /\ new.worn = b.worn
  BY <1>1 DEF Bag
<1>4. new \in Bag BY <1>1, <1>2 DEF Bag
<1>5. \A d : /\ UnitsIn(bag, d) = UnitsIn(b.bag, d) + UnitsOf(st, d) - UnitsOf(b.bag[i], d)
             /\ UnitsIn(b.bag, d) \in Int
  <2> DEFINE old == b.bag
  <2>1. old \in [1 .. BagSlots -> Stack] /\ \A j \in 1 .. BagSlots : j # i => bag[j] = old[j]
    BY <1>1, <1>2
  <2> HIDE DEF old
  <2>2. ASSUME NEW d
        PROVE  /\ UnitsIn(bag, d) = UnitsIn(old, d) + UnitsOf(bag[i], d) - UnitsOf(old[i], d)
               /\ UnitsIn(old, d) \in Int
    BY <1>2, <2>1, OneSlotUnits
  <2> QED BY <1>2, <2>2 DEF old
<1> HIDE DEF new
<1>6. ShelfFits(new, last)
  <2>1. \A j \in 1 .. BagSlots : StackFits(new.bag[j], last) BY <1>1, <1>2, <1>3
  <2> QED BY <1>2, <1>3, <1>4, <2>1 DEF ShelfFits
<1> QED BY <1>2, <1>3, <1>5, <1>6 DEF new, bag

(* What is worn stays as it is while the bag changes around it.             *)
LEMMA GearStays ==
  ASSUME NEW last \in Nat, NEW later \in Nat, last <= later, NEW b, GearFits(b, last),
         NEW new, new.worn = b.worn,
         \A i \in 1 .. BagSlots : \/ new.bag[i].guid = 0 \/ new.bag[i].guid > last
                                  \/ new.bag[i].guid = b.bag[i].guid /\ new.bag[i].def = b.bag[i].def
  PROVE  GearFits(new, later)
<1>1. ASSUME NEW s \in EquipSlots, b.worn[s].guid # 0, NEW i \in 1 .. BagSlots
      PROVE  Copies(b.worn[s], new.bag[i])
  <2>1. new.bag[i].guid = b.worn[s].guid => new.bag[i].guid = b.bag[i].guid /\ new.bag[i].def = b.bag[i].def
    BY <1>1 DEF GearFits, StackFits, Stack
  <2> QED BY <1>1, <2>1 DEF Copies, GearFits
<1> QED BY <1>1, LaterFits DEF GearFits

LoopState == [bag : Bag, guid : Nat, added : Int]
(* A unit is added, or there is no room for it.                             *)
LEMMA OneIsAdded ==
  ASSUME NEW d \in DOMAIN ItemTable, NEW s \in LoopState, BagFits(s.bag, s.guid)
  PROVE  LET t == AddOne(s, d)
         IN /\ t \in LoopState /\ BagFits(t.bag, t.guid) /\ s.guid <= t.guid /\ t.bag.worn = s.bag.worn
            /\ \A e \in DOMAIN ItemTable :
                  UnitsIn(t.bag.bag, e) = UnitsIn(s.bag.bag, e) + (IF e = d THEN t.added - s.added ELSE 0)
<1> DEFINE b == s.bag
           open == {i \in 1 .. BagSlots : /\ ItemTable[d].stack > 1 /\ b.bag[i].guid # 0
                                          /\ b.bag[i].def = d /\ b.bag[i].n < ItemTable[d].stack}
           st == [def |-> d, n |-> 1, wear |-> ItemTable[d].wear, guid |-> s.guid + 1]
           t == AddOne(s, d)
<1>0. s.guid \in Nat /\ s.added \in Int /\ b \in Bag /\ ShelfFits(b, s.guid) /\ GearFits(b, s.guid)
  BY DEF LoopState, BagFits
<1>1. CASE open # {}
  <2> DEFINE i == Min(open)
             more == [b.bag[i] EXCEPT !.n = @ + 1]
             new == [b EXCEPT !.bag = [b.bag EXCEPT ![i] = more]]
  <2>1. i \in open
    <3>1. open \in SUBSET Nat OBVIOUS
    <3> HIDE DEF open
    <3>2. PICK m \in open : \A n \in open : m <= n BY <1>1, <3>1, LeastOf
    <3> QED BY <3>2 DEF Min
  <2>2. /\ i \in 1 .. BagSlots /\ ItemTable[d].stack > 1 /\ b.bag[i].guid # 0 /\ b.bag[i].def = d
    BY <2>1
  <2>3. t = [s EXCEPT !.bag = new, !.added = @ + 1]
    <3>1. t = [s EXCEPT !.bag.bag[i].n = @ + 1, !.added = @ + 1] BY <1>1 DEF AddOne
    <3> HIDE DEF open, i
    <3> QED BY <2>2, <3>1 DEF LoopState, Bag
  <2> HIDE DEF t, open, i
  <2>4. b.bag[i] \in Stack /\ StackFits(b.bag[i], s.guid) BY <1>0, <2>2 DEF ShelfFits, Bag
  <2>5. more \in Stack /\ more.guid = b.bag[i].guid /\ more.def = d /\ more.n = b.bag[i].n + 1
    BY <2>2, <2>4 DEF Stack
  <2> HIDE DEF more
  <2>6. StackFits(more, s.guid) /\ more.guid # 0 BY <2>2, <2>4, <2>5 DEF StackFits
  <2>7. /\ ShelfFits(new, s.guid) /\ new.worn = b.worn /\ new.bag[i] = more
        /\ \A j \in 1 .. BagSlots : j # i => new.bag[j] = b.bag[j]
        /\ \A e : UnitsIn(new.bag, e) = UnitsIn(b.bag, e) + UnitsOf(more, e) - UnitsOf(b.bag[i], e)
        /\ \A e : UnitsIn(b.bag, e) \in Int
    <3> HIDE DEF b
    <3> QED BY <1>0, <2>2, <2>5, <2>6, RestackedFits
  <2> HIDE DEF new
  <2>8. GearFits(new, s.guid)
    <3>1. \A j \in 1 .. BagSlots : new.bag[j].guid = b.bag[j].guid /\ new.bag[j].def = b.bag[j].def
      BY <2>2, <2>5, <2>7
    <3> HIDE DEF b
    <3> QED BY <1>0, <2>7, <3>1, GearStays
  <2>9. ASSUME NEW e \in DOMAIN ItemTable
        PROVE  UnitsIn(new.bag, e) = UnitsIn(b.bag, e) + (IF e = d THEN 1 ELSE 0)
    <3>1. UnitsOf(more, e) = UnitsOf(b.bag[i], e) + (IF e = d THEN 1 ELSE 0) /\ UnitsOf(b.bag[i], e) \in Int
      BY <2>2, <2>4, <2>5 DEF UnitsOf, Stack
    <3> QED BY <2>7, <3>1
  <2>10. t \in LoopState /\ t.bag = new /\ t.guid = s.guid /\ t.added = s.added + 1
    <3>1. new \in Bag /\ s \in LoopState /\ s.added + 1 \in Int /\ s.guid \in Nat
      BY <1>0, <2>7 DEF ShelfFits
    <3> HIDE DEF b
    <3>2. t.bag = new /\ t.guid = s.guid /\ t.added = s.added + 1 BY <2>3, <3>1 DEF LoopState
    <3> QED BY <2>3, <3>1, <3>2 DEF LoopState
  <2> QED BY <1>0, <2>7, <2>8, <2>9, <2>10 DEF BagFits, t
<1>2. CASE open = {} /\ FreeSlot(b) # 0
  <2> DEFINE new == Placed(b, st)
             next == s.guid + 1
  <2>1. t = [bag |-> new, guid |-> next, added |-> s.added + 1] BY <1>2 DEF AddOne
  <2>2. st \in Stack /\ st.guid = next /\ st.def = d /\ st.n = 1 /\ next \in Nat /\ s.guid <= next /\ next # 0
    BY <1>0, ItemsAssumption DEF Stack
  <2> HIDE DEF st, t, next, open
  <2>3. StackFits(st, next) BY <2>2 DEF StackFits
  <2>4. ShelfFits(b, next) BY <1>0, <2>2, LaterFits DEF ShelfFits
  <2>5. \A i \in 1 .. BagSlots : b.bag[i].guid # st.guid
    <3>1. ASSUME NEW i \in 1 .. BagSlots PROVE b.bag[i].guid <= s.guid /\ b.bag[i].guid \in Nat
      BY <1>0 DEF ShelfFits, StackFits, Stack, EmptyStack
    <3> QED BY <1>0, <2>2, <3>1 DEF next
  <2>6. /\ ShelfFits(new, next) /\ new.worn = b.worn
        /\ \A e \in DOMAIN ItemTable : UnitsIn(new.bag, e) = UnitsIn(b.bag, e) + UnitsOf(st, e)
        /\ \A i \in 1 .. BagSlots : new.bag[i] = st \/ new.bag[i] = b.bag[i]
    <3> HIDE DEF b
    <3> QED BY <1>2, <2>2, <2>3, <2>4, <2>5, PlacedFits
  <2> HIDE DEF new
  <2>7. GearFits(new, next)
    <3>1. \A i \in 1 .. BagSlots : new.bag[i].guid > s.guid \/ (new.bag[i].guid = b.bag[i].guid /\ new.bag[i].def = b.bag[i].def)
      BY <1>0, <2>2, <2>6 DEF next
    <3> HIDE DEF b
    <3> QED BY <1>0, <2>2, <2>6, <3>1, GearStays
  <2>8. ASSUME NEW e \in DOMAIN ItemTable
        PROVE  UnitsIn(new.bag, e) = UnitsIn(b.bag, e) + (IF e = d THEN 1 ELSE 0)
    BY <2>2, <2>6 DEF UnitsOf
  <2>9. t \in LoopState /\ t.bag = new /\ t.guid = next /\ t.added = s.added + 1 /\ t.added - s.added = 1
    BY <1>0, <2>1, <2>2, <2>6 DEF LoopState, ShelfFits
  <2> QED BY <1>0, <2>2, <2>6, <2>7, <2>8, <2>9 DEF BagFits, t
<1>3. CASE open = {} /\ FreeSlot(b) = 0
  <2>1. t = s BY <1>3 DEF AddOne
  <2> HIDE DEF t
  <2>2. ASSUME NEW e \in DOMAIN ItemTable PROVE UnitsIn(b.bag, e) = UnitsIn(b.bag, e) + (IF e = d THEN 0 ELSE 0)
    <3> DEFINE old == b.bag
    <3>1. old \in [1 .. BagSlots -> Stack] /\ BagSlots \in Nat /\ BagSlots >= 1
      BY <1>0, SlotsAreFew DEF Bag
    <3> HIDE DEF old
    <3>2. UnitsIn(old, e) \in Int BY <3>1, OneSlotUnits
    <3> QED BY <3>2 DEF old
  <2> QED BY <1>0, <2>1, <2>2 DEF BagFits, t
<1> HIDE DEF open, st, t
<1> QED BY <1>1, <1>2, <1>3 DEF t

AddStates(b, first) == {s \in LoopState : BagFits(s.bag, s.guid) /\ s.bag.worn = b.worn /\ first <= s.guid}
AddCounted(b, d) ==
  {s \in LoopState : \A e \in DOMAIN ItemTable :
      UnitsIn(s.bag.bag, e) = UnitsIn(b.bag, e) + (IF e = d THEN s.added ELSE 0)}

LEMMA UnitsAreIntegers ==
  ASSUME NEW bag \in [1 .. BagSlots -> Stack], NEW d
  PROVE  UnitsIn(bag, d) \in Int
<1> QED BY SlotsAreFew, OneSlotUnits

(* Unit by unit, what fits of the count is added.                           *)
LEMMA UnitsAreAdded ==
  ASSUME NEW b, BagFits(b, itGuid), itGuid \in Nat, NEW d \in DOMAIN ItemTable, NEW count \in Nat
  PROVE  AddLoop(b, d, count) \in AddStates(b, itGuid) \cap AddCounted(b, d)
<1> DEFINE S == AddStates(b, itGuid) \cap AddCounted(b, d)
           a == [bag |-> b, guid |-> itGuid, added |-> 0]
           F == [x \in (1 .. count) \X S |-> AddOne(x[2], d)]
           IsRun(f) == f = [n \in 0 .. count |-> IF n = 0 THEN a ELSE AddOne(f[n - 1], d)]
           f == CHOOSE f : IsRun(f)
<1>1. AddLoop(b, d, count) = f[count] BY DEF AddLoop
<1>2. a \in S
  <2>1. b \in Bag /\ b.bag \in [1 .. BagSlots -> Stack] BY DEF BagFits, ShelfFits, Bag
  <2>2. a \in LoopState BY <2>1 DEF LoopState
  <2>3. \A e \in DOMAIN ItemTable : UnitsIn(b.bag, e) = UnitsIn(b.bag, e) + (IF e = d THEN 0 ELSE 0)
    <3> DEFINE old == b.bag
    <3>1. old \in [1 .. BagSlots -> Stack] BY <2>1
    <3> HIDE DEF old
    <3> QED BY <3>1, UnitsAreIntegers DEF old
  <2>4. a.bag = b /\ a.guid = itGuid /\ a.added = 0 /\ itGuid <= itGuid OBVIOUS
  <2> HIDE DEF a
  <2> QED BY <2>2, <2>3, <2>4 DEF AddStates, AddCounted
<1>3. ASSUME NEW s \in S PROVE AddOne(s, d) \in S
  <2> DEFINE t == AddOne(s, d)
  <2>1. s \in LoopState /\ BagFits(s.bag, s.guid) /\ s.bag.worn = b.worn /\ itGuid <= s.guid
    BY DEF AddStates
  <2>2. /\ t \in LoopState /\ BagFits(t.bag, t.guid) /\ s.guid <= t.guid /\ t.bag.worn = s.bag.worn
        /\ \A e \in DOMAIN ItemTable :
              UnitsIn(t.bag.bag, e) = UnitsIn(s.bag.bag, e) + (IF e = d THEN t.added - s.added ELSE 0)
    BY <2>1, OneIsAdded
  <2> HIDE DEF t
  <2>3. t \in AddStates(b, itGuid) BY <2>1, <2>2 DEF AddStates, LoopState
  <2>4. ASSUME NEW e \in DOMAIN ItemTable
        PROVE  UnitsIn(t.bag.bag, e) = UnitsIn(b.bag, e) + (IF e = d THEN t.added ELSE 0)
    <3>1. UnitsIn(s.bag.bag, e) = UnitsIn(b.bag, e) + (IF e = d THEN s.added ELSE 0)
      BY DEF AddCounted
    <3>2. UnitsIn(b.bag, e) \in Int
      <4> DEFINE old == b.bag
      <4>1. old \in [1 .. BagSlots -> Stack] BY DEF BagFits, ShelfFits, Bag
      <4> HIDE DEF old
      <4> QED BY <4>1, UnitsAreIntegers DEF old
    <3> QED BY <2>1, <2>2, <3>1, <3>2 DEF LoopState
  <2> QED BY <2>2, <2>3, <2>4 DEF AddCounted, t
<1> HIDE DEF S, a
<1>4. F \in [(1 .. count) \X S -> S] BY <1>3
<1>5. PICK g \in [0 .. count -> S] : Iterated(g, count, a, F)
  <2> HIDE DEF F
  <2> QED BY <1>2, <1>4, Iterates
<1>6. IsRun(g)
  <2>1. ASSUME NEW n \in 1 .. count PROVE g[n] = AddOne(g[n - 1], d)
    <3>1. F[<<n, g[n - 1]>>] = AddOne(g[n - 1], d) BY <1>5
    <3> QED BY <1>5, <3>1 DEF Iterated
  <2>2. g[0] = a BY <1>5 DEF Iterated
  <2> HIDE DEF F
  <2> QED BY <1>5, <2>1, <2>2
<1>7. IsRun(f) BY <1>6
<1> HIDE DEF f
<1>8. /\ f[0] = a /\ \A n \in 1 .. count : f[n] = AddOne(f[n - 1], d) BY <1>7
<1>9. \A n \in 0 .. count : f[n] \in S
  <2>1. f[0] \in S BY <1>2, <1>8
  <2> QED BY <1>3, <1>8, <2>1, IterationKeeps
<1>10. f[count] \in S BY <1>9
<1> QED BY <1>1, <1>10 DEF S

(* What is worn of a definition, when one slot changes.                     *)
LEMMA WornIsCounted ==
  ASSUME NEW b, NEW new, NEW s \in EquipSlots, NEW d,
         \A t \in EquipSlots \ {s} : new.worn[t] = b.worn[t]
  PROVE  /\ WornCount(b, d) \in Nat
         /\ WornCount(new, d) = WornCount(b, d) + (IF new.worn[s].def = d THEN 1 ELSE 0)
                                               - (IF b.worn[s].def = d THEN 1 ELSE 0)
<1> DEFINE X == {t \in EquipSlots : b.worn[t].def = d}
           Y == {t \in EquipSlots : new.worn[t].def = d}
<1>1. IsFiniteSet(X) /\ IsFiniteSet(Y) BY ItemsAssumption, FS_Subset
<1>2. Cardinality(X) \in Nat /\ Cardinality(Y) \in Nat BY <1>1, FS_CardinalityType
<1>3. X \ {s} = Y \ {s} /\ (s \in X <=> b.worn[s].def = d) /\ (s \in Y <=> new.worn[s].def = d)
  OBVIOUS
<1>4. WornCount(b, d) = Cardinality(X) /\ WornCount(new, d) = Cardinality(Y) BY DEF WornCount
<1> HIDE DEF X, Y
<1>5. /\ Cardinality(X \ {s}) = IF s \in X THEN Cardinality(X) - 1 ELSE Cardinality(X)
      /\ Cardinality(Y \ {s}) = IF s \in Y THEN Cardinality(Y) - 1 ELSE Cardinality(Y)
  BY <1>1, FS_RemoveElement
<1> DEFINE n == Cardinality(X)
           m == Cardinality(Y)
           inX == b.worn[s].def = d
           inY == new.worn[s].def = d
<1>6. (IF inX THEN n - 1 ELSE n) = (IF inY THEN m - 1 ELSE m) BY <1>3, <1>5
<1>7. n \in Int /\ m \in Int BY <1>2
<1>8. m = n + (IF inY THEN 1 ELSE 0) - (IF inX THEN 1 ELSE 0)
  <2> HIDE DEF n, m, inX, inY
  <2> QED BY <1>6, <1>7
<1> QED BY <1>2, <1>4, <1>8

(* The gear a bag gives is that of what is worn.                            *)
LEMMA GearIsAnInteger ==
  ASSUME NEW last, NEW b, GearFits(b, last)
  PROVE  GearOf(b) \in Int
<1> DEFINE on == {s \in EquipSlots : b.worn[s].guid # 0}
           f == [s \in on |-> WornBonus(b.worn[s])]
<1>1. IsFiniteSet(on) BY ItemsAssumption, FS_Subset
<1>2. ASSUME NEW s \in on PROVE f[s] \in Int
  <2> DEFINE st == b.worn[s]
             def == ItemTable[st.def]
             factor == CASE def.wear = 0 -> 2
                         [] def.wear > 0 /\ st.wear = 0 -> 0
                         [] def.wear > 0 /\ st.wear > 0 /\ 2 * st.wear < def.wear -> 1
                         [] OTHER -> 2
  <2>1. def.bonus \in Int BY ItemsAssumption DEF GearFits, StackFits
  <2>2. factor \in {0, 1, 2} OBVIOUS
  <2> HIDE DEF factor
  <2>3. WornBonus(st) = (def.bonus * factor) \div 2 BY DEF WornBonus, factor
  <2> DEFINE bonus == def.bonus
  <2>4. bonus \in Int BY <2>1
  <2> HIDE DEF bonus
  <2>5. WornBonus(st) = (bonus * factor) \div 2 BY <2>3 DEF bonus
  <2> QED BY <2>2, <2>4, <2>5
<1>3. GearOf(b) = Sum(f, on) BY DEF GearOf, Sum
<1> HIDE DEF f, on
<1> QED BY <1>1, <1>2, <1>3, SumOfIntegers

LEMMA NothingWornGivesNothing ==
  ASSUME NEW b, \A s \in EquipSlots : b.worn[s].guid = 0
  PROVE  GearOf(b) = 0
<1> DEFINE on == {s \in EquipSlots : b.worn[s].guid # 0}
           f == [s \in on |-> WornBonus(b.worn[s])]
<1>1. IsFiniteSet(on) /\ \A s \in on : f[s] = 0 BY FS_EmptySet
<1>2. GearOf(b) = Sum(f, on) BY DEF GearOf, Sum
<1> HIDE DEF f, on
<1> QED BY <1>1, <1>2, SumOfZeros

LEMMA GearIsOfTheWorn ==
  ASSUME NEW b, NEW new, new.worn = b.worn
  PROVE  GearOf(new) = GearOf(b)
BY DEF GearOf

LEMMA NewBagFits ==
  ASSUME NEW last \in Nat
  PROVE  /\ BagFits(NewBag, last) /\ \A s \in EquipSlots : NewBag.worn[s] = EmptyStack
         /\ \A d \in DOMAIN ItemTable : UnitsIn(NewBag.bag, d) = 0 /\ WornCount(NewBag, d) = 0
<1> DEFINE b == [bag |-> [i \in 1 .. BagSlots |-> EmptyStack], free |-> <<>>, next |-> 1,
                 worn |-> [s \in EquipSlots |-> EmptyStack]]
<1>0. NewBag = b /\ BagSlots \in Nat /\ BagSlots >= 1 BY SlotsAreFew DEF NewBag
<1>1. /\ StackFits(EmptyStack, last) /\ EmptyStack \in Stack /\ EmptyStack.guid = 0
      /\ \A d \in DOMAIN ItemTable : UnitsOf(EmptyStack, d) = 0 /\ EmptyStack.def # d
  BY EmptyFits
<1>2. /\ \A i \in 1 .. BagSlots : b.bag[i] = EmptyStack
      /\ \A s \in EquipSlots : b.worn[s] = EmptyStack
      /\ b.free = <<>> /\ b.next = 1
  OBVIOUS
<1>3. b \in Bag BY <1>0, <1>1 DEF Bag
<1>4. Members(b.free) = {} /\ NoRepeat(b.free) BY DEF Members, NoRepeat
<1>5. ASSUME NEW d \in DOMAIN ItemTable PROVE UnitsIn(b.bag, d) = 0 /\ WornCount(b, d) = 0
  <2> DEFINE f == [i \in 1 .. BagSlots |-> IF b.bag[i].def = d THEN b.bag[i].n ELSE 0]
             P == 1 .. BagSlots
  <2>1. UnitsIn(b.bag, d) = Sum(f, P) BY DEF UnitsIn, Sum
  <2>2. \A i \in P : f[i] = 0 BY <1>1, <1>2
  <2>3. IsFiniteSet(P) BY SlotsAreFew
  <2>4. Sum(f, P) = 0
    <3> HIDE DEF f, P
    <3> QED BY <2>2, <2>3, SumOfZeros
  <2>5. WornCount(b, d) = 0 BY <1>1, <1>2, FS_EmptySet DEF WornCount
  <2> QED BY <2>1, <2>4, <2>5
<1> HIDE DEF b
<1>6. ShelfFits(b, last) BY <1>0, <1>1, <1>2, <1>3, <1>4 DEF ShelfFits
<1> QED BY <1>0, <1>1, <1>2, <1>5, <1>6 DEF BagFits, GearFits

BagIsSound(b, last, made) == BagFits(b, last) /\ Tallied(b, made)
LEMMA SlotHolds ==
  ASSUME NEW last, NEW b, BagFits(b, last), NEW i \in 1 .. BagSlots, b.bag[i].guid # 0
  PROVE  LET st == b.bag[i]
         IN /\ StackFits(st, last) /\ st \in Stack /\ st.def \in DOMAIN ItemTable /\ st.n \in Int /\ st.guid \in Nat
            /\ ItemTable[st.def].stack = 1 => st.n = 1
BY DEF BagFits, ShelfFits, StackFits, Stack, Bag
LEMMA WornSlotHolds ==
  ASSUME NEW last, NEW b, BagFits(b, last), NEW s \in EquipSlots, b.worn[s].guid # 0
  PROVE  LET st == b.worn[s]
         IN /\ StackFits(st, last) /\ st \in Stack /\ st.def \in DOMAIN ItemTable /\ st.n \in Int /\ st.guid \in Nat
            /\ ItemTable[st.def].stack = 1 => st.n = 1
            /\ ItemTable[st.def].slots # {}
BY DEF BagFits, GearFits, StackFits, Stack, Bag

LEMMA UnitsRemoved ==
  ASSUME NEW last \in Nat, NEW b, NEW made, BagIsSound(b, last, made),
         NEW i \in 1 .. BagSlots, b.bag[i].guid # 0, NEW count \in Nat, count <= b.bag[i].n,
         made \in [DOMAIN ItemTable -> Int], NEW left,
         \A d \in DOMAIN ItemTable : left[d] = IF d = b.bag[i].def THEN made[d] - count ELSE made[d]
  PROVE  LET new == Taken(b, i, count)
         IN BagIsSound(new, last, left) /\ new.worn = b.worn
<1> DEFINE st == b.bag[i]
           new == Taken(b, i, count)
<1>0. /\ ShelfFits(b, last) /\ GearFits(b, last) /\ BagFits(b, last) /\ Tallied(b, made)
  BY DEF BagIsSound, BagFits
<1>1. ItemTable[st.def].stack = 1 => count <= 1 BY <1>0, SlotHolds
<1>2. /\ ShelfFits(new, last) /\ new.worn = b.worn
      /\ (\A d \in DOMAIN ItemTable : (d # st.def => UnitsIn(new.bag, d) = UnitsIn(b.bag, d)))
      /\ (\A d \in DOMAIN ItemTable : (d = st.def /\ count <= st.n => UnitsIn(new.bag, d) = UnitsIn(b.bag, d) - count))
      /\ \A j \in 1 .. BagSlots : j # i => new.bag[j] = b.bag[j]
      /\ \/ new.bag[i] = EmptyStack
         \/ new.bag[i].guid = st.guid /\ new.bag[i].def = st.def /\ st.n > count
  BY <1>0, <1>1, TakenFits
<1> HIDE DEF new
<1>3. GearFits(new, last)
  <2>1. \A j \in 1 .. BagSlots : \/ new.bag[j].guid = 0 \/ new.bag[j].guid > last
                                 \/ new.bag[j].guid = b.bag[j].guid /\ new.bag[j].def = b.bag[j].def
    BY <1>2 DEF EmptyStack
  <2> QED BY <1>0, <1>2, <2>1, GearStays
<1>4. Tallied(new, left)
  <2> SUFFICES ASSUME NEW d \in DOMAIN ItemTable, SingleUnit(d)
               PROVE  left[d] = UnitsIn(new.bag, d) + WornCount(new, d)
    BY DEF Tallied
  <2>1. made[d] = UnitsIn(b.bag, d) + WornCount(b, d) /\ made[d] \in Int BY <1>0 DEF Tallied
  <2>2. WornCount(new, d) = WornCount(b, d) BY <1>2 DEF WornCount
  <2>3. WornCount(b, d) \in Nat /\ UnitsIn(b.bag, d) \in Int
    <3>1. WornCount(b, d) \in Nat BY ItemsAssumption, FS_Subset, FS_CardinalityType DEF WornCount
    <3> DEFINE old == b.bag
    <3>2. old \in [1 .. BagSlots -> Stack] BY <1>0 DEF ShelfFits, Bag
    <3> HIDE DEF old
    <3> QED BY <3>1, <3>2, UnitsAreIntegers DEF old
  <2>4. CASE d = st.def
    <3>1. UnitsIn(new.bag, d) = UnitsIn(b.bag, d) - count BY <1>2, <2>4
    <3> QED BY <2>1, <2>2, <2>3, <2>4, <3>1
  <2>5. CASE d # st.def
    <3>1. UnitsIn(new.bag, d) = UnitsIn(b.bag, d) BY <1>2, <2>5
    <3> QED BY <2>1, <2>2, <2>3, <2>5, <3>1
  <2> QED BY <2>4, <2>5
<1> QED BY <1>2, <1>3, <1>4 DEF BagIsSound, BagFits, new

(* An item is put on: one unit leaves the bag, its stack's copy is worn.    *)
LEMMA ItemPutOn ==
  ASSUME NEW last \in Nat, NEW b, NEW made, BagIsSound(b, last, made),
         NEW i \in 1 .. BagSlots, b.bag[i].guid # 0, NEW s \in EquipSlots, b.worn[s].guid = 0,
         s \in ItemTable[b.bag[i].def].slots
  PROVE  LET after == [Taken(b, i, 1) EXCEPT !.worn[s] = b.bag[i]]
         IN BagIsSound(after, last, made)
<1> DEFINE st == b.bag[i]
           new == Taken(b, i, 1)
           after == [new EXCEPT !.worn[s] = st]
<1>0. /\ ShelfFits(b, last) /\ GearFits(b, last) /\ BagFits(b, last) /\ Tallied(b, made)
      /\ b.worn \in [EquipSlots -> Stack] /\ b.bag \in [1 .. BagSlots -> Stack]
  BY DEF BagIsSound, BagFits, ShelfFits, Bag
<1>1. /\ st \in Stack /\ st.def \in DOMAIN ItemTable /\ st.n \in Int /\ st.guid # 0 /\ StackFits(st, last)
      /\ ItemTable[st.def].stack = 1 => st.n = 1
  BY <1>0, SlotHolds
<1>2. /\ ShelfFits(new, last) /\ new.worn = b.worn
      /\ (\A d \in DOMAIN ItemTable : (d # st.def => UnitsIn(new.bag, d) = UnitsIn(b.bag, d)))
      /\ (\A d \in DOMAIN ItemTable : (d = st.def /\ 1 <= st.n => UnitsIn(new.bag, d) = UnitsIn(b.bag, d) - 1))
      /\ \A j \in 1 .. BagSlots : j # i => new.bag[j] = b.bag[j]
      /\ \/ new.bag[i] = EmptyStack
         \/ new.bag[i].guid = st.guid /\ new.bag[i].def = st.def /\ st.n > 1
  BY <1>0, TakenFits
<1> HIDE DEF new
<1>3. /\ after.bag = new.bag /\ after.free = new.free /\ after.next = new.next
      /\ after.worn = [b.worn EXCEPT ![s] = st] /\ after \in Bag
  <2>1. new \in Bag BY <1>2 DEF ShelfFits
  <2>2. after.bag = new.bag /\ after.free = new.free /\ after.next = new.next /\ after.worn = [new.worn EXCEPT ![s] = st]
    BY <2>1 DEF Bag
  <2>3. after \in Bag
    <3> HIDE DEF st
    <3> QED BY <1>1, <2>1 DEF Bag
  <2> QED BY <1>2, <2>2, <2>3
<1> HIDE DEF after
<1>4. after.worn[s] = st /\ \A t \in EquipSlots \ {s} : after.worn[t] = b.worn[t] BY <1>0, <1>3
<1>5. ShelfFits(after, last) BY <1>2, <1>3 DEF ShelfFits
<1>6. EmptyStack.guid = 0 BY DEF EmptyStack
<1>7. \A t \in EquipSlots : b.worn[t].guid # 0 => Copies(b.worn[t], st) BY <1>0 DEF GearFits
<1>8. GearFits(after, last)
  <2>1. ASSUME NEW t \in EquipSlots, after.worn[t].guid # 0
        PROVE  /\ ItemTable[after.worn[t].def].slots # {}
               /\ \A j \in 1 .. BagSlots : Copies(after.worn[t], after.bag[j])
               /\ \A r \in EquipSlots \ {t} : Copies(after.worn[t], after.worn[r])
    <3>1. CASE t = s
      <4>1. ASSUME NEW j \in 1 .. BagSlots PROVE Copies(after.worn[t], after.bag[j])
        <5>1. CASE j = i
          <6>1. st.n > 1 => ItemTable[st.def].stack # 1 BY <1>1
          <6> QED BY <1>1, <1>2, <1>3, <1>4, <1>6, <3>1, <5>1, <6>1 DEF Copies
        <5>2. CASE j # i
          <6>1. b.bag[j].guid # st.guid BY <1>0, <1>1, <5>2 DEF ShelfFits
          <6> QED BY <1>2, <1>3, <1>4, <3>1, <5>2, <6>1 DEF Copies
        <5> QED BY <5>1, <5>2
      <4>2. ASSUME NEW r \in EquipSlots \ {t} PROVE Copies(after.worn[t], after.worn[r])
        BY <1>1, <1>4, <1>7, <3>1 DEF Copies
      <4> QED BY <1>4, <3>1, <4>1, <4>2
    <3>2. CASE t # s
      <4>1. after.worn[t] = b.worn[t] /\ b.worn[t].guid # 0 BY <1>4, <2>1, <3>2
      <4>2. /\ ItemTable[b.worn[t].def].slots # {}
            /\ \A j \in 1 .. BagSlots : Copies(b.worn[t], b.bag[j])
            /\ \A r \in EquipSlots \ {t} : Copies(b.worn[t], b.worn[r])
        BY <1>0, <4>1 DEF GearFits
      <4>3. ASSUME NEW j \in 1 .. BagSlots PROVE Copies(b.worn[t], after.bag[j])
        BY <1>2, <1>3, <1>6, <4>1, <4>2 DEF Copies
      <4>4. ASSUME NEW r \in EquipSlots \ {t} PROVE Copies(b.worn[t], after.worn[r])
        BY <1>4, <1>7, <4>1, <4>2
      <4> QED BY <4>1, <4>2, <4>3, <4>4
    <3> QED BY <3>1, <3>2
  <2> QED BY <1>0, <1>1, <1>4, <2>1 DEF GearFits
<1>9. Tallied(after, made)
  <2> SUFFICES ASSUME NEW d \in DOMAIN ItemTable, SingleUnit(d)
               PROVE  made[d] = UnitsIn(after.bag, d) + WornCount(after, d)
    BY DEF Tallied
  <2>1. made[d] = UnitsIn(b.bag, d) + WornCount(b, d) BY <1>0 DEF Tallied
  <2>2. /\ WornCount(b, d) \in Nat
        /\ WornCount(after, d) = WornCount(b, d) + (IF after.worn[s].def = d THEN 1 ELSE 0)
                                                 - (IF b.worn[s].def = d THEN 1 ELSE 0)
    <3>1. s \in EquipSlots /\ \A t \in EquipSlots \ {s} : after.worn[t] = b.worn[t] BY <1>4
    <3> HIDE DEF st
    <3> QED BY <3>1, WornIsCounted
  <2>3. b.worn[s].def # d BY <1>0, EmptyFits DEF GearFits, StackFits
  <2>4. UnitsIn(b.bag, d) \in Int
    <3> DEFINE old == b.bag
    <3>1. old \in [1 .. BagSlots -> Stack] BY <1>0
    <3> HIDE DEF old
    <3> QED BY <3>1, UnitsAreIntegers DEF old
  <2>5. CASE d = st.def
    <3>1. st.n = 1 BY <1>1, <2>5 DEF SingleUnit
    <3>2. UnitsIn(after.bag, d) = UnitsIn(b.bag, d) - 1 /\ WornCount(after, d) = WornCount(b, d) + 1
      BY <1>2, <1>3, <1>4, <2>2, <2>3, <2>5, <3>1
    <3> QED BY <2>1, <2>2, <2>4, <3>2
  <2>6. CASE d # st.def
    <3>1. UnitsIn(after.bag, d) = UnitsIn(b.bag, d) /\ WornCount(after, d) = WornCount(b, d)
      BY <1>2, <1>3, <1>4, <2>2, <2>3, <2>6
    <3> QED BY <2>1, <3>1
  <2> QED BY <2>5, <2>6
<1> QED BY <1>5, <1>8, <1>9 DEF BagIsSound, BagFits, after, new

(* A worn slot is emptied, or what is in it wears out.                      *)
LEMMA WornChanges ==
  ASSUME NEW last \in Nat, NEW b, BagFits(b, last), NEW s \in EquipSlots, NEW st,
         st = EmptyStack \/ (/\ st.guid = b.worn[s].guid /\ st.def = b.worn[s].def /\ st.guid # 0
                             /\ StackFits(st, last))
  PROVE  LET after == [b EXCEPT !.worn = [b.worn EXCEPT ![s] = st]]
         IN /\ BagFits(after, last) /\ after.bag = b.bag
            /\ after.worn[s] = st /\ \A t \in EquipSlots \ {s} : after.worn[t] = b.worn[t]
<1> DEFINE worn == [b.worn EXCEPT ![s] = st]
           after == [b EXCEPT !.worn = worn]
<1>0. /\ ShelfFits(b, last) /\ GearFits(b, last) /\ b \in Bag /\ b.worn \in [EquipSlots -> Stack]
  BY DEF BagFits, ShelfFits, Bag
<1>1. StackFits(st, last) /\ st \in Stack /\ EmptyStack.guid = 0 BY EmptyFits DEF StackFits
<1>2. /\ worn \in [EquipSlots -> Stack] /\ worn[s] = st /\ \A t \in EquipSlots \ {s} : worn[t] = b.worn[t]
  BY <1>0, <1>1
<1> HIDE DEF worn
<1>3. /\ after.bag = b.bag /\ after.free = b.free /\ after.next = b.next /\ after.worn = worn /\ after \in Bag
  BY <1>0, <1>2 DEF Bag
<1> HIDE DEF after
<1>4. \A t \in EquipSlots : worn[t].guid # 0 => worn[t].guid = b.worn[t].guid /\ worn[t].def = b.worn[t].def
  BY <1>1, <1>2
<1>5. GearFits(after, last)
  <2>1. ASSUME NEW t \in EquipSlots, worn[t].guid # 0
        PROVE  /\ ItemTable[worn[t].def].slots # {}
               /\ \A j \in 1 .. BagSlots : Copies(worn[t], b.bag[j])
               /\ \A r \in EquipSlots \ {t} : Copies(worn[t], worn[r])
    <3>1. b.worn[t].guid # 0 /\ worn[t].guid = b.worn[t].guid /\ worn[t].def = b.worn[t].def
      BY <1>4, <2>1
    <3>2. /\ ItemTable[b.worn[t].def].slots # {}
          /\ \A j \in 1 .. BagSlots : Copies(b.worn[t], b.bag[j])
          /\ \A r \in EquipSlots \ {t} : Copies(b.worn[t], b.worn[r])
      BY <1>0, <3>1 DEF GearFits
    <3>3. ASSUME NEW r \in EquipSlots \ {t} PROVE Copies(worn[t], worn[r])
      BY <1>4, <2>1, <3>1, <3>2 DEF Copies
    <3> QED BY <3>1, <3>2, <3>3 DEF Copies
  <2> QED BY <1>0, <1>1, <1>2, <1>3, <2>1 DEF GearFits
<1> QED BY <1>0, <1>2, <1>3, <1>5 DEF BagFits, after, worn, ShelfFits

LEMMA ItemWearsOut ==
  ASSUME NEW last \in Nat, NEW b, NEW made, BagIsSound(b, last, made), NEW s \in EquipSlots,
         b.worn[s].guid # 0, NEW wear \in Nat
  PROVE  LET after == [b EXCEPT !.worn[s].wear = wear]
         IN BagIsSound(after, last, made)
<1> DEFINE st == [b.worn[s] EXCEPT !.wear = wear]
           after == [b EXCEPT !.worn = [b.worn EXCEPT ![s] = st]]
<1>0. BagFits(b, last) /\ Tallied(b, made) /\ b \in Bag /\ b.worn \in [EquipSlots -> Stack]
  BY DEF BagIsSound, BagFits, ShelfFits, Bag
<1>1. /\ b.worn[s] \in Stack /\ StackFits(b.worn[s], last) BY <1>0, WornSlotHolds
<1>2. /\ st \in Stack /\ st.guid = b.worn[s].guid /\ st.def = b.worn[s].def /\ st.n = b.worn[s].n /\ st.guid # 0
  BY <1>1 DEF Stack
<1>3. [b EXCEPT !.worn[s].wear = wear] = after BY <1>0 DEF Bag
<1> HIDE DEF st
<1>4. /\ BagFits(after, last) /\ after.bag = b.bag
      /\ after.worn[s] = st /\ \A t \in EquipSlots \ {s} : after.worn[t] = b.worn[t]
  BY <1>0, <1>1, <1>2, WornChanges DEF StackFits
<1> HIDE DEF after
<1>5. Tallied(after, made) BY <1>0, <1>2, <1>4 DEF Tallied, WornCount
<1> QED BY <1>3, <1>4, <1>5 DEF BagIsSound

(* An item is taken off: it goes back to the bag, or what the bag still     *)
(* holds of it is all that is left.                                         *)
LEMMA ItemTakenOff ==
  ASSUME NEW last \in Nat, NEW b, NEW made, BagIsSound(b, last, made), NEW s \in EquipSlots,
         b.worn[s].guid # 0, Find(b, b.worn[s].guid) # {} \/ FreeSlot(b) # 0
  PROVE  LET st == b.worn[s]
             held == Find(b, st.guid) # {}
             after == [(IF held THEN b ELSE Placed(b, st)) EXCEPT !.worn[s] = EmptyStack]
         IN BagIsSound(after, last, made)
<1> DEFINE st == b.worn[s]
           held == Find(b, st.guid) # {}
           bare == [b EXCEPT !.worn = [b.worn EXCEPT ![s] = EmptyStack]]
           after == IF held THEN bare ELSE Placed(bare, st)
<1>0. /\ BagFits(b, last) /\ Tallied(b, made) /\ b \in Bag /\ ShelfFits(b, last) /\ GearFits(b, last)
      /\ b.bag \in [1 .. BagSlots -> Stack]
  BY DEF BagIsSound, BagFits, ShelfFits, Bag
<1>1. /\ st \in Stack /\ StackFits(st, last) /\ st.def \in DOMAIN ItemTable /\ st.n \in Int /\ st.guid # 0
      /\ ItemTable[st.def].stack = 1 => st.n = 1
      /\ ItemTable[st.def].slots # {}
  BY <1>0, WornSlotHolds
<1>2. \A i \in 1 .. BagSlots : b.bag[i].guid = st.guid => i \in Find(b, st.guid) /\ ItemTable[st.def].stack # 1
  <2>1. ASSUME NEW i \in 1 .. BagSlots, b.bag[i].guid = st.guid
        PROVE  i \in Find(b, st.guid) /\ ItemTable[st.def].stack # 1
    BY <1>0, <1>1, <2>1 DEF Copies, Find, GearFits
  <2> QED BY <2>1
<1>3. held => ItemTable[st.def].stack # 1
  <2>1. ASSUME held PROVE ItemTable[st.def].stack # 1
    <3>1. PICK i \in Find(b, st.guid) : TRUE BY <2>1
    <3> QED BY <1>2 DEF Find
  <2> QED BY <2>1
<1>4. /\ BagFits(bare, last) /\ bare.bag = b.bag
      /\ bare.worn[s] = EmptyStack /\ \A t \in EquipSlots \ {s} : bare.worn[t] = b.worn[t]
  BY <1>0, WornChanges
<1>5. [(IF held THEN b ELSE Placed(b, st)) EXCEPT !.worn[s] = EmptyStack] = after
  <2>1. CASE held
    <3> HIDE DEF held
    <3> QED BY <1>0, <2>1 DEF Bag
  <2>2. CASE ~held
    <3>1. /\ bare.free = b.free /\ bare.next = b.next /\ bare.bag = b.bag
          /\ bare.worn = [b.worn EXCEPT ![s] = EmptyStack] /\ FreeSlot(bare) = FreeSlot(b)
      BY <1>0 DEF Bag, FreeSlot
    <3> DEFINE i == FreeSlot(b)
               x == [b.bag EXCEPT ![i] = st]
               y == IF b.free # <<>> THEN Front(b.free) ELSE b.free
               z == IF b.free = <<>> THEN b.next + 1 ELSE b.next
               w == [b.worn EXCEPT ![s] = EmptyStack]
               new == [b EXCEPT !.bag = x, !.free = y, !.next = z]
    <3>2. Placed(b, st) = new
      <4>1. Placed(b, st) = [b EXCEPT !.bag[i] = st, !.free = y, !.next = z] BY DEF Placed
      <4> HIDE DEF i, y, z, st
      <4> QED BY <1>0, <4>1 DEF Bag
    <3>3. Placed(bare, st) = [bare EXCEPT !.bag = x, !.free = y, !.next = z]
      <4>0. bare \in Bag BY <1>4 DEF BagFits, ShelfFits
      <4>1. Placed(bare, st) = [bare EXCEPT !.bag[i] = st, !.free = y, !.next = z]
        <5> HIDE DEF bare, i
        <5> QED BY <3>1 DEF Placed, i
      <4> HIDE DEF i, y, z, st, bare
      <4> QED BY <3>1, <4>0, <4>1 DEF Bag
    <3>4. [new EXCEPT !.worn[s] = EmptyStack] = [new EXCEPT !.worn = w]
      <4>1. new.worn = b.worn /\ DOMAIN new = DOMAIN b /\ "worn" \in DOMAIN b
        <5> HIDE DEF x, y, z
        <5> QED BY <1>0 DEF Bag
      <4> HIDE DEF new
      <4> QED BY <4>1
    <3> HIDE DEF x, y, z, w
    <3>5. [new EXCEPT !.worn = w] = [bare EXCEPT !.bag = x, !.free = y, !.next = z]
      BY <1>0 DEF Bag, w
    <3> HIDE DEF held, new, bare
    <3> QED BY <2>2, <3>2, <3>3, <3>4, <3>5
  <2> QED BY <2>1, <2>2
<1> HIDE DEF bare
<1>6. /\ BagFits(after, last) /\ after.worn = bare.worn
      /\ after.worn[s] = EmptyStack /\ (\A t \in EquipSlots \ {s} : after.worn[t] = b.worn[t])
      /\ \A d \in DOMAIN ItemTable : UnitsIn(after.bag, d) = UnitsIn(b.bag, d) + (IF held THEN 0 ELSE UnitsOf(st, d))
  <2>1. CASE held
    <3>1. ASSUME NEW d \in DOMAIN ItemTable PROVE UnitsIn(b.bag, d) \in Int
      <4> DEFINE old == b.bag
      <4>1. old \in [1 .. BagSlots -> Stack] BY <1>0
      <4> HIDE DEF old
      <4> QED BY <4>1, UnitsAreIntegers DEF old
    <3>2. after = bare BY <2>1
    <3> HIDE DEF after, held
    <3> QED BY <1>4, <2>1, <3>1, <3>2
  <2>2. CASE ~held
    <3>1. /\ FreeSlot(b) # 0 /\ \A i \in 1 .. BagSlots : bare.bag[i].guid # st.guid
      BY <1>2, <1>4, <2>2
    <3>2. FreeSlot(bare) # 0 BY <1>0, <3>1 DEF Bag, FreeSlot, bare
    <3> DEFINE put == Placed(bare, st)
    <3>3. /\ ShelfFits(put, last) /\ put.worn = bare.worn
          /\ \A d \in DOMAIN ItemTable : UnitsIn(put.bag, d) = UnitsIn(bare.bag, d) + UnitsOf(st, d)
          /\ \A i \in 1 .. BagSlots : put.bag[i] = st \/ put.bag[i] = bare.bag[i]
      <4> HIDE DEF st
      <4> QED BY <1>1, <1>4, <3>1, <3>2, PlacedFits DEF BagFits
    <3> HIDE DEF put
    <3>4. GearFits(put, last)
      <4>0. GearFits(bare, last) /\ EmptyStack.guid = 0 BY <1>4, EmptyFits DEF BagFits
      <4>1. ASSUME NEW t \in EquipSlots, bare.worn[t].guid # 0
            PROVE  \A i \in 1 .. BagSlots : Copies(bare.worn[t], put.bag[i])
        <5>1. Copies(bare.worn[t], st) /\ \A i \in 1 .. BagSlots : Copies(bare.worn[t], bare.bag[i])
          BY <1>0, <1>4, <4>0, <4>1 DEF GearFits
        <5> QED BY <3>3, <5>1
      <4> QED BY <3>3, <4>0, <4>1 DEF GearFits
    <3>5. after = put BY <2>2 DEF put
    <3> HIDE DEF after, held
    <3> QED BY <1>4, <2>2, <3>3, <3>4, <3>5 DEF BagFits
  <2> QED BY <2>1, <2>2
<1> HIDE DEF after, held
<1>7. Tallied(after, made)
  <2> SUFFICES ASSUME NEW d \in DOMAIN ItemTable, SingleUnit(d)
               PROVE  made[d] = UnitsIn(after.bag, d) + WornCount(after, d)
    BY DEF Tallied
  <2>1. made[d] = UnitsIn(b.bag, d) + WornCount(b, d) BY <1>0 DEF Tallied
  <2>2. /\ WornCount(b, d) \in Nat
        /\ WornCount(after, d) = WornCount(b, d) + (IF after.worn[s].def = d THEN 1 ELSE 0)
                                                 - (IF b.worn[s].def = d THEN 1 ELSE 0)
    <3>1. s \in EquipSlots /\ \A t \in EquipSlots \ {s} : after.worn[t] = b.worn[t] BY <1>6
    <3> HIDE DEF st
    <3>2. WornCount(b, d) \in Nat BY <3>1, WornIsCounted
    <3> QED BY <3>1, <3>2, WornIsCounted
  <2>3. after.worn[s].def # d BY <1>6, EmptyFits
  <2>4. UnitsIn(b.bag, d) \in Int
    <3> DEFINE old == b.bag
    <3>1. old \in [1 .. BagSlots -> Stack] BY <1>0
    <3> HIDE DEF old
    <3> QED BY <3>1, UnitsAreIntegers DEF old
  <2>5. CASE d = st.def
    <3>1. st.n = 1 /\ ~held BY <1>1, <1>3, <2>5 DEF SingleUnit
    <3>2. UnitsIn(after.bag, d) = UnitsIn(b.bag, d) + 1 /\ WornCount(after, d) = WornCount(b, d) - 1
      BY <1>6, <2>2, <2>3, <2>5, <3>1 DEF UnitsOf
    <3> QED BY <2>1, <2>2, <2>4, <3>2
  <2>6. CASE d # st.def
    <3>1. UnitsIn(after.bag, d) = UnitsIn(b.bag, d) /\ WornCount(after, d) = WornCount(b, d)
      BY <1>6, <2>2, <2>3, <2>4, <2>6 DEF UnitsOf
    <3> QED BY <2>1, <3>1
  <2> QED BY <2>5, <2>6
<1> QED BY <1>5, <1>6, <1>7 DEF BagIsSound, held

BagsIInv ==
  /\ itGuid \in Nat /\ DOMAIN itBags \subseteq Owners /\ itMade \in [Owners -> [DOMAIN ItemTable -> Int]]
  /\ \A p \in Owners : BagIsSound(BagOf(p), itGuid, itMade[p])
Sole(p) == \A c \in DOMAIN roChars : roChars[c].owner = p => c = roByPlayer[p]
(* A player who plays nobody has nothing on.                                *)
GearIInv ==
  /\ \A p \in DOMAIN roByPlayer : Sole(p) => roChars[roByPlayer[p]].gear = GearOf(BagOf(p))
  /\ \A p \in Owners \ DOMAIN roByPlayer : \A s \in EquipSlots : BagOf(p).worn[s].guid = 0
CharactersIInv == RolePart /\ BagsIInv /\ GearIInv

(* One player's bag becomes another.                                        *)
BagBecomes(p, new) ==
  /\ DOMAIN itBags' = DOMAIN itBags \cup {p}
  /\ \A q \in DOMAIN itBags \cup {p} : itBags'[q] = IF q = p THEN new ELSE itBags[q]
LEMMA BagReplaced ==
  ASSUME BagsIInv, NEW p \in Owners, NEW new, BagBecomes(p, new), itGuid' \in Nat, itGuid <= itGuid',
         itMade' \in [Owners -> [DOMAIN ItemTable -> Int]],
         \A q \in Owners \ {p} : itMade'[q] = itMade[q], BagIsSound(new, itGuid', itMade'[p])
  PROVE  BagsIInv' /\ BagOf(p)' = new /\ \A q : q # p => BagOf(q)' = BagOf(q)
<1>1. BagOf(p)' = new /\ \A q : q # p => BagOf(q)' = BagOf(q) BY DEF BagOf, BagBecomes
<1>2. ASSUME NEW q \in Owners \ {p} PROVE BagIsSound(BagOf(q), itGuid', itMade[q])
  <2> DEFINE b == BagOf(q)
  <2>1. BagIsSound(b, itGuid, itMade[q]) /\ itGuid \in Nat BY DEF BagsIInv
  <2> HIDE DEF b
  <2>2. BagFits(b, itGuid) BY <2>1 DEF BagIsSound
  <2>3. BagFits(b, itGuid') BY <2>1, <2>2, LaterFits DEF BagFits, ShelfFits, GearFits
  <2> QED BY <2>1, <2>3 DEF BagIsSound, b
<1>3. DOMAIN itBags' \subseteq Owners BY DEF BagBecomes, BagsIInv
<1> QED BY <1>1, <1>2, <1>3 DEF BagsIInv

(* What is worn and who plays whom are as they were.                        *)
LEMMA GearAsBefore ==
  ASSUME GearIInv, RolePart, GearKept, \A p : BagOf(p)'.worn = BagOf(p).worn
  PROVE  GearIInv'
<1>1. \A p \in DOMAIN roByPlayer : roByPlayer[p] \in DOMAIN roChars BY DEF RolePart, OwnersIInv
<1>2. \A p : GearOf(BagOf(p)') = GearOf(BagOf(p)) BY GearIsOfTheWorn
<1>3. ASSUME NEW p \in DOMAIN roByPlayer', Sole(p)' PROVE roChars'[roByPlayer'[p]].gear = GearOf(BagOf(p)')
  BY <1>1, <1>2, <1>3 DEF GearIInv, GearKept, Sole
<1> QED BY <1>3 DEF GearIInv, GearKept

(* A player's gear changes, and with it the character he plays.             *)
LEMMA GearFollows ==
  ASSUME CharactersIInv, NEW p \in DOMAIN roByPlayer, NEW new, BagBecomes(p, new),
         BagIsSound(new, itGuid, itMade[p]), roChars' = Geared(p, new), p \in Owners,
         UNCHANGED <<roByPlayer, roRetry, roStored, roFailed, roGained, roDeaths, itGuid, itMade>>
  PROVE  CharactersIInv'
<1>0. RolePart /\ BagsIInv /\ GearIInv BY DEF CharactersIInv
<1>1. BagsIInv' /\ BagOf(p)' = new /\ \A q : q # p => BagOf(q)' = BagOf(q)
  BY <1>0, BagReplaced DEF BagsIInv
<1>2. /\ RolePart' /\ DOMAIN roChars' = DOMAIN roChars
      /\ \A c \in DOMAIN roChars :
            /\ roChars'[c].owner = roChars[c].owner
            /\ roChars'[c].gear = IF p \in DOMAIN roByPlayer /\ c = roByPlayer[p] THEN GearOf(new)
                                                                                ELSE roChars[c].gear
  BY <1>0, GearIsAnInteger, RolesAreGeared DEF BagIsSound, BagFits
<1>3. \A q \in DOMAIN roByPlayer : roByPlayer[q] \in DOMAIN roChars /\ roChars[roByPlayer[q]].owner = q
  BY <1>0 DEF RolePart, OwnersIInv
<1>4. ASSUME NEW q \in DOMAIN roByPlayer', Sole(q)' PROVE roChars'[roByPlayer'[q]].gear = GearOf(BagOf(q)')
  <2>1. CASE q = p BY <1>1, <1>2, <1>3, <2>1
  <2>2. CASE q # p BY <1>0, <1>1, <1>2, <1>3, <1>4, <2>2 DEF GearIInv, Sole
  <2> QED BY <2>1, <2>2
<1>5. GearIInv' BY <1>0, <1>1, <1>4 DEF GearIInv
<1> QED BY <1>1, <1>2, <1>5 DEF CharactersIInv

LEMMA PlayerIsAnOwner ==
  ASSUME RolePart
  PROVE  DOMAIN roByPlayer \subseteq Owners
<1>1. ASSUME NEW p \in DOMAIN roByPlayer PROVE p \in Owners
  <2>1. roByPlayer[p] \in DOMAIN roChars /\ roChars[roByPlayer[p]].owner = p
    BY DEF RolePart, OwnersIInv
  <2> QED BY <2>1 DEF Character, RolePart, RolesIInv, Lives, Healthy
<1> QED BY <1>1

LEMMA CreatedWithoutGear ==
  ASSUME CharactersIInv, NEW p \in Owners, NEW c \in CharIds, LoadOrCreate(p, c)
  PROVE  CharactersIInv'
<1> DEFINE fresh == [owner |-> p, level |-> 1, exp |-> 0, base |-> StartingPrimary, gear |-> 0,
                     hp |-> 0, mp |-> 0, dirty |-> TRUE, dead |-> FALSE]
           new == [fresh EXCEPT !.hp = MaxHpOf(fresh), !.mp = MaxMpOf(fresh)]
<1>0. RolePart /\ BagsIInv /\ GearIInv BY DEF CharactersIInv
<1>1. /\ roChars' = Put(roChars, c, new) /\ roByPlayer' = Put(roByPlayer, p, c) /\ c \notin DOMAIN roChars
      /\ UNCHANGED itVars
  BY DEF LoadOrCreate, Has
<1>2. new.owner = p /\ new.gear = 0 OBVIOUS
<1> HIDE DEF new
<1>3. /\ DOMAIN roChars' = DOMAIN roChars \cup {c} /\ roChars'[c] = new
      /\ \A x \in DOMAIN roChars : roChars'[x] = roChars[x]
      /\ DOMAIN roByPlayer' = DOMAIN roByPlayer \cup {p} /\ roByPlayer'[p] = c
      /\ \A q \in DOMAIN roByPlayer : q # p => roByPlayer'[q] = roByPlayer[q]
  BY <1>1 DEF Put
<1>4. BagsIInv' /\ \A q : BagOf(q)' = BagOf(q) BY <1>0, <1>1 DEF BagsIInv, BagOf, itVars
<1>5. \A q \in DOMAIN roByPlayer : roByPlayer[q] \in DOMAIN roChars /\ roChars[roByPlayer[q]].owner = q
  BY <1>0 DEF RolePart, OwnersIInv
<1>6. ASSUME NEW q \in DOMAIN roByPlayer', Sole(q)' PROVE roChars'[roByPlayer'[q]].gear = GearOf(BagOf(q)')
  <2>1. \A x \in DOMAIN roChars' : roChars'[x].owner = q => x = roByPlayer'[q] BY <1>6 DEF Sole
  <2>2. CASE q = p
    <3>1. \A s \in EquipSlots : BagOf(p).worn[s].guid = 0
      BY <1>0, <1>1, <1>3, <1>5, <2>1, <2>2 DEF GearIInv
    <3> QED BY <1>2, <1>3, <1>4, <2>2, <3>1, NothingWornGivesNothing
  <2>3. CASE q # p BY <1>0, <1>3, <1>4, <1>5, <2>1, <2>3 DEF GearIInv, Sole
  <2> QED BY <2>2, <2>3
<1>7. GearIInv' BY <1>0, <1>3, <1>4, <1>6 DEF GearIInv
<1> QED BY <1>0, <1>4, <1>7, CharacterIsCreated DEF CharactersIInv

LEMMA RolesStep ==
  ASSUME CharactersIInv, RolesNext
  PROVE  CharactersIInv'
<1>0. RolePart /\ BagsIInv /\ GearIInv BY DEF CharactersIInv
<1>1. ASSUME RolePart' /\ GearKept, UNCHANGED itVars PROVE CharactersIInv'
  <2>1. BagsIInv' /\ \A q : BagOf(q)' = BagOf(q) BY <1>0, <1>1 DEF BagsIInv, BagOf, itVars
  <2> QED BY <1>0, <1>1, <2>1, GearAsBefore DEF CharactersIInv
<1>2. ASSUME NEW c \in CharIds, NEW delta \in HpDeltas, RoleModifyHp(c, delta) PROVE CharactersIInv'
  BY <1>0, <1>1, <1>2, HpIsModified DEF RoleModifyHp
<1>3. ASSUME NEW c \in CharIds, NEW delta \in MpDeltas, ModifyMp(c, delta) PROVE CharactersIInv'
  BY <1>0, <1>1, <1>3, MpIsModified DEF ModifyMp
<1>4. ASSUME NEW c \in CharIds, NEW amount \in ExpGrants, AddExp(c, amount) PROVE CharactersIInv'
  BY <1>0, <1>1, <1>4, ExpIsAdded DEF AddExp
<1>5. ASSUME NEW c \in CharIds, Save(c) PROVE CharactersIInv'
  BY <1>0, <1>1, <1>5, CharacterIsSaved DEF Save
<1>6. ASSUME NEW refused, FlushRetries(refused) PROVE CharactersIInv'
  BY <1>0, <1>1, <1>6, RetriesAreFlushed DEF FlushRetries
<1>7. ASSUME NEW p \in Owners, NEW c \in CharIds, LoadOrCreate(p, c) PROVE CharactersIInv'
  BY <1>7, CreatedWithoutGear
<1> QED BY <1>2, <1>3, <1>4, <1>5, <1>6, <1>7 DEF RolesNext

LEMMA ItemsStep ==
  ASSUME CharactersIInv, ItemsNext
  PROVE  CharactersIInv'
<1>0. /\ RolePart /\ BagsIInv /\ GearIInv /\ itGuid \in Nat /\ itMade \in [Owners -> [DOMAIN ItemTable -> Int]]
      /\ \A p \in Owners : BagIsSound(BagOf(p), itGuid, itMade[p])
      /\ \A p \in DOMAIN itBags : p \in Owners /\ BagOf(p) = itBags[p]
      /\ DOMAIN roByPlayer \subseteq Owners /\ ItemCounts \cup Damages \subseteq Nat
  BY CharactersAssumption, PlayerIsAnOwner DEF CharactersIInv, BagsIInv, BagOf
<1>1. ASSUME UNCHANGED roVars, BagsIInv', \A p : BagOf(p)'.worn = BagOf(p).worn PROVE CharactersIInv'
  <2>1. RolePart' /\ GearKept
    BY <1>0, <1>1 DEF roVars, RolePart, RolesIInv, OwnersIInv, SavesIInv, GearKept
  <2> QED BY <1>0, <1>1, <2>1, GearAsBefore DEF CharactersIInv
<1>2. ASSUME NEW files, LoadDir(files) PROVE CharactersIInv'
  <2>1. UNCHANGED <<roVars, itBags, itGuid, itMade>> BY <1>2 DEF LoadDir
  <2> QED BY <1>0, <1>1, <2>1 DEF BagsIInv, BagOf
<1>3. ASSUME NEW p \in Owners, NEW d \in DOMAIN ItemTable, NEW count \in ItemCounts, AddItem(p, d, count)
      PROVE  CharactersIInv'
  <2> DEFINE b == BagOf(p)
             s == AddLoop(b, d, count)
             made == [itMade[p] EXCEPT ![d] = @ + s.added]
  <2>1. /\ itBags' = Put(itBags, p, s.bag) /\ itGuid' = s.guid /\ itMade' = [itMade EXCEPT ![p][d] = @ + s.added]
        /\ UNCHANGED roVars
    BY <1>3 DEF AddItem
  <2>2. BagFits(b, itGuid) /\ Tallied(b, itMade[p]) /\ count \in Nat BY <1>0 DEF BagIsSound
  <2> HIDE DEF b
  <2>3. s \in AddStates(b, itGuid) \cap AddCounted(b, d) BY <1>0, <2>2, UnitsAreAdded
  <2> HIDE DEF s
  <2>4. /\ s.guid \in Nat /\ s.added \in Int /\ BagFits(s.bag, s.guid) /\ s.bag.worn = b.worn /\ itGuid <= s.guid
        /\ \A e \in DOMAIN ItemTable : UnitsIn(s.bag.bag, e) = UnitsIn(b.bag, e) + (IF e = d THEN s.added ELSE 0)
    BY <2>3 DEF AddStates, AddCounted, LoopState
  <2>5. /\ itMade'[p] = made /\ (\A q \in Owners \ {p} : itMade'[q] = itMade[q]) /\ made \in [DOMAIN ItemTable -> Int]
        /\ itMade' \in [Owners -> [DOMAIN ItemTable -> Int]]
    BY <1>0, <2>1, <2>4
  <2>6. Tallied(s.bag, made)
    <3> SUFFICES ASSUME NEW e \in DOMAIN ItemTable, SingleUnit(e)
                 PROVE  made[e] = UnitsIn(s.bag.bag, e) + WornCount(s.bag, e)
      BY DEF Tallied
    <3>1. itMade[p][e] = UnitsIn(b.bag, e) + WornCount(b, e) BY <2>2 DEF Tallied
    <3>2. WornCount(s.bag, e) = WornCount(b, e) BY <2>4 DEF WornCount
    <3>3. WornCount(b, e) \in Nat
      BY ItemsAssumption, FS_Subset, FS_CardinalityType DEF WornCount
    <3>4. UnitsIn(b.bag, e) \in Int
      <4> DEFINE old == b.bag
      <4>1. old \in [1 .. BagSlots -> Stack] BY <2>2 DEF BagFits, ShelfFits, Bag
      <4> HIDE DEF old
      <4> QED BY <4>1, UnitsAreIntegers DEF old
    <3>5. made[e] = itMade[p][e] + (IF e = d THEN s.added ELSE 0)
      <4>1. itMade[p] \in [DOMAIN ItemTable -> Int] BY <1>0
      <4> QED BY <4>1
    <3> HIDE DEF made
    <3> QED BY <2>4, <3>1, <3>2, <3>3, <3>4, <3>5
  <2> HIDE DEF made
  <2>7. BagIsSound(s.bag, itGuid', itMade'[p]) BY <2>1, <2>4, <2>5, <2>6 DEF BagIsSound
  <2>8. BagsIInv' /\ BagOf(p)' = s.bag /\ \A q : q # p => BagOf(q)' = BagOf(q)
    BY <1>0, <2>1, <2>4, <2>5, <2>7, BagReplaced DEF BagBecomes, Put
  <2> QED BY <1>1, <2>1, <2>4, <2>8 DEF b
<1>4. ASSUME NEW p \in Owners, NEW g \in 1 .. itGuid, NEW count \in ItemCounts, RemoveItem(p, g, count)
      PROVE  CharactersIInv'
  <2> DEFINE b == itBags[p]
  <2>1. PICK i \in Find(b, g) :
          /\ count <= b.bag[i].n
          /\ itBags' = [itBags EXCEPT ![p] = Taken(b, i, count)]
          /\ itMade' = [itMade EXCEPT ![p][b.bag[i].def] = @ - count]
    BY <1>4 DEF RemoveItem
  <2>2. p \in DOMAIN itBags /\ UNCHANGED <<roVars, itGuid>> BY <1>4 DEF RemoveItem
  <2>3. i \in 1 .. BagSlots /\ b.bag[i].guid # 0 /\ count \in Nat BY <1>0 DEF Find
  <2>4. BagIsSound(b, itGuid, itMade[p]) /\ itMade[p] \in [DOMAIN ItemTable -> Int] /\ b = BagOf(p)
    BY <1>0, <2>2
  <2> HIDE DEF b
  <2> DEFINE d == b.bag[i].def
             new == Taken(b, i, count)
             made == [itMade[p] EXCEPT ![d] = @ - count]
  <2>5. BagIsSound(new, itGuid, made) /\ new.worn = b.worn
    <3> DEFINE old == itMade[p]
    <3>1. /\ itGuid \in Nat /\ BagIsSound(b, itGuid, old) /\ old \in [DOMAIN ItemTable -> Int]
          /\ i \in 1 .. BagSlots /\ b.bag[i].guid # 0 /\ count \in Nat /\ count <= b.bag[i].n
      BY <1>0, <2>1, <2>3, <2>4
    <3>2. \A e \in DOMAIN ItemTable : made[e] = IF e = b.bag[i].def THEN old[e] - count ELSE old[e]
      BY <3>1
    <3> HIDE DEF made, old
    <3> QED BY <3>1, <3>2, UnitsRemoved
  <2>6. d \in DOMAIN ItemTable BY <2>3, <2>4, SlotHolds DEF BagIsSound
  <2> HIDE DEF d, new
  <2>7. /\ itMade'[p] = made /\ (\A q \in Owners \ {p} : itMade'[q] = itMade[q])
        /\ itMade' \in [Owners -> [DOMAIN ItemTable -> Int]]
    BY <1>0, <2>1, <2>3, <2>6 DEF d
  <2> HIDE DEF made
  <2>8. BagBecomes(p, new) BY <2>1, <2>2 DEF BagBecomes, new
  <2>9. BagsIInv' /\ BagOf(p)' = new /\ \A q : q # p => BagOf(q)' = BagOf(q)
    BY <1>0, <2>2, <2>5, <2>7, <2>8, BagReplaced
  <2>10. \A q : BagOf(q)'.worn = BagOf(q).worn BY <2>4, <2>5, <2>9
  <2> QED BY <1>1, <2>2, <2>9, <2>10
<1>5. ASSUME NEW p \in Owners, NEW g \in 1 .. itGuid, NEW s \in EquipSlots, Equip(p, g, s)
      PROVE  CharactersIInv'
  <2> DEFINE b == itBags[p]
  <2>1. PICK i \in Find(b, g) :
          /\ s \in ItemTable[b.bag[i].def].slots /\ b.worn[s].guid = 0
          /\ itBags' = [itBags EXCEPT ![p] = [Taken(b, i, 1) EXCEPT !.worn[s] = b.bag[i]]]
          /\ roChars' = Geared(p, [Taken(b, i, 1) EXCEPT !.worn[s] = b.bag[i]])
    BY <1>5 DEF Equip
  <2>2. p \in DOMAIN itBags /\ p \in DOMAIN roByPlayer
        /\ UNCHANGED <<roByPlayer, roRetry, roStored, roFailed, roGained, roDeaths, itGuid, itMade>>
    BY <1>5 DEF Equip
  <2>3. i \in 1 .. BagSlots /\ b.bag[i].guid # 0 BY DEF Find
  <2>4. BagIsSound(b, itGuid, itMade[p]) BY <1>0, <2>2
  <2> HIDE DEF b
  <2> DEFINE new == [Taken(b, i, 1) EXCEPT !.worn[s] = b.bag[i]]
  <2>5. BagIsSound(new, itGuid, itMade[p]) BY <1>0, <2>1, <2>3, <2>4, ItemPutOn
  <2>6. itBags' = [itBags EXCEPT ![p] = new] /\ roChars' = Geared(p, new) BY <2>1
  <2> HIDE DEF new
  <2> QED BY <1>0, <2>2, <2>5, <2>6, GearFollows DEF BagBecomes
<1>6. ASSUME NEW p \in Owners, NEW s \in EquipSlots, p \in DOMAIN itBags, itBags[p].worn[s].guid # 0,
             NEW new, BagIsSound(new, itGuid, itMade[p]), itBags' = [itBags EXCEPT ![p] = new],
             roChars' = Geared(p, new),
             UNCHANGED <<roByPlayer, roRetry, roStored, roFailed, roGained, roDeaths, itGuid, itMade>>
      PROVE  CharactersIInv'
  <2>1. BagBecomes(p, new) BY <1>6 DEF BagBecomes
  <2> QED BY <1>0, <1>6, <2>1, GearFollows DEF GearIInv
<1>7. ASSUME NEW p \in Owners, NEW s \in EquipSlots, Unequip(p, s) PROVE CharactersIInv'
  <2> DEFINE b == itBags[p]
             st == b.worn[s]
             held == Find(b, st.guid) # {}
             new == [(IF held THEN b ELSE Placed(b, st)) EXCEPT !.worn[s] = EmptyStack]
  <2>1. /\ p \in DOMAIN itBags /\ b.worn[s].guid # 0 /\ (Find(b, b.worn[s].guid) # {} \/ FreeSlot(b) # 0)
        /\ itBags' = [itBags EXCEPT ![p] = new] /\ roChars' = Geared(p, new)
        /\ UNCHANGED <<roByPlayer, roRetry, roStored, roFailed, roGained, roDeaths, itGuid, itMade>>
    BY <1>7 DEF Unequip
  <2>2. BagIsSound(b, itGuid, itMade[p]) BY <1>0, <2>1
  <2>3. BagIsSound(new, itGuid, itMade[p])
    <3> HIDE DEF b
    <3> QED BY <1>0, <2>1, <2>2, ItemTakenOff
  <2> HIDE DEF new
  <2> QED BY <1>6, <2>1, <2>3
<1>8. ASSUME NEW p \in Owners, NEW s \in EquipSlots, NEW amount \in Damages, DamageDurability(p, s, amount)
      PROVE  CharactersIInv'
  <2> DEFINE b == itBags[p]
             from == b.worn[s].wear
             wear == IF amount >= from THEN 0 ELSE from - amount
             new == [b EXCEPT !.worn[s].wear = wear]
  <2>1. /\ p \in DOMAIN itBags /\ b.worn[s].guid # 0 /\ from > 0
        /\ itBags' = [itBags EXCEPT ![p] = new] /\ roChars' = Geared(p, new)
        /\ UNCHANGED <<roByPlayer, roRetry, roStored, roFailed, roGained, roDeaths, itGuid, itMade>>
    BY <1>8 DEF DamageDurability
  <2>2. BagIsSound(b, itGuid, itMade[p]) /\ b = BagOf(p) BY <1>0, <2>1
  <2>3. wear \in Nat
    <3>1. from \in Int /\ amount \in Nat
      BY <1>0, <2>2 DEF Stack, BagIsSound, BagFits, GearFits, StackFits
    <3> QED BY <3>1
  <2> HIDE DEF wear
  <2>4. BagIsSound(new, itGuid, itMade[p])
    <3> HIDE DEF b
    <3> QED BY <1>0, <2>1, <2>2, <2>3, ItemWearsOut
  <2> HIDE DEF new
  <2> QED BY <1>6, <2>1, <2>4
<1> QED BY <1>2, <1>3, <1>4, <1>5, <1>7, <1>8 DEF ItemsNext

LEMMA CharactersStart == CharactersInit => CharactersIInv
<1> SUFFICES ASSUME CharactersInit PROVE CharactersIInv OBVIOUS
<1>1. /\ roByPlayer = <<>> /\ itBags = <<>> /\ itGuid = 0
      /\ itMade = [p \in Owners |-> [d \in DOMAIN ItemTable |-> 0]]
  BY DEF CharactersInit
<1>2. DOMAIN <<>> = {} /\ 0 \in Nat OBVIOUS
<1>3. \A p : BagOf(p) = NewBag BY <1>1, <1>2 DEF BagOf
<1>4. ASSUME NEW p \in Owners PROVE BagIsSound(BagOf(p), itGuid, itMade[p])
  <2>1. \A d \in DOMAIN ItemTable : itMade[p][d] = 0 BY <1>1
  <2> QED BY <1>1, <1>3, <2>1, NewBagFits DEF BagIsSound, Tallied
<1>5. GearIInv BY <1>1, <1>2, <1>3, NewBagFits, EmptyFits DEF GearIInv
<1> QED BY <1>1, <1>2, <1>4, <1>5, RolesStart DEF CharactersIInv, BagsIInv

LEMMA CharactersSteps == CharactersIInv /\ [CharactersNext]_charVars => CharactersIInv'
<1> SUFFICES ASSUME CharactersIInv, [CharactersNext]_charVars PROVE CharactersIInv' OBVIOUS
<1>1. CASE CharactersNext BY <1>1, RolesStep, ItemsStep DEF CharactersNext
<1>2. CASE UNCHANGED charVars
  <2>1. UNCHANGED roVars /\ UNCHANGED itVars BY <1>2 DEF charVars
  <2>2. BagsIInv' /\ \A p : BagOf(p)' = BagOf(p)
    BY <2>1 DEF CharactersIInv, itVars, BagsIInv, BagOf
  <2>3. GearIInv' BY <2>1, <2>2 DEF CharactersIInv, roVars, GearIInv, Sole
  <2> QED
    BY <2>1, <2>2, <2>3 DEF CharactersIInv, roVars, RolePart, RolesIInv, OwnersIInv, SavesIInv
<1> QED BY <1>1, <1>2

(* The player who plays one character plays the one he is found by.         *)
LEMMA OneIsSole ==
  ASSUME RolePart, NEW p \in DOMAIN roByPlayer, Cardinality({c \in DOMAIN roChars : roChars[c].owner = p}) = 1
  PROVE  Sole(p)
<1> DEFINE S == {c \in DOMAIN roChars : roChars[c].owner = p}
<1>1. PICK x : S = {x} BY FS_Subset, FS_Singleton DEF RolePart, RolesIInv
<1>2. \A c \in S : c = roByPlayer[p] BY <1>1 DEF RolePart, OwnersIInv
<1> QED BY <1>2 DEF Sole

LEMMA CharactersSafe ==
  CharactersIInv => /\ VitalsAreSound /\ LevelsAreEarned /\ SavesAreNotForgotten
                    /\ ItemsAreConserved /\ GearCounts
<1> SUFFICES ASSUME CharactersIInv PROVE /\ VitalsAreSound /\ LevelsAreEarned /\ SavesAreNotForgotten
                                          /\ ItemsAreConserved /\ GearCounts
  OBVIOUS
<1>0. RolePart /\ BagsIInv /\ GearIInv BY DEF CharactersIInv
<1>1. VitalsAreSound
  <2>1. ASSUME NEW c \in DOMAIN roChars
        PROVE  LET ch == roChars[c]
               IN /\ ch.hp \in 0 .. MaxHpOf(ch) /\ ch.mp \in 0 .. MaxMpOf(ch)
                  /\ ch.dead <=> ch.hp = 0
                  /\ roDeaths[c] = (IF ch.dead THEN 1 ELSE 0)
    BY <1>0 DEF RolePart, RolesIInv, Lives, Healthy
  <2> QED BY <2>1 DEF VitalsAreSound
<1>2. LevelsAreEarned
  BY <1>0 DEF LevelsAreEarned, RolePart, RolesIInv, Lives, Earned, SpentOn, Sum
<1>3. SavesAreNotForgotten BY <1>0 DEF SavesAreNotForgotten, RolePart, SavesIInv, ToSet, Members
<1>4. ItemsAreConserved
  <2> SUFFICES ASSUME NEW p \in DOMAIN itBags
               PROVE  LET b == itBags[p]
                          worn(d) == {s \in EquipSlots : b.worn[s].def = d}
                      IN  /\ \A d \in {e \in DOMAIN ItemTable : SingleUnit(e)} :
                                itMade[p][d] = UnitsIn(b.bag, d) + Cardinality(worn(d))
                          /\ \A i, j \in 1..BagSlots :
                                i # j /\ b.bag[i].guid # 0 => b.bag[i].guid # b.bag[j].guid
                          /\ \A i \in 1..BagSlots :
                                b.bag[i].guid = 0 <=> (i >= b.next \/ Contains(b.free, i))
                          /\ IsInjective(b.free)
    BY DEF ItemsAreConserved
  <2> DEFINE b == itBags[p]
  <2>1. BagFits(b, itGuid) /\ Tallied(b, itMade[p]) BY <1>0 DEF BagsIInv, BagOf, BagIsSound
  <2> HIDE DEF b
  <2>2. /\ ShelfFits(b, itGuid) /\ b.free \in Seq(1 .. BagSlots)
    BY <2>1 DEF BagFits, ShelfFits, Bag
  <2>3. \A d \in {e \in DOMAIN ItemTable : SingleUnit(e)} :
           itMade[p][d] = UnitsIn(b.bag, d) + Cardinality({s \in EquipSlots : b.worn[s].def = d})
    BY <2>1 DEF Tallied, WornCount
  <2>4. \A i, j \in 1 .. BagSlots : i # j /\ b.bag[i].guid # 0 => b.bag[i].guid # b.bag[j].guid
    BY <2>2 DEF ShelfFits
  <2>5. \A i \in 1 .. BagSlots : b.bag[i].guid = 0 <=> (i >= b.next \/ Contains(b.free, i))
    BY <2>2, LenProperties DEF ShelfFits, Contains, Members
  <2> QED BY <2>2, <2>3, <2>4, <2>5 DEF b, ShelfFits, NoRepeat, IsInjective
<1>5. GearCounts
  <2>1. ASSUME NEW p \in DOMAIN itBags, p \in DOMAIN roByPlayer,
               Cardinality({c \in DOMAIN roChars : roChars[c].owner = p}) = 1
        PROVE  roChars[roByPlayer[p]].gear = GearOf(itBags[p])
    BY <1>0, <2>1, OneIsSole DEF GearIInv, BagOf
  <2> QED BY <2>1 DEF GearCounts
<1> QED BY <1>1, <1>2, <1>3, <1>4, <1>5

=============================================================================
