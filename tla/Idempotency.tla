----------------------------- MODULE Idempotency -----------------------------
(* EconomySystem::Execute on several game nodes that share one idempotency  *)
(* table and one ledger (idempotency_store.cpp, economy_system.cpp): one    *)
(* action per call of the table or of the ledger's store, so that the nodes *)
(* run between them.  Module Economy is one node alone, with what a command *)
(* does; here a command only takes effect or is rejected.                   *)
EXTENDS Naturals, FiniteSets, Sequences

CONSTANTS
    IdNodes,        \* game nodes
    IdKeys,         \* idempotency keys; each names one command
    IdTtl,          \* how long a row stays in flight
    UptimeOf,       \* what a node's steady clock reads when the model's is 0
    MaxIdClock, MaxIdFaults, MaxIdRuns

ASSUME IdempotencyAssumption ==
    /\ IdTtl \in Nat \ {0} /\ UptimeOf \in [IdNodes -> Nat] /\ MaxIdRuns \in Nat
    /\ IsFiniteSet(IdNodes)

VARIABLES
    idRows,         \* the table: key -> row
    idFrame,        \* node -> the call of Execute it is in
    idBuffered,     \* node -> entries its ledger has not flushed
    idStored,       \* the ledger's rows: key -> the run it tells of, 0 for none
    idRuns,         \* history: key -> how often its command took effect
    idReaped,       \* history: the keys whose row was ever seen expired
    idClock, idFaults

idVars == <<idRows, idFrame, idBuffered, idStored, idRuns, idReaped, idClock, idFaults>>

NoIdRow == [st |-> "none", deadline |-> 0, run |-> 0]
OutOfExecute == [step |-> "out", key |-> 0, seen |-> NoIdRow, now |-> 0, again |-> FALSE]

IdempotencyInit ==
    /\ idRows = [k \in IdKeys |-> NoIdRow]
    /\ idFrame = [n \in IdNodes |-> OutOfExecute]
    /\ idBuffered = [n \in IdNodes |-> <<>>]
    /\ idStored = [k \in IdKeys |-> 0]
    /\ idRuns = [k \in IdKeys |-> 0] /\ idReaped = {} /\ idClock = 0 /\ idFaults = 0

NowMs(n) == idClock + UptimeOf[n]
KeyOf(n) == idFrame[n].key
At(n, step) == idFrame[n].step = step
Goes(n, step) == idFrame' = [idFrame EXCEPT ![n].step = step]
Returns(n) == idFrame' = [idFrame EXCEPT ![n] = OutOfExecute]
Fails == idFaults < MaxIdFaults /\ idFaults' = idFaults + 1
Works == UNCHANGED idFaults
Writes(k, row) == idRows' = [idRows EXCEPT ![k] = row]
IdLedgerVars == <<idBuffered, idStored, idRuns>>

-----------------------------------------------------------------------------
(* TryBegin.                                                                *)

\* The clock is read before the table is.
TryBegin(n, k) ==
    /\ At(n, "out")
    /\ idFrame' = [idFrame EXCEPT ![n] = [OutOfExecute EXCEPT !.step = "load", !.key = k,
                                                              !.now = NowMs(n)]]
    /\ UNCHANGED <<idRows, IdLedgerVars, idReaped, idClock, idFaults>>

\* What TryBegin goes on with, by the row it read. A second TryBegin, that of RebeginIdempotency,
\* is content with a fresh row only.
NextOf(row, now, again) ==
    CASE row.st = "none" -> "insert"
      [] row.st = "InFlight" -> IF now < row.deadline THEN "out" ELSE "reap"
      [] row.st = "Failed" -> IF again THEN "out" ELSE "query"
      [] row.st = "Completed" -> IF again THEN "out" ELSE "lookup"

Load(n) ==
    /\ At(n, "load")
    /\ \/ LET row == idRows[KeyOf(n)]  step == NextOf(row, idFrame[n].now, idFrame[n].again)
          IN  /\ IF step = "out" THEN Returns(n)
                 ELSE idFrame' = [idFrame EXCEPT ![n].step = step, ![n].seen = row]
              /\ idReaped' = IF step = "reap" THEN idReaped \cup {KeyOf(n)} ELSE idReaped
              /\ Works
       \/ Fails /\ Returns(n) /\ UNCHANGED idReaped
    /\ UNCHANGED <<idRows, IdLedgerVars, idClock>>

\* The copy that was read is written back as Failed, over whatever the row is by now; what comes of
\* the write is not looked at.
Reap(n) ==
    /\ At(n, "reap")
    /\ \/ /\ Works
          /\ IF idRows[KeyOf(n)] = NoIdRow THEN UNCHANGED idRows
             ELSE Writes(KeyOf(n), [idFrame[n].seen EXCEPT !.st = "Failed"])
       \/ Fails /\ UNCHANGED idRows
    /\ IF idFrame[n].again THEN Returns(n) ELSE Goes(n, "query")
    /\ UNCHANGED <<IdLedgerVars, idReaped, idClock>>

\* The key is UNIQUE: of two nodes that saw no row, one gets it and the other is told BUSY.
InsertIfAbsent(n) ==
    /\ At(n, "insert")
    /\ \/ /\ Works /\ idRows[KeyOf(n)] = NoIdRow
          /\ Writes(KeyOf(n), [st |-> "InFlight", deadline |-> idFrame[n].now + IdTtl, run |-> 0])
          /\ Goes(n, "run")
       \/ /\ \/ Works /\ idRows[KeyOf(n)] # NoIdRow
             \/ Fails
          /\ Returns(n) /\ UNCHANGED idRows
    /\ UNCHANGED <<IdLedgerVars, idReaped, idClock>>

-----------------------------------------------------------------------------
(* Execute: a completed key, an unresolved one, and the command itself.     *)

\* Lookup reads the row again; one that is no longer complete is BUSY.
Lookup(n) ==
    /\ At(n, "lookup") /\ Returns(n)
    /\ UNCHANGED <<idRows, IdLedgerVars, idReaped, idClock, idFaults>>

\* TryRecoverFromLedger: a query that fails is taken for an absent entry.
QueryByKey(n) ==
    /\ At(n, "query")
    /\ \/ Works /\ idStored[KeyOf(n)] # 0 /\ Goes(n, "recover")
       \/ Works /\ idStored[KeyOf(n)] = 0 /\ Goes(n, "release")
       \/ Fails /\ Goes(n, "release")
    /\ UNCHANGED <<idRows, IdLedgerVars, idReaped, idClock>>

\* Commit writes the whole row, if there is one.
Completes(k, run) ==
    IF idRows[k] = NoIdRow THEN UNCHANGED idRows
    ELSE Writes(k, [st |-> "Completed", deadline |-> 0, run |-> run])

RecoverFromLedger(n) ==
    /\ At(n, "recover") /\ Returns(n)
    /\ \/ Works /\ Completes(KeyOf(n), idStored[KeyOf(n)])
       \/ Fails /\ UNCHANGED idRows
    /\ UNCHANGED <<IdLedgerVars, idReaped, idClock>>

\* RebeginIdempotency erases the row, whosever it is by now, and begins again.
RebeginIdempotency(n) ==
    /\ At(n, "release")
    /\ \/ Works /\ Writes(KeyOf(n), NoIdRow)
       \/ Fails /\ UNCHANGED idRows
    /\ idFrame' = [idFrame EXCEPT ![n].step = "load", ![n].again = TRUE, ![n].now = NowMs(n)]
    /\ UNCHANGED <<IdLedgerVars, idReaped, idClock>>

\* The command takes effect and is posted to the ledger, whose buffer may refuse it; or it is
\* rejected.
RunCommand(n) ==
    LET k == KeyOf(n)  run == idRuns[k] + 1
    IN  /\ At(n, "run")
        /\ \/ /\ run <= MaxIdRuns
              /\ idRuns' = [idRuns EXCEPT ![k] = run]
              /\ \/ Works /\ idBuffered' = [idBuffered EXCEPT ![n] = Append(@, <<k, run>>)]
                 \/ Fails /\ UNCHANGED idBuffered
              /\ idFrame' = [idFrame EXCEPT ![n].step = "commit", ![n].seen.run = run]
           \/ Goes(n, "abort") /\ Works /\ UNCHANGED <<idRuns, idBuffered>>
        /\ UNCHANGED <<idRows, idStored, idReaped, idClock>>

Commit(n) ==
    /\ At(n, "commit") /\ Returns(n)
    /\ \/ Works /\ Completes(KeyOf(n), idFrame[n].seen.run)
       \/ Fails /\ UNCHANGED idRows
    /\ UNCHANGED <<IdLedgerVars, idReaped, idClock>>

Abort(n) ==
    /\ At(n, "abort") /\ Returns(n)
    /\ \/ Works /\ Writes(KeyOf(n), NoIdRow)
       \/ Fails /\ UNCHANGED idRows
    /\ UNCHANGED <<IdLedgerVars, idReaped, idClock>>

-----------------------------------------------------------------------------
(* What happens around the nodes.                                           *)

\* The ledger's keys are UNIQUE: an entry of a key that is stored counts as written.
FlushLedger(n) ==
    /\ idBuffered[n] # <<>>
    /\ LET e == Head(idBuffered[n])
       IN  idStored' = [idStored EXCEPT ![e[1]] = IF @ = 0 THEN e[2] ELSE @]
    /\ idBuffered' = [idBuffered EXCEPT ![n] = Tail(@)]
    /\ UNCHANGED <<idRows, idFrame, idRuns, idReaped, idClock, idFaults>>

NodeDies(n) ==
    /\ Fails /\ (~At(n, "out") \/ idBuffered[n] # <<>>)
    /\ Returns(n) /\ idBuffered' = [idBuffered EXCEPT ![n] = <<>>]
    /\ UNCHANGED <<idRows, idStored, idRuns, idReaped, idClock>>

IdClockTicks ==
    /\ idClock < MaxIdClock /\ idClock' = idClock + 1
    /\ UNCHANGED <<idRows, idFrame, IdLedgerVars, idReaped, idFaults>>

ExecuteStep(n) ==
    \/ \E k \in IdKeys : TryBegin(n, k)
    \/ Load(n) \/ Reap(n) \/ InsertIfAbsent(n) \/ Lookup(n) \/ QueryByKey(n)
    \/ RecoverFromLedger(n) \/ RebeginIdempotency(n) \/ RunCommand(n) \/ Commit(n) \/ Abort(n)

IdempotencyNext ==
    \/ \E n \in IdNodes : ExecuteStep(n) \/ FlushLedger(n) \/ NodeDies(n)
    \/ IdClockTicks

IdempotencySpec == IdempotencyInit /\ [][IdempotencyNext]_idVars

-----------------------------------------------------------------------------
(* Until somebody sees its row expired, a key has one executor at a time    *)
(* and its command takes effect once, whatever nodes race between reading   *)
(* the table and writing it, die, or lose answers.                          *)
Executors(k) == {n \in IdNodes : KeyOf(n) = k /\ idFrame[n].step \in {"run", "commit", "abort"}}
OneRunUntilReaped ==
    \A k \in IdKeys \ idReaped : idRuns[k] <= 1 /\ Cardinality(Executors(k)) <= 1

(* A completed row, and an entry of the ledger, tells of a run that took    *)
(* place: no repeated command is answered with a result nobody computed.    *)
AnswersAreOfRuns ==
    \A k \in IdKeys :
        /\ idStored[k] <= idRuns[k]
        /\ idRows[k].st = "Completed" => idRows[k].run \in 1..idRuns[k]

(* A row is completed for good until it is seen expired: nothing erases it  *)
(* and no other result replaces it.                                         *)
CompletedStays ==
    [][\A k \in IdKeys \ idReaped : idRows[k].st = "Completed" => idRows'[k] = idRows[k]]_idVars

(* What idempotency_store.h promises of the two layers, the table and the   *)
(* ledger's UNIQUE key, for every retry: a command never takes effect       *)
(* twice. Two nodes that recover one expired key both find no entry; the    *)
(* second erases the row of the first and runs the command again.           *)
NeverTwice == \A k \in IdKeys : idRuns[k] <= 1

(* Commit's comment: once completed, every repeat is answered with the      *)
(* first result. A node that read the row in flight writes its copy back as *)
(* Failed after the executor has completed it.                              *)
CompletedForGood ==
    [][\A k \in IdKeys : idRows[k].st = "Completed" => idRows'[k] = idRows[k]]_idVars
=============================================================================
