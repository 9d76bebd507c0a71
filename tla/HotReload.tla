------------------------------ MODULE HotReload -----------------------------
(***************************************************************************)
(* Hot reload of the scripts of one scene.  Workers prepare and validate   *)
(* tickets on temporary machines; the simulation thread opens a safe point *)
(* at the end of each tick, swaps in what is validated, and on a later     *)
(* tick calls the script's smoke function and rolls it back when it fails. *)
(* Every activation is queued for the audit file, which threads outside    *)
(* the tick drain.  A source stands for its text and its checksum; whether *)
(* it compiles, passes the sandbox scan, passes its smoke test apart and   *)
(* in production is what tells sources apart.                              *)
(***************************************************************************)
EXTENDS Naturals, Sequences, FiniteSets, SequencesExt

CONSTANTS Scripts, Sources,
          Broken,           \* sources that do not compile
          Banned,           \* sources that name a banned API
          SmokeFails,       \* sources whose smoke call fails on a temporary machine
          Crashing,         \* sources whose smoke call fails in production only
          Workers,          \* threads that prepare and validate
          Drainers,         \* threads that call DrainAudit
          MaxHistory,       \* max_rollback_versions
          MaxActivations,   \* bound: versions of one script
          MaxSwapFailures   \* bound: swaps that fail in production

ASSUME HotReloadAssumption ==
    /\ Broken \cup Banned \cup SmokeFails \cup Crashing \subseteq Sources
    /\ MaxHistory \in Nat \ {0} /\ MaxActivations \in Nat /\ IsFiniteSet(Scripts)

VARIABLES
    hrEntry,      \* entries_: script -> Entry
    hrHand,       \* worker -> the ticket Prepare gave it, or NoTicket
    hrPoint,      \* where the simulation thread is in its tick
    hrReady,      \* ActivatePending's copy of the tickets it found ready
    hrDue,        \* VerifyPass's list of scripts
    hrQueue,      \* audit_queue_
    hrFile,       \* records_ of the audit sink, the file's lines
    hrDrain,      \* drainer -> [pc, item]
    hrActivated,  \* every (script, version, source) activated
    hrSwapFailed, \* the swaps that failed: part of failed_count_
    hrPassed      \* (script, source) whose production smoke call has passed

hrVars == <<hrEntry, hrHand, hrPoint, hrReady, hrDue, hrQueue, hrFile, hrDrain, hrActivated, hrSwapFailed, hrPassed>>

NoTicket == [script |-> "", source |-> ""]
Ticket(n, s) == [script |-> n, source |-> s]
FreshEntry == [state |-> "Idle", version |-> 0, history |-> <<>>, pending |-> "", ready |-> FALSE,
               verify |-> FALSE, thisTick |-> FALSE]
NotDraining == [pc |-> "rest", item |-> <<>>]

HotReloadInit ==
    /\ hrEntry = [n \in Scripts |-> FreshEntry]
    /\ hrHand = [w \in Workers |-> NoTicket]
    /\ hrPoint = "tick" /\ hrReady = <<>> /\ hrDue = {}
    /\ hrQueue = <<>> /\ hrFile = {} /\ hrDrain = [d \in Drainers |-> NotDraining]
    /\ hrActivated = {} /\ hrSwapFailed = 0 /\ hrPassed = {}

Current(n) == hrEntry[n].history[1]
Loaded(n) == hrEntry[n].history # <<>>

----------------------------------------------------------------------------
(* Workers. *)

\* Prepare: a source that compiles takes the place of whatever was pending; any other changes nothing.
Prepare(w, n, s) ==
    /\ s \notin Broken
    /\ hrHand' = [hrHand EXCEPT ![w] = Ticket(n, s)]
    /\ hrEntry' = [hrEntry EXCEPT ![n].state = "Validating", ![n].pending = s, ![n].ready = FALSE]
    /\ UNCHANGED <<hrPoint, hrReady, hrDue, hrQueue, hrFile, hrDrain, hrActivated, hrSwapFailed, hrPassed>>

SandboxOk(s) == s \notin Banned
IsolatedSmokeOk(s) == s \notin SmokeFails

\* Validate: the verdict on this ticket becomes the script's, whatever was prepared or validated meanwhile.
Validate(w) ==
    /\ hrHand[w] # NoTicket
    /\ LET n == hrHand[w].script
           s == hrHand[w].source
       IN \E inBudget \in BOOLEAN :
             LET ok == SandboxOk(s) /\ IsolatedSmokeOk(s) /\ inBudget
             IN hrEntry' = [hrEntry EXCEPT ![n].pending = s, ![n].ready = ok,
                                           ![n].state = IF ok THEN "PendingActivate" ELSE "Failed"]
    /\ UNCHANGED <<hrHand, hrPoint, hrReady, hrDue, hrQueue, hrFile, hrDrain, hrActivated, hrSwapFailed, hrPassed>>

----------------------------------------------------------------------------
(* The simulation thread. *)

\* ActivateLocked: a new version at the head of a truncated history, and a line for the audit.
Truncated(h) == IF Len(h) > MaxHistory THEN SubSeq(h, 1, MaxHistory) ELSE h
Swapped(entry, s, rollback) ==
    [entry EXCEPT !.version = @ + 1, !.history = Truncated(<<s>> \o @), !.ready = FALSE,
                  !.state = IF rollback THEN "RolledBack" ELSE "Activated",
                  !.verify = ~rollback, !.thisTick = TRUE]
SwapIn(n, s, rollback) ==
    /\ hrEntry[n].version < MaxActivations
    /\ hrEntry' = [hrEntry EXCEPT ![n] = Swapped(@, s, rollback)]
    /\ LET record == <<n, hrEntry[n].version + 1, s>>
       IN hrQueue' = Append(hrQueue, record) /\ hrActivated' = hrActivated \cup {record}
    /\ UNCHANGED hrSwapFailed

\* The swap fails in production: nothing but the state changes.
SwapFails(n) ==
    /\ hrSwapFailed < MaxSwapFailures /\ hrSwapFailed' = hrSwapFailed + 1
    /\ hrEntry' = [hrEntry EXCEPT ![n].state = "Failed"]
    /\ UNCHANGED <<hrQueue, hrActivated>>

ActivateLocked(n, s, rollback) == SwapIn(n, s, rollback) \/ SwapFails(n)

BeginSafePoint ==
    /\ hrPoint = "tick" /\ hrPoint' = "begun"
    /\ hrEntry' = [n \in Scripts |-> [hrEntry[n] EXCEPT !.thisTick = FALSE]]
    /\ UNCHANGED <<hrHand, hrReady, hrDue, hrQueue, hrFile, hrDrain, hrActivated, hrSwapFailed, hrPassed>>

\* ActivatePending copies the tickets ready, then activates them one by one ...
Collect ==
    /\ hrPoint = "begun" /\ hrPoint' = "activating"
    /\ \E order \in SetToSeqs({Ticket(n, hrEntry[n].pending) : n \in {m \in Scripts : hrEntry[m].ready}}) :
          hrReady' = order
    /\ UNCHANGED <<hrEntry, hrHand, hrDue, hrQueue, hrFile, hrDrain, hrActivated, hrSwapFailed, hrPassed>>

\* ... each only if it still is the validated one.
Approved(t) == hrEntry[t.script].ready /\ hrEntry[t.script].pending = t.source
ActivateNext ==
    /\ hrPoint = "activating" /\ hrReady # <<>>
    /\ hrReady' = Tail(hrReady)
    /\ LET t == Head(hrReady)
       IN \/ /\ Approved(t)
             /\ ActivateLocked(t.script, t.source, FALSE)
          \/ ~Approved(t) /\ UNCHANGED <<hrEntry, hrQueue, hrActivated, hrSwapFailed>>
    /\ UNCHANGED <<hrHand, hrPoint, hrDue, hrFile, hrDrain, hrPassed>>

\* Activate and Rollback called by the host inside a safe point.
Activate(w) ==
    /\ hrPoint = "begun" /\ hrHand[w] # NoTicket /\ Approved(hrHand[w])
    /\ ActivateLocked(hrHand[w].script, hrHand[w].source, FALSE)
    /\ UNCHANGED <<hrHand, hrPoint, hrReady, hrDue, hrFile, hrDrain, hrPassed>>

\* The newest version kept whose source is not the current one.
Earlier(n) == {i \in DOMAIN hrEntry[n].history : hrEntry[n].history[i] # Current(n)}
RollbackTarget(n) == hrEntry[n].history[CHOOSE i \in Earlier(n) : \A j \in Earlier(n) : i <= j]

Rollback(n) ==
    /\ hrPoint = "begun" /\ Loaded(n) /\ Earlier(n) # {}
    /\ ActivateLocked(n, RollbackTarget(n), TRUE)
    /\ UNCHANGED <<hrHand, hrPoint, hrReady, hrDue, hrFile, hrDrain, hrPassed>>

\* VerifyPass: the scripts activated on an earlier tick and not verified yet.
CollectDue ==
    /\ hrPoint = "activating" /\ hrReady = <<>> /\ hrPoint' = "verifying"
    /\ hrDue' = {n \in Scripts : hrEntry[n].verify /\ ~hrEntry[n].thisTick}
    /\ UNCHANGED <<hrEntry, hrHand, hrReady, hrQueue, hrFile, hrDrain, hrActivated, hrSwapFailed, hrPassed>>

VerifyOne(n) ==
    /\ hrPoint = "verifying" /\ n \in hrDue /\ hrDue' = hrDue \ {n}
    /\ IF Current(n) \notin Crashing
       THEN /\ hrEntry' = [hrEntry EXCEPT ![n].verify = FALSE]
            /\ hrPassed' = hrPassed \cup {<<n, Current(n)>>}
            /\ UNCHANGED <<hrQueue, hrActivated, hrSwapFailed>>
       ELSE /\ IF Earlier(n) = {}
               THEN /\ hrEntry' = [hrEntry EXCEPT ![n].state = "Failed", ![n].verify = FALSE]
                    /\ UNCHANGED <<hrQueue, hrActivated, hrSwapFailed>>
               ELSE ActivateLocked(n, RollbackTarget(n), TRUE)
            /\ UNCHANGED hrPassed
    /\ UNCHANGED <<hrHand, hrPoint, hrReady, hrFile, hrDrain>>

EndSafePoint ==
    /\ hrPoint = "verifying" /\ hrDue = {} /\ hrPoint' = "tick"
    /\ UNCHANGED <<hrEntry, hrHand, hrReady, hrDue, hrQueue, hrFile, hrDrain, hrActivated, hrSwapFailed, hrPassed>>

----------------------------------------------------------------------------
(* DrainAudit, allowed on any thread. *)

DrainPeek(d) ==
    /\ hrDrain[d] = NotDraining /\ hrQueue # <<>>
    /\ hrDrain' = [hrDrain EXCEPT ![d] = [pc |-> "append", item |-> Head(hrQueue)]]
    /\ UNCHANGED <<hrEntry, hrHand, hrPoint, hrReady, hrDue, hrQueue, hrFile, hrActivated, hrSwapFailed, hrPassed>>

\* Append rewrites the file with the record, unless it has it; on failure the record stays queued.
DrainAppend(d) ==
    /\ hrDrain[d].pc = "append"
    /\ \/ /\ hrFile' = hrFile \cup {hrDrain[d].item}
          /\ hrDrain' = [hrDrain EXCEPT ![d].pc = "pop"]
       \/ hrDrain' = [hrDrain EXCEPT ![d] = NotDraining] /\ UNCHANGED hrFile
    /\ UNCHANGED <<hrEntry, hrHand, hrPoint, hrReady, hrDue, hrQueue, hrActivated, hrSwapFailed, hrPassed>>

DrainPop(d) ==
    /\ hrDrain[d].pc = "pop"
    /\ hrQueue' = IF hrQueue = <<>> THEN hrQueue ELSE Tail(hrQueue)
    /\ hrDrain' = [hrDrain EXCEPT ![d] = NotDraining]
    /\ UNCHANGED <<hrEntry, hrHand, hrPoint, hrReady, hrDue, hrFile, hrActivated, hrSwapFailed, hrPassed>>

Tick == BeginSafePoint \/ Collect \/ ActivateNext \/ CollectDue \/ EndSafePoint
            \/ \E n \in Scripts : VerifyOne(n)

HotReloadNext ==
    \/ Tick
    \/ \E n \in Scripts : Rollback(n) \/ \E w \in Workers, s \in Sources : Prepare(w, n, s)
    \/ \E w \in Workers : Validate(w) \/ Activate(w)
    \/ \E d \in Drainers : DrainPeek(d) \/ DrainAppend(d) \/ DrainPop(d)

HotReloadSpec == HotReloadInit /\ [][HotReloadNext]_hrVars

\* The scene ticks, and its last stage runs to its end.
HotReloadFairness == WF_hrVars(Tick)

----------------------------------------------------------------------------
\* No source that fails its validation is ever swapped in, whatever is prepared, validated and
\* overwritten between the moment a ticket is found ready and its activation.
OnlyValidatedRuns ==
    \A r \in hrActivated : SandboxOk(r[3]) /\ IsolatedSmokeOk(r[3]) /\ r[3] \notin Broken

\* Every activation is on its way to the audit file or in it: none is dropped.
AuditIsComplete == hrActivated \subseteq Range(hrQueue) \cup hrFile

\* A version is not left running unverified: a later tick verifies it, replaces it or rolls it back.
VerifiedInTheEnd == \A n \in Scripts : []<>(hrEntry[n].verify = FALSE \/ hrEntry[n].version = MaxActivations)

\* What the code assumes when it does not verify after a rollback: that source has passed before.
RollbackIsToVerified ==
    \A n \in Scripts : hrEntry[n].state = "RolledBack" => <<n, Current(n)>> \in hrPassed
=============================================================================
