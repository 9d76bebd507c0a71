------------------------------ MODULE Reconnect -----------------------------
(***************************************************************************)
(* ReconnectService (reconnect_service.cpp) driving SessionManager: one    *)
(* record per session id walks through the six steps of a reconnection,    *)
(* one step for each Advance, while the session itself goes on living.     *)
(* The providers are external: the session lookup reads the live table,    *)
(* the player loader and the scene attacher may answer or fail.            *)
(***************************************************************************)
EXTENDS Sessions

CONSTANTS
    Direct,       \* BOOLEAN: clients also call SessionManager::Reattach
    MaxBegins     \* bound: reconnections begun in a behaviour

VARIABLES
    attempts,     \* states_, by session id
    begins,       \* how many were begun
    superseded    \* <<id, connection>>: another connection took id over

ASSUME ReconnectAssumption == Direct \in BOOLEAN /\ MaxBegins \in Nat

rvars == <<vars, attempts, begins, superseded>>

Attempt == [step : {"Disconnected", "Reconnecting", "Authenticating",
                    "LoadingPlayer", "AttachingScene", "Resumed", "Failed"},
            conn : Conns, player : Players \cup {NoPlayer}]

RInit == Init /\ attempts = <<>> /\ begins = 0 /\ superseded = {}

(* Begin: the session is looked up once and the record starts over.        *)
Begin(id, c) ==
    /\ begins < MaxBegins
    /\ SlotValid(id)
    /\ attempts' = [i \in DOMAIN attempts \cup {id} |->
                       IF i = id
                       THEN [step |-> "Disconnected", conn |-> c,
                             player |-> slots[id[1]].player]
                       ELSE attempts[i]]
    /\ begins' = begins + 1
    /\ UNCHANGED <<vars, superseded>>

Supersede(id, c) ==
    superseded' = IF slots[id[1]].conn = c THEN superseded
                  ELSE superseded \cup {<<id, slots[id[1]].conn>>}

MoveTo(id, step) == attempts' = [attempts EXCEPT ![id].step = step]

(* The Reconnecting step: the version that Reattach will compare is looked *)
(* up now, so the comparison always succeeds.                              *)
CanReattach(id) ==
    /\ SlotValid(id)
    /\ slots[id[1]].version < MaxVersion
    /\ \/ slots[id[1]].state = "Suspended" /\ slots[id[1]].age <= Grace
       \/ slots[id[1]].state = "Active"

Retake(id) ==
    \/ /\ CanReattach(id)
       /\ Reattach(id, attempts[id].conn, slots[id[1]].version)
       /\ Supersede(id, attempts[id].conn)
       /\ MoveTo(id, "Authenticating")
    \/ /\ ~ CanReattach(id)
       /\ SlotValid(id) => slots[id[1]].version < MaxVersion
       /\ MoveTo(id, "Failed")
       /\ UNCHANGED <<vars, superseded>>

(* The steps that only call a provider: it answers or it fails.            *)
Ask(id, from, to) ==
    /\ attempts[id].step = from
    /\ MoveTo(id, to) \/ MoveTo(id, "Failed")
    /\ UNCHANGED <<vars, superseded>>

Advance(id) ==
    /\ id \in DOMAIN attempts
    /\ \/ /\ attempts[id].step = "Disconnected"
          /\ MoveTo(id, "Reconnecting")
          /\ UNCHANGED <<vars, superseded>>
       \/ attempts[id].step = "Reconnecting" /\ Retake(id)
       \/ Ask(id, "Authenticating", "LoadingPlayer")
       \/ Ask(id, "LoadingPlayer", "AttachingScene")
       \/ /\ attempts[id].step = "AttachingScene"
          /\ MoveTo(id, "Resumed")
          /\ UNCHANGED <<vars, superseded>>
    /\ UNCHANGED begins

OnComplete(id) ==
    /\ id \in DOMAIN attempts
    /\ attempts' = [i \in DOMAIN attempts \ {id} |-> attempts[i]]
    /\ UNCHANGED <<vars, begins, superseded>>
RNext ==
    \/ Handle /\ UNCHANGED <<attempts, begins, superseded>>
    \/ \E id \in issued : \E c \in Conns : \E v \in 0 .. MaxVersion :
            /\ Direct
            /\ Reattach(id, c, v) /\ Supersede(id, c)
            /\ UNCHANGED <<attempts, begins>>
    \/ \E id \in issued : \E c \in Conns : Begin(id, c)
    \/ \E id \in issued : Advance(id) \/ OnComplete(id)

RSpec == RInit /\ [][RNext]_rvars

(* The host's loop keeps calling Tick and time passes; clients, providers  *)
(* and callers of Advance promise nothing.                                 *)
FairRSpec == RSpec /\ WF_rvars(Tick /\ UNCHANGED <<attempts, begins, superseded>>)
                   /\ WF_rvars(Elapse /\ UNCHANGED <<attempts, begins, superseded>>)

-----------------------------------------------------------------------------
RTypeOK ==
    /\ TypeOK
    /\ DOMAIN attempts \subseteq issued
    /\ \A id \in DOMAIN attempts : attempts[id] \in Attempt
    /\ begins \in 0 .. MaxBegins
    /\ superseded \subseteq Ids \X (Conns \cup {NoSlot})

(* A session that nobody has heard of for a while is heard of again or     *)
(* loses a step of its life: an Active one is suspended, a Suspended one   *)
(* is resumed or released.  None stays overdue (session_manager.cpp:298).  *)
Ageing(id) == /\ SlotValid(id)
              /\ slots[id[1]].state \in {"Active", "Suspended"}
              /\ slots[id[1]].age > 0
NothingStaysOverdue == \A id \in Ids : Ageing(id) ~> ~ Ageing(id)

(* A connection that was replaced never carries the session again: what    *)
(* the version check is there for (reconnect_service.h:4).                 *)
OldConnectionStaysOut ==
    [][ \A s \in Slots :
            slots[s].conn # slots'[s].conn =>
                <<<<s, gens[s]>>, slots'[s].conn>> \notin superseded ]_rvars
=============================================================================
