------------------------------ MODULE Sessions ------------------------------
(***************************************************************************)
(* The gateway's session layer: SessionManager (session_manager.cpp) over  *)
(* InMemorySessionStore (in_memory_session_store.cpp).  A session outlives *)
(* the connections that carry it: it is opened by a connection, becomes    *)
(* Active by authentication, is Suspended when its connection breaks or    *)
(* falls silent, is taken over by Reattach, and is released when the grace *)
(* period ends.  Both classes run on the gateway's network thread.         *)
(*                                                                         *)
(* Time is relative: "age" is how long ago last_heartbeat was, in units,   *)
(* and stops at the first value above both limits, which is all that the   *)
(* comparisons of Tick and Reattach see.  Session ids are pairs of a slot  *)
(* and a generation (session.h).  Metrics, trace ids and the events on the *)
(* bus are left out: the bus is drained later and calls nothing here.      *)
(***************************************************************************)
EXTENDS Integers, FiniteSets

CONSTANTS
    Players,
    NoPlayer,         \* kInvalidPlayerId
    Conns,            \* transport connections
    MaxSessions,      \* Config::max_sessions and SessionStoreOptions
    Generations,      \* 2^32 in the code: generations_ wraps there
    HeartbeatBudget,  \* heartbeat_interval * max_missed, in units of age
    Grace,            \* suspend_grace
    LoginMutex,       \* the caller looks FindByPlayer up before it logs in
    MaxOpens,         \* bound: connections accepted in a behaviour
    MaxVersion        \* bound: reattachments of one session

ASSUME SessionsAssumption ==
    /\ NoPlayer \notin Players
    /\ MaxSessions \in Nat \ {0}
    /\ Generations \in Nat \ {0, 1}
    /\ HeartbeatBudget \in Nat /\ Grace \in Nat
    /\ LoginMutex \in BOOLEAN
    /\ MaxOpens \in Nat /\ MaxVersion \in Nat

VARIABLES
    slots,       \* slots_
    gens,        \* generations_
    used,        \* slots_.size()
    free,        \* free_slots_: how often each slot is on the stack
    size,        \* size_
    index,       \* index_player_
    active,      \* active_count_
    suspended,   \* suspended_count_
    auth,        \* the OnAuthenticate whose provider has not answered yet
    issued,      \* the ids handed out, in the order of their numbers
    taken        \* <<id, version>> of the reattachments that were accepted

store == <<slots, gens, used, free, size, index>>
counts == <<active, suspended>>
vars == <<store, counts, auth, issued, taken>>

Slots == 0 .. MaxSessions - 1
NoSlot == -1
States == {"Connecting", "Authenticating", "Active", "Suspended", "Closed"}
MaxAge == 1 + (IF HeartbeatBudget > Grace THEN HeartbeatBudget ELSE Grace)
Ids == Slots \X (0 .. Generations - 1)
NoAuth == [id |-> <<NoSlot, 0>>, player |-> NoPlayer]

Session == [state : States, player : Players \cup {NoPlayer},
            conn : Conns \cup {NoSlot}, version : Nat, age : 0 .. MaxAge]
FreeSession == [state |-> "Closed", player |-> NoPlayer, conn |-> NoSlot,
                version |-> 0, age |-> 0]

Live == {s \in Slots : slots[s].state # "Closed"}
In(state) == {s \in Slots : slots[s].state = state}

(* SlotValid: the slot exists, has not been reused, and is not free.       *)
SlotValid(id) ==
    /\ id[1] < used
    /\ gens[id[1]] = id[2]
    /\ slots[id[1]].state # "Closed"

(* Mutant: the lookup sees only sessions that are online. *)
FindActiveByPlayer(p) ==
    IF /\ index[p] # NoSlot
       /\ slots[index[p]].player = p
       /\ slots[index[p]].state = "Active"
    THEN index[p]
    ELSE NoSlot

FindByPlayer(p) ==
    IF /\ index[p] # NoSlot
       /\ slots[index[p]].player = p
       /\ slots[index[p]].state # "Closed"
    THEN index[p]
    ELSE NoSlot

Init ==
    /\ slots = [s \in Slots |-> FreeSession]
    /\ gens = [s \in Slots |-> 1]
    /\ used = 0
    /\ free = [s \in Slots |-> 0]
    /\ size = 0
    /\ index = [p \in Players |-> NoSlot]
    /\ active = 0 /\ suspended = 0
    /\ auth = NoAuth
    /\ issued = {} /\ taken = {}

-----------------------------------------------------------------------------
(* The store's writes.                                                     *)

(* Mutant: the index is written for a new player only where the slot had one. *)
PutRebindsOnly(s, session) ==
    LET before == slots[s].player  after == session.player
    IN  /\ slots' = [slots EXCEPT ![s] = session]
        /\ index' = [p \in Players |->
                        IF before # after /\ p = before THEN NoSlot
                        ELSE IF before \notin {after, NoPlayer} /\ p = after THEN s
                        ELSE index[p]]

(* Put: write the session and keep the reverse index in step with it.      *)
Put(s, session) ==
    LET before == slots[s].player  after == session.player
    IN  /\ slots' = [slots EXCEPT ![s] = session]
        /\ index' = [p \in Players |->
                        IF before # after /\ p = after THEN s
                        ELSE IF before # after /\ p = before THEN NoSlot
                        ELSE index[p]]

(* Remove of every slot of S, each of them valid: the slot's player leaves *)
(* the index, the generation moves on, the slot returns to the free stack. *)
Released(S) == [s \in Slots |-> IF s \in S THEN FreeSession ELSE slots[s]]

(* Mutant: the generation is not advanced. *)
RemoveSameGeneration(S) ==
    /\ index' = [p \in Players |->
                    IF \E s \in S : slots[s].player = p THEN NoSlot
                    ELSE index[p]]
    /\ free' = [s \in Slots |-> IF s \in S THEN free[s] + 1 ELSE free[s]]
    /\ size' = size - Cardinality(S)
    /\ UNCHANGED <<used, gens>>

Remove(S) ==
    /\ index' = [p \in Players |->
                    IF \E s \in S : slots[s].player = p THEN NoSlot
                    ELSE index[p]]
    /\ gens' = [s \in Slots |-> IF s \in S THEN (gens[s] + 1) % Generations
                                ELSE gens[s]]
    /\ free' = [s \in Slots |-> IF s \in S THEN free[s] + 1 ELSE free[s]]
    /\ size' = size - Cardinality(S)
    /\ UNCHANGED used

(* CloseAndRemove of one valid session, with the counter it was in.        *)
CloseAndRemove(s) ==
    /\ active' = active - (IF slots[s].state = "Active" THEN 1 ELSE 0)
    /\ suspended' = suspended - (IF slots[s].state = "Suspended" THEN 1 ELSE 0)
    /\ slots' = Released({s})
    /\ Remove({s})

-----------------------------------------------------------------------------
(* OnConnected with Allocate and the Save after it: a slot from the free   *)
(* stack, else a new one; refused when the store is full.                  *)
FreshSlot(s) ==
    \/ free[s] > 0
    \/ (\A t \in Slots : free[t] = 0) /\ s = used

OnConnected(c) ==
    /\ Cardinality(issued) < MaxOpens
    /\ size < MaxSessions
    /\ \E s \in Slots :
        /\ FreshSlot(s)
        /\ slots' = [slots EXCEPT ![s] =
                        [FreeSession EXCEPT !.state = "Connecting", !.conn = c]]
        /\ free' = [free EXCEPT ![s] = IF @ > 0 THEN @ - 1 ELSE 0]
        /\ used' = IF free[s] > 0 THEN used ELSE used + 1
        /\ issued' = issued \cup {<<s, gens[s]>>}
    /\ size' = size + 1
    /\ UNCHANGED <<gens, index, counts, auth, taken>>

(* OnAuthenticate up to the call of the provider: the session is saved as  *)
(* Authenticating first.  With LoginMutex the caller asked FindByPlayer,   *)
(* as session_store.h means it to be used.                                 *)
OnAuthenticate(id, p) ==
    /\ auth = NoAuth
    /\ SlotValid(id)
    /\ slots[id[1]].state \in {"Connecting", "Authenticating"}
    /\ LoginMutex => FindByPlayer(p) = NoSlot
    /\ Put(id[1], [slots[id[1]] EXCEPT !.state = "Authenticating"])
    /\ auth' = [id |-> id, player |-> p]
    /\ UNCHANGED <<gens, used, free, size, counts, issued, taken>>

(* Mutant: the session is closed without looking whether it still exists. *)
AuthRefusedUnchecked ==
    /\ auth # NoAuth
    /\ CloseAndRemove(auth.id[1])
    /\ auth' = NoAuth
    /\ UNCHANGED <<issued, taken>>

(* The provider refuses, or names another player: the session is closed,   *)
(* whatever became of it while the provider ran.                           *)
AuthRefused ==
    /\ auth # NoAuth
    /\ \/ SlotValid(auth.id) /\ CloseAndRemove(auth.id[1])
       \/ ~SlotValid(auth.id) /\ UNCHANGED <<store, counts>>
    /\ auth' = NoAuth
    /\ UNCHANGED <<issued, taken>>

(* Mutant: the copy loaded before the provider ran is trusted: the session is *)
(* counted as active though the Save no longer finds it.                   *)
AuthAcceptedStale ==
    /\ auth # NoAuth
    /\ IF SlotValid(auth.id)
       THEN /\ Put(auth.id[1], [slots[auth.id[1]] EXCEPT
                    !.player = auth.player, !.state = "Active", !.age = 0])
            /\ UNCHANGED <<gens, used, free, size>>
       ELSE UNCHANGED store
    /\ active' = active + 1
    /\ auth' = NoAuth
    /\ UNCHANGED <<suspended, issued, taken>>

(* The provider accepts: the session is loaded again and becomes Active    *)
(* only if it is still the one that was being authenticated.               *)
AuthAccepted ==
    /\ auth # NoAuth
    /\ \/ /\ SlotValid(auth.id)
          /\ slots[auth.id[1]].state = "Authenticating"
          /\ Put(auth.id[1], [slots[auth.id[1]] EXCEPT
                    !.player = auth.player, !.state = "Active", !.age = 0])
          /\ active' = active + 1
          /\ UNCHANGED <<gens, used, free, size, suspended>>
       \/ /\ ~ (SlotValid(auth.id) /\ slots[auth.id[1]].state = "Authenticating")
          /\ UNCHANGED <<store, counts>>
    /\ auth' = NoAuth
    /\ UNCHANGED <<issued, taken>>

OnHeartbeat(id) ==
    /\ SlotValid(id)
    /\ slots[id[1]].state = "Active"
    /\ Put(id[1], [slots[id[1]] EXCEPT !.age = 0])
    /\ UNCHANGED <<gens, used, free, size, counts, auth, issued, taken>>

(* OnDisconnected: an Active session is kept for the grace period, one     *)
(* that never authenticated is closed, a Suspended one stays as it is.     *)
OnDisconnected(id) ==
    /\ SlotValid(id)
    /\ \/ /\ slots[id[1]].state = "Active"
          /\ Put(id[1], [slots[id[1]] EXCEPT !.state = "Suspended", !.age = 0])
          /\ active' = active - 1
          /\ suspended' = suspended + 1
          /\ UNCHANGED <<gens, used, free, size>>
       \/ /\ slots[id[1]].state \in {"Connecting", "Authenticating"}
          /\ CloseAndRemove(id[1])
    /\ UNCHANGED <<auth, issued, taken>>

(* Mutant: taking an Active session over leaves its version as it is. *)
ReattachUnversioned(id, c, expected) ==
    LET s == slots[id[1]]
    IN  /\ SlotValid(id)
        /\ s.version = expected
        /\ s.version < MaxVersion
        /\ \/ s.state = "Suspended" /\ s.age <= Grace
           \/ s.state = "Active"
        /\ Put(id[1], [s EXCEPT !.conn = c, !.state = "Active", !.age = 0,
                        !.version = IF s.state = "Active" THEN @ ELSE @ + 1])
        /\ active' = active + (IF s.state = "Suspended" THEN 1 ELSE 0)
        /\ suspended' = suspended - (IF s.state = "Suspended" THEN 1 ELSE 0)
        /\ taken' = taken \cup {<<id, expected>>}
        /\ UNCHANGED <<gens, used, free, size, auth, issued>>

(* Reattach: the version must match, then a Suspended session within its   *)
(* grace period, or an Active one by force, moves to the new connection.   *)
Reattach(id, c, expected) ==
    LET s == slots[id[1]]
    IN  /\ SlotValid(id)
        /\ s.version = expected
        /\ s.version < MaxVersion
        /\ \/ s.state = "Suspended" /\ s.age <= Grace
           \/ s.state = "Active"
        /\ Put(id[1], [s EXCEPT !.conn = c, !.version = @ + 1,
                                !.state = "Active", !.age = 0])
        /\ active' = active + (IF s.state = "Suspended" THEN 1 ELSE 0)
        /\ suspended' = suspended - (IF s.state = "Suspended" THEN 1 ELSE 0)
        /\ taken' = taken \cup {<<id, expected>>}
        /\ UNCHANGED <<gens, used, free, size, auth, issued>>

(* Tick: one scan suspends the Active sessions that fell silent and        *)
(* collects the Suspended ones whose grace is over, which are then closed. *)
Silent == {s \in In("Active") : slots[s].age > HeartbeatBudget}
Expired == {s \in In("Suspended") : slots[s].age > Grace}

(* Mutant: suspending a silent session does not restart its clock. *)
TickKeepsAge ==
    /\ Silent \cup Expired # {}
    /\ slots' = [s \in Slots |->
                    IF s \in Expired THEN FreeSession
                    ELSE IF s \in Silent
                         THEN [slots[s] EXCEPT !.state = "Suspended"]
                    ELSE slots[s]]
    /\ Remove(Expired)
    /\ active' = active - Cardinality(Silent)
    /\ suspended' = suspended + Cardinality(Silent) - Cardinality(Expired)
    /\ UNCHANGED <<auth, issued, taken>>

(* Mutant: the collected sessions are never closed. *)
TickOnlySuspends ==
    /\ Silent # {}
    /\ slots' = [s \in Slots |->
                    IF s \in Silent
                    THEN [slots[s] EXCEPT !.state = "Suspended", !.age = 0]
                    ELSE slots[s]]
    /\ active' = active - Cardinality(Silent)
    /\ suspended' = suspended + Cardinality(Silent)
    /\ UNCHANGED <<gens, used, free, size, index, auth, issued, taken>>

Tick ==
    /\ Silent \cup Expired # {}
    /\ slots' = [s \in Slots |->
                    IF s \in Expired THEN FreeSession
                    ELSE IF s \in Silent
                         THEN [slots[s] EXCEPT !.state = "Suspended", !.age = 0]
                    ELSE slots[s]]
    /\ Remove(Expired)
    /\ active' = active - Cardinality(Silent)
    /\ suspended' = suspended + Cardinality(Silent) - Cardinality(Expired)
    /\ UNCHANGED <<auth, issued, taken>>

(* Time passes for every session.                                          *)
Elapse ==
    /\ slots' = [s \in Slots |->
                    IF slots[s].state = "Closed" THEN slots[s]
                    ELSE [slots[s] EXCEPT !.age = IF @ < MaxAge THEN @ + 1
                                                  ELSE @]]
    /\ UNCHANGED <<gens, used, free, size, index, counts, auth, issued, taken>>

Handle ==
    \/ \E c \in Conns : OnConnected(c)
    \/ \E id \in issued : \E p \in Players : OnAuthenticate(id, p)
    \/ AuthRefused \/ AuthAccepted
    \/ \E id \in issued : OnHeartbeat(id) \/ OnDisconnected(id)
    \/ Tick \/ Elapse

Next ==
    \/ Handle
    \/ \E id \in issued : \E c \in Conns : \E v \in 0 .. MaxVersion :
            Reattach(id, c, v)

Spec == Init /\ [][Next]_vars

-----------------------------------------------------------------------------
(* The types of the state.                                                 *)
TypeOK ==
    /\ slots \in [Slots -> Session]
    /\ gens \in [Slots -> 0 .. Generations - 1]
    /\ used \in 0 .. MaxSessions
    /\ free \in [Slots -> Nat]
    /\ size \in Int
    /\ index \in [Players -> Slots \cup {NoSlot}]
    /\ active \in Int /\ suspended \in Int
    /\ auth \in {NoAuth} \cup [id : Ids, player : Players]
    /\ issued \subseteq Ids
    /\ taken \subseteq Ids \X Nat

(* Every slot below used is either in use or on the free stack exactly     *)
(* once, and size_ counts the slots in use: the O(1) allocator never hands *)
(* out a slot somebody holds and never loses one.                          *)
SlotsAccountedFor ==
    /\ \A s \in Slots : free[s] = IF s < used /\ s \notin Live THEN 1 ELSE 0
    /\ \A s \in Live : s < used
    /\ size = Cardinality(Live)

(* ActiveCount() and SuspendedCount(), which every handler adjusts on its  *)
(* own path (session_manager.h:92), agree with the states of the sessions. *)
CountersAgree ==
    /\ active = Cardinality(In("Active"))
    /\ suspended = Cardinality(In("Suspended"))

(* FindByPlayer finds a player's session exactly when there is one         *)
(* (session_store.h:42): the lookup that login exclusion stands on.        *)
PlayerIndexExact ==
    \A p \in Players :
        LET mine == {s \in Live : slots[s].player = p}
        IN  IF mine = {} THEN FindByPlayer(p) = NoSlot
            ELSE FindByPlayer(p) \in mine

(* A player never has two sessions at once (session_store.h:42), although  *)
(* the check and the write lie on two sides of the provider's call.        *)
OneSessionPerPlayer ==
    \A s, t \in Live : slots[s].player = slots[t].player =>
        s = t \/ slots[s].player = NoPlayer

(* OnConnected never hands out an id it has handed out before, so a stale  *)
(* id cannot reach somebody else's session (session.h:42).                 *)
IdsAreFresh ==
    [][ \A s \in Slots :
            slots[s].state = "Closed" /\ slots'[s].state # "Closed"
                => <<s, gens'[s]>> \notin issued ]_vars

(* A suspended session keeps its whole grace period: the clock starts when *)
(* it is suspended, by a broken connection or by Tick, and whichever       *)
(* handler runs does not release it before (session_manager.cpp:292-299).  *)
GraceIsKept ==
    [][ \A s \in Slots :
            /\ slots[s].state = "Active" /\ slots'[s].state = "Suspended"
                   => slots'[s].age = 0
            /\ slots[s].state = "Suspended" /\ slots[s].age <= Grace
                   => slots'[s].state # "Closed" ]_vars

(* A reattachment that was accepted is refused when it arrives again, even *)
(* after the slot found a new owner (session_manager.cpp:228).             *)
ReplayIsRefused ==
    [][ \A id \in issued : \A v \in 0 .. MaxVersion :
            <<id, v>> \in taken =>
                \A c \in Conns : ~ Reattach(id, c, v) ]_vars
=============================================================================
