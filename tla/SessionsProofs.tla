--------------------------- MODULE SessionsProofs ---------------------------
(* Theorems about Sessions and Reconnect, for any players, connections,     *)
(* capacity and deadlines.                                                  *)
EXTENDS Reconnect, FiniteSetTheorems, TLAPS

------------------------------------------------------------------------------
(* Types.                                                                   *)

LEMMA SlotFacts ==
  /\ NoSlot \notin Slots /\ NoSlot \in Int /\ Slots \subseteq Int
  /\ MaxAge \in Nat /\ 0 \in 0 .. MaxAge
  /\ FreeSession \in Session
  /\ NoAuth.id \notin Ids /\ 1 \in 0 .. Generations - 1
BY SessionsAssumption DEF NoSlot, Slots, MaxAge, FreeSession, Session, States,
   NoAuth, Ids

LEMMA IdFacts ==
  ASSUME NEW id \in Ids
  PROVE  id[1] \in Slots /\ id[2] \in 0 .. Generations - 1
BY DEF Ids

(* Every change of a session that a handler makes is a session again.       *)
LEMMA PutIsTyped ==
  ASSUME TypeOK, NEW s \in Slots, NEW session \in Session, Put(s, session)
  PROVE  /\ slots' \in [Slots -> Session]
         /\ index' \in [Players -> Slots \cup {NoSlot}]
BY DEF TypeOK, Put

LEMMA RetakenIsTyped ==
  ASSUME NEW s \in Session, NEW c \in Conns
  PROVE  [s EXCEPT !.conn = c, !.version = @ + 1, !.state = "Active",
                   !.age = 0] \in Session
<1>1. ASSUME NEW n \in Nat
      PROVE  [s EXCEPT !.conn = c, !.version = n, !.state = "Active",
                       !.age = 0] \in Session
  BY SlotFacts DEF Session, States
<1>2. s.version + 1 \in Nat BY DEF Session
<1> QED BY <1>1, <1>2

LEMMA RemoveIsTyped ==
  ASSUME TypeOK, NEW S \in SUBSET Slots, Remove(S), IsFiniteSet(S)
  PROVE  /\ index' \in [Players -> Slots \cup {NoSlot}]
         /\ gens' \in [Slots -> 0 .. Generations - 1]
         /\ free' \in [Slots -> Nat]
         /\ size' \in Int
         /\ used' = used
<1>1. gens' \in [Slots -> 0 .. Generations - 1] BY SessionsAssumption DEF TypeOK, Remove
<1>2. free' \in [Slots -> Nat] BY DEF TypeOK, Remove
<1>3. size' \in Int /\ used' = used BY FS_CardinalityType DEF TypeOK, Remove
<1> QED BY <1>1, <1>2, <1>3 DEF TypeOK, Remove

LEMMA SlotsFinite ==
  /\ IsFiniteSet(Slots) /\ Cardinality(Slots) = MaxSessions
  /\ \A S \in SUBSET Slots : IsFiniteSet(S) /\ Cardinality(S) \in Nat
<1>1. IsFiniteSet(Slots) /\ Cardinality(Slots) = MaxSessions
  BY SessionsAssumption, FS_Interval DEF Slots
<1>2. ASSUME NEW S \in SUBSET Slots PROVE IsFiniteSet(S) /\ Cardinality(S) \in Nat
  BY <1>1, FS_Subset, FS_CardinalityType
<1> QED BY <1>1, <1>2

LEMMA CloseIsTyped ==
  ASSUME TypeOK, NEW s \in Slots, CloseAndRemove(s)
  PROVE  /\ slots' \in [Slots -> Session]
         /\ index' \in [Players -> Slots \cup {NoSlot}]
         /\ gens' \in [Slots -> 0 .. Generations - 1]
         /\ free' \in [Slots -> Nat]
         /\ size' \in Int
         /\ used' = used
         /\ active' \in Int /\ suspended' \in Int
<1>1. slots' \in [Slots -> Session] BY SlotFacts DEF CloseAndRemove, Released, TypeOK
<1>2. active' \in Int /\ suspended' \in Int BY DEF CloseAndRemove, TypeOK
<1> QED BY <1>1, <1>2, SlotsFinite, RemoveIsTyped DEF CloseAndRemove

LEMMA TypeInit == Init => TypeOK
BY SlotFacts, SessionsAssumption DEF Init, TypeOK

LEMMA TypeStep == TypeOK /\ [Next]_vars => TypeOK'
<1> SUFFICES ASSUME TypeOK, [Next]_vars PROVE TypeOK' OBVIOUS
<1> USE SlotFacts
<1>1. ASSUME NEW c \in Conns, OnConnected(c) PROVE TypeOK'
  <2>1. PICK s \in Slots :
          /\ FreshSlot(s)
          /\ slots' = [slots EXCEPT ![s] =
                        [FreeSession EXCEPT !.state = "Connecting", !.conn = c]]
          /\ free' = [free EXCEPT ![s] = IF @ > 0 THEN @ - 1 ELSE 0]
          /\ used' = IF free[s] > 0 THEN used ELSE used + 1
          /\ issued' = issued \cup {<<s, gens[s]>>}
    BY <1>1 DEF OnConnected
  <2>2. slots' \in [Slots -> Session] BY <2>1 DEF TypeOK, FreeSession, Session, States
  <2>3. used' \in 0 .. MaxSessions BY <2>1, SessionsAssumption DEF TypeOK, FreshSlot, Slots
  <2>4. issued' \subseteq Ids BY <2>1 DEF TypeOK, Ids
  <2> QED BY <1>1, <2>1, <2>2, <2>3, <2>4 DEF OnConnected, TypeOK, counts
<1>2. ASSUME NEW id \in issued, NEW p \in Players, OnAuthenticate(id, p) PROVE TypeOK'
  <2>1. id \in Ids /\ id[1] \in Slots BY IdFacts DEF TypeOK
  <2>2. slots' \in [Slots -> Session] /\ index' \in [Players -> Slots \cup {NoSlot}]
    BY <1>2, <2>1, PutIsTyped DEF OnAuthenticate, TypeOK, Session, States
  <2> QED BY <1>2, <2>1, <2>2 DEF OnAuthenticate, TypeOK, counts
<1>3. ASSUME AuthRefused PROVE TypeOK'
  <2>1. CASE SlotValid(auth.id) /\ CloseAndRemove(auth.id[1])
    BY <1>3, <2>1, IdFacts, CloseIsTyped DEF AuthRefused, TypeOK
  <2>2. CASE UNCHANGED <<store, counts>> BY <1>3, <2>2 DEF AuthRefused, TypeOK, store, counts
  <2> QED BY <1>3, <2>1, <2>2 DEF AuthRefused
<1>4. ASSUME AuthAccepted PROVE TypeOK'
  <2>1. auth.id[1] \in Slots /\ auth.player \in Players BY <1>4, IdFacts DEF AuthAccepted, TypeOK
  <2>2. CASE Put(auth.id[1], [slots[auth.id[1]] EXCEPT
                    !.player = auth.player, !.state = "Active", !.age = 0])
             /\ active' = active + 1
             /\ UNCHANGED <<gens, used, free, size, suspended>>
    <3>1. slots' \in [Slots -> Session] /\ index' \in [Players -> Slots \cup {NoSlot}]
      BY <2>1, <2>2, PutIsTyped DEF TypeOK, Session, States
    <3> QED BY <1>4, <2>2, <3>1 DEF AuthAccepted, TypeOK
  <2>3. CASE UNCHANGED <<store, counts>> BY <1>4, <2>3 DEF AuthAccepted, TypeOK, store, counts
  <2> QED BY <1>4, <2>2, <2>3 DEF AuthAccepted
<1>5. ASSUME NEW id \in issued, OnHeartbeat(id) PROVE TypeOK'
  <2>1. id[1] \in Slots BY IdFacts DEF TypeOK
  <2>2. slots' \in [Slots -> Session] /\ index' \in [Players -> Slots \cup {NoSlot}]
    BY <1>5, <2>1, PutIsTyped DEF OnHeartbeat, TypeOK, Session
  <2> QED BY <1>5, <2>2 DEF OnHeartbeat, TypeOK, counts
<1>6. ASSUME NEW id \in issued, OnDisconnected(id) PROVE TypeOK'
  <2>1. id[1] \in Slots BY IdFacts DEF TypeOK
  <2>2. CASE Put(id[1], [slots[id[1]] EXCEPT !.state = "Suspended", !.age = 0])
             /\ active' = active - 1
             /\ suspended' = suspended + 1
             /\ UNCHANGED <<gens, used, free, size>>
    <3>1. slots' \in [Slots -> Session] /\ index' \in [Players -> Slots \cup {NoSlot}]
      BY <2>1, <2>2, PutIsTyped DEF TypeOK, Session, States
    <3> QED BY <1>6, <2>2, <3>1 DEF OnDisconnected, TypeOK
  <2>3. CASE CloseAndRemove(id[1]) BY <1>6, <2>1, <2>3, CloseIsTyped DEF OnDisconnected, TypeOK
  <2> QED BY <1>6, <2>2, <2>3 DEF OnDisconnected
<1>7. ASSUME NEW id \in issued, NEW c \in Conns, NEW v \in 0 .. MaxVersion,
             Reattach(id, c, v) PROVE TypeOK'
  <2>1. id[1] \in Slots /\ id \in Ids BY IdFacts DEF TypeOK
  <2>2. [slots[id[1]] EXCEPT !.conn = c, !.version = @ + 1,
                             !.state = "Active", !.age = 0] \in Session
    BY <2>1, RetakenIsTyped DEF TypeOK
  <2>3. slots' \in [Slots -> Session] /\ index' \in [Players -> Slots \cup {NoSlot}]
    BY <1>7, <2>1, <2>2, PutIsTyped DEF Reattach
  <2>4. active' \in Int /\ suspended' \in Int BY <1>7 DEF Reattach, TypeOK
  <2>5. UNCHANGED <<gens, used, free, size, auth, issued>> BY <1>7 DEF Reattach
  <2> QED BY <1>7, <2>1, <2>3, <2>4, <2>5 DEF TypeOK, Reattach
<1>8. ASSUME Tick PROVE TypeOK'
  <2>1. Expired \in SUBSET Slots /\ Silent \in SUBSET Slots BY DEF Expired, Silent, In
  <2>2. IsFiniteSet(Expired) /\ Cardinality(Expired) \in Nat /\ Cardinality(Silent) \in Nat
    BY <2>1, SlotsFinite
  <2>3. slots' \in [Slots -> Session] BY <1>8 DEF Tick, TypeOK, Session, States
  <2>4. active' \in Int /\ suspended' \in Int
    <3>1. /\ active' = active - Cardinality(Silent)
          /\ suspended' = suspended + Cardinality(Silent) - Cardinality(Expired)
      BY <1>8 DEF Tick
    <3> QED BY <2>2, <3>1 DEF TypeOK
  <2>5. Remove(Expired) BY <1>8 DEF Tick
  <2>6. /\ index' \in [Players -> Slots \cup {NoSlot}]
        /\ gens' \in [Slots -> 0 .. Generations - 1]
        /\ free' \in [Slots -> Nat]
        /\ size' \in Int /\ used' = used
    BY <2>1, <2>2, <2>5, RemoveIsTyped
  <2> QED BY <1>8, <2>3, <2>4, <2>6 DEF TypeOK, Tick
<1>9. ASSUME Elapse PROVE TypeOK'
  <2>1. \A s \in Slots : [slots[s] EXCEPT !.age = IF @ < MaxAge THEN @ + 1
                                                  ELSE @] \in Session
    BY DEF TypeOK, Session
  <2> QED BY <1>9, <2>1 DEF Elapse, TypeOK, counts
<1>10. CASE UNCHANGED vars BY <1>10 DEF TypeOK, vars, store, counts
<1> QED BY <1>1, <1>2, <1>3, <1>4, <1>5, <1>6, <1>7, <1>8, <1>9, <1>10 DEF Next, Handle

(* Every reachable state is well typed: no handler writes a session, an     *)
(* index entry or a generation outside its range.                           *)
THEOREM TypeCorrect == Spec => []TypeOK
<1>1. Init => TypeOK BY TypeInit
<1>2. TypeOK /\ [Next]_vars => TypeOK' BY TypeStep
<1> QED BY <1>1, <1>2, PTL DEF Spec

------------------------------------------------------------------------------
(* Slots.  The part of SlotsAccountedFor that needs no counting: a slot is  *)
(* on the free stack once when it is below used and free, else not at all.  *)

SlotInv ==
    /\ \A s \in Slots : free[s] = IF s < used /\ s \notin Live THEN 1 ELSE 0
    /\ \A s \in Live : s < used

(* A Put into a live session keeps the set of live slots.                   *)
LEMMA PutKeepsLive ==
  ASSUME TypeOK, NEW s \in Slots, NEW session \in Session, Put(s, session),
         slots[s].state # "Closed", session.state # "Closed"
  PROVE  Live' = Live
BY DEF TypeOK, Put, Live

LEMMA SameLiveKeepsSlotInv ==
  ASSUME SlotInv, Live' = Live, UNCHANGED <<free, used>>
  PROVE  SlotInv'
BY DEF SlotInv

(* Removing live slots puts each of them on the stack once.                 *)
LEMMA RemovalKeepsSlotInv ==
  ASSUME TypeOK, SlotInv, NEW S \in SUBSET Live, Remove(S), Live' = Live \ S
  PROVE  SlotInv'
<1>1. used' = used /\ S \subseteq Slots BY DEF Remove, Live
<1>2. \A s \in Slots : free'[s] = IF s \in S THEN free[s] + 1 ELSE free[s] BY DEF Remove
<1>3. ASSUME NEW s \in Slots
      PROVE  free'[s] = IF s < used' /\ s \notin Live' THEN 1 ELSE 0
  <2>1. CASE s \in S BY <1>1, <1>2, <2>1 DEF SlotInv
  <2>2. CASE s \notin S BY <1>1, <1>2, <2>2 DEF SlotInv
  <2> QED BY <2>1, <2>2
<1> QED BY <1>1, <1>3 DEF SlotInv

LEMMA ReleaseShrinksLive ==
  ASSUME TypeOK, NEW S \in SUBSET Live, slots' = Released(S)
  PROVE  Live' = Live \ S
BY DEF TypeOK, Released, Live, FreeSession

LEMMA CloseKeepsSlotInv ==
  ASSUME TypeOK, SlotInv, NEW s \in Live, CloseAndRemove(s)
  PROVE  SlotInv' /\ Live' = Live \ {s}
<1> QED BY ReleaseShrinksLive, RemovalKeepsSlotInv DEF CloseAndRemove

(* The slot a new connection gets is a free one.                            *)
LEMMA FreshIsFree ==
  ASSUME TypeOK, SlotInv, NEW s \in Slots, FreshSlot(s)
  PROVE  /\ s \notin Live /\ slots[s].state = "Closed"
         /\ free[s] > 0 <=> s < used
         /\ s < used \/ s = used
<1> QED BY DEF SlotInv, FreshSlot, TypeOK, Live, Slots

LEMMA LiveAfterTick ==
  ASSUME TypeOK, Tick
  PROVE  Live' = Live \ Expired /\ Expired \in SUBSET Live
<1>1. ASSUME NEW s \in Slots
      PROVE  slots'[s].state # "Closed" <=>
                slots[s].state # "Closed" /\ s \notin Expired
  <2>1. CASE s \in Expired BY <2>1 DEF Tick, FreeSession
  <2>2. CASE s \notin Expired /\ s \in Silent BY <2>2 DEF Tick, Silent, In, TypeOK, Session
  <2>3. CASE s \notin Expired /\ s \notin Silent BY <2>3 DEF Tick
  <2> QED BY <2>1, <2>2, <2>3
<1> QED BY <1>1 DEF Live, Expired, In

LEMMA SlotStep == TypeOK /\ SlotInv /\ [Next]_vars => SlotInv'
<1> SUFFICES ASSUME TypeOK, SlotInv, [Next]_vars PROVE SlotInv' OBVIOUS
<1> USE SlotFacts
<1>a. ASSUME NEW id \in Ids, SlotValid(id) PROVE id[1] \in Live /\ id[1] \in Slots
  BY <1>a, IdFacts DEF SlotValid, Live
<1>b. issued \subseteq Ids BY DEF TypeOK
<1>c. \A s \in Slots : slots[s] \in Session BY DEF TypeOK
<1>1. ASSUME NEW c \in Conns, OnConnected(c) PROVE SlotInv'
  <2>1. PICK s \in Slots :
          /\ FreshSlot(s)
          /\ slots' = [slots EXCEPT ![s] =
                        [FreeSession EXCEPT !.state = "Connecting", !.conn = c]]
          /\ free' = [free EXCEPT ![s] = IF @ > 0 THEN @ - 1 ELSE 0]
          /\ used' = IF free[s] > 0 THEN used ELSE used + 1
    BY <1>1 DEF OnConnected
  <2>2. Live' = Live \cup {s} BY <2>1 DEF Live, TypeOK, FreeSession
  <2>3. free'[s] = 0 /\ s < used'
    <3>1. s \notin Live /\ (free[s] > 0 <=> s < used) BY <2>1, FreshIsFree
    <3>2. free[s] \in {0, 1} /\ free \in [Slots -> Nat] BY DEF SlotInv, TypeOK
    <3>3. free[s] = 0 => s = used BY <2>1, <3>1 DEF FreshSlot
    <3> QED BY <2>1, <3>1, <3>2, <3>3
  <2>4. ASSUME NEW t \in Slots, t # s
        PROVE  /\ free'[t] = free[t]
               /\ t < used' <=> t < used
    <3>1. free'[t] = free[t] BY <2>1, <2>4 DEF TypeOK
    <3>2. CASE free[s] > 0 BY <2>1, <3>1, <3>2
    <3>3. CASE ~ (free[s] > 0)
      <4>1. s = used /\ used' = used + 1 BY <2>1, <3>3 DEF FreshSlot
      <4> QED BY <2>4, <3>1, <4>1, SessionsAssumption DEF TypeOK, Slots
    <3> QED BY <3>2, <3>3
  <2>5. ASSUME NEW t \in Slots
        PROVE  free'[t] = IF t < used' /\ t \notin Live' THEN 1 ELSE 0
    BY <2>2, <2>3, <2>4 DEF SlotInv
  <2> QED BY <2>2, <2>3, <2>4, <2>5 DEF SlotInv, Live
<1>2. ASSUME NEW id \in issued, NEW p \in Players, OnAuthenticate(id, p) PROVE SlotInv'
  <2>1. id[1] \in Live /\ id[1] \in Slots BY <1>2, <1>a, <1>b DEF OnAuthenticate
  <2>2. Live' = Live BY <1>c, <1>2, <2>1, PutKeepsLive DEF OnAuthenticate, Live, Session, States
  <2> QED BY <1>2, <2>2, SameLiveKeepsSlotInv DEF OnAuthenticate
<1>3. ASSUME AuthRefused PROVE SlotInv'
  <2>1. CASE SlotValid(auth.id) /\ CloseAndRemove(auth.id[1])
    BY <1>a, <1>3, <2>1, CloseKeepsSlotInv DEF AuthRefused, TypeOK
  <2>2. CASE UNCHANGED <<store, counts>> BY <2>2 DEF SlotInv, Live, store
  <2> QED BY <1>3, <2>1, <2>2 DEF AuthRefused
<1>4. ASSUME AuthAccepted PROVE SlotInv'
  <2>1. CASE /\ SlotValid(auth.id)
             /\ Put(auth.id[1], [slots[auth.id[1]] EXCEPT
                    !.player = auth.player, !.state = "Active", !.age = 0])
             /\ UNCHANGED <<gens, used, free, size, suspended>>
    <3>1. auth.id[1] \in Live /\ auth.id[1] \in Slots /\ auth.player \in Players
      BY <1>4, <2>1, <1>a DEF AuthAccepted, TypeOK
    <3>2. [slots[auth.id[1]] EXCEPT !.player = auth.player, !.state = "Active",
                                    !.age = 0] \in Session
      BY <3>1, <1>c DEF Session, States
    <3> QED BY <1>c, <2>1, <3>1, <3>2, PutKeepsLive, SameLiveKeepsSlotInv DEF Live, Session
  <2>2. CASE UNCHANGED <<store, counts>> BY <2>2 DEF SlotInv, Live, store
  <2> QED BY <1>4, <2>1, <2>2 DEF AuthAccepted
<1>5. ASSUME NEW id \in issued, OnHeartbeat(id) PROVE SlotInv'
  <2>1. id[1] \in Live /\ id[1] \in Slots BY <1>5, <1>a, <1>b DEF OnHeartbeat
  <2>2. Live' = Live BY <1>c, <1>5, <2>1, PutKeepsLive DEF OnHeartbeat, Live, Session
  <2> QED BY <1>5, <2>2, SameLiveKeepsSlotInv DEF OnHeartbeat
<1>6. ASSUME NEW id \in issued, OnDisconnected(id) PROVE SlotInv'
  <2>1. id[1] \in Live /\ id[1] \in Slots BY <1>6, <1>a, <1>b DEF OnDisconnected
  <2>2. CASE Put(id[1], [slots[id[1]] EXCEPT !.state = "Suspended", !.age = 0])
             /\ UNCHANGED <<gens, used, free, size>>
    <3>1. [slots[id[1]] EXCEPT !.state = "Suspended", !.age = 0] \in Session
      BY <2>1, <1>c DEF Session, States
    <3> QED BY <1>c, <2>1, <2>2, <3>1, PutKeepsLive, SameLiveKeepsSlotInv DEF Live, Session
  <2>3. CASE CloseAndRemove(id[1]) BY <2>1, <2>3, CloseKeepsSlotInv
  <2> QED BY <1>6, <2>2, <2>3 DEF OnDisconnected
<1>7. ASSUME NEW id \in issued, NEW c \in Conns, NEW v \in 0 .. MaxVersion,
             Reattach(id, c, v) PROVE SlotInv'
  <2>1. id[1] \in Live /\ id[1] \in Slots BY <1>7, <1>a, <1>b DEF Reattach
  <2> DEFINE new == [slots[id[1]] EXCEPT !.conn = c, !.version = @ + 1,
                                         !.state = "Active", !.age = 0]
  <2>2. new \in Session BY <2>1, <1>c, RetakenIsTyped
  <2>3. Put(id[1], new) /\ UNCHANGED <<used, free>> BY <1>7 DEF Reattach
  <2>4. new.state # "Closed" /\ slots[id[1]].state # "Closed" BY <2>1, <1>c DEF Session, Live
  <2> HIDE DEF new
  <2> QED BY <2>1, <2>2, <2>3, <2>4, PutKeepsLive, SameLiveKeepsSlotInv
<1>8. ASSUME Tick PROVE SlotInv' BY <1>8, LiveAfterTick, RemovalKeepsSlotInv DEF Tick
<1>9. ASSUME Elapse PROVE SlotInv'
  <2>1. Live' = Live BY <1>c, <1>9 DEF Live, Elapse, Session
  <2> QED BY <1>9, <2>1, SameLiveKeepsSlotInv DEF Elapse
<1>10. CASE UNCHANGED vars BY <1>10 DEF SlotInv, Live, vars, store
<1> QED BY <1>1, <1>2, <1>3, <1>4, <1>5, <1>6, <1>7, <1>8, <1>9, <1>10 DEF Next, Handle

LEMMA SlotInit == Init => SlotInv
BY DEF Init, SlotInv, Live, FreeSession, Slots

------------------------------------------------------------------------------
(* Players.  The index names the one slot that holds a player, and nobody   *)
(* is being logged in who has a session already.                            *)

Owned == {s \in Slots : slots[s].player # NoPlayer}

IndexInv ==
    /\ \A s \in Owned : /\ slots[s].state \in {"Active", "Suspended"}
                        /\ index[slots[s].player] = s
    /\ \A p \in Players : index[p] # NoSlot => slots[index[p]].player = p
    /\ auth # NoAuth => index[auth.player] = NoSlot

LEMMA IndexGivesExact ==
  ASSUME TypeOK, IndexInv
  PROVE  PlayerIndexExact /\ OneSessionPerPlayer
<1> USE SlotFacts
<1>1. OneSessionPerPlayer BY DEF OneSessionPerPlayer, IndexInv, Owned, Live
<1>2. ASSUME NEW p \in Players, NEW s \in Live, slots[s].player = p
      PROVE  FindByPlayer(p) = s
  <2>1. s \in Owned /\ s \in Slots /\ s # NoSlot BY <1>2, SessionsAssumption DEF Owned, Live
  <2> QED BY <1>2, <2>1 DEF FindByPlayer, Live, IndexInv
<1>3. ASSUME NEW p \in Players, \A s \in Live : slots[s].player # p
      PROVE  FindByPlayer(p) = NoSlot
  BY <1>3 DEF FindByPlayer, Live, TypeOK
<1>4. ASSUME NEW p \in Players
      PROVE  LET mine == {s \in Live : slots[s].player = p}
             IN  IF mine = {} THEN FindByPlayer(p) = NoSlot
                 ELSE FindByPlayer(p) \in mine
  <2> DEFINE mine == {s \in Live : slots[s].player = p}
  <2>1. CASE mine = {} BY <1>3, <2>1
  <2>2. CASE mine # {}
    <3>1. PICK s \in Live : slots[s].player = p BY <2>2
    <3> QED BY <1>2, <2>2, <3>1
  <2> QED BY <2>1, <2>2
<1> QED BY <1>1, <1>4 DEF PlayerIndexExact

(* A player the lookup does not find has no entry at all.                   *)
LEMMA NotFoundNotIndexed ==
  ASSUME TypeOK, IndexInv, NEW p \in Players, FindByPlayer(p) = NoSlot
  PROVE  index[p] = NoSlot
<1> SUFFICES ASSUME index[p] # NoSlot PROVE FALSE OBVIOUS
<1>1. index[p] \in Slots /\ slots[index[p]].player = p BY DEF TypeOK, IndexInv
<1>2. slots[index[p]].state # "Closed" BY <1>1, SessionsAssumption DEF IndexInv, Owned
<1> QED BY <1>1, <1>2 DEF FindByPlayer

(* Steps that leave every session with its player and owned ones in use.    *)
LEMMA SameOwnersKeepIndexInv ==
  ASSUME TypeOK, IndexInv, index' = index, auth' \in {auth, NoAuth},
         \A s \in Slots :
            /\ slots'[s].player = slots[s].player
            /\ s \in Owned => slots'[s].state \in {"Active", "Suspended"}
  PROVE  IndexInv'
<1>1. \A s \in Owned' : /\ slots'[s].state \in {"Active", "Suspended"}
                       /\ index'[slots'[s].player] = s
  BY DEF IndexInv, Owned
<1>2. auth' # NoAuth => index'[auth'.player] = NoSlot BY DEF IndexInv
<1> QED BY <1>1, <1>2 DEF IndexInv, TypeOK

(* Put of a session with the same player, in use if it had one.             *)
LEMMA PutSameOwner ==
  ASSUME TypeOK, IndexInv, NEW s \in Slots, NEW session \in Session,
         Put(s, session), session.player = slots[s].player,
         s \in Owned => session.state \in {"Active", "Suspended"},
         auth' \in {auth, NoAuth}
  PROVE  IndexInv'
<1>1. \A t \in Slots :
         /\ slots'[t].player = slots[t].player
         /\ t \in Owned => slots'[t].state \in {"Active", "Suspended"}
  BY DEF Put, TypeOK, IndexInv
<1> QED BY <1>1, SameOwnersKeepIndexInv DEF Put, TypeOK

(* Releasing slots takes exactly their players out of the index.            *)
LEMMA RemovalKeepsIndexInv ==
  ASSUME TypeOK, IndexInv, NEW S \in SUBSET Slots, Remove(S),
         auth' \in {auth, NoAuth},
         \A s \in S : slots'[s].player = NoPlayer,
         \A s \in Slots \ S :
            /\ slots'[s].player = slots[s].player
            /\ s \in Owned => slots'[s].state \in {"Active", "Suspended"}
  PROVE  IndexInv'
<1> USE SlotFacts
<1>1. \A p \in Players : index'[p] = IF \E s \in S : slots[s].player = p
                                     THEN NoSlot ELSE index[p]
  BY DEF Remove
<1>2. ASSUME NEW s \in Owned'
      PROVE  /\ slots'[s].state \in {"Active", "Suspended"}
             /\ index'[slots'[s].player] = s
  <2>1. s \in Owned /\ s \in Slots \ S /\ slots'[s].player = slots[s].player BY DEF Owned
  <2>2. slots[s].player \in Players /\ index[slots[s].player] = s
    BY <2>1 DEF Owned, IndexInv, TypeOK, Session
  <2>3. ~ \E t \in S : slots[t].player = slots[s].player
    <3> SUFFICES ASSUME NEW t \in S, slots[t].player = slots[s].player PROVE FALSE OBVIOUS
    <3>1. index[slots[t].player] = t BY <2>1 DEF IndexInv, Owned
    <3> QED BY <2>1, <2>2, <3>1
  <2> QED BY <1>1, <2>1, <2>2, <2>3
<1>3. ASSUME NEW p \in Players, index'[p] # NoSlot
      PROVE  slots'[index'[p]].player = p
  <2>1. index'[p] = index[p] /\ ~ \E s \in S : slots[s].player = p BY <1>1, <1>3
  <2>2. index[p] \in Slots /\ slots[index[p]].player = p BY <1>3, <2>1 DEF TypeOK, IndexInv
  <2> QED BY <2>1, <2>2
<1>4. auth' # NoAuth => index'[auth'.player] = NoSlot
  <2> SUFFICES ASSUME auth' # NoAuth PROVE index'[auth'.player] = NoSlot OBVIOUS
  <2> QED BY <1>1 DEF TypeOK, IndexInv
<1> QED BY <1>2, <1>3, <1>4 DEF IndexInv

LEMMA CloseKeepsIndexInv ==
  ASSUME TypeOK, IndexInv, NEW s \in Slots, CloseAndRemove(s),
         auth' \in {auth, NoAuth}
  PROVE  IndexInv'
<1>1. Remove({s}) /\ slots' = Released({s}) BY DEF CloseAndRemove
<1>2. \A t \in Slots \ {s} :
         /\ slots'[t].player = slots[t].player
         /\ t \in Owned => slots'[t].state \in {"Active", "Suspended"}
  BY <1>1 DEF IndexInv, Released
<1>3. {s} \in SUBSET Slots OBVIOUS
<1> QED BY <1>1, <1>2, <1>3, RemovalKeepsIndexInv DEF Released, FreeSession

LEMMA IndexStep ==
  ASSUME LoginMutex, TypeOK, SlotInv, IndexInv, [Next]_vars
  PROVE  IndexInv'
<1> USE SlotFacts
<1>a. ASSUME NEW id \in issued PROVE id[1] \in Slots /\ slots[id[1]] \in Session
  BY IdFacts DEF TypeOK
<1>c. \A s \in Slots : slots[s] \in Session BY DEF TypeOK
<1>1. ASSUME NEW c \in Conns, OnConnected(c) PROVE IndexInv'
  <2>1. PICK s \in Slots :
          /\ FreshSlot(s)
          /\ slots' = [slots EXCEPT ![s] =
                        [FreeSession EXCEPT !.state = "Connecting", !.conn = c]]
    BY <1>1 DEF OnConnected
  <2>2. slots[s].player = NoPlayer BY <2>1, FreshIsFree DEF IndexInv, Owned
  <2>3. index' = index /\ auth' = auth BY <1>1 DEF OnConnected
  <2> QED BY <2>1, <2>2, <2>3, SameOwnersKeepIndexInv DEF TypeOK, FreeSession, IndexInv, Owned
<1>2. ASSUME NEW id \in issued, NEW p \in Players, OnAuthenticate(id, p) PROVE IndexInv'
  <2>1. /\ slots[id[1]].state \in {"Connecting", "Authenticating"}
        /\ Put(id[1], [slots[id[1]] EXCEPT !.state = "Authenticating"])
        /\ FindByPlayer(p) = NoSlot
        /\ auth' = [id |-> id, player |-> p]
    BY <1>2 DEF OnAuthenticate
  <2>2. index' = index BY <1>a, <2>1 DEF Put, TypeOK, Session
  <2>3. \A t \in Slots : slots'[t].player = slots[t].player
    BY <1>a, <2>1 DEF Put, TypeOK, Session
  <2>4. \A t \in Slots : t # id[1] => slots'[t] = slots[t] BY <2>1 DEF Put, TypeOK
  <2>5. \A t \in Owned' : /\ slots'[t].state \in {"Active", "Suspended"}
                         /\ index'[slots'[t].player] = t
    BY <2>1, <2>2, <2>3, <2>4 DEF IndexInv, Owned
  <2>6. \A q \in Players : index'[q] # NoSlot => slots'[index'[q]].player = q
    BY <2>2, <2>3 DEF IndexInv, TypeOK
  <2>7. index'[auth'.player] = NoSlot BY <2>1, <2>2, NotFoundNotIndexed
  <2> QED BY <2>5, <2>6, <2>7 DEF IndexInv
<1>3. ASSUME AuthRefused PROVE IndexInv'
  <2>1. CASE SlotValid(auth.id) /\ CloseAndRemove(auth.id[1])
    BY <1>3, <2>1, IdFacts, CloseKeepsIndexInv DEF AuthRefused, TypeOK
  <2>2. CASE UNCHANGED <<store, counts>>
    BY <1>3, <2>2, SameOwnersKeepIndexInv DEF AuthRefused, store, IndexInv
  <2> QED BY <1>3, <2>1, <2>2 DEF AuthRefused
<1>4. ASSUME AuthAccepted PROVE IndexInv'
  <2>1. CASE /\ slots[auth.id[1]].state = "Authenticating"
             /\ Put(auth.id[1], [slots[auth.id[1]] EXCEPT
                    !.player = auth.player, !.state = "Active", !.age = 0])
    <3> DEFINE s == auth.id[1]
               p == auth.player
    <3>1. s \in Slots /\ p \in Players /\ index[p] = NoSlot /\ auth' = NoAuth
      BY <1>4, IdFacts DEF AuthAccepted, TypeOK, IndexInv
    <3>2. slots[s].player = NoPlayer BY <2>1, <3>1 DEF IndexInv, Owned
    <3>3. p # NoPlayer BY <3>1, SessionsAssumption
    <3>4. /\ \A t \in Slots \ {s} : slots'[t] = slots[t]
          /\ slots'[s].player = p /\ slots'[s].state = "Active"
      BY <2>1, <3>1, <1>c DEF Put, TypeOK, Session
    <3>5. \A q \in Players : index'[q] = IF q = p THEN s ELSE index[q]
      <4> DEFINE new == [slots[s] EXCEPT !.player = p, !.state = "Active",
                                         !.age = 0]
      <4>1. new.player = p BY <3>1, <1>c DEF Session
      <4>2. Put(s, new) BY <2>1
      <4> HIDE DEF new, s, p
      <4> QED BY <3>2, <3>3, <4>1, <4>2, SessionsAssumption DEF Put
    <3> HIDE DEF s, p
    <3>6. ASSUME NEW t \in Owned'
          PROVE  /\ slots'[t].state \in {"Active", "Suspended"}
                 /\ index'[slots'[t].player] = t
      <4>1. CASE t = s BY <3>1, <3>4, <3>5, <4>1
      <4>2. CASE t # s
        <5>1. slots'[t] = slots[t] /\ t \in Owned /\ t \in Slots BY <3>4, <4>2 DEF Owned
        <5>2. index[slots[t].player] = t /\ slots[t].player \in Players
          BY <5>1, <1>c DEF IndexInv, Owned, Session
        <5> QED BY <3>1, <3>5, <5>1, <5>2 DEF IndexInv
      <4> QED BY <4>1, <4>2
    <3>7. ASSUME NEW q \in Players, index'[q] # NoSlot
          PROVE  slots'[index'[q]].player = q
      <4>1. CASE q = p BY <3>4, <3>5, <4>1
      <4>2. CASE q # p
        <5>1. index'[q] = index[q] /\ index[q] \in Slots /\ slots[index[q]].player = q
          BY <3>5, <3>7, <4>2 DEF IndexInv, TypeOK
        <5> QED BY <3>2, <3>4, <5>1, SessionsAssumption
      <4> QED BY <4>1, <4>2
    <3> QED BY <3>1, <3>6, <3>7 DEF IndexInv
  <2>2. CASE UNCHANGED <<store, counts>>
    BY <1>4, <2>2, SameOwnersKeepIndexInv DEF AuthAccepted, store, IndexInv
  <2> QED BY <1>4, <2>1, <2>2 DEF AuthAccepted
<1>5. ASSUME NEW id \in issued, OnHeartbeat(id) PROVE IndexInv'
  <2> DEFINE new == [slots[id[1]] EXCEPT !.age = 0]
  <2>1. /\ new \in Session /\ new.player = slots[id[1]].player
        /\ new.state = slots[id[1]].state
    BY <1>a DEF Session
  <2>2. Put(id[1], new) /\ slots[id[1]].state = "Active" /\ auth' = auth BY <1>5 DEF OnHeartbeat
  <2> HIDE DEF new
  <2> QED BY <1>a, <2>1, <2>2, PutSameOwner
<1>6. ASSUME NEW id \in issued, OnDisconnected(id) PROVE IndexInv'
  <2> DEFINE new == [slots[id[1]] EXCEPT !.state = "Suspended", !.age = 0]
  <2>1. /\ new \in Session /\ new.player = slots[id[1]].player
        /\ new.state = "Suspended"
    BY <1>a DEF Session, States
  <2>2. Put(id[1], new) \/ CloseAndRemove(id[1]) BY <1>6 DEF OnDisconnected
  <2>3. auth' = auth BY <1>6 DEF OnDisconnected
  <2> HIDE DEF new
  <2> QED BY <1>a, <2>1, <2>2, <2>3, PutSameOwner, CloseKeepsIndexInv
<1>7. ASSUME NEW id \in issued, NEW c \in Conns, NEW v \in 0 .. MaxVersion,
             Reattach(id, c, v) PROVE IndexInv'
  <2> DEFINE new == [slots[id[1]] EXCEPT !.conn = c, !.version = @ + 1,
                                         !.state = "Active", !.age = 0]
  <2>1. new \in Session BY <1>a, RetakenIsTyped
  <2>2. new.player = slots[id[1]].player /\ new.state = "Active" BY <1>a DEF Session
  <2>3. Put(id[1], new) /\ auth' = auth BY <1>7 DEF Reattach
  <2> HIDE DEF new
  <2> QED BY <1>a, <2>1, <2>2, <2>3, PutSameOwner
<1>8. ASSUME Tick PROVE IndexInv'
  <2>1. Expired \in SUBSET Slots /\ Remove(Expired) /\ auth' = auth BY <1>8 DEF Tick, Expired, In
  <2>2. \A s \in Slots \ Expired :
           /\ slots'[s].player = slots[s].player
           /\ slots'[s].state \in {slots[s].state, "Suspended"}
    BY <1>c, <1>8 DEF Session, Tick
  <2>3. \A s \in Slots \ Expired :
           s \in Owned => slots'[s].state \in {"Active", "Suspended"}
    BY <2>2 DEF IndexInv
  <2> QED BY <1>8, <2>1, <2>2, <2>3, RemovalKeepsIndexInv DEF Tick, FreeSession
<1>9. ASSUME Elapse PROVE IndexInv'
  <2>1. \A s \in Slots : /\ slots'[s].state = slots[s].state
                         /\ slots'[s].player = slots[s].player
    BY <1>9, <1>c DEF Elapse, Session
  <2>2. \A s \in Owned : slots'[s].state \in {"Active", "Suspended"} BY <2>1 DEF IndexInv, Owned
  <2> QED BY <1>9, <2>1, <2>2, SameOwnersKeepIndexInv DEF Elapse
<1>10. CASE UNCHANGED vars BY <1>10, SameOwnersKeepIndexInv DEF vars, store, IndexInv
<1> QED BY <1>1, <1>2, <1>3, <1>4, <1>5, <1>6, <1>7, <1>8, <1>9, <1>10 DEF Next, Handle

LEMMA IndexInit == Init => IndexInv
BY DEF Init, IndexInv, Owned, FreeSession

(* With login exclusion FindByPlayer finds a player's session whenever      *)
(* there is one, in every reachable state of any gateway.                   *)
THEOREM IndexIsExact ==
  ASSUME LoginMutex
  PROVE  Spec => []PlayerIndexExact
<1>1. Init => TypeOK /\ SlotInv /\ IndexInv BY TypeInit, SlotInit, IndexInit
<1>2. TypeOK /\ SlotInv /\ IndexInv /\ [Next]_vars => (TypeOK /\ SlotInv /\ IndexInv)'
  BY TypeStep, SlotStep, IndexStep
<1>3. TypeOK /\ SlotInv /\ IndexInv => PlayerIndexExact BY IndexGivesExact
<1> QED BY <1>1, <1>2, <1>3, PTL DEF Spec

(* With login exclusion no player ever has two sessions, although other     *)
(* handlers run between the lookup and the login.                           *)
THEOREM OneSessionEach ==
  ASSUME LoginMutex
  PROVE  Spec => []OneSessionPerPlayer
<1>1. Init => TypeOK /\ SlotInv /\ IndexInv BY TypeInit, SlotInit, IndexInit
<1>2. TypeOK /\ SlotInv /\ IndexInv /\ [Next]_vars => (TypeOK /\ SlotInv /\ IndexInv)'
  BY TypeStep, SlotStep, IndexStep
<1>3. TypeOK /\ SlotInv /\ IndexInv => OneSessionPerPlayer BY IndexGivesExact
<1> QED BY <1>1, <1>2, <1>3, PTL DEF Spec

------------------------------------------------------------------------------
(* Counting.  How many slots are in each state, before and after a step.    *)

At(f, state) == {s \in Slots : f[s].state = state}
OneIf(a, b) == IF a = b THEN 1 ELSE 0

(* Changing the state of one slot moves one unit between the counts.        *)
LEMMA MoveCount ==
  ASSUME NEW f, NEW g, NEW s \in Slots, NEW state,
         \A t \in Slots \ {s} : g[t].state = f[t].state
  PROVE  Cardinality(At(g, state)) = Cardinality(At(f, state))
            + OneIf(g[s].state, state) - OneIf(f[s].state, state)
<1>1. /\ IsFiniteSet(At(f, state)) /\ Cardinality(At(f, state)) \in Nat
      /\ IsFiniteSet(At(g, state)) /\ Cardinality(At(g, state)) \in Nat
  BY SlotsFinite DEF At
<1>2. CASE f[s].state = state /\ g[s].state = state
  <2>1. At(g, state) = At(f, state) BY <1>2 DEF At
  <2> QED BY <1>1, <1>2, <2>1 DEF OneIf
<1>3. CASE f[s].state # state /\ g[s].state # state
  <2>1. At(g, state) = At(f, state) BY <1>3 DEF At
  <2> QED BY <1>1, <1>3, <2>1 DEF OneIf
<1>4. CASE f[s].state = state /\ g[s].state # state
  <2>1. At(g, state) = At(f, state) \ {s} /\ s \in At(f, state) BY <1>4 DEF At
  <2> QED BY <1>1, <1>4, <2>1, FS_RemoveElement DEF OneIf
<1>5. CASE f[s].state # state /\ g[s].state = state
  <2>1. At(g, state) = At(f, state) \cup {s} /\ s \notin At(f, state) BY <1>5 DEF At
  <2> QED BY <1>1, <1>5, <2>1, FS_AddElement DEF OneIf
<1> QED BY <1>2, <1>3, <1>4, <1>5

CountInv ==
    /\ size = MaxSessions - Cardinality(At(slots, "Closed"))
    /\ active = Cardinality(At(slots, "Active"))
    /\ suspended = Cardinality(At(slots, "Suspended"))

LEMMA CountGivesProperties ==
  ASSUME TypeOK, SlotInv, CountInv
  PROVE  SlotsAccountedFor /\ CountersAgree
<1>1. Live = Slots \ At(slots, "Closed") /\ At(slots, "Closed") \subseteq Slots BY DEF Live, At
<1>2. Slots \cap At(slots, "Closed") = At(slots, "Closed") BY <1>1
<1>3. size = Cardinality(Live) BY <1>1, <1>2, FS_Difference, SlotsFinite DEF CountInv
<1> QED BY <1>3 DEF SlotsAccountedFor, SlotInv, CountInv, CountersAgree, At, In

(* A step that changes the state of one slot, and counts it.                *)
LEMMA OneMoveKeepsCounts ==
  ASSUME TypeOK, CountInv, NEW s \in Slots, NEW a, NEW b,
         slots[s].state = a, slots'[s].state = b,
         \A t \in Slots \ {s} : slots'[t].state = slots[t].state,
         size' = size + OneIf(a, "Closed") - OneIf(b, "Closed"),
         active' = active + OneIf(b, "Active") - OneIf(a, "Active"),
         suspended' = suspended + OneIf(b, "Suspended") - OneIf(a, "Suspended")
  PROVE  CountInv'
<1>1. \A state : Cardinality(At(slots', state)) = Cardinality(At(slots, state))
                    + OneIf(b, state) - OneIf(a, state)
  <2> SUFFICES ASSUME NEW state
               PROVE  Cardinality(At(slots', state)) = Cardinality(At(slots, state))
                         + OneIf(b, state) - OneIf(a, state)
    OBVIOUS
  <2>1. Cardinality(At(slots', state)) = Cardinality(At(slots, state))
           + OneIf(slots'[s].state, state) - OneIf(slots[s].state, state)
    <3> DEFINE f == slots
               g == slots'
    <3>1. \A t \in Slots \ {s} : g[t].state = f[t].state OBVIOUS
    <3> HIDE DEF f, g
    <3> QED BY <3>1, MoveCount DEF f, g
  <2> QED BY <2>1
<1>2. \A state : Cardinality(At(slots, state)) \in Nat BY SlotsFinite DEF At
<1>3. \A x, y : OneIf(x, y) \in {0, 1} BY DEF OneIf
<1>4. size' = MaxSessions - Cardinality(At(slots', "Closed"))
  <2> DEFINE n == Cardinality(At(slots, "Closed"))
             x == OneIf(a, "Closed")
             y == OneIf(b, "Closed")
  <2>1. n \in Nat /\ x \in {0, 1} /\ y \in {0, 1} /\ MaxSessions \in Nat
    BY <1>2, <1>3, SessionsAssumption
  <2>2. /\ Cardinality(At(slots', "Closed")) = n + y - x
        /\ size = MaxSessions - n /\ size' = size + x - y
    BY <1>1 DEF CountInv
  <2> HIDE DEF n, x, y
  <2> QED BY <2>1, <2>2
<1>5. suspended' = Cardinality(At(slots', "Suspended")) BY <1>1, <1>2, <1>3 DEF CountInv
<1> QED BY <1>1, <1>2, <1>3, <1>4, <1>5 DEF CountInv

LEMMA NoMoveKeepsCounts ==
  ASSUME CountInv, UNCHANGED <<size, counts>>,
         \A s \in Slots : slots'[s].state = slots[s].state
  PROVE  CountInv'
<1> QED BY DEF CountInv, counts, At

LEMMA PutKeepsCounts ==
  ASSUME TypeOK, CountInv, NEW s \in Slots, NEW session \in Session,
         Put(s, session), slots[s].state # "Closed", session.state # "Closed",
         size' = size,
         active' = active + OneIf(session.state, "Active")
                          - OneIf(slots[s].state, "Active"),
         suspended' = suspended + OneIf(session.state, "Suspended")
                                - OneIf(slots[s].state, "Suspended")
  PROVE  CountInv'
<1>1. size' = size + OneIf(slots[s].state, "Closed") - OneIf(session.state, "Closed")
  BY DEF OneIf, TypeOK
<1> QED BY <1>1, OneMoveKeepsCounts DEF Put, TypeOK

LEMMA CloseKeepsCounts ==
  ASSUME TypeOK, CountInv, NEW s \in Live, CloseAndRemove(s)
  PROVE  CountInv'
<1>1. s \in Slots /\ slots[s].state # "Closed" BY DEF Live
<1>2. size' = size - 1 BY FS_Singleton DEF CloseAndRemove, Remove
<1>3. size' = size + OneIf(slots[s].state, "Closed") - OneIf("Closed", "Closed")
  BY <1>1, <1>2 DEF OneIf, TypeOK
<1>4. /\ active' = active + OneIf("Closed", "Active") - OneIf(slots[s].state, "Active")
      /\ suspended' = suspended + OneIf("Closed", "Suspended")
                                - OneIf(slots[s].state, "Suspended")
  BY DEF CloseAndRemove, OneIf, TypeOK
<1> QED BY <1>1, <1>3, <1>4, OneMoveKeepsCounts DEF CloseAndRemove, Released, FreeSession

LEMMA TickKeepsCounts ==
  ASSUME TypeOK, CountInv, Tick
  PROVE  CountInv'
<1> DEFINE A == At(slots, "Active")
           S == At(slots, "Suspended")
           C == At(slots, "Closed")
<1>1. Silent \subseteq A /\ Expired \subseteq S BY DEF Silent, Expired, In, At
<1>2. ASSUME NEW s \in Slots
      PROVE  slots'[s].state = IF s \in Expired THEN "Closed"
                               ELSE IF s \in Silent THEN "Suspended"
                               ELSE slots[s].state
  <2>1. CASE s \in Expired BY <2>1 DEF Tick, FreeSession
  <2>2. CASE s \notin Expired /\ s \in Silent BY <2>2 DEF Tick, TypeOK, Session
  <2>3. CASE s \notin Expired /\ s \notin Silent BY <2>3 DEF Tick
  <2> QED BY <2>1, <2>2, <2>3
<1>3. /\ At(slots', "Active") = A \ Silent
      /\ At(slots', "Suspended") = (S \ Expired) \cup Silent
      /\ At(slots', "Closed") = C \cup Expired
  BY <1>1, <1>2 DEF At, Silent, Expired, In
<1>4. /\ A \cap Silent = Silent /\ S \cap Expired = Expired
      /\ (S \ Expired) \cap Silent = {} /\ C \cap Expired = {}
  BY <1>1 DEF At
<1>5. /\ A \in SUBSET Slots /\ S \in SUBSET Slots /\ C \in SUBSET Slots
      /\ Silent \in SUBSET Slots /\ Expired \in SUBSET Slots
      /\ (S \ Expired) \in SUBSET Slots
  BY DEF At, Silent, Expired, In
<1> HIDE DEF A, S, C
<1>6. Cardinality(A \ Silent) = Cardinality(A) - Cardinality(Silent)
  BY <1>4, <1>5, SlotsFinite, FS_Difference
<1>7. Cardinality(S \ Expired) = Cardinality(S) - Cardinality(Expired)
  BY <1>4, <1>5, SlotsFinite, FS_Difference
<1>8. Cardinality((S \ Expired) \cup Silent)
         = Cardinality(S) - Cardinality(Expired) + Cardinality(Silent)
  <2>1. Cardinality((S \ Expired) \cup Silent)
           = Cardinality(S \ Expired) + Cardinality(Silent) - Cardinality({})
    BY <1>4, <1>5, SlotsFinite, FS_Union
  <2> QED BY <1>5, <1>7, <2>1, SlotsFinite, FS_EmptySet
<1>9. Cardinality(C \cup Expired) = Cardinality(C) + Cardinality(Expired)
  <2>1. Cardinality(C \cup Expired)
           = Cardinality(C) + Cardinality(Expired) - Cardinality({})
    BY <1>4, <1>5, SlotsFinite, FS_Union
  <2> QED BY <1>5, <2>1, SlotsFinite, FS_EmptySet
<1>10. /\ Cardinality(A) \in Nat /\ Cardinality(S) \in Nat /\ Cardinality(C) \in Nat
       /\ Cardinality(Silent) \in Nat /\ Cardinality(Expired) \in Nat
  BY <1>5, SlotsFinite
<1>11. /\ size = MaxSessions - Cardinality(C)
       /\ active = Cardinality(A) /\ suspended = Cardinality(S)
  BY DEF CountInv, A, S, C
<1>12. /\ size' = size - Cardinality(Expired)
       /\ active' = active - Cardinality(Silent)
       /\ suspended' = suspended + Cardinality(Silent) - Cardinality(Expired)
  BY DEF Tick, Remove
<1>13. size' = MaxSessions - Cardinality(At(slots', "Closed"))
  BY <1>3, <1>9, <1>10, <1>11, <1>12, SessionsAssumption
<1>14. active' = Cardinality(At(slots', "Active")) BY <1>3, <1>6, <1>11, <1>12
<1>15. suspended' = Cardinality(At(slots', "Suspended"))
  <2> DEFINE n == Cardinality(S)
             x == Cardinality(Silent)
             y == Cardinality(Expired)
  <2>1. n \in Nat /\ x \in Nat /\ y \in Nat BY <1>10
  <2>2. Cardinality(At(slots', "Suspended")) = n - y + x BY <1>3, <1>8
  <2>3. suspended' = n + x - y BY <1>11, <1>12
  <2> HIDE DEF n, x, y
  <2> QED BY <2>1, <2>2, <2>3
<1> QED BY <1>13, <1>14, <1>15 DEF CountInv

LEMMA CountStep ==
  ASSUME TypeOK, SlotInv, CountInv, [Next]_vars
  PROVE  CountInv'
<1> USE SlotFacts
<1>a. ASSUME NEW id \in Ids, SlotValid(id)
      PROVE  id[1] \in Live /\ id[1] \in Slots /\ slots[id[1]].state # "Closed"
  BY <1>a, IdFacts DEF SlotValid, Live
<1>b. issued \subseteq Ids BY DEF TypeOK
<1>c. \A s \in Slots : slots[s] \in Session BY DEF TypeOK
<1>d. active \in Int /\ suspended \in Int /\ size \in Int BY DEF TypeOK
<1>1. ASSUME NEW c \in Conns, OnConnected(c) PROVE CountInv'
  <2>1. PICK s \in Slots :
          /\ FreshSlot(s)
          /\ slots' = [slots EXCEPT ![s] =
                        [FreeSession EXCEPT !.state = "Connecting", !.conn = c]]
    BY <1>1 DEF OnConnected
  <2>2. \A t \in Slots \ {s} : slots'[t].state = slots[t].state BY <2>1 DEF TypeOK
  <2>3. /\ size' = size + OneIf("Closed", "Closed") - OneIf("Connecting", "Closed")
        /\ active' = active + OneIf("Connecting", "Active") - OneIf("Closed", "Active")
        /\ suspended' = suspended + OneIf("Connecting", "Suspended")
                                  - OneIf("Closed", "Suspended")
    BY <1>d, <1>1 DEF OneIf, OnConnected, counts
  <2> QED BY <2>1, <2>2, <2>3, FreshIsFree, OneMoveKeepsCounts DEF TypeOK, FreeSession
<1>2. ASSUME NEW id \in issued, NEW p \in Players, OnAuthenticate(id, p) PROVE CountInv'
  <2>1. id[1] \in Slots /\ slots[id[1]] \in Session BY <1>2, <1>a, <1>b, <1>c DEF OnAuthenticate
  <2> DEFINE new == [slots[id[1]] EXCEPT !.state = "Authenticating"]
  <2>2. new \in Session /\ new.state = "Authenticating" BY <2>1 DEF Session, States
  <2>3. /\ Put(id[1], new) /\ UNCHANGED <<size, counts>>
        /\ slots[id[1]].state \in {"Connecting", "Authenticating"}
    BY <1>2 DEF OnAuthenticate
  <2> HIDE DEF new
  <2>4. /\ active' = active + OneIf(new.state, "Active")
                            - OneIf(slots[id[1]].state, "Active")
        /\ suspended' = suspended + OneIf(new.state, "Suspended")
                                  - OneIf(slots[id[1]].state, "Suspended")
    BY <1>d, <2>2, <2>3 DEF OneIf, counts
  <2> QED BY <2>1, <2>2, <2>3, <2>4, PutKeepsCounts
<1>3. ASSUME AuthRefused PROVE CountInv'
  <2>1. CASE SlotValid(auth.id) /\ CloseAndRemove(auth.id[1])
    BY <1>a, <1>3, <2>1, CloseKeepsCounts DEF AuthRefused, TypeOK
  <2>2. CASE UNCHANGED <<store, counts>> BY <2>2, NoMoveKeepsCounts DEF store
  <2> QED BY <1>3, <2>1, <2>2 DEF AuthRefused
<1>4. ASSUME AuthAccepted PROVE CountInv'
  <2> DEFINE new == [slots[auth.id[1]] EXCEPT !.player = auth.player,
                        !.state = "Active", !.age = 0]
  <2>1. CASE /\ slots[auth.id[1]].state = "Authenticating"
             /\ Put(auth.id[1], new)
             /\ active' = active + 1
             /\ UNCHANGED <<gens, used, free, size, suspended>>
    <3>1. auth.id[1] \in Slots /\ auth.player \in Players
      BY <1>4, IdFacts DEF AuthAccepted, TypeOK
    <3>2. new \in Session /\ new.state = "Active" BY <3>1, <1>c DEF Session, States
    <3> HIDE DEF new
    <3>3. /\ active' = active + OneIf(new.state, "Active")
                              - OneIf(slots[auth.id[1]].state, "Active")
          /\ suspended' = suspended + OneIf(new.state, "Suspended")
                                    - OneIf(slots[auth.id[1]].state, "Suspended")
      BY <1>d, <2>1, <3>2 DEF OneIf
    <3> QED BY <2>1, <3>1, <3>2, <3>3, PutKeepsCounts
  <2>2. CASE UNCHANGED <<store, counts>> BY <2>2, NoMoveKeepsCounts DEF store
  <2> QED BY <1>4, <2>1, <2>2 DEF AuthAccepted
<1>5. ASSUME NEW id \in issued, OnHeartbeat(id) PROVE CountInv'
  <2>1. id[1] \in Slots /\ slots[id[1]] \in Session BY <1>5, <1>a, <1>b, <1>c DEF OnHeartbeat
  <2> DEFINE new == [slots[id[1]] EXCEPT !.age = 0]
  <2>2. new \in Session /\ new.state = slots[id[1]].state BY <2>1 DEF Session
  <2>3. /\ Put(id[1], new) /\ UNCHANGED <<size, counts>>
        /\ slots[id[1]].state = "Active"
    BY <1>5 DEF OnHeartbeat
  <2> HIDE DEF new
  <2>4. /\ active' = active + OneIf(new.state, "Active")
                            - OneIf(slots[id[1]].state, "Active")
        /\ suspended' = suspended + OneIf(new.state, "Suspended")
                                  - OneIf(slots[id[1]].state, "Suspended")
    BY <1>d, <2>2, <2>3 DEF OneIf, counts
  <2> QED BY <2>1, <2>2, <2>3, <2>4, PutKeepsCounts
<1>6. ASSUME NEW id \in issued, OnDisconnected(id) PROVE CountInv'
  <2>1. id[1] \in Live /\ id[1] \in Slots /\ slots[id[1]] \in Session
    BY <1>6, <1>a, <1>b, <1>c DEF OnDisconnected
  <2> DEFINE new == [slots[id[1]] EXCEPT !.state = "Suspended", !.age = 0]
  <2>2. CASE /\ slots[id[1]].state = "Active"
             /\ Put(id[1], new)
             /\ active' = active - 1
             /\ suspended' = suspended + 1
             /\ UNCHANGED <<gens, used, free, size>>
    <3>1. new \in Session /\ new.state = "Suspended" BY <2>1 DEF Session, States
    <3> HIDE DEF new
    <3>2. /\ active' = active + OneIf(new.state, "Active")
                              - OneIf(slots[id[1]].state, "Active")
          /\ suspended' = suspended + OneIf(new.state, "Suspended")
                                    - OneIf(slots[id[1]].state, "Suspended")
      BY <1>d, <2>2, <3>1 DEF OneIf
    <3> QED BY <2>1, <2>2, <3>1, <3>2, PutKeepsCounts
  <2>3. CASE CloseAndRemove(id[1]) BY <2>1, <2>3, CloseKeepsCounts
  <2> QED BY <1>6, <2>2, <2>3 DEF OnDisconnected
<1>7. ASSUME NEW id \in issued, NEW c \in Conns, NEW v \in 0 .. MaxVersion,
             Reattach(id, c, v) PROVE CountInv'
  <2>1. id[1] \in Slots /\ slots[id[1]] \in Session BY <1>7, <1>a, <1>b, <1>c DEF Reattach
  <2> DEFINE new == [slots[id[1]] EXCEPT !.conn = c, !.version = @ + 1,
                                         !.state = "Active", !.age = 0]
  <2>2. new \in Session BY <2>1, RetakenIsTyped
  <2>3. new.state = "Active" BY <2>1 DEF Session
  <2>4. /\ Put(id[1], new) /\ UNCHANGED size
        /\ slots[id[1]].state \in {"Active", "Suspended"}
        /\ active' = active + (IF slots[id[1]].state = "Suspended" THEN 1 ELSE 0)
        /\ suspended' = suspended
                          - (IF slots[id[1]].state = "Suspended" THEN 1 ELSE 0)
    BY <1>7 DEF Reattach
  <2> HIDE DEF new
  <2>5. /\ active' = active + OneIf(new.state, "Active")
                            - OneIf(slots[id[1]].state, "Active")
        /\ suspended' = suspended + OneIf(new.state, "Suspended")
                                  - OneIf(slots[id[1]].state, "Suspended")
    BY <1>d, <2>3, <2>4 DEF OneIf
  <2> QED BY <2>1, <2>2, <2>3, <2>4, <2>5, PutKeepsCounts
<1>8. ASSUME Tick PROVE CountInv' BY <1>8, TickKeepsCounts
<1>9. ASSUME Elapse PROVE CountInv' BY <1>c, <1>9, NoMoveKeepsCounts DEF Elapse, Session
<1>10. CASE UNCHANGED vars BY <1>10, NoMoveKeepsCounts DEF vars, store
<1> QED BY <1>1, <1>2, <1>3, <1>4, <1>5, <1>6, <1>7, <1>8, <1>9, <1>10 DEF Next, Handle

LEMMA CountInit == Init => CountInv
<1> SUFFICES ASSUME Init PROVE CountInv OBVIOUS
<1> QED BY SlotsFinite, FS_EmptySet, SessionsAssumption DEF Init, CountInv, At, FreeSession

(* The O(1) allocator neither loses a slot nor hands one out twice, and     *)
(* size_ is the number of sessions, for any capacity and any behaviour.     *)
THEOREM NoSlotIsLost == Spec => []SlotsAccountedFor
<1>1. Init => TypeOK /\ SlotInv /\ CountInv BY TypeInit, SlotInit, CountInit
<1>2. TypeOK /\ SlotInv /\ CountInv /\ [Next]_vars => (TypeOK /\ SlotInv /\ CountInv)'
  BY TypeStep, SlotStep, CountStep
<1>3. TypeOK /\ SlotInv /\ CountInv => SlotsAccountedFor BY CountGivesProperties
<1> QED BY <1>1, <1>2, <1>3, PTL DEF Spec

(* ActiveCount() and SuspendedCount() are exact after every handler.        *)
THEOREM CountersAreExact == Spec => []CountersAgree
<1>1. Init => TypeOK /\ SlotInv /\ CountInv BY TypeInit, SlotInit, CountInit
<1>2. TypeOK /\ SlotInv /\ CountInv /\ [Next]_vars => (TypeOK /\ SlotInv /\ CountInv)'
  BY TypeStep, SlotStep, CountStep
<1>3. TypeOK /\ SlotInv /\ CountInv => CountersAgree BY CountGivesProperties
<1> QED BY <1>1, <1>2, <1>3, PTL DEF Spec

------------------------------------------------------------------------------
(* The grace period.  AuthRefused closes whatever session it finds; it is   *)
(* harmless because that session never left the login in the meantime.      *)

LoggingIn == {"Connecting", "Authenticating"}

AuthInv ==
    auth # NoAuth /\ SlotValid(auth.id) => slots[auth.id[1]].state \in LoggingIn

LEMMA AuthInit == Init => AuthInv
BY DEF Init, AuthInv

LEMMA AuthSlot ==
  ASSUME TypeOK, auth # NoAuth
  PROVE  auth.id \in Ids /\ auth.id[1] \in Slots /\ auth.player \in Players
BY IdFacts DEF TypeOK

(* A step that leaves the login in flight keeps AuthInv when it moves the   *)
(* generations only of slots it closes, and logs nobody else in.            *)
LEMMA SameLoginKeepsAuthInv ==
  ASSUME TypeOK, AuthInv, auth' = auth, used' = used,
         \A s \in Slots : slots[s].state = "Closed" => slots'[s].state = "Closed",
         \A s \in Slots : slots[s].state \in LoggingIn
              => slots'[s].state \in LoggingIn \cup {"Closed"},
         \A s \in Slots : gens'[s] = gens[s] \/ slots'[s].state = "Closed"
  PROVE  AuthInv'
<1> SUFFICES ASSUME auth' # NoAuth, SlotValid(auth.id)'
             PROVE  slots'[auth'.id[1]].state \in LoggingIn
  BY DEF AuthInv
<1>1. auth.id[1] \in Slots BY AuthSlot
<1> QED BY <1>1 DEF AuthInv, SlotValid

LEMMA AuthStep == TypeOK /\ AuthInv /\ [Next]_vars => AuthInv'
<1> SUFFICES ASSUME TypeOK, AuthInv, [Next]_vars PROVE AuthInv' OBVIOUS
<1>1. ASSUME NEW c \in Conns, OnConnected(c) PROVE AuthInv'
  <2>1. PICK s \in Slots :
          /\ FreshSlot(s)
          /\ slots' = [slots EXCEPT ![s] =
                        [FreeSession EXCEPT !.state = "Connecting", !.conn = c]]
          /\ used' = IF free[s] > 0 THEN used ELSE used + 1
    BY <1>1 DEF OnConnected
  <2>2. auth' = auth /\ gens' = gens BY <1>1 DEF OnConnected
  <2>3. \A t \in Slots : t # s => slots'[t] = slots[t] BY <2>1 DEF TypeOK
  <2>4. ASSUME auth' # NoAuth, SlotValid(auth.id)', auth.id[1] # s
        PROVE  slots'[auth.id[1]].state \in LoggingIn
    <3>1. auth.id[1] \in Slots /\ auth.id[1] \in Int /\ s \in Int
      BY <2>2, <2>4, AuthSlot DEF Slots
    <3>2. SlotValid(auth.id) BY <2>1, <2>2, <2>3, <2>4, <3>1 DEF SlotValid, FreshSlot, TypeOK
    <3> QED BY <2>2, <2>3, <2>4, <3>1, <3>2 DEF AuthInv
  <2> QED BY <2>1, <2>2, <2>4 DEF AuthInv, LoggingIn, TypeOK, FreeSession
<1>2. ASSUME NEW id \in issued, NEW p \in Players, OnAuthenticate(id, p) PROVE AuthInv'
  <2>1. slots'[id[1]].state = "Authenticating"
    BY <1>2, IdFacts DEF OnAuthenticate, Put, TypeOK, Session
  <2> QED BY <1>2, <2>1 DEF AuthInv, LoggingIn, OnAuthenticate
<1>3. ASSUME AuthRefused \/ AuthAccepted PROVE AuthInv'
  BY <1>3 DEF AuthRefused, AuthAccepted, AuthInv
<1>4. ASSUME NEW id \in issued, OnHeartbeat(id) PROVE AuthInv'
  <2>1. \A s \in Slots : slots'[s].state = slots[s].state
    BY <1>4, IdFacts DEF OnHeartbeat, Put, TypeOK, Session
  <2> QED BY <1>4, <2>1, SameLoginKeepsAuthInv DEF OnHeartbeat
<1>5. ASSUME NEW id \in issued, OnDisconnected(id) PROVE AuthInv'
  <2>1. id[1] \in Slots /\ auth' = auth BY <1>5, IdFacts DEF TypeOK, OnDisconnected
  <2>2. CASE slots[id[1]].state = "Active"
    <3>1. Put(id[1], [slots[id[1]] EXCEPT !.state = "Suspended", !.age = 0])
      BY <1>5, <2>2 DEF OnDisconnected
    <3>2. slots'[id[1]].state = "Suspended" BY <2>1, <3>1 DEF Put, TypeOK, Session
    <3>3. \A s \in Slots : s # id[1] => slots'[s] = slots[s] BY <2>1, <3>1 DEF Put, TypeOK
    <3> QED BY <1>5, <2>2, <3>2, <3>3, SameLoginKeepsAuthInv DEF LoggingIn, OnDisconnected
  <2>3. CASE CloseAndRemove(id[1])
    <3>1. \A s \in Slots : slots'[s] = IF s = id[1] THEN FreeSession ELSE slots[s]
      BY <2>1, <2>3 DEF CloseAndRemove, Released
    <3>2. FreeSession.state = "Closed" BY DEF FreeSession
    <3> QED BY <2>1, <2>3, <3>1, <3>2, SameLoginKeepsAuthInv DEF CloseAndRemove, Remove
  <2> QED BY <1>5, <2>2, <2>3 DEF OnDisconnected
<1>6. ASSUME NEW id \in issued, NEW c \in Conns, NEW v \in 0 .. MaxVersion,
             Reattach(id, c, v) PROVE AuthInv'
  <2>1. id[1] \in Slots BY IdFacts DEF TypeOK
  <2>2. \A s \in Slots : s # id[1] => slots'[s] = slots[s]
    BY <1>6, <2>1 DEF Reattach, Put, TypeOK
  <2>3. UNCHANGED <<auth, used, gens>> BY <1>6 DEF Reattach
  <2>4. slots[id[1]].state \in {"Suspended", "Active"} BY <1>6 DEF Reattach
  <2> QED
    BY <1>6, <2>1, <2>2, <2>3, <2>4, SameLoginKeepsAuthInv DEF LoggingIn, Reattach, Put, TypeOK,
       Session
<1>7. ASSUME Tick PROVE AuthInv'
  <2>1. auth' = auth /\ used' = used BY <1>7 DEF Tick, Remove
  <2>2. \A s \in Slots : slots'[s] =
            IF s \in Expired THEN FreeSession
            ELSE IF s \in Silent
                 THEN [slots[s] EXCEPT !.state = "Suspended", !.age = 0]
            ELSE slots[s]
    BY <1>7 DEF Tick
  <2>3. \A s \in Slots : s \notin Expired => gens'[s] = gens[s] BY <1>7 DEF Tick, Remove
  <2>4. FreeSession.state = "Closed" BY DEF FreeSession
  <2>5. \A s \in Slots : s \in Silent /\ s \notin Expired
                            => slots'[s].state = "Suspended"
    BY <2>2 DEF TypeOK, Session
  <2> QED
    BY <2>1, <2>2, <2>3, <2>4, <2>5, SameLoginKeepsAuthInv DEF LoggingIn, Expired, Silent, In
<1>8. ASSUME Elapse PROVE AuthInv'
  <2>1. UNCHANGED <<auth, used, gens>> BY <1>8 DEF Elapse
  <2> QED BY <1>8, <2>1, SameLoginKeepsAuthInv DEF Elapse, TypeOK, Session
<1>9. CASE UNCHANGED vars BY <1>9 DEF AuthInv, SlotValid, vars, store
<1> QED BY <1>1, <1>2, <1>3, <1>4, <1>5, <1>6, <1>7, <1>8, <1>9 DEF Next, Handle

(* Whatever handler runs, a session that is being suspended starts its      *)
(* grace period then, and no handler releases it before that is over.       *)
THEOREM GraceIsNeverCutShort == Spec => GraceIsKept
<1> DEFINE Kept ==
        \A s \in Slots :
            /\ slots[s].state = "Active" /\ slots'[s].state = "Suspended"
                   => slots'[s].age = 0
            /\ slots[s].state = "Suspended" /\ slots[s].age <= Grace
                   => slots'[s].state # "Closed"
<1>1. Init => TypeOK /\ AuthInv BY TypeInit, AuthInit
<1>2. TypeOK /\ AuthInv /\ [Next]_vars => (TypeOK /\ AuthInv)' BY TypeStep, AuthStep
<1>3. TypeOK /\ AuthInv /\ [Next]_vars => [Kept]_vars
  <2> SUFFICES ASSUME TypeOK, AuthInv, Next, NEW s \in Slots
               PROVE  /\ slots[s].state = "Active" /\ slots'[s].state = "Suspended"
                           => slots'[s].age = 0
                      /\ slots[s].state = "Suspended" /\ slots[s].age <= Grace
                           => slots'[s].state # "Closed"
    OBVIOUS
  <2> DEFINE Fine ==
        /\ slots[s].state = "Active" /\ slots'[s].state = "Suspended"
               => slots'[s].age = 0
        /\ slots[s].state = "Suspended" /\ slots[s].age <= Grace
               => slots'[s].state # "Closed"
  <2>0. slots[s] \in Session BY DEF TypeOK
  <2>1. ASSUME slots'[s] = slots[s] PROVE Fine BY <2>1
  <2>2. ASSUME NEW t \in Slots, slots[t].state \in LoggingIn, slots' = Released({t})
        PROVE  Fine
    BY <2>1, <2>2 DEF Released, LoggingIn
  <2>3. ASSUME NEW c \in Conns, OnConnected(c) PROVE Fine
    <3>1. PICK t \in Slots :
            slots' = [slots EXCEPT ![t] =
                        [FreeSession EXCEPT !.state = "Connecting", !.conn = c]]
      BY <2>3 DEF OnConnected
    <3>2. s # t => slots'[s] = slots[s] BY <3>1 DEF TypeOK
    <3> QED BY <3>1, <3>2 DEF TypeOK, FreeSession
  <2>4. ASSUME NEW id \in issued, NEW p \in Players, OnAuthenticate(id, p) PROVE Fine
    BY <2>0, <2>4, IdFacts DEF OnAuthenticate, Put, TypeOK, Session
  <2>5. ASSUME AuthRefused PROVE Fine
    <3>1. CASE SlotValid(auth.id) /\ CloseAndRemove(auth.id[1])
      BY <2>2, <2>5, <3>1, AuthSlot DEF AuthInv, CloseAndRemove, AuthRefused
    <3>2. CASE UNCHANGED <<store, counts>> BY <2>1, <3>2 DEF store
    <3> QED BY <2>5, <3>1, <3>2 DEF AuthRefused
  <2>6. ASSUME AuthAccepted PROVE Fine
    <3>1. CASE SlotValid(auth.id) /\ slots[auth.id[1]].state = "Authenticating"
      <4>1. auth.id[1] \in Slots BY <2>6, AuthSlot DEF AuthAccepted
      <4> QED BY <2>0, <2>6, <3>1, <4>1 DEF Put, TypeOK, Session, AuthAccepted
    <3>2. CASE UNCHANGED <<store, counts>> BY <2>1, <3>2 DEF store
    <3> QED BY <2>6, <3>1, <3>2 DEF AuthAccepted
  <2>7. ASSUME NEW id \in issued, OnHeartbeat(id) PROVE Fine
    BY <2>0, <2>7, IdFacts DEF OnHeartbeat, Put, TypeOK, Session
  <2>8. ASSUME NEW id \in issued, OnDisconnected(id) PROVE Fine
    <3>1. id[1] \in Slots BY IdFacts DEF TypeOK
    <3>2. CASE Put(id[1], [slots[id[1]] EXCEPT !.state = "Suspended", !.age = 0])
      BY <2>0, <3>1, <3>2 DEF Put, TypeOK, Session
    <3>3. CASE slots[id[1]].state \in LoggingIn /\ CloseAndRemove(id[1])
      BY <2>2, <3>1, <3>3 DEF CloseAndRemove
    <3> QED BY <2>8, <3>2, <3>3 DEF OnDisconnected, LoggingIn
  <2>9. ASSUME NEW id \in issued, NEW c \in Conns, NEW v \in 0 .. MaxVersion,
               Reattach(id, c, v) PROVE Fine
    <3>1. id[1] \in Slots BY IdFacts DEF TypeOK
    <3>2. s # id[1] => slots'[s] = slots[s] BY <2>9, <3>1 DEF Reattach, Put, TypeOK
    <3> QED BY <2>9, <3>1, <3>2 DEF Reattach, Put, TypeOK, Session
  <2>10. ASSUME Tick PROVE Fine
    <3>1. slots'[s] =
            IF s \in Expired THEN FreeSession
            ELSE IF s \in Silent
                 THEN [slots[s] EXCEPT !.state = "Suspended", !.age = 0]
            ELSE slots[s]
      BY <2>10 DEF Tick
    <3>2. s \notin Expired /\ s \in Silent =>
             /\ slots[s].state = "Active"
             /\ slots'[s].age = 0
      BY <2>0, <3>1 DEF Silent, In, Session
    <3> QED BY <2>0, <3>1, <3>2, SessionsAssumption DEF Expired, In, Session, MaxAge
  <2>11. ASSUME Elapse PROVE Fine BY <2>0, <2>11 DEF Elapse, Session
  <2> QED BY <2>3, <2>4, <2>5, <2>6, <2>7, <2>8, <2>9, <2>10, <2>11 DEF Next, Handle
<1> QED BY <1>1, <1>2, <1>3, PTL DEF Spec, GraceIsKept

------------------------------------------------------------------------------
(* Ids and versions.  What a step does to the identity of sessions: one is  *)
(* opened, one is taken over, or some (perhaps none) are released.          *)

Opens(s) ==
    /\ s \notin Live /\ Live' = Live \cup {s}
    /\ gens' = gens /\ taken' = taken
    /\ issued' = issued \cup {<<s, gens[s]>>}
    /\ Cardinality(issued) < MaxOpens
    /\ \A t \in Slots \ {s} : slots'[t] = slots[t]

TakesOver(id, v) ==
    /\ id[1] \in Live /\ gens[id[1]] = id[2]
    /\ Live' = Live /\ gens' = gens /\ issued' = issued
    /\ taken' = taken \cup {<<id, v>>}
    /\ slots[id[1]].version = v /\ slots'[id[1]].version = v + 1
    /\ \A t \in Slots \ {id[1]} : slots'[t] = slots[t]

Releases(S) ==
    /\ Live' = Live \ S
    /\ \A s \in Slots : gens'[s] = IF s \in S THEN (gens[s] + 1) % Generations
                                    ELSE gens[s]
    /\ issued' = issued /\ taken' = taken
    /\ \A s \in Live \ S : slots'[s].version = slots[s].version

LEMMA PutReleasesNothing ==
  ASSUME TypeOK, NEW s \in Live, NEW session \in Session, Put(s, session),
         session.state # "Closed", session.version = slots[s].version,
         UNCHANGED <<gens, issued, taken>>
  PROVE  Releases({})
<1>1. s \in Slots /\ slots[s].state # "Closed" BY DEF Live
<1>2. \A t \in Slots : slots'[t].version = slots[t].version BY <1>1 DEF Put, TypeOK
<1>3. Live \subseteq Slots BY DEF Live
<1> QED BY <1>1, <1>2, <1>3, PutKeepsLive DEF Releases

LEMMA CloseReleases ==
  ASSUME TypeOK, NEW s \in Live, CloseAndRemove(s), UNCHANGED <<issued, taken>>
  PROVE  Releases({s})
<1>1. \A t \in Slots : gens'[t] = IF t \in {s} THEN (gens[t] + 1) % Generations
                                  ELSE gens[t]
  BY DEF CloseAndRemove, Remove
<1>2. \A t \in Live \ {s} : slots'[t] = slots[t] BY DEF CloseAndRemove, Released, Live
<1> QED BY <1>1, <1>2, ReleaseShrinksLive DEF Releases, CloseAndRemove

LEMMA NothingReleases ==
  ASSUME UNCHANGED <<slots, gens, issued, taken>>
  PROVE  Releases({})
BY DEF Releases, Live

LEMMA StepShape ==
  ASSUME TypeOK, SlotInv, [Next]_vars
  PROVE  \/ \E s \in Slots : Opens(s)
         \/ \E id \in issued : \E v \in Nat : TakesOver(id, v)
         \/ \E S \in SUBSET Live : Releases(S)
<1> DEFINE Goal == \/ \E s \in Slots : Opens(s)
                   \/ \E id \in issued : \E v \in Nat : TakesOver(id, v)
                   \/ \E S \in SUBSET Live : Releases(S)
<1>a. ASSUME NEW id \in Ids, SlotValid(id)
      PROVE  id[1] \in Live /\ id[1] \in Slots /\ slots[id[1]] \in Session
  BY <1>a, IdFacts DEF SlotValid, Live, TypeOK
<1>b. issued \subseteq Ids BY DEF TypeOK
<1>c. ASSUME Releases({}) PROVE Goal BY <1>c
<1>d. ASSUME NEW s \in Live, Releases({s}) PROVE Goal BY <1>d
<1>1. ASSUME NEW c \in Conns, OnConnected(c) PROVE Goal
  <2>1. PICK s \in Slots :
          /\ FreshSlot(s)
          /\ slots' = [slots EXCEPT ![s] =
                        [FreeSession EXCEPT !.state = "Connecting", !.conn = c]]
          /\ issued' = issued \cup {<<s, gens[s]>>}
    BY <1>1 DEF OnConnected
  <2>2. \A t \in Slots \ {s} : slots'[t] = slots[t] BY <2>1 DEF TypeOK
  <2>3. Live' = Live \cup {s} BY <2>1, <2>2 DEF Live, TypeOK, FreeSession
  <2>4. gens' = gens /\ taken' = taken /\ Cardinality(issued) < MaxOpens BY <1>1 DEF OnConnected
  <2>5. Opens(s) BY <2>1, <2>2, <2>3, <2>4, FreshIsFree DEF Opens
  <2> QED BY <2>5
<1>2. ASSUME NEW id \in issued, NEW p \in Players, OnAuthenticate(id, p) PROVE Goal
  <2>1. SlotValid(id) /\ UNCHANGED <<gens, issued, taken>> BY <1>2 DEF OnAuthenticate
  <2>2. id[1] \in Live /\ slots[id[1]] \in Session BY <1>a, <1>b, <2>1
  <2>3. Put(id[1], [slots[id[1]] EXCEPT !.state = "Authenticating"]) BY <1>2 DEF OnAuthenticate
  <2> QED BY <1>c, <2>1, <2>2, <2>3, PutReleasesNothing DEF Session, States
<1>3. ASSUME AuthRefused PROVE Goal
  <2>1. auth.id \in Ids /\ UNCHANGED <<issued, taken>> BY <1>3, AuthSlot DEF AuthRefused
  <2>2. CASE SlotValid(auth.id) /\ CloseAndRemove(auth.id[1])
    BY <1>a, <1>d, <2>1, <2>2, CloseReleases
  <2>3. CASE UNCHANGED <<store, counts>> BY <1>c, <2>1, <2>3, NothingReleases DEF store
  <2> QED BY <1>3, <2>2, <2>3 DEF AuthRefused
<1>4. ASSUME AuthAccepted PROVE Goal
  <2>1. auth.id \in Ids /\ auth.player \in Players /\ UNCHANGED <<issued, taken>>
    BY <1>4, AuthSlot DEF AuthAccepted
  <2>2. CASE SlotValid(auth.id) /\ slots[auth.id[1]].state = "Authenticating"
    <3> DEFINE new == [slots[auth.id[1]] EXCEPT
                    !.player = auth.player, !.state = "Active", !.age = 0]
    <3>1. Put(auth.id[1], new) /\ gens' = gens BY <1>4, <2>2 DEF AuthAccepted
    <3>2. auth.id[1] \in Live /\ slots[auth.id[1]] \in Session BY <1>a, <2>1, <2>2
    <3>3. /\ new \in Session /\ new.state # "Closed"
          /\ new.version = slots[auth.id[1]].version
      BY <2>1, <3>2, SlotFacts DEF Session, States
    <3> QED BY <1>c, <2>1, <3>1, <3>2, <3>3, PutReleasesNothing
  <2>3. CASE UNCHANGED <<store, counts>> BY <1>c, <2>1, <2>3, NothingReleases DEF store
  <2> QED BY <1>4, <2>2, <2>3 DEF AuthAccepted
<1>5. ASSUME NEW id \in issued, OnHeartbeat(id) PROVE Goal
  <2>1. SlotValid(id) /\ UNCHANGED <<gens, issued, taken>> BY <1>5 DEF OnHeartbeat
  <2>2. id[1] \in Live /\ slots[id[1]] \in Session BY <1>a, <1>b, <2>1
  <2>3. /\ [slots[id[1]] EXCEPT !.age = 0] \in Session
        /\ [slots[id[1]] EXCEPT !.age = 0].state # "Closed"
        /\ [slots[id[1]] EXCEPT !.age = 0].version = slots[id[1]].version
    BY <1>5, <2>2, SlotFacts DEF Session, States, OnHeartbeat
  <2> QED BY <1>c, <1>5, <2>1, <2>2, <2>3, PutReleasesNothing DEF OnHeartbeat
<1>6. ASSUME NEW id \in issued, OnDisconnected(id) PROVE Goal
  <2>1. SlotValid(id) /\ UNCHANGED <<issued, taken>> BY <1>6 DEF OnDisconnected
  <2>2. id[1] \in Live /\ slots[id[1]] \in Session BY <1>a, <1>b, <2>1
  <2>3. CASE slots[id[1]].state = "Active"
    <3> DEFINE new == [slots[id[1]] EXCEPT !.state = "Suspended", !.age = 0]
    <3>1. Put(id[1], new) /\ gens' = gens BY <1>6, <2>3 DEF OnDisconnected
    <3>2. /\ new \in Session /\ new.state # "Closed"
          /\ new.version = slots[id[1]].version
      BY <2>2, SlotFacts DEF Session, States
    <3> QED BY <1>c, <2>1, <2>2, <3>1, <3>2, PutReleasesNothing
  <2>4. CASE CloseAndRemove(id[1]) BY <1>d, <2>1, <2>2, <2>4, CloseReleases
  <2> QED BY <1>6, <2>3, <2>4 DEF OnDisconnected
<1>7. ASSUME NEW id \in issued, NEW c \in Conns, NEW v \in 0 .. MaxVersion,
             Reattach(id, c, v) PROVE Goal
  <2>1. SlotValid(id) /\ slots[id[1]].version = v BY <1>7 DEF Reattach
  <2>2. id[1] \in Live /\ slots[id[1]] \in Session /\ id[1] \in Slots BY <1>a, <1>b, <2>1
  <2> DEFINE new == [slots[id[1]] EXCEPT !.conn = c, !.version = @ + 1,
                                         !.state = "Active", !.age = 0]
  <2>3. Put(id[1], new) BY <1>7 DEF Reattach
  <2>4. new \in Session BY <2>2, RetakenIsTyped
  <2>5. new.state # "Closed" /\ new.version = v + 1 BY <2>1, <2>2 DEF Session
  <2> HIDE DEF new
  <2>6. Live' = Live BY <2>2, <2>3, <2>4, <2>5, PutKeepsLive DEF Live
  <2>7. slots'[id[1]] = new /\ \A t \in Slots \ {id[1]} : slots'[t] = slots[t]
    BY <2>2, <2>3 DEF Put, TypeOK
  <2>8. gens' = gens /\ issued' = issued /\ taken' = taken \cup {<<id, v>>} BY <1>7 DEF Reattach
  <2>9. TakesOver(id, v) BY <2>1, <2>2, <2>5, <2>6, <2>7, <2>8 DEF TakesOver, SlotValid
  <2> QED BY <2>9, SessionsAssumption
<1>8. ASSUME Tick PROVE Goal
  <2>1. Live' = Live \ Expired /\ Expired \in SUBSET Live BY <1>8, LiveAfterTick
  <2>2. Remove(Expired) /\ UNCHANGED <<issued, taken>> BY <1>8 DEF Tick
  <2>3. \A s \in Slots : s \notin Expired => slots'[s].version = slots[s].version
    BY <1>8 DEF Tick, TypeOK, Session
  <2>4. Live \subseteq Slots BY DEF Live
  <2>5. Releases(Expired) BY <2>1, <2>2, <2>3, <2>4 DEF Releases, Remove
  <2> QED BY <2>1, <2>5
<1>9. ASSUME Elapse PROVE Goal
  <2>1. \A s \in Slots : /\ slots'[s].state = slots[s].state
                         /\ slots'[s].version = slots[s].version
    BY <1>9 DEF Elapse, TypeOK, Session
  <2>2. Live' = Live /\ Live \subseteq Slots BY <2>1 DEF Live
  <2>3. Releases({}) BY <1>9, <2>1, <2>2 DEF Releases, Elapse
  <2> QED BY <1>c, <2>3
<1>10. CASE UNCHANGED vars BY <1>c, <1>10, NothingReleases DEF vars, store
<1> QED BY <1>1, <1>2, <1>3, <1>4, <1>5, <1>6, <1>7, <1>8, <1>9, <1>10 DEF Next, Handle

(* The ids handed out for a slot are exactly its generations so far: every  *)
(* generation before the current one, and that one while it is in use.      *)
FreshInv ==
    /\ IsFiniteSet(issued) /\ Cardinality(issued) <= MaxOpens
    /\ \A s \in Slots : 1 <= gens[s]
    /\ \A s \in Slots : \A g \in 0 .. Generations - 1 :
            <<s, g>> \in issued <=>
                1 <= g /\ g <= gens[s] /\ (g = gens[s] => s \in Live)

LEMMA FreshInit == Init => FreshInv
<1> SUFFICES ASSUME Init PROVE FreshInv OBVIOUS
<1>1. issued = {} /\ Live = {} /\ \A s \in Slots : gens[s] = 1 BY DEF Init, Live, FreeSession
<1> QED BY <1>1, FS_EmptySet, SessionsAssumption DEF FreshInv

(* A slot in use has not outgrown the number of ids handed out.             *)
LEMMA GenerationsBounded ==
  ASSUME TypeOK, FreshInv, NEW s \in Live
  PROVE  gens[s] <= MaxOpens
<1>1. s \in Slots /\ gens[s] \in 0 .. Generations - 1 BY DEF TypeOK, Live
<1> DEFINE f == [g \in 1 .. gens[s] |-> <<s, g>>]
<1>2. f \in Injection(1 .. gens[s], issued)
  BY <1>1, SessionsAssumption DEF Injection, IsInjective, FreshInv
<1>3. Cardinality(1 .. gens[s]) = gens[s] BY <1>1, FS_Interval, SessionsAssumption
<1>4. Cardinality(issued) \in Nat BY FS_CardinalityType DEF FreshInv
<1> QED BY <1>1, <1>2, <1>3, <1>4, FS_Injection, SessionsAssumption DEF FreshInv

LEMMA FreshStep ==
  ASSUME MaxOpens + 1 < Generations, TypeOK, SlotInv, FreshInv, [Next]_vars
  PROVE  FreshInv'
<1>a. \A s \in Slots : gens[s] \in 0 .. Generations - 1 BY DEF TypeOK
<1>b. Cardinality(issued) \in Nat BY FS_CardinalityType DEF FreshInv
<1>1. ASSUME NEW s \in Slots, Opens(s) PROVE FreshInv'
  <2>1. IsFiniteSet(issued') /\ Cardinality(issued') <= Cardinality(issued) + 1
    <3>1. issued' = issued \cup {<<s, gens[s]>>} /\ IsFiniteSet(issued)
      BY <1>1 DEF Opens, FreshInv
    <3>2. /\ IsFiniteSet(issued \cup {<<s, gens[s]>>})
          /\ Cardinality(issued \cup {<<s, gens[s]>>}) =
                IF <<s, gens[s]>> \in issued THEN Cardinality(issued)
                ELSE Cardinality(issued) + 1
      BY <3>1, FS_AddElement
    <3> QED BY <1>b, <3>1, <3>2
  <2>2. Cardinality(issued') <= MaxOpens
    BY <1>1, <1>b, <2>1, FS_CardinalityType, SessionsAssumption DEF Opens
  <2>3. ASSUME NEW t \in Slots, NEW g \in 0 .. Generations - 1
        PROVE  <<t, g>> \in issued' <=>
                1 <= g /\ g <= gens'[t] /\ (g = gens'[t] => t \in Live')
    <3>1. gens'[t] = gens[t] /\ (t \in Live' <=> t \in Live \/ t = s) BY <1>1 DEF Opens
    <3>2. <<t, g>> \in issued <=>
                1 <= g /\ g <= gens[t] /\ (g = gens[t] => t \in Live)
      BY DEF FreshInv
    <3>3. 1 <= gens[s] BY DEF FreshInv
    <3> QED BY <1>a, <1>1, <3>1, <3>2, <3>3 DEF Opens
  <2> QED BY <1>1, <2>1, <2>2, <2>3 DEF FreshInv, Opens
<1>2. ASSUME NEW id \in issued, NEW v \in Nat, TakesOver(id, v) PROVE FreshInv'
  BY <1>2 DEF TakesOver, FreshInv
<1>3. ASSUME NEW S \in SUBSET Live, Releases(S) PROVE FreshInv'
  <2>1. ASSUME NEW t \in S PROVE gens'[t] = gens[t] + 1
    <3>1. t \in Live /\ t \in Slots BY DEF Live
    <3>2. gens[t] + 1 \in 0 .. Generations - 1
      BY <1>a, <3>1, GenerationsBounded, SessionsAssumption
    <3>3. \A n \in 0 .. Generations - 1 : n % Generations = n BY SessionsAssumption
    <3> QED BY <1>3, <3>1, <3>2, <3>3 DEF Releases
  <2>2. issued' = issued BY <1>3 DEF Releases
  <2>3. ASSUME NEW t \in Slots, NEW g \in 0 .. Generations - 1
        PROVE  <<t, g>> \in issued' <=>
                1 <= g /\ g <= gens'[t] /\ (g = gens'[t] => t \in Live')
    <3>1. <<t, g>> \in issued <=>
                1 <= g /\ g <= gens[t] /\ (g = gens[t] => t \in Live)
      BY DEF FreshInv
    <3>2. CASE t \in S BY <1>a, <1>3, <2>1, <2>2, <3>1, <3>2 DEF Releases
    <3>3. CASE t \notin S BY <1>3, <2>2, <3>1, <3>3 DEF Releases
    <3> QED BY <3>2, <3>3
  <2>4. \A t \in Slots : 1 <= gens'[t] BY <1>a, <1>3, <2>1 DEF FreshInv, Releases
  <2> QED BY <2>2, <2>3, <2>4 DEF FreshInv
<1> QED BY <1>1, <1>2, <1>3, StepShape

(* As long as fewer sessions are opened than an id has generations for,     *)
(* OnConnected never hands an id out twice (assumption: MaxOpens + 1 <      *)
(* Generations, where the code has 2^32 generations).                       *)
THEOREM IdsAreNeverReused ==
  ASSUME MaxOpens + 1 < Generations
  PROVE  Spec => IdsAreFresh
<1> DEFINE Fresh ==
        \A s \in Slots :
            slots[s].state = "Closed" /\ slots'[s].state # "Closed"
                => <<s, gens'[s]>> \notin issued
<1>1. Init => TypeOK /\ SlotInv /\ FreshInv BY TypeInit, SlotInit, FreshInit
<1>2. TypeOK /\ SlotInv /\ FreshInv /\ [Next]_vars => (TypeOK /\ SlotInv /\ FreshInv)'
  BY TypeStep, SlotStep, FreshStep
<1>3. TypeOK /\ SlotInv /\ FreshInv /\ [Next]_vars => [Fresh]_vars
  <2> SUFFICES ASSUME TypeOK, SlotInv, FreshInv, Next, NEW s \in Slots,
                      s \notin Live, s \in Live'
               PROVE  <<s, gens'[s]>> \notin issued
    BY DEF Live
  <2>1. gens[s] \in 0 .. Generations - 1 BY DEF TypeOK
  <2> QED BY <2>1, StepShape DEF FreshInv, Opens, TakesOver, Releases
<1> QED BY <1>1, <1>2, <1>3, PTL DEF Spec, IdsAreFresh

(* An accepted reattachment is for an id that was handed out, and if that   *)
(* session still lives its version has moved on.                            *)
TakenInv ==
    \A t \in taken :
        /\ t[1] \in issued
        /\ t[1][1] \in Live /\ gens[t[1][1]] = t[1][2]
               => t[2] < slots[t[1][1]].version

LEMMA TakenStep ==
  ASSUME MaxOpens + 1 < Generations, TypeOK, SlotInv, FreshInv, TakenInv,
         [Next]_vars
  PROVE  TakenInv'
<1> USE DEF TakenInv
<1>a. ASSUME NEW t \in taken
      PROVE  /\ t[1] \in Ids /\ t[1] \in issued /\ t[2] \in Nat
             /\ t[1][1] \in Slots /\ t[1] = <<t[1][1], t[1][2]>>
  BY DEF TypeOK, Ids
<1>1. ASSUME NEW s \in Slots, Opens(s) PROVE TakenInv'
  <2> SUFFICES ASSUME NEW t \in taken, t[1][1] \in Live', gens[t[1][1]] = t[1][2]
               PROVE  t[2] < slots'[t[1][1]].version
    BY <1>1, <1>a DEF Opens
  <2>1. CASE t[1][1] = s
    <3>1. <<s, gens[s]>> \notin issued BY <1>1 DEF FreshInv, TypeOK, Opens
    <3> QED BY <1>a, <2>1, <3>1
  <2>2. CASE t[1][1] # s BY <1>a, <1>1, <2>2 DEF Opens
  <2> QED BY <2>1, <2>2
<1>2. ASSUME NEW id \in issued, NEW v \in Nat, TakesOver(id, v) PROVE TakenInv'
  <2> SUFFICES ASSUME NEW t \in taken', t[1][1] \in Live, gens[t[1][1]] = t[1][2]
               PROVE  t[1] \in issued /\ t[2] < slots'[t[1][1]].version
    BY <1>2 DEF TakesOver
  <2>1. CASE t = <<id, v>> BY <1>2, <2>1 DEF TakesOver
  <2>2. CASE t \in taken /\ t[1][1] # id[1] BY <1>a, <1>2, <2>2 DEF TakesOver
  <2>3. CASE t \in taken /\ t[1][1] = id[1] BY <1>a, <1>2, <2>3 DEF TakesOver
  <2> QED BY <1>2, <2>1, <2>2, <2>3 DEF TakesOver
<1>3. ASSUME NEW S \in SUBSET Live, Releases(S) PROVE TakenInv'
  <2> SUFFICES ASSUME NEW t \in taken, t[1][1] \in Live', gens'[t[1][1]] = t[1][2]
               PROVE  t[2] < slots'[t[1][1]].version
    BY <1>3, <1>a DEF Releases
  <2>1. t[1][1] \in Live \ S BY <1>3 DEF Releases
  <2> QED BY <1>a, <1>3, <2>1 DEF Releases
<1> QED BY <1>1, <1>2, <1>3, StepShape

(* A reattachment that was accepted once is refused for ever after: as      *)
(* long as ids are not reused, an id and a version work once.               *)
THEOREM ReplayIsAlwaysRefused ==
  ASSUME MaxOpens + 1 < Generations
  PROVE  Spec => ReplayIsRefused
<1> DEFINE I == TypeOK /\ SlotInv /\ FreshInv /\ TakenInv
<1> DEFINE Refused ==
        \A id \in issued : \A v \in 0 .. MaxVersion :
            <<id, v>> \in taken => \A c \in Conns : ~ Reattach(id, c, v)
<1>1. Init => I BY TypeInit, SlotInit, FreshInit DEF Init, TakenInv
<1>2. I /\ [Next]_vars => I' BY TypeStep, SlotStep, FreshStep, TakenStep
<1>3. I => Refused
  <2> SUFFICES ASSUME I, NEW id \in issued, NEW v \in 0 .. MaxVersion,
                      <<id, v>> \in taken, NEW c \in Conns, Reattach(id, c, v)
               PROVE  FALSE
    OBVIOUS
  <2>1. SlotValid(id) /\ slots[id[1]].version = v BY DEF Reattach
  <2>2. v < slots[id[1]].version BY <2>1, IdFacts DEF TakenInv, SlotValid, Live, TypeOK
  <2> QED BY <2>1, <2>2
<1>4. I /\ [Next]_vars => [Refused]_vars BY <1>3
<1> QED BY <1>1, <1>2, <1>4, PTL DEF Spec, ReplayIsRefused

------------------------------------------------------------------------------
(* The reconnect service.  Whatever order it advances its records in, the   *)
(* session table only ever sees calls that any client could make.           *)

AttemptsOK ==
    /\ DOMAIN attempts \subseteq issued
    /\ \A id \in DOMAIN attempts : attempts[id] \in Attempt

LEMMA RetakeIsReattach ==
  ASSUME TypeOK, AttemptsOK, NEW id \in DOMAIN attempts, CanReattach(id)
  PROVE  /\ id \in issued /\ attempts[id].conn \in Conns
         /\ slots[id[1]].version \in 0 .. MaxVersion
<1>1. id \in issued /\ id[1] \in Slots BY IdFacts DEF AttemptsOK, TypeOK
<1>2. attempts[id].conn \in Conns BY DEF AttemptsOK, Attempt
<1> QED BY <1>1, <1>2, SessionsAssumption DEF TypeOK, Session, CanReattach

LEMMA ServiceStep ==
  ASSUME TypeOK, AttemptsOK, [RNext]_rvars
  PROVE  [Next]_vars
<1>1. CASE Handle BY <1>1 DEF Next
<1>2. ASSUME NEW id \in issued, NEW c \in Conns, NEW v \in 0 .. MaxVersion,
             Reattach(id, c, v)
      PROVE  [Next]_vars
  BY <1>2 DEF Next
<1>3. ASSUME NEW id, NEW c, Begin(id, c) PROVE UNCHANGED vars BY <1>3 DEF Begin
<1>4. ASSUME NEW id, Advance(id) PROVE [Next]_vars
  <2>1. ASSUME CanReattach(id), Reattach(id, attempts[id].conn, slots[id[1]].version)
        PROVE  [Next]_vars
    BY <1>2, <1>4, <2>1, RetakeIsReattach DEF Advance
  <2>2. ASSUME Retake(id) PROVE [Next]_vars BY <2>1, <2>2 DEF Retake
  <2> QED BY <1>4, <2>2 DEF Advance, Ask
<1>5. ASSUME NEW id, OnComplete(id) PROVE UNCHANGED vars BY <1>5 DEF OnComplete
<1>6. CASE UNCHANGED rvars BY <1>6 DEF rvars
<1> QED BY <1>1, <1>2, <1>3, <1>4, <1>5, <1>6 DEF RNext

LEMMA IssuedGrows ==
  ASSUME TypeOK, SlotInv, [Next]_vars
  PROVE  issued \subseteq issued'
BY StepShape DEF Opens, TakesOver, Releases

LEMMA MovedIsTyped ==
  ASSUME AttemptsOK, NEW id \in DOMAIN attempts,
         NEW step \in {"Reconnecting", "Authenticating", "LoadingPlayer",
                       "AttachingScene", "Resumed", "Failed"},
         MoveTo(id, step)
  PROVE  /\ DOMAIN attempts' = DOMAIN attempts
         /\ \A i \in DOMAIN attempts : attempts'[i] \in Attempt
BY DEF AttemptsOK, MoveTo, Attempt

LEMMA RTypeStep ==
  ASSUME RTypeOK, SlotInv, [RNext]_rvars
  PROVE  RTypeOK'
<1> DEFINE Connections == Conns \cup {NoSlot}
<1>a. TypeOK /\ AttemptsOK BY DEF RTypeOK, AttemptsOK
<1>c. TypeOK' /\ issued \subseteq issued' BY <1>a, ServiceStep, TypeStep, IssuedGrows
<1> DEFINE Typed == /\ DOMAIN attempts' \subseteq issued
                    /\ \A i \in DOMAIN attempts' : attempts'[i] \in Attempt
                    /\ begins' \in 0 .. MaxBegins
                    /\ superseded' \subseteq Ids \X Connections
<1>d. issued \subseteq Ids BY DEF RTypeOK, TypeOK
<1>e. ASSUME NEW id \in issued, NEW c, Supersede(id, c)
      PROVE  superseded' \subseteq Ids \X Connections
  BY <1>a, <1>d, <1>e, IdFacts DEF Supersede, RTypeOK, TypeOK, Session
<1>1. ASSUME UNCHANGED <<attempts, begins, superseded>> PROVE Typed BY <1>1 DEF RTypeOK
<1>2. ASSUME NEW id \in issued, NEW c \in Conns, Supersede(id, c),
             UNCHANGED <<attempts, begins>>
      PROVE  Typed
  BY <1>2, <1>e DEF RTypeOK
<1>3. ASSUME NEW id \in issued, NEW c \in Conns, Begin(id, c) PROVE Typed
  <2>1. [step |-> "Disconnected", conn |-> c, player |-> slots[id[1]].player]
            \in Attempt
    BY <1>a, <1>d, IdFacts DEF Attempt, TypeOK, Session
  <2>2. /\ DOMAIN attempts' = DOMAIN attempts \cup {id}
        /\ \A i \in DOMAIN attempts' : attempts'[i] \in Attempt
    BY <1>3, <2>1 DEF Begin, RTypeOK
  <2>3. DOMAIN attempts' \subseteq issued BY <2>2 DEF RTypeOK
  <2> QED BY <1>3, <2>2, <2>3, ReconnectAssumption DEF RTypeOK, Begin
<1>4. ASSUME NEW id \in issued, Advance(id) PROVE Typed
  <2>1. id \in DOMAIN attempts /\ begins' = begins BY <1>4 DEF Advance
  <2>2. /\ DOMAIN attempts' = DOMAIN attempts
        /\ \A i \in DOMAIN attempts : attempts'[i] \in Attempt
    BY <1>a, <1>4, <2>1, MovedIsTyped DEF Advance, Retake, Ask
  <2>3. superseded' \subseteq Ids \X Connections BY <1>e, <1>4 DEF RTypeOK, Advance, Retake, Ask
  <2> QED BY <2>1, <2>2, <2>3 DEF RTypeOK
<1>5. ASSUME NEW id \in issued, OnComplete(id) PROVE Typed BY <1>5 DEF OnComplete, RTypeOK
<1> QED BY <1>c, <1>1, <1>2, <1>3, <1>4, <1>5 DEF RTypeOK, RNext, rvars

(* The records of the service stay well typed, and each names an id that    *)
(* was handed out.                                                          *)
THEOREM ServiceTypeCorrect == RSpec => []RTypeOK
<1>1. RInit => RTypeOK /\ SlotInv BY TypeInit, SlotInit, ReconnectAssumption DEF RInit, RTypeOK
<1>2. RTypeOK /\ SlotInv /\ [RNext]_rvars => (RTypeOK /\ SlotInv)'
  <2> SUFFICES ASSUME RTypeOK, SlotInv, [RNext]_rvars PROVE RTypeOK' /\ SlotInv' OBVIOUS
  <2> QED BY RTypeStep, ServiceStep, SlotStep DEF RTypeOK, AttemptsOK
<1> QED BY <1>1, <1>2, PTL DEF RSpec

(* The gateway with its reconnect service implements the session layer:     *)
(* every step of the service is one legal call of SessionManager, or none.  *)
THEOREM ServiceImplementsSessions == RSpec => Spec
<1>1. RInit => Init BY DEF RInit
<1>2. RTypeOK /\ [RNext]_rvars => [Next]_vars BY ServiceStep DEF RTypeOK, AttemptsOK
<1> QED BY <1>1, <1>2, ServiceTypeCorrect, PTL DEF RSpec, Spec

(* What the session layer promises, it keeps under the reconnect service.   *)
THEOREM ServiceKeepsPromises ==
  ASSUME LoginMutex
  PROVE  RSpec => [](/\ SlotsAccountedFor /\ CountersAgree
                     /\ PlayerIndexExact /\ OneSessionPerPlayer)
BY ServiceImplementsSessions, NoSlotIsLost, CountersAreExact, IndexIsExact,
   OneSessionEach, PTL
=============================================================================
