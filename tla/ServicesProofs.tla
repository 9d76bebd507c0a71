--------------------------- MODULE ServicesProofs ---------------------------
(* Theorems about the services around the game loop, laid out as in         *)
(* NetworkProofs, and about all of them side by side.                       *)
EXTENDS MCServices, DataLemmas


------------------------------------------------------------------------------
(* Failover.  A node the directory holds, or that is not judged dead, has a *)
(* registration that no NodeDead answers yet; the node a takeover moves its *)
(* sessions to is not dead.                                                 *)
FoRoles == {FoRole[n] : n \in FoNodes} \cup {"Unknown"}
FoInfo == [status : {"none", "Healthy", "Suspect", "Dead"}, missed : Nat, load : Nat, role : FoRoles]

MonitorTypes ==
  /\ foNode \in [FoNodes -> FoInfo] /\ foDirectory \subseteq FoNodes
  /\ foAge \in [FoNodes -> Nat] /\ foEvents \in Seq(FoNodes)
  /\ foLives \in [FoNodes -> Nat] /\ foDeaths \in [FoNodes -> Nat]
SessionTypes ==
  /\ foQueue \in Seq(FoSessions) /\ foBatch \in Seq(FoSessions) /\ foOn \in [FoSessions -> FoNodes]
  /\ ~Idle => foTo \in FoNodes /\ foNode[foTo].status # "Dead"
Alive(info) == info.status \in {"Healthy", "Suspect"}
NodeFits(n) ==
  /\ foNode[n].status = "none" <=> foNode[n] = NoNode
  /\ n \in foDirectory => Alive(foNode[n])
  /\ foDeaths[n] <= foLives[n]
  /\ Alive(foNode[n]) => foDeaths[n] < foLives[n]

FailoverIInv ==
  /\ MonitorTypes /\ SessionTypes /\ StrandedIsExplained
  /\ \A n \in FoNodes : NodeFits(n)

LEMMA RangeIsMembers == \A s : Range(s) = Members(s)
BY DEF Range, Members

LEMMA FailoverStarts == FailoverInit => FailoverIInv
<1> SUFFICES ASSUME FailoverInit PROVE FailoverIInv OBVIOUS
<1>1. NoNode \in FoInfo /\ NoNode.status = "none" BY DEF NoNode, FoInfo, FoRoles
<1>2. \A n \in FoNodes : NodeFits(n) BY <1>1 DEF FailoverInit, NodeFits, Alive
<1>3. StrandedIsExplained BY <1>1, FailoverAssumption DEF FailoverInit, StrandedIsExplained
<1> QED
  BY <1>1, <1>2, <1>3, FailoverAssumption DEF FailoverIInv, FailoverInit, MonitorTypes,
     SessionTypes, Idle

(* A node that registers or is heard of again, or leaves: one entry of the  *)
(* table changes, and not to dead.                                          *)
EntryChanges(n, info) ==
  /\ n \in FoNodes /\ info \in FoInfo /\ info.status # "Dead"
  /\ info.status = "none" <=> info = NoNode
  /\ foNode' = [foNode EXCEPT ![n] = info]
  /\ foAge' \in [FoNodes -> Nat]
  /\ foLives' \in [FoNodes -> Nat] /\ \A m \in FoNodes \ {n} : foLives'[m] = foLives[m]
  /\ foLives'[n] >= foLives[n]
  /\ Alive(info) => foDeaths[n] < foLives'[n]
  /\ foDirectory' \subseteq foDirectory \cup {n}
  /\ n \in foDirectory' => Alive(info)
  /\ Idle /\ UNCHANGED <<foEvents, foDeaths, foSessionVars>>

LEMMA EntryKeeps ==
  ASSUME FailoverIInv, NEW n, NEW info, EntryChanges(n, info)
  PROVE  FailoverIInv'
<1>1. /\ n \in FoNodes /\ info \in FoInfo /\ info.status # "Dead"
      /\ info.status = "none" <=> info = NoNode
      /\ foNode' = [foNode EXCEPT ![n] = info]
      /\ foAge' \in [FoNodes -> Nat]
      /\ foLives' \in [FoNodes -> Nat] /\ \A m \in FoNodes \ {n} : foLives'[m] = foLives[m]
      /\ foLives'[n] >= foLives[n]
      /\ Alive(info) => foDeaths[n] < foLives'[n]
      /\ foDirectory' \subseteq foDirectory \cup {n}
      /\ n \in foDirectory' => Alive(info)
      /\ Idle
  BY DEF EntryChanges
<1>2. UNCHANGED <<foEvents, foDeaths, foTo, foQueue, foBatch, foOn, foFailed, foLeft>>
  BY DEF EntryChanges, foSessionVars
<1>3. MonitorTypes /\ SessionTypes /\ StrandedIsExplained BY DEF FailoverIInv
<1>4. foNode' \in [FoNodes -> FoInfo] /\ foNode'[n] = info /\ \A m \in FoNodes \ {n} : foNode'[m] = foNode[m]
  BY <1>1, <1>3 DEF MonitorTypes
<1>5. MonitorTypes' BY <1>1, <1>2, <1>3, <1>4 DEF MonitorTypes
<1>6. StrandedIsExplained' BY <1>1, <1>2, <1>3, <1>4 DEF StrandedIsExplained, SessionTypes
<1>7. ASSUME NEW m \in FoNodes PROVE NodeFits(m)'
  <2>1. NodeFits(m) /\ foDeaths[m] \in Nat /\ foLives[m] \in Nat /\ foLives'[m] \in Nat
    BY <1>1, <1>3 DEF FailoverIInv, MonitorTypes
  <2>2. CASE m = n BY <2>1, <2>2, <1>1, <1>2, <1>4 DEF NodeFits
  <2>3. CASE m # n BY <1>1, <1>2, <1>4, <2>1, <2>3 DEF NodeFits
  <2> QED BY <2>2, <2>3
<1> QED BY <1>1, <1>2, <1>3, <1>5, <1>6, <1>7 DEF FailoverIInv, SessionTypes, Idle

LEMMA FreshSnapshot ==
  ASSUME NEW load \in FoLoads, NEW role \in FoRoles, NEW status \in {"Healthy", "Suspect"}
  PROVE  LET info == Snapshot(status, 0, load, role) IN
         /\ info \in FoInfo /\ info.status = status /\ info # NoNode /\ Alive(info)
<1> QED BY FailoverAssumption DEF Snapshot, FoInfo, NoNode, Alive

LEMMA RegisterFits ==
  ASSUME FailoverIInv, NEW n \in FoNodes, MonitorRegister(n)
  PROVE  FailoverIInv'
<1>1. PICK load \in FoLoads : foNode' = [foNode EXCEPT ![n] = Snapshot("Healthy", 0, load, FoRole[n])]
  BY DEF MonitorRegister
<1> DEFINE info == Snapshot("Healthy", 0, load, FoRole[n])
<1>2. info \in FoInfo /\ info.status = "Healthy" /\ info # NoNode /\ Alive(info)
  BY FreshSnapshot DEF FoRoles
<1> HIDE DEF info
<1>3. /\ foAge' \in [FoNodes -> Nat] /\ foLives' \in [FoNodes -> Nat]
      /\ \A m \in FoNodes \ {n} : foLives'[m] = foLives[m]
      /\ foLives'[n] >= foLives[n] /\ foDeaths[n] < foLives'[n]
  BY DEF MonitorRegister, MonitorTypes, NodeFits, FailoverIInv
<1>4. EntryChanges(n, info) BY <1>1, <1>2, <1>3 DEF EntryChanges, MonitorRegister, info
<1> QED BY <1>4, EntryKeeps

LEMMA HeartbeatFits ==
  ASSUME FailoverIInv, NEW n \in FoNodes, MonitorHeartbeat(n)
  PROVE  FailoverIInv'
<1>1. MonitorTypes /\ NodeFits(n) /\ n \in foDirectory BY DEF FailoverIInv, MonitorHeartbeat
<1>2. Alive(foNode[n]) /\ foNode[n] # NoNode /\ foNode[n] \in FoInfo
  BY <1>1 DEF NodeFits, MonitorTypes, Alive
<1>3. PICK load \in FoLoads :
          foNode' = [foNode EXCEPT ![n] = Snapshot(IF foNode[n].status = "Suspect" THEN "Healthy"
                                                   ELSE foNode[n].status, 0, load, foNode[n].role)]
  BY <1>1, <1>2 DEF MonitorHeartbeat, MonitorTypes
<1> DEFINE status == IF foNode[n].status = "Suspect" THEN "Healthy" ELSE foNode[n].status
           info == Snapshot(status, 0, load, foNode[n].role)
<1>4. foNode[n].role \in FoRoles /\ status \in {"Healthy", "Suspect"} BY <1>2 DEF FoInfo, Alive
<1> HIDE DEF status
<1>5. info \in FoInfo /\ info.status = status /\ info # NoNode /\ Alive(info)
  BY <1>4, FreshSnapshot
<1> HIDE DEF info
<1>6. EntryChanges(n, info)
  <2>1. info.status # "Dead" /\ info.status # "none" BY <1>4, <1>5
  <2>2. /\ foAge' \in [FoNodes -> Nat] /\ foLives' = foLives /\ foLives' \in [FoNodes -> Nat]
        /\ foLives'[n] >= foLives[n] /\ foDeaths[n] < foLives'[n]
    BY <1>1, <1>2 DEF MonitorHeartbeat, MonitorTypes, NodeFits
  <2> QED BY <1>3, <1>5, <2>1, <2>2 DEF EntryChanges, MonitorHeartbeat, info, status
<1> QED BY <1>6, EntryKeeps

LEMMA UnregisterFits ==
  ASSUME FailoverIInv, NEW n \in FoNodes, MonitorUnregister(n)
  PROVE  FailoverIInv'
<1>1. NoNode \in FoInfo /\ NoNode.status = "none" /\ ~Alive(NoNode)
  BY DEF NoNode, FoInfo, FoRoles, Alive
<1>2. EntryChanges(n, NoNode)
  BY <1>1 DEF EntryChanges, MonitorUnregister, MonitorTypes, NodeFits, FailoverIInv
<1> QED BY <1>2, EntryKeeps

LEMMA SilenceFits ==
  ASSUME FailoverIInv, SilencePasses
  PROVE  FailoverIInv'
<1>1. /\ foAge' = [n \in FoNodes |-> IF foAge[n] < DeadAfter THEN foAge[n] + 1 ELSE foAge[n]]
      /\ UNCHANGED <<foNode, foDirectory, foEvents, foLives, foDeaths, foTo, foQueue, foBatch, foOn,
                     foFailed, foLeft>>
  BY DEF SilencePasses, foSessionVars
<1>2. MonitorTypes /\ SessionTypes /\ StrandedIsExplained /\ \A n \in FoNodes : NodeFits(n)
  BY DEF FailoverIInv
<1>3. MonitorTypes' /\ SessionTypes' /\ StrandedIsExplained' /\ \A n \in FoNodes : NodeFits(n)'
  BY <1>1, <1>2 DEF MonitorTypes, SessionTypes, StrandedIsExplained, NodeFits, Idle
<1> QED BY <1>3 DEF FailoverIInv

(* What a Tick makes of a node.                                             *)
LEMMA JudgedFits ==
  ASSUME NEW info \in FoInfo, Alive(info), NEW missed \in Nat
  PROVE  LET j == Judged(info, missed) IN
         /\ j \in FoInfo /\ j # NoNode
         /\ IF missed >= DeadAfter THEN j.status = "Dead" ELSE Alive(j)
<1> QED BY FailoverAssumption DEF Judged, FoInfo, Alive, NoNode

LEMMA TickFits ==
  ASSUME FailoverIInv, MonitorTick
  PROVE  FailoverIInv'
<1> DEFINE dead == {n \in Examined : foAge[n] >= DeadAfter}
<1>1. PICK order \in SetToSeqs(dead) : foEvents' = foEvents \o order BY DEF MonitorTick
<1>2. /\ foNode' = [n \in FoNodes |-> IF n \in Examined THEN Judged(foNode[n], foAge[n]) ELSE foNode[n]]
      /\ foDirectory' = foDirectory \ dead
      /\ foDeaths' = [n \in FoNodes |-> IF n \in dead THEN foDeaths[n] + 1 ELSE foDeaths[n]]
      /\ Idle /\ UNCHANGED <<foAge, foLives, foTo, foQueue, foBatch, foOn, foFailed, foLeft>>
  BY DEF MonitorTick, foSessionVars
<1>3. MonitorTypes /\ SessionTypes /\ StrandedIsExplained /\ \A n \in FoNodes : NodeFits(n)
  BY DEF FailoverIInv
<1>4. dead \subseteq FoNodes /\ IsFiniteSet(dead) /\ Examined \subseteq FoNodes
  BY FailoverAssumption, FS_Subset DEF Examined
<1>5. order \in Seq(FoNodes) /\ Members(order) = dead BY <1>4, ListedOnce
<1>6. \A n \in Examined : /\ Alive(foNode[n]) /\ foNode'[n] \in FoInfo /\ foNode'[n] # NoNode
                          /\ IF n \in dead THEN foNode'[n].status = "Dead" ELSE Alive(foNode'[n])
  <2> TAKE n \in Examined
  <2>1. foNode[n] \in FoInfo /\ foNode[n] # NoNode /\ foNode[n].status # "Dead" /\ NodeFits(n) /\ foAge[n] \in Nat
    BY <1>3 DEF Examined, MonitorTypes
  <2>2. Alive(foNode[n]) BY <2>1 DEF NodeFits, FoInfo, Alive
  <2>3. foNode'[n] = Judged(foNode[n], foAge[n]) BY <1>2, <1>4
  <2>4. n \in dead <=> foAge[n] >= DeadAfter OBVIOUS
  <2> HIDE DEF dead
  <2> QED BY <2>1, <2>2, <2>3, <2>4, JudgedFits
<1> HIDE DEF dead
<1>7. \A n \in FoNodes : n \notin Examined => foNode'[n] = foNode[n] /\ n \notin dead
  BY <1>2, <1>4 DEF dead
<1>8. foNode' \in [FoNodes -> FoInfo] /\ foDeaths' \in [FoNodes -> Nat] /\ foEvents' \in Seq(FoNodes)
      /\ Members(foEvents') = Members(foEvents) \cup dead
  <2>1. foNode' \in [FoNodes -> FoInfo] BY <1>2, <1>3, <1>6, <1>7 DEF MonitorTypes
  <2>2. foEvents \in Seq(FoNodes) BY <1>3 DEF MonitorTypes
  <2>3. foEvents \o order \in Seq(FoNodes) /\ Members(foEvents \o order) = Members(foEvents) \cup Members(order)
    BY ONLY <2>2, <1>5, ConcatMembers
  <2> QED BY <1>1, <1>2, <1>3, <1>5, <2>1, <2>3 DEF MonitorTypes
<1>9. SessionTypes' BY <1>2, <1>3 DEF SessionTypes, Idle
<1>10. StrandedIsExplained'
  <2> SUFFICES ASSUME NEW s \in FoSessions, foNode'[foOn[s]].status = "Dead"
               PROVE  \/ s \in foFailed \cup foLeft \/ foOn[s] \in Members(foEvents')
                      \/ s \in Range(foQueue) \/ s \in Range(foBatch)
    BY <1>2 DEF StrandedIsExplained, Members
  <2>1. CASE foOn[s] \in Examined BY <1>6, <1>8, <2>1 DEF Alive
  <2>2. CASE foOn[s] \notin Examined
    <3>1. foNode[foOn[s]].status = "Dead" BY <1>3, <1>7, <2>2 DEF SessionTypes
    <3> QED BY <1>3, <1>8, <3>1 DEF StrandedIsExplained, Members
  <2> QED BY <2>1, <2>2
<1>11. ASSUME NEW n \in FoNodes PROVE NodeFits(n)'
  <2>1. NodeFits(n) /\ foDeaths[n] \in Nat /\ foLives[n] \in Nat BY <1>3 DEF MonitorTypes
  <2>2. CASE n \in dead
    <3>1. n \in Examined BY <2>2 DEF dead
    <3>2. foNode'[n].status = "Dead" /\ foNode'[n] # NoNode /\ Alive(foNode[n])
      BY <3>1, <1>6, <2>2
    <3> QED BY <1>2, <2>1, <2>2, <3>2 DEF NodeFits, Alive
  <2>3. CASE n \in Examined /\ n \notin dead
    <3>1. foDeaths'[n] = foDeaths[n] BY <1>2, <2>3
    <3> QED BY <1>2, <1>6, <2>1, <2>3, <3>1 DEF NodeFits, Alive
  <2>4. CASE n \notin Examined
    <3>1. n \in foDirectory' => n \in foDirectory BY <1>2
    <3> QED BY <1>2, <1>7, <2>1, <2>4, <3>1 DEF NodeFits
  <2> QED BY <2>2, <2>3, <2>4
<1> QED BY <1>2, <1>3, <1>8, <1>9, <1>10, <1>11 DEF FailoverIInv, MonitorTypes

(* There is a replacement when there is a candidate.                        *)
LEMMA ReplacementExists ==
  ASSUME MonitorTypes, NEW role, Candidates(role) # {}
  PROVE  Replacement(role) \in Candidates(role)
<1> DEFINE C == Candidates(role)
<1>1. C \subseteq FoNodes /\ FoNodes \subseteq Nat /\ \A n \in C : foNode[n].load \in Nat
  BY FailoverAssumption DEF MonitorTypes, FoInfo, Candidates
<1>2. C # {} OBVIOUS
<1> HIDE DEF C
<1> DEFINE L == {foNode[n].load : n \in C}
<1>3. L \in SUBSET Nat /\ L # {} BY <1>1, <1>2
<1>4. PICK l \in L : \A k \in L : l <= k BY ONLY <1>3, LeastOf
<1> DEFINE M == {n \in C : foNode[n].load = l}
<1>5. M \in SUBSET Nat /\ M # {} BY <1>1, <1>4
<1>6. PICK a \in M : \A b \in M : a <= b BY ONLY <1>5, LeastOf
<1>7. a \in C /\ \A b \in C : Before(a, b)
  <2>1. a \in C /\ foNode[a].load = l BY <1>6
  <2>2. ASSUME NEW b \in C PROVE Before(a, b)
    <3>1. l \in Nat /\ foNode[b].load \in Nat /\ l <= foNode[b].load BY <1>1, <1>3, <1>4
    <3>2. CASE foNode[b].load = l BY <3>2, <2>1, <1>6 DEF Before
    <3>3. CASE foNode[b].load # l BY <3>1, <3>3, <2>1 DEF Before
    <3> QED BY <3>2, <3>3
  <2> QED BY <2>1, <2>2
<1> QED BY <1>7 DEF Replacement, C

LEMMA DeadFits ==
  ASSUME FailoverIInv, OnNodeDead
  PROVE  FailoverIInv'
<1> DEFINE gone == Head(foEvents)
           role == RoleOf(gone)
<1>1. /\ foEvents # <<>> /\ foEvents' = Tail(foEvents) /\ foQueue = <<>> /\ foBatch = <<>>
      /\ UNCHANGED <<foNode, foDirectory, foAge, foLives, foDeaths, foBatch, foOn, foFailed>>
  BY DEF OnNodeDead, Idle
<1>2. MonitorTypes /\ SessionTypes /\ StrandedIsExplained /\ \A n \in FoNodes : NodeFits(n)
  BY DEF FailoverIInv
<1>3. /\ gone \in FoNodes /\ foEvents' \in Seq(FoNodes)
      /\ \A x \in Members(foEvents) : x = gone \/ x \in Members(foEvents')
  <2> DEFINE q == foEvents
  <2>1. q \in Seq(FoNodes) /\ q # <<>> BY <1>1, <1>2 DEF MonitorTypes
  <2> HIDE DEF q
  <2>2. /\ Head(q) \in FoNodes /\ Head(q) = q[1] /\ Tail(q) \in Seq(FoNodes)
        /\ Len(q) \in Nat \ {0} /\ Len(Tail(q)) = Len(q) - 1
        /\ \A i \in 1 .. Len(Tail(q)) : Tail(q)[i] = q[i + 1]
    BY ONLY <2>1, TailOf
  <2>3. ASSUME NEW i \in DOMAIN q PROVE q[i] = Head(q) \/ q[i] \in Members(Tail(q))
    <3>1. CASE i = 1 BY <3>1, <2>2
    <3>2. CASE i # 1
      <4>1. i - 1 \in DOMAIN Tail(q) /\ i - 1 \in 1 .. Len(Tail(q)) /\ (i - 1) + 1 = i
        BY <2>1, <2>2, <3>2, LenProperties
      <4> QED BY <2>2, <4>1 DEF Members
    <3> QED BY <3>1, <3>2
  <2> QED BY <1>1, <2>2, <2>3 DEF q, Members
<1>4. MonitorTypes' BY <1>1, <1>2, <1>3 DEF MonitorTypes
<1>5. \A n \in FoNodes : NodeFits(n)' BY <1>1, <1>2 DEF NodeFits
<1> HIDE DEF gone
<1>6. /\ foQueue' \in Seq(FoSessions)
      /\ foQueue' # <<>> => foTo' \in FoNodes /\ foNode[foTo'].status # "Dead"
      /\ foLeft \subseteq foLeft'
      /\ \A s \in FoSessions : foOn[s] = gone => s \in foLeft' \/ s \in Range(foQueue')
  <2>1. CASE Candidates(role) = {} BY <1>1, <2>1 DEF SessionsOn, OnNodeDead, gone
  <2>2. CASE Candidates(role) # {}
    <3>1. foTo' = Replacement(role) /\ foLeft' = foLeft BY <2>2 DEF OnNodeDead, gone
    <3>2. PICK order \in SetToSeqs(SessionsOn(gone)) : foQueue' = order
      BY <2>2 DEF OnNodeDead, gone
    <3>3. SessionsOn(gone) \subseteq FoSessions /\ IsFiniteSet(SessionsOn(gone))
      BY FailoverAssumption, FS_Subset DEF SessionsOn
    <3>4. order \in Seq(SessionsOn(gone)) /\ Members(order) = SessionsOn(gone) BY <3>3, ListedOnce
    <3>5. foTo' \in FoNodes /\ foNode[foTo'].status # "Dead"
      BY <1>2, <2>2, <3>1, ReplacementExists DEF Candidates
    <3>6. \A s \in FoSessions : foOn[s] = gone => s \in Range(foQueue')
      BY <3>2, <3>4, RangeIsMembers DEF SessionsOn
    <3> QED BY <3>1, <3>2, <3>3, <3>4, <3>5, <3>6
  <2> QED BY <2>1, <2>2
<1>7. StrandedIsExplained'
  <2> SUFFICES ASSUME NEW s \in FoSessions, foNode[foOn[s]].status = "Dead"
               PROVE  \/ s \in foFailed \cup foLeft' \/ foOn[s] \in Members(foEvents')
                      \/ s \in Range(foQueue')
    BY <1>1 DEF StrandedIsExplained, Members
  <2>1. s \notin Range(foQueue) /\ s \notin Range(foBatch) BY <1>1 DEF Range
  <2> QED BY <1>2, <1>3, <1>6, <2>1 DEF StrandedIsExplained, Members
<1> QED BY <1>1, <1>2, <1>4, <1>5, <1>6, <1>7 DEF FailoverIInv, SessionTypes, Idle

(* Nothing of a queue is lost when a wave leaves its back.                  *)
LEMMA WaveLeaves ==
  ASSUME NEW S, NEW q \in Seq(S), NEW k \in Nat, k <= Len(q)
  PROVE  LET wave == Reverse(SubSeq(q, Len(q) - k + 1, Len(q)))
             rest == SubSeq(q, 1, Len(q) - k)
         IN /\ wave \in Seq(S) /\ rest \in Seq(S)
            /\ Range(q) \subseteq Range(wave) \cup Range(rest)
<1> DEFINE n == Len(q)
           back == SubSeq(q, n - k + 1, n)
           wave == Reverse(back)
           rest == SubSeq(q, 1, n - k)
<1>1. n \in Nat /\ DOMAIN q = 1 .. n /\ \A i \in 1 .. n : q[i] \in S
  BY LenProperties, ElementOfSeq
<1>2. /\ back \in Seq(S) /\ Len(back) = k /\ \A i \in 1 .. k : back[i] = q[n - k + i]
  <2>1. /\ n - k + 1 \in Int /\ 1 <= n - k + 1 /\ n - k + 1 <= n + 1 /\ n <= Len(q) /\ n \in Int
        /\ n - (n - k + 1) + 1 = k /\ \A i \in 1 .. k : n - k + 1 + i - 1 = n - k + i
    BY <1>1
  <2> HIDE DEF n
  <2>2. /\ SubSeq(q, n - k + 1, n) \in Seq(S) /\ Len(SubSeq(q, n - k + 1, n)) = n - (n - k + 1) + 1
        /\ \A i \in 1 .. n - (n - k + 1) + 1 : SubSeq(q, n - k + 1, n)[i] = q[n - k + 1 + i - 1]
    BY ONLY <2>1, q \in Seq(S), StretchOf
  <2> QED BY <2>1, <2>2
<1>3. /\ rest \in Seq(S) /\ Len(rest) = n - k /\ \A i \in 1 .. n - k : rest[i] = q[i]
  <2>1. /\ 1 \in Int /\ n - k \in Int /\ 1 <= n - k + 1 /\ n - k <= Len(q)
        /\ n - k - 1 + 1 = n - k /\ \A i \in 1 .. n - k : 1 + i - 1 = i
    BY <1>1
  <2> HIDE DEF n
  <2>2. /\ 1 <= 1 /\ SubSeq(q, 1, n - k) \in Seq(S) /\ Len(SubSeq(q, 1, n - k)) = n - k - 1 + 1
        /\ \A i \in 1 .. n - k - 1 + 1 : SubSeq(q, 1, n - k)[i] = q[1 + i - 1]
    BY ONLY <2>1, 1 <= 1, q \in Seq(S), StretchOf
  <2> QED BY <2>1, <2>2
<1> HIDE DEF n, back, rest
<1>4. wave = [i \in 1 .. k |-> back[k - i + 1]] BY <1>2 DEF Reverse
<1>5. wave \in Seq(S) /\ DOMAIN wave = 1 .. k
  <2>1. \A i \in 1 .. k : back[k - i + 1] \in S BY <1>1, <1>2
  <2> HIDE DEF wave
  <2> QED BY <1>4, <2>1
<1> HIDE DEF wave
<1>6. ASSUME NEW i \in 1 .. n PROVE q[i] \in Range(wave) \cup Range(rest)
  <2>1. CASE i <= n - k
    <3>1. i \in 1 .. n - k BY <2>1, <1>1
    <3> QED BY <1>3, <3>1, LenProperties DEF Range
  <2>2. CASE i > n - k
    <3> DEFINE j == n - i + 1
    <3>1. j \in 1 .. k /\ k - j + 1 \in 1 .. k /\ n - k + (k - j + 1) = i BY <2>2, <1>1
    <3>2. wave[j] = back[k - j + 1] BY <3>1, <1>4
    <3>3. back[k - j + 1] = q[n - k + (k - j + 1)] BY <3>1, <1>2
    <3> HIDE DEF j
    <3> QED BY <1>5, <3>1, <3>2, <3>3 DEF Range
  <2> QED BY <2>1, <2>2, <1>1
<1> QED BY <1>1, <1>3, <1>5, <1>6 DEF wave, back, rest, n, Range

LEMMA WaveFits ==
  ASSUME FailoverIInv, NextWave
  PROVE  FailoverIInv'
<1> DEFINE k == IF Len(foQueue) < MaxWave THEN Len(foQueue) ELSE MaxWave
<1>1. /\ foBatch = <<>> /\ foQueue # <<>>
      /\ foBatch' = Reverse(SubSeq(foQueue, Len(foQueue) - k + 1, Len(foQueue)))
      /\ foQueue' = SubSeq(foQueue, 1, Len(foQueue) - k)
      /\ UNCHANGED <<foNode, foDirectory, foAge, foEvents, foLives, foDeaths, foTo, foOn, foFailed, foLeft>>
  BY DEF NextWave, foMonitorVars
<1>2. MonitorTypes /\ SessionTypes /\ StrandedIsExplained /\ \A n \in FoNodes : NodeFits(n)
  BY DEF FailoverIInv
<1>3. foQueue \in Seq(FoSessions) /\ k \in Nat /\ k <= Len(foQueue)
  BY <1>2, FailoverAssumption, LenProperties DEF SessionTypes
<1> HIDE DEF k
<1>4. /\ foBatch' \in Seq(FoSessions) /\ foQueue' \in Seq(FoSessions)
      /\ Range(foQueue) \subseteq Range(foBatch') \cup Range(foQueue')
  BY ONLY <1>1, <1>3, WaveLeaves
<1>5. MonitorTypes' /\ SessionTypes' /\ \A n \in FoNodes : NodeFits(n)'
  BY <1>1, <1>2, <1>4 DEF MonitorTypes, SessionTypes, NodeFits, Idle
<1>6. StrandedIsExplained'
  <2>1. Range(foBatch) = {} BY <1>1 DEF Range
  <2> QED BY <1>1, <1>2, <1>4, <2>1 DEF StrandedIsExplained
<1> QED BY <1>5, <1>6 DEF FailoverIInv

LEMMA RebindFits ==
  ASSUME FailoverIInv, Rebind
  PROVE  FailoverIInv'
<1> DEFINE s0 == Head(foBatch)
<1>1. /\ foBatch # <<>> /\ foBatch' = Tail(foBatch)
      /\ UNCHANGED <<foNode, foDirectory, foAge, foEvents, foLives, foDeaths, foTo, foQueue>>
  BY DEF Rebind, foMonitorVars
<1>2. MonitorTypes /\ SessionTypes /\ StrandedIsExplained /\ \A n \in FoNodes : NodeFits(n)
  BY DEF FailoverIInv
<1>3. foTo \in FoNodes /\ foNode[foTo].status # "Dead" BY <1>1, <1>2 DEF SessionTypes, Idle
<1>4. /\ s0 \in FoSessions /\ foBatch' \in Seq(FoSessions)
      /\ Range(foBatch) \subseteq Range(foBatch') \cup {s0}
  <2> DEFINE q == foBatch
  <2>1. q \in Seq(FoSessions) /\ q # <<>> BY <1>1, <1>2 DEF SessionTypes
  <2> HIDE DEF q
  <2>2. /\ Head(q) \in FoSessions /\ Head(q) = q[1] /\ Tail(q) \in Seq(FoSessions)
        /\ Len(q) \in Nat \ {0} /\ Len(Tail(q)) = Len(q) - 1
        /\ \A i \in 1 .. Len(Tail(q)) : Tail(q)[i] = q[i + 1]
    BY ONLY <2>1, TailOf
  <2>3. ASSUME NEW i \in DOMAIN q PROVE q[i] \in Range(Tail(q)) \cup {Head(q)}
    <3>1. CASE i = 1 BY <3>1, <2>2
    <3>2. CASE i # 1
      <4>1. i - 1 \in DOMAIN Tail(q) /\ i - 1 \in 1 .. Len(Tail(q)) /\ (i - 1) + 1 = i
        BY <2>1, <2>2, <3>2, LenProperties
      <4> QED BY <2>2, <4>1 DEF Range
    <3> QED BY <3>1, <3>2
  <2> QED BY <1>1, <2>2, <2>3 DEF q, Range
<1>5. \/ /\ foOn' = [foOn EXCEPT ![s0] = foTo]
         /\ foFailed' = foFailed \ {s0} /\ foLeft' = foLeft \ {s0}
      \/ foFailed' = foFailed \cup {s0} /\ UNCHANGED <<foOn, foLeft>>
  BY DEF Rebind
<1> HIDE DEF s0
<1>6. /\ foOn' \in [FoSessions -> FoNodes]
      /\ \A s \in FoSessions : s # s0 =>
            /\ foOn'[s] = foOn[s]
            /\ s \in foFailed => s \in foFailed'
            /\ s \in foLeft => s \in foLeft'
      /\ foNode[foOn'[s0]].status = "Dead" => s0 \in foFailed'
  BY <1>2, <1>3, <1>4, <1>5 DEF SessionTypes
<1>7. StrandedIsExplained'
  <2> SUFFICES ASSUME NEW s \in FoSessions, foNode[foOn'[s]].status = "Dead"
               PROVE  \/ s \in foFailed' \cup foLeft' \/ foOn'[s] \in Members(foEvents)
                      \/ s \in Range(foQueue) \/ s \in Range(foBatch')
    BY <1>1 DEF StrandedIsExplained, Members
  <2>1. CASE s = s0 BY <2>1, <1>6
  <2>2. CASE s # s0
    <3>1. foOn'[s] = foOn[s] BY <2>2, <1>6
    <3> QED BY <1>2, <1>4, <1>6, <2>2, <3>1 DEF StrandedIsExplained, Members
  <2> QED BY <2>1, <2>2
<1> QED
  BY <1>1, <1>2, <1>3, <1>4, <1>6, <1>7 DEF FailoverIInv, MonitorTypes, SessionTypes, NodeFits

LEMMA FailoverSteps == FailoverIInv /\ [FailoverNext]_foVars => FailoverIInv'
<1> SUFFICES ASSUME FailoverIInv, [FailoverNext]_foVars PROVE FailoverIInv' OBVIOUS
<1>1. CASE \E n \in FoNodes : MonitorRegister(n) \/ MonitorHeartbeat(n) \/ MonitorUnregister(n)
  BY <1>1, RegisterFits, HeartbeatFits, UnregisterFits
<1>2. CASE UNCHANGED foVars
  BY <1>2 DEF FailoverIInv, MonitorTypes, SessionTypes, StrandedIsExplained, NodeFits, Idle, foVars
<1> QED BY <1>1, <1>2, SilenceFits, TickFits, DeadFits, WaveFits, RebindFits DEF FailoverNext

LEMMA FailoverSafe == FailoverIInv => DeathIsAnnouncedOnce /\ StrandedIsExplained
BY DEF FailoverIInv, NodeFits, DeathIsAnnouncedOnce

(* A registration is announced dead once at most, and no session of a node  *)
(* known dead is forgotten.                                                 *)
THEOREM FailoverCorrect == FailoverSpec => [](DeathIsAnnouncedOnce /\ StrandedIsExplained)
BY FailoverStarts, FailoverSteps, FailoverSafe, PTL DEF FailoverSpec

------------------------------------------------------------------------------
(* The control service.  A record is the lines of a table; the silence of a *)
(* node is what the clock says since its last heartbeat, up to the timeout. *)
CtlInfo == [role : CtlRoles, status : {"Online", "Offline"}, seen : Nat]
IsTable(table) == DOMAIN table \subseteq CtlNodes /\ table \in [DOMAIN table -> CtlInfo]
LinesFit(record) ==
  /\ \A line \in record : line \in [node : CtlNodes, info : CtlInfo, fields : {9, 10}]
  /\ \A line \in record : line.fields = IF line.node \in OddAddresses THEN 10 ELSE 9
  /\ \A one, two \in record : one.node = two.node => one = two
ControlTypes ==
  /\ IsTable(ctlNodes) /\ LinesFit(ctlStored)
  /\ ctlConfig \in Nat /\ ctlStoredCfg \in Nat /\ ctlClock \in Nat /\ ctlBoots \in Nat
  /\ ctlPush \in [Pushers -> [pc : {"ready", "store", "read", "save"}, version : Nat]]
  /\ ctlSilent \in [CtlNodes -> 0 .. CtlTimeout]
SilenceIsElapsed ==
  ctlBoots = 0 => \A n \in Known :
      /\ ctlNodes[n].seen <= ctlClock
      /\ ctlSilent[n] = IF Elapsed(ctlNodes[n].seen) < CtlTimeout THEN Elapsed(ctlNodes[n].seen) ELSE CtlTimeout
NodesRecorded == "nodes" \notin ctlLost => ctlStored = Serialized(ctlNodes)

ControlIInv == ControlTypes /\ SilenceIsElapsed /\ NodesRecorded

(* With one thread that pushes: what it is about to publish is newer, and   *)
(* what it is about to save is what is published.                           *)
OnePusher == \A p, q \in Pushers : p = q
PushFits ==
  /\ \A p \in Pushers : /\ ctlPush[p].pc = "store" => ctlPush[p].version > ctlConfig
                        /\ ctlPush[p].pc = "save" => ctlPush[p].version = ctlConfig
  /\ "config" \notin ctlLost /\ (\A p \in Pushers : ctlPush[p].pc \in {"ready", "store"})
       => ctlStoredCfg = ctlConfig

(* A table survives its record, and a readable record its table.            *)
LEMMA TableIsRecorded ==
  ASSUME NEW t, IsTable(t)
  PROVE  LinesFit(Serialized(t)) /\ Deserialized(Serialized(t)) = t
<1> DEFINE r == Serialized(t)
           Line(n) == [node |-> n, info |-> t[n], fields |-> IF n \in OddAddresses THEN 10 ELSE 9]
<1>1. /\ r = {Line(n) : n \in DOMAIN t} /\ DOMAIN t \subseteq CtlNodes
      /\ t = [n \in DOMAIN t |-> t[n]] /\ \A n \in DOMAIN t : t[n] \in CtlInfo
  BY DEF Serialized, IsTable
<1>2. \A n : /\ Line(n).node = n /\ Line(n).info = t[n]
             /\ Line(n).fields = IF n \in OddAddresses THEN 10 ELSE 9
  OBVIOUS
<1>3. \A n \in DOMAIN t : Line(n) \in [node : CtlNodes, info : CtlInfo, fields : {9, 10}]
  BY <1>1
<1> HIDE DEF r, Line
<1>4. LinesFit(r) BY <1>1, <1>2, <1>3 DEF LinesFit
<1>5. ASSUME NEW n \in DOMAIN t PROVE (CHOOSE line \in r : line.node = n).info = t[n]
  <2>1. Line(n) \in r /\ Line(n).node = n BY <1>1, <1>2
  <2>2. (CHOOSE line \in r : line.node = n) = Line(n) BY <1>4, <2>1 DEF LinesFit
  <2> QED BY <2>2, <1>2
<1>6. Deserialized(r) = [n \in DOMAIN t |-> t[n]]
  <2>1. Deserialized(r) = [n \in DOMAIN t |-> (CHOOSE line \in r : line.node = n).info]
    BY <1>1, <1>2 DEF Deserialized
  <2> QED BY <2>1, <1>5
<1> QED BY <1>1, <1>4, <1>6 DEF r

LEMMA RecordIsTable ==
  ASSUME NEW r, LinesFit(r), Readable(r)
  PROVE  IsTable(Deserialized(r)) /\ Serialized(Deserialized(r)) = r
<1> DEFINE N == {line.node : line \in r}
           Of(n) == CHOOSE line \in r : line.node = n
           t == Deserialized(r)
<1>1. ASSUME NEW n \in N PROVE Of(n) \in r /\ Of(n).node = n BY <1>1
<1>2. ASSUME NEW line \in r PROVE line.node \in N /\ Of(line.node) = line
  <2>1. line.node \in N OBVIOUS
  <2>2. Of(line.node) \in r /\ Of(line.node).node = line.node BY <2>1, <1>1
  <2> HIDE DEF Of, N
  <2> QED BY <2>1, <2>2 DEF LinesFit
<1>3. t = [n \in N |-> Of(n).info] BY DEF Deserialized
<1> HIDE DEF Of, N, t
<1>4. DOMAIN t = N /\ \A n \in N : t[n] = Of(n).info BY <1>3
<1>5. IsTable(t) BY <1>1, <1>3, <1>4 DEF IsTable, LinesFit
<1>6. ASSUME NEW line \in r
      PROVE  line = [node |-> line.node, info |-> t[line.node],
                     fields |-> IF line.node \in OddAddresses THEN 10 ELSE 9]
  BY <1>2, <1>4 DEF LinesFit
<1>7. Serialized(t) = r
  <2> DEFINE Line(n) == [node |-> n, info |-> t[n], fields |-> IF n \in OddAddresses THEN 10 ELSE 9]
  <2>1. Serialized(t) = {Line(n) : n \in N} BY <1>4 DEF Serialized
  <2>2. \A line \in r : line = Line(line.node) /\ line.node \in N BY <1>2, <1>6
  <2>3. \A n \in N : Line(n) \in r
    <3> TAKE n \in N
    <3>1. Of(n) \in r /\ Of(n).node = n BY <1>1
    <3> HIDE DEF Line
    <3> QED BY <3>1, <2>2
  <2> HIDE DEF Line
  <2> QED BY <2>1, <2>2, <2>3
<1> QED BY <1>5, <1>7 DEF t

LEMMA ControlStarts == ControlInit => ControlIInv
<1> SUFFICES ASSUME ControlInit PROVE ControlIInv OBVIOUS
<1>1. DOMAIN ctlNodes = {} BY DEF ControlInit
<1>2. IsTable(ctlNodes) BY <1>1 DEF ControlInit, IsTable
<1>3. Serialized(ctlNodes) = {} BY <1>1 DEF Serialized
<1> QED BY <1>1, <1>2, <1>3, ControlAssumption
        DEF ControlInit, ControlIInv, ControlTypes, SilenceIsElapsed, NodesRecorded, LinesFit, Known, Ready

LEMMA PersistFits ==
  ASSUME ControlIInv, NEW t, IsTable(t), PersistNodes(t)
  PROVE  /\ ctlNodes' = t /\ IsTable(ctlNodes') /\ LinesFit(ctlStored') /\ NodesRecorded'
         /\ "config" \in ctlLost' <=> "config" \in ctlLost
<1>1. ctlNodes' = t /\ IsTable(t) BY DEF PersistNodes
<1>2. CASE ctlStored' = Serialized(t) /\ ctlLost' = ctlLost \ {"nodes"}
  BY <1>1, <1>2, TableIsRecorded DEF NodesRecorded
<1>3. CASE ctlStored' = ctlStored /\ ctlLost' = ctlLost \cup {"nodes"}
  BY <1>1, <1>3 DEF NodesRecorded, ControlIInv, ControlTypes
<1> QED BY <1>1, <1>2, <1>3 DEF PersistNodes

(* A step that saves the table: of each node it keeps what it was, its      *)
(* heartbeat apart from its status, or has just heard of it.                *)
Resaved(t) ==
  /\ IsTable(t) /\ PersistNodes(t)
  /\ UNCHANGED <<ctlConfig, ctlPush, ctlStoredCfg, ctlClock, ctlBoots>>
  /\ ctlSilent' \in [CtlNodes -> 0 .. CtlTimeout]
  /\ \A n \in DOMAIN t :
        \/ t[n].seen = ctlClock /\ ctlSilent'[n] = 0
        \/ n \in Known /\ t[n].seen = ctlNodes[n].seen /\ ctlSilent'[n] = ctlSilent[n]

LEMMA ResavedFits ==
  ASSUME ControlIInv, NEW t, Resaved(t)
  PROVE  ControlIInv' /\ (PushFits => PushFits')
<1>1. /\ ctlNodes' = t /\ IsTable(ctlNodes') /\ LinesFit(ctlStored') /\ NodesRecorded'
      /\ "config" \in ctlLost' <=> "config" \in ctlLost
  BY PersistFits DEF Resaved
<1>2. SilenceIsElapsed'
  <2> SUFFICES ASSUME ctlBoots = 0, NEW n \in DOMAIN t
               PROVE  LET e == ctlClock - t[n].seen IN
                      /\ t[n].seen <= ctlClock
                      /\ ctlSilent'[n] = IF e < CtlTimeout THEN e ELSE CtlTimeout
    BY <1>1 DEF Resaved, SilenceIsElapsed, Known, Elapsed
  <2>1. CASE t[n].seen = ctlClock /\ ctlSilent'[n] = 0
    BY <2>1, ControlAssumption DEF ControlIInv, ControlTypes
  <2>2. CASE n \in Known /\ t[n].seen = ctlNodes[n].seen /\ ctlSilent'[n] = ctlSilent[n]
    BY <2>2 DEF ControlIInv, SilenceIsElapsed, Elapsed
  <2> QED BY <2>1, <2>2 DEF Resaved
<1>3. PushFits => PushFits' BY <1>1 DEF Resaved, PushFits
<1> QED BY <1>1, <1>2, <1>3 DEF ControlIInv, Resaved, ControlTypes

LEMMA CtlRegisterFits ==
  ASSUME ControlIInv, NEW n \in CtlNodes, CtlRegister(n)
  PROVE  \E t : Resaved(t)
<1>1. PICK role \in CtlRoles :
          PersistNodes(With(ctlNodes, n, [role |-> role, status |-> "Online", seen |-> ctlClock]))
  BY DEF CtlRegister
<1> DEFINE info == [role |-> role, status |-> "Online", seen |-> ctlClock]
           t == With(ctlNodes, n, info)
<1>2. info \in CtlInfo /\ info.seen = ctlClock BY DEF CtlInfo, ControlIInv, ControlTypes
<1> HIDE DEF info
<1>3. /\ DOMAIN t = Known \cup {n} /\ t = [m \in DOMAIN t |-> t[m]] /\ t[n] = info
      /\ \A m \in Known \ {n} : t[m] = ctlNodes[m]
  BY DEF With, Known
<1>4. IsTable(t) BY <1>2, <1>3 DEF IsTable, ControlIInv, ControlTypes, Known
<1>5. PersistNodes(t) BY <1>1 DEF info
<1> HIDE DEF t
<1>6. /\ ctlSilent' \in [CtlNodes -> 0 .. CtlTimeout] /\ ctlSilent'[n] = 0
      /\ \A m \in CtlNodes \ {n} : ctlSilent'[m] = ctlSilent[m]
  BY ControlAssumption DEF CtlRegister, Heard, ControlIInv, ControlTypes
<1> QED BY <1>2, <1>3, <1>4, <1>5, <1>6 DEF Resaved, CtlRegister, IsTable

LEMMA CtlHeartbeatFits ==
  ASSUME ControlIInv, NEW n \in CtlNodes, CtlHeartbeat(n)
  PROVE  \E t : Resaved(t)
<1> DEFINE t == [ctlNodes EXCEPT ![n].seen = ctlClock, ![n].status = "Online"]
<1>1. n \in Known /\ PersistNodes(t) BY DEF CtlHeartbeat
<1>2. ctlNodes \in [Known -> CtlInfo] /\ Known \subseteq CtlNodes /\ ctlClock \in Nat
  BY DEF ControlIInv, ControlTypes, IsTable, Known
<1>3. /\ DOMAIN t = Known /\ t \in [Known -> CtlInfo] /\ t[n].seen = ctlClock
      /\ \A m \in Known \ {n} : t[m] = ctlNodes[m]
  BY <1>1, <1>2 DEF CtlInfo
<1> HIDE DEF t
<1>4. /\ ctlSilent' \in [CtlNodes -> 0 .. CtlTimeout] /\ ctlSilent'[n] = 0
      /\ \A m \in CtlNodes \ {n} : ctlSilent'[m] = ctlSilent[m]
  BY ControlAssumption DEF CtlHeartbeat, Heard, ControlIInv, ControlTypes
<1>5. \A m \in DOMAIN t :
        \/ t[m].seen = ctlClock /\ ctlSilent'[m] = 0
        \/ m \in Known /\ t[m].seen = ctlNodes[m].seen /\ ctlSilent'[m] = ctlSilent[m]
  BY <1>2, <1>3, <1>4
<1> QED BY <1>1, <1>2, <1>3, <1>4, <1>5 DEF Resaved, CtlHeartbeat, IsTable

LEMMA CtlUnregisterFits ==
  ASSUME ControlIInv, NEW n \in CtlNodes, CtlUnregister(n)
  PROVE  \E t : Resaved(t)
<1> DEFINE t == Without(ctlNodes, n)
<1>1. PersistNodes(t) /\ ctlSilent' = ctlSilent BY DEF CtlUnregister
<1>2. ctlNodes \in [Known -> CtlInfo] /\ Known \subseteq CtlNodes
  BY DEF ControlIInv, ControlTypes, IsTable, Known
<1>3. /\ DOMAIN t = Known \ {n} /\ t \in [Known \ {n} -> CtlInfo]
      /\ \A m \in Known \ {n} : t[m] = ctlNodes[m]
  BY <1>2 DEF Without, Known
<1> HIDE DEF t
<1>4. ctlSilent' \in [CtlNodes -> 0 .. CtlTimeout] BY <1>1 DEF ControlIInv, ControlTypes
<1> QED BY <1>1, <1>2, <1>3, <1>4 DEF Resaved, CtlUnregister, IsTable

LEMMA CtlTickFits ==
  ASSUME ControlIInv, CtlTick
  PROVE  \E t : Resaved(t)
<1> DEFINE t == [n \in Known |-> IF n \in Overdue THEN [ctlNodes[n] EXCEPT !.status = "Offline"] ELSE ctlNodes[n]]
<1>1. PersistNodes(t) /\ ctlSilent' = ctlSilent BY DEF CtlTick
<1>2. ctlNodes \in [Known -> CtlInfo] /\ Known \subseteq CtlNodes
  BY DEF ControlIInv, ControlTypes, IsTable, Known
<1>3. DOMAIN t = Known /\ \A n \in Known : t[n] \in CtlInfo /\ t[n].seen = ctlNodes[n].seen
  BY <1>2 DEF CtlInfo
<1>4. t \in [Known -> CtlInfo] BY <1>3
<1> HIDE DEF t
<1>5. ctlSilent' \in [CtlNodes -> 0 .. CtlTimeout] BY <1>1 DEF ControlIInv, ControlTypes
<1> QED BY <1>1, <1>2, <1>3, <1>4, <1>5 DEF Resaved, CtlTick, IsTable

LEMMA ClockFits ==
  ASSUME ControlIInv, ClockAdvances
  PROVE  ControlIInv' /\ (PushFits => PushFits')
<1>1. /\ ctlClock' = ctlClock + 1 /\ ctlClock \in Nat
      /\ ctlSilent' = [n \in CtlNodes |-> IF ctlSilent[n] < CtlTimeout THEN ctlSilent[n] + 1 ELSE ctlSilent[n]]
      /\ UNCHANGED <<ctlNodes, ctlConfig, ctlPush, ctlStored, ctlStoredCfg, ctlBoots, ctlLost>>
  BY DEF ClockAdvances, ControlIInv, ControlTypes
<1>2. ControlTypes' /\ NodesRecorded' /\ (PushFits => PushFits')
  BY <1>1, ControlAssumption DEF ControlIInv, ControlTypes, NodesRecorded, PushFits
<1>3. SilenceIsElapsed'
  <2> SUFFICES ASSUME ctlBoots = 0, NEW n \in Known
               PROVE  /\ ctlNodes[n].seen <= ctlClock'
                      /\ ctlSilent'[n] = IF ctlClock' - ctlNodes[n].seen < CtlTimeout
                                         THEN ctlClock' - ctlNodes[n].seen ELSE CtlTimeout
    BY <1>1 DEF SilenceIsElapsed, Known, Elapsed
  <2>1. ctlNodes[n] \in CtlInfo /\ n \in CtlNodes
    BY DEF ControlIInv, ControlTypes, IsTable, Known
  <2>2. /\ ctlNodes[n].seen <= ctlClock
        /\ ctlSilent[n] = IF ctlClock - ctlNodes[n].seen < CtlTimeout THEN ctlClock - ctlNodes[n].seen ELSE CtlTimeout
    BY DEF ControlIInv, SilenceIsElapsed, Elapsed
  <2>3. ctlSilent'[n] = IF ctlSilent[n] < CtlTimeout THEN ctlSilent[n] + 1 ELSE ctlSilent[n]
    BY <1>1, <2>1
  <2> QED BY <1>1, <2>1, <2>2, <2>3, ControlAssumption DEF CtlInfo
<1> QED BY <1>2, <1>3 DEF ControlIInv

LEMMA RestoredFits ==
  ASSUME ControlIInv, NEW clock \in Nat, Restored(clock)
  PROVE  ControlIInv' /\ (PushFits => PushFits')
<1>1. /\ ctlBoots' = ctlBoots + 1 /\ ctlBoots \in Nat
      /\ ctlConfig' \in {0, ctlStoredCfg} /\ ctlClock' = clock /\ ctlPush' = [p \in Pushers |-> Ready]
      /\ "config" \notin ctlLost' => ctlConfig' = ctlStoredCfg
      /\ UNCHANGED <<ctlStored, ctlStoredCfg, ctlSilent>>
  BY DEF Restored, ControlIInv, ControlTypes
<1>2. IsTable(ctlNodes') /\ NodesRecorded'
  <2>1. CASE Readable(ctlStored) /\ ctlNodes' = Deserialized(ctlStored)
    <3>1. IsTable(Deserialized(ctlStored)) /\ Serialized(Deserialized(ctlStored)) = ctlStored
      BY <2>1, RecordIsTable DEF ControlIInv, ControlTypes
    <3> QED BY <2>1, <3>1, <1>1 DEF NodesRecorded
  <2>2. CASE ctlNodes' = <<>> /\ "nodes" \in ctlLost' BY <2>2 DEF NodesRecorded, IsTable
  <2> QED BY <2>1, <2>2 DEF Restored
<1>3. ControlTypes' BY <1>1, <1>2 DEF ControlIInv, ControlTypes, Ready
<1>4. PushFits' BY <1>1 DEF PushFits, Ready
<1> QED BY <1>1, <1>2, <1>3, <1>4 DEF ControlIInv, SilenceIsElapsed

(* PushConfig touches no node.                                              *)
LEMMA PushKeeps ==
  ASSUME ControlIInv, NEW p \in Pushers, PushLoad(p) \/ PushStore(p) \/ PersistRead(p) \/ PersistConfig(p)
  PROVE  ControlIInv'
<1>1. /\ UNCHANGED <<ctlNodes, ctlStored, ctlClock, ctlBoots, ctlSilent>>
      /\ "nodes" \in ctlLost' <=> "nodes" \in ctlLost
  BY DEF PushLoad, PushStore, PersistRead, PersistConfig
<1>2. /\ ctlPush \in [Pushers -> [pc : {"ready", "store", "read", "save"}, version : Nat]]
      /\ ctlConfig \in Nat /\ ctlStoredCfg \in Nat /\ ctlPush[p].version \in Nat
  BY DEF ControlIInv, ControlTypes
<1>3. /\ ctlPush' \in [Pushers -> [pc : {"ready", "store", "read", "save"}, version : Nat]]
      /\ ctlConfig' \in Nat /\ ctlStoredCfg' \in Nat
  <2>1. CASE PushLoad(p) BY <1>2, <2>1, ControlAssumption DEF PushLoad
  <2>2. CASE PushStore(p) BY <1>2, <2>2 DEF PushStore
  <2>3. CASE PersistRead(p) BY <1>2, <2>3 DEF PersistRead
  <2>4. CASE PersistConfig(p) BY <1>2, <2>4 DEF PersistConfig, Ready
  <2> QED BY <2>1, <2>2, <2>3, <2>4
<1> QED BY <1>1, <1>3 DEF ControlIInv, ControlTypes, SilenceIsElapsed, NodesRecorded, Known, Elapsed

LEMMA PushFitsOn ==
  ASSUME ControlIInv, OnePusher, PushFits, NEW p \in Pushers,
         PushLoad(p) \/ PushStore(p) \/ PersistRead(p) \/ PersistConfig(p)
  PROVE  PushFits' /\ (ctlConfig' = ctlConfig \/ ctlConfig' >= ctlConfig)
<1>1. \A q \in Pushers : q = p BY DEF OnePusher
<1>2. /\ ctlPush \in [Pushers -> [pc : {"ready", "store", "read", "save"}, version : Nat]]
      /\ ctlConfig \in Nat /\ ctlStoredCfg \in Nat
  BY DEF ControlIInv, ControlTypes
<1>3. /\ ctlPush[p].pc = "store" => ctlPush[p].version > ctlConfig
      /\ ctlPush[p].pc = "save" => ctlPush[p].version = ctlConfig
      /\ "config" \notin ctlLost /\ ctlPush[p].pc \in {"ready", "store"} => ctlStoredCfg = ctlConfig
  BY <1>1 DEF PushFits
<1>4. /\ ctlPush'[p].pc = "store" => ctlPush'[p].version > ctlConfig'
      /\ ctlPush'[p].pc = "save" => ctlPush'[p].version = ctlConfig'
      /\ "config" \notin ctlLost' /\ ctlPush'[p].pc \in {"ready", "store"} => ctlStoredCfg' = ctlConfig'
      /\ ctlConfig' = ctlConfig \/ ctlConfig' >= ctlConfig
  <2>1. CASE PushLoad(p) BY <1>2, <1>3, <2>1 DEF PushLoad
  <2>2. CASE PushStore(p) BY <1>2, <1>3, <2>2 DEF PushStore
  <2>3. CASE PersistRead(p) BY <1>2, <1>3, <2>3 DEF PersistRead
  <2>4. CASE PersistConfig(p) BY <1>2, <1>3, <2>4 DEF PersistConfig, Ready
  <2> QED BY <2>1, <2>2, <2>3, <2>4
<1> QED BY <1>1, <1>4 DEF PushFits

LEMMA ControlSteps == ControlIInv /\ [ControlNext]_ctlVars => ControlIInv'
<1> SUFFICES ASSUME ControlIInv, [ControlNext]_ctlVars PROVE ControlIInv' OBVIOUS
<1>1. CASE \E n \in CtlNodes : CtlRegister(n) \/ CtlHeartbeat(n) \/ CtlUnregister(n)
  BY <1>1, CtlRegisterFits, CtlHeartbeatFits, CtlUnregisterFits, ResavedFits
<1>2. CASE Restart \/ Reboot
  BY <1>2, RestoredFits DEF Restart, Reboot, ControlIInv, ControlTypes
<1>3. CASE UNCHANGED ctlVars
  BY <1>3 DEF ctlVars, ControlIInv, ControlTypes, SilenceIsElapsed, NodesRecorded, Known, Elapsed
<1>4. CASE \E p \in Pushers : PushLoad(p) \/ PushStore(p) \/ PersistRead(p) \/ PersistConfig(p)
  BY <1>4, PushKeeps
<1>5. CASE CtlTick BY <1>5, CtlTickFits, ResavedFits
<1>6. CASE ClockAdvances BY <1>6, ClockFits
<1> QED BY <1>1, <1>2, <1>3, <1>4, <1>5, <1>6 DEF ControlNext

LEMMA PushSteps ==
  ASSUME OnePusher
  PROVE  ControlIInv /\ PushFits /\ [ControlNext]_ctlVars =>
            PushFits' /\ (ctlBoots' = ctlBoots => ctlConfig' >= ctlConfig)
<1> SUFFICES ASSUME ControlIInv, PushFits, [ControlNext]_ctlVars
             PROVE  PushFits' /\ (ctlBoots' = ctlBoots => ctlConfig' >= ctlConfig)
  OBVIOUS
<1>0. ctlConfig \in Nat /\ ctlClock \in Nat /\ ctlBoots \in Nat BY DEF ControlIInv, ControlTypes
<1>1. CASE \E n \in CtlNodes : CtlRegister(n) \/ CtlHeartbeat(n) \/ CtlUnregister(n)
  BY <1>0, <1>1, CtlRegisterFits, CtlHeartbeatFits, CtlUnregisterFits, ResavedFits DEF Resaved
<1>2. CASE Restart \/ Reboot
  <2>1. PICK clock \in Nat : Restored(clock) BY <1>0, <1>2 DEF Restart, Reboot
  <2> QED BY <2>1, <1>0, RestoredFits DEF Restored
<1>3. CASE UNCHANGED ctlVars BY <1>0, <1>3 DEF ctlVars, PushFits
<1>4. CASE \E p \in Pushers : PushLoad(p) \/ PushStore(p) \/ PersistRead(p) \/ PersistConfig(p)
  BY <1>0, <1>4, PushFitsOn
<1>5. CASE CtlTick BY <1>0, <1>5, CtlTickFits, ResavedFits DEF Resaved
<1>6. CASE ClockAdvances BY <1>0, <1>6, ClockFits DEF ClockAdvances
<1> QED BY <1>1, <1>2, <1>3, <1>4, <1>5, <1>6 DEF ControlNext

LEMMA PushStarts == ControlInit => PushFits
BY DEF ControlInit, PushFits, Ready

LEMMA ControlSafe == ControlIInv => OverdueMeansSilent /\ (PushFits => RecordsAreCurrent)
<1> SUFFICES ASSUME ControlIInv PROVE OverdueMeansSilent /\ (PushFits => RecordsAreCurrent)
  OBVIOUS
<1>1. OverdueMeansSilent
  <2> SUFFICES ASSUME ctlBoots = 0, NEW n \in Known, ctlNodes[n].status = "Online"
               PROVE  n \in Overdue <=> ctlSilent[n] = CtlTimeout
    BY DEF OverdueMeansSilent
  <2>1. ctlNodes[n] \in CtlInfo /\ n \in CtlNodes /\ ctlClock \in Nat
    BY DEF ControlIInv, ControlTypes, IsTable, Known
  <2>2. /\ ctlNodes[n].seen <= ctlClock
        /\ ctlSilent[n] = IF ctlClock - ctlNodes[n].seen < CtlTimeout THEN ctlClock - ctlNodes[n].seen ELSE CtlTimeout
    BY DEF ControlIInv, SilenceIsElapsed, Elapsed
  <2> QED BY <2>1, <2>2, ControlAssumption DEF Overdue, Elapsed, CtlInfo
<1>2. PushFits => RecordsAreCurrent
  <2>1. Deserialized(Serialized(ctlNodes)) = ctlNodes
    BY TableIsRecorded DEF ControlIInv, ControlTypes
  <2>2. PushFits /\ "config" \notin ctlLost /\ (\A p \in Pushers : ctlPush[p] = Ready) => ctlStoredCfg = ctlConfig
    BY DEF PushFits, Ready
  <2> QED BY <2>1, <2>2 DEF RecordsAreCurrent, ControlIInv, NodesRecorded
<1> QED BY <1>1, <1>2

(* The service takes the silent offline and nobody else; with one thread    *)
(* that pushes, its records are what it publishes and no push goes back.    *)
THEOREM ControlCorrect ==
  ASSUME OnePusher
  PROVE  ControlSpec => [](OverdueMeansSilent /\ RecordsAreCurrent) /\ ConfigOnlyMovesOn
<1>1. ControlIInv /\ PushFits /\ [ControlNext]_ctlVars =>
          ControlIInv' /\ PushFits' /\ [ctlBoots' = ctlBoots => ctlConfig' >= ctlConfig]_ctlVars
  BY ControlSteps, PushSteps
<1> QED BY <1>1, ControlStarts, PushStarts, ControlSafe, PTL DEF ControlSpec, ConfigOnlyMovesOn

------------------------------------------------------------------------------
(* Hot reload.  What is ready to be swapped in, and every version kept, has *)
(* passed its validation; what a drain holds is the head of the queue.      *)
Valid == {s \in Sources : SandboxOk(s) /\ IsolatedSmokeOk(s) /\ s \notin Broken}
EntryStates == {"Idle", "Validating", "PendingActivate", "Activated", "Failed", "RolledBack"}
Entries == [state : EntryStates, version : Nat, history : Seq(Valid), pending : Sources \cup {""},
            ready : BOOLEAN, verify : BOOLEAN, thisTick : BOOLEAN]
EntryFits(e) == e \in Entries /\ (e.ready => e.pending \in Valid)
Tickets == [script : Scripts, source : Sources \ Broken]
Offers == [script : Scripts, source : Sources \cup {""}]
AuditRecords == Scripts \X Nat \X Valid

ReloadTypes ==
  /\ DOMAIN hrEntry = Scripts /\ hrEntry = [n \in Scripts |-> hrEntry[n]]
  /\ \A n \in Scripts : EntryFits(hrEntry[n])
  /\ DOMAIN hrHand = Workers /\ \A w \in Workers : hrHand[w] = NoTicket \/ hrHand[w] \in Tickets
  /\ hrReady \in Seq(Offers)
  /\ hrDue \subseteq Scripts
  /\ hrQueue \in Seq(AuditRecords) /\ hrActivated \subseteq AuditRecords

HotReloadIInv == ReloadTypes

OneDrainer == \A d, e \in Drainers : d = e
DrainFits ==
  /\ DOMAIN hrDrain = Drainers
  /\ \A d \in Drainers :
        \/ hrDrain[d] = NotDraining
        \/ /\ hrDrain[d].pc \in {"append", "pop"}
           /\ hrQueue # <<>> /\ hrDrain[d].item = Head(hrQueue)
           /\ hrDrain[d].pc = "pop" => hrDrain[d].item \in hrFile
  /\ AuditIsComplete

(* What a worker's verdict and a swap make of an entry.                     *)
LEMMA PreparedFits ==
  ASSUME NEW e, EntryFits(e), NEW s \in Sources
  PROVE  EntryFits([e EXCEPT !.state = "Validating", !.pending = s, !.ready = FALSE])
<1> DEFINE f == [e EXCEPT !.state = "Validating", !.pending = s, !.ready = FALSE]
<1>1. f.ready = FALSE BY DEF EntryFits, Entries
<1> QED BY <1>1 DEF EntryFits, Entries, EntryStates

LEMMA ValidatedFits ==
  ASSUME NEW e, EntryFits(e), NEW s \in Sources \ Broken, NEW inBudget \in BOOLEAN,
         NEW ok, ok = (SandboxOk(s) /\ IsolatedSmokeOk(s) /\ inBudget)
  PROVE  EntryFits([e EXCEPT !.pending = s, !.ready = ok,
                             !.state = IF ok THEN "PendingActivate" ELSE "Failed"])
<1> DEFINE f == [e EXCEPT !.pending = s, !.ready = ok, !.state = IF ok THEN "PendingActivate" ELSE "Failed"]
<1>1. ok \in BOOLEAN /\ (ok => s \in Valid) BY DEF Valid
<1>2. CASE ok = TRUE
  <2>1. f \in Entries /\ f.pending = s BY <1>2 DEF EntryFits, Entries, EntryStates
  <2> QED BY <2>1, <1>1, <1>2 DEF EntryFits
<1>3. CASE ok = FALSE
  <2>1. f \in Entries /\ f.ready = FALSE BY <1>3 DEF EntryFits, Entries, EntryStates
  <2> QED BY <2>1 DEF EntryFits
<1> QED BY <1>1, <1>2, <1>3

LEMMA TruncatedFits ==
  ASSUME NEW S, NEW h \in Seq(S), NEW s \in S
  PROVE  Truncated(<<s>> \o h) \in Seq(S)
<1> DEFINE t == <<s>> \o h
<1>1. t \in Seq(S) OBVIOUS
<1> HIDE DEF t
<1>2. CASE Len(t) > MaxHistory
  <2>1. 1 \in Int /\ MaxHistory \in Int /\ 1 <= 1 /\ 1 <= MaxHistory + 1 /\ MaxHistory <= Len(t)
    BY <1>1, <1>2, HotReloadAssumption, LenProperties
  <2>2. SubSeq(t, 1, MaxHistory) \in Seq(S) BY ONLY <1>1, <2>1, StretchOf
  <2> QED BY <2>2, <1>2 DEF Truncated, t
<1>3. CASE ~(Len(t) > MaxHistory) BY <1>1, <1>3 DEF Truncated, t
<1> QED BY <1>2, <1>3

LEMMA SwappedFits ==
  ASSUME NEW e, EntryFits(e), NEW s \in Valid, NEW rollback \in BOOLEAN
  PROVE  EntryFits(Swapped(e, s, rollback))
<1> DEFINE h == Truncated(<<s>> \o e.history)
           f == Swapped(e, s, rollback)
<1>1. e \in Entries /\ e.history \in Seq(Valid) /\ e.version + 1 \in Nat
  <2>1. e \in Entries BY DEF EntryFits
  <2>2. e.history \in Seq(Valid) /\ e.version \in Nat BY <2>1, Zenon DEF Entries
  <2> QED BY <2>1, <2>2
<1>2. h \in Seq(Valid) BY <1>1, TruncatedFits
<1> HIDE DEF h
<1>3. CASE rollback = TRUE
  <2>1. f \in Entries /\ f.ready = FALSE BY <1>1, <1>2, <1>3 DEF Entries, EntryStates, Swapped, h
  <2> QED BY <2>1 DEF EntryFits
<1>4. CASE rollback = FALSE
  <2>1. f \in Entries /\ f.ready = FALSE BY <1>1, <1>2, <1>4 DEF Entries, EntryStates, Swapped, h
  <2> QED BY <2>1 DEF EntryFits
<1> QED BY <1>3, <1>4

(* Fields that a verdict does not read.                                     *)
LEMMA MarkedFits ==
  ASSUME NEW e, EntryFits(e)
  PROVE  /\ EntryFits([e EXCEPT !.state = "Failed"])
         /\ EntryFits([e EXCEPT !.thisTick = FALSE])
         /\ EntryFits([e EXCEPT !.verify = FALSE])
         /\ EntryFits([e EXCEPT !.state = "Failed", !.verify = FALSE])
<1>1. e \in Entries BY DEF EntryFits
<1>2. ASSUME NEW f \in Entries, f.ready <=> e.ready, f.pending = e.pending PROVE EntryFits(f)
  BY <1>2 DEF EntryFits
<1>3. EntryFits([e EXCEPT !.state = "Failed"])
  <2> DEFINE f == [e EXCEPT !.state = "Failed"]
  <2>1. f \in Entries /\ f.pending = e.pending BY <1>1 DEF Entries, EntryStates
  <2>2. f.ready <=> e.ready BY <1>1 DEF Entries
  <2> HIDE DEF f
  <2> QED BY <2>1, <2>2, <1>2 DEF f
<1>4. EntryFits([e EXCEPT !.thisTick = FALSE])
  <2> DEFINE f == [e EXCEPT !.thisTick = FALSE]
  <2>1. f \in Entries /\ f.pending = e.pending BY <1>1 DEF Entries, EntryStates
  <2>2. f.ready <=> e.ready BY <1>1 DEF Entries
  <2> HIDE DEF f
  <2> QED BY <2>1, <2>2, <1>2 DEF f
<1>5. EntryFits([e EXCEPT !.verify = FALSE])
  <2> DEFINE f == [e EXCEPT !.verify = FALSE]
  <2>1. f \in Entries /\ f.pending = e.pending BY <1>1 DEF Entries, EntryStates
  <2>2. f.ready <=> e.ready BY <1>1 DEF Entries
  <2> HIDE DEF f
  <2> QED BY <2>1, <2>2, <1>2 DEF f
<1>6. EntryFits([e EXCEPT !.state = "Failed", !.verify = FALSE])
  <2> DEFINE f == [e EXCEPT !.state = "Failed", !.verify = FALSE]
  <2>1. f \in Entries /\ f.pending = e.pending BY <1>1 DEF Entries, EntryStates
  <2>2. f.ready <=> e.ready BY <1>1 DEF Entries
  <2> HIDE DEF f
  <2> QED BY <2>1, <2>2, <1>2 DEF f
<1> QED BY <1>3, <1>4, <1>5, <1>6

LEMMA HotReloadStarts == HotReloadInit => HotReloadIInv /\ DrainFits
<1> SUFFICES ASSUME HotReloadInit PROVE HotReloadIInv /\ DrainFits OBVIOUS
<1>1. EntryFits(FreshEntry) BY DEF EntryFits, FreshEntry, Entries, EntryStates
<1>2. DrainFits BY DEF HotReloadInit, DrainFits, AuditIsComplete
<1> QED BY <1>1, <1>2 DEF HotReloadInit, HotReloadIInv, ReloadTypes

(* One entry of the table changes.                                          *)
EntriesFit(entries) ==
  /\ DOMAIN entries = Scripts /\ entries = [n \in Scripts |-> entries[n]]
  /\ \A n \in Scripts : EntryFits(entries[n])

LEMMA EntriesKept ==
  ASSUME NEW entries, EntriesFit(entries), NEW n \in Scripts, NEW e, EntryFits(e)
  PROVE  EntriesFit([entries EXCEPT ![n] = e])
BY DEF EntriesFit

(* An activation: a valid source is swapped in and queued for the audit, or *)
(* the swap fails.                                                          *)
Swaps ==
  /\ EntriesFit(hrEntry')
  /\ \/ UNCHANGED <<hrQueue, hrActivated>>
     \/ \E r \in AuditRecords : hrQueue' = Append(hrQueue, r) /\ hrActivated' = hrActivated \cup {r}

LEMMA ActivateSwaps ==
  ASSUME HotReloadIInv, NEW n \in Scripts, NEW s \in Valid, NEW rollback \in BOOLEAN,
         ActivateLocked(n, s, rollback)
  PROVE  Swaps
<1>1. EntriesFit(hrEntry) /\ EntryFits(hrEntry[n]) BY DEF HotReloadIInv, ReloadTypes, EntriesFit
<1>2. CASE SwapIn(n, s, rollback)
  <2> DEFINE e == Swapped(hrEntry[n], s, rollback)
             r == <<n, hrEntry[n].version + 1, s>>
  <2>1. EntryFits(e) BY <1>1, SwappedFits
  <2>2. hrEntry' = [hrEntry EXCEPT ![n] = e] BY <1>2 DEF SwapIn
  <2> HIDE DEF e
  <2>3. EntriesFit(hrEntry') BY <1>1, <2>1, <2>2, EntriesKept
  <2>4. hrEntry[n].version \in Nat BY <1>1 DEF EntryFits, Entries
  <2>5. r \in AuditRecords BY <2>4 DEF AuditRecords
  <2> QED BY <1>2, <2>3, <2>5 DEF Swaps, SwapIn
<1>3. CASE SwapFails(n)
  <2> DEFINE e == [hrEntry[n] EXCEPT !.state = "Failed"]
  <2>1. EntryFits(e) BY <1>1, MarkedFits
  <2>2. hrEntry' = [hrEntry EXCEPT ![n] = e] BY <1>3 DEF SwapFails
  <2> HIDE DEF e
  <2>3. EntriesFit(hrEntry') BY <1>1, <2>1, <2>2, EntriesKept
  <2> QED BY <2>3, <1>3 DEF Swaps, SwapFails
<1> QED BY <1>2, <1>3 DEF ActivateLocked

(* What a swap does to the types and to the audit.                          *)
LEMMA SwapsFit ==
  ASSUME HotReloadIInv, Swaps, UNCHANGED <<hrFile, hrDrain>>
  PROVE  /\ EntriesFit(hrEntry') /\ hrQueue' \in Seq(AuditRecords) /\ hrActivated' \subseteq AuditRecords
         /\ DrainFits => DrainFits'
<1>1. hrQueue \in Seq(AuditRecords) /\ hrActivated \subseteq AuditRecords
  BY DEF HotReloadIInv, ReloadTypes
<1>2. CASE UNCHANGED <<hrQueue, hrActivated>>
  BY <1>1, <1>2 DEF Swaps, DrainFits, AuditIsComplete
<1>3. CASE \E r \in AuditRecords : hrQueue' = Append(hrQueue, r) /\ hrActivated' = hrActivated \cup {r}
  <2>1. PICK r \in AuditRecords : hrQueue' = Append(hrQueue, r) /\ hrActivated' = hrActivated \cup {r}
    BY <1>3
  <2> DEFINE q == hrQueue
             p == Append(q, r)
  <2>2. q \in Seq(AuditRecords) /\ r \in AuditRecords BY <1>1
  <2> HIDE DEF q
  <2>3. p \in Seq(AuditRecords) /\ Members(p) = Members(q) \cup {r} BY ONLY <2>2, AppendMembers
  <2>4. q # <<>> => p # <<>> /\ Head(p) = Head(q) BY <2>2
  <2>5. p = hrQueue' BY <2>1 DEF q
  <2> HIDE DEF p
  <2>6. Range(hrQueue) = Members(hrQueue) BY DEF Range, Members
  <2>7. AuditIsComplete => AuditIsComplete'
    BY <2>1, <2>3, <2>5, <2>6 DEF AuditIsComplete, q, Range, Members
  <2> QED BY <1>1, <2>1, <2>3, <2>4, <2>5, <2>7 DEF Swaps, DrainFits, q
<1> QED BY <1>2, <1>3 DEF Swaps

(* The source a rollback goes back to is one of the history.                *)
LEMMA RollbackIsValid ==
  ASSUME HotReloadIInv, NEW n \in Scripts, Earlier(n) # {}
  PROVE  RollbackTarget(n) \in Valid
<1> DEFINE h == hrEntry[n].history
           E == Earlier(n)
<1>1. hrEntry[n] \in Entries BY DEF HotReloadIInv, ReloadTypes, EntryFits
<1>2. h \in Seq(Valid) BY <1>1, Zenon DEF Entries
<1> HIDE DEF h
<1>3. DOMAIN h \subseteq Nat /\ \A i \in DOMAIN h : h[i] \in Valid BY <1>2
<1>4. E \subseteq DOMAIN h /\ E # {} BY DEF Earlier, h
<1>5. E \in SUBSET Nat BY <1>3, <1>4
<1> HIDE DEF E
<1>6. \E m \in E : \A j \in E : m <= j BY ONLY <1>4, <1>5, LeastOf
<1> DEFINE m == CHOOSE i \in E : \A j \in E : i <= j
<1>7. m \in E BY <1>6
<1>8. RollbackTarget(n) = h[m] BY DEF RollbackTarget, E, h
<1> HIDE DEF m
<1> QED BY <1>3, <1>4, <1>7, <1>8

(* A step that changes the table only.                                      *)
LEMMA TableStep ==
  ASSUME HotReloadIInv, EntriesFit(hrEntry'),
         DOMAIN hrHand' = Workers, \A w \in Workers : hrHand'[w] = NoTicket \/ hrHand'[w] \in Tickets,
         hrReady' \in Seq(Offers), hrDue' \subseteq Scripts,
         UNCHANGED <<hrQueue, hrFile, hrDrain, hrActivated>>
  PROVE  HotReloadIInv' /\ (DrainFits => DrainFits')
BY DEF HotReloadIInv, ReloadTypes, EntriesFit, DrainFits, AuditIsComplete

LEMMA PrepareKeeps ==
  ASSUME HotReloadIInv, NEW w \in Workers, NEW n \in Scripts, NEW s \in Sources, Prepare(w, n, s)
  PROVE  HotReloadIInv' /\ (DrainFits => DrainFits')
<1> DEFINE e == [hrEntry[n] EXCEPT !.state = "Validating", !.pending = s, !.ready = FALSE]
<1>1. EntriesFit(hrEntry) /\ EntryFits(hrEntry[n]) BY DEF HotReloadIInv, ReloadTypes, EntriesFit
<1>2. EntryFits(e) BY <1>1, PreparedFits
<1>3. hrEntry' = [hrEntry EXCEPT ![n] = e] BY DEF Prepare
<1> HIDE DEF e
<1>4. EntriesFit(hrEntry') BY <1>1, <1>2, <1>3, EntriesKept
<1>5. DOMAIN hrHand' = Workers /\ \A v \in Workers : hrHand'[v] = NoTicket \/ hrHand'[v] \in Tickets
  BY DEF Prepare, HotReloadIInv, ReloadTypes, Ticket, Tickets
<1> QED BY <1>4, <1>5, TableStep DEF Prepare, HotReloadIInv, ReloadTypes

LEMMA ValidateKeeps ==
  ASSUME HotReloadIInv, NEW w \in Workers, Validate(w)
  PROVE  HotReloadIInv' /\ (DrainFits => DrainFits')
<1> DEFINE n == hrHand[w].script
           s == hrHand[w].source
<1>1. n \in Scripts /\ s \in Sources \ Broken
  BY DEF Validate, HotReloadIInv, ReloadTypes, Tickets
<1>2. PICK inBudget \in BOOLEAN :
          LET ok == SandboxOk(s) /\ IsolatedSmokeOk(s) /\ inBudget
          IN  hrEntry' = [hrEntry EXCEPT ![n].pending = s, ![n].ready = ok,
                                         ![n].state = IF ok THEN "PendingActivate" ELSE "Failed"]
  BY DEF Validate
<1> DEFINE ok == SandboxOk(s) /\ IsolatedSmokeOk(s) /\ inBudget
           e == [hrEntry[n] EXCEPT !.pending = s, !.ready = ok,
                                   !.state = IF ok THEN "PendingActivate" ELSE "Failed"]
<1>3. EntriesFit(hrEntry) /\ EntryFits(hrEntry[n])
  BY <1>1 DEF HotReloadIInv, ReloadTypes, EntriesFit
<1> HIDE DEF n, s
<1>4. hrEntry' = [hrEntry EXCEPT ![n].pending = s, ![n].ready = ok,
                                 ![n].state = IF ok THEN "PendingActivate" ELSE "Failed"]
  BY <1>2
<1>5. ok = (SandboxOk(s) /\ IsolatedSmokeOk(s) /\ inBudget) OBVIOUS
<1> HIDE DEF ok
<1>6. EntryFits(e) BY ONLY <1>1, <1>3, <1>5, inBudget \in BOOLEAN, ValidatedFits DEF e
<1>7. hrEntry' = [hrEntry EXCEPT ![n] = e]
  BY <1>1, <1>3, <1>4 DEF EntriesFit, EntryFits, Entries
<1> HIDE DEF e
<1>8. EntriesFit(hrEntry') BY <1>1, <1>3, <1>6, <1>7, EntriesKept
<1> QED BY <1>8, TableStep DEF Validate, HotReloadIInv, ReloadTypes

LEMMA BeginKeeps ==
  ASSUME HotReloadIInv, BeginSafePoint
  PROVE  HotReloadIInv' /\ (DrainFits => DrainFits')
<1>1. \A n \in Scripts : EntryFits([hrEntry[n] EXCEPT !.thisTick = FALSE])
  BY MarkedFits DEF HotReloadIInv, ReloadTypes
<1>2. EntriesFit(hrEntry') BY <1>1 DEF EntriesFit, BeginSafePoint
<1> QED BY <1>2, TableStep DEF BeginSafePoint, HotReloadIInv, ReloadTypes

LEMMA CollectKeeps ==
  ASSUME HotReloadIInv, Collect
  PROVE  HotReloadIInv' /\ (DrainFits => DrainFits')
<1> DEFINE T == {Ticket(n, hrEntry[n].pending) : n \in {m \in Scripts : hrEntry[m].ready}}
<1>1. PICK order \in SetToSeqs(T) : hrReady' = order BY DEF Collect
<1>2. T \subseteq Offers
  <2>1. ASSUME NEW n \in Scripts PROVE Ticket(n, hrEntry[n].pending) \in Offers
    <3>1. hrEntry[n] \in Entries BY DEF HotReloadIInv, ReloadTypes, EntryFits
    <3>2. hrEntry[n].pending \in Sources \cup {""} BY <3>1, Zenon DEF Entries
    <3> QED BY <3>2 DEF Ticket, Offers
  <2> QED BY <2>1
<1>3. IsFiniteSet(T)
  <2> DEFINE R == {m \in Scripts : hrEntry[m].ready}
             f == [n \in R |-> Ticket(n, hrEntry[n].pending)]
  <2>1. IsFiniteSet(R)
    <3>1. R \subseteq Scripts OBVIOUS
    <3> HIDE DEF R
    <3> QED BY <3>1, HotReloadAssumption, FS_Subset
  <2>2. T = {f[n] : n \in R} /\ f \in Surjection(R, T) BY DEF Surjection
  <2> HIDE DEF R, f, T
  <2> QED BY <2>1, <2>2, FS_Surjection
<1> HIDE DEF T
<1>4. hrReady' \in Seq(Offers) BY <1>1, <1>2, <1>3, ListedOnce
<1> QED BY <1>4, TableStep DEF Collect, HotReloadIInv, ReloadTypes, EntriesFit

(* A step that swaps, or leaves the table as it is.                         *)
LEMMA SwapStep ==
  ASSUME HotReloadIInv, Swaps \/ UNCHANGED <<hrEntry, hrQueue, hrActivated>>,
         UNCHANGED <<hrHand, hrFile, hrDrain>>, hrReady' \in Seq(Offers), hrDue' \subseteq Scripts
  PROVE  HotReloadIInv' /\ (DrainFits => DrainFits')
<1>1. CASE Swaps BY <1>1, SwapsFit DEF HotReloadIInv, ReloadTypes, EntriesFit
<1>2. CASE UNCHANGED <<hrEntry, hrQueue, hrActivated>>
  BY <1>2 DEF HotReloadIInv, ReloadTypes, DrainFits, AuditIsComplete
<1> QED BY <1>1, <1>2

LEMMA ApprovedIsValid ==
  ASSUME HotReloadIInv, NEW t, t.script \in Scripts, Approved(t)
  PROVE  t.source \in Valid
BY DEF HotReloadIInv, ReloadTypes, EntryFits, Approved

LEMMA ActivateNextKeeps ==
  ASSUME HotReloadIInv, ActivateNext
  PROVE  HotReloadIInv' /\ (DrainFits => DrainFits')
<1> DEFINE t == Head(hrReady)
<1>1. t \in Offers /\ hrReady' \in Seq(Offers) BY DEF ActivateNext, HotReloadIInv, ReloadTypes
<1>2. Swaps \/ UNCHANGED <<hrEntry, hrQueue, hrActivated>>
  <2>1. CASE Approved(t) /\ ActivateLocked(t.script, t.source, FALSE)
    <3>1. t.script \in Scripts BY <1>1 DEF Offers
    <3> HIDE DEF t
    <3> QED BY <2>1, <3>1, ApprovedIsValid, ActivateSwaps
  <2>2. CASE UNCHANGED <<hrEntry, hrQueue, hrActivated, hrSwapFailed>> BY <2>2
  <2> QED BY <2>1, <2>2 DEF ActivateNext
<1> QED BY <1>1, <1>2, SwapStep DEF ActivateNext, HotReloadIInv, ReloadTypes

LEMMA ActivateKeeps ==
  ASSUME HotReloadIInv, NEW w \in Workers, Activate(w)
  PROVE  HotReloadIInv' /\ (DrainFits => DrainFits')
<1> DEFINE t == hrHand[w]
<1>1. t \in Tickets /\ Approved(t) /\ ActivateLocked(t.script, t.source, FALSE)
  BY DEF Activate, HotReloadIInv, ReloadTypes
<1>2. t.script \in Scripts BY <1>1 DEF Tickets
<1> HIDE DEF t
<1>3. Swaps BY <1>1, <1>2, ApprovedIsValid, ActivateSwaps
<1> QED BY <1>3, SwapStep DEF Activate, HotReloadIInv, ReloadTypes

LEMMA RollbackKeeps ==
  ASSUME HotReloadIInv, NEW n \in Scripts, Rollback(n)
  PROVE  HotReloadIInv' /\ (DrainFits => DrainFits')
<1>1. Swaps BY RollbackIsValid, ActivateSwaps DEF Rollback
<1> QED BY <1>1, SwapStep DEF Rollback, HotReloadIInv, ReloadTypes

LEMMA VerifyKeeps ==
  ASSUME HotReloadIInv, NEW n \in Scripts, VerifyOne(n)
  PROVE  HotReloadIInv' /\ (DrainFits => DrainFits')
<1>1. EntriesFit(hrEntry) /\ EntryFits(hrEntry[n]) BY DEF HotReloadIInv, ReloadTypes, EntriesFit
<1>2. UNCHANGED <<hrHand, hrFile, hrDrain>> /\ hrReady' \in Seq(Offers) /\ hrDue' \subseteq Scripts
  BY DEF VerifyOne, HotReloadIInv, ReloadTypes
<1>3. ASSUME NEW e, EntryFits(e), hrEntry' = [hrEntry EXCEPT ![n] = e], UNCHANGED <<hrQueue, hrActivated>>
      PROVE  Swaps
  BY <1>1, <1>3, EntriesKept DEF Swaps
<1>4. CASE Current(n) \notin Crashing
  <2> DEFINE e == [hrEntry[n] EXCEPT !.verify = FALSE]
  <2>1. hrEntry' = [hrEntry EXCEPT ![n] = e] /\ UNCHANGED <<hrQueue, hrActivated>>
    BY <1>4 DEF VerifyOne
  <2>2. EntryFits(e) BY <1>1, MarkedFits
  <2> HIDE DEF e
  <2> QED BY <2>1, <2>2, <1>2, <1>3, SwapStep
<1>5. CASE Current(n) \in Crashing /\ Earlier(n) = {}
  <2> DEFINE e == [hrEntry[n] EXCEPT !.state = "Failed", !.verify = FALSE]
  <2>1. hrEntry' = [hrEntry EXCEPT ![n].state = "Failed", ![n].verify = FALSE] /\ UNCHANGED <<hrQueue, hrActivated>>
    BY <1>5 DEF VerifyOne
  <2>2. hrEntry' = [hrEntry EXCEPT ![n] = e] BY <2>1, <1>1 DEF EntriesFit, EntryFits, Entries
  <2>3. EntryFits(e) BY <1>1, MarkedFits
  <2> HIDE DEF e
  <2> QED BY <2>1, <2>2, <2>3, <1>2, <1>3, SwapStep
<1>6. CASE Current(n) \in Crashing /\ Earlier(n) # {}
  <2>1. Swaps BY <1>6, RollbackIsValid, ActivateSwaps DEF VerifyOne
  <2> QED BY <2>1, <1>2, SwapStep
<1> QED BY <1>4, <1>5, <1>6

LEMMA PointKeeps ==
  ASSUME HotReloadIInv, CollectDue \/ EndSafePoint
  PROVE  HotReloadIInv' /\ (DrainFits => DrainFits')
<1>1. /\ UNCHANGED <<hrEntry, hrHand, hrReady, hrQueue, hrFile, hrDrain, hrActivated>>
      /\ hrDue' = hrDue \/ hrDue' = {n \in Scripts : hrEntry[n].verify /\ ~hrEntry[n].thisTick}
  BY DEF CollectDue, EndSafePoint
<1> QED BY <1>1, TableStep DEF HotReloadIInv, ReloadTypes, EntriesFit

(* A drain keeps the types, and, alone, drops no record.                    *)
LEMMA DrainKeeps ==
  ASSUME HotReloadIInv, NEW d \in Drainers, DrainPeek(d) \/ DrainAppend(d) \/ DrainPop(d)
  PROVE  HotReloadIInv'
<1>1. /\ UNCHANGED <<hrEntry, hrHand, hrReady, hrDue, hrActivated>>
      /\ hrQueue' = hrQueue \/ (hrQueue # <<>> /\ hrQueue' = Tail(hrQueue))
  BY DEF DrainPeek, DrainAppend, DrainPop
<1>2. hrQueue' \in Seq(AuditRecords) BY <1>1 DEF HotReloadIInv, ReloadTypes
<1> QED BY <1>1, <1>2 DEF HotReloadIInv, ReloadTypes

LEMMA DrainKeepsAudit ==
  ASSUME HotReloadIInv, OneDrainer, DrainFits, NEW d \in Drainers,
         DrainPeek(d) \/ DrainAppend(d) \/ DrainPop(d)
  PROVE  DrainFits'
<1>1. \A e \in Drainers : e = d BY DEF OneDrainer
<1>2. /\ DOMAIN hrDrain = Drainers /\ AuditIsComplete
      /\ \/ hrDrain[d] = NotDraining
         \/ /\ hrDrain[d].pc \in {"append", "pop"}
            /\ hrQueue # <<>> /\ hrDrain[d].item = Head(hrQueue)
            /\ hrDrain[d].pc = "pop" => hrDrain[d].item \in hrFile
  BY DEF DrainFits
<1>3. NotDraining.pc = "rest" BY DEF NotDraining
<1>4. CASE DrainPeek(d) BY <1>1, <1>2, <1>4 DEF DrainFits, AuditIsComplete, DrainPeek
<1>5. CASE DrainAppend(d)
  <2>1. /\ hrDrain[d].pc = "append" /\ UNCHANGED <<hrQueue, hrActivated>>
        /\ \/ /\ hrFile' = hrFile \cup {hrDrain[d].item} /\ hrDrain' = [hrDrain EXCEPT ![d].pc = "pop"]
           \/ hrDrain' = [hrDrain EXCEPT ![d] = NotDraining] /\ UNCHANGED hrFile
    BY <1>5 DEF DrainAppend
  <2>2. AuditIsComplete' BY <1>2, <2>1 DEF AuditIsComplete
  <2>3. DOMAIN hrDrain' = Drainers BY <1>2, <2>1
  <2>4. CASE hrFile' = hrFile \cup {hrDrain[d].item} /\ hrDrain' = [hrDrain EXCEPT ![d].pc = "pop"]
    <3>1. hrQueue # <<>> /\ hrDrain[d].item = Head(hrQueue) BY <1>2, <1>3, <2>1
    <3>2. hrDrain'[d].item = hrDrain[d].item /\ hrDrain'[d].pc = "pop" BY <1>2, <2>1, <2>4
    <3> QED BY <1>1, <2>1, <2>2, <2>3, <2>4, <3>1, <3>2 DEF DrainFits
  <2>5. CASE hrDrain' = [hrDrain EXCEPT ![d] = NotDraining] /\ UNCHANGED hrFile
    BY <1>1, <1>2, <2>2, <2>3, <2>5 DEF DrainFits
  <2> QED BY <2>1, <2>4, <2>5
<1>6. CASE DrainPop(d)
  <2> DEFINE q == hrQueue
  <2>1. /\ hrDrain[d].pc = "pop" /\ UNCHANGED <<hrFile, hrActivated>>
        /\ hrDrain' = [hrDrain EXCEPT ![d] = NotDraining]
    BY <1>6 DEF DrainPop
  <2>2. hrQueue # <<>> /\ Head(hrQueue) \in hrFile BY <1>2, <1>3, <2>1
  <2>3. hrQueue' = Tail(q) BY <1>6, <2>2 DEF DrainPop
  <2>4. q \in Seq(AuditRecords) /\ q # <<>> BY <2>2 DEF HotReloadIInv, ReloadTypes
  <2>5. Range(q) \subseteq Range(Tail(q)) \cup {Head(q)}
    <3> HIDE DEF q
    <3>1. /\ Head(q) = q[1] /\ Tail(q) \in Seq(AuditRecords)
          /\ Len(q) \in Nat \ {0} /\ Len(Tail(q)) = Len(q) - 1
          /\ \A i \in 1 .. Len(Tail(q)) : Tail(q)[i] = q[i + 1]
      BY ONLY <2>4, TailOf
    <3>2. ASSUME NEW i \in DOMAIN q PROVE q[i] \in Range(Tail(q)) \cup {Head(q)}
      <4>1. CASE i = 1 BY <4>1, <3>1
      <4>2. CASE i # 1
        <5>1. i - 1 \in DOMAIN Tail(q) /\ i - 1 \in 1 .. Len(Tail(q)) /\ (i - 1) + 1 = i
          BY <2>4, <3>1, <4>2, LenProperties
        <5> QED BY <3>1, <5>1 DEF Range
      <4> QED BY <4>1, <4>2
    <3> QED BY <3>2 DEF Range
  <2>6. AuditIsComplete' BY <1>2, <2>1, <2>2, <2>3, <2>5 DEF AuditIsComplete
  <2> HIDE DEF q
  <2> QED BY <1>1, <1>2, <2>1, <2>6 DEF DrainFits
<1> QED BY <1>4, <1>5, <1>6

LEMMA HotReloadSteps == HotReloadIInv /\ [HotReloadNext]_hrVars => HotReloadIInv'
<1> SUFFICES ASSUME HotReloadIInv, [HotReloadNext]_hrVars PROVE HotReloadIInv' OBVIOUS
<1>1. CASE Tick
  BY <1>1, BeginKeeps, CollectKeeps, ActivateNextKeeps, PointKeeps, VerifyKeeps DEF Tick
<1>2. CASE \E n \in Scripts : Rollback(n) \/ \E w \in Workers, s \in Sources : Prepare(w, n, s)
  BY <1>2, RollbackKeeps, PrepareKeeps
<1>3. CASE \E w \in Workers : Validate(w) \/ Activate(w) BY <1>3, ValidateKeeps, ActivateKeeps
<1>4. CASE \E d \in Drainers : DrainPeek(d) \/ DrainAppend(d) \/ DrainPop(d) BY <1>4, DrainKeeps
<1>5. CASE UNCHANGED hrVars BY <1>5 DEF hrVars, HotReloadIInv, ReloadTypes
<1> QED BY <1>1, <1>2, <1>3, <1>4, <1>5 DEF HotReloadNext

LEMMA AuditSteps ==
  ASSUME OneDrainer
  PROVE  HotReloadIInv /\ DrainFits /\ [HotReloadNext]_hrVars => DrainFits'
<1> SUFFICES ASSUME HotReloadIInv, DrainFits, [HotReloadNext]_hrVars PROVE DrainFits' OBVIOUS
<1>1. CASE Tick
  BY <1>1, BeginKeeps, CollectKeeps, ActivateNextKeeps, PointKeeps, VerifyKeeps DEF Tick
<1>2. CASE \E n \in Scripts : Rollback(n) \/ \E w \in Workers, s \in Sources : Prepare(w, n, s)
  BY <1>2, RollbackKeeps, PrepareKeeps
<1>3. CASE \E w \in Workers : Validate(w) \/ Activate(w) BY <1>3, ValidateKeeps, ActivateKeeps
<1>4. CASE \E d \in Drainers : DrainPeek(d) \/ DrainAppend(d) \/ DrainPop(d)
  BY <1>4, DrainKeepsAudit
<1>5. CASE UNCHANGED hrVars BY <1>5 DEF hrVars, DrainFits, AuditIsComplete
<1> QED BY <1>1, <1>2, <1>3, <1>4, <1>5 DEF HotReloadNext

LEMMA HotReloadSafe == HotReloadIInv => OnlyValidatedRuns
<1> SUFFICES ASSUME HotReloadIInv, NEW r \in hrActivated
             PROVE  SandboxOk(r[3]) /\ IsolatedSmokeOk(r[3]) /\ r[3] \notin Broken
  BY DEF OnlyValidatedRuns
<1>1. r[3] \in Valid BY DEF AuditRecords, HotReloadIInv, ReloadTypes
<1> QED BY <1>1 DEF Valid

LEMMA AuditSafe == DrainFits => AuditIsComplete
BY DEF DrainFits

(* Nothing that fails its validation is ever swapped in.                    *)
THEOREM OnlyValidatedEver == HotReloadSpec => []OnlyValidatedRuns
BY HotReloadStarts, HotReloadSteps, HotReloadSafe, PTL DEF HotReloadSpec

(* With one thread that drains, every activation is in the audit's file or  *)
(* in the queue before it.                                                  *)
THEOREM AuditKept ==
  ASSUME OneDrainer
  PROVE  HotReloadSpec => []AuditIsComplete
BY HotReloadStarts, HotReloadSteps, AuditSteps, AuditSafe, PTL DEF HotReloadSpec

------------------------------------------------------------------------------
(* Scripts.  A run of a chunk becomes the module of one slot at most; each  *)
(* registry reference has one holder, a slot, a queued load or a subscriber; *)
(* an execution's mark is where the queue stood when it began.              *)
IsSeq(s) == s \in Seq(Members(s))

SlotsOk(slots, ids, runs) ==
  /\ IsSeq(slots)
  /\ \A id \in DOMAIN slots : slots[id] \in [name : ScriptNames, module : 0 .. runs, env : {slots[id].env}]
  /\ \A a, b \in DOMAIN slots : slots[a].module # 0 /\ slots[a].module = slots[b].module => a = b
  /\ DOMAIN ids \subseteq ScriptNames
  /\ \A n \in DOMAIN ids : /\ ids[n] \in DOMAIN slots /\ slots[ids[n]].module # 0
                           /\ slots[ids[n]].name = n
  /\ \A id \in DOMAIN slots : slots[id].module # 0 =>
        slots[id].name \in DOMAIN ids /\ ids[slots[id].name] = id
Fresh(slots, run) == \A id \in DOMAIN slots : slots[id].module # run
ByModule(module) == {<<"module", module>>, <<"env", module>>}
HeldBySlot(r, slots) == \E id \in DOMAIN slots : slots[id].module # 0 /\ r \in ByModule(slots[id].module)
NamesKept(slots, slots2) ==
  \A id \in DOMAIN slots : id \in DOMAIN slots2 /\ slots2[id].name = slots[id].name

OpFits(op) == op.kind = "Load" => op.name \in ScriptNames /\ op.chunk[1] = "chunk"
QueueOk(ops) ==
  /\ IsSeq(ops) /\ \A i \in DOMAIN ops : OpFits(ops[i])
  /\ \A i, j \in DOMAIN ops : ops[i].kind = "Load" /\ ops[j].kind = "Load" /\ ops[i].chunk = ops[j].chunk => i = j

FrameFits(f, slots, runs, held) ==
  /\ f.mark \in Nat /\ f.mark <= held
  /\ f.kind = "load" => f.name \in ScriptNames /\ f.run \in 1 .. runs /\ Fresh(slots, f.run)
StackOk(stack, slots, runs, held) ==
  /\ IsSeq(stack)
  /\ \A i \in DOMAIN stack : /\ FrameFits(stack[i], slots, runs, held)
                             /\ stack[i].kind = "load" => i = Len(stack)
  /\ \A i, j \in DOMAIN stack : i < j => stack[j].mark <= stack[i].mark

FnRefs(subs) == {<<"fn", i>> : i \in DOMAIN subs}
RefsExact ==
  \A r : r \in scRefs <=> \/ HeldBySlot(r, scSlots)
                          \/ r \in Chunks(scPending) \/ r \in Chunks(scApply)
                          \/ r \in FnRefs(scSubs)

ScriptsIInv ==
  /\ scRuns \in Nat /\ SlotsOk(scSlots, scIds, scRuns)
  /\ QueueOk(scPending) /\ QueueOk(scApply) /\ Chunks(scPending) \cap Chunks(scApply) = {}
  /\ StackOk(scStack, scSlots, scRuns, Len(scPending))
  /\ IsSeq(scSubs) /\ RefsExact

(* Sequences of what they hold.                                             *)
LEMMA SeqFacts ==
  ASSUME NEW s, IsSeq(s)
  PROVE  Len(s) \in Nat /\ DOMAIN s = 1 .. Len(s) /\ (s # <<>> <=> Len(s) # 0)
BY DEF IsSeq

LEMMA SeqAppends ==
  ASSUME NEW s, IsSeq(s), NEW e
  PROVE  /\ IsSeq(Append(s, e)) /\ Len(Append(s, e)) = Len(s) + 1
         /\ DOMAIN Append(s, e) = 1 .. Len(s) + 1
         /\ \A i \in DOMAIN s : Append(s, e)[i] = s[i]
         /\ Append(s, e)[Len(s) + 1] = e
<1> DEFINE S == Members(s) \cup {e}
<1>1. s \in Seq(S) /\ e \in S BY DEF IsSeq
<1> HIDE DEF S
<1>2. Append(s, e) \in Seq(S) /\ Members(Append(s, e)) = Members(s) \cup {e}
  BY ONLY <1>1, AppendMembers
<1>3. /\ Len(s) \in Nat /\ Len(Append(s, e)) = Len(s) + 1
      /\ \A i \in 1 .. Len(s) + 1 : Append(s, e)[i] = IF i = Len(s) + 1 THEN e ELSE s[i]
  BY ONLY <1>1, AppendOf
<1>4. DOMAIN s = 1 .. Len(s) /\ DOMAIN Append(s, e) = 1 .. Len(s) + 1
  BY <1>1, <1>2, <1>3, LenProperties
<1> QED BY <1>2, <1>3, <1>4 DEF IsSeq, S

LEMMA SeqPushes ==
  ASSUME NEW s, IsSeq(s), NEW e
  PROVE  /\ IsSeq(<<e>> \o s) /\ Len(<<e>> \o s) = Len(s) + 1
         /\ DOMAIN (<<e>> \o s) = 1 .. Len(s) + 1
         /\ (<<e>> \o s)[1] = e
         /\ \A i \in 2 .. Len(s) + 1 : i - 1 \in DOMAIN s /\ (<<e>> \o s)[i] = s[i - 1]
<1> DEFINE S == Members(s) \cup {e}
           o == <<e>>
           t == o \o s
<1>1. s \in Seq(S) /\ o \in Seq(S) /\ Len(o) = 1 /\ o[1] = e /\ Members(o) = {e}
  BY DEF IsSeq, Members
<1>a. S = {e} \cup Members(s) OBVIOUS
<1> HIDE DEF S, o
<1>2. t \in Seq(S) /\ Members(t) = Members(o) \cup Members(s) BY ONLY <1>1, ConcatMembers DEF t
<1>3. /\ Len(s) \in Nat /\ DOMAIN s = 1 .. Len(s) /\ Len(t) = 1 + Len(s)
      /\ \A i \in 1 .. 1 + Len(s) : t[i] = IF i <= 1 THEN o[i] ELSE s[i - 1]
  <2>1. /\ Len(o \o s) = Len(o) + Len(s)
        /\ \A i \in 1 .. Len(o) + Len(s) : (o \o s)[i] = IF i <= Len(o) THEN o[i] ELSE s[i - Len(o)]
    BY ONLY <1>1, ConcatProperties
  <2> QED BY <1>1, <2>1, LenProperties
<1> HIDE DEF t
<1>4. IsSeq(t)
  <2>1. S = Members(t) BY ONLY <1>1, <1>2, <1>a
  <2> QED BY <1>2, <2>1 DEF IsSeq
<1>5. t[1] = e /\ \A i \in 2 .. Len(s) + 1 : i - 1 \in DOMAIN s /\ t[i] = s[i - 1] BY <1>1, <1>3
<1> QED BY <1>2, <1>3, <1>4, <1>5, LenProperties DEF t, o

LEMMA SeqPops ==
  ASSUME NEW s, IsSeq(s), s # <<>>
  PROVE  /\ IsSeq(Tail(s)) /\ Len(Tail(s)) = Len(s) - 1 /\ Len(s) \in Nat \ {0}
         /\ DOMAIN Tail(s) = 1 .. Len(s) - 1 /\ DOMAIN s = 1 .. Len(s)
         /\ Head(s) = s[1]
         /\ \A i \in DOMAIN Tail(s) : i + 1 \in DOMAIN s /\ Tail(s)[i] = s[i + 1]
<1> DEFINE S == Members(s)
<1>1. s \in Seq(S) BY DEF IsSeq
<1> HIDE DEF S
<1>2. /\ Head(s) = s[1] /\ Tail(s) \in Seq(S)
      /\ Len(s) \in Nat \ {0} /\ Len(Tail(s)) = Len(s) - 1
      /\ \A i \in 1 .. Len(Tail(s)) : Tail(s)[i] = s[i + 1] /\ i + 1 \in 1 .. Len(s)
  BY ONLY <1>1, s # <<>>, TailOf
<1> DEFINE t == Tail(s)
           n == Len(s) - 1
<1>3. t \in Seq(S) /\ n \in Nat /\ DOMAIN t = 1 .. n /\ DOMAIN s = 1 .. Len(s)
  BY <1>1, <1>2, LenProperties
<1> HIDE DEF t
<1>4. IsSeq(t)
  <2>1. t = [i \in 1 .. n |-> t[i]] /\ \A i \in 1 .. n : t[i] \in Members(t)
    BY <1>3, LenProperties DEF Members
  <2> HIDE DEF n
  <2> QED BY <1>3, <2>1 DEF IsSeq
<1> QED BY <1>2, <1>3, <1>4 DEF t

LEMMA SeqPrefix ==
  ASSUME NEW s, IsSeq(s), NEW k \in Nat, k <= Len(s)
  PROVE  /\ IsSeq(SubSeq(s, 1, k)) /\ Len(SubSeq(s, 1, k)) = k
         /\ DOMAIN SubSeq(s, 1, k) = 1 .. k
         /\ \A i \in 1 .. k : i \in DOMAIN s /\ SubSeq(s, 1, k)[i] = s[i]
<1> DEFINE S == Members(s)
           t == SubSeq(s, 1, k)
<1>1. s \in Seq(S) BY DEF IsSeq
<1> HIDE DEF S
<1>2. 1 \in Int /\ k \in Int /\ 1 <= 1 /\ 1 <= k + 1 /\ k <= Len(s) OBVIOUS
<1>3. /\ SubSeq(s, 1, k) \in Seq(S) /\ Len(SubSeq(s, 1, k)) = k - 1 + 1
      /\ \A i \in 1 .. k - 1 + 1 : SubSeq(s, 1, k)[i] = s[1 + i - 1]
  BY ONLY <1>1, <1>2, StretchOf
<1>4. t \in Seq(S) /\ Len(t) = k /\ \A i \in 1 .. k : t[i] = s[i] BY <1>3
<1> HIDE DEF t
<1>5. DOMAIN t = 1 .. k /\ DOMAIN s = 1 .. Len(s) /\ Len(s) \in Nat BY <1>1, <1>4, LenProperties
<1>6. IsSeq(t)
  <2>1. t \in [1 .. k -> Members(t)] BY <1>4, <1>5, LenProperties DEF Members
  <2> QED BY <2>1 DEF IsSeq
<1> QED BY <1>4, <1>5, <1>6 DEF t
(* A function on an interval is a sequence.                                 *)
LEMMA SeqOfFunction ==
  ASSUME NEW n \in Nat, NEW T, NEW s \in [1 .. n -> T]
  PROVE  IsSeq(s) /\ Len(s) = n /\ DOMAIN s = 1 .. n
<1>1. DOMAIN s = 1 .. n OBVIOUS
<1>2. s \in [1 .. n -> Members(s)] BY <1>1 DEF Members
<1> QED BY <1>1, <1>2, LenProperties DEF IsSeq

LEMMA SeqChanges ==
  ASSUME NEW s, IsSeq(s), NEW k \in DOMAIN s, NEW e, NEW t, t = [s EXCEPT ![k] = e]
  PROVE  /\ IsSeq(t) /\ Len(t) = Len(s) /\ DOMAIN t = DOMAIN s /\ t[k] = e
         /\ \A i \in DOMAIN s \ {k} : t[i] = s[i]
<1> DEFINE T == Members(s) \cup {e}
           n == Len(s)
<1>1. n \in Nat /\ DOMAIN s = 1 .. n BY SeqFacts
<1>2. s \in [1 .. n -> T] /\ e \in T BY <1>1 DEF IsSeq
<1> HIDE DEF T, n
<1>3. t \in [1 .. n -> T] /\ t[k] = e /\ \A i \in DOMAIN s \ {k} : t[i] = s[i] BY <1>1, <1>2
<1>4. IsSeq(t) /\ Len(t) = n /\ DOMAIN t = 1 .. n BY ONLY <1>1, <1>3, SeqOfFunction
<1> QED BY <1>1, <1>3, <1>4 DEF n

(* What a reference refers to tells the kinds apart.                        *)
LEMMA KindsApart ==
  ASSUME NEW r, NEW m, NEW subs
  PROVE  /\ r \in ByModule(m) => r \notin FnRefs(subs) /\ r[1] # "chunk"
         /\ r \in FnRefs(subs) => r[1] # "chunk"
         /\ \A k : k # m /\ r \in ByModule(m) => r \notin ByModule(k)
BY DEF ByModule, FnRefs

LEMMA ChunksAreChunks ==
  ASSUME NEW ops, QueueOk(ops), NEW r \in Chunks(ops)
  PROVE  r[1] = "chunk"
BY DEF QueueOk, OpFits, Chunks

(* A slot takes another run, is added, and loses its run.                   *)
Replaced(slots, k, n, run, E) == [slots EXCEPT ![k] = [name |-> n, module |-> run, env |-> E]]
Extended(slots, n, run, E) == Append(slots, [name |-> n, module |-> run, env |-> E])
Indexed(ids, n, k) == [m \in DOMAIN ids \cup {n} |-> IF m = n THEN k ELSE ids[m]]
Emptied(slots, id) == [slots EXCEPT ![id].module = 0, ![id].env = {}]
Unindexed(ids, n) == [m \in DOMAIN ids \ {n} |-> ids[m]]

LEMMA SlotReplaced ==
  ASSUME NEW slots, NEW ids, NEW runs \in Nat, SlotsOk(slots, ids, runs), NEW n \in DOMAIN ids,
         NEW run \in 1 .. runs, Fresh(slots, run), NEW E,
         NEW s2, s2 = Replaced(slots, ids[n], n, run, E)
  PROVE  /\ SlotsOk(s2, ids, runs) /\ NamesKept(slots, s2)
         /\ \A r : HeldBySlot(r, s2) <=> \/ HeldBySlot(r, slots) /\ r \notin ByModule(slots[ids[n]].module)
                                         \/ r \in ByModule(run)
<1> DEFINE k == ids[n]
           e == [name |-> n, module |-> run, env |-> E]
<1>1. k \in DOMAIN slots /\ slots[k].module # 0 /\ slots[k].name = n /\ n \in ScriptNames
  BY DEF SlotsOk
<1>0. s2 = [slots EXCEPT ![k] = e] /\ k \in DOMAIN slots /\ IsSeq(slots)
  BY <1>1, SeqFacts DEF Replaced, SlotsOk
<1>2. DOMAIN s2 = DOMAIN slots /\ s2[k] = e /\ \A i \in DOMAIN slots \ {k} : s2[i] = slots[i]
  BY ONLY <1>0, SeqChanges
<1>3. IsSeq(s2) BY ONLY <1>0, SeqChanges
<1>4. e.name = n /\ e.module = run /\ e.env = E /\ e \in [name : ScriptNames, module : 0 .. runs, env : {e.env}]
  BY <1>1
<1>5. \A id \in DOMAIN slots : slots[id].module # run BY DEF Fresh
<1> HIDE DEF k, e
<1>6. \A a, b \in DOMAIN s2 : s2[a].module # 0 /\ s2[a].module = s2[b].module => a = b
  BY <1>2, <1>4, <1>5 DEF SlotsOk
<1>7. \A m \in DOMAIN ids : /\ ids[m] \in DOMAIN s2 /\ s2[ids[m]].module # 0 /\ s2[ids[m]].name = m
  BY <1>1, <1>2, <1>4 DEF SlotsOk, k
<1>8. \A id \in DOMAIN s2 : s2[id].module # 0 => s2[id].name \in DOMAIN ids /\ ids[s2[id].name] = id
  BY <1>1, <1>2, <1>4 DEF SlotsOk, k
<1>9. SlotsOk(s2, ids, runs) BY <1>2, <1>3, <1>4, <1>6, <1>7, <1>8 DEF SlotsOk
<1>10. ASSUME NEW r
       PROVE  HeldBySlot(r, s2) <=> \/ HeldBySlot(r, slots) /\ r \notin ByModule(slots[k].module)
                                    \/ r \in ByModule(run)
  <2>1. run # 0 /\ s2[k].module = run BY <1>2, <1>4
  <2>2. ASSUME r \in ByModule(run) PROVE HeldBySlot(r, s2)
    BY <1>1, <1>2, <2>1, <2>2 DEF HeldBySlot
  <2>3. ASSUME HeldBySlot(r, slots), r \notin ByModule(slots[k].module) PROVE HeldBySlot(r, s2)
    BY <1>2, <2>3 DEF HeldBySlot
  <2>4. ASSUME HeldBySlot(r, s2), r \notin ByModule(run)
        PROVE  HeldBySlot(r, slots) /\ r \notin ByModule(slots[k].module)
    <3>1. PICK id \in DOMAIN slots : s2[id].module # 0 /\ r \in ByModule(s2[id].module)
      BY <1>2, <2>4 DEF HeldBySlot
    <3>2. id # k /\ s2[id] = slots[id] BY <1>2, <2>1, <2>4, <3>1
    <3>3. slots[id].module # slots[k].module BY <1>1, <3>1, <3>2 DEF SlotsOk
    <3> QED BY <3>1, <3>2, <3>3, KindsApart DEF HeldBySlot
  <2> QED BY <2>2, <2>3, <2>4
<1> QED BY <1>1, <1>2, <1>4, <1>9, <1>10 DEF k, NamesKept

LEMMA SlotAdded ==
  ASSUME NEW slots, NEW ids, NEW runs \in Nat, SlotsOk(slots, ids, runs),
         NEW n \in ScriptNames \ DOMAIN ids, NEW run \in 1 .. runs, Fresh(slots, run), NEW E,
         NEW s2, s2 = Extended(slots, n, run, E), NEW ids2, ids2 = Indexed(ids, n, Len(slots) + 1)
  PROVE  /\ SlotsOk(s2, ids2, runs) /\ NamesKept(slots, s2)
         /\ \A r : HeldBySlot(r, s2) <=> HeldBySlot(r, slots) \/ r \in ByModule(run)
<1> DEFINE k == Len(slots) + 1
           e == [name |-> n, module |-> run, env |-> E]
<1>1. IsSeq(slots) /\ Len(slots) \in Nat /\ DOMAIN slots = 1 .. Len(slots)
  BY SeqFacts DEF SlotsOk
<1>2. /\ IsSeq(s2) /\ DOMAIN s2 = 1 .. k /\ s2[k] = e
      /\ \A i \in DOMAIN slots : s2[i] = slots[i]
  BY <1>1, SeqAppends DEF Extended
<1>a. s2[k] = e /\ \A i \in DOMAIN slots : s2[i] = slots[i] BY <1>2
<1>3. k \notin DOMAIN slots /\ DOMAIN s2 = DOMAIN slots \cup {k} BY <1>1, <1>2
<1>4. /\ DOMAIN ids2 = DOMAIN ids \cup {n} /\ ids2[n] = k
      /\ \A m \in DOMAIN ids : ids2[m] = ids[m]
  BY DEF Indexed
<1>5. /\ e.name = n /\ e.module = run /\ e.env = E /\ run # 0
      /\ e \in [name : ScriptNames, module : 0 .. runs, env : {e.env}]
  OBVIOUS
<1>6. \A id \in DOMAIN slots : slots[id].module # run BY DEF Fresh
<1>b. /\ \A a, b \in DOMAIN slots : slots[a].module # 0 /\ slots[a].module = slots[b].module => a = b
      /\ \A m \in DOMAIN ids : ids[m] \in DOMAIN slots /\ slots[ids[m]].module # 0 /\ slots[ids[m]].name = m
      /\ \A id \in DOMAIN slots : slots[id].module # 0 => slots[id].name \in DOMAIN ids /\ ids[slots[id].name] = id
  BY DEF SlotsOk
<1> HIDE DEF k, e
<1>7. \A id \in DOMAIN s2 : s2[id] \in [name : ScriptNames, module : 0 .. runs, env : {s2[id].env}]
  BY <1>a, <1>3, <1>5 DEF SlotsOk
<1>8. \A a, b \in DOMAIN s2 : s2[a].module # 0 /\ s2[a].module = s2[b].module => a = b
  BY ONLY <1>a, <1>b, <1>3, <1>5, <1>6
<1>9. \A m \in DOMAIN ids2 : /\ ids2[m] \in DOMAIN s2 /\ s2[ids2[m]].module # 0 /\ s2[ids2[m]].name = m
  BY ONLY <1>a, <1>b, <1>3, <1>4, <1>5
<1>10. \A id \in DOMAIN s2 : s2[id].module # 0 => s2[id].name \in DOMAIN ids2 /\ ids2[s2[id].name] = id
  BY ONLY <1>a, <1>b, <1>3, <1>4, <1>5
<1>11. SlotsOk(s2, ids2, runs) BY <1>2, <1>4, <1>7, <1>8, <1>9, <1>10 DEF SlotsOk
<1>12. \A r : HeldBySlot(r, s2) <=> HeldBySlot(r, slots) \/ r \in ByModule(run)
  BY <1>a, <1>3, <1>5 DEF HeldBySlot
<1> QED BY <1>a, <1>3, <1>11, <1>12 DEF NamesKept

LEMMA RecordEmptied ==
  ASSUME NEW A, NEW m \in Nat, NEW E, NEW r \in [name : A, module : 0 .. m, env : E],
         NEW e, e = [r EXCEPT !.module = 0, !.env = {}]
  PROVE  /\ e.name = r.name /\ e.module = 0 /\ e.env = {}
         /\ e \in [name : A, module : 0 .. m, env : {e.env}]
<1> DEFINE f == [r EXCEPT !.module = 0]
<1>1. f \in [name : A, module : 0 .. m, env : E] /\ f.name = r.name /\ f.module = 0 OBVIOUS
<1>2. e = [f EXCEPT !.env = {}] OBVIOUS
<1> HIDE DEF f
<1>3. e.name = f.name /\ e.module = f.module /\ e.env = {} BY ONLY <1>1, <1>2
<1>4. e \in [name : A, module : 0 .. m, env : {{}}] BY ONLY <1>1, <1>2
<1> QED BY <1>1, <1>3, <1>4

LEMMA SlotUnloaded ==
  ASSUME NEW slots, NEW ids, NEW runs \in Nat, SlotsOk(slots, ids, runs),
         NEW id \in DOMAIN slots, slots[id].module # 0,
         NEW s2, s2 = Emptied(slots, id), NEW ids2, ids2 = Unindexed(ids, slots[id].name)
  PROVE  /\ SlotsOk(s2, ids2, runs) /\ NamesKept(slots, s2)
         /\ \A r : HeldBySlot(r, s2) <=> HeldBySlot(r, slots) /\ r \notin ByModule(slots[id].module)
<1> DEFINE n == slots[id].name
           e == [slots[id] EXCEPT !.module = 0, !.env = {}]
<1>1. IsSeq(slots) /\ Len(slots) \in Nat /\ DOMAIN slots = 1 .. Len(slots)
  BY SeqFacts DEF SlotsOk
<1>2. /\ slots[id] \in [name : ScriptNames, module : 0 .. runs, env : {slots[id].env}]
      /\ n \in ScriptNames
  BY DEF SlotsOk
<1>a. n \in DOMAIN ids /\ ids[n] = id BY DEF SlotsOk
<1>b. s2 = [slots EXCEPT ![id] = e] BY DEF Emptied
<1>c. e = [slots[id] EXCEPT !.module = 0, !.env = {}] /\ n = slots[id].name OBVIOUS
<1> HIDE DEF e
<1>3. /\ e.name = n /\ e.module = 0 /\ e.env = {}
      /\ e \in [name : ScriptNames, module : 0 .. runs, env : {e.env}]
  <2> DEFINE r == slots[id]
             F == {slots[id].env}
  <2>1. r \in [name : ScriptNames, module : 0 .. runs, env : F] BY <1>2
  <2>2. e = [r EXCEPT !.module = 0, !.env = {}] /\ n = r.name BY <1>c
  <2> HIDE DEF r, F, n
  <2>3. /\ e.name = r.name /\ e.module = 0 /\ e.env = {}
        /\ e \in [name : ScriptNames, module : 0 .. runs, env : {e.env}]
    BY ONLY <2>1, <2>2, runs \in Nat, RecordEmptied
  <2> QED BY <2>2, <2>3
<1>4. DOMAIN s2 = DOMAIN slots /\ s2[id] = e /\ \A i \in DOMAIN slots \ {id} : s2[i] = slots[i]
  BY ONLY <1>1, <1>b, id \in DOMAIN slots, SeqChanges
<1>5. IsSeq(s2) BY ONLY <1>1, <1>b, id \in DOMAIN slots, SeqChanges
<1>6. DOMAIN ids2 = DOMAIN ids \ {n} /\ \A m \in DOMAIN ids2 : ids2[m] = ids[m] BY DEF Unindexed
<1>7. \A m \in DOMAIN ids2 : m \in DOMAIN ids /\ m # n BY <1>6
<1>8. \A m \in DOMAIN ids : ids[m] = id => m = n BY DEF SlotsOk
<1> HIDE DEF n
<1>9. \A i \in DOMAIN s2 : s2[i] \in [name : ScriptNames, module : 0 .. runs, env : {s2[i].env}]
  BY <1>4, <1>3 DEF SlotsOk
<1>10. \A a, b \in DOMAIN s2 : s2[a].module # 0 /\ s2[a].module = s2[b].module => a = b
  BY <1>4, <1>3 DEF SlotsOk
<1>11. \A m \in DOMAIN ids2 : /\ ids2[m] \in DOMAIN s2 /\ s2[ids2[m]].module # 0 /\ s2[ids2[m]].name = m
  BY <1>4, <1>6, <1>7, <1>8 DEF SlotsOk
<1>12. \A i \in DOMAIN s2 : s2[i].module # 0 => s2[i].name \in DOMAIN ids2 /\ ids2[s2[i].name] = i
  <2> SUFFICES ASSUME NEW i \in DOMAIN slots, s2[i].module # 0
               PROVE  s2[i].name \in DOMAIN ids2 /\ ids2[s2[i].name] = i
    BY <1>4
  <2>1. i # id /\ s2[i] = slots[i] BY <1>4, <1>3
  <2>2. slots[i].name \in DOMAIN ids /\ ids[slots[i].name] = i BY <2>1 DEF SlotsOk
  <2> QED BY <1>a, <1>6, <2>1, <2>2
<1>13. SlotsOk(s2, ids2, runs) BY <1>5, <1>6, <1>9, <1>10, <1>11, <1>12 DEF SlotsOk
<1>14. ASSUME NEW r
       PROVE  HeldBySlot(r, s2) <=> HeldBySlot(r, slots) /\ r \notin ByModule(slots[id].module)
  <2>1. ASSUME HeldBySlot(r, slots), r \notin ByModule(slots[id].module) PROVE HeldBySlot(r, s2)
    BY <1>4, <2>1 DEF HeldBySlot
  <2>2. ASSUME HeldBySlot(r, s2)
        PROVE  HeldBySlot(r, slots) /\ r \notin ByModule(slots[id].module)
    <3>1. PICK i \in DOMAIN slots : s2[i].module # 0 /\ r \in ByModule(s2[i].module)
      BY <1>4, <2>2 DEF HeldBySlot
    <3>2. i # id /\ s2[i] = slots[i] BY <1>4, <1>3, <3>1
    <3>3. slots[i].module # slots[id].module BY <3>1, <3>2 DEF SlotsOk
    <3> QED BY <3>1, <3>2, <3>3, KindsApart DEF HeldBySlot
  <2> QED BY <2>1, <2>2
<1> QED BY <1>4, <1>3, <1>13, <1>14 DEF NamesKept, n

(* The queue takes an operation, gives one out, and is cut.                 *)
LEMMA QueueAppends ==
  ASSUME NEW q, QueueOk(q), NEW op, OpFits(op), op.kind = "Load" => op.chunk \notin Chunks(q),
         NEW p, p = Append(q, op)
  PROVE  /\ QueueOk(p) /\ Len(p) = Len(q) + 1
         /\ \A r : r \in Chunks(p) <=> r \in Chunks(q) \/ (op.kind = "Load" /\ r = op.chunk)
<1> DEFINE n == Len(q)
<1>1. IsSeq(q) /\ n \in Nat /\ DOMAIN q = 1 .. n BY SeqFacts DEF QueueOk
<1>2. /\ IsSeq(p) /\ Len(p) = n + 1 /\ DOMAIN p = 1 .. n + 1 /\ p[n + 1] = op
      /\ \A i \in DOMAIN q : p[i] = q[i]
  BY <1>1, SeqAppends
<1> HIDE DEF n
<1>3. DOMAIN p = DOMAIN q \cup {n + 1} /\ n + 1 \notin DOMAIN q BY <1>1, <1>2
<1>4. \A r : r \in Chunks(p) <=> r \in Chunks(q) \/ (op.kind = "Load" /\ r = op.chunk)
  BY <1>2, <1>3 DEF Chunks
<1>5. \A i, j \in DOMAIN p : p[i].kind = "Load" /\ p[j].kind = "Load" /\ p[i].chunk = p[j].chunk => i = j
  BY <1>2, <1>3 DEF QueueOk, Chunks
<1> QED BY <1>2, <1>3, <1>4, <1>5 DEF QueueOk, n

LEMMA QueuePops ==
  ASSUME NEW q, QueueOk(q), q # <<>>
  PROVE  /\ QueueOk(Tail(q)) /\ OpFits(Head(q))
         /\ Head(q).kind = "Load" => Head(q).chunk \in Chunks(q)
         /\ \A r : r \in Chunks(Tail(q)) <=>
                      r \in Chunks(q) /\ ~(Head(q).kind = "Load" /\ r = Head(q).chunk)
<1> DEFINE n == Len(q)
           p == Tail(q)
           op == Head(q)
<1>1. /\ IsSeq(p) /\ n \in Nat \ {0} /\ DOMAIN p = 1 .. n - 1 /\ DOMAIN q = 1 .. n /\ op = q[1]
      /\ \A i \in DOMAIN p : i + 1 \in DOMAIN q /\ p[i] = q[i + 1]
  BY SeqPops DEF QueueOk
<1> HIDE DEF n, p, op
<1>2. 1 \in DOMAIN q /\ \A i \in DOMAIN q \ {1} : i - 1 \in DOMAIN p /\ p[i - 1] = q[i] BY <1>1
<1>3. OpFits(op) /\ \A i \in DOMAIN p : OpFits(p[i]) BY <1>1, <1>2 DEF QueueOk
<1>4. ASSUME NEW i \in DOMAIN p, NEW j \in DOMAIN p,
             p[i].kind = "Load", p[j].kind = "Load", p[i].chunk = p[j].chunk
      PROVE  i = j
  BY <1>1, <1>4 DEF QueueOk
<1>5. op.kind = "Load" => op.chunk \in Chunks(q) BY <1>1, <1>2 DEF Chunks
<1>6. ASSUME NEW r PROVE r \in Chunks(p) <=> r \in Chunks(q) /\ ~(op.kind = "Load" /\ r = op.chunk)
  <2>1. ASSUME r \in Chunks(p) PROVE r \in Chunks(q) /\ ~(op.kind = "Load" /\ r = op.chunk)
    <3>1. PICK i \in DOMAIN p : p[i].kind = "Load" /\ r = p[i].chunk BY <2>1 DEF Chunks
    <3>2. i + 1 \in DOMAIN q /\ q[i + 1] = p[i] /\ i + 1 # 1 BY <1>1, <3>1
    <3>3. ~(op.kind = "Load" /\ r = op.chunk) BY <1>1, <1>2, <3>1, <3>2 DEF QueueOk
    <3> QED BY <3>1, <3>2, <3>3 DEF Chunks
  <2>2. ASSUME r \in Chunks(q), ~(op.kind = "Load" /\ r = op.chunk) PROVE r \in Chunks(p)
    <3>1. PICK i \in DOMAIN q : q[i].kind = "Load" /\ r = q[i].chunk BY <2>2 DEF Chunks
    <3>2. i - 1 \in DOMAIN p /\ p[i - 1] = q[i] BY <1>1, <1>2, <2>2, <3>1
    <3> QED BY <3>1, <3>2 DEF Chunks
  <2> QED BY <2>1, <2>2
<1> QED BY <1>1, <1>3, <1>4, <1>5, <1>6 DEF p, op, QueueOk

LEMMA QueueCut ==
  ASSUME NEW q, QueueOk(q), NEW k \in Nat, k <= Len(q)
  PROVE  /\ QueueOk(SubSeq(q, 1, k)) /\ Len(SubSeq(q, 1, k)) = k
         /\ \A r : r \in Chunks(SubSeq(q, 1, k)) <=>
                      r \in Chunks(q) /\ r \notin Chunks(SubSeq(q, k + 1, Len(q)))
         /\ Chunks(SubSeq(q, k + 1, Len(q))) \subseteq Chunks(q)
<1> DEFINE n == Len(q)
           p == SubSeq(q, 1, k)
           t == SubSeq(q, k + 1, n)
           S == Members(q)
<1>1. IsSeq(q) /\ n \in Nat /\ DOMAIN q = 1 .. n BY SeqFacts DEF QueueOk
<1>2. /\ IsSeq(p) /\ Len(p) = k /\ DOMAIN p = 1 .. k
      /\ \A i \in 1 .. k : i \in DOMAIN q /\ p[i] = q[i]
  BY <1>1, SeqPrefix
<1>3. /\ t \in Seq(S) /\ Len(t) = n - (k + 1) + 1
      /\ \A i \in 1 .. n - (k + 1) + 1 : t[i] = q[(k + 1) + i - 1]
  <2>1. q \in Seq(S) /\ k + 1 \in Int /\ n \in Int /\ 1 <= k + 1 /\ k + 1 <= n + 1 /\ n <= Len(q)
    BY <1>1 DEF IsSeq
  <2> HIDE DEF S
  <2> QED BY ONLY <2>1, StretchOf DEF t
<1> HIDE DEF n, p, t, S
<1>4. DOMAIN t = 1 .. n - k /\ \A i \in 1 .. n - k : k + i \in DOMAIN q /\ t[i] = q[k + i]
  BY <1>1, <1>3, LenProperties
<1>5. \A i \in DOMAIN q : i \in DOMAIN p \/ (i - k \in DOMAIN t /\ t[i - k] = q[i])
  BY <1>1, <1>2, <1>4
<1>6. Chunks(t) \subseteq Chunks(q) /\ Chunks(p) \subseteq Chunks(q) BY <1>2, <1>4 DEF Chunks
<1>7. ASSUME NEW r \in Chunks(p), r \in Chunks(t) PROVE FALSE
  <2>1. PICK i \in DOMAIN p : p[i].kind = "Load" /\ r = p[i].chunk BY <1>7 DEF Chunks
  <2>2. PICK j \in DOMAIN t : t[j].kind = "Load" /\ r = t[j].chunk BY <1>7 DEF Chunks
  <2>3. i \in DOMAIN q /\ k + j \in DOMAIN q /\ q[i] = p[i] /\ q[k + j] = t[j] BY <1>2, <1>4
  <2>4. i = k + j BY <2>1, <2>2, <2>3 DEF QueueOk
  <2> QED BY <1>1, <1>2, <1>4, <2>4
<1>8. ASSUME NEW r \in Chunks(q), r \notin Chunks(t) PROVE r \in Chunks(p)
  <2>1. PICK i \in DOMAIN q : q[i].kind = "Load" /\ r = q[i].chunk BY DEF Chunks
  <2> QED BY <1>2, <1>5, <1>8, <2>1 DEF Chunks
<1> QED BY <1>2, <1>6, <1>7, <1>8 DEF p, t, n, QueueOk

(* The stack of executions.                                                 *)
LEMMA StackPushes ==
  ASSUME NEW stack, NEW slots, NEW runs \in Nat, NEW held \in Nat, StackOk(stack, slots, runs, held),
         NEW f, FrameFits(f, slots, runs, held), f.mark = held, f.kind = "load" => stack = <<>>
  PROVE  StackOk(<<f>> \o stack, slots, runs, held)
<1> DEFINE n == Len(stack)
           t == <<f>> \o stack
<1>1. IsSeq(stack) /\ n \in Nat /\ DOMAIN stack = 1 .. n /\ (stack = <<>> => n = 0)
  BY SeqFacts DEF StackOk
<1>2. /\ IsSeq(t) /\ Len(t) = n + 1 /\ DOMAIN t = 1 .. n + 1 /\ t[1] = f
      /\ \A i \in 2 .. n + 1 : i - 1 \in DOMAIN stack /\ t[i] = stack[i - 1]
  BY <1>1, SeqPushes
<1>3. \A i \in DOMAIN stack : stack[i].mark \in Nat /\ stack[i].mark <= held
  BY DEF StackOk, FrameFits
<1> HIDE DEF n, t
<1>4. ASSUME NEW i \in DOMAIN t
      PROVE  FrameFits(t[i], slots, runs, held) /\ (t[i].kind = "load" => i = Len(t))
  <2>1. CASE i = 1 BY <1>1, <1>2, <2>1
  <2>2. CASE i # 1
    <3>1. i - 1 \in DOMAIN stack /\ t[i] = stack[i - 1] BY <1>1, <1>2, <2>2
    <3>2. FrameFits(stack[i - 1], slots, runs, held) BY <3>1 DEF StackOk
    <3> QED BY <1>1, <1>2, <3>1, <3>2 DEF StackOk, n
  <2> QED BY <2>1, <2>2
<1>5. ASSUME NEW i \in DOMAIN t, NEW j \in DOMAIN t, i < j
      PROVE  t[j].mark <= t[i].mark
  <2>1. j - 1 \in DOMAIN stack /\ t[j] = stack[j - 1] BY <1>1, <1>2, <1>5
  <2>2. CASE i = 1 BY <1>2, <1>3, <2>1, <2>2
  <2>3. CASE i # 1
    <3>1. i - 1 \in DOMAIN stack /\ t[i] = stack[i - 1] /\ i - 1 < j - 1 BY <1>1, <1>2, <1>5, <2>3
    <3> QED BY <2>1, <3>1 DEF StackOk
  <2> QED BY <2>2, <2>3
<1> QED BY <1>2, <1>4, <1>5 DEF StackOk, t

LEMMA StackPops ==
  ASSUME NEW stack, NEW slots, NEW runs, NEW held, StackOk(stack, slots, runs, held), stack # <<>>
  PROVE  /\ StackOk(Tail(stack), slots, runs, held) /\ FrameFits(Head(stack), slots, runs, held)
         /\ Head(stack).kind = "load" => Tail(stack) = <<>>
         /\ \A i \in DOMAIN Tail(stack) : Tail(stack)[i].mark <= Head(stack).mark
<1> DEFINE n == Len(stack)
           t == Tail(stack)
           f == Head(stack)
<1>1. /\ IsSeq(t) /\ Len(t) = n - 1 /\ n \in Nat \ {0} /\ DOMAIN t = 1 .. n - 1
      /\ DOMAIN stack = 1 .. n /\ f = stack[1]
      /\ \A i \in DOMAIN t : i + 1 \in DOMAIN stack /\ t[i] = stack[i + 1]
  BY SeqPops DEF StackOk
<1>2. IsSeq(t) => (t # <<>> <=> Len(t) # 0) BY SeqFacts
<1>3. \A i \in DOMAIN stack : /\ FrameFits(stack[i], slots, runs, held)
                              /\ stack[i].kind = "load" => i = n
  BY DEF StackOk
<1>4. \A i, j \in DOMAIN stack : i < j => stack[j].mark <= stack[i].mark BY DEF StackOk
<1> HIDE DEF n, t, f
<1>5. 1 \in DOMAIN stack /\ \A i \in DOMAIN t : 1 < i + 1 /\ (i + 1 = n <=> i = Len(t)) BY <1>1
<1>6. \A i \in DOMAIN t : /\ FrameFits(t[i], slots, runs, held) /\ (t[i].kind = "load" => i = Len(t))
                          /\ t[i].mark <= f.mark
  BY <1>1, <1>3, <1>4, <1>5
<1>7. ASSUME NEW i \in DOMAIN t, NEW j \in DOMAIN t, i < j
      PROVE  t[j].mark <= t[i].mark
  BY <1>1, <1>4, <1>7
<1>8. FrameFits(f, slots, runs, held) /\ (f.kind = "load" => t = <<>>) BY <1>1, <1>2, <1>3, <1>5
<1> QED BY <1>1, <1>6, <1>7, <1>8 DEF t, f, StackOk

LEMMA StackRests ==
  ASSUME NEW stack, NEW slots, NEW runs, NEW held, StackOk(stack, slots, runs, held),
         NEW held2 \in Nat, \A i \in DOMAIN stack : stack[i].mark <= held2
  PROVE  StackOk(stack, slots, runs, held2)
BY DEF StackOk, FrameFits

LEMMA NoStack ==
  ASSUME NEW slots, NEW runs, NEW held
  PROVE  StackOk(<<>>, slots, runs, held)
<1> QED BY DEF StackOk, IsSeq

(* A chunk is entered with nothing else running.                            *)
LEMMA SlotsWider ==
  ASSUME NEW slots, NEW ids, NEW runs \in Nat, SlotsOk(slots, ids, runs)
  PROVE  SlotsOk(slots, ids, runs + 1) /\ Fresh(slots, runs + 1) /\ NamesKept(slots, slots)
<1>1. \A id \in DOMAIN slots : slots[id] \in [name : ScriptNames, module : 0 .. runs, env : {slots[id].env}]
  BY DEF SlotsOk
<1>2. \A id \in DOMAIN slots :
         slots[id] \in [name : ScriptNames, module : 0 .. runs + 1, env : {slots[id].env}]
  BY <1>1
<1>3. Fresh(slots, runs + 1) BY <1>1 DEF Fresh
<1> QED BY <1>2, <1>3 DEF NamesKept, SlotsOk

LEMMA ChunkEnters ==
  ASSUME ScriptsIInv, ~Running, NEW n \in ScriptNames, NEW env, EnterChunk("load", n, env)
  PROVE  /\ scRuns' \in Nat /\ SlotsOk(scSlots, scIds, scRuns')
         /\ StackOk(scStack', scSlots, scRuns', Len(scPending))
<1> DEFINE f == Frame("load", n, scRuns + 1, env)
           runs == scRuns + 1
           held == Len(scPending)
<1>1. scRuns' = runs /\ scStack' = <<f>> \o scStack /\ scStack = <<>> BY DEF EnterChunk, Running
<1>2. scRuns \in Nat /\ runs \in Nat /\ runs \in 1 .. runs /\ held \in Nat
  BY SeqFacts DEF ScriptsIInv, QueueOk
<1>3. SlotsOk(scSlots, scIds, runs) /\ Fresh(scSlots, runs) BY <1>2, SlotsWider DEF ScriptsIInv
<1>4. f.kind = "load" /\ f.name = n /\ f.run = runs /\ f.mark = held BY DEF Frame
<1> HIDE DEF f, runs, held
<1>5. FrameFits(f, scSlots, runs, held) BY <1>2, <1>3, <1>4 DEF FrameFits
<1>6. StackOk(scStack, scSlots, runs, held) BY <1>1, NoStack
<1>7. StackOk(<<f>> \o scStack, scSlots, runs, held)
  BY ONLY <1>1, <1>2, <1>4, <1>5, <1>6, StackPushes
<1> QED BY <1>1, <1>2, <1>3, <1>7 DEF held

LEMMA LoadKeeps ==
  ASSUME ScriptsIInv, NEW n \in ScriptNames, LoadScript(n) \/ ReloadInPlace(n)
  PROVE  ScriptsIInv' /\ NamesKept(scSlots, scSlots')
<1>1. PICK env : ~Running /\ EnterChunk("load", n, env) BY DEF LoadScript, ReloadInPlace
<1>2. UNCHANGED <<scSlots, scIds, scPending, scApply, scSubs, scRefs>>
  BY DEF LoadScript, ReloadInPlace
<1>3. ScriptsIInv' BY <1>1, <1>2, ChunkEnters DEF ScriptsIInv, RefsExact
<1> QED BY <1>2, <1>3 DEF NamesKept

LEMMA QueueLoadKeeps ==
  ASSUME ScriptsIInv, NEW n \in ScriptNames, QueueLoad(n)
  PROVE  ScriptsIInv' /\ NamesKept(scSlots, scSlots')
<1> DEFINE id == IF n \in DOMAIN scIds THEN scIds[n] ELSE Len(scSlots) + 1
           chunk == <<"chunk", Cardinality({r \in scRefs : r[1] = "chunk"}) + 1>>
           op == [kind |-> "Load", id |-> id, name |-> n, chunk |-> chunk]
<1>1. /\ chunk \notin scRefs /\ scPending' = Append(scPending, op) /\ scRefs' = scRefs \cup {chunk}
      /\ UNCHANGED <<scSlots, scIds, scStack, scApply, scSubs, scRuns>>
  BY DEF QueueLoad
<1>2. op.kind = "Load" /\ op.name = n /\ op.chunk = chunk /\ chunk[1] = "chunk" OBVIOUS
<1> HIDE DEF op, chunk
<1>3. OpFits(op) BY <1>2 DEF OpFits
<1>4. chunk \notin Chunks(scPending) /\ chunk \notin Chunks(scApply)
  BY <1>1 DEF ScriptsIInv, RefsExact
<1>5. QueueOk(scPending) /\ scRuns \in Nat /\ StackOk(scStack, scSlots, scRuns, Len(scPending))
  BY DEF ScriptsIInv
<1>6. /\ QueueOk(scPending') /\ Len(scPending') = Len(scPending) + 1
      /\ \A r : r \in Chunks(scPending') <=> r \in Chunks(scPending) \/ r = chunk
  <2> DEFINE p == Append(scPending, op)
  <2>1. p = Append(scPending, op) OBVIOUS
  <2> HIDE DEF p
  <2>2. op.kind = "Load" => op.chunk \notin Chunks(scPending) BY <1>2, <1>4
  <2>3. /\ QueueOk(p) /\ Len(p) = Len(scPending) + 1
        /\ \A r : r \in Chunks(p) <=> r \in Chunks(scPending) \/ (op.kind = "Load" /\ r = op.chunk)
    BY ONLY <1>3, <1>5, <2>1, <2>2, QueueAppends
  <2> QED BY <1>1, <1>2, <2>1, <2>3
<1>7. StackOk(scStack, scSlots, scRuns, Len(scPending'))
  <2>1. Len(scPending) \in Nat /\ Len(scPending') \in Nat BY <1>5, <1>6, SeqFacts DEF QueueOk
  <2> QED BY <1>5, <1>6, <2>1, StackRests DEF StackOk, FrameFits
<1>8. Chunks(scPending') \cap Chunks(scApply) = {} BY <1>4, <1>6 DEF ScriptsIInv
<1>9. ScriptsIInv' BY <1>1, <1>6, <1>7, <1>8 DEF ScriptsIInv, RefsExact
<1> QED BY <1>1, <1>9 DEF NamesKept

LEMMA CallKeeps ==
  ASSUME ScriptsIInv, NEW id \in DOMAIN scSlots, CallScript(id)
  PROVE  ScriptsIInv' /\ NamesKept(scSlots, scSlots')
<1> DEFINE f == Frame("call", scSlots[id].name, scSlots[id].module, {})
           held == Len(scPending)
<1>1. /\ scStack' = <<f>> \o scStack
      /\ UNCHANGED <<scSlots, scIds, scPending, scApply, scSubs, scRefs, scRuns>>
  BY DEF CallScript
<1>2. scRuns \in Nat /\ held \in Nat /\ StackOk(scStack, scSlots, scRuns, held)
  BY SeqFacts DEF ScriptsIInv, QueueOk
<1>3. f.kind = "call" /\ f.mark = held BY DEF Frame
<1> HIDE DEF f, held
<1>4. StackOk(<<f>> \o scStack, scSlots, scRuns, held) BY <1>2, <1>3, StackPushes DEF FrameFits
<1> QED BY <1>1, <1>4 DEF NamesKept, ScriptsIInv, RefsExact, held

(* A run that ends well becomes its script's module.                        *)
LEMMA ExitOkKeeps ==
  ASSUME ScriptsIInv, ExitOk
  PROVE  ScriptsIInv' /\ NamesKept(scSlots, scSlots')
<1> DEFINE f == Head(scStack)
           held == Len(scPending)
<1>1. /\ scStack # <<>> /\ scStack' = Tail(scStack)
      /\ UNCHANGED <<scPending, scApply, scSubs, scRuns>>
  BY DEF ExitOk, Running
<1>2. scRuns \in Nat /\ SlotsOk(scSlots, scIds, scRuns) /\ StackOk(scStack, scSlots, scRuns, held)
  BY DEF ScriptsIInv
<1>3. /\ StackOk(Tail(scStack), scSlots, scRuns, held) /\ FrameFits(f, scSlots, scRuns, held)
      /\ f.kind = "load" => Tail(scStack) = <<>>
  BY <1>1, <1>2, StackPops
<1>4. CASE f.kind # "load"
  <2>1. UNCHANGED <<scSlots, scIds, scRefs>> BY <1>4 DEF ExitOk
  <2> QED BY <1>1, <1>3, <2>1 DEF NamesKept, ScriptsIInv, RefsExact
<1>5. CASE f.kind = "load"
  <2> DEFINE n == f.name
             run == f.run
  <2>1. n \in ScriptNames /\ run \in 1 .. scRuns /\ Fresh(scSlots, run) /\ scStack' = <<>>
    BY <1>1, <1>3, <1>5 DEF FrameFits
  <2>2. ActivateScript(n, run, f.env) BY <1>5 DEF ExitOk
  <2>3. StackOk(scStack', scSlots', scRuns, held) BY <2>1, NoStack
  <2> HIDE DEF n, run
  <2>4. SlotsOk(scSlots', scIds', scRuns) /\ NamesKept(scSlots, scSlots') /\ RefsExact'
    <3>1. CASE n \in DOMAIN scIds
      <4> DEFINE k == scIds[n]
                 m == scSlots[k].module
      <4>0. scSlots' = Replaced(scSlots, scIds[n], n, run, f.env \cup {run})
        BY <2>2, <3>1 DEF ActivateScript, Entered, Replaced
      <4>1. /\ scSlots' = [scSlots EXCEPT ![k] = [name |-> n, module |-> run, env |-> f.env \cup {run}]]
            /\ scRefs' = (scRefs \ SlotRefs(k)) \cup {<<"module", run>>, <<"env", run>>} /\ scIds' = scIds
        BY <2>2, <3>1 DEF ActivateScript, Entered
      <4>2. /\ SlotsOk(scSlots', scIds, scRuns) /\ NamesKept(scSlots, scSlots')
            /\ \A r : HeldBySlot(r, scSlots') <=> \/ HeldBySlot(r, scSlots) /\ r \notin ByModule(m)
                                                  \/ r \in ByModule(run)
        BY ONLY <1>2, <2>1, <3>1, <4>0, SlotReplaced DEF m, k
      <4>3. \A r : r \in scRefs' <=> (r \in scRefs /\ r \notin ByModule(m)) \/ r \in ByModule(run)
        BY <1>2, <3>1, <4>1 DEF ByModule, SlotRefs, IsLoaded, SlotsOk
      <4> HIDE DEF m, k
      <4>4. RefsExact' BY <1>1, <4>2, <4>3, KindsApart, ChunksAreChunks DEF ScriptsIInv, RefsExact
      <4> QED BY <4>1, <4>2, <4>4
    <3>2. CASE n \notin DOMAIN scIds
      <4>1. /\ scSlots' = Extended(scSlots, n, run, f.env \cup {run})
            /\ scIds' = Indexed(scIds, n, Len(scSlots) + 1)
            /\ scRefs' = scRefs \cup {<<"module", run>>, <<"env", run>>}
        BY <2>2, <3>2 DEF ActivateScript, Entered, Extended, Indexed
      <4>2. /\ SlotsOk(scSlots', scIds', scRuns) /\ NamesKept(scSlots, scSlots')
            /\ \A r : HeldBySlot(r, scSlots') <=> HeldBySlot(r, scSlots) \/ r \in ByModule(run)
        BY <1>2, <2>1, <3>2, <4>1, SlotAdded
      <4>3. RefsExact' BY <1>1, <4>1, <4>2 DEF ScriptsIInv, RefsExact, ByModule
      <4> QED BY <4>2, <4>3
    <3> QED BY <3>1, <3>2
  <2> QED BY <1>1, <2>3, <2>4 DEF ScriptsIInv
<1> QED BY <1>4, <1>5

(* A run that fails leaves the slots alone; a limit cuts the queue where    *)
(* the execution found it.                                                  *)
LEMMA ExitFailedKeeps ==
  ASSUME ScriptsIInv, ExitFailed
  PROVE  ScriptsIInv' /\ NamesKept(scSlots, scSlots')
<1> DEFINE f == Head(scStack)
           k == f.mark
           held == Len(scPending)
           t == Tail(scStack)
<1>1. /\ scStack # <<>> /\ scStack' = t
      /\ UNCHANGED <<scSlots, scIds, scApply, scSubs, scRuns>>
  BY DEF ExitFailed, Running
<1>2. StackOk(scStack, scSlots, scRuns, held) /\ QueueOk(scPending) BY DEF ScriptsIInv
<1>3. /\ StackOk(t, scSlots, scRuns, held) /\ FrameFits(f, scSlots, scRuns, held)
      /\ \A i \in DOMAIN t : t[i].mark <= k
  BY <1>1, <1>2, StackPops
<1>4. k \in Nat /\ k <= held BY <1>3 DEF FrameFits
<1>5. CASE UNCHANGED <<scPending, scRefs>>
  BY <1>1, <1>3, <1>5 DEF NamesKept, ScriptsIInv, RefsExact
<1>6. CASE scPending' = SubSeq(scPending, 1, k) /\ scRefs' = scRefs \ Chunks(TakenBack)
  <2>1. /\ QueueOk(scPending') /\ Len(scPending') = k
        /\ \A r : r \in Chunks(scPending') <=> r \in Chunks(scPending) /\ r \notin Chunks(TakenBack)
        /\ Chunks(TakenBack) \subseteq Chunks(scPending)
    BY <1>2, <1>4, <1>6, QueueCut DEF TakenBack
  <2> HIDE DEF t, k
  <2>2. RefsExact'
    BY <1>1, <1>6, <2>1, KindsApart, ChunksAreChunks DEF ScriptsIInv, RefsExact, HeldBySlot
  <2>3. ScriptsIInv' BY <1>1, <1>3, <1>4, <2>1, <2>2, StackRests DEF ScriptsIInv
  <2> QED BY <1>1, <2>3 DEF NamesKept
<1> QED BY <1>5, <1>6 DEF ExitFailed

(* A slot is unloaded with nothing running.                                 *)
LEMMA UnloadsSlot ==
  ASSUME ScriptsIInv, NEW id, UnloadImmediate(id)
  PROVE  /\ SlotsOk(scSlots', scIds', scRuns) /\ NamesKept(scSlots, scSlots')
         /\ \A r : r \in scRefs' => r \in scRefs
         /\ \A r : r[1] = "chunk" /\ r \in scRefs => r \in scRefs'
         /\ \A r : r[1] # "chunk" => (r \in scRefs' <=> HeldBySlot(r, scSlots') \/ r \in FnRefs(scSubs))
         /\ \A r : HeldBySlot(r, scSlots') => HeldBySlot(r, scSlots)
<1>1. /\ SlotsOk(scSlots, scIds, scRuns) /\ scRuns \in Nat /\ QueueOk(scPending) /\ QueueOk(scApply)
      /\ RefsExact
  BY DEF ScriptsIInv
<1>2. \A r : r[1] # "chunk" => (r \in scRefs <=> HeldBySlot(r, scSlots) \/ r \in FnRefs(scSubs))
  BY <1>1, ChunksAreChunks DEF RefsExact
<1>3. CASE ~IsLoaded(id) BY <1>1, <1>2, <1>3 DEF NamesKept, UnloadImmediate
<1>4. CASE IsLoaded(id)
  <2> DEFINE m == scSlots[id].module
  <2>1. id \in DOMAIN scSlots /\ m # 0 BY <1>4 DEF IsLoaded
  <2>2. /\ scSlots' = Emptied(scSlots, id) /\ scIds' = Unindexed(scIds, scSlots[id].name)
        /\ scRefs' = scRefs \ ByModule(m)
    BY <1>4 DEF UnloadImmediate, Emptied, Unindexed, SlotRefs, ByModule
  <2>3. /\ SlotsOk(scSlots', scIds', scRuns) /\ NamesKept(scSlots, scSlots')
        /\ \A r : HeldBySlot(r, scSlots') <=> HeldBySlot(r, scSlots) /\ r \notin ByModule(m)
    BY ONLY <1>1, <2>1, <2>2, SlotUnloaded DEF m
  <2> HIDE DEF m
  <2> QED BY <1>2, <2>2, <2>3, KindsApart
<1> QED BY <1>3, <1>4

LEMMA UnloadKeeps ==
  ASSUME ScriptsIInv, NEW id \in DOMAIN scSlots, Unload(id)
  PROVE  ScriptsIInv' /\ NamesKept(scSlots, scSlots')
<1>1. UNCHANGED <<scStack, scApply, scSubs, scRuns>> BY DEF Unload
<1>2. CASE ~Running /\ UnloadImmediate(id) /\ UNCHANGED scPending
  <2>1. /\ SlotsOk(scSlots', scIds', scRuns) /\ NamesKept(scSlots, scSlots')
        /\ \A r : r \in scRefs' => r \in scRefs
        /\ \A r : r[1] = "chunk" /\ r \in scRefs => r \in scRefs'
        /\ \A r : r[1] # "chunk" => (r \in scRefs' <=> HeldBySlot(r, scSlots') \/ r \in FnRefs(scSubs))
        /\ \A r : HeldBySlot(r, scSlots') => HeldBySlot(r, scSlots)
    BY <1>2, UnloadsSlot
  <2>2. RefsExact'
    <3>1. ASSUME NEW r
          PROVE  r \in scRefs' <=> \/ HeldBySlot(r, scSlots') \/ r \in Chunks(scPending) \/ r \in Chunks(scApply)
                                   \/ r \in FnRefs(scSubs)
      <4>1. r \in scRefs <=> \/ HeldBySlot(r, scSlots) \/ r \in Chunks(scPending) \/ r \in Chunks(scApply)
                             \/ r \in FnRefs(scSubs)
        BY DEF ScriptsIInv, RefsExact
      <4>2. r[1] = "chunk" => ~HeldBySlot(r, scSlots) /\ r \notin FnRefs(scSubs)
        BY KindsApart DEF HeldBySlot
      <4> QED BY <2>1, <4>1, <4>2, ChunksAreChunks DEF ScriptsIInv
    <3> QED BY <1>1, <1>2, <3>1 DEF RefsExact
  <2>3. ScriptsIInv' BY <1>1, <1>2, <2>1, <2>2, NoStack DEF ScriptsIInv, Running
  <2> QED BY <2>1, <2>3
<1>3. CASE /\ scPending' = Append(scPending, [kind |-> "Unload", id |-> id, name |-> scSlots[id].name, chunk |-> <<>>])
           /\ UNCHANGED <<scSlots, scIds, scRefs>>
  <2> DEFINE op == [kind |-> "Unload", id |-> id, name |-> scSlots[id].name, chunk |-> <<>>]
  <2>1. scPending' = Append(scPending, op) /\ op.kind = "Unload" BY <1>3
  <2> HIDE DEF op
  <2>2. OpFits(op) BY <2>1 DEF OpFits
  <2>3. QueueOk(scPending) /\ scRuns \in Nat /\ StackOk(scStack, scSlots, scRuns, Len(scPending))
    BY DEF ScriptsIInv
  <2>4. /\ QueueOk(scPending') /\ Len(scPending') = Len(scPending) + 1
        /\ \A r : r \in Chunks(scPending') <=> r \in Chunks(scPending)
    <3> DEFINE p == Append(scPending, op)
    <3>1. p = Append(scPending, op) OBVIOUS
    <3> HIDE DEF p
    <3>2. op.kind = "Load" => op.chunk \notin Chunks(scPending) BY <2>1
    <3>3. /\ QueueOk(p) /\ Len(p) = Len(scPending) + 1
          /\ \A r : r \in Chunks(p) <=> r \in Chunks(scPending) \/ (op.kind = "Load" /\ r = op.chunk)
      BY ONLY <2>2, <2>3, <3>1, <3>2, QueueAppends
    <3> QED BY <2>1, <3>1, <3>3
  <2>5. StackOk(scStack, scSlots, scRuns, Len(scPending'))
    <3>1. Len(scPending) \in Nat /\ Len(scPending') \in Nat BY <2>3, <2>4, SeqFacts DEF QueueOk
    <3> QED BY <2>3, <2>4, <3>1, StackRests DEF StackOk, FrameFits
  <2>6. Chunks(scPending') \cap Chunks(scApply) = {} BY <2>4 DEF ScriptsIInv
  <2>7. ScriptsIInv' BY <1>1, <1>3, <2>4, <2>5, <2>6 DEF ScriptsIInv, RefsExact
  <2> QED BY <1>3, <2>7 DEF NamesKept
<1> QED BY <1>2, <1>3 DEF Unload

(* The safe point.                                                          *)
LEMMA ApplyPendingKeeps ==
  ASSUME ScriptsIInv, ApplyPendingChanges
  PROVE  ScriptsIInv' /\ NamesKept(scSlots, scSlots')
<1>1. /\ scStack = <<>> /\ scApply = <<>> /\ scApply' = scPending /\ scPending' = <<>>
      /\ UNCHANGED <<scSlots, scIds, scStack, scSubs, scRefs, scRuns>>
  BY DEF ApplyPendingChanges, Running
<1>2. QueueOk(scPending') /\ Chunks(scPending') = {} /\ Chunks(scApply) = {}
  BY <1>1 DEF QueueOk, Chunks, IsSeq
<1>3. RefsExact' BY <1>1, <1>2 DEF ScriptsIInv, RefsExact
<1>4. ScriptsIInv' BY <1>1, <1>2, <1>3, NoStack DEF ScriptsIInv
<1> QED BY <1>1, <1>4 DEF NamesKept

LEMMA ApplyNextKeeps ==
  ASSUME ScriptsIInv, ApplyNext
  PROVE  ScriptsIInv' /\ NamesKept(scSlots, scSlots')
<1> DEFINE op == Head(scApply)
<1>1. /\ ~Running /\ scApply # <<>> /\ scApply' = Tail(scApply)
      /\ UNCHANGED <<scPending, scSubs>>
  BY DEF ApplyNext
<1>2. QueueOk(scApply) /\ QueueOk(scPending) /\ Chunks(scPending) \cap Chunks(scApply) = {}
  BY DEF ScriptsIInv
<1>3. /\ QueueOk(scApply') /\ OpFits(op)
      /\ op.kind = "Load" => op.chunk \in Chunks(scApply)
      /\ \A r : r \in Chunks(scApply') <=> r \in Chunks(scApply) /\ ~(op.kind = "Load" /\ r = op.chunk)
  BY <1>1, <1>2, QueuePops
<1>4. \A r : r \in Chunks(scApply) \/ r \in Chunks(scPending) => r[1] = "chunk"
  BY <1>2, ChunksAreChunks
<1>5. Chunks(scPending') \cap Chunks(scApply') = {} BY <1>1, <1>2, <1>3
<1>6. CASE op.kind = "Unload" /\ UnloadImmediate(op.id) /\ UNCHANGED <<scStack, scRuns>>
  <2>1. /\ SlotsOk(scSlots', scIds', scRuns) /\ NamesKept(scSlots, scSlots')
        /\ \A r : r \in scRefs' => r \in scRefs
        /\ \A r : r[1] = "chunk" /\ r \in scRefs => r \in scRefs'
        /\ \A r : r[1] # "chunk" => (r \in scRefs' <=> HeldBySlot(r, scSlots') \/ r \in FnRefs(scSubs))
        /\ \A r : HeldBySlot(r, scSlots') => HeldBySlot(r, scSlots)
    BY <1>6, UnloadsSlot
  <2>2. StackOk(scStack', scSlots', scRuns', Len(scPending')) BY <1>1, <1>6, NoStack DEF Running
  <2>3. RefsExact'
    <3>1. ASSUME NEW r
          PROVE  r \in scRefs' <=> \/ HeldBySlot(r, scSlots') \/ r \in Chunks(scPending) \/ r \in Chunks(scApply)
                                   \/ r \in FnRefs(scSubs)
      <4>1. r[1] = "chunk" => ~HeldBySlot(r, scSlots) /\ r \notin FnRefs(scSubs)
        BY KindsApart DEF HeldBySlot
      <4> QED BY <1>4, <2>1, <4>1 DEF ScriptsIInv, RefsExact
    <3> QED BY <1>1, <1>3, <1>6, <3>1 DEF RefsExact
  <2>4. ScriptsIInv' BY <1>1, <1>2, <1>3, <1>5, <1>6, <2>1, <2>2, <2>3 DEF ScriptsIInv
  <2> QED BY <2>1, <2>4
<1>7. CASE /\ op.kind = "Load" /\ EnterChunk("load", op.name, {})
           /\ scRefs' = scRefs \ {op.chunk} /\ UNCHANGED <<scSlots, scIds>>
  <2>1. scRuns' \in Nat /\ SlotsOk(scSlots, scIds, scRuns') /\ StackOk(scStack', scSlots, scRuns', Len(scPending))
    BY <1>1, <1>3, <1>7, ChunkEnters DEF OpFits
  <2>2. /\ op.chunk \in Chunks(scApply) /\ op.chunk \notin Chunks(scPending) /\ op.chunk[1] = "chunk"
        /\ op.chunk \notin FnRefs(scSubs) /\ ~HeldBySlot(op.chunk, scSlots)
    BY <1>2, <1>3, <1>4, <1>7, KindsApart DEF HeldBySlot
  <2> HIDE DEF op
  <2>3. RefsExact' BY <1>1, <1>3, <1>7, <2>2 DEF ScriptsIInv, RefsExact
  <2>4. ScriptsIInv' BY <1>1, <1>2, <1>3, <1>5, <1>7, <2>1, <2>3 DEF ScriptsIInv
  <2> QED BY <1>7, <2>4 DEF NamesKept
<1> QED BY <1>6, <1>7 DEF ApplyNext

(* Events.                                                                  *)
LEMMA SubscribeKeeps ==
  ASSUME ScriptsIInv, NEW e, Subscribe(e)
  PROVE  ScriptsIInv' /\ NamesKept(scSlots, scSlots')
<1> DEFINE sub == [event |-> e, run |-> Owner]
           n == Len(scSubs)
<1>1. /\ scSubs' = Append(scSubs, sub) /\ scRefs' = scRefs \cup {<<"fn", n + 1>>}
      /\ UNCHANGED <<scSlots, scIds, scPending, scStack, scApply, scRuns>>
  BY DEF Subscribe
<1>2. IsSeq(scSubs) /\ n \in Nat /\ DOMAIN scSubs = 1 .. n BY SeqFacts DEF ScriptsIInv
<1> HIDE DEF sub
<1>3. IsSeq(scSubs') /\ DOMAIN scSubs' = 1 .. n + 1 BY <1>1, <1>2, SeqAppends
<1> HIDE DEF n
<1>4. \A r : r \in FnRefs(scSubs') <=> r \in FnRefs(scSubs) \/ r = <<"fn", n + 1>>
  BY <1>2, <1>3 DEF FnRefs
<1>5. ScriptsIInv' BY <1>1, <1>3, <1>4 DEF ScriptsIInv, RefsExact
<1> QED BY <1>1, <1>5 DEF NamesKept

LEMMA DispatchNextKeeps ==
  ASSUME ScriptsIInv, DispatchNext
  PROVE  ScriptsIInv' /\ NamesKept(scSlots, scSlots')
<1> DEFINE f == Frame("event", "", scSubs[Head(scDispatch.left)].run, {})
           held == Len(scPending)
<1>1. /\ scStack = <<>> /\ (scStack' = scStack \/ scStack' = <<f>>)
      /\ UNCHANGED <<scSlots, scIds, scPending, scApply, scSubs, scRefs, scRuns>>
  BY DEF DispatchNext, Running
<1>2. scRuns \in Nat /\ held \in Nat /\ StackOk(scStack, scSlots, scRuns, held)
  BY SeqFacts DEF ScriptsIInv, QueueOk
<1>3. f.kind = "event" /\ f.mark = held BY DEF Frame
<1> HIDE DEF f, held
<1>4. StackOk(<<f>> \o scStack, scSlots, scRuns, held) BY <1>2, <1>3, StackPushes DEF FrameFits
<1>5. ScriptsIInv' BY <1>1, <1>2, <1>4 DEF ScriptsIInv, RefsExact, held
<1> QED BY <1>1, <1>5 DEF NamesKept

LEMMA DispatchKeeps ==
  ASSUME ScriptsIInv, NEW e, Dispatch(e)
  PROVE  ScriptsIInv' /\ NamesKept(scSlots, scSlots')
BY DEF Dispatch, ScriptsIInv, RefsExact, NamesKept

LEMMA ScriptsStart == ScriptContextInit => ScriptsIInv
<1> SUFFICES ASSUME ScriptContextInit PROVE ScriptsIInv OBVIOUS
<1>1. /\ IsSeq(<<>>) /\ DOMAIN <<>> = {} /\ Chunks(<<>>) = {} /\ FnRefs(<<>>) = {} /\ Len(<<>>) = 0
  BY DEF IsSeq, Chunks, FnRefs
<1>2. \A r : ~HeldBySlot(r, <<>>) BY <1>1 DEF HeldBySlot
<1> QED BY <1>1, <1>2 DEF ScriptContextInit, ScriptsIInv, RefsExact, SlotsOk, QueueOk, StackOk

LEMMA ScriptsStep == ScriptsIInv /\ [ScriptContextNext]_scVars => ScriptsIInv' /\ NamesKept(scSlots, scSlots')
<1> SUFFICES ASSUME ScriptsIInv, [ScriptContextNext]_scVars PROVE ScriptsIInv' /\ NamesKept(scSlots, scSlots')
  OBVIOUS
<1>1. CASE UNCHANGED scVars BY <1>1 DEF scVars, ScriptsIInv, RefsExact, NamesKept
<1>2. ASSUME NEW n \in ScriptNames, LoadScript(n) \/ ReloadInPlace(n) \/ QueueLoad(n)
      PROVE  ScriptsIInv' /\ NamesKept(scSlots, scSlots')
  BY <1>2, LoadKeeps, QueueLoadKeeps
<1>3. ASSUME NEW id \in DOMAIN scSlots, CallScript(id) \/ Unload(id)
      PROVE  ScriptsIInv' /\ NamesKept(scSlots, scSlots')
  BY <1>3, CallKeeps, UnloadKeeps
<1>4. CASE ExitOk \/ ExitFailed \/ ApplyPendingChanges \/ ApplyNext \/ DispatchNext
  BY <1>4, ExitOkKeeps, ExitFailedKeeps, ApplyPendingKeeps, ApplyNextKeeps, DispatchNextKeeps
<1>5. ASSUME NEW e \in ScriptEvents, Subscribe(e) \/ Dispatch(e)
      PROVE  ScriptsIInv' /\ NamesKept(scSlots, scSlots')
  BY <1>5, SubscribeKeeps, DispatchKeeps
<1> QED BY <1>1, <1>2, <1>3, <1>4, <1>5 DEF ScriptContextNext

LEMMA ScriptsSafe == ScriptsIInv => NamesAndSlotsAgree /\ RegistryIsExact
<1> SUFFICES ASSUME ScriptsIInv PROVE NamesAndSlotsAgree /\ RegistryIsExact OBVIOUS
<1> DEFINE held == (UNION {SlotRefs(id) : id \in DOMAIN scSlots}) \cup (Chunks(scPending) \cup Chunks(scApply))
                     \cup {<<"fn", i>> : i \in DOMAIN scSubs}
<1>1. ASSUME NEW r PROVE r \in (UNION {SlotRefs(id) : id \in DOMAIN scSlots}) <=> HeldBySlot(r, scSlots)
  <2>1. \A id \in DOMAIN scSlots : r \in SlotRefs(id) <=> scSlots[id].module # 0 /\ r \in ByModule(scSlots[id].module)
    BY DEF SlotRefs, ByModule, IsLoaded
  <2>2. r \in (UNION {SlotRefs(id) : id \in DOMAIN scSlots}) <=> \E id \in DOMAIN scSlots : r \in SlotRefs(id)
    OBVIOUS
  <2>3. HeldBySlot(r, scSlots)
           <=> \E id \in DOMAIN scSlots : scSlots[id].module # 0 /\ r \in ByModule(scSlots[id].module)
    BY DEF HeldBySlot
  <2> QED BY ONLY <2>1, <2>2, <2>3
<1>2. ASSUME NEW r PROVE r \in scRefs <=> r \in held BY <1>1 DEF ScriptsIInv, RefsExact, FnRefs
<1>3. scRefs = held BY <1>2
<1> QED BY <1>3 DEF RegistryIsExact, ScriptsIInv, SlotsOk, NamesAndSlotsAgree, IsLoaded

(* In every behaviour names and slots agree, the registry holds exactly     *)
(* what is in use, and an id stays with its script.                         *)
THEOREM ScriptsCorrect ==
  ScriptContextSpec => [](NamesAndSlotsAgree /\ RegistryIsExact) /\ IdsNeverMove
<1>1. ScriptsIInv /\ [ScriptContextNext]_scVars =>
         [\A id \in DOMAIN scSlots : id \in DOMAIN scSlots' /\ scSlots'[id].name = scSlots[id].name]_scVars
  BY ScriptsStep DEF NamesKept
<1> QED BY ScriptsStart, ScriptsStep, ScriptsSafe, <1>1, PTL DEF ScriptContextSpec, IdsNeverMove

------------------------------------------------------------------------------
(* Redis.  The pool's counters are the leases the callers hold.             *)
Calls == [at : {"off", "open", "try", "won", "reset", "lost", "opening", "stamping"},
          left : Int, lease : BOOLEAN, since : Int]
CallFits(e) == e.lease => e.at = "try" /\ e.left > 0
BreakerIInv ==
  /\ rdNow \in Nat /\ rdIdle \in Nat /\ rdInUse \in Nat /\ rdCall \in [Callers -> Calls]
  /\ RedisPoolIsExact /\ \A c \in Callers : CallFits(rdCall[c])

(* Callers that move without a lease, or with the one they have.            *)
Leases(call) == {c \in Callers : call[c].lease}

LEMMA LeaseCounts ==
  ASSUME NEW call, NEW call2, NEW c \in Callers, DOMAIN call = Callers,
         \A d \in Callers : call[d].lease \in BOOLEAN /\ call2[d].lease \in BOOLEAN,
         \A d \in Callers \ {c} : call2[d].lease <=> call[d].lease
  PROVE  /\ Cardinality(Leases(call)) \in Nat
         /\ (call2[c].lease <=> call[c].lease) => Cardinality(Leases(call2)) = Cardinality(Leases(call))
         /\ ~call[c].lease /\ call2[c].lease => Cardinality(Leases(call2)) = Cardinality(Leases(call)) + 1
         /\ call[c].lease /\ ~call2[c].lease => /\ Cardinality(Leases(call2)) = Cardinality(Leases(call)) - 1
                                                /\ Cardinality(Leases(call)) > 0
<1> DEFINE L == Leases(call)
           M == Leases(call2)
<1>1. IsFiniteSet(L) /\ Cardinality(L) \in Nat
  <2>1. L \subseteq Callers /\ IsFiniteSet(Callers) BY RedisAssumption DEF Leases
  <2> HIDE DEF L
  <2> QED BY <2>1, FS_Subset, FS_CardinalityType
<1>2. (call2[c].lease <=> call[c].lease) => M = L BY DEF Leases
<1>3. ~call[c].lease /\ call2[c].lease => M = L \cup {c} /\ c \notin L BY DEF Leases
<1>4. call[c].lease /\ ~call2[c].lease => M = L \ {c} /\ c \in L BY DEF Leases
<1> HIDE DEF L, M
<1>5. /\ c \notin L => Cardinality(L \cup {c}) = Cardinality(L) + 1
      /\ c \in L => Cardinality(L \ {c}) = Cardinality(L) - 1
  BY <1>1, FS_AddElement, FS_RemoveElement
<1>6. c \in L => Cardinality(L) > 0 BY <1>1, <1>5, FS_Subset, FS_CardinalityType
<1> QED BY <1>1, <1>2, <1>3, <1>4, <1>5, <1>6 DEF L, M

(* A caller moves and the pool stays as it is.                              *)
LEMMA CallerMoves ==
  ASSUME BreakerIInv, NEW c \in Callers, NEW e \in Calls, CallFits(e), rdCall' = [rdCall EXCEPT ![c] = e],
         e.lease <=> rdCall[c].lease, rdNow' \in Nat, UNCHANGED <<rdIdle, rdInUse>>
  PROVE  BreakerIInv'
<1> DEFINE call2 == [rdCall EXCEPT ![c] = e]
<1>1. call2 \in [Callers -> Calls] /\ call2[c] = e /\ \A d \in Callers \ {c} : call2[d] = rdCall[d]
  BY DEF BreakerIInv
<1>2. \A d \in Callers : (call2[d].lease <=> rdCall[d].lease) BY <1>1
<1>3. call2 = rdCall' OBVIOUS
<1> HIDE DEF call2
<1>4. RedisPoolIsExact'
  <2>1. rdIdle + rdInUse <= RedisPool /\ rdInUse = Cardinality(Leases(rdCall))
    BY DEF BreakerIInv, RedisPoolIsExact, Leases
  <2>2. rdIdle' + rdInUse' <= RedisPool /\ rdInUse' = Cardinality(Leases(call2))
    BY <1>2, <2>1 DEF Leases
  <2> QED BY <1>3, <2>2 DEF RedisPoolIsExact, Leases
<1> QED BY <1>1, <1>3, <1>4 DEF BreakerIInv

LEMMA LeaseTaken ==
  ASSUME BreakerIInv, NEW c \in Callers, TakesLease(c)
  PROVE  BreakerIInv'
<1> DEFINE e == [rdCall[c] EXCEPT !.lease = TRUE]
<1>1. rdCall \in [Callers -> Calls] /\ rdCall[c] \in Calls /\ ~rdCall[c].lease
  BY DEF BreakerIInv, TakesLease
<1>2. e \in Calls /\ e.lease /\ CallFits(e) BY <1>1 DEF Calls, CallFits, TakesLease
<1>3. rdCall' = [rdCall EXCEPT ![c] = e] BY DEF TakesLease
<1> HIDE DEF e
<1>4. rdCall' \in [Callers -> Calls] /\ rdCall'[c] = e /\ \A d \in Callers \ {c} : rdCall'[d] = rdCall[d]
  BY <1>1, <1>2, <1>3
<1>5. \A d \in Callers : rdCall[d].lease \in BOOLEAN /\ rdCall'[d].lease \in BOOLEAN
  BY <1>1, <1>4 DEF Calls
<1>6. DOMAIN rdCall = Callers /\ ~rdCall[c].lease /\ rdCall'[c].lease BY <1>1, <1>2, <1>4
<1>7. \A d \in Callers \ {c} : rdCall'[d].lease <=> rdCall[d].lease BY <1>4
<1>8. /\ Cardinality(Leases(rdCall)) \in Nat
      /\ Cardinality(Leases(rdCall')) = Cardinality(Leases(rdCall)) + 1
  BY ONLY <1>5, <1>6, <1>7, c \in Callers, LeaseCounts
<1>9. /\ rdIdle \in Nat /\ rdInUse \in Nat /\ rdNow \in Nat
      /\ rdIdle + rdInUse <= RedisPool /\ rdInUse = Cardinality(Leases(rdCall))
  BY DEF BreakerIInv, RedisPoolIsExact, Leases
<1>10. /\ rdIdle' = (IF rdIdle > 0 THEN rdIdle - 1 ELSE 0) /\ rdInUse' = rdInUse + 1 /\ rdNow' = rdNow
       /\ rdIdle > 0 \/ rdInUse < RedisPool
  BY DEF TakesLease
<1>11. \A d \in Callers : CallFits(rdCall'[d]) BY <1>2, <1>4 DEF BreakerIInv, CallFits
<1> QED
  BY <1>4, <1>8, <1>9, <1>10, <1>11, RedisAssumption DEF BreakerIInv, RedisPoolIsExact, Leases

LEMMA LeaseEnds ==
  ASSUME BreakerIInv, NEW c \in Callers, CommandEnds(c)
  PROVE  BreakerIInv'
<1>1. rdCall \in [Callers -> Calls] /\ rdCall[c] \in Calls /\ rdCall[c].lease
  BY DEF BreakerIInv, CommandEnds
<1>2. PICK e \in Calls : rdCall' = [rdCall EXCEPT ![c] = e] /\ ~e.lease
  <2>1. CASE rdCall' = [rdCall EXCEPT ![c].at = "won", ![c].lease = FALSE]
    <3> DEFINE e == [rdCall[c] EXCEPT !.at = "won", !.lease = FALSE]
    <3>1. e \in Calls /\ ~e.lease BY <1>1 DEF Calls
    <3>2. rdCall' = [rdCall EXCEPT ![c] = e] BY <1>1, <2>1
    <3> HIDE DEF e
    <3> QED BY <3>1, <3>2
  <2>2. CASE \E left \in {0, rdCall[c].left - 1} : rdCall' = [rdCall EXCEPT ![c].lease = FALSE, ![c].left = left]
    <3>1. PICK left \in {0, rdCall[c].left - 1} : rdCall' = [rdCall EXCEPT ![c].lease = FALSE, ![c].left = left]
      BY <2>2
    <3> DEFINE e == [rdCall[c] EXCEPT !.lease = FALSE, !.left = left]
    <3>2. rdCall[c].left \in Int BY <1>1, Zenon DEF Calls
    <3>3. left \in Int BY <3>2
    <3>4. e \in Calls /\ ~e.lease BY <1>1, <3>3 DEF Calls
    <3>5. rdCall' = [rdCall EXCEPT ![c] = e] BY <1>1, <3>1
    <3> HIDE DEF e
    <3> QED BY <3>4, <3>5
  <2> QED BY <2>1, <2>2 DEF CommandEnds
<1>3. rdCall' \in [Callers -> Calls] /\ rdCall'[c] = e /\ \A d \in Callers \ {c} : rdCall'[d] = rdCall[d]
  BY <1>1, <1>2
<1>4. \A d \in Callers : rdCall[d].lease \in BOOLEAN /\ rdCall'[d].lease \in BOOLEAN
  BY <1>1, <1>3 DEF Calls
<1>5. DOMAIN rdCall = Callers /\ rdCall[c].lease /\ ~rdCall'[c].lease BY <1>1, <1>2, <1>3
<1>6. \A d \in Callers \ {c} : rdCall'[d].lease <=> rdCall[d].lease BY <1>3
<1>7. /\ Cardinality(Leases(rdCall)) \in Nat /\ Cardinality(Leases(rdCall)) > 0
      /\ Cardinality(Leases(rdCall')) = Cardinality(Leases(rdCall)) - 1
  BY ONLY <1>4, <1>5, <1>6, c \in Callers, LeaseCounts
<1>8. /\ rdIdle \in Nat /\ rdInUse \in Nat /\ rdNow \in Nat
      /\ rdIdle + rdInUse <= RedisPool /\ rdInUse = Cardinality(Leases(rdCall))
  BY DEF BreakerIInv, RedisPoolIsExact, Leases
<1>9. rdInUse' = rdInUse - 1 /\ (rdIdle' = rdIdle + 1 \/ rdIdle' = rdIdle) /\ rdNow' = rdNow
  BY DEF CommandEnds
<1>10. \A d \in Callers : CallFits(rdCall'[d]) BY <1>2, <1>3 DEF BreakerIInv, CallFits
<1> QED
  BY <1>3, <1>7, <1>8, <1>9, <1>10, RedisAssumption DEF BreakerIInv, RedisPoolIsExact, Leases

(* The other steps of a guarded call.                                       *)
Quiet(f) == f \in Calls /\ CallFits(f) /\ ~f.lease
Elsewhere == {"open", "try", "won", "reset", "lost", "opening", "stamping"}

LEMMA OffQuiet == Quiet(Off) /\ \A n \in Int : Quiet([Off EXCEPT !.at = "try", !.left = n])
<1>1. Off \in Calls /\ ~Off.lease BY DEF Calls, Off
<1>2. ASSUME NEW n \in Int PROVE Quiet([Off EXCEPT !.at = "try", !.left = n])
  <2> DEFINE f == [Off EXCEPT !.at = "try", !.left = n]
  <2>1. f \in Calls /\ (f.lease <=> Off.lease) BY <1>1 DEF Calls
  <2> HIDE DEF f
  <2> QED BY <1>1, <2>1 DEF f, Quiet, CallFits
<1> QED BY <1>1, <1>2 DEF Quiet, CallFits

LEMMA MarkQuiet ==
  ASSUME NEW e, Quiet(e), NEW at \in Elsewhere
  PROVE  Quiet([e EXCEPT !.at = at])
BY DEF Quiet, Calls, CallFits, Elsewhere

LEMMA StampQuiet ==
  ASSUME NEW e, Quiet(e), NEW at \in Elsewhere, NEW t \in Int
  PROVE  Quiet([e EXCEPT !.at = at, !.since = t])
BY DEF Quiet, Calls, CallFits, Elsewhere

LEMMA SpentQuiet ==
  ASSUME NEW e, Quiet(e), NEW n \in Int
  PROVE  Quiet([e EXCEPT !.left = n])
BY DEF Quiet, Calls, CallFits

LEMMA QuietMoves ==
  ASSUME BreakerIInv, NEW c \in Callers,
         \/ AllowReads(c) \/ AllowAfterCooldown(c) \/ LeaseFails(c) \/ GivesUp(c) \/ StoresClosed(c)
         \/ StoresNoFailures(c) \/ LoadsState(c) \/ StoresOpen(c) \/ StoresOpenedAt(c)
  PROVE  BreakerIInv'
<1> DEFINE e == rdCall[c]
<1>1. e \in Calls /\ CallFits(e) /\ rdCall \in [Callers -> Calls] /\ rdNow \in Nat
  BY DEF BreakerIInv
<1>2. ~e.lease
  BY <1>1 DEF CallFits, AllowReads, AllowAfterCooldown, LeaseFails, GivesUp, StoresClosed,
              StoresNoFailures, LoadsState, StoresOpen, StoresOpenedAt
<1>3. UNCHANGED <<rdNow, rdIdle, rdInUse>>
  BY DEF AllowReads, AllowAfterCooldown, LeaseFails, GivesUp, StoresClosed,
         StoresNoFailures, LoadsState, StoresOpen, StoresOpenedAt
<1>4. Attempts \in Int BY RedisAssumption
<1>5. \/ rdCall' = [rdCall EXCEPT ![c].at = "open"]
      \/ rdCall' = [rdCall EXCEPT ![c] = [Off EXCEPT !.at = "try", !.left = Attempts]]
      \/ rdCall' = [rdCall EXCEPT ![c] = Off]
      \/ rdCall' = [rdCall EXCEPT ![c].left = @ - 1]
      \/ rdCall' = [rdCall EXCEPT ![c].at = "lost"]
      \/ rdCall' = [rdCall EXCEPT ![c].at = "reset"]
      \/ rdCall' = [rdCall EXCEPT ![c].at = "opening"]
      \/ rdCall' = [rdCall EXCEPT ![c].at = "stamping", ![c].since = rdNow]
  BY DEF AllowReads, AllowAfterCooldown, LeaseFails, GivesUp, StoresClosed,
         StoresNoFailures, LoadsState, StoresOpen, StoresOpenedAt, Goto
<1>6. Quiet(e) BY <1>1, <1>2 DEF Quiet
<1>7. e.left \in Int /\ e.left - 1 \in Int
  <2>1. e.left \in Int BY <1>1, Zenon DEF Calls
  <2> QED BY <2>1
<1>8. PICK f : Quiet(f) /\ rdCall' = [rdCall EXCEPT ![c] = f]
  <2>1. CASE \E at \in {"open", "lost", "reset", "opening"} : rdCall' = [rdCall EXCEPT ![c].at = at]
    <3>1. PICK at \in {"open", "lost", "reset", "opening"} : rdCall' = [rdCall EXCEPT ![c].at = at]
      BY <2>1
    <3> DEFINE f == [e EXCEPT !.at = at]
    <3>2. Quiet(f) BY <1>6, MarkQuiet DEF Elsewhere
    <3>3. rdCall' = [rdCall EXCEPT ![c] = f] BY <3>1
    <3> HIDE DEF f
    <3> QED BY <3>2, <3>3
  <2>2. CASE rdCall' = [rdCall EXCEPT ![c] = [Off EXCEPT !.at = "try", !.left = Attempts]]
    <3> DEFINE f == [Off EXCEPT !.at = "try", !.left = Attempts]
    <3>1. Quiet(f) BY <1>4, OffQuiet
    <3>2. rdCall' = [rdCall EXCEPT ![c] = f] BY <2>2
    <3> HIDE DEF f
    <3> QED BY <3>1, <3>2
  <2>3. CASE rdCall' = [rdCall EXCEPT ![c] = Off] BY <2>3, OffQuiet
  <2>4. CASE rdCall' = [rdCall EXCEPT ![c].left = @ - 1]
    <3> DEFINE f == [e EXCEPT !.left = e.left - 1]
    <3>1. Quiet(f) BY <1>6, <1>7, SpentQuiet
    <3>2. rdCall' = [rdCall EXCEPT ![c] = f] BY <2>4
    <3> HIDE DEF f
    <3> QED BY <3>1, <3>2
  <2>5. CASE rdCall' = [rdCall EXCEPT ![c].at = "stamping", ![c].since = rdNow]
    <3> DEFINE f == [e EXCEPT !.at = "stamping", !.since = rdNow]
    <3>1. rdNow \in Int BY <1>1
    <3>2. Quiet(f) BY <1>6, <3>1, StampQuiet DEF Elsewhere
    <3>3. rdCall' = [rdCall EXCEPT ![c] = f] BY <1>1, <2>5
    <3> HIDE DEF f
    <3> QED BY <3>2, <3>3
  <2> QED BY <1>5, <2>1, <2>2, <2>3, <2>4, <2>5
<1>9. /\ rdNow' \in Nat /\ UNCHANGED <<rdIdle, rdInUse>> /\ (f.lease <=> rdCall[c].lease)
      /\ f \in Calls /\ CallFits(f)
  BY <1>1, <1>2, <1>3, <1>8 DEF Quiet
<1> QED BY ONLY BreakerIInv, c \in Callers, <1>8, <1>9, CallerMoves

LEMMA BreakerStarts == RedisInit => BreakerIInv
<1> SUFFICES ASSUME RedisInit PROVE BreakerIInv OBVIOUS
<1>1. Off \in Calls /\ CallFits(Off) /\ ~Off.lease BY DEF Calls, CallFits, Off
<1>2. {c \in Callers : rdCall[c].lease} = {} BY <1>1 DEF RedisInit
<1>3. Cardinality({}) = 0 /\ RedisPool \in Nat BY FS_EmptySet, RedisAssumption
<1>4. rdIdle = 0 /\ rdInUse = 0 BY DEF RedisInit
<1>5. RedisPoolIsExact
  <2> DEFINE lent == {c \in Callers : rdCall[c].lease}
  <2>1. rdIdle + rdInUse <= RedisPool BY <1>3, <1>4
  <2> QED BY <1>2, <1>3, <1>4, <2>1 DEF RedisPoolIsExact
<1> QED BY <1>1, <1>5 DEF RedisInit, BreakerIInv

LEMMA BreakerSteps == BreakerIInv /\ [GuardedNext]_breakerVars => BreakerIInv'
<1> SUFFICES ASSUME BreakerIInv, [GuardedNext]_breakerVars PROVE BreakerIInv' OBVIOUS
<1>1. CASE UNCHANGED breakerVars BY <1>1 DEF breakerVars, BreakerIInv, RedisPoolIsExact
<1>2. CASE RedisClock BY <1>2 DEF RedisClock, BreakerIInv, RedisPoolIsExact
<1>3. ASSUME NEW c \in Callers,
             \/ AllowReads(c) \/ AllowAfterCooldown(c) \/ TakesLease(c) \/ LeaseFails(c) \/ CommandEnds(c)
             \/ GivesUp(c) \/ StoresClosed(c) \/ StoresNoFailures(c)
             \/ LoadsState(c) \/ StoresOpen(c) \/ StoresOpenedAt(c)
      PROVE  BreakerIInv'
  BY <1>3, QuietMoves, LeaseTaken, LeaseEnds
<1> QED BY <1>1, <1>2, <1>3 DEF GuardedNext

LEMMA BreakerSafe == BreakerIInv => RedisPoolIsExact
BY DEF BreakerIInv

(* The session store of one user whose commands are all done: what is left  *)
(* of its operation says how far index and body may differ.                 *)
OneStoreUser == \A u, v \in StoreUsers : u = v

BodiesFit == rdBody \in [SessionIds -> Int] /\ \A s \in SessionIds : rdBody[s] \in {Missing, 0, PlayerOf[s]}
LeadsBack(p) == rdIndex[p] # Missing => rdIndex[p] \in SessionIds /\ rdBody[rdIndex[p]] = p
IndexFits(late) == rdIndex \in [RedisPlayers -> Int] /\ \A p \in RedisPlayers \ late : LeadsBack(p)

NothingLeft(u) == rdUser[u] = <<>> /\ IndexFits({})
PutsPlain(u, s) == rdUser[u] = <<Cmd("setBody", s, 0)>> /\ rdBody[s] <= 0 /\ IndexFits({})
PutsBoth(u, s) == rdUser[u] = <<Cmd("setBody", s, PlayerOf[s]), Cmd("setIndex", PlayerOf[s], s)>> /\ IndexFits({})
PutsIndex(u, s) == rdUser[u] = <<Cmd("setIndex", PlayerOf[s], s)>> /\ rdBody[s] = PlayerOf[s] /\ IndexFits({})
DropsPlain(u, s) == rdUser[u] = <<Cmd("delBody", s, 0)>> /\ rdBody[s] <= 0 /\ IndexFits({})
DropsBoth(u, s) ==
  /\ rdUser[u] = <<Cmd("delBody", s, 0), Cmd("delIndex", PlayerOf[s], 0)>> /\ rdBody[s] = PlayerOf[s]
  /\ IndexFits({})
DropsIndex(u, s) == rdUser[u] = <<Cmd("delIndex", PlayerOf[s], 0)>> /\ IndexFits({PlayerOf[s]})
Underway(u) ==
  NothingLeft(u) \/ \E s \in SessionIds :
    \/ PutsPlain(u, s) \/ PutsBoth(u, s) \/ PutsIndex(u, s)
    \/ DropsPlain(u, s) \/ DropsBoth(u, s) \/ DropsIndex(u, s)

SessionIInv ==
  /\ rdFaults \in Nat /\ DOMAIN rdUser = StoreUsers
  /\ rdFaults = 0 => BodiesFit /\ (StoreUsers = {} => IndexFits({})) /\ \A u \in StoreUsers : Underway(u)

LEMMA ShortLists ==
  ASSUME NEW a, NEW b
  PROVE  /\ Head(<<a>>) = a /\ Tail(<<a>>) = <<>> /\ Head(<<a, b>>) = a /\ Tail(<<a, b>>) = <<b>>
         /\ <<a>> \o <<>> = <<a>> /\ <<a>> \o <<b>> = <<a, b>>
         /\ <<a>> # <<>> /\ <<a, b>> # <<>>
<1>1. Head(<<a>>) = a /\ Tail(<<a>>) = <<>> /\ <<a>> # <<>> /\ <<a, b>> # <<>> OBVIOUS
<1>2. Head(<<a, b>>) = a OBVIOUS
<1>3. Tail(<<a, b>>) = <<b>> OBVIOUS
<1>4. <<a>> \in Seq({a, b}) /\ <<b>> \in Seq({a, b}) /\ <<a, b>> \in Seq({a, b}) OBVIOUS
<1>5. <<a>> \o <<>> = <<a>> BY <1>4, ConcatEmptySeq
<1>6. <<a>> \o <<b>> = <<a, b>>
  <2> DEFINE c == <<a>> \o <<b>>
  <2>1. c \in Seq({a, b}) /\ Len(c) = 2 /\ c[1] = a /\ c[2] = b BY <1>4, ConcatProperties
  <2>2. Len(<<a, b>>) = 2 /\ <<a, b>>[1] = a /\ <<a, b>>[2] = b OBVIOUS
  <2> HIDE DEF c
  <2>3. c = <<a, b>> BY <1>4, <2>1, <2>2, SeqEqual
  <2> QED BY <2>3 DEF c
<1> QED BY <1>1, <1>2, <1>3, <1>5, <1>6

LEMMA PlayersArePositive ==
  ASSUME NEW s \in SessionIds
  PROVE  PlayerOf[s] \in RedisPlayers /\ PlayerOf[s] \in Nat \ {0} /\ s \in Nat \ {0}
BY RedisAssumption

(* The effects of a command on bodies and index.                            *)
SetsBody(s, v) == rdBody' = [rdBody EXCEPT ![s] = v] /\ rdIndex' = rdIndex
SetsIndex(p, v) == rdIndex' = [rdIndex EXCEPT ![p] = v] /\ rdBody' = rdBody

LEMMA BodyMoves ==
  ASSUME BodiesFit, IndexFits({}), NEW s \in SessionIds, NEW v, SetsBody(s, v), NEW late,
         v \in {Missing, 0, PlayerOf[s]}, v = PlayerOf[s] \/ rdBody[s] <= 0 \/ PlayerOf[s] \in late
  PROVE  BodiesFit' /\ IndexFits(late)' /\ rdBody'[s] = v
<1> USE DEF SetsBody
<1>1. rdBody' \in [SessionIds -> Int] /\ rdBody'[s] = v /\ \A r \in SessionIds \ {s} : rdBody'[r] = rdBody[r]
  BY PlayersArePositive DEF BodiesFit, Missing
<1>2. ASSUME NEW p \in RedisPlayers \ late, rdIndex[p] # Missing
      PROVE  rdIndex[p] \in SessionIds /\ rdBody'[rdIndex[p]] = p
  <2>1. rdIndex[p] \in SessionIds /\ rdBody[rdIndex[p]] = p BY <1>2 DEF IndexFits, LeadsBack
  <2>2. CASE rdIndex[p] = s
    <3>1. p \in Nat \ {0} BY RedisAssumption
    <3>2. rdBody[s] = p /\ rdBody[s] \in {Missing, 0, PlayerOf[s]} BY <2>1, <2>2 DEF BodiesFit
    <3>3. PlayerOf[s] = p BY <3>1, <3>2 DEF Missing
    <3>4. v = PlayerOf[s] BY <1>2, <3>1, <3>2, <3>3
    <3> QED BY <1>1, <2>1, <2>2, <3>3, <3>4
  <2> QED BY <1>1, <2>1, <2>2
<1> QED BY <1>1, <1>2 DEF IndexFits, LeadsBack, BodiesFit

LEMMA IndexMoves ==
  ASSUME NEW p \in RedisPlayers, IndexFits({p}), NEW v \in Int, SetsIndex(p, v),
         v # Missing => v \in SessionIds /\ rdBody[v] = p
  PROVE  IndexFits({})'
<1> USE DEF SetsIndex
<1>1. rdIndex' \in [RedisPlayers -> Int] /\ rdIndex'[p] = v /\ \A q \in RedisPlayers \ {p} : rdIndex'[q] = rdIndex[q]
  BY DEF IndexFits
<1> QED BY <1>1 DEF IndexFits, LeadsBack

LEMMA EffectOf ==
  ASSUME NEW k, NEW v
  PROVE  /\ Effect(Cmd("setBody", k, v)) => SetsBody(k, v)
         /\ Effect(Cmd("delBody", k, v)) => SetsBody(k, Missing)
         /\ Effect(Cmd("setIndex", k, v)) => SetsIndex(k, v)
         /\ Effect(Cmd("delIndex", k, v)) => SetsIndex(k, Missing)
BY DEF Effect, Cmd, SetsBody, SetsIndex

LEMMA CallStarts ==
  ASSUME NEW u \in StoreUsers, BodiesFit, Underway(u), DOMAIN rdUser = StoreUsers, StoreCall(u), rdFaults' = 0,
         rdFaults \in Nat
  PROVE  Underway(u)'
<1>1. rdUser[u] = <<>> /\ UNCHANGED <<rdBody, rdIndex>> BY DEF StoreCall
<1>2. IndexFits({})
  BY <1>1, ShortLists DEF Underway, NothingLeft, PutsPlain, PutsBoth, PutsIndex, DropsPlain, DropsBoth, DropsIndex
<1>3. IndexFits({})' BY <1>1, <1>2 DEF IndexFits, LeadsBack
<1>4. PICK s \in SessionIds :
        \/ \E p \in {0, PlayerOf[s]} : (rdBody[s] > 0 => p # 0) /\ StorePut(u, s, p) /\ UNCHANGED rdFaults
        \/ StoreRemove(u, s)
  BY DEF StoreCall
<1>5. PlayerOf[s] \in Nat \ {0} /\ rdBody[s] \in Int /\ rdBody[s] \in {Missing, 0, PlayerOf[s]}
  BY PlayersArePositive DEF BodiesFit
<1>6. CASE rdBody[s] <= 0 /\ StorePut(u, s, 0)
  BY <1>1, <1>3, <1>6, ShortLists DEF Underway, PutsPlain, StorePut
<1>7. CASE StorePut(u, s, PlayerOf[s])
  BY <1>3, <1>5, <1>7, ShortLists DEF Underway, PutsBoth, StorePut
<1>8. CASE StoreRemove(u, s)
  <2>1. rdUser' = [rdUser EXCEPT ![u] = <<Cmd("delBody", s, 0)>> \o
                      (IF rdBody[s] > 0 THEN <<Cmd("delIndex", rdBody[s], 0)>> ELSE <<>>)]
    BY <1>8 DEF StoreRemove
  <2>2. CASE rdBody[s] > 0
    <3>1. rdBody[s] = PlayerOf[s] BY <1>5, <2>2 DEF Missing
    <3> QED BY <1>1, <1>3, <2>1, <2>2, <3>1, ShortLists DEF Underway, DropsBoth
  <2>3. CASE rdBody[s] <= 0
    <3>1. ~(rdBody[s] > 0) BY <1>5, <2>3
    <3>2. rdUser'[u] = <<Cmd("delBody", s, 0)>> BY <2>1, <3>1, ShortLists
    <3> QED BY <1>1, <1>3, <2>3, <3>2 DEF Underway, DropsPlain
  <2> QED BY <1>5, <2>2, <2>3
<1> QED BY <1>4, <1>5, <1>6, <1>7, <1>8

LEMMA CommandDone ==
  ASSUME NEW u \in StoreUsers, BodiesFit, Underway(u), DOMAIN rdUser = StoreUsers,
         rdUser[u] # <<>>, Effect(Head(rdUser[u])), rdUser' = [rdUser EXCEPT ![u] = Tail(@)]
  PROVE  BodiesFit' /\ Underway(u)'
<1>1. rdUser'[u] = Tail(rdUser[u]) OBVIOUS
<1>2. PICK s \in SessionIds :
        \/ PutsPlain(u, s) \/ PutsBoth(u, s) \/ PutsIndex(u, s)
        \/ DropsPlain(u, s) \/ DropsBoth(u, s) \/ DropsIndex(u, s)
  BY DEF Underway, NothingLeft
<1>3. PlayerOf[s] \in RedisPlayers /\ PlayerOf[s] \in Nat \ {0} /\ s \in Nat \ {0}
  BY PlayersArePositive
<1>4. CASE PutsPlain(u, s)
  <2>1. Head(rdUser[u]) = Cmd("setBody", s, 0) /\ rdUser'[u] = <<>>
    BY <1>1, <1>4, ShortLists DEF PutsPlain
  <2>2. IndexFits({}) /\ rdBody[s] <= 0 BY <1>4 DEF PutsPlain
  <2>3. BodiesFit' /\ IndexFits({})' BY <2>1, <2>2, EffectOf, BodyMoves
  <2> QED BY <2>1, <2>3 DEF Underway, NothingLeft
<1>5. CASE PutsBoth(u, s)
  <2>1. Head(rdUser[u]) = Cmd("setBody", s, PlayerOf[s]) /\ rdUser'[u] = <<Cmd("setIndex", PlayerOf[s], s)>>
    BY <1>1, <1>5, ShortLists DEF PutsBoth
  <2>2. IndexFits({}) BY <1>5 DEF PutsBoth
  <2>3. BodiesFit' /\ IndexFits({})' /\ rdBody'[s] = PlayerOf[s]
    BY <2>1, <2>2, EffectOf, BodyMoves
  <2> QED BY <2>1, <2>3 DEF Underway, PutsIndex
<1>6. CASE PutsIndex(u, s)
  <2>1. Head(rdUser[u]) = Cmd("setIndex", PlayerOf[s], s) /\ rdUser'[u] = <<>>
    BY <1>1, <1>6, ShortLists DEF PutsIndex
  <2>2. SetsIndex(PlayerOf[s], s) BY <2>1, EffectOf
  <2>3. IndexFits({})' BY <1>3, <1>6, <2>2, IndexMoves DEF PutsIndex, IndexFits
  <2> QED BY <2>1, <2>2, <2>3 DEF Underway, NothingLeft, BodiesFit, SetsIndex
<1>7. CASE DropsPlain(u, s)
  <2>1. Head(rdUser[u]) = Cmd("delBody", s, 0) /\ rdUser'[u] = <<>>
    BY <1>1, <1>7, ShortLists DEF DropsPlain
  <2>2. IndexFits({}) /\ rdBody[s] <= 0 BY <1>7 DEF DropsPlain
  <2>3. BodiesFit' /\ IndexFits({})' BY <2>1, <2>2, EffectOf, BodyMoves
  <2> QED BY <2>1, <2>3 DEF Underway, NothingLeft
<1>8. CASE DropsBoth(u, s)
  <2>1. Head(rdUser[u]) = Cmd("delBody", s, 0) /\ rdUser'[u] = <<Cmd("delIndex", PlayerOf[s], 0)>>
    BY <1>1, <1>8, ShortLists DEF DropsBoth
  <2>2. IndexFits({}) /\ PlayerOf[s] \in {PlayerOf[s]} BY <1>8 DEF DropsBoth
  <2>3. BodiesFit' /\ IndexFits({PlayerOf[s]})' BY <2>1, <2>2, EffectOf, BodyMoves
  <2> QED BY <2>1, <2>3 DEF Underway, DropsIndex
<1>9. CASE DropsIndex(u, s)
  <2>1. Head(rdUser[u]) = Cmd("delIndex", PlayerOf[s], 0) /\ rdUser'[u] = <<>>
    BY <1>1, <1>9, ShortLists DEF DropsIndex
  <2>2. SetsIndex(PlayerOf[s], Missing) BY <2>1, EffectOf
  <2>3. IndexFits({})' BY <1>3, <1>9, <2>2, IndexMoves DEF DropsIndex, Missing
  <2> QED BY <2>1, <2>2, <2>3 DEF Underway, NothingLeft, BodiesFit, SetsIndex
<1> QED BY <1>2, <1>4, <1>5, <1>6, <1>7, <1>8, <1>9

LEMMA SessionStarts == RedisInit => SessionIInv
<1> SUFFICES ASSUME RedisInit PROVE SessionIInv OBVIOUS
<1>1. rdBody = [s \in SessionIds |-> Missing] /\ rdIndex = [p \in RedisPlayers |-> Missing]
      /\ rdUser = [u \in StoreUsers |-> <<>>] /\ rdFaults = 0
  BY DEF RedisInit
<1> QED BY <1>1 DEF SessionIInv, Underway, NothingLeft, BodiesFit, IndexFits, LeadsBack, Missing

LEMMA SessionSteps ==
  ASSUME OneStoreUser, SessionIInv, [SessionStoreNext]_sessionStoreVars
  PROVE  SessionIInv'
<1>1. CASE UNCHANGED sessionStoreVars
  BY <1>1 DEF SessionIInv, sessionStoreVars, BodiesFit, IndexFits, LeadsBack, Underway, NothingLeft, PutsPlain, PutsBoth,
             PutsIndex, DropsPlain, DropsBoth, DropsIndex
<1>2. CASE StoreExpires BY <1>2 DEF SessionIInv, StoreExpires
<1>3. ASSUME NEW u \in StoreUsers, StoreCall(u) \/ StoreCommand(u)
      PROVE  SessionIInv'
  <2>0. rdFaults \in Nat /\ DOMAIN rdUser = StoreUsers BY DEF SessionIInv
  <2>1. rdFaults' \in Nat /\ (rdFaults' = 0 => rdFaults = 0) /\ DOMAIN rdUser' = StoreUsers
    <3>1. CASE StoreCall(u) BY <2>0, <3>1 DEF StoreCall, StorePut, StoreRemove
    <3>2. CASE StoreCommand(u) BY <2>0, <3>2 DEF StoreCommand
    <3> QED BY <1>3, <3>1, <3>2
  <2>2. ASSUME rdFaults' = 0 PROVE BodiesFit' /\ Underway(u)'
    <3>1. rdFaults \in Nat /\ DOMAIN rdUser = StoreUsers /\ BodiesFit /\ Underway(u)
      BY <2>1, <2>2 DEF SessionIInv
    <3>2. CASE StoreCall(u) BY <2>2, <3>1, <3>2, CallStarts DEF StoreCall, BodiesFit
    <3>3. CASE StoreCommand(u) BY <2>2, <3>1, <3>3, CommandDone DEF StoreCommand
    <3> QED BY <1>3, <3>2, <3>3
  <2>3. StoreUsers # {} OBVIOUS
  <2> QED BY <2>1, <2>2, <2>3 DEF SessionIInv, OneStoreUser
<1> QED BY <1>1, <1>2, <1>3 DEF SessionStoreNext

LEMMA SessionSafe == SessionIInv => IndexHasBody
<1> SUFFICES ASSUME SessionIInv, rdFaults = 0, \A u \in StoreUsers : rdUser[u] = <<>>
             PROVE  \A p \in RedisPlayers : rdIndex[p] # Missing => rdBody[rdIndex[p]] = p
  BY DEF IndexHasBody
<1>1. ASSUME NEW u \in StoreUsers PROVE IndexFits({})
  <2>1. Underway(u) /\ rdUser[u] = <<>> BY DEF SessionIInv
  <2>2. NothingLeft(u)
    BY <2>1, ShortLists DEF Underway, PutsPlain, PutsBoth, PutsIndex, DropsPlain, DropsBoth, DropsIndex
  <2> QED BY <2>2 DEF NothingLeft
<1>2. IndexFits({}) BY <1>1 DEF SessionIInv
<1> QED BY <1>2 DEF IndexFits, LeadsBack

(* The callers of the breaker and the users of the sessions do not meet.    *)
LEMMA GuardedApart == GuardedNext => UNCHANGED sessionStoreVars
BY DEF GuardedNext

LEMMA SessionStoreApart == SessionStoreNext => UNCHANGED breakerVars
BY DEF SessionStoreNext

(* The pool's counters are exact whatever fails, and one user who meets no  *)
(* fault leaves no index entry without its body.                            *)
THEOREM RedisCorrect ==
  ASSUME OneStoreUser
  PROVE  RedisSpec => [](RedisPoolIsExact /\ IndexHasBody)
<1>1. RedisInit => BreakerIInv /\ SessionIInv BY BreakerStarts, SessionStarts
<1>2. BreakerIInv /\ SessionIInv /\ [GuardedNext \/ SessionStoreNext]_redisVars => BreakerIInv' /\ SessionIInv'
  BY GuardedApart, SessionStoreApart, BreakerSteps, SessionSteps DEF redisVars, breakerVars,
     sessionStoreVars
<1>3. BreakerIInv /\ SessionIInv => RedisPoolIsExact /\ IndexHasBody BY BreakerSafe, SessionSafe
<1> QED BY <1>1, <1>2, <1>3, PTL DEF RedisSpec

------------------------------------------------------------------------------
(* MySql.  What a client's record says of its call.                         *)
Hows == {"upsert", "insert", "update", "delete", "guardedDelete", "select"}
Statements == [key : Keys, base : Int, new : Int, how : Hows]
Kinds == {"none", "load", "loads", "one", "batch", "atomic"}
Answers == {"none", "ok", "unmatched", "conflict", "busy", "timeout", "error", "failed"}
Records == [kind : Kinds, at : {"rest", "next", "connecting", "leased", "told"}, stmts : Seq(Statements),
            groups : SUBSET SUBSET Nat, shard : Shards, left : SUBSET Nat, poisoned : BOOLEAN, broken : BOOLEAN,
            out : Seq(Answers), kept : SUBSET Nat]

Holding(me) == me.at \in {"connecting", "leased"}
OfShard(stmts, s) == {i \in DOMAIN stmts : ShardOf(stmts[i].key) = s}
Refused(me) == \E i \in DOMAIN me.stmts : me.out[i] # "ok"

(* A group is what a batch has for one shard; what is kept was neither left *)
(* out nor refused.                                                         *)
GroupsFit(me) ==
  /\ me \in Records /\ DOMAIN me.out = DOMAIN me.stmts
  /\ \A g \in me.groups : g # {} /\ \E s \in Shards : g = OfShard(me.stmts, s)
  /\ Holding(me) => Positions(me) \notin me.groups /\ me.left \subseteq Positions(me)
  /\ me.kept \subseteq DOMAIN me.stmts
  /\ \A i \in me.kept : me.out[i] # "conflict" /\ \A g \in me.groups : i \notin g
  /\ Holding(me) => me.kept \cap me.left = {}
  /\ Holding(me) /\ me.kind \in {"batch", "atomic"} => me.kept \cap Positions(me) = {}

(* An atomic batch is one group: until its end nothing is kept, and what it *)
(* has been told tells whether it is poisoned.                              *)
AtomicFits(me) ==
  me.kind = "atomic" =>
    /\ DOMAIN me.stmts # {} /\ me.kept \in {{}, DOMAIN me.stmts}
    /\ me.at = "next" /\ me.groups # {} => me.groups = {DOMAIN me.stmts} /\ me.kept = {}
    /\ Holding(me) => /\ me.groups = {} /\ Positions(me) = DOMAIN me.stmts /\ me.kept = {}
                      /\ me.poisoned => \E i \in DOMAIN me.stmts \ me.left : me.out[i] # "ok"
                      /\ ~me.poisoned => \A i \in DOMAIN me.stmts \ me.left : me.out[i] = "ok"
    /\ me.at = "next" /\ me.groups = {} => Refused(me) \/ me.kept = DOMAIN me.stmts
    /\ me.at = "told" => \A i \in DOMAIN me.stmts : me.out[i] = "ok" => i \in me.kept
OneFits(me) ==
  me.kind = "one" =>
    /\ DOMAIN me.stmts = {1}
    /\ me.out[1] = "ok" /\ me.stmts[1].how \notin {"select", "delete", "guardedDelete"} => 1 \in me.kept
Fits(me) == GroupsFit(me) /\ AtomicFits(me) /\ OneFits(me)

LEMMA LowestOf ==
  ASSUME NEW ns \in SUBSET Nat, ns # {}
  PROVE  Lowest(ns) \in ns /\ \A n \in ns : Lowest(ns) <= n
BY LeastOf DEF Lowest

LEMMA ShardTyped == \A k \in Keys : ShardOf(k) \in Shards
<1> SUFFICES ASSUME NEW k \in Keys PROVE ShardOf(k) \in Shards OBVIOUS
<1>1. k % ShardCount \in 0..(ShardCount - 1) BY MySqlAssumption
<1> QED BY <1>1 DEF ShardOf, Shards

LEMMA GroupsApart ==
  ASSUME NEW me, GroupsFit(me), Holding(me), NEW g \in me.groups
  PROVE  g \cap Positions(me) = {}
<1>1. PICK s \in Shards : g = OfShard(me.stmts, s) BY DEF GroupsFit
<1>2. s # me.shard BY <1>1 DEF OfShard, Positions, GroupsFit
<1> QED BY <1>1, <1>2 DEF OfShard, Positions

(* What is told of a group.                                                 *)
LEMMA ToldFacts ==
  ASSUME NEW me, me.out \in Seq(Answers), NEW g, NEW what \in Answers
  PROVE  /\ Told(me, g, what) \in Seq(Answers) /\ DOMAIN Told(me, g, what) = DOMAIN me.out
         /\ \A i \in DOMAIN me.out : Told(me, g, what)[i] = IF i \in g THEN what ELSE me.out[i]
<1>1. PICK n \in Nat : DOMAIN me.out = 1..n /\ \A i \in 1..n : me.out[i] \in Answers OBVIOUS
<1>2. Told(me, g, what) = [i \in 1..n |-> IF i \in g THEN what ELSE me.out[i]] BY <1>1 DEF Told
<1>3. Told(me, g, what) \in Seq(Answers) BY <1>1, <1>2, SeqDef
<1> QED BY <1>1, <1>2, <1>3

(* The updates of a record, field by field.                                 *)
LEMMA Begun ==
  ASSUME NEW me \in Records, NEW g \in SUBSET Nat, NEW s \in Shards, ShardOf(me.stmts[CHOOSE i \in g : TRUE].key) = s
  PROVE  /\ Begins(me, g) \in Records
         /\ Begins(me, g).kind = me.kind /\ Begins(me, g).at = "leased" /\ Begins(me, g).stmts = me.stmts
         /\ Begins(me, g).groups = me.groups \ {g} /\ Begins(me, g).shard = s /\ Begins(me, g).left = g
         /\ ~Begins(me, g).poisoned /\ Begins(me, g).out = me.out /\ Begins(me, g).kept = me.kept
<1>1. me.groups \ {g} \in SUBSET SUBSET Nat
  <2>1. me.groups \in SUBSET SUBSET Nat BY Zenon DEF Records
  <2> QED BY <2>1
<1> DEFINE gs == me.groups \ {g}
<1>2. Begins(me, g) = [me EXCEPT !.at = "leased", !.groups = gs, !.left = g, !.poisoned = FALSE, !.broken = FALSE,
                                 !.shard = s]
  BY DEF Begins
<1>3. gs \in SUBSET SUBSET Nat BY <1>1
<1>4. gs = me.groups \ {g} OBVIOUS
<1> HIDE DEF gs
<1> QED BY <1>2, <1>3, <1>4 DEF Records

(* Each of these updates keeps what the record says.                        *)
LEMMA RestingFits == Fits(Resting)
<1>1. Resting \in Records BY MySqlAssumption DEF Resting, Records, Kinds, Shards
<1> QED BY <1>1 DEF Fits, GroupsFit, AtomicFits, OneFits, Holding, Resting

LEMMA CalledFits ==
  ASSUME NEW me \in Records, me.at = "next", me.kept = {}, DOMAIN me.out = DOMAIN me.stmts,
         \A i \in DOMAIN me.out : me.out[i] = "none",
         \A g \in me.groups : g # {} /\ \E s \in Shards : g = OfShard(me.stmts, s),
         me.kind = "atomic" => DOMAIN me.stmts # {} /\ me.groups = {DOMAIN me.stmts},
         me.kind = "one" => DOMAIN me.stmts = {1}
  PROVE  Fits(me)
<1>1. AtomicFits(me) BY DEF AtomicFits, Holding
<1>2. OneFits(me) BY DEF OneFits
<1> QED BY <1>1, <1>2 DEF Fits, GroupsFit, Holding

(* The fields that an update leaves alone.                                  *)
SameCall(me, new) ==
  /\ new \in Records /\ new.kind = me.kind /\ DOMAIN new.stmts = DOMAIN me.stmts /\ DOMAIN new.out = DOMAIN me.out
  /\ \A i \in DOMAIN me.stmts : new.stmts[i].key = me.stmts[i].key /\ new.stmts[i].how = me.stmts[i].how

LEMMA SameShards ==
  ASSUME NEW me, NEW new, SameCall(me, new)
  PROVE  /\ \A s : OfShard(new.stmts, s) = OfShard(me.stmts, s)
         /\ new.shard = me.shard => Positions(new) = Positions(me)
BY DEF SameCall, OfShard, Positions

LEMMA TakenFits ==
  ASSUME NEW me, Fits(me), me.at = "next", NEW g \in me.groups, NEW new, SameCall(me, new), Holding(new),
         new.groups = me.groups \ {g}, new.shard = ShardOf(me.stmts[CHOOSE i \in g : TRUE].key),
         new.left = g, ~new.poisoned, new.out = me.out, new.kept = me.kept
  PROVE  Fits(new)
<1>1. PICK s \in Shards : g = OfShard(me.stmts, s) /\ g # {} BY DEF Fits, GroupsFit
<1>2. new.shard = s BY <1>1 DEF OfShard
<1>3. Positions(new) = g BY <1>1, <1>2 DEF SameCall, OfShard, Positions
<1>4. GroupsFit(new)
  <2>1. \A h \in new.groups : h # {} /\ \E r \in Shards : h = OfShard(new.stmts, r)
    BY SameShards DEF Fits, GroupsFit
  <2>2. Positions(new) \notin new.groups /\ new.left \subseteq Positions(new) BY <1>3
  <2>3. new.kept \subseteq DOMAIN new.stmts /\ \A i \in new.kept : new.out[i] # "conflict" /\ \A h \in new.groups : i \notin h
    BY DEF Fits, GroupsFit, SameCall
  <2>4. new.kept \cap g = {} BY DEF Fits, GroupsFit
  <2> QED BY <1>3, <2>1, <2>2, <2>3, <2>4 DEF GroupsFit, Fits, SameCall
<1>5. AtomicFits(new)
  <2> SUFFICES ASSUME me.kind = "atomic" PROVE AtomicFits(new) BY DEF AtomicFits, SameCall
  <2>1. DOMAIN me.stmts # {} /\ me.groups = {DOMAIN me.stmts} /\ me.kept = {} /\ g = DOMAIN me.stmts
    BY DEF Fits, AtomicFits
  <2>2. new.at # "next" /\ new.at # "told" BY DEF Holding
  <2> QED BY <1>3, <2>1, <2>2 DEF AtomicFits, SameCall
<1> QED BY <1>4, <1>5 DEF Fits, OneFits, SameCall

(* Positions that are refused before anything of their group is kept.       *)
LEMMA RefusedFits ==
  ASSUME NEW me, Fits(me), me.at \in {"next", "connecting"}, NEW g, NEW what \in {"busy", "timeout"},
         NEW new, SameCall(me, new), new.at = "next", new.kept = me.kept, new.out = Told(me, g, what),
         \/ me.at = "next" /\ g \in me.groups /\ new.groups = me.groups \ {g}
         \/ me.at = "connecting" /\ g = Positions(me) /\ new.groups = me.groups
  PROVE  Fits(new)
<1>1. me.out \in Seq(Answers) /\ what \in Answers /\ DOMAIN me.out = DOMAIN me.stmts
  <2>1. me.out \in Seq(Answers) BY Zenon DEF Fits, GroupsFit, Records
  <2> QED BY <2>1 DEF Answers, Fits, GroupsFit
<1>2. \A i \in DOMAIN me.stmts : new.out[i] = IF i \in g THEN what ELSE me.out[i]
  BY <1>1, ToldFacts
<1>3. new.groups \subseteq me.groups OBVIOUS
<1>4. GroupsFit(new)
  <2>1. \A h \in new.groups : h # {} /\ \E r \in Shards : h = OfShard(new.stmts, r)
    BY <1>3, SameShards DEF Fits, GroupsFit
  <2>2. new.kept \subseteq DOMAIN new.stmts BY DEF Fits, GroupsFit, SameCall
  <2>3. \A i \in new.kept : me.out[i] # "conflict" /\ i \in DOMAIN me.stmts /\ \A h \in new.groups : i \notin h
    BY <1>3 DEF Fits, GroupsFit
  <2>4. \A i \in new.kept : new.out[i] # "conflict" BY <1>2, <2>3
  <2> QED BY <2>1, <2>2, <2>3, <2>4 DEF GroupsFit, Holding, Fits, SameCall
<1>5. AtomicFits(new)
  <2> SUFFICES ASSUME me.kind = "atomic" PROVE AtomicFits(new) BY DEF AtomicFits, SameCall
  <2>1. DOMAIN me.stmts # {} /\ me.kept = {} /\ g = DOMAIN me.stmts /\ new.groups = {}
    BY DEF Fits, AtomicFits, Holding
  <2> QED BY <1>2, <2>1 DEF AtomicFits, SameCall, Holding, Refused
<1> QED BY <1>2, <1>4, <1>5 DEF Fits, OneFits, SameCall

LEMMA ConnectedFits ==
  ASSUME NEW me, Fits(me), Holding(me), NEW new, SameCall(me, new), new.at = "leased", new.shard = me.shard,
         new.groups = me.groups, new.left = me.left, new.poisoned <=> me.poisoned, new.out = me.out, new.kept = me.kept
  PROVE  Fits(new)
<1>1. Positions(new) = Positions(me) BY SameShards
<1>2. Holding(new) BY DEF Holding
<1>3. GroupsFit(new) BY <1>1, <1>2, SameShards DEF Fits, GroupsFit, SameCall
<1>4. OneFits(new) BY DEF Fits, OneFits, SameCall
<1> QED BY <1>1, <1>2, <1>3, <1>4 DEF Fits, AtomicFits, SameCall

(* A statement is answered.                                                 *)
LEMMA AnsweredFits ==
  ASSUME NEW me, Fits(me), me.at = "leased", ~me.poisoned, NEW i \in me.left, NEW what \in Answers,
         NEW new, SameCall(me, new), new.at = "leased", new.shard = me.shard, new.groups = me.groups,
         new.left = me.left \ {i}, new.out = [me.out EXCEPT ![i] = what],
         new.kept = me.kept \/ (new.kept = {i} /\ what = "ok" /\ me.kind \notin {"batch", "atomic"}),
         me.kind = "atomic" => (new.poisoned <=> what # "ok"),
         me.kind = "one" /\ what = "ok" /\ me.stmts[i].how \notin {"select", "delete", "guardedDelete"} => new.kept = {i}
  PROVE  Fits(new)
<1>1. /\ Positions(new) = Positions(me) /\ Holding(me) /\ Holding(new) /\ DOMAIN me.out = DOMAIN me.stmts
      /\ me.left \subseteq Positions(me)
  BY SameShards DEF Holding, Fits, GroupsFit
<1>2. i \in Positions(me) /\ i \in DOMAIN me.stmts BY <1>1 DEF Positions
<1>3. \A j \in DOMAIN me.stmts : new.out[j] = IF j = i THEN what ELSE me.out[j] BY <1>1, <1>2
<1>4. \A g \in me.groups : i \notin g BY <1>1, <1>2, GroupsApart DEF Fits
<1>5. GroupsFit(new)
  <2>1. new \in Records /\ DOMAIN new.out = DOMAIN new.stmts BY DEF Fits, GroupsFit, SameCall
  <2>2. \A h \in new.groups : h # {} /\ \E r \in Shards : h = OfShard(new.stmts, r)
    BY SameShards DEF Fits, GroupsFit
  <2>3. Positions(new) \notin new.groups /\ new.left \subseteq Positions(new)
    BY <1>1 DEF Fits, GroupsFit
  <2>4. CASE new.kept = me.kept
    <3>1. \A j \in new.kept : j # i /\ j \in DOMAIN me.stmts /\ me.out[j] # "conflict" /\ \A h \in new.groups : j \notin h
      BY <1>1, <2>4 DEF Fits, GroupsFit
    <3>2. new.kept \cap new.left = {} /\ (new.kind \in {"batch", "atomic"} => new.kept \cap Positions(new) = {})
      BY <1>1, <2>4 DEF Fits, GroupsFit, SameCall
    <3> QED BY <1>3, <2>1, <2>2, <2>3, <3>1, <3>2 DEF GroupsFit, SameCall
  <2>5. CASE new.kept = {i} /\ what = "ok" /\ me.kind \notin {"batch", "atomic"}
    BY <1>2, <1>3, <1>4, <2>1, <2>2, <2>3, <2>5 DEF GroupsFit, SameCall
  <2> QED BY <2>4, <2>5
<1>6. AtomicFits(new)
  <2> SUFFICES ASSUME me.kind = "atomic" PROVE AtomicFits(new) BY DEF AtomicFits, SameCall
  <2>1. /\ DOMAIN me.stmts # {} /\ me.groups = {} /\ Positions(me) = DOMAIN me.stmts /\ me.kept = {}
        /\ \A j \in DOMAIN me.stmts \ me.left : me.out[j] = "ok"
    BY <1>1 DEF Fits, AtomicFits
  <2>2. new.poisoned <=> what # "ok" OBVIOUS
  <2>3. ~new.poisoned => \A j \in DOMAIN new.stmts \ new.left : new.out[j] = "ok"
    BY <1>2, <1>3, <2>1, <2>2 DEF SameCall
  <2> QED BY <1>1, <1>2, <1>3, <2>1, <2>2, <2>3 DEF AtomicFits, SameCall
<1>7. OneFits(new)
  <2> SUFFICES ASSUME me.kind = "one" PROVE OneFits(new) BY DEF OneFits, SameCall
  <2> QED BY <1>2, <1>3 DEF OneFits, SameCall, Fits
<1> QED BY <1>5, <1>6, <1>7 DEF Fits

(* A delete that matched nothing asks again.                                *)
LEMMA AskedFits ==
  ASSUME NEW me, Fits(me), me.at = "leased", NEW i \in me.left,
         NEW new, SameCall(me, new), new.at = "leased", new.shard = me.shard, new.groups = me.groups,
         new.left = me.left, new.kept = me.kept, new.poisoned = me.poisoned,
         new.out = [me.out EXCEPT ![i] = "unmatched"]
  PROVE  Fits(new)
<1>1. /\ Positions(new) = Positions(me) /\ Holding(me) /\ Holding(new) /\ DOMAIN me.out = DOMAIN me.stmts
      /\ me.left \subseteq Positions(me)
  BY SameShards DEF Holding, Fits, GroupsFit
<1>2. \A j \in DOMAIN me.stmts : new.out[j] = IF j = i THEN "unmatched" ELSE me.out[j] BY <1>1
<1>3. GroupsFit(new)
  <2>1. new \in Records /\ DOMAIN new.out = DOMAIN new.stmts BY DEF Fits, GroupsFit, SameCall
  <2>2. \A h \in new.groups : h # {} /\ \E r \in Shards : h = OfShard(new.stmts, r)
    BY SameShards DEF Fits, GroupsFit
  <2>3. Positions(new) \notin new.groups /\ new.left \subseteq Positions(new)
    BY <1>1 DEF Fits, GroupsFit
  <2>4. \A j \in new.kept : j \in DOMAIN me.stmts /\ me.out[j] # "conflict" /\ \A h \in new.groups : j \notin h
    BY <1>1 DEF Fits, GroupsFit
  <2>5. new.kept \cap new.left = {} /\ (new.kind \in {"batch", "atomic"} => new.kept \cap Positions(new) = {})
    BY <1>1 DEF Fits, GroupsFit, SameCall
  <2> QED BY <1>2, <2>1, <2>2, <2>3, <2>4, <2>5 DEF GroupsFit, SameCall
<1>4. AtomicFits(new) BY <1>1, <1>2 DEF Fits, AtomicFits, SameCall
<1>5. OneFits(new) BY <1>1, <1>2 DEF Fits, OneFits, SameCall
<1> QED BY <1>3, <1>4, <1>5 DEF Fits

LEMMA ReadFits ==
  ASSUME NEW me, Fits(me), me.at = "leased", me.kind = "loads", NEW new, SameCall(me, new), new.at = "leased",
         new.shard = me.shard, new.groups = me.groups, new.left = {}, new.kept = me.kept,
         new.out = Told(me, Positions(me), "ok")
  PROVE  Fits(new)
<1>1. me.out \in Seq(Answers) /\ "ok" \in Answers /\ DOMAIN me.out = DOMAIN me.stmts
  <2>1. me.out \in Seq(Answers) BY Zenon DEF Fits, GroupsFit, Records
  <2> QED BY <2>1 DEF Answers, Fits, GroupsFit
<1>2. GroupsFit(new)
  <2>1. \A h \in new.groups : h # {} /\ \E r \in Shards : h = OfShard(new.stmts, r)
    BY SameShards DEF Fits, GroupsFit
  <2>2. Positions(new) \notin new.groups BY SameShards DEF Fits, GroupsFit, Holding
  <2>3. \A j \in new.kept : j \in DOMAIN me.stmts /\ me.out[j] # "conflict" /\ \A h \in new.groups : j \notin h
    BY DEF Fits, GroupsFit
  <2>4. \A j \in new.kept : new.out[j] # "conflict" BY <1>1, <2>3, ToldFacts
  <2> QED BY <2>1, <2>2, <2>3, <2>4 DEF GroupsFit, SameCall, Fits
<1> QED BY <1>2 DEF Fits, AtomicFits, OneFits, SameCall

(* A group ends: rolled back, committed, or nobody knows.                   *)
LEMMA EndedFits ==
  ASSUME NEW me, Fits(me), me.at = "leased", NEW new, SameCall(me, new), new.at = "next", new.groups = me.groups,
         \/ me.poisoned /\ new.out = Told(me, me.left, "busy") /\ new.kept = me.kept
         \/ ~me.poisoned /\ me.left = {} /\ new.out = me.out
            /\ new.kept = me.kept \cup (IF me.kind \in {"batch", "atomic"} THEN {i \in Positions(me) : me.out[i] = "ok"} ELSE {})
         \/ ~me.poisoned /\ me.left = {} /\ me.kind \in {"batch", "atomic"}
            /\ (\E what \in {"timeout", "error"} : new.out = Told(me, Positions(me), what))
            /\ new.kept \in {me.kept, me.kept \cup {i \in Positions(me) : me.out[i] = "ok"}}
  PROVE  Fits(new)
<1> DEFINE good == {i \in Positions(me) : me.out[i] = "ok"}
<1>1. /\ Holding(me) /\ ~Holding(new) /\ me.out \in Seq(Answers) /\ {"busy", "timeout", "error"} \subseteq Answers
      /\ DOMAIN me.out = DOMAIN me.stmts /\ me.kept \subseteq DOMAIN me.stmts /\ Positions(me) \subseteq DOMAIN me.stmts
  <2>1. me.out \in Seq(Answers) BY Zenon DEF Fits, GroupsFit, Records
  <2> QED BY <2>1 DEF Answers, Fits, GroupsFit, Holding, Positions
<1>2. \/ new.out = me.out
      \/ \A i \in DOMAIN me.stmts : new.out[i] = IF i \in me.left THEN "busy" ELSE me.out[i]
      \/ \E what \in {"timeout", "error"} :
            \A i \in DOMAIN me.stmts : new.out[i] = IF i \in Positions(me) THEN what ELSE me.out[i]
  BY <1>1, ToldFacts
<1>3. me.kept \subseteq new.kept /\ new.kept \subseteq me.kept \cup good OBVIOUS
<1>4. GroupsFit(new)
  <2>1. \A h \in new.groups : h # {} /\ \E r \in Shards : h = OfShard(new.stmts, r)
    BY SameShards DEF Fits, GroupsFit
  <2>2. new.kept \subseteq DOMAIN new.stmts BY <1>1, <1>3 DEF SameCall
  <2>3. \A i \in me.kept \cup good : me.out[i] # "conflict" BY DEF Fits, GroupsFit
  <2>4. \A i \in new.kept : new.out[i] # "conflict" BY <1>2, <1>3, <2>2, <2>3 DEF SameCall
  <2>5. \A i \in good, g \in me.groups : i \notin g BY <1>1, GroupsApart DEF Fits
  <2>6. \A i \in new.kept, g \in new.groups : i \notin g BY <1>3, <2>5 DEF Fits, GroupsFit
  <2> QED BY <1>1, <2>1, <2>2, <2>4, <2>6 DEF GroupsFit, Fits, SameCall
<1>5. AtomicFits(new)
  <2> SUFFICES ASSUME me.kind = "atomic" PROVE AtomicFits(new) BY DEF AtomicFits, SameCall
  <2>1. /\ DOMAIN me.stmts # {} /\ me.groups = {} /\ Positions(me) = DOMAIN me.stmts /\ me.kept = {}
        /\ me.poisoned => \E j \in DOMAIN me.stmts \ me.left : me.out[j] # "ok"
        /\ ~me.poisoned => \A j \in DOMAIN me.stmts \ me.left : me.out[j] = "ok"
    BY <1>1 DEF Fits, AtomicFits
  <2>2. CASE me.poisoned /\ new.out = Told(me, me.left, "busy") /\ new.kept = me.kept
    <3>1. Refused(new) BY <1>1, <2>1, <2>2, ToldFacts DEF Refused, SameCall
    <3> QED BY <2>1, <2>2, <3>1 DEF AtomicFits, SameCall, Holding
  <2>3. CASE ~me.poisoned /\ me.left = {} /\ new.out = me.out /\ new.kept = me.kept \cup good
    <3>1. new.kept = DOMAIN new.stmts BY <2>1, <2>3 DEF SameCall
    <3> QED BY <2>1, <3>1 DEF AtomicFits, SameCall, Holding
  <2>4. CASE /\ ~me.poisoned /\ me.left = {}
             /\ \E what \in {"timeout", "error"} : new.out = Told(me, Positions(me), what)
             /\ new.kept \in {me.kept, me.kept \cup good}
    <3>1. Refused(new) BY <1>1, <2>1, <2>4, ToldFacts DEF Refused, SameCall
    <3> QED BY <2>1, <2>4, <3>1 DEF AtomicFits, SameCall, Holding
  <2> QED BY <2>2, <2>3, <2>4
<1>6. OneFits(new)
  <2> SUFFICES ASSUME me.kind = "one" PROVE OneFits(new) BY DEF OneFits, SameCall
  <2>1. /\ DOMAIN me.stmts = {1}
        /\ me.out[1] = "ok" /\ me.stmts[1].how \notin {"select", "delete", "guardedDelete"} => 1 \in me.kept
    BY DEF Fits, OneFits
  <2> QED BY <1>2, <1>3, <2>1 DEF OneFits, SameCall
<1> QED BY <1>4, <1>5, <1>6 DEF Fits

LEMMA ReturnedFits ==
  ASSUME NEW me, Fits(me), me.at = "next", me.groups = {} \/ me.kind = "loads", NEW new, SameCall(me, new),
         new.at = "told", new.groups = {}, new.kept = me.kept,
         new.out = IF me.kind \in {"atomic", "loads"} /\ {i \in DOMAIN me.out : me.out[i] # "ok"} # {}
                   THEN Told(me, DOMAIN me.out, "failed") ELSE me.out
  PROVE  Fits(new)
<1>1. me.out \in Seq(Answers) /\ "failed" \in Answers /\ DOMAIN me.out = DOMAIN me.stmts
  <2>1. me.out \in Seq(Answers) BY Zenon DEF Fits, GroupsFit, Records
  <2> QED BY <2>1 DEF Answers, Fits, GroupsFit
<1>2. GroupsFit(new)
  <2>1. \A i \in new.kept : i \in DOMAIN me.stmts /\ me.out[i] # "conflict"
    BY DEF Fits, GroupsFit
  <2>2. \A i \in new.kept : new.out[i] # "conflict" BY <1>1, <2>1, ToldFacts
  <2> QED BY <2>2 DEF GroupsFit, Holding, Fits, SameCall
<1>3. AtomicFits(new)
  <2> SUFFICES ASSUME me.kind = "atomic" PROVE AtomicFits(new) BY DEF AtomicFits, SameCall
  <2>1. DOMAIN me.stmts # {} /\ me.kept \in {{}, DOMAIN me.stmts} /\ (Refused(me) \/ me.kept = DOMAIN me.stmts)
    BY DEF Fits, AtomicFits
  <2>2. \A i \in DOMAIN me.stmts : new.out[i] = "ok" => i \in me.kept
    <3>1. CASE {i \in DOMAIN me.out : me.out[i] # "ok"} # {} BY <1>1, <3>1, ToldFacts
    <3>2. CASE {i \in DOMAIN me.out : me.out[i] # "ok"} = {} BY <1>1, <2>1, <3>2 DEF Refused
    <3> QED BY <3>1, <3>2
  <2> QED BY <2>1, <2>2 DEF AtomicFits, SameCall, Holding
<1>4. OneFits(new)
  <2> SUFFICES ASSUME me.kind = "one" PROVE OneFits(new) BY DEF OneFits, SameCall
  <2> QED BY DEF Fits, OneFits, SameCall
<1> QED BY <1>2, <1>3, <1>4 DEF Fits

(* The pools count the places their clients hold.                           *)
Holders(client, s) == {c \in Clients : Holding(client[c]) /\ client[c].shard = s}
PoolsFit(client, idle, inUse) ==
  /\ idle \in [Shards -> Nat] /\ inUse \in [Shards -> Nat]
  /\ \A s \in Shards : idle[s] + inUse[s] <= mySize /\ inUse[s] = Cardinality(Holders(client, s))
DataFits ==
  /\ myRows \in [Keys -> Int] /\ mySeen \in [Clients -> [Keys -> Int]] /\ mySize \in Nat \ {0}
  /\ DOMAIN myOpen = Clients /\ \A c \in Clients : \A k \in DOMAIN myOpen[c] : myOpen[c][k] \in Int
ClientsFit == DOMAIN myClient = Clients /\ \A c \in Clients : Fits(myClient[c])
StoreIInv == ClientsFit /\ DataFits /\ PoolsFit(myClient, myIdle, myInUse)

LEMMA HoldersCounted ==
  ASSUME NEW client, NEW s
  PROVE  IsFiniteSet(Holders(client, s)) /\ Cardinality(Holders(client, s)) \in Nat
<1> DEFINE H == Holders(client, s)
<1>1. H \subseteq Clients /\ IsFiniteSet(Clients) BY MySqlAssumption DEF Holders
<1> HIDE DEF H
<1> QED BY <1>1, FS_Subset, FS_CardinalityType DEF H

Replaces(client, c, new, client2) == client2 = [client EXCEPT ![c] = new]

LEMMA HoldersStay ==
  ASSUME NEW client, DOMAIN client = Clients, NEW c \in Clients, NEW new, NEW client2, Replaces(client, c, new, client2),
         Holding(new) <=> Holding(client[c]), Holding(new) => new.shard = client[c].shard, NEW s
  PROVE  Holders(client2, s) = Holders(client, s)
<1> QED BY DEF Holders, Replaces

LEMMA HolderComes ==
  ASSUME NEW client, DOMAIN client = Clients, NEW c \in Clients, NEW new, NEW client2, Replaces(client, c, new, client2),
         Holding(new), ~Holding(client[c]), NEW s
  PROVE  /\ s # new.shard => Holders(client2, s) = Holders(client, s)
         /\ s = new.shard => Cardinality(Holders(client2, s)) = Cardinality(Holders(client, s)) + 1
<1>1. client2[c] = new /\ \A d \in Clients \ {c} : client2[d] = client[d] BY DEF Replaces
<1>2. s # new.shard => Holders(client2, s) = Holders(client, s) BY <1>1 DEF Holders
<1>3. s = new.shard => Holders(client2, s) = Holders(client, s) \cup {c} /\ c \notin Holders(client, s)
  BY <1>1 DEF Holders
<1> DEFINE H == Holders(client, s)
<1>4. IsFiniteSet(H) BY HoldersCounted
<1> HIDE DEF H
<1> QED BY <1>2, <1>3, <1>4, FS_AddElement DEF H

LEMMA HolderGoes ==
  ASSUME NEW client, DOMAIN client = Clients, NEW c \in Clients, NEW new, NEW client2, Replaces(client, c, new, client2),
         ~Holding(new), Holding(client[c]), NEW s
  PROVE  /\ s # client[c].shard => Holders(client2, s) = Holders(client, s)
         /\ s = client[c].shard => /\ Cardinality(Holders(client2, s)) = Cardinality(Holders(client, s)) - 1
                                   /\ Cardinality(Holders(client, s)) > 0
<1>1. client2[c] = new /\ \A d \in Clients \ {c} : client2[d] = client[d] BY DEF Replaces
<1>2. s # client[c].shard => Holders(client2, s) = Holders(client, s) BY <1>1 DEF Holders
<1>3. s = client[c].shard => Holders(client2, s) = Holders(client, s) \ {c} /\ c \in Holders(client, s)
  BY <1>1 DEF Holders
<1> DEFINE H == Holders(client, s)
<1>4. IsFiniteSet(H) /\ Cardinality(H) \in Nat /\ IsFiniteSet(H \ {c}) /\ Cardinality(H \ {c}) \in Nat
  <2>1. IsFiniteSet(H) /\ Cardinality(H) \in Nat BY HoldersCounted
  <2> HIDE DEF H
  <2> QED BY <2>1, FS_Subset, FS_CardinalityType
<1> HIDE DEF H
<1> QED BY <1>2, <1>3, <1>4, FS_RemoveElement DEF H

(* Three ways for a client to move: with its place or without, taking one,  *)
(* giving it back.                                                          *)
LEMMA ClientMoves ==
  ASSUME StoreIInv, NEW c \in Clients, NEW new, Fits(new), Replaces(myClient, c, new, myClient'), DataFits', mySize' = mySize,
         Holding(new) <=> Holding(myClient[c]), Holding(new) => new.shard = myClient[c].shard, UNCHANGED <<myIdle, myInUse>>
  PROVE  StoreIInv'
<1>1. \A s \in Shards : Holders(myClient', s) = Holders(myClient, s)
  BY HoldersStay DEF StoreIInv, ClientsFit
<1>2. PoolsFit(myClient, myIdle, myInUse)' BY <1>1 DEF StoreIInv, PoolsFit
<1> QED BY <1>2 DEF StoreIInv, ClientsFit, Replaces

PlaceTaken(s) ==
  /\ \/ myIdle[s] > 0 /\ myIdle' = [myIdle EXCEPT ![s] = @ - 1]
     \/ myIdle[s] = 0 /\ myInUse[s] < mySize /\ UNCHANGED myIdle
  /\ myInUse' = [myInUse EXCEPT ![s] = @ + 1]
PlaceGiven(s) ==
  /\ UNCHANGED myIdle \/ myIdle' = [myIdle EXCEPT ![s] = @ + 1]
  /\ myInUse' = [myInUse EXCEPT ![s] = @ - 1]

LEMMA ClientTakes ==
  ASSUME StoreIInv, NEW c \in Clients, NEW new, Fits(new), Replaces(myClient, c, new, myClient'), DataFits', mySize' = mySize,
         Holding(new), ~Holding(myClient[c]), PlaceTaken(new.shard)
  PROVE  StoreIInv'
<1>1. ClientsFit' BY DEF StoreIInv, ClientsFit, Replaces
<1> DEFINE r == new.shard
<1>2. r \in Shards BY Zenon DEF Fits, GroupsFit, Records
<1>3. PlaceTaken(r) OBVIOUS
<1>4. \A s \in Shards : /\ s # r => Holders(myClient', s) = Holders(myClient, s)
                        /\ s = r => Cardinality(Holders(myClient', s)) = Cardinality(Holders(myClient, s)) + 1
  BY HolderComes DEF StoreIInv, ClientsFit
<1> HIDE DEF r
<1>5. myIdle \in [Shards -> Nat] /\ myInUse \in [Shards -> Nat] /\ mySize \in Nat
  BY DEF StoreIInv, PoolsFit, DataFits
<1>6. /\ myIdle' \in [Shards -> Nat] /\ myInUse' \in [Shards -> Nat]
      /\ \A s \in Shards \ {r} : myIdle'[s] = myIdle[s] /\ myInUse'[s] = myInUse[s]
      /\ myInUse'[r] = myInUse[r] + 1 /\ (myIdle'[r] + myInUse'[r] <= mySize)
  <2>1. myIdle[r] + myInUse[r] <= mySize BY <1>2 DEF StoreIInv, PoolsFit
  <2>2. CASE myIdle[r] > 0 /\ myIdle' = [myIdle EXCEPT ![r] = @ - 1]
    BY <1>2, <1>3, <1>5, <2>1, <2>2 DEF PlaceTaken
  <2>3. CASE myIdle[r] = 0 /\ myInUse[r] < mySize /\ UNCHANGED myIdle
    BY <1>2, <1>3, <1>5, <2>1, <2>3 DEF PlaceTaken
  <2> QED BY <1>3, <2>2, <2>3 DEF PlaceTaken
<1>7. \A s \in Shards : myInUse'[s] = Cardinality(Holders(myClient', s))
  BY <1>2, <1>4, <1>6 DEF StoreIInv, PoolsFit
<1> QED BY <1>1, <1>6, <1>7 DEF StoreIInv, PoolsFit

LEMMA ClientGives ==
  ASSUME StoreIInv, NEW c \in Clients, NEW new, Fits(new), Replaces(myClient, c, new, myClient'), DataFits', mySize' = mySize,
         ~Holding(new), Holding(myClient[c]), PlaceGiven(myClient[c].shard)
  PROVE  StoreIInv'
<1>1. ClientsFit' BY DEF StoreIInv, ClientsFit, Replaces
<1> DEFINE r == myClient[c].shard
<1>2. r \in Shards
  <2>1. myClient[c] \in Records BY DEF StoreIInv, ClientsFit, Fits, GroupsFit
  <2> QED BY <2>1, Zenon DEF Records
<1>3. PlaceGiven(r) OBVIOUS
<1>4. \A s \in Shards : /\ s # r => Holders(myClient', s) = Holders(myClient, s)
                        /\ s = r => /\ Cardinality(Holders(myClient', s)) = Cardinality(Holders(myClient, s)) - 1
                                    /\ Cardinality(Holders(myClient, s)) > 0
  BY HolderGoes DEF StoreIInv, ClientsFit
<1> HIDE DEF r
<1>5. myIdle \in [Shards -> Nat] /\ myInUse \in [Shards -> Nat] /\ mySize \in Nat /\ myInUse[r] > 0
  BY <1>2, <1>4 DEF StoreIInv, PoolsFit, DataFits
<1>6. /\ myIdle' \in [Shards -> Nat] /\ myInUse' \in [Shards -> Nat]
      /\ \A s \in Shards \ {r} : myIdle'[s] = myIdle[s] /\ myInUse'[s] = myInUse[s]
      /\ myInUse'[r] = myInUse[r] - 1 /\ (myIdle'[r] + myInUse'[r] <= mySize)
  BY <1>2, <1>3, <1>5 DEF PlaceGiven, StoreIInv, PoolsFit
<1>7. \A s \in Shards : myInUse'[s] = Cardinality(Holders(myClient', s))
  BY <1>2, <1>4, <1>6 DEF StoreIInv, PoolsFit
<1> QED BY <1>1, <1>6, <1>7 DEF StoreIInv, PoolsFit

(* Calls.                                                                   *)
LEMMA GroupsOf ==
  ASSUME NEW ks \in Seq(Keys), NEW stmts, DOMAIN stmts = DOMAIN ks, \A i \in DOMAIN ks : stmts[i].key = ks[i]
  PROVE  /\ Groups(ks) \in SUBSET SUBSET Nat
         /\ \A g \in Groups(ks) : g # {} /\ \E s \in Shards : g = OfShard(stmts, s)
         /\ Cardinality(Groups(ks)) = 1 => Groups(ks) = {DOMAIN stmts} /\ DOMAIN stmts # {}
<1>1. DOMAIN ks = 1..Len(ks) /\ Len(ks) \in Nat /\ \A i \in DOMAIN ks : ks[i] \in Keys OBVIOUS
<1>2. \A i \in DOMAIN ks : ShardOf(ks[i]) \in Shards BY <1>1, ShardTyped
<1>3. \A g \in Groups(ks) : \E i \in DOMAIN ks : i \in g /\ g = OfShard(stmts, ShardOf(ks[i]))
  BY DEF Groups, OfShard
<1>4. \A i \in DOMAIN ks : OfShard(stmts, ShardOf(ks[i])) \in Groups(ks) /\ i \in OfShard(stmts, ShardOf(ks[i]))
  BY DEF Groups, OfShard
<1>5. \A g \in Groups(ks) : g \subseteq DOMAIN ks BY <1>3 DEF OfShard
<1>6. Groups(ks) \in SUBSET SUBSET Nat BY <1>1, <1>5
<1>7. ASSUME Cardinality(Groups(ks)) = 1 PROVE Groups(ks) = {DOMAIN stmts} /\ DOMAIN stmts # {}
  <2> DEFINE G == Groups(ks)
             D == DOMAIN ks
  <2>1. IsFiniteSet(D) BY <1>1, FS_Interval
  <2>2. G \subseteq SUBSET D BY <1>5
  <2> HIDE DEF G, D
  <2>3. Cardinality(G) = 1 BY <1>7 DEF G
  <2>4. PICK g : G = {g} BY <2>1, <2>2, <2>3, FS_SUBSET, FS_Subset, FS_Singleton
  <2>5. g = D BY <1>4, <1>5, <2>4 DEF G, D
  <2> QED BY <1>3, <2>4, <2>5 DEF G, D
<1> QED BY <1>2, <1>3, <1>6, <1>7

LEMMA OneGroup ==
  ASSUME NEW st, st.key \in Keys
  PROVE  \A g \in {{1}} : g # {} /\ \E s \in Shards : g = OfShard(<<st>>, s)
<1>1. OfShard(<<st>>, ShardOf(st.key)) = {1} BY DEF OfShard
<1> QED BY <1>1, ShardTyped

LEMMA StatementTyped ==
  ASSUME NEW k \in Keys, NEW base \in Int, NEW new \in Int, NEW how \in Hows
  PROVE  /\ [key |-> k, base |-> base, new |-> new, how |-> how] \in Statements
         /\ [key |-> k, base |-> base, new |-> new, how |-> how].key = k
BY DEF Statements

LEMMA SavesTyped ==
  ASSUME NEW k \in Keys, NEW base \in Int, NEW new \in Int, NEW required
  PROVE  SaveStatement(k, base, required, new) \in Statements /\ SaveStatement(k, base, required, new).key = k
<1> DEFINE how == IF ~required THEN "upsert" ELSE IF base = 0 THEN "insert" ELSE "update"
<1>1. how \in Hows BY DEF Hows
<1>2. SaveStatement(k, base, required, new) = [key |-> k, base |-> base, new |-> new, how |-> how]
  BY DEF SaveStatement
<1> HIDE DEF how
<1> QED BY <1>1, <1>2, StatementTyped

LEMMA CallSteps ==
  ASSUME StoreIInv, NEW c \in Clients, NEW kind \in Kinds, NEW stmts \in Seq(Statements), NEW groups \in SUBSET SUBSET Nat,
         \A g \in groups : g # {} /\ \E s \in Shards : g = OfShard(stmts, s),
         kind = "atomic" => DOMAIN stmts # {} /\ groups = {DOMAIN stmts}, kind = "one" => DOMAIN stmts = {1},
         Call(c, kind, stmts, groups), mySize' = mySize
  PROVE  StoreIInv'
<1> DEFINE out == [i \in DOMAIN stmts |-> "none"]
           new == [Resting EXCEPT !.kind = kind, !.at = "next", !.stmts = stmts, !.groups = groups, !.out = out]
<1>1. out \in Seq(Answers) /\ DOMAIN out = DOMAIN stmts /\ \A i \in DOMAIN out : out[i] = "none"
  <2>1. DOMAIN stmts = 1..Len(stmts) /\ Len(stmts) \in Nat /\ "none" \in Answers BY DEF Answers
  <2>2. out \in Seq(Answers) BY <2>1, SeqDef
  <2> QED BY <2>2
<1>2. Replaces(myClient, c, new, myClient') BY DEF Call, Replaces
<1>3. myClient[c].at = "rest" /\ UNCHANGED <<myRows, myOpen, myIdle, myInUse, mySeen>>
  BY DEF Call, Me
<1> HIDE DEF out
<1>4. 0 \in Shards BY MySqlAssumption DEF Shards
<1>5. /\ new \in Records /\ new.kind = kind /\ new.at = "next" /\ new.stmts = stmts /\ new.groups = groups
      /\ new.out = out /\ new.kept = {}
  BY <1>1, <1>4 DEF Records, Resting
<1> HIDE DEF new
<1>6. Fits(new) BY <1>1, <1>5, CalledFits
<1>7. DataFits' BY <1>3 DEF StoreIInv, DataFits
<1> QED BY <1>2, <1>3, <1>5, <1>6, <1>7, ClientMoves DEF Holding

LEMMA Seen == ASSUME StoreIInv, NEW c \in Clients, NEW k \in Keys PROVE mySeen[c][k] \in Int /\ mySeen[c][k] + 1 \in Int
<1> QED BY DEF StoreIInv, DataFits

LEMMA SingleCalls ==
  ASSUME StoreIInv, NEW c \in Clients, NEW k \in Keys, mySize' = mySize,
         Load(c, k) \/ \E required \in BOOLEAN : Save(c, k, required) \/ Delete(c, k, required)
  PROVE  StoreIInv'
<1>1. ASSUME NEW st \in Statements, st.key = k, NEW kind \in {"load", "one"}, Call(c, kind, <<st>>, {{1}})
      PROVE  StoreIInv'
  <2>1. <<st>> \in Seq(Statements) /\ DOMAIN <<st>> = {1} /\ {{1}} \in SUBSET SUBSET Nat /\ kind \in Kinds /\ kind # "atomic"
    BY <1>1 DEF Kinds
  <2> QED BY <1>1, <2>1, OneGroup, CallSteps
<1>2. CASE Load(c, k)
  <2> DEFINE st == [key |-> k, base |-> 0, new |-> 0, how |-> "select"]
  <2>1. st \in Statements /\ st.key = k BY DEF Hows, Statements
  <2>2. Call(c, "load", <<st>>, {{1}}) BY <1>2 DEF Load
  <2> HIDE DEF st
  <2> QED BY <1>1, <2>1, <2>2
<1>3. ASSUME NEW required \in BOOLEAN, Save(c, k, required) PROVE StoreIInv'
  <2> DEFINE st == SaveStatement(k, mySeen[c][k], required, mySeen[c][k] + 1)
  <2>1. st \in Statements /\ st.key = k BY Seen, SavesTyped
  <2>2. Call(c, "one", <<st>>, {{1}}) BY <1>3 DEF Save
  <2> HIDE DEF st
  <2> QED BY <1>1, <2>1, <2>2
<1>4. ASSUME NEW required \in BOOLEAN, Delete(c, k, required) PROVE StoreIInv'
  <2> DEFINE how == IF required /\ mySeen[c][k] # 0 THEN "guardedDelete" ELSE "delete"
  <2>1. how \in Hows BY DEF Hows
  <2>2. Call(c, "one", <<[key |-> k, base |-> mySeen[c][k], new |-> 0, how |-> how]>>, {{1}})
    BY <1>4 DEF Delete
  <2> HIDE DEF how
  <2> DEFINE st == [key |-> k, base |-> mySeen[c][k], new |-> 0, how |-> how]
  <2>3. st \in Statements /\ st.key = k BY <2>1, Seen, StatementTyped
  <2>4. Call(c, "one", <<st>>, {{1}}) BY <2>2
  <2> HIDE DEF st
  <2> QED BY <1>1, <2>3, <2>4
<1> QED BY <1>2, <1>3, <1>4

LEMMA BatchCalls ==
  ASSUME StoreIInv, NEW c \in Clients, NEW ks \in Batches, mySize' = mySize,
         BatchLoad(c, ks) \/ BatchSave(c, ks) \/ SaveAtomic(c, ks)
  PROVE  StoreIInv'
<1>1. ks \in Seq(Keys) /\ DOMAIN ks = 1..Len(ks) /\ Len(ks) \in Nat /\ \A i \in DOMAIN ks : ks[i] \in Keys
  BY MySqlAssumption
<1>2. ASSUME NEW stmts, DOMAIN stmts = DOMAIN ks, \A i \in DOMAIN ks : stmts[i] \in Statements /\ stmts[i].key = ks[i],
             stmts = [i \in DOMAIN ks |-> stmts[i]], NEW kind \in {"loads", "batch", "atomic"}, kind = "atomic" => Cardinality(Groups(ks)) = 1,
             Call(c, kind, stmts, Groups(ks))
      PROVE  StoreIInv'
  <2>1. stmts \in Seq(Statements) BY <1>1, <1>2, SeqDef
  <2>2. /\ Groups(ks) \in SUBSET SUBSET Nat
        /\ \A g \in Groups(ks) : g # {} /\ \E s \in Shards : g = OfShard(stmts, s)
        /\ kind = "atomic" => Groups(ks) = {DOMAIN stmts} /\ DOMAIN stmts # {}
    BY <1>1, <1>2, GroupsOf
  <2>3. kind \in Kinds /\ kind # "one" BY <1>2 DEF Kinds
  <2> QED BY <1>2, <2>1, <2>2, <2>3, CallSteps
<1>3. CASE BatchLoad(c, ks)
  <2> DEFINE stmts == [i \in DOMAIN ks |-> [key |-> ks[i], base |-> 0, new |-> 0, how |-> "select"]]
  <2>1. DOMAIN stmts = DOMAIN ks /\ \A i \in DOMAIN ks : stmts[i] \in Statements /\ stmts[i].key = ks[i]
    BY <1>1 DEF Hows, Statements
  <2>2. Call(c, "loads", stmts, Groups(ks)) /\ stmts = [i \in DOMAIN ks |-> stmts[i]]
    BY <1>3 DEF BatchLoad
  <2> HIDE DEF stmts
  <2> QED BY <1>2, <2>1, <2>2
<1>4. CASE BatchSave(c, ks) \/ SaveAtomic(c, ks)
  <2> DEFINE stmts == [i \in DOMAIN ks |-> BatchStatement(ks[i], mySeen[c][ks[i]])]
  <2>1. DOMAIN stmts = DOMAIN ks /\ \A i \in DOMAIN ks : stmts[i] \in Statements /\ stmts[i].key = ks[i]
    <3>1. ASSUME NEW i \in DOMAIN ks
          PROVE  /\ BatchStatement(ks[i], mySeen[c][ks[i]]) \in Statements
                 /\ BatchStatement(ks[i], mySeen[c][ks[i]]).key = ks[i]
      BY <1>1, Seen, SavesTyped DEF BatchStatement
    <3> QED BY <3>1
  <2>2. /\ stmts = [i \in DOMAIN ks |-> stmts[i]]
        /\ \/ Call(c, "batch", stmts, Groups(ks))
           \/ Cardinality(Groups(ks)) = 1 /\ Call(c, "atomic", stmts, Groups(ks))
    BY <1>4 DEF BatchSave, SaveAtomic
  <2> HIDE DEF stmts
  <2> QED BY <1>2, <2>1, <2>2
<1> QED BY <1>3, <1>4

(* The lease.                                                               *)
LEMMA Mine ==
  ASSUME StoreIInv, NEW c \in Clients
  PROVE  Fits(myClient[c]) /\ myClient[c] \in Records /\ myClient[c].groups \in SUBSET SUBSET Nat
<1>1. Fits(myClient[c]) /\ myClient[c] \in Records BY DEF StoreIInv, ClientsFit, Fits, GroupsFit
<1>2. myClient[c].groups \in SUBSET SUBSET Nat BY <1>1, Zenon DEF Records
<1> QED BY <1>1, <1>2

LEMMA GroupShard ==
  ASSUME NEW me, Fits(me), NEW g \in me.groups
  PROVE  ShardOf(me.stmts[CHOOSE i \in g : TRUE].key) \in Shards
<1>1. PICK s \in Shards : g = OfShard(me.stmts, s) /\ g # {} BY DEF Fits, GroupsFit
<1> QED BY <1>1 DEF OfShard

LEMMA AcquireSteps ==
  ASSUME StoreIInv, NEW c \in Clients, NEW g \in Group(c), Acquire(c, g), mySize' = mySize
  PROVE  StoreIInv'
<1> DEFINE me == myClient[c]
           s == ShardOf(me.stmts[CHOOSE i \in g : TRUE].key)
<1>1. Fits(me) /\ me \in Records /\ me.groups \in SUBSET SUBSET Nat /\ g \in me.groups
  BY Mine DEF Group, Me
<1>2. s \in Shards BY <1>1, GroupShard
<1>3. me.at = "next" /\ PlaceTaken(s) /\ UNCHANGED <<myRows, myOpen, mySeen>>
  BY DEF Acquire, Me, PlaceTaken
<1>4. PICK at \in {"leased", "connecting"} : myClient' = [myClient EXCEPT ![c] = [Begins(me, g) EXCEPT !.at = at]]
  <2>1. [Begins(me, g) EXCEPT !.at = "leased"] = Begins(me, g) BY <1>1, <1>2, Begun DEF Records
  <2> QED BY <2>1 DEF Acquire, Me
<1> HIDE DEF s
<1>5. /\ Begins(me, g) \in Records
      /\ Begins(me, g).kind = me.kind /\ Begins(me, g).stmts = me.stmts
      /\ Begins(me, g).groups = me.groups \ {g} /\ Begins(me, g).shard = s /\ Begins(me, g).left = g
      /\ ~Begins(me, g).poisoned /\ Begins(me, g).out = me.out /\ Begins(me, g).kept = me.kept
  BY <1>1, <1>2, Begun DEF s
<1> HIDE DEF me
<1> DEFINE b == Begins(me, g)
           new == [b EXCEPT !.at = at]
<1> HIDE DEF b
<1>6. /\ new \in Records /\ new.kind = b.kind /\ new.at = at /\ new.stmts = b.stmts
      /\ new.groups = b.groups /\ new.shard = b.shard /\ new.left = b.left
      /\ (new.poisoned <=> b.poisoned) /\ new.out = b.out /\ new.kept = b.kept
  BY <1>5 DEF Records, b
<1>7. Replaces(myClient, c, new, myClient') BY <1>4 DEF Replaces, b
<1> HIDE DEF new
<1>8. /\ SameCall(me, new) /\ Holding(new) /\ new.groups = me.groups \ {g} /\ new.shard = s
      /\ new.left = g /\ ~new.poisoned /\ new.out = me.out /\ new.kept = me.kept
  BY <1>5, <1>6 DEF SameCall, Holding, b
<1>9. Fits(new) BY <1>1, <1>3, <1>8, TakenFits DEF s
<1>10. DataFits' BY <1>3 DEF StoreIInv, DataFits
<1> QED BY <1>3, <1>7, <1>8, <1>9, <1>10, ClientTakes DEF Holding, me

LEMMA Parts ==
  ASSUME NEW me \in Records
  PROVE  /\ me.out \in Seq(Answers) /\ me.groups \in SUBSET SUBSET Nat /\ me.left \in SUBSET Nat /\ me.kept \in SUBSET Nat
         /\ me.stmts \in Seq(Statements) /\ me.shard \in Shards
         /\ DOMAIN me.stmts \subseteq Nat /\ Positions(me) \subseteq DOMAIN me.stmts
<1>1. me.out \in Seq(Answers) BY Zenon DEF Records
<1>2. me.groups \in SUBSET SUBSET Nat BY Zenon DEF Records
<1>3. me.left \in SUBSET Nat BY Zenon DEF Records
<1>4. me.kept \in SUBSET Nat BY Zenon DEF Records
<1>5. me.stmts \in Seq(Statements) BY Zenon DEF Records
<1>6. me.shard \in Shards BY Zenon DEF Records
<1> QED BY <1>1, <1>2, <1>3, <1>4, <1>5, <1>6 DEF Positions

LEMMA WaitSteps ==
  ASSUME StoreIInv, NEW c \in Clients, NEW g \in Group(c), AcquireTimesOut(c, g), mySize' = mySize
  PROVE  StoreIInv'
<1> DEFINE me == myClient[c]
           out == Told(me, g, "busy")
           groups == me.groups \ {g}
           new == [me EXCEPT !.groups = groups, !.out = out]
<1>1. Fits(me) /\ me \in Records /\ me.groups \in SUBSET SUBSET Nat /\ g \in me.groups
  BY Mine DEF Group, Me
<1>2. me.at = "next" /\ UNCHANGED <<myRows, myOpen, myIdle, myInUse, mySeen>>
  BY DEF AcquireTimesOut, Me
<1>3. Replaces(myClient, c, new, myClient') BY DEF Replaces, AcquireTimesOut, Me
<1>4. out \in Seq(Answers) /\ DOMAIN out = DOMAIN me.out /\ groups \in SUBSET SUBSET Nat
  BY <1>1, Parts, ToldFacts DEF Answers
<1> HIDE DEF out, groups, me
<1>5. /\ new \in Records /\ new.kind = me.kind /\ new.at = me.at /\ new.stmts = me.stmts
      /\ new.groups = groups /\ new.out = out /\ new.kept = me.kept
  BY <1>1, <1>4 DEF Records
<1> HIDE DEF new
<1>6. new.at = "next" /\ new.out = Told(me, g, "busy") /\ new.groups = me.groups \ {g}
  BY <1>2, <1>5 DEF out, groups
<1>7. Fits(new) BY <1>1, <1>2, <1>4, <1>5, <1>6, RefusedFits DEF SameCall
<1>8. DataFits' BY <1>2 DEF StoreIInv, DataFits
<1> QED BY <1>2, <1>3, <1>6, <1>7, <1>8, ClientMoves DEF Holding, me

LEMMA ConnectSteps ==
  ASSUME StoreIInv, NEW c \in Clients, Connected(c), mySize' = mySize
  PROVE  StoreIInv'
<1> DEFINE me == myClient[c]
           out == Told(me, Positions(me), "busy")
<1>1. Fits(me) /\ me \in Records BY Mine
<1>2. me.at = "connecting" /\ UNCHANGED <<myRows, myOpen, myIdle, mySeen>> BY DEF Connected, Me
<1>3. Holding(myClient[c]) BY <1>2 DEF Holding
<1>4. DataFits' BY <1>2 DEF StoreIInv, DataFits
<1>5. CASE myClient' = [myClient EXCEPT ![c].at = "leased"] /\ UNCHANGED <<myInUse, myFaults>>
  <2> DEFINE new == [me EXCEPT !.at = "leased"]
  <2>1. Replaces(myClient, c, new, myClient') BY <1>5 DEF Replaces
  <2> HIDE DEF me
  <2>2. /\ new \in Records /\ new.kind = me.kind /\ new.at = "leased" /\ new.stmts = me.stmts
        /\ new.groups = me.groups /\ new.out = me.out /\ new.kept = me.kept /\ new.shard = me.shard
        /\ new.left = me.left /\ (new.poisoned <=> me.poisoned)
    BY <1>1 DEF Records
  <2> HIDE DEF new
  <2>3. SameCall(me, new) /\ Holding(new) /\ Holding(me) BY <1>2, <2>2 DEF SameCall, Holding
  <2>4. Fits(new) BY <1>1, <2>2, <2>3, ConnectedFits
  <2>5. new.shard = myClient[c].shard BY <2>2 DEF me
  <2> QED BY <1>2, <1>3, <1>4, <1>5, <2>1, <2>3, <2>4, <2>5, ClientMoves
<1>6. CASE /\ myInUse' = [myInUse EXCEPT ![me.shard] = @ - 1]
           /\ myClient' = [myClient EXCEPT ![c].at = "next", ![c].out = Told(me, Positions(me), "busy")]
  <2> DEFINE new == [me EXCEPT !.at = "next", !.out = out]
  <2>1. Replaces(myClient, c, new, myClient') BY <1>6 DEF Replaces
  <2>2. out \in Seq(Answers) /\ DOMAIN out = DOMAIN me.out BY <1>1, Parts, ToldFacts DEF Answers
  <2>3. PlaceGiven(myClient[c].shard) BY <1>2, <1>6 DEF PlaceGiven
  <2> HIDE DEF out, me
  <2>4. /\ new \in Records /\ new.kind = me.kind /\ new.at = "next" /\ new.stmts = me.stmts
        /\ new.groups = me.groups /\ new.out = out /\ new.kept = me.kept
    BY <1>1, <2>2 DEF Records
  <2> HIDE DEF new
  <2>5. SameCall(me, new) /\ ~Holding(new) BY <2>2, <2>4 DEF SameCall, Holding
  <2>6. Fits(new) BY <1>1, <1>2, <2>4, <2>5, RefusedFits DEF out
  <2> QED BY <1>3, <1>4, <2>1, <2>3, <2>5, <2>6, ClientGives
<1> QED BY <1>5, <1>6 DEF Connected, Me

(* The end of a group, and of the call.                                     *)
LEMMA RowsTyped ==
  ASSUME DataFits, NEW c \in Clients, NEW landed \in BOOLEAN
  PROVE  [k \in Keys |-> IF landed /\ k \in DOMAIN myOpen[c] THEN myOpen[c][k] ELSE myRows[k]] \in [Keys -> Int]
BY DEF DataFits

LEMMA OpenEmptied ==
  ASSUME DataFits, NEW c \in Clients, myOpen' = [myOpen EXCEPT ![c] = <<>>]
  PROVE  DOMAIN myOpen' = Clients /\ \A d \in Clients : \A k \in DOMAIN myOpen'[d] : myOpen'[d][k] \in Int
BY DEF DataFits

LEMMA EndSteps ==
  ASSUME StoreIInv, NEW c \in Clients, EndGroup(c) \/ CommitFails(c), mySize' = mySize
  PROVE  StoreIInv'
<1> DEFINE me == myClient[c]
           good == {i \in Positions(me) : me.out[i] = "ok"}
<1>1. Fits(me) /\ me \in Records BY Mine
<1>2. me.at = "leased" /\ (me.poisoned \/ me.left = {}) BY DEF EndGroup, CommitFails, Ends, Me
<1>3. Holding(myClient[c]) BY <1>2 DEF Holding
<1>4. PlaceGiven(myClient[c].shard)
  <2>1. Release(me) \/ \E b \in BOOLEAN : Release([me EXCEPT !.broken = b])
    BY DEF EndGroup, CommitFails, Me
  <2>2. /\ \E b \in BOOLEAN : myIdle' = [myIdle EXCEPT ![me.shard] = IF b THEN @ ELSE @ + 1]
        /\ myInUse' = [myInUse EXCEPT ![me.shard] = @ - 1]
    <3>1. CASE Release(me)
      <4>1. me.broken \in BOOLEAN BY <1>1, Zenon DEF Records
      <4> QED BY <3>1, <4>1 DEF Release
    <3>2. ASSUME NEW b \in BOOLEAN, Release([me EXCEPT !.broken = b])
          PROVE  /\ myIdle' = [myIdle EXCEPT ![me.shard] = IF b THEN @ ELSE @ + 1]
                 /\ myInUse' = [myInUse EXCEPT ![me.shard] = @ - 1]
      <4> DEFINE gone == [me EXCEPT !.broken = b]
      <4>1. gone.broken = b /\ gone.shard = me.shard /\ Release(gone) BY <1>1, <3>2 DEF Records
      <4> HIDE DEF gone
      <4> QED BY <4>1 DEF Release
    <3> QED BY <2>1, <3>1, <3>2
  <2>3. myIdle \in [Shards -> Nat] BY DEF StoreIInv, PoolsFit
  <2> HIDE DEF me
  <2> QED BY <2>2, <2>3 DEF PlaceGiven, me
<1>5. DataFits'
  <2>1. DataFits BY DEF StoreIInv
  <2>2. \/ myRows' = myRows
        \/ \E landed \in BOOLEAN :
             myRows' = [k \in Keys |-> IF landed /\ k \in DOMAIN myOpen[c] THEN myOpen[c][k] ELSE myRows[k]]
    <3>1. CASE CommitFails(c) BY <3>1 DEF CommitFails
    <3>2. CASE EndGroup(c) /\ myRows' = [k \in Keys |-> IF k \in DOMAIN myOpen[c] THEN myOpen[c][k] ELSE myRows[k]]
      BY <3>2
    <3> QED BY <3>1, <3>2 DEF EndGroup
  <2>3. myRows' \in [Keys -> Int] BY <2>1, <2>2, RowsTyped DEF DataFits
  <2> QED BY <2>1, <2>3, OpenEmptied DEF DataFits, EndGroup, CommitFails
<1>6. PICK out, kept :
        /\ myClient' = [myClient EXCEPT ![c].at = "next", ![c].out = out, ![c].kept = @ \cup kept]
        /\ \/ me.poisoned /\ out = Told(me, me.left, "busy") /\ kept = {}
           \/ /\ ~me.poisoned /\ me.left = {} /\ out = me.out
              /\ kept = IF me.kind \in {"batch", "atomic"} THEN good ELSE {}
           \/ /\ ~me.poisoned /\ me.left = {} /\ me.kind \in {"batch", "atomic"}
              /\ \E what \in {"timeout", "error"} : out = Told(me, Positions(me), what)
              /\ kept \in {{}, good}
  <2>1. CASE EndGroup(c) /\ me.poisoned BY <2>1 DEF EndGroup, Settle, Me
  <2>2. CASE EndGroup(c) /\ ~me.poisoned
    BY <1>2, <2>2 DEF EndGroup, Settle, Me, InTransaction, Committed
  <2>3. CASE CommitFails(c)
    <3>1. PICK what \in {"timeout", "error"}, landed \in BOOLEAN :
             Settle(c, Told(me, Positions(me), what), IF landed THEN Committed(c) ELSE {})
      BY <2>3 DEF CommitFails, Me
    <3>2. Committed(c) = good BY DEF Committed, Me
    <3> QED BY <1>2, <2>3, <3>1, <3>2 DEF Settle, CommitFails, InTransaction, Me
  <2> QED BY <2>1, <2>2, <2>3
<1>7. /\ out \in Seq(Answers) /\ DOMAIN out = DOMAIN me.out
      /\ me.kept \cup kept \in SUBSET Nat
  <2>1. me.out \in Seq(Answers) /\ me.kept \in SUBSET Nat /\ good \in SUBSET Nat BY <1>1, Parts
  <2>2. {"busy", "timeout", "error"} \subseteq Answers BY DEF Answers
  <2>3. out \in Seq(Answers) /\ DOMAIN out = DOMAIN me.out BY <1>6, <2>1, <2>2, ToldFacts
  <2> QED BY <1>6, <2>1, <2>3
<1> DEFINE keeps == me.kept \cup kept
           new == [me EXCEPT !.at = "next", !.out = out, !.kept = keeps]
<1>8. Replaces(myClient, c, new, myClient') BY <1>6 DEF Replaces
<1> HIDE DEF keeps, me
<1>9. /\ new \in Records /\ new.kind = me.kind /\ new.at = "next" /\ new.stmts = me.stmts
      /\ new.groups = me.groups /\ new.out = out /\ new.kept = keeps
  BY <1>1, <1>7 DEF Records, keeps
<1> HIDE DEF new
<1>10. SameCall(me, new) /\ ~Holding(new) BY <1>7, <1>9 DEF SameCall, Holding
<1>11. Fits(new) BY <1>1, <1>2, <1>6, <1>9, <1>10, EndedFits DEF keeps
<1> QED BY <1>3, <1>4, <1>5, <1>8, <1>10, <1>11, ClientGives

LEMMA ReturnSteps ==
  ASSUME StoreIInv, NEW c \in Clients, Return(c) \/ Proceed(c), mySize' = mySize
  PROVE  StoreIInv'
<1> DEFINE me == myClient[c]
           whole == me.kind \in {"atomic", "loads"} /\ {i \in DOMAIN me.out : me.out[i] # "ok"} # {}
           out == IF whole THEN Told(me, DOMAIN me.out, "failed") ELSE me.out
<1>1. Fits(me) /\ me \in Records BY Mine
<1>2. UNCHANGED <<myRows, myOpen, myIdle, myInUse>> BY DEF Return, Proceed
<1>3. CASE Proceed(c)
  <2>1. ~Holding(Resting) BY DEF Resting, Holding
  <2>2. DataFits' BY <1>2, <1>3 DEF Proceed, StoreIInv, DataFits
  <2> QED BY <1>2, <1>3, <2>1, <2>2, RestingFits, ClientMoves DEF Proceed, Replaces, Me, Holding
<1>4. CASE Return(c)
  <2>1. me.at = "next" /\ (me.groups = {} \/ me.kind = "loads")
    BY <1>4 DEF Return, Me, Group, Stopped
  <2>2. out \in Seq(Answers) /\ DOMAIN out = DOMAIN me.out BY <1>1, Parts, ToldFacts DEF Answers
  <2> DEFINE new == [me EXCEPT !.at = "told", !.groups = {}, !.out = out]
  <2>3. Replaces(myClient, c, new, myClient') BY <1>4 DEF Replaces, Return, Me
  <2>4. ~Holding(myClient[c]) BY <2>1 DEF Holding
  <2>5. DataFits'
    <3>1. \A i \in DOMAIN me.stmts : me.stmts[i].base \in Int
      <4>1. \A i \in DOMAIN me.stmts : me.stmts[i] \in Statements BY <1>1, Parts
      <4> QED BY <4>1 DEF Statements
    <3>2. mySeen \in [Clients -> [Keys -> Int]] BY DEF StoreIInv, DataFits
    <3>3. CASE mySeen' = mySeen BY <1>2, <3>3 DEF StoreIInv, DataFits
    <3>4. CASE mySeen' = [mySeen EXCEPT ![c] = [k \in Keys |-> IF \E i \in DOMAIN me.stmts : me.stmts[i].key = k
                                              THEN me.stmts[CHOOSE i \in DOMAIN me.stmts : me.stmts[i].key = k].base ELSE @[k]]]
      <4> DEFINE found == [k \in Keys |-> IF \E i \in DOMAIN me.stmts : me.stmts[i].key = k
                              THEN me.stmts[CHOOSE i \in DOMAIN me.stmts : me.stmts[i].key = k].base ELSE mySeen[c][k]]
      <4>1. found \in [Keys -> Int] BY <3>1, <3>2
      <4>2. mySeen' = [mySeen EXCEPT ![c] = found] BY <3>4
      <4> HIDE DEF found
      <4> QED BY <1>2, <3>2, <4>1, <4>2 DEF StoreIInv, DataFits
    <3> QED BY <1>4, <3>3, <3>4 DEF Return, Me
  <2> HIDE DEF out, me
  <2>6. /\ new \in Records /\ new.kind = me.kind /\ new.at = "told" /\ new.stmts = me.stmts
        /\ new.groups = {} /\ new.out = out /\ new.kept = me.kept
    BY <1>1, <2>2 DEF Records
  <2> HIDE DEF new
  <2>7. SameCall(me, new) /\ ~Holding(new) BY <2>2, <2>6 DEF SameCall, Holding
  <2>8. Fits(new) BY <1>1, <2>1, <2>6, <2>7, ReturnedFits DEF out
  <2> QED BY <1>2, <2>3, <2>4, <2>5, <2>7, <2>8, ClientMoves
<1> QED BY <1>3, <1>4

(* Statements on the server.                                                *)
LEMMA NextStatement ==
  ASSUME StoreIInv, NEW c \in Clients, More(c)
  PROVE  /\ myClient[c].at = "leased" /\ ~myClient[c].poisoned /\ Here(c) \in myClient[c].left
         /\ Here(c) \in DOMAIN myClient[c].stmts /\ myClient[c].stmts[Here(c)] \in Statements
         /\ DOMAIN myClient[c].out = DOMAIN myClient[c].stmts
<1> DEFINE me == myClient[c]
<1>1. Fits(me) /\ me \in Records BY Mine
<1>2. me.at = "leased" /\ ~me.poisoned /\ me.left # {} BY DEF More, Me
<1>3. me.left \in SUBSET Nat /\ me.stmts \in Seq(Statements) /\ Positions(me) \subseteq DOMAIN me.stmts
  BY <1>1, Parts
<1>4. Here(c) \in me.left BY <1>2, <1>3, LowestOf DEF Here, Me
<1>5. me.left \subseteq Positions(me) /\ DOMAIN me.out = DOMAIN me.stmts
  BY <1>1, <1>2 DEF Fits, GroupsFit, Holding
<1> QED BY <1>2, <1>3, <1>4, <1>5

(* Any answer: what a client becomes when the next statement is answered.   *)
LEMMA AnswerMoves ==
  ASSUME StoreIInv, NEW c \in Clients, More(c), NEW what \in Answers, NEW poisoned \in BOOLEAN, NEW broken \in BOOLEAN, NEW kept,
         \/ kept = myClient[c].kept
         \/ kept = {Here(c)} /\ what = "ok" /\ myClient[c].kind \notin {"batch", "atomic"},
         myClient[c].kind = "atomic" => (poisoned <=> what # "ok"),
         myClient[c].kind = "one" /\ what = "ok"
           /\ myClient[c].stmts[Here(c)].how \notin {"select", "delete", "guardedDelete"} => kept = {Here(c)},
         myClient' = [myClient EXCEPT ![c] = [myClient[c] EXCEPT !.out = [myClient[c].out EXCEPT ![Here(c)] = what],
                        !.left = myClient[c].left \ {Here(c)}, !.poisoned = poisoned, !.broken = broken, !.kept = kept]],
         DataFits', UNCHANGED <<mySize, myIdle, myInUse>>
  PROVE  StoreIInv'
<1> DEFINE me == myClient[c]
           i == Here(c)
           out == [me.out EXCEPT ![i] = what]
           left == me.left \ {i}
           new == [me EXCEPT !.out = out, !.left = left, !.poisoned = poisoned, !.broken = broken, !.kept = kept]
<1>1. Fits(me) /\ me \in Records BY Mine
<1>2. me.at = "leased" /\ ~me.poisoned /\ i \in me.left /\ i \in DOMAIN me.stmts /\ DOMAIN me.out = DOMAIN me.stmts
  BY NextStatement
<1>3. me.out \in Seq(Answers) /\ me.left \in SUBSET Nat /\ me.kept \in SUBSET Nat BY <1>1, Parts
<1>4. Replaces(myClient, c, new, myClient') BY DEF Replaces
<1> HIDE DEF i
<1>5. out \in Seq(Answers) /\ DOMAIN out = DOMAIN me.out BY <1>2, <1>3
<1>6. left \in SUBSET Nat /\ kept \in SUBSET Nat BY <1>2, <1>3 DEF i
<1>7. /\ kept = me.kept \/ (kept = {i} /\ what = "ok" /\ me.kind \notin {"batch", "atomic"})
      /\ me.kind = "atomic" => (poisoned <=> what # "ok")
      /\ me.kind = "one" /\ what = "ok" /\ me.stmts[i].how \notin {"select", "delete", "guardedDelete"} => kept = {i}
  BY DEF i
<1> HIDE DEF me, out, left
<1>8. /\ new \in Records /\ new.kind = me.kind /\ new.at = me.at /\ new.stmts = me.stmts
      /\ new.groups = me.groups /\ new.shard = me.shard /\ new.left = left
      /\ (new.poisoned <=> poisoned) /\ new.out = out /\ new.kept = kept
  BY <1>1, <1>5, <1>6 DEF Records
<1> HIDE DEF new
<1>9. SameCall(me, new) /\ Holding(new) /\ Holding(me) /\ new.at = "leased"
  BY <1>2, <1>5, <1>8 DEF SameCall, Holding
<1>10. Fits(new) BY <1>1, <1>2, <1>7, <1>8, <1>9, AnsweredFits DEF left, out
<1> QED BY <1>4, <1>8, <1>9, <1>10, ClientMoves DEF me

LEMMA AnswerForm ==
  ASSUME StoreIInv, NEW c \in Clients, More(c), NEW what \in Answers, Answer(c, what)
  PROVE  \E poisoned, broken \in BOOLEAN :
           /\ poisoned <=> what \in {"busy", "timeout"} \/ (myClient[c].kind \in {"atomic", "loads"} /\ what # "ok")
           /\ myClient' = [myClient EXCEPT ![c] = [myClient[c] EXCEPT !.out = [myClient[c].out EXCEPT ![Here(c)] = what],
                        !.left = myClient[c].left \ {Here(c)}, !.poisoned = poisoned, !.broken = broken, !.kept = myClient[c].kept]]
<1> DEFINE me == myClient[c]
           i == Here(c)
           poisoned == what \in {"busy", "timeout"} \/ (me.kind \in {"atomic", "loads"} /\ what # "ok")
           broken == what = "timeout"
<1>1. me \in Records BY Mine
<1>2. myClient' = [myClient EXCEPT ![c].out[i] = what, ![c].left = @ \ {i}, ![c].poisoned = poisoned, ![c].broken = broken]
  BY DEF Answer, Me
<1>3. poisoned \in BOOLEAN /\ broken \in BOOLEAN OBVIOUS
<1> HIDE DEF poisoned, broken, i
<1> DEFINE new == [me EXCEPT !.out = [me.out EXCEPT ![i] = what], !.left = me.left \ {i}, !.poisoned = poisoned, !.broken = broken]
           same == [me EXCEPT !.out = [me.out EXCEPT ![i] = what], !.left = me.left \ {i}, !.poisoned = poisoned, !.broken = broken,
                              !.kept = me.kept]
<1>4. new = same BY <1>1 DEF Records
<1>5. myClient' = [myClient EXCEPT ![c] = same] BY <1>2, <1>4
<1> QED BY <1>3, <1>5 DEF poisoned, i

LEMMA AnswerSteps ==
  ASSUME StoreIInv, NEW c \in Clients, More(c), NEW what \in Answers, Answer(c, what),
         what = "ok" /\ myClient[c].kind = "one" => myClient[c].stmts[Here(c)].how \in {"select", "delete", "guardedDelete"},
         DataFits', UNCHANGED <<mySize, myIdle, myInUse>>
  PROVE  StoreIInv'
<1>1. PICK poisoned \in BOOLEAN, broken \in BOOLEAN :
        /\ poisoned <=> what \in {"busy", "timeout"} \/ (myClient[c].kind \in {"atomic", "loads"} /\ what # "ok")
        /\ myClient' = [myClient EXCEPT ![c] = [myClient[c] EXCEPT !.out = [myClient[c].out EXCEPT ![Here(c)] = what],
                          !.left = myClient[c].left \ {Here(c)}, !.poisoned = poisoned, !.broken = broken, !.kept = myClient[c].kept]]
  BY AnswerForm
<1> QED BY <1>1, AnswerMoves

LEMMA StatementData ==
  ASSUME StoreIInv, NEW c \in Clients, NEW st \in Statements
  PROVE  st.key \in Keys /\ Written(st) \in Int /\ View(c, st.key) \in Int
<1>1. st.key \in Keys /\ st.new \in Int BY DEF Statements
<1>2. View(c, st.key) \in Int BY <1>1 DEF View, StoreIInv, DataFits
<1> QED BY <1>1, <1>2 DEF Written, NoRow

LEMMA OpenGrows ==
  ASSUME DataFits, NEW c \in Clients, NEW st, Written(st) \in Int, myOpen' = [myOpen EXCEPT ![c] = Holds(@, st)]
  PROVE  DOMAIN myOpen' = Clients /\ \A d \in Clients : \A j \in DOMAIN myOpen'[d] : myOpen'[d][j] \in Int
<1>1. \A j \in DOMAIN Holds(myOpen[c], st) : Holds(myOpen[c], st)[j] \in Int
  BY DEF Holds, DataFits
<1> QED BY <1>1 DEF DataFits

LEMMA RunSteps ==
  ASSUME StoreIInv, NEW c \in Clients, StatementRuns(c), mySize' = mySize
  PROVE  StoreIInv'
<1> DEFINE i == Here(c)
           st == myClient[c].stmts[i]
           row == View(c, st.key)
<1>1. More(c) /\ UNCHANGED <<myIdle, myInUse>> BY DEF StatementRuns
<1>2. st.key \in Keys /\ Written(st) \in Int /\ row \in Int
  BY <1>1, NextStatement, StatementData
<1>3. DataFits BY DEF StoreIInv
<1>4. CASE st.how = "select" /\ mySeen' = [mySeen EXCEPT ![c][st.key] = IF row = NoRow THEN 0 ELSE row]
           /\ Answer(c, "ok") /\ UNCHANGED <<myRows, myOpen>>
  <2> DEFINE v == IF row = NoRow THEN 0 ELSE row
  <2>1. v \in Int BY <1>2
  <2>2. mySeen' = [mySeen EXCEPT ![c][st.key] = v] BY <1>4
  <2> HIDE DEF v
  <2>3. DataFits' BY <1>2, <1>3, <1>4, <2>1, <2>2 DEF DataFits
  <2> QED BY <1>1, <1>4, <2>3, AnswerSteps DEF Answers
<1>5. CASE Answer(c, "conflict") /\ UNCHANGED <<myRows, myOpen, mySeen>>
  BY <1>1, <1>3, <1>5, AnswerSteps DEF DataFits, Answers
<1>8. CASE myClient' = [myClient EXCEPT ![c].out[i] = "unmatched"] /\ UNCHANGED <<myRows, myOpen, mySeen>>
  <2> DEFINE me == myClient[c]
             out == [me.out EXCEPT ![i] = "unmatched"]
             new == [me EXCEPT !.out = out]
  <2>1. Fits(me) /\ me \in Records BY Mine
  <2>2. me.at = "leased" /\ i \in me.left /\ i \in DOMAIN me.stmts /\ DOMAIN me.out = DOMAIN me.stmts
    BY <1>1, NextStatement
  <2>3. me.out \in Seq(Answers) /\ "unmatched" \in Answers BY <2>1, Parts DEF Answers
  <2>4. Replaces(myClient, c, new, myClient') BY <1>8 DEF Replaces
  <2> HIDE DEF i
  <2>5. out \in Seq(Answers) /\ DOMAIN out = DOMAIN me.out BY <2>2, <2>3
  <2> HIDE DEF me, out
  <2>6. /\ new \in Records /\ new.kind = me.kind /\ new.at = me.at /\ new.stmts = me.stmts
        /\ new.groups = me.groups /\ new.shard = me.shard /\ new.left = me.left
        /\ new.poisoned = me.poisoned /\ new.out = out /\ new.kept = me.kept
    BY <2>1, <2>5 DEF Records
  <2> HIDE DEF new
  <2>7. SameCall(me, new) /\ Holding(new) /\ Holding(me) /\ new.at = "leased"
    BY <2>2, <2>5, <2>6 DEF SameCall, Holding
  <2>8. Fits(new) BY <2>1, <2>2, <2>6, <2>7, AskedFits DEF out
  <2>9. DataFits' BY <1>3, <1>8 DEF DataFits
  <2> QED BY <1>1, <2>4, <2>6, <2>7, <2>8, <2>9, ClientMoves DEF me
<1>6. CASE InTransaction(c) /\ Answer(c, "ok") /\ UNCHANGED <<myRows, mySeen>>
           /\ myOpen' = [myOpen EXCEPT ![c] = Holds(@, st)]
  <2>1. DataFits' BY <1>2, <1>3, <1>6, OpenGrows DEF DataFits
  <2> QED BY <1>1, <1>6, <2>1, AnswerSteps DEF InTransaction, Me, Answers
<1>7. CASE ~InTransaction(c) /\ myRows' = [myRows EXCEPT ![st.key] = Written(st)] /\ UNCHANGED <<myOpen, mySeen>>
           /\ myClient' = [myClient EXCEPT ![c].out[i] = "ok", ![c].left = @ \ {i}, ![c].kept = {i}]
  <2> DEFINE me == myClient[c]
             new == [me EXCEPT !.out = [me.out EXCEPT ![i] = "ok"], !.left = me.left \ {i}, !.kept = {i}]
             same == [me EXCEPT !.out = [me.out EXCEPT ![i] = "ok"], !.left = me.left \ {i}, !.poisoned = me.poisoned,
                                !.broken = me.broken, !.kept = {i}]
  <2>1. me \in Records BY Mine
  <2>2. DataFits' BY <1>2, <1>3, <1>7 DEF DataFits
  <2>3. me.kind \notin {"batch", "atomic"} /\ "ok" \in Answers
    BY <1>7 DEF InTransaction, Me, Answers
  <2> HIDE DEF i, st, row
  <2>4. new = same BY <2>1 DEF Records
  <2>5. myClient' = [myClient EXCEPT ![c] = same] BY <1>7, <2>4
  <2>6. me.poisoned \in BOOLEAN /\ me.broken \in BOOLEAN BY <2>1, Zenon DEF Records
  <2> QED BY <1>1, <2>2, <2>3, <2>5, <2>6, AnswerMoves DEF i
<1> QED BY <1>4, <1>5, <1>6, <1>7, <1>8 DEF StatementRuns, Me

LEMMA ExistsSteps ==
  ASSUME StoreIInv, NEW c \in Clients, ExistsRuns(c), mySize' = mySize
  PROVE  StoreIInv'
<1> DEFINE st == myClient[c].stmts[Here(c)]
<1>1. More(c) /\ st.how = "guardedDelete" /\ UNCHANGED <<myRows, myOpen, myIdle, myInUse, mySeen>>
  BY DEF ExistsRuns, Me
<1>2. PICK what \in {"ok", "conflict"} : Answer(c, what) BY DEF ExistsRuns, Me
<1>3. what \in Answers BY DEF Answers
<1> QED BY <1>1, <1>2, <1>3, AnswerSteps DEF StoreIInv, DataFits

LEMMA FailSteps ==
  ASSUME StoreIInv, NEW c \in Clients, NEW what \in {"busy", "timeout", "error"}, StatementFails(c, what), mySize' = mySize
  PROVE  StoreIInv'
<1> DEFINE st == myClient[c].stmts[Here(c)]
<1>1. More(c) /\ UNCHANGED <<myIdle, myInUse, mySeen>> /\ Answer(c, what) BY DEF StatementFails
<1>2. st.key \in Keys /\ Written(st) \in Int BY <1>1, NextStatement, StatementData
<1>3. DataFits BY DEF StoreIInv
<1>4. myRows' \in [Keys -> Int] BY <1>2, <1>3 DEF DataFits, StatementFails, Me
<1>5. DataFits' BY <1>1, <1>3, <1>4, OpenEmptied DEF DataFits, StatementFails
<1> QED BY <1>1, <1>5, AnswerSteps DEF Answers

LEMMA SelectSteps ==
  ASSUME StoreIInv, NEW c \in Clients, SelectRuns(c), mySize' = mySize
  PROVE  StoreIInv'
<1> DEFINE me == myClient[c]
           out == Told(me, Positions(me), "ok")
           stmts == [i \in DOMAIN me.stmts |-> IF i \notin Positions(me) \/ myRows[me.stmts[i].key] = NoRow THEN me.stmts[i]
                                               ELSE [me.stmts[i] EXCEPT !.base = myRows[me.stmts[i].key]]]
           new == [me EXCEPT !.out = out, !.left = {}, !.stmts = stmts]
<1>1. Fits(me) /\ me \in Records BY Mine
<1>2. me.at = "leased" /\ me.kind = "loads" /\ UNCHANGED <<myRows, myOpen, myIdle, myInUse, mySeen>>
  BY DEF SelectRuns, More, Me
<1>3. myClient' = [myClient EXCEPT ![c] = new] BY DEF SelectRuns, Me
<1>4. out \in Seq(Answers) /\ DOMAIN out = DOMAIN me.out BY <1>1, Parts, ToldFacts DEF Answers
<1>5. \A i \in DOMAIN me.stmts : me.stmts[i] \in Statements BY <1>1, Parts
<1>6. ASSUME NEW i \in DOMAIN me.stmts
      PROVE  stmts[i] \in Statements /\ stmts[i].key = me.stmts[i].key /\ stmts[i].how = me.stmts[i].how
  <2> DEFINE st == me.stmts[i]
  <2>1. st \in Statements BY <1>5
  <2>2. myRows[st.key] \in Int BY <2>1 DEF StoreIInv, DataFits, Statements
  <2>3. stmts[i] = st \/ stmts[i] = [st EXCEPT !.base = myRows[st.key]] OBVIOUS
  <2> HIDE DEF st, stmts
  <2> QED BY <2>1, <2>2, <2>3 DEF st, Statements
<1>7. stmts \in Seq(Statements) /\ DOMAIN stmts = DOMAIN me.stmts
  <2>1. PICK n \in Nat : DOMAIN me.stmts = 1..n BY <1>1, Parts
  <2>2. stmts = [i \in 1..n |-> stmts[i]] /\ DOMAIN stmts = DOMAIN me.stmts BY <2>1
  <2> HIDE DEF stmts
  <2> QED BY <1>6, <2>1, <2>2, SeqDef
<1>8. Replaces(myClient, c, new, myClient') BY <1>3 DEF Replaces
<1> HIDE DEF out, stmts, me
<1>9. /\ new \in Records /\ new.kind = me.kind /\ new.at = me.at /\ new.stmts = stmts
      /\ new.groups = me.groups /\ new.shard = me.shard /\ new.left = {} /\ new.out = out /\ new.kept = me.kept
  BY <1>1, <1>4, <1>7 DEF Records
<1> HIDE DEF new
<1>10. SameCall(me, new) /\ Holding(new) /\ Holding(me)
  BY <1>2, <1>4, <1>6, <1>7, <1>9 DEF SameCall, Holding
<1>11. Fits(new) BY <1>1, <1>2, <1>9, <1>10, ReadFits DEF out
<1>12. Holding(myClient[c]) /\ new.shard = myClient[c].shard BY <1>9, <1>10 DEF me
<1> QED BY <1>2, <1>8, <1>10, <1>11, <1>12, ClientMoves DEF StoreIInv, DataFits

LEMMA StoreStarts == MySqlInit => StoreIInv
<1> SUFFICES ASSUME MySqlInit PROVE StoreIInv OBVIOUS
<1>1. /\ myRows \in {[k \in Keys |-> v] : v \in {NoRow, 1}} /\ myOpen = [c \in Clients |-> <<>>]
      /\ myIdle = [s \in Shards |-> 1] /\ myInUse = [s \in Shards |-> 0]
      /\ myClient = [c \in Clients |-> Resting] /\ mySize \in PoolSizes
      /\ mySeen = [c \in Clients |-> [k \in Keys |-> IF myRows[k] = NoRow THEN 0 ELSE myRows[k]]]
  BY DEF MySqlInit
<1>2. mySize \in Nat \ {0} BY <1>1, MySqlAssumption
<1>3. myRows \in [Keys -> Int] BY <1>1 DEF NoRow
<1>4. DataFits BY <1>1, <1>2, <1>3 DEF DataFits
<1>5. Cardinality({}) = 0 BY FS_EmptySet
<1>6. PoolsFit(myClient, myIdle, myInUse)
  <2>1. \A s \in Shards : myIdle[s] = 1 /\ myInUse[s] = 0 /\ 1 + 0 <= mySize BY <1>1, <1>2
  <2>2. \A s \in Shards : myInUse[s] = Cardinality(Holders(myClient, s))
    BY <1>1, <1>5, <2>1 DEF Holders, Holding, Resting
  <2> QED BY <1>1, <2>1, <2>2 DEF PoolsFit
<1> QED BY <1>1, <1>4, <1>6, RestingFits DEF StoreIInv, ClientsFit

LEMMA StoreSteps == StoreIInv /\ [StoreNext]_storeVars => StoreIInv'
<1> SUFFICES ASSUME StoreIInv, [StoreNext]_storeVars PROVE StoreIInv' OBVIOUS
<1>1. CASE UNCHANGED storeVars BY <1>1 DEF storeVars, StoreIInv, ClientsFit, DataFits, PoolsFit
<1>2. CASE StoreNext
  <2>1. mySize' = mySize BY <1>2 DEF StoreNext
  <2>2. PICK c \in Clients :
          \/ \E k \in Keys : Load(c, k)
          \/ \E ks \in Batches : BatchLoad(c, ks)
          \/ \E k \in Keys, required \in BOOLEAN : Save(c, k, required) \/ Delete(c, k, required)
          \/ \E ks \in Batches : BatchSave(c, ks) \/ SaveAtomic(c, ks)
          \/ \E g \in Group(c) : Acquire(c, g) \/ AcquireTimesOut(c, g)
          \/ Connected(c) \/ StatementRuns(c) \/ ExistsRuns(c) \/ SelectRuns(c)
          \/ \E what \in {"busy", "timeout", "error"} : StatementFails(c, what)
          \/ EndGroup(c) \/ CommitFails(c) \/ Return(c) \/ Proceed(c)
    BY <1>2 DEF StoreNext
  <2>3. CASE \E k \in Keys : Load(c, k) \/ \E required \in BOOLEAN : Save(c, k, required) \/ Delete(c, k, required)
    BY <2>1, <2>3, SingleCalls
  <2>4. CASE \E ks \in Batches : BatchLoad(c, ks) \/ BatchSave(c, ks) \/ SaveAtomic(c, ks)
    BY <2>1, <2>4, BatchCalls
  <2>5. CASE \E g \in Group(c) : Acquire(c, g) \/ AcquireTimesOut(c, g)
    BY <2>1, <2>5, AcquireSteps, WaitSteps
  <2>6. CASE Connected(c) \/ StatementRuns(c) \/ ExistsRuns(c) \/ SelectRuns(c)
    BY <2>1, <2>6, ConnectSteps, RunSteps, ExistsSteps, SelectSteps
  <2>7. CASE \E what \in {"busy", "timeout", "error"} : StatementFails(c, what)
    BY <2>1, <2>7, FailSteps
  <2>8. CASE EndGroup(c) \/ CommitFails(c) \/ Return(c) \/ Proceed(c)
    BY <2>1, <2>8, EndSteps, ReturnSteps
  <2> QED BY <2>2, <2>3, <2>4, <2>5, <2>6, <2>7, <2>8
<1> QED BY <1>1, <1>2

LEMMA StoreSafe == StoreIInv => PoolIsExact /\ AtomicIsAtomic
<1> SUFFICES ASSUME StoreIInv PROVE PoolIsExact /\ AtomicIsAtomic OBVIOUS
<1>1. PoolIsExact BY DEF StoreIInv, PoolsFit, PoolIsExact, Holders, Holding, Me
<1>2. AtomicIsAtomic
  <2> SUFFICES ASSUME NEW c \in Clients, Me(c).at = "told"
               PROVE  /\ Me(c).kind = "atomic" => Me(c).kept \in {{}, DOMAIN Me(c).stmts}
                      /\ Me(c).kind \in {"atomic", "one"} => \A i \in DOMAIN Me(c).out :
                            Me(c).out[i] = "ok" /\ Me(c).stmts[i].how \notin {"select", "delete", "guardedDelete"} => i \in Me(c).kept
                      /\ \A i \in Me(c).kept : Me(c).out[i] # "conflict"
    BY DEF AtomicIsAtomic
  <2> DEFINE me == Me(c)
  <2>1. GroupsFit(me) /\ AtomicFits(me) /\ OneFits(me) BY DEF Me, StoreIInv, ClientsFit, Fits
  <2> HIDE DEF me
  <2>2. me.kind = "atomic" => me.kept \in {{}, DOMAIN me.stmts} /\ \A i \in DOMAIN me.stmts : me.out[i] = "ok" => i \in me.kept
    BY <2>1 DEF AtomicFits, me
  <2>3. me.kind = "one" => \A i \in DOMAIN me.stmts :
             me.out[i] = "ok" /\ me.stmts[i].how \notin {"select", "delete", "guardedDelete"} => i \in me.kept
    BY <2>1 DEF OneFits
  <2> QED BY <2>1, <2>2, <2>3 DEF me, GroupsFit
<1> QED BY <1>1, <1>2

------------------------------------------------------------------------------
(* MySql.  Migrations: the statements of the lowest version a runner has    *)
(* left have run up to the next one.                                        *)
OneRunner == \A q, r \in Runners : q = r

Runs == [at : {"rest", "files"}, todo : SUBSET Versions, next : Nat]
MigrationTypes ==
  /\ myReg \in [Versions -> {"none", "applied", "failed"}] /\ myRan \in [Versions -> Nat]
  /\ myRunner \in [Runners -> Runs]
RunSoFar(run, ran) ==
  run.at = "files" /\ run.todo # {} =>
    /\ run.next >= 1 /\ run.next <= MigrationFiles[Lowest(run.todo)] + 1
    /\ ran[Lowest(run.todo)] >= run.next - 1
MigrateIInv ==
  /\ MigrationTypes /\ AppliedHasRun
  /\ \A v \in Versions : myRan[v] <= MigrationFiles[v]
  /\ \A r \in Runners : RunSoFar(myRunner[r], myRan)
FilesNotApplied == \A r \in Runners : myRunner[r].at = "files" =>
                      \A v \in myRunner[r].todo : myReg[v] # "applied"

LEMMA LowestFile ==
  ASSUME MigrationTypes, NEW r \in Runners, myRunner[r].todo # {}
  PROVE  /\ Lowest(myRunner[r].todo) \in myRunner[r].todo /\ Lowest(myRunner[r].todo) \in Versions
         /\ MigrationFiles[Lowest(myRunner[r].todo)] \in Nat
<1>1. myRunner[r].todo \in SUBSET Versions BY DEF MigrationTypes, Runs
<1>2. Versions \in SUBSET Nat /\ \A v \in Versions : MigrationFiles[v] \in Nat
  BY MySqlAssumption DEF Versions
<1> QED BY <1>1, <1>2, LowestOf

LEMMA MigrateStarts == MySqlInit => MigrateIInv /\ FilesNotApplied
<1> SUFFICES ASSUME MySqlInit PROVE MigrateIInv /\ FilesNotApplied OBVIOUS
<1>1. /\ myReg = [v \in Versions |-> "none"] /\ myRan = [v \in Versions |-> 0]
      /\ myRunner = [r \in Runners |-> [at |-> "rest", todo |-> {}, next |-> 1]]
  BY DEF MySqlInit, Versions
<1> QED
  BY <1>1, MySqlAssumption DEF MigrateIInv, MigrationTypes, Runs, AppliedHasRun, RunSoFar,
     FilesNotApplied, Versions

(* A run that is replaced while the registry may grow.                      *)
RunReplaced(r, run) == myRunner' = [myRunner EXCEPT ![r] = run]
FilesAdvance ==
  \A v \in Versions :
    /\ myRan'[v] >= myRan[v] /\ myRan'[v] <= MigrationFiles[v]
    /\ myReg'[v] = "applied" /\ myReg[v] # "applied" => myRan'[v] = MigrationFiles[v]

LEMMA RunnerMoves ==
  ASSUME MigrateIInv, NEW r \in Runners, NEW run \in Runs, RunReplaced(r, run), MigrationTypes',
         FilesAdvance, RunSoFar(run, myRan')
  PROVE  MigrateIInv'
<1> USE DEF RunReplaced, FilesAdvance
<1>1. \A v \in Versions : MigrationFiles[v] \in Nat /\ myRan[v] \in Nat /\ myRan'[v] \in Nat
  BY MySqlAssumption DEF Versions, MigrateIInv, MigrationTypes
<1>2. ASSUME NEW q \in Runners PROVE RunSoFar(myRunner'[q], myRan')
  <2>1. CASE q = r BY <2>1 DEF RunSoFar, MigrateIInv, MigrationTypes
  <2>2. CASE q # r
    <3>1. SUFFICES ASSUME myRunner[q].at = "files", myRunner[q].todo # {}
                   PROVE  /\ myRunner[q].next >= 1 /\ myRunner[q].next <= MigrationFiles[Lowest(myRunner[q].todo)] + 1
                          /\ myRan'[Lowest(myRunner[q].todo)] >= myRunner[q].next - 1
      BY <2>2 DEF RunSoFar, MigrateIInv, MigrationTypes
    <3>2. MigrationTypes /\ RunSoFar(myRunner[q], myRan) BY DEF MigrateIInv
    <3>3. myRunner[q].next \in Nat BY <3>2 DEF MigrationTypes, Runs
    <3> QED BY <1>1, <3>1, <3>2, <3>3, LowestFile DEF RunSoFar
  <2> QED BY <2>1, <2>2
<1> QED BY <1>1, <1>2 DEF MigrateIInv, AppliedHasRun

(* Each action of a runner.                                                 *)
LEMMA RunnerSteps ==
  ASSUME MigrateIInv, NEW r \in Runners,
         UpBegins(r) \/ MigrationStatement(r) \/ MigrationRecorded(r) \/ UpEnds(r)
  PROVE  MigrateIInv'
<1> DEFINE run == myRunner[r]
           v == Lowest(run.todo)
<1>1. MigrationTypes /\ run \in Runs /\ RunSoFar(run, myRan)
  BY DEF MigrateIInv, MigrationTypes, Runs
<1>2. run.at \in {"rest", "files"} /\ run.next \in Nat /\ run.todo \in SUBSET Versions
  BY <1>1 DEF Runs
<1>3. \A w \in Versions : MigrationFiles[w] \in Nat /\ myRan[w] \in Nat /\ myRan[w] <= MigrationFiles[w]
  BY <1>1, MySqlAssumption DEF Versions, MigrateIInv, MigrationTypes
<1>4. run.todo # {} => v \in run.todo /\ v \in Versions BY <1>1, LowestFile
<1>5. CASE UpBegins(r)
  <2> DEFINE new == [at |-> "files", todo |-> {w \in Versions : myReg[w] # "applied"}, next |-> 1]
  <2>1. new \in Runs BY DEF Runs
  <2>2. myRunner' = [myRunner EXCEPT ![r] = new] /\ myReg' = myReg /\ myRan' = myRan
    BY <1>5 DEF UpBegins
  <2>3. RunSoFar(new, myRan')
    <3>1. new.todo # {} => Lowest(new.todo) \in Versions
      <4>1. Versions \in SUBSET Nat BY MySqlAssumption DEF Versions
      <4>2. new.todo \in SUBSET Versions OBVIOUS
      <4> HIDE DEF new
      <4> QED BY <4>1, <4>2, LowestOf
    <3>2. new.next = 1 OBVIOUS
    <3> HIDE DEF new
    <3> QED BY <1>3, <2>2, <3>1, <3>2 DEF RunSoFar
  <2>4. MigrationTypes' BY <1>1, <2>1, <2>2 DEF MigrationTypes, Runs
  <2> HIDE DEF new
  <2>5. RunReplaced(r, new) /\ FilesAdvance BY <1>3, <2>2 DEF RunReplaced, FilesAdvance
  <2> QED BY <2>1, <2>3, <2>4, <2>5, RunnerMoves
<1>6. CASE MigrationStatement(r)
  <2>1. run.todo # {} /\ run.next <= MigrationFiles[v] /\ v \in Versions /\ run.at = "files"
    BY <1>4, <1>6 DEF MigrationStatement, Run
  <2>2. CASE /\ myRan' = [myRan EXCEPT ![v] = IF @ >= run.next THEN @ ELSE run.next]
             /\ myRunner' = [myRunner EXCEPT ![r].next = @ + 1] /\ UNCHANGED <<myReg, myMigFaults>>
    <3> DEFINE new == [run EXCEPT !.next = run.next + 1]
    <3>1. new \in Runs /\ new.todo = run.todo /\ new.next = run.next + 1 BY <1>1, <1>2 DEF Runs
    <3>2. myRunner' = [myRunner EXCEPT ![r] = new] /\ myReg' = myReg BY <2>2
    <3> HIDE DEF new
    <3> DEFINE n == IF myRan[v] >= run.next THEN myRan[v] ELSE run.next
    <3>3. n \in Nat /\ n >= myRan[v] /\ n <= MigrationFiles[v] /\ n >= run.next
      BY <1>2, <1>3, <2>1
    <3>4. myRan' = [myRan EXCEPT ![v] = n] BY <2>2
    <3> HIDE DEF n, v, run
    <3>5. myRan'[v] = n /\ myRan' \in [Versions -> Nat] /\ \A w \in Versions \ {v} : myRan'[w] = myRan[w]
      BY <1>1, <2>1, <3>3, <3>4 DEF MigrationTypes
    <3>6. MigrationTypes' BY <1>1, <3>1, <3>2, <3>5 DEF MigrationTypes, Runs
    <3>7. RunSoFar(new, myRan')
      <4>1. /\ run.next \in Nat /\ n \in Nat /\ MigrationFiles[v] \in Nat
            /\ run.next <= MigrationFiles[v] /\ n >= run.next
        BY <1>2, <1>3, <2>1, <3>3
      <4> QED BY <3>1, <3>5, <4>1 DEF RunSoFar, v
    <3>8. RunReplaced(r, new) /\ FilesAdvance
      BY <1>3, <3>2, <3>3, <3>5 DEF RunReplaced, FilesAdvance
    <3> QED BY <3>1, <3>6, <3>7, <3>8, RunnerMoves
  <2>3. CASE myReg' \in {myReg, [myReg EXCEPT ![v] = "failed"]} /\ myRunner' = [myRunner EXCEPT ![r].at = "rest"] /\ UNCHANGED myRan
    <3> DEFINE new == [run EXCEPT !.at = "rest"]
    <3>1. new \in Runs /\ new.at = "rest" BY <1>1 DEF Runs
    <3>2. myRunner' = [myRunner EXCEPT ![r] = new] /\ myRan' = myRan BY <2>3
    <3> HIDE DEF new, v, run
    <3>3. MigrationTypes' BY <1>1, <2>3, <3>1, <3>2 DEF MigrationTypes, Runs
    <3>4. \A w \in Versions : myReg'[w] = "applied" => myReg[w] = "applied"
      BY <1>1, <2>3 DEF MigrationTypes
    <3>5. RunSoFar(new, myRan') BY <3>1 DEF RunSoFar
    <3>6. RunReplaced(r, new) /\ FilesAdvance BY <1>3, <3>2, <3>4 DEF RunReplaced, FilesAdvance
    <3> QED BY <3>1, <3>3, <3>5, <3>6, RunnerMoves
  <2> QED BY <1>6, <2>2, <2>3 DEF MigrationStatement, Run
<1>7. CASE MigrationRecorded(r)
  <2> DEFINE new == [at |-> "files", todo |-> run.todo \ {v}, next |-> 1]
  <2>1. run.todo # {} /\ run.next > MigrationFiles[v] /\ v \in Versions /\ run.at = "files"
    BY <1>4, <1>7 DEF MigrationRecorded, Run
  <2>2. myRan[v] = MigrationFiles[v] BY <1>1, <1>2, <1>3, <2>1 DEF RunSoFar
  <2>3. myReg' = [myReg EXCEPT ![v] = "applied"] /\ myRunner' = [myRunner EXCEPT ![r] = new] /\ myRan' = myRan
    BY <1>7 DEF MigrationRecorded, Run
  <2>4. new \in Runs /\ new.todo \in SUBSET Versions /\ new.next = 1 BY <1>2 DEF Runs
  <2> HIDE DEF new, v, run
  <2>5. MigrationTypes' BY <1>1, <2>1, <2>3, <2>4 DEF MigrationTypes, Runs
  <2>6. RunSoFar(new, myRan')
    <3>1. new.todo # {} => Lowest(new.todo) \in Versions
      BY <2>4, MySqlAssumption, LowestOf DEF Versions
    <3> QED BY <1>3, <2>3, <2>4, <3>1 DEF RunSoFar
  <2>7. RunReplaced(r, new) /\ FilesAdvance
    BY <1>1, <1>3, <2>1, <2>2, <2>3 DEF RunReplaced, FilesAdvance, MigrationTypes
  <2> QED BY <2>4, <2>5, <2>6, <2>7, RunnerMoves
<1>8. CASE UpEnds(r)
  <2> DEFINE new == [run EXCEPT !.at = "rest"]
  <2>1. new \in Runs /\ new.at = "rest" BY <1>1 DEF Runs
  <2>2. myRunner' = [myRunner EXCEPT ![r] = new] /\ myReg' = myReg /\ myRan' = myRan
    BY <1>8 DEF UpEnds
  <2> HIDE DEF new, v, run
  <2>3. RunSoFar(new, myRan') BY <2>1 DEF RunSoFar
  <2>4. RunReplaced(r, new) /\ FilesAdvance BY <1>3, <2>2 DEF RunReplaced, FilesAdvance
  <2> QED BY <1>1, <2>1, <2>2, <2>3, <2>4, RunnerMoves DEF MigrationTypes, Runs
<1> QED BY <1>5, <1>6, <1>7, <1>8

LEMMA MigrateSteps == MigrateIInv /\ [MigrateNext]_migrateVars => MigrateIInv'
<1> SUFFICES ASSUME MigrateIInv, [MigrateNext]_migrateVars PROVE MigrateIInv' OBVIOUS
<1>1. CASE UNCHANGED migrateVars
  BY <1>1 DEF migrateVars, MigrateIInv, MigrationTypes, AppliedHasRun, RunSoFar
<1>2. CASE MigrateNext BY <1>2, RunnerSteps DEF MigrateNext
<1> QED BY <1>1, <1>2

(* With one runner the files it has left are not applied by anybody else.   *)
LEMMA AppliedFileStays ==
  ASSUME OneRunner, MigrateIInv, FilesNotApplied, [MigrateNext]_migrateVars
  PROVE  FilesNotApplied' /\ \A v \in Versions : myReg[v] = "applied" => myReg'[v] = "applied"
<1>1. CASE UNCHANGED migrateVars BY <1>1 DEF migrateVars, FilesNotApplied
<1>2. ASSUME NEW r \in Runners, UpBegins(r) \/ MigrationStatement(r) \/ MigrationRecorded(r) \/ UpEnds(r)
      PROVE  FilesNotApplied' /\ \A v \in Versions : myReg[v] = "applied" => myReg'[v] = "applied"
  <2> DEFINE run == myRunner[r]
             w == Lowest(run.todo)
  <2>1. MigrationTypes /\ run \in Runs BY DEF MigrateIInv, MigrationTypes, Runs
  <2>2. run.at = "files" => \A v \in run.todo : myReg[v] # "applied" BY DEF FilesNotApplied
  <2>3. SUFFICES /\ myRunner'[r].at = "files" => \A v \in myRunner'[r].todo : myReg'[v] # "applied"
                 /\ \A v \in Versions : myReg[v] = "applied" => myReg'[v] = "applied"
    BY DEF FilesNotApplied, OneRunner
  <2>4. CASE UpBegins(r) BY <2>1, <2>4 DEF UpBegins, MigrationTypes
  <2>5. CASE MigrationStatement(r)
    <3>1. run.at = "files" /\ run.todo # {} BY <2>5 DEF MigrationStatement, Run
    <3>2. CASE myRunner' = [myRunner EXCEPT ![r].next = @ + 1] /\ UNCHANGED <<myReg, myMigFaults>>
      <4>1. myRunner'[r].todo = run.todo BY <2>1, <3>2 DEF Runs, MigrationTypes
      <4> QED BY <2>2, <3>1, <3>2, <4>1
    <3>3. CASE myReg' \in {myReg, [myReg EXCEPT ![w] = "failed"]} /\ myRunner' = [myRunner EXCEPT ![r].at = "rest"]
      <4>1. myRunner'[r].at = "rest" BY <2>1, <3>3 DEF MigrationTypes, Runs
      <4>2. myReg[w] # "applied" BY <2>1, <2>2, <3>1, LowestFile
      <4> HIDE DEF w
      <4> QED BY <2>1, <3>3, <4>1, <4>2 DEF MigrationTypes
    <3> QED BY <2>5, <3>2, <3>3 DEF MigrationStatement, Run
  <2>6. CASE MigrationRecorded(r)
    <3>1. run.at = "files" /\ run.todo # {} BY <2>6 DEF MigrationRecorded, Run
    <3>2. /\ myReg' = [myReg EXCEPT ![w] = "applied"]
          /\ myRunner' = [myRunner EXCEPT ![r] = [at |-> "files", todo |-> run.todo \ {w}, next |-> 1]]
      BY <2>6 DEF MigrationRecorded, Run
    <3>3. myRunner'[r].todo = run.todo \ {w} BY <2>1, <3>2 DEF MigrationTypes
    <3>4. run.todo \in SUBSET Versions BY <2>1 DEF Runs
    <3> HIDE DEF w, run
    <3> QED BY <2>1, <2>2, <3>1, <3>2, <3>3, <3>4 DEF MigrationTypes
  <2>7. CASE UpEnds(r) BY <2>1, <2>7 DEF UpEnds, MigrationTypes, Runs
  <2> QED BY <1>2, <2>4, <2>5, <2>6, <2>7
<1> QED BY <1>1, <1>2 DEF MigrateNext

LEMMA MigrateSafe == MigrateIInv => AppliedHasRun
BY DEF MigrateIInv

------------------------------------------------------------------------------
(* Places of a sequence can be listed in their order.                       *)
(* What stands at chosen places of a sequence.                              *)
LEMMA SelectedAt ==
  ASSUME NEW R, NEW s \in Seq(R), NEW places \in SUBSET (DOMAIN s)
  PROVE  \E at \in Seq(places) :
            /\ NoRepeat(at) /\ Members(at) = places /\ Len(at) <= Len(s)
            /\ Selected(s, places) \in Seq(R) /\ DOMAIN Selected(s, places) = DOMAIN at
            /\ Len(Selected(s, places)) = Len(at)
            /\ \A i \in DOMAIN at : at[i] \in places /\ Selected(s, places)[i] = s[at[i]]
<1> DEFINE at == CHOOSE f \in SetToSeqs(places) : \A i, j \in DOMAIN f : i < j => f[i] < f[j]
           t == Selected(s, places)
<1>1. Len(s) \in Nat /\ DOMAIN s = 1 .. Len(s) /\ \A i \in DOMAIN s : s[i] \in R
  BY LenProperties, ElementOfSeq
<1>2. at \in Seq(places) /\ NoRepeat(at) /\ Members(at) = places /\ Len(at) <= Len(s)
  <2> DEFINE n == Len(s)
  <2>1. n \in Nat /\ places \in SUBSET (1 .. n) BY <1>1
  <2> HIDE DEF n, at
  <2> QED BY <2>1, PlacesInOrder DEF n, at
<1>3. t = [i \in DOMAIN at |-> s[at[i]]] BY DEF Selected
<1> HIDE DEF at, t
<1>4. Len(at) \in Nat /\ DOMAIN at = 1 .. Len(at) /\ \A i \in DOMAIN at : at[i] \in places
  BY <1>2, LenProperties, ElementOfSeq
<1>5. t \in Seq(R) /\ Len(t) = Len(at) /\ DOMAIN t = DOMAIN at /\ \A i \in DOMAIN at : t[i] = s[at[i]]
  BY <1>1, <1>3, <1>4
<1> QED BY <1>2, <1>4, <1>5 DEF t

(* The queue of records to be saved.                                        *)
Dirty == [key : WbKeys, ver : Nat]
KeyedOnce(queue) == \A i, j \in DOMAIN queue : queue[i].key = queue[j].key => i = j
QueueFits(queue, store, queued) ==
  /\ \A k \in WbKeys : k \notin KeysOf(queue) => store[k] = queued[k]
  /\ \A i \in DOMAIN queue : queue[i].ver = queued[queue[i].key]
WbIInv ==
  /\ wbDirty \in Seq(Dirty) /\ Len(wbDirty) <= MaxQueued /\ KeyedOnce(wbDirty)
  /\ wbStore \in [WbKeys -> Nat] /\ wbQueued \in [WbKeys -> Nat] /\ wbSaved \in [WbKeys -> Nat]
  /\ QueueFits(wbDirty, wbStore, wbQueued)

LEMMA WbStarts == WbInit => WbIInv
<1> SUFFICES ASSUME WbInit PROVE WbIInv OBVIOUS
<1> QED BY WriteBehindAssumption DEF WbInit, WbIInv, KeyedOnce, QueueFits, KeysOf

LEMMA SaveFits ==
  ASSUME WbIInv, NEW k \in WbKeys, WbSave(k)
  PROVE  WbIInv'
<1> DEFINE r == [key |-> k, ver |-> wbSaved[k] + 1]
<1>1. /\ wbDirty \in Seq(Dirty) /\ Len(wbDirty) <= MaxQueued /\ KeyedOnce(wbDirty)
      /\ wbStore \in [WbKeys -> Nat] /\ wbQueued \in [WbKeys -> Nat] /\ wbSaved \in [WbKeys -> Nat]
      /\ QueueFits(wbDirty, wbStore, wbQueued)
  BY DEF WbIInv
<1>2. /\ Len(wbDirty) < MaxQueued /\ wbSaved' = [wbSaved EXCEPT ![k] = @ + 1] /\ wbStore' = wbStore
      /\ wbDirty' = Queued(wbDirty, r)
      /\ wbQueued' = IF k \in KeysOf(wbDirty) THEN wbQueued ELSE [wbQueued EXCEPT ![k] = r.ver]
  BY DEF WbSave
<1>3. r \in Dirty /\ r.key = k /\ r.ver \in Nat BY <1>1 DEF Dirty
<1> HIDE DEF r
<1>4. wbSaved' \in [WbKeys -> Nat] /\ wbQueued' \in [WbKeys -> Nat] BY <1>1, <1>2, <1>3
<1>5. CASE k \in KeysOf(wbDirty) BY <1>1, <1>2, <1>3, <1>4, <1>5 DEF WbIInv, Queued
<1>6. CASE k \notin KeysOf(wbDirty)
  <2>1. wbDirty' = Append(wbDirty, r) /\ wbQueued' = [wbQueued EXCEPT ![k] = r.ver]
    BY <1>2, <1>3, <1>6 DEF Queued
  <2> DEFINE q == Append(wbDirty, r)
             n == Len(wbDirty)
  <2>2. /\ q \in Seq(Dirty) /\ n \in Nat /\ Len(q) = n + 1 /\ DOMAIN q = 1 .. n + 1
        /\ \A i \in 1 .. n + 1 : q[i] = IF i = n + 1 THEN r ELSE wbDirty[i]
    BY <1>1, <1>3, AppendOf, LenProperties
  <2>3. DOMAIN wbDirty = 1 .. n /\ \A i \in 1 .. n : wbDirty[i] \in Dirty
    BY <1>1, LenProperties, ElementOfSeq
  <2> HIDE DEF q, n
  <2>4. \A i \in 1 .. n : wbDirty[i].key \in WbKeys /\ wbDirty[i].key # k
    BY <1>6, <2>3 DEF KeysOf, Dirty
  <2>5. \A i \in 1 .. n + 1 : i = n + 1 \/ i \in 1 .. n BY <2>2
  <2>6. KeyedOnce(q) BY <1>1, <1>3, <2>2, <2>3, <2>4, <2>5 DEF KeyedOnce
  <2>7. QueueFits(q, wbStore, wbQueued')
    <3>1. \A i \in DOMAIN q : q[i].ver = wbQueued'[q[i].key]
      <4> SUFFICES ASSUME NEW i \in 1 .. n + 1 PROVE q[i].ver = wbQueued'[q[i].key] BY <2>2
      <4>1. CASE i = n + 1 BY <1>1, <1>3, <2>1, <2>2, <4>1
      <4>2. CASE i \in 1 .. n
        <5>1. q[i] = wbDirty[i] /\ wbDirty[i].ver = wbQueued[wbDirty[i].key]
          <6>1. i # n + 1 /\ i \in DOMAIN wbDirty BY <2>2, <2>3, <4>2
          <6> QED BY <1>1, <2>2, <6>1 DEF QueueFits
        <5> QED BY <1>1, <2>1, <2>4, <4>2, <5>1
      <4> QED BY <2>5, <4>1, <4>2
    <3>2. KeysOf(q) = KeysOf(wbDirty) \cup {k}
      <4>1. n + 1 \in 1 .. n + 1 /\ q[n + 1].key = k BY <1>3, <2>2
      <4> QED BY <2>2, <2>3, <2>5, <4>1 DEF KeysOf
    <3> QED BY <1>1, <2>1, <3>1, <3>2 DEF QueueFits
  <2>8. Len(q) <= MaxQueued BY <1>2, <2>2, WriteBehindAssumption DEF n
  <2> QED BY <1>1, <1>2, <1>4, <2>1, <2>2, <2>6, <2>7, <2>8 DEF WbIInv, q
<1> QED BY <1>5, <1>6

LEMMA FlushFits ==
  ASSUME WbIInv, NEW refused, WbFlush(refused)
  PROVE  WbIInv'
<1> DEFINE places == {i \in Under(wbDirty, refused) : \A j \in 1 .. (i - 1) : wbDirty[j].key # wbDirty[i].key}
           q == Selected(wbDirty, places)
<1>1. /\ wbDirty \in Seq(Dirty) /\ Len(wbDirty) <= MaxQueued /\ KeyedOnce(wbDirty)
      /\ wbStore \in [WbKeys -> Nat] /\ wbQueued \in [WbKeys -> Nat] /\ wbSaved \in [WbKeys -> Nat]
      /\ QueueFits(wbDirty, wbStore, wbQueued)
  BY DEF WbIInv
<1>2. /\ refused \subseteq KeysOf(wbDirty) /\ wbDirty' = q /\ wbSaved' = wbSaved /\ wbQueued' = wbQueued
      /\ wbStore' = [k \in WbKeys |-> IF k \in KeysOf(wbDirty) \ refused
                                      THEN wbDirty[CHOOSE i \in DOMAIN wbDirty : wbDirty[i].key = k].ver
                                      ELSE wbStore[k]]
  BY DEF WbFlush
<1>3. DOMAIN wbDirty = 1 .. Len(wbDirty) /\ Len(wbDirty) \in Nat /\ \A i \in DOMAIN wbDirty : wbDirty[i] \in Dirty
  BY <1>1, LenProperties, ElementOfSeq
<1>4. /\ places \in SUBSET (DOMAIN wbDirty)
      /\ \A i \in DOMAIN wbDirty : i \in places <=> wbDirty[i].key \in refused
  <2>1. \A i \in DOMAIN wbDirty : \A j \in 1 .. (i - 1) : wbDirty[j].key # wbDirty[i].key
    BY <1>1, <1>3 DEF KeyedOnce
  <2> QED BY <2>1 DEF Under
<1> HIDE DEF places
<1>5. PICK at \in Seq(places) :
              /\ NoRepeat(at) /\ Members(at) = places /\ Len(at) <= Len(wbDirty)
              /\ q \in Seq(Dirty) /\ DOMAIN q = DOMAIN at /\ Len(q) = Len(at)
              /\ \A i \in DOMAIN at : at[i] \in places /\ q[i] = wbDirty[at[i]]
  <2>1. wbDirty \in Seq(Dirty) /\ places \in SUBSET (DOMAIN wbDirty) BY <1>1, <1>4
  <2> QED BY ONLY <2>1, SelectedAt DEF q
<1> HIDE DEF q
<1>6. KeyedOnce(q) BY <1>1, <1>4, <1>5 DEF KeyedOnce, NoRepeat
<1>7. KeysOf(q) = refused
  <2>1. ASSUME NEW k \in refused PROVE k \in KeysOf(q)
    <3>1. PICK i \in DOMAIN wbDirty : wbDirty[i].key = k BY <1>2 DEF KeysOf
    <3>2. PICK j \in DOMAIN at : at[j] = i BY <1>4, <1>5, <3>1 DEF Members
    <3> QED BY <1>5, <3>1, <3>2 DEF KeysOf
  <2> QED BY <1>4, <1>5, <2>1 DEF KeysOf
<1>8. ASSUME NEW k \in WbKeys PROVE wbStore'[k] \in Nat /\ (k \notin refused => wbStore'[k] = wbQueued[k])
  <2>1. CASE k \in KeysOf(wbDirty) \ refused
    <3> DEFINE i == CHOOSE i \in DOMAIN wbDirty : wbDirty[i].key = k
    <3>1. i \in DOMAIN wbDirty /\ wbDirty[i].key = k BY <2>1 DEF KeysOf
    <3>2. wbStore'[k] = wbDirty[i].ver BY <1>2, <2>1
    <3> HIDE DEF i
    <3> QED BY <1>1, <1>3, <3>1, <3>2 DEF QueueFits, Dirty
  <2>2. CASE k \notin KeysOf(wbDirty) \ refused BY <1>1, <1>2, <2>2 DEF QueueFits
  <2> QED BY <2>1, <2>2
<1>9. wbStore' \in [WbKeys -> Nat] BY <1>2, <1>8
<1>10. QueueFits(q, wbStore', wbQueued) BY <1>1, <1>4, <1>5, <1>7, <1>8 DEF QueueFits
<1>11. Len(q) <= MaxQueued BY <1>1, <1>3, <1>5, LenProperties, WriteBehindAssumption
<1> QED BY <1>1, <1>2, <1>5, <1>6, <1>9, <1>10, <1>11 DEF WbIInv

LEMMA WbSteps == WbIInv /\ [WbNext]_wbVars => WbIInv'
<1> SUFFICES ASSUME WbIInv, [WbNext]_wbVars PROVE WbIInv' OBVIOUS
<1>1. CASE UNCHANGED <<wbStore, wbDirty, wbSaved, wbQueued>> BY <1>1 DEF WbIInv
<1>2. CASE UNCHANGED wbVars BY <1>1, <1>2 DEF wbVars
<1>3. CASE \E k \in WbKeys : WbLoad(k) \/ WbSave(k) BY <1>1, <1>3, SaveFits DEF WbLoad
<1>4. CASE \E keys \in SUBSET WbKeys : WbFlush(keys) \/ WbInvalidate(keys)
  BY <1>1, <1>4, FlushFits DEF WbInvalidate
<1> QED BY <1>2, <1>3, <1>4 DEF WbNext

LEMMA WbSafe == WbIInv => QueuedIsKept
<1> SUFFICES ASSUME WbIInv PROVE QueuedIsKept OBVIOUS
<1> DEFINE keys == [i \in DOMAIN wbDirty |-> wbDirty[i].key]
<1>1. DOMAIN wbDirty = 1 .. Len(wbDirty) /\ Len(wbDirty) \in Nat /\ \A i \in DOMAIN wbDirty : wbDirty[i].key \in WbKeys
  <2>1. /\ DOMAIN wbDirty = 1 .. Len(wbDirty) /\ Len(wbDirty) \in Nat
        /\ \A i \in DOMAIN wbDirty : wbDirty[i] \in Dirty
    BY LenProperties, ElementOfSeq DEF WbIInv
  <2> QED BY <2>1 DEF Dirty
<1>2. keys \in Seq(WbKeys) /\ Len(keys) = Len(wbDirty) /\ DOMAIN keys = DOMAIN wbDirty BY <1>1
<1>3. NoRepeat(keys) /\ Members(keys) = KeysOf(wbDirty)
  BY <1>2 DEF NoRepeat, Members, KeysOf, WbIInv, KeyedOnce
<1> HIDE DEF keys
<1> QED BY <1>2, <1>3, CountMembers DEF WbIInv, QueueFits, QueuedIsKept

------------------------------------------------------------------------------
(* GameplayHost.  What is mounted runs, and what has run passed.            *)
Passing == {s \in HostSources : Passes(s)}
Shaped(e) == e = [bind |-> e.bind, version |-> e.version, accum |-> e.accum]
EntryFit(e) == Shaped(e) /\ e.bind.enabled /\ e.bind.name \in AllNames
GhIInv ==
  /\ \E n \in Nat : DOMAIN ghEntries = 1 .. n
  /\ \A i \in DOMAIN ghEntries : EntryFit(ghEntries[i])
  /\ ghRun \in [AllNames -> HostSources \cup {NoSource}]
  /\ ghHistory \in [AllNames -> Seq(Passing)]
  /\ RoutedScriptsRun /\ DecisionsAreSafe

LEMMA GhStarts == GameplayInit => GhIInv
<1> SUFFICES ASSUME GameplayInit PROVE GhIInv OBVIOUS
<1>1. DOMAIN <<>> = {} /\ 0 \in Nat /\ 1 .. 0 = {} /\ <<>> \in Seq(Passing) OBVIOUS
<1>2. Mounted = {} BY <1>1 DEF GameplayInit, Mounted
<1>3. RoutedScriptsRun /\ DecisionsAreSafe
  BY <1>2 DEF RoutedScriptsRun, DecisionsAreSafe, GameplayInit, Silence
<1> QED BY <1>1, <1>3 DEF GameplayInit, GhIInv

(* The scripts that may be asked.                                           *)
Served(hook, key) ==
  {i \in DOMAIN ghEntries : /\ ghEntries[i].bind.hook = hook
                            /\ ghEntries[i].bind.keys = {} \/ key \in ghEntries[i].bind.keys}

LEMMA InOrderOf ==
  ASSUME NEW n \in Nat, NEW S \in SUBSET (1 .. n)
  PROVE  InOrder(S) \in Seq(S) /\ Members(InOrder(S)) = S
BY PlacesInOrder DEF InOrder

LEMMA RoutesServe ==
  ASSUME GhIInv, NEW hook, NEW key
  PROVE  CollectRoutes(hook, key) \in Seq(Served(hook, key))
<1> DEFINE hooked == {i \in DOMAIN ghEntries : ghEntries[i].bind.hook = hook}
           A == {i \in hooked : key \in ghEntries[i].bind.keys}
           B == {i \in hooked : ghEntries[i].bind.keys = {}}
           S == Served(hook, key)
<1>1. PICK n \in Nat : DOMAIN ghEntries = 1 .. n BY DEF GhIInv
<1>2. A \in SUBSET (1 .. n) /\ B \in SUBSET (1 .. n) /\ A \subseteq S /\ B \subseteq S
  BY <1>1 DEF Served
<1>3. CollectRoutes(hook, key) = InOrder(A) \o InOrder(B) BY DEF CollectRoutes
<1> HIDE DEF A, B, S
<1>4. InOrder(A) \in Seq(A) /\ InOrder(B) \in Seq(B) BY <1>2, InOrderOf
<1>5. InOrder(A) \in Seq(S) /\ InOrder(B) \in Seq(S)
  <2> DEFINE a == InOrder(A)
             b == InOrder(B)
  <2> HIDE DEF a, b
  <2>1. /\ a \in Seq(A) /\ Len(a) \in Nat /\ a = [i \in 1 .. Len(a) |-> a[i]] /\ \A i \in 1 .. Len(a) : a[i] \in A
        /\ b \in Seq(B) /\ Len(b) \in Nat /\ b = [i \in 1 .. Len(b) |-> b[i]] /\ \A i \in 1 .. Len(b) : b[i] \in B
    BY <1>4, LenProperties, ElementOfSeq DEF a, b
  <2> QED BY <1>2, <2>1 DEF a, b
<1> QED BY <1>3, <1>5 DEF S

(* What a script is asked last is the one whose word counts.                *)
InRange(hook, value) ==
  value \in CASE hook = "AiDecide" -> 0 .. (ActionCount - 1)
              [] hook = "BossPhase" -> 1 .. MaxBossPhase
              [] OTHER -> 0 .. MaxAmount

LEMMA AskKeeps ==
  ASSUME GhIInv, NEW hook, NEW key, NEW given, \A say \in given : InRange(hook, say[2]), Ask(hook, key, given)
  PROVE  GhIInv'
<1> DEFINE routes == CollectRoutes(hook, key)
<1>1. UNCHANGED <<ghEntries, ghRun, ghHistory>> BY DEF Ask
<1>2. DecisionsAreSafe'
  <2>1. CASE ghAnswer' = [Silence EXCEPT !.request = <<hook, key>>, !.asked = routes, !.matched = routes # <<>>]
    BY <2>1 DEF DecisionsAreSafe, Silence
  <2>2. ASSUME NEW at \in DOMAIN routes, NEW say \in given,
               ghAnswer' = [request |-> <<hook, key>>, asked |-> SubSeq(routes, 1, at), matched |-> TRUE,
                            ok |-> TRUE, value |-> say[2], clamped |-> say[2] # say[1],
                            script |-> ghEntries[routes[at]].bind.name]
        PROVE  DecisionsAreSafe'
    <3> DEFINE S == Served(hook, key)
               asked == SubSeq(routes, 1, at)
    <3>1. routes \in Seq(S) BY RoutesServe
    <3> HIDE DEF routes
    <3>2. routes[at] \in S /\ at \in Nat /\ at >= 1 /\ at <= Len(routes)
      BY <3>1, ElementOfSeq, LenProperties
    <3> HIDE DEF S
    <3>3. Len(asked) = at /\ asked[at] = routes[at] BY <3>1, <3>2, StretchOf
    <3> HIDE DEF asked
    <3>4. /\ ghAnswer'.request = <<hook, key>> /\ ghAnswer'.asked = asked /\ ghAnswer'.value = say[2]
          /\ ghAnswer'.script = ghEntries[routes[at]].bind.name
      BY <2>2 DEF asked
    <3>5. /\ routes[at] \in DOMAIN ghEntries
          /\ ghEntries[routes[at]].bind.hook = hook
          /\ ghEntries[routes[at]].bind.keys = {} \/ key \in ghEntries[routes[at]].bind.keys
      BY <3>2 DEF S, Served
    <3>6. ghEntries[routes[at]].bind.enabled BY <3>5, Zenon DEF GhIInv, EntryFit
    <3>7. ghAnswer'.request[1] = hook /\ ghAnswer'.request[2] = key BY <3>4
    <3>8. ghAnswer'.value \in CASE ghAnswer'.request[1] = "AiDecide" -> 0 .. (ActionCount - 1)
                                 [] ghAnswer'.request[1] = "BossPhase" -> 1 .. MaxBossPhase
                                 [] OTHER -> 0 .. MaxAmount
      BY <2>2, <3>4, <3>7 DEF InRange
    <3>9. ghEntries'[Last(ghAnswer'.asked)].bind = ghEntries[routes[at]].bind
      BY <1>1, <3>3, <3>4 DEF Last
    <3> QED BY <3>4, <3>5, <3>6, <3>7, <3>8, <3>9, Zenon DEF DecisionsAreSafe
  <2> QED BY <2>1, <2>2 DEF Ask
<1> QED BY <1>1, <1>2 DEF GhIInv, RoutedScriptsRun, Mounted

LEMMA Clamps ==
  /\ \A raw \in RawValues \cup {NotANumber} : ClampAmount(raw) \in 0 .. MaxAmount
  /\ \A raw \in RawValues : ClampAction(raw) \in 0 .. (ActionCount - 1) /\ ClampPhase(raw) \in 1 .. MaxBossPhase
<1>1. MaxAmount \in Nat /\ ActionCount \in Nat \ {0} /\ MaxBossPhase \in Nat \ {0} /\ RawValues \subseteq Int
  BY GameplayHostAssumption
<1>2. \A raw \in RawValues \cup {NotANumber} : ClampAmount(raw) \in 0 .. MaxAmount
  BY <1>1 DEF ClampAmount
<1> QED BY <1>1, <1>2 DEF ClampAction, ClampPhase

LEMMA DecisionsKeep ==
  ASSUME GhIInv, NEW key,
         \/ ComputeSkillFormula(key) \/ DecideAi(key) \/ CheckBossPhase(key) \/ QueryActivity(key)
         \/ DispatchQuestEvent(key)
  PROVE  GhIInv'
<1>1. CASE ComputeSkillFormula(key)
  <2> DEFINE given == {<<raw, ClampAmount(raw)>> : raw \in RawValues \cup {NotANumber}}
  <2>1. \A say \in given : InRange("SkillFormula", say[2]) BY Clamps DEF InRange
  <2>2. Ask("SkillFormula", key, given) BY <1>1 DEF ComputeSkillFormula
  <2> HIDE DEF given
  <2> QED BY <2>1, <2>2, AskKeeps
<1>2. CASE QueryActivity(key)
  <2> DEFINE given == {<<raw, ClampAmount(raw)>> : raw \in RawValues \cup {NotANumber}}
  <2>1. \A say \in given : InRange("ActivityModifier", say[2]) BY Clamps DEF InRange
  <2>2. Ask("ActivityModifier", key, given) BY <1>2 DEF QueryActivity
  <2> HIDE DEF given
  <2> QED BY <2>1, <2>2, AskKeeps
<1>3. CASE DecideAi(key)
  <2> DEFINE given == {<<raw, ClampAction(raw)>> : raw \in RawValues}
  <2>1. \A say \in given : InRange("AiDecide", say[2]) BY Clamps DEF InRange
  <2>2. Ask("AiDecide", key, given) BY <1>3 DEF DecideAi
  <2> HIDE DEF given
  <2> QED BY <2>1, <2>2, AskKeeps
<1>4. CASE CheckBossPhase(key)
  <2> DEFINE given == {<<raw, ClampPhase(raw)>> : raw \in RawValues}
  <2>1. \A say \in given : InRange("BossPhase", say[2]) BY Clamps DEF InRange
  <2>2. Ask("BossPhase", key, given) BY <1>4 DEF CheckBossPhase
  <2> HIDE DEF given
  <2> QED BY <2>1, <2>2, AskKeeps
<1>5. CASE DispatchQuestEvent(key)
  BY <1>5 DEF GhIInv, RoutedScriptsRun, DecisionsAreSafe, Mounted, DispatchQuestEvent, Silence
<1> QED BY <1>1, <1>2, <1>3, <1>4, <1>5

(* Entries that keep their bindings.                                        *)
BindingsKept ==
  /\ DOMAIN ghEntries' = DOMAIN ghEntries
  /\ \A i \in DOMAIN ghEntries : Shaped(ghEntries'[i]) /\ ghEntries'[i].bind = ghEntries[i].bind

LEMMA SameMounted ==
  ASSUME BindingsKept PROVE Mounted' = Mounted
BY DEF BindingsKept, Mounted

LEMMA SwapKeeps ==
  ASSUME GhIInv, BindingsKept, ghAnswer' = Silence, NEW n \in AllNames, NEW h \in Seq(Passing), h # <<>>,
         NEW verify, NEW times, Swap(n, h, verify, times)
  PROVE  GhIInv'
<1>1. ghRun' = [ghRun EXCEPT ![n] = h[1]] /\ ghHistory' = [ghHistory EXCEPT ![n] = h]
  BY DEF Swap
<1>2. h[1] \in HostSources /\ h[1] # NoSource /\ Passes(h[1])
  BY TailOf, GameplayHostAssumption DEF Passing, NoSource
<1>3. /\ ghRun \in [AllNames -> HostSources \cup {NoSource}] /\ ghHistory \in [AllNames -> Seq(Passing)]
      /\ RoutedScriptsRun /\ \A i \in DOMAIN ghEntries : EntryFit(ghEntries[i])
  BY DEF GhIInv
<1>4. ghRun' \in [AllNames -> HostSources \cup {NoSource}] /\ ghHistory' \in [AllNames -> Seq(Passing)]
  BY <1>1, <1>2, <1>3
<1>5. \A i \in DOMAIN ghEntries' : EntryFit(ghEntries'[i])
  BY <1>3, Zenon DEF BindingsKept, EntryFit
<1>6. Mounted \subseteq AllNames BY <1>3 DEF Mounted, EntryFit
<1>7. RoutedScriptsRun' BY <1>1, <1>2, <1>3, <1>6, SameMounted DEF RoutedScriptsRun
<1>8. \E k \in Nat : DOMAIN ghEntries' = 1 .. k BY DEF GhIInv, BindingsKept
<1> QED BY <1>4, <1>5, <1>7, <1>8 DEF GhIInv, DecisionsAreSafe, Silence

LEMMA RememberedFits ==
  ASSUME NEW h \in Seq(Passing), NEW s \in Passing
  PROVE  Remembered(h, s) \in Seq(Passing) /\ Remembered(h, s) # <<>>
<1> DEFINE g == <<s>> \o h
<1>1. <<s>> \in Seq(Passing) /\ Len(<<s>>) = 1 /\ Len(h) \in Nat BY LenProperties
<1>2. g \in Seq(Passing) /\ Len(g) = Len(h) + 1 BY <1>1, ConcatProperties
<1>3. HistoryKept \in Nat \ {0} BY GameplayHostAssumption
<1>4. Remembered(h, s) = IF Len(g) > HistoryKept THEN SubSeq(g, 1, HistoryKept) ELSE g
  BY DEF Remembered
<1> HIDE DEF g
<1>5. CASE Len(g) > HistoryKept
  <2>1. SubSeq(g, 1, HistoryKept) \in Seq(Passing) /\ Len(SubSeq(g, 1, HistoryKept)) = HistoryKept - 1 + 1
    BY <1>1, <1>2, <1>3, <1>5, StretchOf
  <2> QED BY <1>3, <1>4, <1>5, <2>1
<1>6. CASE ~(Len(g) > HistoryKept) BY <1>1, <1>2, <1>4, <1>6
<1> QED BY <1>5, <1>6

LEMMA PreviousPasses ==
  ASSUME NEW h \in Seq(Passing), Distinct(h) # {}
  PROVE  Previous(h) \in Passing
<1>1. DOMAIN h = 1 .. Len(h) /\ Len(h) \in Nat /\ \A i \in DOMAIN h : h[i] \in Passing
  BY LenProperties, ElementOfSeq
<1>2. Distinct(h) \in SUBSET Nat /\ Distinct(h) \subseteq DOMAIN h BY <1>1 DEF Distinct
<1> DEFINE i == CHOOSE i \in Distinct(h) : \A j \in Distinct(h) : i <= j
<1>3. i \in Distinct(h) BY <1>2, LeastOf
<1>4. Previous(h) = h[i] BY DEF Previous
<1> HIDE DEF i
<1> QED BY <1>1, <1>2, <1>3, <1>4

LEMMA VersionMoves ==
  ASSUME GhIInv, NEW j, NEW v, ghEntries' = [ghEntries EXCEPT ![j].version = v]
  PROVE  BindingsKept
<1>1. \A i \in DOMAIN ghEntries : Shaped(ghEntries[i]) BY DEF GhIInv, EntryFit
<1>2. ASSUME NEW i \in DOMAIN ghEntries PROVE Shaped(ghEntries'[i]) /\ ghEntries'[i].bind = ghEntries[i].bind
  <2>1. CASE i # j BY <1>1, <2>1
  <2>2. CASE i = j
    <3>1. ghEntries[i] = [bind |-> ghEntries[i].bind, version |-> ghEntries[i].version, accum |-> ghEntries[i].accum]
      BY <1>1 DEF Shaped
    <3>2. ghEntries'[i] = [bind |-> ghEntries[i].bind, version |-> v, accum |-> ghEntries[i].accum]
      BY <2>2, <3>1
    <3> QED BY <3>2 DEF Shaped
  <2> QED BY <2>1, <2>2
<1> QED BY <1>2 DEF BindingsKept

LEMMA EntriesStay == ASSUME GhIInv, ghEntries' = ghEntries PROVE BindingsKept
BY DEF GhIInv, EntryFit, BindingsKept

LEMMA NothingSwapped ==
  ASSUME GhIInv, BindingsKept, UNCHANGED <<ghRun, ghHistory>>, ghAnswer' = Silence
  PROVE  GhIInv'
<1>1. \A i \in DOMAIN ghEntries' : EntryFit(ghEntries'[i])
  BY Zenon DEF GhIInv, BindingsKept, EntryFit
<1>2. ~ghAnswer'.ok BY DEF Silence
<1>3. RoutedScriptsRun' BY SameMounted DEF GhIInv, RoutedScriptsRun
<1> QED BY <1>1, <1>2, <1>3 DEF GhIInv, DecisionsAreSafe, BindingsKept

LEMMA SafePointKeeps ==
  ASSUME GhIInv, NEW n \in AllNames,
         HostRollback(n) \/ HostVerify(n) \/ \E s \in HostSources : ActivateReload(n, s)
  PROVE  GhIInv'
<1>1. ghHistory[n] \in Seq(Passing) BY DEF GhIInv
<1>2. ghAnswer' = Silence BY DEF HostRollback, HostVerify, ActivateReload
<1>3. ASSUME Distinct(ghHistory[n]) # {}
      PROVE  /\ Remembered(ghHistory[n], Previous(ghHistory[n])) \in Seq(Passing)
             /\ Remembered(ghHistory[n], Previous(ghHistory[n])) # <<>>
  BY <1>1, <1>3, PreviousPasses, RememberedFits
<1>4. CASE HostRollback(n)
  <2> DEFINE j == EntryOf(n)
             v == IF ghEntries[j].version > 1 THEN ghEntries[j].version - 1 ELSE ghEntries[j].version
  <2>1. /\ ghEntries' = [ghEntries EXCEPT ![j].version = v] /\ Distinct(ghHistory[n]) # {}
        /\ Swap(n, Remembered(ghHistory[n], Previous(ghHistory[n])), "no", 1)
    BY <1>4 DEF HostRollback
  <2> HIDE DEF j, v
  <2> QED BY <1>2, <1>3, <2>1, VersionMoves, SwapKeeps
<1>5. CASE HostVerify(n)
  <2>1. ghEntries' = ghEntries /\ BindingsKept BY <1>5, EntriesStay DEF HostVerify
  <2>2. CASE UNCHANGED <<ghRun, ghHistory>> BY <1>2, <2>1, <2>2, NothingSwapped
  <2>3. CASE Distinct(ghHistory[n]) # {} /\ Swap(n, Remembered(ghHistory[n], Previous(ghHistory[n])), "no", 1)
    BY <1>2, <1>3, <2>1, <2>3, SwapKeeps
  <2> QED BY <1>5, <2>2, <2>3 DEF HostVerify
<1>6. ASSUME NEW s \in HostSources, ActivateReload(n, s) PROVE GhIInv'
  <2> DEFINE h == Remembered(ghHistory[n], s)
             j == EntryOf(n)
             v == ghEntries[j].version + 1
  <2>1. h \in Seq(Passing) /\ h # <<>> BY <1>1, <1>6, RememberedFits DEF ActivateReload, Passing
  <2>2. CASE s \notin NoContract
    <3>1. Swap(n, h, "fresh", 1) /\ ghEntries' = [ghEntries EXCEPT ![j].version = v]
      BY <1>6, <2>2 DEF ActivateReload
    <3> HIDE DEF h, j, v
    <3> QED BY <1>2, <2>1, <3>1, VersionMoves, SwapKeeps
  <2>3. CASE s \in NoContract
    <3>1. /\ ghEntries' = ghEntries
          /\ IF Distinct(h) = {} THEN Swap(n, h, "fresh", 1) ELSE Swap(n, Remembered(h, Previous(h)), "no", 2)
      BY <1>6, <2>3 DEF ActivateReload
    <3> HIDE DEF h
    <3>2. BindingsKept BY <3>1, EntriesStay
    <3>3. CASE Distinct(h) = {} BY <1>2, <2>1, <3>1, <3>2, <3>3, SwapKeeps
    <3>4. CASE Distinct(h) # {}
      <4>1. Remembered(h, Previous(h)) \in Seq(Passing) /\ Remembered(h, Previous(h)) # <<>>
        BY <2>1, <3>4, PreviousPasses, RememberedFits
      <4> QED BY <1>2, <3>1, <3>2, <3>4, <4>1, SwapKeeps
    <3> QED BY <3>3, <3>4
  <2> QED BY <2>2, <2>3
<1> QED BY <1>4, <1>5, <1>6

(* Bindings at chosen places.                                               *)
LEMMA ThoseAt ==
  ASSUME NEW n \in Nat, NEW m, DOMAIN m = 1 .. n, NEW places \in SUBSET (1 .. n)
  PROVE  \E k \in Nat : /\ DOMAIN Those(m, places) = 1 .. k
                        /\ \A i \in 1 .. k : \E p \in places : Those(m, places)[i] = m[p]
<1> DEFINE at == InOrder(places)
<1>1. at \in Seq(places) BY InOrderOf
<1>2. Those(m, places) = [i \in DOMAIN at |-> m[at[i]]] BY DEF Those
<1> HIDE DEF at
<1>3. Len(at) \in Nat /\ DOMAIN at = 1 .. Len(at) /\ \A i \in DOMAIN at : at[i] \in places
  BY <1>1, LenProperties, ElementOfSeq
<1> QED BY <1>2, <1>3

LEMMA LoadKeepsHost ==
  ASSUME GhIInv, NEW m \in Manifests, LoadManifest(m)
  PROVE  GhIInv'
<1> DEFINE wanted == EnabledOf(m)
           names == ScriptNamesOf(wanted)
<1>1. PICK file \in [ScriptNamesOf(m) -> HostSources] :
        LET swapped == {n \in names : Passes(file[n])}
            good == Those(wanted, {i \in DOMAIN wanted : Keeps(file[wanted[i].name])})
        IN /\ ghRun' = [n \in AllNames |-> IF n \in names THEN RunAfterLoad(n, file[n]) ELSE ghRun[n]]
           /\ ghHistory' = [n \in AllNames |-> IF n \in swapped THEN Remembered(ghHistory[n], file[n]) ELSE ghHistory[n]]
           /\ ghEntries' = [i \in DOMAIN good |-> [bind |-> good[i], version |-> 1, accum |-> 0]]
  BY DEF LoadManifest
<1>2. ~ghAnswer'.ok BY DEF LoadManifest, Silence
<1>3. Len(m) \in Nat /\ DOMAIN m = 1 .. Len(m) BY GameplayHostAssumption, LenProperties
<1>4. PICK k \in Nat : /\ DOMAIN wanted = 1 .. k
                       /\ \A i \in 1 .. k : \E p \in {q \in DOMAIN m : m[q].enabled} : wanted[i] = m[p]
  <2> DEFINE places == {q \in DOMAIN m : m[q].enabled}
  <2>1. places \in SUBSET (1 .. Len(m)) /\ wanted = Those(m, places) BY <1>3 DEF EnabledOf
  <2> HIDE DEF places
  <2>2. \E k \in Nat : /\ DOMAIN wanted = 1 .. k
                       /\ \A i \in 1 .. k : \E p \in places : wanted[i] = m[p]
    BY <1>3, <2>1, ThoseAt
  <2> QED BY <2>2 DEF places
<1> DEFINE kept == {i \in DOMAIN wanted : Keeps(file[wanted[i].name])}
           good == Those(wanted, kept)
<1> HIDE DEF wanted
<1>5. PICK g \in Nat : DOMAIN good = 1 .. g /\ \A i \in 1 .. g : \E p \in kept : good[i] = wanted[p]
  <2>1. kept \in SUBSET (1 .. k) BY <1>4
  <2> HIDE DEF kept
  <2> QED BY <1>4, <2>1, ThoseAt
<1>6. ghEntries' = [i \in 1 .. g |-> [bind |-> good[i], version |-> 1, accum |-> 0]]
  BY <1>1, <1>5
<1>7. ASSUME NEW i \in 1 .. g
      PROVE  /\ good[i].enabled /\ good[i].name \in names /\ good[i].name \in AllNames
             /\ Keeps(file[good[i].name]) /\ good[i].name \in ScriptNamesOf(m)
  <2>1. PICK p \in kept : good[i] = wanted[p] BY <1>5
  <2>2. p \in DOMAIN wanted /\ Keeps(file[wanted[p].name]) BY <2>1
  <2>3. PICK q \in DOMAIN m : m[q].enabled /\ wanted[p] = m[q] BY <1>4, <2>2
  <2>4. wanted[p].name \in names BY <2>2 DEF ScriptNamesOf
  <2>5. m[q].name \in ScriptNamesOf(m) BY <2>3 DEF ScriptNamesOf
  <2>6. m[q].name \in AllNames BY <2>5 DEF AllNames
  <2> HIDE DEF good, names
  <2>7. good[i].enabled BY <2>1, <2>3, Zenon
  <2> QED BY <2>1, <2>2, <2>3, <2>4, <2>5, <2>6, <2>7
<1>8. names \subseteq ScriptNamesOf(m) BY <1>4 DEF ScriptNamesOf
<1>9. ghRun' \in [AllNames -> HostSources \cup {NoSource}]
  <2>1. ASSUME NEW n \in AllNames PROVE ghRun'[n] \in HostSources \cup {NoSource}
    BY <1>1, <1>8 DEF GhIInv, RunAfterLoad
  <2> QED BY <1>1, <2>1
<1>10. ghHistory' \in [AllNames -> Seq(Passing)]
  <2>1. ASSUME NEW n \in AllNames PROVE ghHistory'[n] \in Seq(Passing)
    <3>1. ghHistory[n] \in Seq(Passing) BY DEF GhIInv
    <3>2. CASE n \in names /\ Passes(file[n])
      <4>1. ghHistory'[n] = Remembered(ghHistory[n], file[n]) BY <1>1, <3>2
      <4> QED BY <1>8, <3>1, <3>2, <4>1, RememberedFits DEF Passing
    <3>3. CASE ~(n \in names /\ Passes(file[n])) BY <1>1, <3>1, <3>3
    <3> QED BY <3>2, <3>3
  <2> QED BY <1>1, <2>1
<1> HIDE DEF names, good
<1>11. \A i \in 1 .. g : EntryFit(ghEntries'[i])
  <2> SUFFICES ASSUME NEW i \in 1 .. g PROVE EntryFit(ghEntries'[i]) OBVIOUS
  <2>1. ghEntries'[i].bind = good[i] /\ Shaped(ghEntries'[i]) BY <1>6 DEF Shaped
  <2> QED BY <1>7, <2>1, Zenon DEF EntryFit
<1>12. RoutedScriptsRun'
  <2> SUFFICES ASSUME NEW n \in Mounted' PROVE ghRun'[n] # NoSource /\ Passes(ghRun'[n])
    BY DEF RoutedScriptsRun
  <2>1. PICK i \in 1 .. g : n = ghEntries'[i].bind.name BY <1>6 DEF Mounted
  <2>2. n \in names /\ n \in AllNames /\ Keeps(file[n]) /\ file[n] \in HostSources
    BY <1>6, <1>7, <2>1
  <2> QED BY <1>1, <2>2, GameplayHostAssumption DEF Keeps, NoSource, RunAfterLoad, Passes
<1> QED BY <1>2, <1>6, <1>9, <1>10, <1>11, <1>12 DEF GhIInv, DecisionsAreSafe

LEMMA TickKeeps == ASSUME GhIInv, NEW dt, HostTick(dt) PROVE GhIInv'
<1>1. ghEntries' = [i \in DOMAIN ghEntries |-> TickOf(ghEntries[i], dt)] BY DEF HostTick
<1>2. UNCHANGED <<ghRun, ghHistory>> /\ ghAnswer' = Silence BY DEF HostTick
<1>3. ASSUME NEW e, Shaped(e) PROVE Shaped(TickOf(e, dt)) /\ TickOf(e, dt).bind = e.bind
  <2>1. CASE e.bind.period = 0 BY <1>3, <2>1 DEF TickOf
  <2>2. CASE e.bind.period # 0
    <3> DEFINE v == IF e.accum + dt < e.bind.period THEN e.accum + dt ELSE 0
    <3>1. TickOf(e, dt) = [e EXCEPT !.accum = v] BY <2>2 DEF TickOf
    <3> HIDE DEF v
    <3>2. TickOf(e, dt) = [bind |-> e.bind, version |-> e.version, accum |-> v]
      BY <1>3, <3>1 DEF Shaped
    <3> QED BY <3>2 DEF Shaped
  <2> QED BY <2>1, <2>2
<1> QED BY <1>1, <1>2, <1>3, NothingSwapped DEF BindingsKept, GhIInv, EntryFit

LEMMA GhSteps == GhIInv /\ [GameplayNext]_ghVars => GhIInv'
<1> SUFFICES ASSUME GhIInv, [GameplayNext]_ghVars PROVE GhIInv' OBVIOUS
<1>1. CASE UNCHANGED ghVars
  BY <1>1 DEF ghVars, GhIInv, RoutedScriptsRun, DecisionsAreSafe, Mounted
<1>2. CASE \E m \in Manifests : LoadManifest(m) BY <1>2, LoadKeepsHost
<1>3. CASE \E r \in Requests : \/ ComputeSkillFormula(r[2]) \/ DecideAi(r[2]) \/ CheckBossPhase(r[2])
                               \/ QueryActivity(r[2]) \/ DispatchQuestEvent(r[2])
  BY <1>3, DecisionsKeep
<1>4. CASE \E dt \in 1 .. MaxStep : HostTick(dt) BY <1>4, TickKeeps
<1>5. CASE OpenSafePoint \/ CloseSafePoint
  BY <1>5, EntriesStay, NothingSwapped DEF OpenSafePoint, CloseSafePoint
<1>6. CASE \E n \in AllNames : HostRollback(n) \/ HostVerify(n) \/ \E s \in HostSources : ActivateReload(n, s)
  BY <1>6, SafePointKeeps
<1> QED BY <1>1, <1>2, <1>3, <1>4, <1>5, <1>6 DEF GameplayNext

LEMMA GhSafe == GhIInv => RoutedScriptsRun /\ DecisionsAreSafe
BY DEF GhIInv

(* Whatever is loaded, exchanged, rolled back and verified, what the game is*)
(* routed to runs a source that has passed, and what a script decides is    *)
(* clamped and its own.                                                     *)
THEOREM GameplayCorrect == GameplaySpec => [](RoutedScriptsRun /\ DecisionsAreSafe)
BY GhStarts, GhSteps, GhSafe, PTL DEF GameplaySpec

------------------------------------------------------------------------------
(* The store and the migrations share no variable.                          *)
LEMMA StoreApart == StoreNext => UNCHANGED migrateVars
BY DEF StoreNext, migrateVars

LEMMA MigrateApart == MigrateNext => UNCHANGED storeVars
BY DEF MigrateNext

LEMMA MySqlMoves ==
  [StoreNext \/ MigrateNext]_mySqlVars => [StoreNext]_storeVars /\ [MigrateNext]_migrateVars
BY StoreApart, MigrateApart DEF mySqlVars, storeVars, migrateVars

(* Whatever fails on the way, a pool counts its connections, an atomic batch*)
(* leaves all of its rows or none, and a version is recorded as applied     *)
(* only after its statements ran.                                           *)
THEOREM MySqlCorrect == MySqlSpec => [](PoolIsExact /\ AtomicIsAtomic /\ AppliedHasRun)
<1>1. MySqlInit => StoreIInv /\ MigrateIInv BY StoreStarts, MigrateStarts
<1>2. StoreIInv /\ MigrateIInv /\ [StoreNext \/ MigrateNext]_mySqlVars => StoreIInv' /\ MigrateIInv'
  BY MySqlMoves, StoreSteps, MigrateSteps
<1>3. StoreIInv /\ MigrateIInv => PoolIsExact /\ AtomicIsAtomic /\ AppliedHasRun
  BY StoreSafe, MigrateSafe
<1> QED BY <1>1, <1>2, <1>3, PTL DEF MySqlSpec

(* With one process that migrates, an applied version stays applied.        *)
THEOREM AppliedForGood == ASSUME OneRunner PROVE MySqlSpec => AppliedStays
<1>1. MySqlInit => MigrateIInv /\ FilesNotApplied BY MigrateStarts
<1>2. MigrateIInv /\ FilesNotApplied /\ [StoreNext \/ MigrateNext]_mySqlVars
        => /\ MigrateIInv' /\ FilesNotApplied'
           /\ [\A v \in Versions : myReg[v] = "applied" => myReg'[v] = "applied"]_myReg
  BY MySqlMoves, MigrateSteps, AppliedFileStays
<1> QED BY <1>1, <1>2, PTL DEF MySqlSpec, AppliedStays

------------------------------------------------------------------------------
(* The services side by side.  A step of the composition is a step of one   *)
(* of them and leaves the variables of the others alone.                    *)

ServicesIInv ==
  /\ FailoverIInv /\ ControlIInv /\ StoreIInv /\ MigrateIInv
  /\ BreakerIInv /\ HotReloadIInv /\ ScriptsIInv /\ WbIInv /\ GhIInv

LEMMA ServicesStart == ServicesInit => ServicesIInv
<1> SUFFICES ASSUME ServicesInit PROVE ServicesIInv OBVIOUS
<1>1. /\ FailoverInit /\ ControlInit /\ MySqlInit /\ RedisInit /\ WbInit
      /\ HotReloadInit /\ ScriptContextInit /\ GameplayInit
  BY DEF ServicesInit
<1> QED BY <1>1, FailoverStarts, ControlStarts, StoreStarts, MigrateStarts, BreakerStarts,
           HotReloadStarts, ScriptsStart, WbStarts, GhStarts DEF ServicesIInv

ServiceStep ==
  /\ [FailoverNext]_foVars /\ [ControlNext]_ctlVars
  /\ [StoreNext]_storeVars /\ [MigrateNext]_migrateVars
  /\ [GuardedNext]_breakerVars /\ [SessionStoreNext]_sessionStoreVars
  /\ [HotReloadNext]_hrVars /\ [ScriptContextNext]_scVars
  /\ [WbNext]_wbVars /\ [GameplayNext]_ghVars

LEMMA OneServiceMoves == [ServicesNext]_servicesVars => ServiceStep
<1> SUFFICES ASSUME [ServicesNext]_servicesVars PROVE ServiceStep OBVIOUS
<1>0. /\ UNCHANGED mySqlVars => UNCHANGED storeVars /\ UNCHANGED migrateVars
      /\ UNCHANGED redisVars => UNCHANGED breakerVars /\ UNCHANGED sessionStoreVars
  BY DEF mySqlVars, storeVars, migrateVars, redisVars, breakerVars, sessionStoreVars
<1>1. CASE OnFailover(FailoverNext) BY <1>0, <1>1 DEF OnFailover, ServiceStep
<1>2. CASE OnControl BY <1>0, <1>2 DEF OnControl, ServiceStep
<1>3. CASE OnMySql BY <1>0, <1>3, StoreApart, MigrateApart DEF OnMySql, ServiceStep
<1>4. CASE OnRedis BY <1>0, <1>4, GuardedApart, SessionStoreApart DEF OnRedis, ServiceStep
<1>5. CASE OnWriteBehind BY <1>0, <1>5 DEF OnWriteBehind, ServiceStep
<1>6. CASE OnHotReload(HotReloadNext) BY <1>0, <1>6 DEF OnHotReload, ServiceStep
<1>7. CASE OnScripts BY <1>0, <1>7 DEF OnScripts, ServiceStep
<1>8. CASE OnGameplay BY <1>0, <1>8 DEF OnGameplay, ServiceStep
<1>9. CASE UNCHANGED servicesVars BY <1>0, <1>9 DEF servicesVars, ServiceStep
<1> QED BY <1>1, <1>2, <1>3, <1>4, <1>5, <1>6, <1>7, <1>8, <1>9 DEF ServicesNext

LEMMA ServicesStep == ServicesIInv /\ [ServicesNext]_servicesVars => ServicesIInv'
<1> SUFFICES ASSUME ServicesIInv, [ServicesNext]_servicesVars PROVE ServicesIInv' OBVIOUS
<1>1. ServiceStep BY OneServiceMoves
<1>2. BreakerIInv' /\ HotReloadIInv' /\ ScriptsIInv' /\ WbIInv' /\ GhIInv'
  BY <1>1, BreakerSteps, HotReloadSteps, ScriptsStep, WbSteps, GhSteps DEF ServicesIInv, ServiceStep
<1> QED
  BY <1>1, <1>2, FailoverSteps, ControlSteps, StoreSteps, MigrateSteps DEF ServicesIInv, ServiceStep

LEMMA PushesStep ==
  ASSUME OnePusher, ServicesIInv, PushFits, [ServicesNext]_servicesVars
  PROVE  PushFits' /\ (ctlBoots' = ctlBoots => ctlConfig' >= ctlConfig)
BY OneServiceMoves, PushSteps DEF ServicesIInv, ServiceStep

LEMMA RunnersStep ==
  ASSUME OneRunner, ServicesIInv, FilesNotApplied, [ServicesNext]_servicesVars
  PROVE  FilesNotApplied' /\ \A v \in Versions : myReg[v] = "applied" => myReg'[v] = "applied"
BY OneServiceMoves, AppliedFileStays DEF ServicesIInv, ServiceStep

(* A dead node is announced once and each of its sessions is accounted for; *)
(* with one thread that pushes configurations, the control service's records*)
(* are its state and it takes the silent offline and nobody else, for any   *)
(* number of nodes, sessions and failures.                                  *)
THEOREM NodesAccountedFor == ASSUME OnePusher PROVE ServicesSpec => []NodesAreAccountedFor
<1>1. ServicesInit => ServicesIInv /\ PushFits BY ServicesStart, PushStarts DEF ServicesInit
<1>2. ServicesIInv /\ PushFits /\ [ServicesNext]_servicesVars => ServicesIInv' /\ PushFits'
  BY ServicesStep, PushesStep
<1>3. ServicesIInv /\ PushFits => NodesAreAccountedFor
  BY FailoverSafe, ControlSafe DEF ServicesIInv, NodesAreAccountedFor
<1> QED BY <1>1, <1>2, <1>3, PTL DEF ServicesSpec

LEMMA SessionsUserStep ==
  ASSUME OneStoreUser, SessionIInv, [ServicesNext]_servicesVars PROVE SessionIInv'
BY OneServiceMoves, SessionSteps DEF ServiceStep

LEMMA AuditStep ==
  ASSUME OneDrainer, ServicesIInv, DrainFits, [ServicesNext]_servicesVars PROVE DrainFits'
BY OneServiceMoves, AuditSteps DEF ServicesIInv, ServiceStep

(* The data service: pools count their connections, an atomic batch leaves  *)
(* all of its rows or none, a migration is recorded after its statements, a *)
(* queued record is in the queue or the store; where one process writes the *)
(* sessions, an index leads to a body.                                      *)
THEOREM DataKept == ASSUME OneStoreUser PROVE ServicesSpec => []DataIsKept
<1>1. ServicesInit => ServicesIInv /\ SessionIInv
  BY ServicesStart, SessionStarts DEF ServicesInit
<1>2. ServicesIInv /\ SessionIInv /\ [ServicesNext]_servicesVars => ServicesIInv' /\ SessionIInv'
  BY ServicesStep, SessionsUserStep
<1>3. ServicesIInv /\ SessionIInv => DataIsKept
  BY StoreSafe, MigrateSafe, WbSafe, BreakerSafe, SessionSafe DEF ServicesIInv, DataIsKept
<1> QED BY <1>1, <1>2, <1>3, PTL DEF ServicesSpec

(* What is swapped in has passed its validation and, where one thread       *)
(* drains, is audited; names, slots and registry agree; what the game is    *)
(* routed to runs, and what it is told is clamped.                          *)
THEOREM ScriptsSound == ASSUME OneDrainer PROVE ServicesSpec => []ScriptsAreSound
<1>1. ServicesInit => ServicesIInv /\ DrainFits
  BY ServicesStart, HotReloadStarts DEF ServicesInit
<1>2. ServicesIInv /\ DrainFits /\ [ServicesNext]_servicesVars => ServicesIInv' /\ DrainFits'
  BY ServicesStep, AuditStep
<1>3. ServicesIInv /\ DrainFits => ScriptsAreSound
  BY HotReloadSafe, AuditSafe, ScriptsSafe, GhSafe DEF ServicesIInv, ScriptsAreSound
<1> QED BY <1>1, <1>2, <1>3, PTL DEF ServicesSpec

(* What is settled stays, where one thread pushes configurations and one    *)
(* process migrates.                                                        *)
THEOREM SettledForGood == ASSUME OnePusher, OneRunner PROVE ServicesSpec => SettledStays
<1>1. ServicesInit => ServicesIInv /\ PushFits /\ FilesNotApplied
  BY ServicesStart, PushStarts, MigrateStarts DEF ServicesInit
<1>2. ServicesIInv /\ PushFits /\ FilesNotApplied /\ [ServicesNext]_servicesVars
        => /\ ServicesIInv' /\ PushFits' /\ FilesNotApplied'
           /\ [\A v \in Versions : myReg[v] = "applied" => myReg'[v] = "applied"]_myReg
           /\ [ctlBoots' = ctlBoots => ctlConfig' >= ctlConfig]_ctlVars
  BY ServicesStep, PushesStep, RunnersStep
<1>3. ServicesIInv /\ [ServicesNext]_servicesVars
        => [\A id \in DOMAIN scSlots : id \in DOMAIN scSlots' /\ scSlots'[id].name = scSlots[id].name]_scVars
  BY OneServiceMoves, ScriptsStep DEF ServicesIInv, ServiceStep, NamesKept
<1> QED BY <1>1, <1>2, <1>3, PTL
        DEF ServicesSpec, SettledStays, AppliedStays, IdsNeverMove, ConfigOnlyMovesOn
=============================================================================
