---------------------------- MODULE EngineProofs ----------------------------
(* Theorems about the engine's components, laid out as in NetworkProofs,    *)
(* and about all of them side by side.                                      *)
EXTENDS MCEngine, NetworkProofs


------------------------------------------------------------------------------
(* The worker thread and its queue of tasks.  A cell of the ring holds the  *)
(* task of one round, told by its sequence number; the tasks a producer     *)
(* posted are, in order, executed, running or in line between the two       *)
(* positions.                                                               *)

LEMMA Cells ==
  ASSUME NEW n \in Nat \ {0}, NEW p \in Int, NEW q \in Int, p < q, q < p + n
  PROVE  p % n # q % n
<1> DEFINE a == p \div n
           b == q \div n
<1> SUFFICES ASSUME p % n = q % n PROVE FALSE OBVIOUS
<1>1. q - p = n * (b - a) /\ a \in Int /\ b \in Int OBVIOUS
<1> HIDE DEF a, b
<1>2. b - a <= 0 => n * (b - a) <= 0 BY <1>1
<1> QED BY <1>1, <1>2

LEMMA NextLap ==
  ASSUME NEW n \in Nat \ {0}, NEW p \in Int
  PROVE  (p + n) % n = p % n /\ p % n \in 0 .. n - 1
<1>1. /\ p = n * (p \div n) + (p % n) /\ (p + n) = n * ((p + n) \div n) + ((p + n) % n)
      /\ p \div n \in Int /\ (p + n) \div n \in Int
      /\ p % n \in 0 .. n - 1 /\ (p + n) % n \in 0 .. n - 1
  OBVIOUS
<1> DEFINE a == p \div n
           b == (p + n) \div n
           c == p % n
           d == (p + n) % n
<1>2. a \in Int /\ b \in Int /\ c \in 0 .. n - 1 /\ d \in 0 .. n - 1
      /\ n + n * a + c = n * b + d
  BY <1>1
<1> HIDE DEF a, b, c, d
<1>3. n * (a + 1 - b) = d - c BY <1>2
<1>4. a + 1 - b <= -1 => n * (a + 1 - b) <= -n BY <1>2
<1>5. a + 1 - b = 0 BY <1>2, <1>3, <1>4
<1> QED BY <1>1, <1>2, <1>3, <1>5 DEF c, d

(* The double of a power of two is one.                                     *)
LEMMA Doubled ==
  ASSUME NEW v \in Nat \ {0}, IsPowerOfTwo(v)
  PROVE  IsPowerOfTwo(2 * v)
<1> SUFFICES ASSUME NEW d \in 2 .. 2 * v, (2 * v) % d = 0, d % 2 # 0
             PROVE  FALSE
  BY DEF IsPowerOfTwo
<1>1. PICK e \in Int : d = 2 * e + 1
  BY d = 2 * (d \div 2) + (d % 2), d \div 2 \in Int, d % 2 \in 0 .. 1
<1>2. PICK k \in Int : 2 * v = d * k
  BY 2 * v = d * ((2 * v) \div d) + ((2 * v) % d), (2 * v) \div d \in Int
<1> DEFINE j == v - e * k
<1>3. k = 2 * j /\ j \in Int BY <1>1, <1>2
<1> HIDE DEF j
<1>4. v = d * j BY <1>2, <1>3
<1>5. v % d = 0
  <2>1. /\ v = d * (v \div d) + (v % d) /\ v \div d \in Int /\ v % d \in 0 .. d - 1 OBVIOUS
  <2> DEFINE a == v \div d
             r == v % d
  <2>2. d * (j - a) = r /\ a \in Int /\ r \in 0 .. d - 1 BY <2>1, <1>4, <1>3
  <2> HIDE DEF a, r
  <2>3. j - a <= -1 => d * (j - a) <= -d BY <2>2, <1>3
  <2>4. j - a = 0 BY <1>3, <2>2, <2>3
  <2> QED BY <2>2, <2>4 DEF r
<1>6. d <= v
  <2>1. j >= 1 BY <1>3, <1>4
  <2> QED BY <1>3, <1>4, <2>1
<1> QED BY <1>5, <1>6 DEF IsPowerOfTwo

LEMMA PowerFound ==
  \A n \in Nat \ {0} : \E v \in 2 .. 2 * n : v >= n /\ IsPowerOfTwo(v)
<1> DEFINE Found(n) == \E v \in 2 .. 2 * n : v >= n /\ IsPowerOfTwo(v)
           Missing == {n \in Nat \ {0} : ~Found(n)}
<1> SUFFICES ASSUME Missing # {} PROVE FALSE OBVIOUS
<1>1. PICK m \in Missing : \A n \in Missing : m <= n BY LeastOf, Missing \in SUBSET Nat
<1>2. m > 2 BY <1>1 DEF IsPowerOfTwo
<1>3. PICK v \in 2 .. 2 * (m - 1) : v >= m - 1 /\ IsPowerOfTwo(v) BY <1>1, <1>2
<1>4. CASE v >= m BY <1>1, <1>2, <1>3, <1>4
<1>5. CASE v = m - 1
  <2>1. IsPowerOfTwo(2 * v) BY Doubled, <1>3
  <2> HIDE DEF IsPowerOfTwo
  <2> QED BY <1>1, <1>2, <1>3, <1>5, <2>1
<1> QED BY <1>2, <1>3, <1>4, <1>5

LEMMA QueueSizeFits == QueueSize \in Nat /\ QueueSize >= 2
<1> DEFINE powers == {v \in 2 .. 2 * QueueCapacity : v >= QueueCapacity /\ IsPowerOfTwo(v)}
<1>1. powers # {} BY PowerFound, TaskThreadAssumption
<1>2. powers \in SUBSET Nat /\ \A v \in powers : v >= 2 BY TaskThreadAssumption
<1> HIDE DEF powers
<1>3. QueueSize \in powers BY <1>1, <1>2, LeastOf DEF QueueSize, RoundUpPow2, powers
<1> QED BY <1>2, <1>3

------------------------------------------------------------------------------
Tasks == Producers \X Nat

LEMMA TaskIsSome == \A t \in Tasks : t # NoTask /\ t[1] \in Producers /\ t[2] \in Nat /\ t = <<t[1], t[2]>>
<1> SUFFICES ASSUME NEW t \in Tasks PROVE t # NoTask /\ t[1] \in Producers /\ t[2] \in Nat /\ t = <<t[1], t[2]>>
  OBVIOUS
<1>1. PICK p \in Producers, n \in Nat : t = <<p, n>> BY DEF Tasks
<1>2. Len(NoTask) = 0 BY DEF NoTask
<1> QED BY <1>1, <1>2

------------------------------------------------------------------------------
(* The tasks in line, from the first that ran to the last one queued: w     *)
(* holds the positions published and not taken, at the task at each.        *)
HeldIn(run) == IF run = NoTask THEN {} ELSE {run}

LineFits(w, at, run, ex, ps, cl, ok) ==
  /\ w \in SUBSET Int /\ at \in [w -> Tasks]
  /\ run \in Tasks \cup {NoTask} /\ ex \in Seq(Tasks)
  /\ cl \in [Producers -> Nat]
  /\ ok = Members(ex) \cup HeldIn(run) \cup {at[q] : q \in w}
  /\ \A t \in ok : /\ t[2] <= cl[t[1]]
                   /\ ps[t[1]].step # "idle" => t[2] < cl[t[1]]
  /\ \A i, j \in DOMAIN ex : i < j /\ ex[i][1] = ex[j][1] => ex[i][2] < ex[j][2]
  /\ \A t \in Members(ex) : run # NoTask /\ t[1] = run[1] => t[2] < run[2]
  /\ \A q \in w : \A t \in Members(ex) \cup HeldIn(run) :
       t[1] = at[q][1] => t[2] < at[q][2]
  /\ \A q, r \in w : q < r /\ at[q][1] = at[r][1] => at[q][2] < at[r][2]
  /\ \A q \in w : LET p == at[q][1] IN ps[p].step = "publish" => q < ps[p].pos

(* A call begins.                                                           *)
LEMMA LinePosts ==
  ASSUME NEW w, NEW at, NEW run, NEW ex, NEW ps, NEW cl, NEW ok,
         NEW ps2, NEW cl2, NEW p \in Producers,
         LineFits(w, at, run, ex, ps, cl, ok),
         cl2 \in [Producers -> Nat], \A o \in Producers : cl2[o] = IF o = p THEN cl[o] + 1 ELSE cl[o],
         \A o \in Producers : o # p => ps2[o] = ps[o],
         ps2[p].step # "publish"
  PROVE  LineFits(w, at, run, ex, ps2, cl2, ok)
<1>1. \A t \in ok : t[2] \in Nat /\ t[1] \in Producers
  BY TaskIsSome DEF LineFits, Members, HeldIn
<1>2. \A q \in w : at[q][1] \in Producers BY TaskIsSome DEF LineFits
<1>3. \A t \in ok : /\ t[2] <= cl2[t[1]]
                    /\ ps2[t[1]].step # "idle" => t[2] < cl2[t[1]]
  <2> TAKE t \in ok
  <2>1. t[2] <= cl[t[1]] /\ t[2] \in Nat /\ t[1] \in Producers /\ cl[t[1]] \in Nat /\ cl2[t[1]] \in Nat
        /\ (ps[t[1]].step # "idle" => t[2] < cl[t[1]])
    BY <1>1 DEF LineFits
  <2> QED BY <2>1
<1>4. \A q \in w : LET o == at[q][1] IN ps2[o].step = "publish" => q < ps2[o].pos
  BY <1>2 DEF LineFits
<1> QED BY <1>3, <1>4 DEF LineFits

(* A call goes on: it takes a position behind the whole line, or none.      *)
LEMMA LineMoves ==
  ASSUME NEW w, NEW at, NEW run, NEW ex, NEW ps, NEW cl, NEW ok,
         NEW ps2, NEW p \in Producers,
         LineFits(w, at, run, ex, ps, cl, ok),
         \A o \in Producers : o # p => ps2[o] = ps[o],
         ps[p].step # "idle",
         ps2[p].step = "publish" => \A q \in w : q < ps2[p].pos
  PROVE  LineFits(w, at, run, ex, ps2, cl, ok)
<1>1. \A t \in ok : t[2] \in Nat /\ t[1] \in Producers
  BY TaskIsSome DEF LineFits, Members, HeldIn
<1>2. \A q \in w : at[q][1] \in Producers BY TaskIsSome DEF LineFits
<1>3. \A t \in ok : /\ t[2] <= cl[t[1]]
                    /\ ps2[t[1]].step # "idle" => t[2] < cl[t[1]]
  <2> TAKE t \in ok
  <2> QED BY <1>1 DEF LineFits
<1> QED BY <1>2, <1>3 DEF LineFits

(* A position is published.                                                 *)
ToLine(w, at, run, ex, ps, cl, ok, w2, at2, ps2, ok2, p, pos) ==
  /\ p \in Producers
  /\ pos \in Int
  /\ LineFits(w, at, run, ex, ps, cl, ok)
  /\ \A o \in Producers : o # p => ps2[o] = ps[o]
  /\ ps[p].step = "publish"
  /\ ps[p].pos = pos
  /\ ps2[p].step = "idle"
  /\ pos \notin w
  /\ w2 = w \cup {pos}
  /\ at2 \in [w2 -> Tasks]
  /\ at2[pos] = <<p, cl[p]>>
  /\ \A q \in w : at2[q] = at[q]
  /\ ok2 = ok \cup {<<p, cl[p]>>}

LEMMA LinePublishes ==
  ASSUME NEW w, NEW at, NEW run, NEW ex, NEW ps, NEW cl, NEW ok, NEW w2, NEW at2, NEW ps2, NEW ok2, NEW p, NEW pos,
         ToLine(w, at, run, ex, ps, cl, ok, w2, at2, ps2, ok2, p, pos)
  PROVE  LineFits(w2, at2, run, ex, ps2, cl, ok2) /\ <<p, cl[p]>> \notin ok
<1> USE DEF ToLine
<1> DEFINE new == <<p, cl[p]>>
<1>1. \A t \in ok : t[2] \in Nat /\ t[1] \in Producers
  BY TaskIsSome DEF LineFits, Members, HeldIn
<1>2. \A q \in w : at[q][1] \in Producers /\ at[q] \in ok /\ at[q][2] \in Nat
  BY TaskIsSome DEF LineFits
<1>3. new \in Tasks /\ new[1] = p /\ new[2] = cl[p] /\ cl[p] \in Nat BY DEF LineFits, Tasks
<1> HIDE DEF new
<1>4. \A t \in ok : t[1] = p => t[2] < new[2] BY <1>1, <1>3 DEF LineFits
<1>5. new \notin ok BY <1>3, <1>4
<1>6. ok2 = Members(ex) \cup HeldIn(run) \cup {at2[q] : q \in w2}
  <2>1. {at2[q] : q \in w2} = {at[q] : q \in w} \cup {new} BY DEF new
  <2> QED BY <2>1 DEF new, LineFits
<1>7. \A t \in ok2 : /\ t[2] <= cl[t[1]]
                     /\ ps2[t[1]].step # "idle" => t[2] < cl[t[1]]
  <2> TAKE t \in ok2
  <2>1. CASE t = new BY <1>3, <2>1
  <2>2. CASE t \in ok BY <1>1, <2>2 DEF LineFits
  <2> QED BY <2>1, <2>2 DEF new
<1>8. \A q \in w2 : \A t \in Members(ex) \cup HeldIn(run) :
       t[1] = at2[q][1] => t[2] < at2[q][2]
  <2>1. \A t \in Members(ex) \cup HeldIn(run) : t[1] = at2[pos][1] => t[2] < at2[pos][2]
    BY <1>3, <1>4 DEF new, LineFits
  <2> QED BY <2>1 DEF LineFits
<1>9. \A q, r \in w2 : q < r /\ at2[q][1] = at2[r][1] => at2[q][2] < at2[r][2]
  <2> TAKE q, r \in w2
  <2> HAVE q < r /\ at2[q][1] = at2[r][1]
  <2>1. q \in Int /\ r \in Int BY DEF LineFits
  <2>2. CASE q = pos
    <3>1. r \in w BY <2>1, <2>2
    <3>2. at[r][1] = p BY <3>1, <2>2, <1>3 DEF new
    <3> QED BY <2>1, <2>2, <3>1, <3>2 DEF LineFits
  <2>3. CASE r = pos
    <3>1. q \in w BY <2>1, <2>3
    <3> QED BY <1>2, <1>3, <1>4, <2>3, <3>1 DEF new
  <2> QED BY <2>2, <2>3 DEF LineFits
<1>10. \A q \in w2 : LET o == at2[q][1] IN ps2[o].step = "publish" => q < ps2[o].pos
  <2>1. \A q \in w : at[q][1] # p => ps2[at[q][1]] = ps[at[q][1]] BY <1>2
  <2>2. \A q \in w : ps[at[q][1]].step = "publish" => q < ps[at[q][1]].pos BY DEF LineFits
  <2> QED BY <1>3, <2>1, <2>2 DEF new
<1> QED BY <1>5, <1>6, <1>7, <1>8, <1>9, <1>10 DEF LineFits, new

(* The worker takes the first position.                                     *)
ToTake(w, at, run, ex, ps, cl, ok, w2, at2, run2, d) ==
  /\ LineFits(w, at, run, ex, ps, cl, ok)
  /\ d \in w
  /\ \A q \in w : d <= q
  /\ run = NoTask
  /\ w2 = w \ {d}
  /\ at2 \in [w2 -> Tasks]
  /\ \A q \in w2 : at2[q] = at[q]
  /\ run2 = at[d]

LEMMA LineTakes ==
  ASSUME NEW w, NEW at, NEW run, NEW ex, NEW ps, NEW cl, NEW ok, NEW w2, NEW at2, NEW run2, NEW d,
         ToTake(w, at, run, ex, ps, cl, ok, w2, at2, run2, d)
  PROVE  LineFits(w2, at2, run2, ex, ps, cl, ok) /\ run2 \in Tasks /\ run2 # NoTask
<1> USE DEF ToTake
<1>1. run2 \in Tasks /\ run2 # NoTask BY TaskIsSome DEF LineFits
<1>2. HeldIn(run2) = {run2} /\ HeldIn(run) = {} BY <1>1 DEF HeldIn
<1>3. ok = Members(ex) \cup HeldIn(run2) \cup {at2[q] : q \in w2}
  <2>1. ok = Members(ex) \cup HeldIn(run) \cup {at[q] : q \in w} BY DEF LineFits
  <2> QED BY <1>2, <2>1
<1>4. \A q \in w2 : \A t \in Members(ex) \cup HeldIn(run2) :
       t[1] = at2[q][1] => t[2] < at2[q][2]
  <2>1. \A q \in w2 : d < q /\ q \in w /\ d \in w BY DEF LineFits
  <2>2. \A q, r \in w : q < r /\ at[q][1] = at[r][1] => at[q][2] < at[r][2] BY DEF LineFits
  <2>3. \A q \in w2 : run2[1] = at[q][1] => run2[2] < at[q][2] BY <2>1, <2>2
  <2> QED BY <1>2, <2>3 DEF LineFits
<1>5. \A q, r \in w2 : q < r /\ at2[q][1] = at2[r][1] => at2[q][2] < at2[r][2]
  <2>1. \A q, r \in w : q < r /\ at[q][1] = at[r][1] => at[q][2] < at[r][2] BY DEF LineFits
  <2>2. \A q \in w2 : q \in w /\ at2[q] = at[q] OBVIOUS
  <2> HIDE DEF ToTake
  <2> QED BY <2>1, <2>2
<1>6. \A q \in w2 : LET p == at2[q][1] IN ps[p].step = "publish" => q < ps[p].pos
  BY DEF LineFits
<1> QED BY <1>1, <1>3, <1>4, <1>5, <1>6 DEF LineFits

(* The worker has run its task.                                             *)
LEMMA LineRuns ==
  ASSUME NEW w, NEW at, NEW run, NEW ex, NEW ps, NEW cl, NEW ok, NEW ex2, NEW run2,
         LineFits(w, at, run, ex, ps, cl, ok), run \in Tasks,
         ex2 = Append(ex, run), run2 = NoTask
  PROVE  LineFits(w, at, run2, ex2, ps, cl, ok)
<1>1. run # NoTask BY TaskIsSome
<1>2. HeldIn(run) = {run} /\ HeldIn(run2) = {} BY <1>1 DEF HeldIn
<1>3. ex \in Seq(Tasks) BY DEF LineFits
<1>4. ex2 \in Seq(Tasks) /\ Members(ex2) = Members(ex) \cup {run} BY <1>3, AppendMembers
<1>5. \A i, j \in DOMAIN ex2 : i < j /\ ex2[i][1] = ex2[j][1] => ex2[i][2] < ex2[j][2]
  <2> DEFINE n == Len(ex)
  <2>1. n \in Nat /\ DOMAIN ex = 1 .. n /\ DOMAIN ex2 = 1 .. n + 1
        /\ \A i \in 1 .. n + 1 : ex2[i] = IF i = n + 1 THEN run ELSE ex[i]
    BY <1>3, AppendOf, LenProperties
  <2> HIDE DEF n
  <2> TAKE i, j \in DOMAIN ex2
  <2> HAVE i < j /\ ex2[i][1] = ex2[j][1]
  <2>2. i \in DOMAIN ex /\ ex2[i] = ex[i] /\ ex[i] \in Members(ex) BY <2>1 DEF Members
  <2>3. CASE j = n + 1 BY <1>1, <2>1, <2>2, <2>3 DEF LineFits
  <2>4. CASE j # n + 1 BY <2>1, <2>2, <2>4 DEF LineFits
  <2> QED BY <2>3, <2>4
<1> QED BY <1>2, <1>4, <1>5 DEF LineFits

LEMMA LineSafe ==
  ASSUME NEW w, NEW at, NEW run, NEW ex, NEW ps, NEW cl, NEW ok,
         LineFits(w, at, run, ex, ps, cl, ok)
  PROVE  /\ Cardinality(Members(ex)) = Len(ex)
         /\ Members(ex) \cap HeldIn(run) = {}
         /\ (Members(ex) \cup HeldIn(run)) \cap {at[q] : q \in w} = {}
         /\ ok = Members(ex) \cup HeldIn(run) \cup {at[q] : q \in w}
<1>1. \A t \in ok : t[2] \in Nat BY TaskIsSome DEF LineFits, Members, HeldIn
<1>2. ok = Members(ex) \cup HeldIn(run) \cup {at[q] : q \in w} BY DEF LineFits
<1>3. NoRepeat(ex)
  <2>1. DOMAIN ex \in SUBSET Int BY LenProperties DEF LineFits
  <2> SUFFICES ASSUME NEW i \in DOMAIN ex, NEW j \in DOMAIN ex, ex[i] = ex[j], i # j
               PROVE  FALSE
    BY DEF NoRepeat
  <2>2. i < j \/ j < i BY <2>1
  <2> QED BY <1>1, <1>2, <2>2 DEF LineFits, Members
<1>4. (Members(ex) \cup HeldIn(run)) \cap {at[q] : q \in w} = {} BY <1>1, <1>2 DEF LineFits
<1>5. Cardinality(Members(ex)) = Len(ex) BY <1>3, CountMembers DEF LineFits
<1> QED BY <1>1, <1>2, <1>4, <1>5 DEF LineFits, HeldIn

------------------------------------------------------------------------------
(* The ring: l is the first position that has not been handed to the next   *)
(* round.                                                                   *)
CellRecords == [seq : Int, task : Tasks \cup {NoTask}]
AtCell(cs, q) == cs[CellOf(q)]
InLine(cs, d, e) == {q \in d .. e - 1 : AtCell(cs, q).seq = q + 1}
TaskAt(cs, w) == [q \in w |-> AtCell(cs, q).task]
Floor(d, wk) == IF wk = "release" THEN d - 1 ELSE d

CellsFit(cs, e, d, l, ps) ==
  /\ cs \in [0 .. QueueSize - 1 -> CellRecords]
  /\ e \in Nat /\ d \in Nat /\ l \in Nat /\ l <= d /\ d <= e /\ e <= l + QueueSize
  /\ l = d \/ (l = d - 1 /\ AtCell(cs, l).seq = d)
  /\ \A q \in l .. l + QueueSize - 1 :
       AtCell(cs, q).seq = q \/ (AtCell(cs, q).seq = q + 1 /\ q < e)
  /\ \A p \in Producers :
       /\ ps[p].pos \in Nat /\ ps[p].pos <= e
       /\ ps[p].step = "claim" => ps[p].pos < l + QueueSize
       /\ ps[p].step = "publish" =>
            ps[p].pos \in d .. e - 1 /\ AtCell(cs, ps[p].pos).seq = ps[p].pos
  /\ \A p, o \in Producers :
       ps[p].step = "publish" /\ ps[o].step = "publish" /\ ps[p].pos = ps[o].pos => p = o

LEMMA OwnCell ==
  /\ \A p \in Int : CellOf(p) \in 0 .. QueueSize - 1 /\ CellOf(p + QueueSize) = CellOf(p)
  /\ \A p, q \in Int : p < q + QueueSize /\ q < p + QueueSize /\ p # q => CellOf(p) # CellOf(q)
<1>1. QueueSize \in Nat \ {0} BY QueueSizeFits
<1>2. ASSUME NEW p \in Int, NEW q \in Int, p < q + QueueSize, q < p + QueueSize, p # q
      PROVE  CellOf(p) # CellOf(q)
  <2>1. CASE p < q BY <1>1, <2>1, <1>2, Cells DEF CellOf
  <2>2. CASE q < p BY <1>1, <1>2, <2>2, Cells DEF CellOf
  <2> QED BY <1>2, <2>1, <2>2
<1> QED BY <1>1, <1>2, NextLap DEF CellOf

LEMMA RingMoves ==
  ASSUME NEW cs, NEW e, NEW d, NEW l, NEW ps, NEW ps2, NEW p \in Producers,
         CellsFit(cs, e, d, l, ps),
         \A o \in Producers : o # p => ps2[o] = ps[o],
         ps2[p].pos \in Nat, ps2[p].pos <= e, ps2[p].step # "publish",
         ps2[p].step = "claim" => ps2[p].pos < l + QueueSize
  PROVE  CellsFit(cs, e, d, l, ps2)
BY DEF CellsFit

ToClaim(cs, e, d, l, ps, e2, ps2, p) ==
  /\ p \in Producers
  /\ CellsFit(cs, e, d, l, ps)
  /\ \A o \in Producers : o # p => ps2[o] = ps[o]
  /\ ps[p].step = "claim"
  /\ ps[p].pos = e
  /\ e2 = e + 1
  /\ ps2[p].pos = e
  /\ ps2[p].step = "publish"

LEMMA RingClaims ==
  ASSUME NEW cs, NEW e, NEW d, NEW l, NEW ps, NEW e2, NEW ps2, NEW p,
         ToClaim(cs, e, d, l, ps, e2, ps2, p)
  PROVE  /\ CellsFit(cs, e2, d, l, ps2)
         /\ InLine(cs, d, e2) = InLine(cs, d, e) /\ \A q \in InLine(cs, d, e) : q < e
<1> USE DEF ToClaim
<1>1. QueueSize \in Nat \ {0} BY QueueSizeFits
<1>2. e \in l .. l + QueueSize - 1 BY <1>1 DEF CellsFit
<1>3. AtCell(cs, e).seq = e /\ e \in Nat /\ d \in Nat BY <1>2 DEF CellsFit
<1>4. CellsFit(cs, e2, d, l, ps2)
  <2>1. e2 \in Nat /\ d <= e2 /\ e2 <= l + QueueSize BY <1>1, <1>2 DEF CellsFit
  <2>2. \A o \in Producers :
       /\ ps2[o].pos \in Nat /\ ps2[o].pos <= e2
       /\ ps2[o].step = "claim" => ps2[o].pos < l + QueueSize
       /\ ps2[o].step = "publish" =>
            ps2[o].pos \in d .. e2 - 1 /\ AtCell(cs, ps2[o].pos).seq = ps2[o].pos
    BY <1>3 DEF CellsFit
  <2>3. \A u, o \in Producers :
       ps2[u].step = "publish" /\ ps2[o].step = "publish" /\ ps2[u].pos = ps2[o].pos => u = o
    BY <1>3 DEF CellsFit
  <2> QED BY <2>1, <2>2, <2>3 DEF CellsFit
<1> QED BY <1>3, <1>4 DEF InLine

ToPublish(cs, e, d, l, ps, cs2, ps2, p, pos, t) ==
  /\ p \in Producers
  /\ t \in Tasks
  /\ CellsFit(cs, e, d, l, ps)
  /\ \A o \in Producers : o # p => ps2[o] = ps[o]
  /\ ps[p].step = "publish"
  /\ ps[p].pos = pos
  /\ ps2[p].pos \in Nat
  /\ ps2[p].pos <= e
  /\ ps2[p].step = "idle"
  /\ cs2 = [cs EXCEPT ![CellOf(pos)] = [seq |-> pos + 1, task |-> t]]

LEMMA RingPublishes ==
  ASSUME NEW cs, NEW e, NEW d, NEW l, NEW ps, NEW cs2, NEW ps2, NEW p, NEW pos, NEW t,
         ToPublish(cs, e, d, l, ps, cs2, ps2, p, pos, t)
  PROVE  /\ CellsFit(cs2, e, d, l, ps2)
         /\ pos \in d .. e - 1 /\ pos \notin InLine(cs, d, e)
         /\ InLine(cs2, d, e) = InLine(cs, d, e) \cup {pos}
         /\ AtCell(cs2, pos) = [seq |-> pos + 1, task |-> t]
         /\ \A q \in l .. l + QueueSize - 1 : q # pos => AtCell(cs2, q) = AtCell(cs, q)
<1> USE DEF ToPublish
<1>0. QueueSize \in Nat \ {0} BY QueueSizeFits
<1>1. /\ pos \in d .. e - 1 /\ AtCell(cs, pos).seq = pos /\ d \in Nat /\ e \in Nat /\ l \in Nat
      /\ l <= d /\ e <= l + QueueSize /\ cs \in [0 .. QueueSize - 1 -> CellRecords]
  BY DEF CellsFit
<1>2. pos \in l .. l + QueueSize - 1 /\ pos \in Int /\ CellOf(pos) \in 0 .. QueueSize - 1
  <2>1. pos \in l .. l + QueueSize - 1 /\ pos \in Int BY ONLY <1>0, <1>1
  <2> QED BY ONLY <2>1, OwnCell
<1>3. AtCell(cs2, pos) = [seq |-> pos + 1, task |-> t] /\ AtCell(cs2, pos).seq = pos + 1
  BY <1>1, <1>2 DEF AtCell
<1>4. \A q \in l .. l + QueueSize - 1 : q # pos => AtCell(cs2, q) = AtCell(cs, q)
  <2> TAKE q \in l .. l + QueueSize - 1
  <2> HAVE q # pos
  <2>0. q \in Int /\ q < pos + QueueSize /\ pos < q + QueueSize /\ q # pos
    BY ONLY <1>0, <1>1, <1>2, q # pos, q \in l .. l + QueueSize - 1
  <2>1. CellOf(q) # CellOf(pos) /\ CellOf(q) \in 0 .. QueueSize - 1 BY ONLY <2>0, <1>2, OwnCell
  <2> QED BY <2>1, <1>1 DEF AtCell
<1>5. cs2 \in [0 .. QueueSize - 1 -> CellRecords] BY <1>1, <1>2 DEF CellRecords
<1>6. \A q \in d .. e - 1 : q \in l .. l + QueueSize - 1 BY <1>0, <1>1
<1>7. pos \notin InLine(cs, d, e) BY <1>1 DEF InLine
<1>8. CellsFit(cs2, e, d, l, ps2)
  <2>1. l = d \/ (l = d - 1 /\ AtCell(cs2, l).seq = d)
    <3>1. l \in l .. l + QueueSize - 1 BY <1>0, <1>1
    <3>2. l = d - 1 => l # pos BY <1>1
    <3> QED BY <1>4, <3>1, <3>2 DEF CellsFit
  <2>2. \A q \in l .. l + QueueSize - 1 :
       AtCell(cs2, q).seq = q \/ (AtCell(cs2, q).seq = q + 1 /\ q < e)
    <3>1. \A q \in l .. l + QueueSize - 1 :
            AtCell(cs, q).seq = q \/ (AtCell(cs, q).seq = q + 1 /\ q < e)
      BY ONLY CellsFit(cs, e, d, l, ps) DEF CellsFit
    <3>2. pos < e BY ONLY <1>1
    <3> QED BY ONLY <3>1, <3>2, <1>3, <1>4
  <2>3. \A o \in Producers :
       /\ ps2[o].pos \in Nat /\ ps2[o].pos <= e
       /\ ps2[o].step = "claim" => ps2[o].pos < l + QueueSize
       /\ ps2[o].step = "publish" =>
            ps2[o].pos \in d .. e - 1 /\ AtCell(cs2, ps2[o].pos).seq = ps2[o].pos
    <3> TAKE o \in Producers
    <3>1. CASE o = p BY <3>1
    <3>2. CASE o # p
      <4>1. ps[o].step = "publish" => ps[o].pos \in d .. e - 1 /\ AtCell(cs, ps[o].pos).seq = ps[o].pos
        BY DEF CellsFit
      <4>2. ps[o].step = "publish" => AtCell(cs2, ps[o].pos) = AtCell(cs, ps[o].pos)
        BY <1>4, <1>6, <3>2, <4>1 DEF CellsFit
      <4> QED BY <3>2, <4>1, <4>2 DEF CellsFit
    <3> QED BY <3>1, <3>2
  <2> QED BY <1>1, <1>5, <2>1, <2>2, <2>3 DEF CellsFit
<1> QED BY <1>1, <1>3, <1>4, <1>6, <1>7, <1>8 DEF InLine

LEMMA RingTakes ==
  ASSUME NEW cs, NEW e, NEW d, NEW l, NEW ps, NEW d2,
         CellsFit(cs, e, d, l, ps), l = d, AtCell(cs, d).seq = d + 1, d2 = d + 1
  PROVE  /\ CellsFit(cs, e, d2, l, ps)
         /\ d \in InLine(cs, d, e) /\ \A q \in InLine(cs, d, e) : d <= q
         /\ InLine(cs, d2, e) = InLine(cs, d, e) \ {d}
<1>1. d \in l .. l + QueueSize - 1 /\ d \in Nat /\ e \in Nat BY QueueSizeFits DEF CellsFit
<1>2. d < e BY <1>1 DEF CellsFit
<1>3. InLine(cs, d2, e) = InLine(cs, d, e) \ {d} BY <1>1 DEF InLine
<1> QED BY <1>1, <1>2, <1>3 DEF InLine, CellsFit

ToRelease(cs, e, d, l, ps, cs2, l2) ==
  /\ CellsFit(cs, e, d, l, ps)
  /\ l = d - 1
  /\ l2 = d
  /\ cs2 = [cs EXCEPT ![CellOf(l)].seq = l + QueueSize]

LEMMA RingReleases ==
  ASSUME NEW cs, NEW e, NEW d, NEW l, NEW ps, NEW cs2, NEW l2,
         ToRelease(cs, e, d, l, ps, cs2, l2)
  PROVE  /\ CellsFit(cs2, e, d, l2, ps)
         /\ InLine(cs2, d, e) = InLine(cs, d, e)
         /\ \A q \in d .. e - 1 : AtCell(cs2, q) = AtCell(cs, q)
<1> USE DEF ToRelease
<1>0. QueueSize \in Nat \ {0} BY QueueSizeFits
<1>1. /\ d \in Nat /\ e \in Nat /\ l \in Nat /\ d <= e
      /\ e <= l + QueueSize /\ cs \in [0 .. QueueSize - 1 -> CellRecords]
  BY DEF CellsFit
<1>2. CellOf(l) \in 0 .. QueueSize - 1 /\ CellOf(l + QueueSize) = CellOf(l) /\ l \in Int
  BY <1>0, <1>1, OwnCell
<1>3. /\ cs2[CellOf(l)] = [cs[CellOf(l)] EXCEPT !.seq = l + QueueSize]
      /\ \A c \in 0 .. QueueSize - 1 : c # CellOf(l) => cs2[c] = cs[c]
  BY <1>1, <1>2
<1>4. cs2[CellOf(l)].seq = l + QueueSize /\ cs2[CellOf(l)] \in CellRecords
  <2> DEFINE c == cs[CellOf(l)]
  <2>1. c \in CellRecords /\ l + QueueSize \in Int BY <1>0, <1>1, <1>2
  <2> HIDE DEF c
  <2>2. [c EXCEPT !.seq = l + QueueSize] \in CellRecords
        /\ [c EXCEPT !.seq = l + QueueSize].seq = l + QueueSize
    BY ONLY <2>1 DEF CellRecords
  <2> QED BY ONLY <2>2, <1>3 DEF c
<1>5. \A q \in d .. l + QueueSize - 1 : AtCell(cs2, q) = AtCell(cs, q)
  <2> TAKE q \in d .. l + QueueSize - 1
  <2>0. q \in Int /\ q < l + QueueSize /\ l < q + QueueSize /\ q # l
    BY ONLY <1>0, <1>1, l = d - 1, q \in d .. l + QueueSize - 1
  <2>1. CellOf(q) # CellOf(l) /\ CellOf(q) \in 0 .. QueueSize - 1 BY ONLY <2>0, <1>2, OwnCell
  <2> QED BY ONLY <2>1, <1>3 DEF AtCell
<1>6. \A q \in d .. e - 1 : q \in d .. l + QueueSize - 1 /\ AtCell(cs2, q) = AtCell(cs, q)
  <2>1. \A q \in d .. e - 1 : q \in d .. l + QueueSize - 1 BY ONLY <1>0, <1>1
  <2> QED BY ONLY <2>1, <1>5
<1>7. cs2 \in [0 .. QueueSize - 1 -> CellRecords] BY <1>1, <1>4, <1>3
<1>8. \A q \in l2 .. l2 + QueueSize - 1 :
       AtCell(cs2, q).seq = q \/ (AtCell(cs2, q).seq = q + 1 /\ q < e)
  <2> TAKE q \in l2 .. l2 + QueueSize - 1
  <2>1. CASE q = l + QueueSize BY <1>2, <1>4, <2>1 DEF AtCell
  <2>2. CASE q # l + QueueSize
    <3>1. q \in d .. l + QueueSize - 1 /\ q \in l .. l + QueueSize - 1 BY <2>2, <1>0, <1>1
    <3> QED BY <3>1, <1>5 DEF CellsFit
  <2> QED BY <2>1, <2>2
<1>9. \A p \in Producers :
       /\ ps[p].pos \in Nat /\ ps[p].pos <= e
       /\ ps[p].step = "claim" => ps[p].pos < l2 + QueueSize
       /\ ps[p].step = "publish" =>
            ps[p].pos \in d .. e - 1 /\ AtCell(cs2, ps[p].pos).seq = ps[p].pos
  <2> TAKE p \in Producers
  <2>1. /\ ps[p].pos \in Nat /\ ps[p].pos <= e
        /\ ps[p].step = "claim" => ps[p].pos < l + QueueSize
        /\ ps[p].step = "publish" =>
             ps[p].pos \in d .. e - 1 /\ AtCell(cs, ps[p].pos).seq = ps[p].pos
    BY DEF CellsFit
  <2>2. ps[p].step = "publish" => AtCell(cs2, ps[p].pos).seq = ps[p].pos BY <2>1, <1>6
  <2> QED BY <2>1, <2>2, <1>0, <1>1
<1>10. l2 \in Nat /\ l2 <= d /\ e <= l2 + QueueSize /\ l2 = d BY <1>0, <1>1
<1>11. \A p, o \in Producers :
       ps[p].step = "publish" /\ ps[o].step = "publish" /\ ps[p].pos = ps[o].pos => p = o
  BY DEF CellsFit
<1>12. CellsFit(cs2, e, d, l2, ps) BY ONLY <1>1, <1>7, <1>8, <1>9, <1>10, <1>11 DEF CellsFit
<1> QED BY <1>6, <1>12 DEF InLine

------------------------------------------------------------------------------
PostRecords == [step : {"idle", "look", "claim", "full", "publish"}, pos : Nat,
                blocking : BOOLEAN]
ThreadWork == {"pop", "release", "run", "stop?", "wait", "lastPop", "finished"}
TheLine(cs, e, d, run, ex, ps, cl, ok) ==
  LineFits(InLine(cs, d, e), TaskAt(cs, InLine(cs, d, e)), run, ex, ps, cl, ok)
FirstIsLate(cs, d, it) == AtCell(cs, d).seq = d + 1 => AtCell(cs, d).task \notin it

ThreadIInv ==
  /\ post \in [Producers -> PostRecords] /\ calls \in [Producers -> Nat]
  /\ worker \in ThreadWork /\ stopping \in BOOLEAN
  /\ CellsFit(cells, enqueuePos, dequeuePos, Floor(dequeuePos, worker), post)
  /\ TheLine(cells, enqueuePos, dequeuePos, running, executed, post, calls, postedOk)
  /\ running # NoTask <=> worker \in {"release", "run"}
  /\ inTime \subseteq postedOk
  /\ worker \in {"lastPop", "finished"} => stopping
  /\ worker = "finished" => FirstIsLate(cells, dequeuePos, inTime)

(* A position in line holds a task, the same one while its cell stays.      *)
LEMMA TaskAtType ==
  ASSUME NEW cs, NEW w, \A q \in w : AtCell(cs, q).task \in Tasks
  PROVE  TaskAt(cs, w) \in [w -> Tasks] /\ \A q \in w : TaskAt(cs, w)[q] = AtCell(cs, q).task
BY DEF TaskAt

LEMMA TaskAtSame ==
  ASSUME NEW cs, NEW cs2, NEW w, \A q \in w : AtCell(cs2, q) = AtCell(cs, q)
  PROVE  TaskAt(cs2, w) = TaskAt(cs, w)
BY DEF TaskAt

LEMMA InLineTasks ==
  ASSUME NEW cs, NEW e, NEW d, NEW run, NEW ex, NEW ps, NEW cl, NEW ok,
         TheLine(cs, e, d, run, ex, ps, cl, ok)
  PROVE  \A q \in InLine(cs, d, e) : /\ AtCell(cs, q).task \in Tasks
                                     /\ TaskAt(cs, InLine(cs, d, e))[q] = AtCell(cs, q).task
BY DEF TheLine, LineFits, TaskAt

(* The start.                                                               *)
LEMMA ThreadStarts == ThreadInit => ThreadIInv
<1> SUFFICES ASSUME ThreadInit PROVE ThreadIInv OBVIOUS
<1>0. QueueSize \in Nat \ {0} BY QueueSizeFits
<1>1. post = [p \in Producers |-> Idle] /\ calls = [p \in Producers |-> 0]
      /\ worker = "pop" /\ running = NoTask /\ stopping = FALSE /\ executed = <<>>
      /\ postedOk = {} /\ inTime = {} /\ enqueuePos = 0 /\ dequeuePos = 0
      /\ cells = [c \in 0 .. QueueSize - 1 |-> [seq |-> c, task |-> NoTask]]
  BY DEF ThreadInit
<1>2. post \in [Producers -> PostRecords] /\ \A p \in Producers : post[p].step = "idle" /\ post[p].pos = 0
  BY <1>1 DEF Idle, PostRecords
<1>3. \A q \in 0 .. QueueSize - 1 : CellOf(q) = q BY <1>0 DEF CellOf
<1>4. cells \in [0 .. QueueSize - 1 -> CellRecords] BY <1>1 DEF CellRecords
<1>5. CellsFit(cells, enqueuePos, dequeuePos, Floor(dequeuePos, worker), post)
  BY <1>0, <1>1, <1>2, <1>3, <1>4 DEF CellsFit, Floor, AtCell
<1>6. InLine(cells, dequeuePos, enqueuePos) = {} BY <1>1 DEF InLine
<1>7. TheLine(cells, enqueuePos, dequeuePos, running, executed, post, calls, postedOk)
  <2>1. TaskAt(cells, {}) \in [{} -> Tasks] BY TaskAtType
  <2>2. Members(executed) = {} /\ HeldIn(running) = {} /\ DOMAIN executed = {} /\ executed \in Seq(Tasks)
    BY <1>1 DEF Members, HeldIn
  <2>3. calls \in [Producers -> Nat] BY <1>1
  <2> HIDE DEF Tasks
  <2> QED BY <1>1, <1>6, <2>1, <2>2, <2>3 DEF TheLine, LineFits
<1> QED BY <1>1, <1>2, <1>5, <1>7 DEF ThreadIInv, ThreadWork

(* The steps of a call.                                                     *)
LEMMA PostKeeps ==
  ASSUME ThreadIInv, NEW p \in Producers, NEW blocking \in BOOLEAN, Post(p, blocking)
  PROVE  ThreadIInv'
<1> DEFINE d == dequeuePos
           e == enqueuePos
           l == Floor(dequeuePos, worker)
<1>1. post[p].step = "idle" /\ calls' = [calls EXCEPT ![p] = @ + 1]
      /\ post' = [post EXCEPT ![p] = [step |-> "look", pos |-> enqueuePos, blocking |-> blocking]]
      /\ UNCHANGED <<cells, enqueuePos, dequeuePos, worker, running, stopping, executed, postedOk, inTime>>
  BY DEF Post, queueVars
<1>2. post \in [Producers -> PostRecords] /\ calls \in [Producers -> Nat] /\ enqueuePos \in Nat
  BY DEF ThreadIInv, CellsFit
<1>3. post' \in [Producers -> PostRecords] /\ calls' \in [Producers -> Nat]
      /\ post'[p].step = "look" /\ post'[p].pos = e
      /\ (\A o \in Producers : o # p => post'[o] = post[o])
      /\ (\A o \in Producers : calls'[o] = IF o = p THEN calls[o] + 1 ELSE calls[o])
  BY <1>1, <1>2 DEF PostRecords
<1> HIDE DEF e, d, l
<1>4. CellsFit(cells, e, d, l, post) /\ TheLine(cells, e, d, running, executed, post, calls, postedOk)
      /\ e \in Nat
  BY <1>2 DEF ThreadIInv, e, d, l
<1>5. CellsFit(cells, e, d, l, post') BY ONLY <1>3, <1>4, RingMoves
<1>6. TheLine(cells, e, d, running, executed, post', calls', postedOk)
  BY ONLY <1>3, <1>4, LinePosts DEF TheLine
<1> QED BY <1>1, <1>3, <1>5, <1>6 DEF ThreadIInv, e, d, l

LEMMA CallKeeps ==
  ASSUME ThreadIInv, NEW p \in Producers,
         LookAtCell(p) \/ QueueFull(p) \/ (ClaimPosition(p) /\ enqueuePos # post[p].pos)
  PROVE  ThreadIInv'
<1> DEFINE d == dequeuePos
           e == enqueuePos
           l == Floor(dequeuePos, worker)
<1>1. /\ post[p].step \in {"look", "full", "claim"}
      /\ UNCHANGED <<cells, enqueuePos, dequeuePos, calls, worker, running, stopping, executed, postedOk, inTime>>
  BY DEF LookAtCell, QueueFull, ClaimPosition, queueVars
<1>2. post \in [Producers -> PostRecords] /\ enqueuePos \in Nat
      /\ post[p] \in PostRecords
  BY DEF ThreadIInv, CellsFit
<1>3. \E r \in PostRecords :
        /\ post' = [post EXCEPT ![p] = r]
        /\ \/ r.step = "claim" /\ r.pos = post[p].pos /\ AtCell(cells, r.pos).seq = r.pos
           \/ r.step \in {"idle", "look", "full"} /\ (r.pos = post[p].pos \/ r.pos = e \/ r.pos = 0)
  <2>1. CASE LookAtCell(p)
    <3> DEFINE r1 == [post[p] EXCEPT !.step = "claim"]
               r2 == [post[p] EXCEPT !.step = "full"]
               r3 == [post[p] EXCEPT !.pos = e]
               dif == AtCell(cells, post[p].pos).seq - post[p].pos
    <3>1. /\ r1 \in PostRecords /\ r1.step = "claim" /\ r1.pos = post[p].pos
          /\ r2 \in PostRecords /\ r2.step = "full" /\ r2.pos = post[p].pos
          /\ r3 \in PostRecords /\ r3.step = post[p].step /\ r3.pos = e
      BY <1>2 DEF PostRecords
    <3>2. post' = [post EXCEPT ![p] = IF dif = 0 THEN r1 ELSE IF dif < 0 THEN r2 ELSE r3]
          /\ post[p].step = "look"
      BY <2>1, <1>2 DEF LookAtCell, AtCell
    <3>3. dif = 0 => AtCell(cells, post[p].pos).seq = post[p].pos
      <4>1. AtCell(cells, post[p].pos) \in CellRecords
        BY <1>2, OwnCell DEF ThreadIInv, CellsFit, AtCell, PostRecords
      <4> QED BY <4>1, <1>2 DEF CellRecords, PostRecords
    <3> HIDE DEF r1, r2, r3, dif
    <3>4. CASE dif = 0 BY <3>1, <3>2, <3>3, <3>4
    <3>5. CASE dif # 0 /\ dif < 0 BY <3>1, <3>2, <3>5
    <3>6. CASE dif # 0 /\ ~(dif < 0) BY <3>1, <3>2, <3>6
    <3> QED BY <3>4, <3>5, <3>6
  <2>2. CASE QueueFull(p)
    <3> DEFINE r1 == [post[p] EXCEPT !.step = "look", !.pos = e]
               b == post[p].blocking /\ ~stopping
    <3>1. /\ r1 \in PostRecords /\ r1.step = "look" /\ r1.pos = e
          /\ Idle \in PostRecords /\ Idle.step = "idle" /\ Idle.pos = 0
      BY <1>2 DEF PostRecords, Idle
    <3>2. post' = [post EXCEPT ![p] = IF b THEN r1 ELSE Idle] BY <2>2, <1>2 DEF QueueFull
    <3> HIDE DEF r1, b
    <3>3. CASE b BY <3>1, <3>2, <3>3
    <3>4. CASE ~b BY <3>1, <3>2, <3>4
    <3> QED BY <3>3, <3>4
  <2>3. CASE ClaimPosition(p) /\ enqueuePos # post[p].pos
    <3> DEFINE r1 == [post[p] EXCEPT !.step = "look", !.pos = e]
    <3>1. r1 \in PostRecords /\ r1.step = "look" /\ r1.pos = e BY <1>2 DEF PostRecords
    <3> QED BY <1>2, <2>3, <3>1 DEF ClaimPosition
  <2> QED BY <2>1, <2>2, <2>3
<1>4. PICK r \in PostRecords :
        /\ post' = [post EXCEPT ![p] = r]
        /\ \/ r.step = "claim" /\ r.pos = post[p].pos /\ AtCell(cells, r.pos).seq = r.pos
           \/ r.step \in {"idle", "look", "full"} /\ (r.pos = post[p].pos \/ r.pos = e \/ r.pos = 0)
  BY <1>3
<1>5. post' \in [Producers -> PostRecords] /\ post'[p] = r
      /\ (\A o \in Producers : o # p => post'[o] = post[o])
  BY <1>2, <1>4
<1> HIDE DEF e, d, l
<1>6. CellsFit(cells, e, d, l, post) /\ TheLine(cells, e, d, running, executed, post, calls, postedOk)
  BY DEF ThreadIInv, e, d, l
<1>7. r.pos \in Nat /\ r.pos <= e /\ (r.step = "claim" => r.pos < l + QueueSize)
  <2>1. /\ post[p].pos \in Nat /\ post[p].pos <= e /\ e \in Nat /\ e <= l + QueueSize /\ l \in Nat
        /\ AtCell(cells, l).seq = l \/ AtCell(cells, l).seq = l + 1
    BY <1>6, QueueSizeFits DEF CellsFit
  <2>2. ASSUME r.step = "claim" PROVE r.pos # l + QueueSize
    <3>1. AtCell(cells, l + QueueSize) = AtCell(cells, l) BY <2>1, OwnCell DEF AtCell
    <3> QED BY <1>4, <2>1, <2>2, <3>1, QueueSizeFits
  <2> QED BY <1>4, <2>1, <2>2, QueueSizeFits
<1>8. CellsFit(cells, e, d, l, post') BY ONLY <1>4, <1>5, <1>6, <1>7, RingMoves
<1>9. TheLine(cells, e, d, running, executed, post', calls, postedOk)
  BY ONLY <1>1, <1>4, <1>5, <1>6, LineMoves DEF TheLine
<1> QED BY <1>1, <1>5, <1>8, <1>9 DEF ThreadIInv, e, d, l

LEMMA ClaimKeeps ==
  ASSUME ThreadIInv, NEW p \in Producers, ClaimPosition(p), enqueuePos = post[p].pos
  PROVE  ThreadIInv'
<1> DEFINE d == dequeuePos
           e == enqueuePos
           e2 == enqueuePos'
           l == Floor(dequeuePos, worker)
<1>1. /\ post[p].step = "claim" /\ e2 = e + 1 /\ post' = [post EXCEPT ![p].step = "publish"]
      /\ UNCHANGED <<cells, dequeuePos, calls, worker, running, stopping, executed, postedOk, inTime>>
  BY DEF ClaimPosition
<1>2. post' \in [Producers -> PostRecords] /\ post'[p].step = "publish" /\ post'[p].pos = e
      /\ (\A o \in Producers : o # p => post'[o] = post[o])
  BY <1>1 DEF PostRecords, ThreadIInv
<1> HIDE DEF e, d, l, e2
<1>3. CellsFit(cells, e, d, l, post) /\ TheLine(cells, e, d, running, executed, post, calls, postedOk)
      /\ post[p].pos = e
  BY DEF ThreadIInv, e, d, l
<1>4. CellsFit(cells, e2, d, l, post')
      /\ InLine(cells, d, e2) = InLine(cells, d, e) /\ \A q \in InLine(cells, d, e) : q < e
  <2>1. /\ CellsFit(cells, e, d, l, post)
        /\ \A o \in Producers : o # p => post'[o] = post[o]
        /\ post[p].step = "claim" /\ post[p].pos = e /\ e2 = e + 1
        /\ post'[p].pos = e /\ post'[p].step = "publish"
    BY <1>1, <1>2, <1>3
  <2>2. ToClaim(cells, e, d, l, post, e2, post', p) BY ONLY <2>1, p \in Producers DEF ToClaim
  <2> QED BY ONLY <2>2, RingClaims
<1>5. TheLine(cells, e2, d, running, executed, post', calls, postedOk)
  <2>1. post[p].step # "idle" /\ (post'[p].step = "publish" => \A q \in InLine(cells, d, e) : q < post'[p].pos)
    BY <1>1, <1>2, <1>4
  <2>2. TheLine(cells, e, d, running, executed, post', calls, postedOk)
    BY ONLY <1>2, <1>3, <2>1, LineMoves DEF TheLine
  <2> QED BY ONLY <2>2, <1>4 DEF TheLine
<1> QED BY <1>1, <1>2, <1>4, <1>5 DEF ThreadIInv, e2, d, l

LEMMA PublishKeeps ==
  ASSUME ThreadIInv, NEW p \in Producers, PublishCell(p)
  PROVE  ThreadIInv'
<1> DEFINE d == dequeuePos
           e == enqueuePos
           l == Floor(dequeuePos, worker)
           pos == post[p].pos
           t == <<p, calls[p]>>
           w == InLine(cells, d, e)
           w2 == InLine(cells', d, e)
<1>1. /\ post[p].step = "publish" /\ post' = [post EXCEPT ![p] = Idle]
      /\ cells' = [cells EXCEPT ![CellOf(pos)] = [seq |-> pos + 1, task |-> t]]
      /\ postedOk' = postedOk \cup {t}
      /\ inTime' = IF stopping THEN inTime ELSE inTime \cup {t}
      /\ UNCHANGED <<enqueuePos, dequeuePos, calls, worker, running, stopping, executed>>
  BY DEF PublishCell, Task
<1>2. /\ post' \in [Producers -> PostRecords] /\ post'[p].step = "idle" /\ post'[p].pos = 0
      /\ (\A o \in Producers : o # p => post'[o] = post[o])
      /\ t \in Tasks /\ pos \in Int
  BY <1>1 DEF PostRecords, Idle, Tasks, ThreadIInv
<1>3. CellsFit(cells, e, d, l, post) /\ TheLine(cells, e, d, running, executed, post, calls, postedOk)
  BY DEF ThreadIInv
<1> HIDE DEF e, d, l, w, w2, t
<1>4. /\ CellsFit(cells', e, d, l, post')
      /\ pos \in d .. e - 1 /\ pos \notin w /\ w2 = w \cup {pos}
      /\ AtCell(cells', pos) = [seq |-> pos + 1, task |-> t]
      /\ \A q \in l .. l + QueueSize - 1 : q # pos => AtCell(cells', q) = AtCell(cells, q)
  <2>1. /\ CellsFit(cells, e, d, l, post)
        /\ \A o \in Producers : o # p => post'[o] = post[o]
        /\ post[p].step = "publish" /\ post[p].pos = pos
        /\ post'[p].pos \in Nat /\ post'[p].pos <= e /\ post'[p].step = "idle"
        /\ cells' = [cells EXCEPT ![CellOf(pos)] = [seq |-> pos + 1, task |-> t]]
    BY <1>1, <1>2, <1>3 DEF CellsFit
  <2> HIDE DEF pos
  <2>2. ToPublish(cells, e, d, l, post, cells', post', p, pos, t)
    BY ONLY <2>1, <1>2, p \in Producers DEF ToPublish
  <2> QED BY ONLY <2>2, RingPublishes DEF w, w2
<1>5. d \in Nat /\ e \in Nat /\ l \in Nat /\ l <= d /\ e <= l + QueueSize /\ QueueSize \in Nat /\ QueueSize >= 2
  BY <1>3, QueueSizeFits DEF CellsFit
<1>6. \A q \in w : q \in l .. l + QueueSize - 1 /\ AtCell(cells', q) = AtCell(cells, q)
  BY <1>4, <1>5 DEF w, InLine
<1>7. \A q \in w : AtCell(cells, q).task \in Tasks /\ TaskAt(cells, w)[q] = AtCell(cells, q).task
  BY <1>3, InLineTasks DEF w
<1>8. TaskAt(cells', w2) \in [w2 -> Tasks] /\ \A q \in w2 : TaskAt(cells', w2)[q] = AtCell(cells', q).task
  BY <1>2, <1>4, <1>6, <1>7, TaskAtType
<1>9. /\ LineFits(w2, TaskAt(cells', w2), running, executed, post', calls, postedOk') /\ t \notin postedOk
  <2>1. LineFits(w, TaskAt(cells, w), running, executed, post, calls, postedOk)
    BY <1>3 DEF TheLine, w
  <2>2. TaskAt(cells', w2)[pos] = t
    <3>1. pos \in w2 BY ONLY <1>4
    <3>2. AtCell(cells', pos).task = t BY ONLY <1>4
    <3> QED BY ONLY <3>1, <3>2, <1>8
  <2>3. \A q \in w : TaskAt(cells', w2)[q] = TaskAt(cells, w)[q] BY ONLY <1>4, <1>6, <1>7, <1>8
  <2>4. post[p].pos = pos OBVIOUS
  <2> HIDE DEF pos
  <2>5. ToLine(w, TaskAt(cells, w), running, executed, post, calls, postedOk, w2, TaskAt(cells', w2), post', postedOk', p, pos)
    BY ONLY <1>1, <1>2, <1>4, <1>8, <2>1, <2>2, <2>3, <2>4, p \in Producers DEF ToLine, t
  <2> QED BY ONLY <2>5, LinePublishes DEF t
<1>10. TheLine(cells', e, d, running, executed, post', calls, postedOk')
  BY <1>9 DEF TheLine, w2
<1>11. ASSUME worker = "finished" PROVE FirstIsLate(cells', d, inTime')
  <2>1. inTime' = inTime /\ inTime \subseteq postedOk /\ FirstIsLate(cells, d, inTime)
    BY <1>1, <1>11 DEF ThreadIInv, d
  <2>2. CASE d = pos BY <2>1, <2>2, <1>4, <1>9 DEF FirstIsLate
  <2>3. CASE d # pos
    <3>1. AtCell(cells', d) = AtCell(cells, d) BY <1>4, <1>5, <1>11, <2>3 DEF l, d, Floor
    <3> QED BY <2>1, <3>1 DEF FirstIsLate
  <2> QED BY <2>2, <2>3
<1>12. e = enqueuePos' /\ d = dequeuePos' /\ l = Floor(dequeuePos', worker') BY <1>1 DEF e, d, l
<1> QED BY <1>1, <1>2, <1>4, <1>10, <1>11, <1>12 DEF ThreadIInv

(* The steps of the worker.                                                 *)
LEMMA TakeKeeps ==
  ASSUME ThreadIInv, TakeTask
  PROVE  ThreadIInv'
<1> DEFINE d == dequeuePos
           d2 == dequeuePos'
           e == enqueuePos
           w == InLine(cells, d, e)
           w2 == InLine(cells, d2, e)
<1>1. /\ worker \in {"pop", "lastPop"} /\ worker' = "release"
      /\ AtCell(cells, d).seq = d + 1 /\ d2 = d + 1
      /\ running' = AtCell(cells, d).task
      /\ UNCHANGED <<cells, enqueuePos, post, calls, stopping, executed, postedOk, inTime>>
  BY DEF TakeTask, CellPublished, AtCell
<1>2. /\ CellsFit(cells, e, d, d, post) /\ TheLine(cells, e, d, running, executed, post, calls, postedOk)
      /\ running = NoTask
  BY <1>1 DEF ThreadIInv, Floor
<1> HIDE DEF d, d2, e, w, w2
<1>3. /\ CellsFit(cells, e, d2, d, post)
      /\ d \in w /\ (\A q \in w : d <= q) /\ w2 = w \ {d}
  BY <1>1, <1>2, RingTakes DEF w, w2
<1>4. \A q \in w : AtCell(cells, q).task \in Tasks /\ TaskAt(cells, w)[q] = AtCell(cells, q).task
  BY <1>2, InLineTasks DEF w
<1>5. TaskAt(cells, w2) \in [w2 -> Tasks] /\ \A q \in w2 : TaskAt(cells, w2)[q] = AtCell(cells, q).task
  BY <1>3, <1>4, TaskAtType
<1>6. LineFits(w2, TaskAt(cells, w2), running', executed, post, calls, postedOk)
      /\ running' \in Tasks /\ running' # NoTask
  <2>1. /\ LineFits(w, TaskAt(cells, w), running, executed, post, calls, postedOk)
        /\ running' = TaskAt(cells, w)[d]
        /\ \A q \in w2 : TaskAt(cells, w2)[q] = TaskAt(cells, w)[q]
    BY <1>1, <1>2, <1>3, <1>4, <1>5 DEF TheLine, w
  <2>2. ToTake(w, TaskAt(cells, w), running, executed, post, calls, postedOk, w2, TaskAt(cells, w2), running', d)
    BY ONLY <2>1, <1>2, <1>3, <1>5 DEF ToTake
  <2> QED BY ONLY <2>2, LineTakes
<1>7. d = Floor(d2, worker') BY <1>1, <1>2 DEF Floor, CellsFit
<1> QED BY <1>1, <1>3, <1>6, <1>7 DEF ThreadIInv, d, d2, e, ThreadWork, TheLine, w2

LEMMA ReleaseKeeps ==
  ASSUME ThreadIInv, ReleaseCell
  PROVE  ThreadIInv'
<1> DEFINE d == dequeuePos
           e == enqueuePos
           l == d - 1
           w == InLine(cells, d, e)
           w2 == InLine(cells', d, e)
<1>1. /\ worker = "release" /\ worker' = "run"
      /\ cells' = [cells EXCEPT ![CellOf(l)].seq = l + QueueSize]
      /\ UNCHANGED <<enqueuePos, dequeuePos, post, calls, running, stopping, executed, postedOk, inTime>>
  BY DEF ReleaseCell
<1>2. /\ CellsFit(cells, e, d, l, post) /\ TheLine(cells, e, d, running, executed, post, calls, postedOk)
      /\ running # NoTask
  BY <1>1 DEF ThreadIInv, Floor
<1> HIDE DEF d, e, w, w2
<1>3. /\ CellsFit(cells', e, d, d, post) /\ w2 = w
      /\ \A q \in d .. e - 1 : AtCell(cells', q) = AtCell(cells, q)
  <2>1. ToRelease(cells, e, d, l, post, cells', d) BY <1>1, <1>2 DEF ToRelease
  <2> HIDE DEF l
  <2> QED BY ONLY <2>1, RingReleases DEF w, w2
<1>4. TaskAt(cells', w) = TaskAt(cells, w)
  <2>1. \A q \in w : AtCell(cells', q) = AtCell(cells, q) BY <1>3 DEF w, InLine
  <2> QED BY ONLY <2>1, TaskAtSame
<1>5. d = Floor(dequeuePos', worker') /\ d = dequeuePos' /\ e = enqueuePos'
  BY <1>1 DEF Floor, d, e
<1> QED BY <1>1, <1>2, <1>3, <1>4, <1>5 DEF ThreadIInv, ThreadWork, TheLine, w, w2

LEMMA RunKeeps ==
  ASSUME ThreadIInv, RunTask
  PROVE  ThreadIInv'
<1>1. /\ worker = "run" /\ worker' = "pop" /\ running' = NoTask
      /\ executed' = Append(executed, running)
      /\ UNCHANGED <<cells, enqueuePos, dequeuePos, post, calls, stopping, postedOk, inTime>>
  BY DEF RunTask, queueVars
<1>2. /\ CellsFit(cells, enqueuePos, dequeuePos, dequeuePos, post)
      /\ TheLine(cells, enqueuePos, dequeuePos, running, executed, post, calls, postedOk)
      /\ running # NoTask
  BY <1>1 DEF ThreadIInv, Floor
<1>3. running \in Tasks BY <1>2 DEF TheLine, LineFits
<1>4. TheLine(cells, enqueuePos, dequeuePos, running', executed', post, calls, postedOk)
  BY ONLY <1>1, <1>2, <1>3, LineRuns DEF TheLine
<1> QED BY <1>1, <1>2, <1>4 DEF ThreadIInv, ThreadWork, Floor

LEMMA LoopKeeps ==
  ASSUME ThreadIInv, FindEmpty \/ ReadStopFlag \/ Wake \/ Finish
  PROVE  ThreadIInv'
<1>1. /\ worker \in {"pop", "stop?", "wait", "lastPop"}
      /\ worker' \in {"stop?", "lastPop", "wait", "pop", "finished"}
      /\ worker' \in {"lastPop", "finished"} => stopping
      /\ worker' = "finished" => AtCell(cells, dequeuePos).seq # dequeuePos + 1
      /\ UNCHANGED <<cells, enqueuePos, dequeuePos, post, calls, running, stopping, executed, postedOk, inTime>>
  BY DEF FindEmpty, ReadStopFlag, Wake, Finish, queueVars, CellPublished, AtCell, ThreadIInv
<1>2. worker' = "finished" => FirstIsLate(cells, dequeuePos, inTime) BY <1>1 DEF FirstIsLate
<1>3. running = NoTask BY <1>1 DEF ThreadIInv
<1> QED BY <1>1, <1>2, <1>3 DEF ThreadIInv, ThreadWork, Floor

LEMMA ThreadSteps == ThreadIInv /\ [ThreadNext]_threadVars => ThreadIInv'
<1> SUFFICES ASSUME ThreadIInv, [ThreadNext]_threadVars PROVE ThreadIInv' OBVIOUS
<1>1. CASE \E p \in Producers, blocking \in BOOLEAN : Post(p, blocking) BY <1>1, PostKeeps
<1>2. CASE \E p \in Producers : PostStep(p)
  <2>1. PICK p \in Producers : PostStep(p) BY <1>2
  <2>2. CASE LookAtCell(p) \/ QueueFull(p) BY <2>2, CallKeeps
  <2>3. CASE ClaimPosition(p) BY <2>3, CallKeeps, ClaimKeeps
  <2>4. CASE PublishCell(p) BY <2>4, PublishKeeps
  <2> QED BY <2>1, <2>2, <2>3, <2>4 DEF PostStep
<1>3. CASE RequestStop BY <1>3 DEF ThreadIInv, RequestStop, queueVars
<1>4. CASE RunLoop BY <1>4, TakeKeeps, ReleaseKeeps, RunKeeps, LoopKeeps DEF RunLoop
<1>5. CASE UNCHANGED threadVars BY <1>5 DEF ThreadIInv, threadVars
<1> QED BY <1>1, <1>2, <1>3, <1>4, <1>5 DEF ThreadNext

LEMMA ThreadSafe ==
  ThreadIInv => TasksAccountedFor /\ PostOrderKept /\ OwesOnlyBehindUnpublished
<1> SUFFICES ASSUME ThreadIInv PROVE TasksAccountedFor /\ PostOrderKept /\ OwesOnlyBehindUnpublished
  OBVIOUS
<1> DEFINE w == InLine(cells, dequeuePos, enqueuePos)
           at == TaskAt(cells, w)
<1>1. LineFits(w, at, running, executed, post, calls, postedOk) BY DEF ThreadIInv, TheLine
<1>2. Executed = Members(executed) /\ Held = HeldIn(running)
  BY DEF Executed, Members, Held, HeldIn
<1>3. Queued = {at[q] : q \in w} BY DEF TaskAt, Queued, InLine, AtCell
<1>4. TasksAccountedFor
  <2> HIDE DEF w, at
  <2> QED BY <1>1, <1>2, <1>3, LineSafe DEF TasksAccountedFor
<1>5. OwesOnlyBehindUnpublished
  <2> SUFFICES ASSUME worker = "finished", NEW t \in inTime \ Executed
               PROVE  /\ \E q \in dequeuePos + 1 .. enqueuePos - 1 : cells[CellOf(q)].task = t
                      /\ cells[CellOf(dequeuePos)].seq = dequeuePos + 1 =>
                           cells[CellOf(dequeuePos)].task \notin inTime
    BY DEF OwesOnlyBehindUnpublished
  <2>1. FirstIsLate(cells, dequeuePos, inTime) /\ running = NoTask /\ t \in postedOk
    BY DEF ThreadIInv
  <2>2. t \in Queued BY <1>4, <2>1 DEF TasksAccountedFor, Held
  <2>3. PICK q \in dequeuePos .. enqueuePos - 1 : cells[CellOf(q)].seq = q + 1 /\ t = cells[CellOf(q)].task
    BY <2>2 DEF Queued
  <2>4. dequeuePos \in Nat /\ enqueuePos \in Nat BY DEF ThreadIInv, CellsFit
  <2> QED BY <2>1, <2>3, <2>4 DEF FirstIsLate, AtCell
<1> QED BY <1>1, <1>4, <1>5 DEF LineFits, PostOrderKept

(* No posted task is lost or run twice, the tasks of one producer run in    *)
(* the order of their posts, and a worker that has finished owes only       *)
(* tasks behind a cell that was not published: for any producers, queue     *)
(* and interleaving.                                                        *)
THEOREM ThreadCorrect == ThreadSpec => [](TasksAccountedFor /\ PostOrderKept /\ OwesOnlyBehindUnpublished)
BY ThreadStarts, ThreadSteps, ThreadSafe, PTL DEF ThreadSpec

------------------------------------------------------------------------------
(* The timers.  A slot is in the heap or free, and a timer that is not in   *)
(* the index will not fire.                                                 *)

TimerRecords == [id : Nat, deadline : Nat, period : Nat]
Named(slots, S) == {slots[s].id : s \in S}

(* Every slot is in the heap or free, once, and a timer has one slot.       *)
SlotsFit(slots, in, gone, free, known, next) ==
    /\ slots \in Seq(TimerRecords) /\ free \in Seq(Nat) /\ next \in Nat \ {0}
    /\ NoRepeat(free) /\ in \cap Members(free) = {} /\ in \cup Members(free) = DOMAIN slots
    /\ gone \subseteq in /\ known = Named(slots, in \ gone)
    /\ \A s \in in : slots[s].id \in 1 .. next - 1
    /\ \A s, t \in in : slots[s].id = slots[t].id => s = t
    /\ \A s \in DOMAIN slots \ in : slots[s].id = 0

(* A timer that is due has not fired in this Tick; one whose rounds run is  *)
(* not due again, and what it fired and what it has left is bounded.        *)
FiringsFit(slots, in, run, current, now, next) ==
    /\ now \in [Ids -> Nat]
    /\ \A i \in Ids : now[i] <= MaxCatchUp /\ (i >= next => now[i] = 0)
    /\ run.on => \A s \in in : slots[s].deadline <= run.now => now[slots[s].id] = 0
    /\ run.rounds > 0 =>
          /\ run.on /\ run.id \in 1 .. next - 1 /\ run.slot \in DOMAIN slots
          /\ now[run.id] + run.rounds <= MaxCatchUp + (IF current = 0 THEN 0 ELSE 1)
          /\ \A s \in in : slots[s].id = run.id => slots[s].deadline > run.now

TimerIInv ==
    /\ SlotsFit(timers, heap, dead, freeSlots, index, nextId)
    /\ FiringsFit(timers, heap, tick, callback, firedNow, nextId)
    /\ nextId <= MaxTimers + 1
    /\ tick \in [on : BOOLEAN, now : Nat, slot : Nat, id : Nat, rounds : Nat]
    /\ callback \in Nat /\ fired \in [Ids -> Nat]

------------------------------------------------------------------------------
(* The top of a heap with timers in it is one of them.                      *)
LEMMA TopOf ==
  ASSUME TimerIInv, heap # {}
  PROVE  Top \in heap /\ \A t \in heap : Earlier(Top, t)
<1>0. \A s \in heap : s \in DOMAIN timers /\ timers[s].id \in Nat /\ timers[s].deadline \in Nat
  <2> SUFFICES ASSUME NEW s \in heap
               PROVE  s \in DOMAIN timers /\ timers[s].id \in Nat /\ timers[s].deadline \in Nat
    OBVIOUS
  <2>1. timers \in Seq(TimerRecords) /\ s \in DOMAIN timers BY DEF TimerIInv, SlotsFit
  <2>2. timers[s] \in TimerRecords BY <2>1
  <2> QED BY <2>1, <2>2 DEF TimerRecords
<1> DEFINE D == {timers[s].deadline : s \in heap}
<1>1. PICK d \in D : \A e \in D : d <= e
  <2>1. D \in SUBSET Nat /\ D # {} BY <1>0
  <2> HIDE DEF D
  <2> QED BY <2>1, LeastOf
<1> DEFINE I == {timers[s].id : s \in {t \in heap : timers[t].deadline = d}}
<1>2. PICK m \in I : \A i \in I : m <= i
  <2>1. I \in SUBSET Nat /\ I # {} BY <1>0, <1>1
  <2> HIDE DEF I, D
  <2> QED BY <2>1, LeastOf
<1>3. PICK s \in heap : timers[s].deadline = d /\ timers[s].id = m BY <1>2
<1>4. ASSUME NEW t \in heap PROVE Earlier(s, t)
  <2>1. timers[t].deadline = d => m <= timers[t].id BY <1>2
  <2> QED BY <1>0, <1>1, <1>3, <2>1 DEF Earlier
<1> QED BY <1>4 DEF Top

(* Slots of out leave the heap and are free.                                *)
SlotsLeave(slots, in, gone, free, known, out, slots2, in2, gone2, free2, known2) ==
    /\ out \subseteq in /\ slots2 = Recycled(slots, out) /\ in2 = in \ out /\ gone2 = gone \ out
    /\ free2 \in Seq(Nat) /\ NoRepeat(free2) /\ Members(free2) = Members(free) \cup out
    /\ known2 = known \ Named(slots, out \ gone)

SlotsKept(slots, in, slots2, in2) ==
    in2 \subseteq in /\ DOMAIN slots2 = DOMAIN slots /\ \A s \in in2 : slots2[s] = slots[s]

LEMMA SlotsRecycled ==
  ASSUME NEW slots, NEW in, NEW gone, NEW free, NEW known, NEW next, NEW out,
         NEW slots2, NEW in2, NEW gone2, NEW free2, NEW known2,
         SlotsFit(slots, in, gone, free, known, next),
         SlotsLeave(slots, in, gone, free, known, out, slots2, in2, gone2, free2, known2)
  PROVE  /\ SlotsFit(slots2, in2, gone2, free2, known2, next)
         /\ SlotsKept(slots, in, slots2, in2)
<1>0. /\ out \subseteq in /\ slots2 = Recycled(slots, out) /\ in2 = in \ out /\ gone2 = gone \ out
      /\ free2 \in Seq(Nat) /\ NoRepeat(free2) /\ Members(free2) = Members(free) \cup out
      /\ known2 = known \ Named(slots, out \ gone)
  BY DEF SlotsLeave
<1>1. DOMAIN slots = 1 .. Len(slots) /\ Len(slots) \in Nat /\ slots \in Seq(TimerRecords)
  BY LenProperties DEF SlotsFit
<1>2. /\ DOMAIN slots2 = DOMAIN slots
      /\ \A s \in DOMAIN slots : slots2[s] = IF s \in out THEN [slots[s] EXCEPT !.id = 0, !.period = 0]
                                             ELSE slots[s]
      /\ slots2 = [s \in DOMAIN slots |-> slots2[s]]
  BY <1>0 DEF Recycled
<1>3. ASSUME NEW s \in DOMAIN slots PROVE slots2[s] \in TimerRecords /\ (s \in out => slots2[s].id = 0)
  <2> DEFINE r == slots[s]
             cut == [r EXCEPT !.id = 0, !.period = 0]
  <2>1. r \in TimerRecords BY <1>1, ElementOfSeq
  <2>2. cut \in TimerRecords /\ cut.id = 0 BY <2>1 DEF TimerRecords
  <2>3. slots2[s] = IF s \in out THEN cut ELSE r BY <1>2
  <2> HIDE DEF cut, r
  <2> QED BY <2>1, <2>2, <2>3
<1>4. slots2 \in Seq(TimerRecords)
  <2>1. slots2 \in [1 .. Len(slots) -> TimerRecords] BY <1>1, <1>2, <1>3
  <2> QED BY <1>1, <2>1
<1>5. \A s \in in : s \in DOMAIN slots BY DEF SlotsFit
<1>6. \A s \in in2 : slots2[s] = slots[s] BY <1>0, <1>2, <1>5
<1>7. in2 \ gone2 = (in \ gone) \ (out \ gone) BY <1>0 DEF SlotsFit
<1>8. known2 = Named(slots2, in2 \ gone2)
  <2>1. ASSUME NEW s \in (in \ gone) \ (out \ gone)
        PROVE  slots[s].id \in known \ Named(slots, out \ gone) /\ slots2[s] = slots[s]
    BY <1>0, <1>6 DEF SlotsFit, Named
  <2>2. ASSUME NEW i \in known \ Named(slots, out \ gone)
        PROVE  \E s \in (in \ gone) \ (out \ gone) : slots2[s].id = i
    <3>1. PICK s \in in \ gone : slots[s].id = i BY DEF SlotsFit, Named
    <3> QED BY <1>0, <1>6, <3>1 DEF Named
  <2> QED BY <1>0, <1>7, <2>1, <2>2 DEF Named
<1>9. \A s \in DOMAIN slots2 \ in2 : slots2[s].id = 0 BY <1>0, <1>2, <1>3 DEF SlotsFit
<1>10. in2 \cap Members(free2) = {} /\ in2 \cup Members(free2) = DOMAIN slots2
  BY <1>0, <1>2 DEF SlotsFit
<1>11. SlotsFit(slots2, in2, gone2, free2, known2, next)
  <2>1. gone2 \subseteq in2 /\ in2 \subseteq in BY <1>0 DEF SlotsFit
  <2>2. \A s \in in2 : slots2[s].id \in 1 .. next - 1 BY <1>6, <2>1 DEF SlotsFit
  <2>3. \A s, t \in in2 : slots2[s].id = slots2[t].id => s = t BY <1>6, <2>1 DEF SlotsFit
  <2>4. free2 \in Seq(Nat) /\ NoRepeat(free2) /\ next \in Nat \ {0} BY <1>0 DEF SlotsFit
  <2> QED BY <1>4, <1>8, <1>9, <1>10, <2>1, <2>2, <2>3, <2>4 DEF SlotsFit
<1> QED BY <1>0, <1>2, <1>6, <1>11 DEF SlotsKept

LEMMA FiringsFewer ==
  ASSUME NEW slots, NEW in, NEW run, NEW current, NEW now, NEW next, NEW slots2, NEW in2,
         FiringsFit(slots, in, run, current, now, next), SlotsKept(slots, in, slots2, in2)
  PROVE  FiringsFit(slots2, in2, run, current, now, next)
BY DEF FiringsFit, SlotsKept

(* What Compact leaves behind.                                              *)
LEMMA Compacted ==
  ASSUME TimerIInv, NEW out \in SUBSET heap, dead \subseteq out, Compact(out)
  PROVE  /\ SlotsFit(timers', heap', dead', freeSlots', index \ Named(timers, out \ dead), nextId)
         /\ FiringsFit(timers', heap', tick, callback, firedNow, nextId)
<1>1. PICK o \in Orders(out) : freeSlots' = freeSlots \o o BY DEF Compact
<1>2. /\ timers' = Recycled(timers, out) /\ heap' = heap \ out /\ dead' = {}
      /\ dead \ out = {}
  BY DEF Compact
<1>3. IsFiniteSet(out) /\ out \subseteq Nat /\ freeSlots \in Seq(Nat)
  <2>1. DOMAIN timers = 1 .. Len(timers) /\ Len(timers) \in Nat
    BY LenProperties DEF TimerIInv, SlotsFit
  <2>2. out \in SUBSET (1 .. Len(timers)) BY <2>1 DEF TimerIInv, SlotsFit
  <2> DEFINE n == Len(timers)
  <2> HIDE DEF n
  <2>3. IsFiniteSet(1 .. n) BY <2>1, FS_Interval DEF n
  <2>4. out \subseteq Nat /\ freeSlots \in Seq(Nat) BY <2>2 DEF TimerIInv, SlotsFit
  <2> QED BY <2>2, <2>3, <2>4, FS_Subset DEF n
<1>4. o \in Seq(out) /\ NoRepeat(o) /\ Len(o) = Cardinality(out)
  <2>1. Cardinality(out) \in Nat BY <1>3, FS_CardinalityType
  <2> QED BY <2>1 DEF NoRepeat, Orders
<1>5. Members(o) = out BY <1>3, <1>4, AllNamed
<1>6. o \in Seq(Nat) BY <1>3, <1>4, SeqMonotonic
<1>7. /\ freeSlots' \in Seq(Nat) /\ NoRepeat(freeSlots')
      /\ Members(freeSlots') = Members(freeSlots) \cup out
  BY <1>1, <1>3, <1>4, <1>5, <1>6, ConcatMembers DEF TimerIInv, SlotsFit
<1> DEFINE index2 == index \ Named(timers, out \ dead)
<1>8. SlotsLeave(timers, heap, dead, freeSlots, index, out, timers', heap', dead', freeSlots', index2)
  BY <1>2, <1>7 DEF SlotsLeave
<1>9. SlotsFit(timers, heap, dead, freeSlots, index, nextId)
       /\ FiringsFit(timers, heap, tick, callback, firedNow, nextId)
  BY DEF TimerIInv
<1> HIDE DEF index2
<1>10. /\ SlotsFit(timers', heap', dead', freeSlots', index2, nextId)
       /\ SlotsKept(timers, heap, timers', heap')
  BY <1>8, <1>9, SlotsRecycled
<1> QED BY <1>9, <1>10, FiringsFewer DEF index2

(* A new timer takes a free slot, or one more.                              *)
SlotsTake(slots, in, free, known, next, rec, slot, slots2, in2, free2, known2) ==
    /\ \/ free = <<>> /\ slot = Len(slots) + 1 /\ slots2 = Append(slots, rec) /\ free2 = free
       \/ /\ free # <<>> /\ slot = free[Len(free)] /\ slots2 = [slots EXCEPT ![slot] = rec]
          /\ free2 = SubSeq(free, 1, Len(free) - 1)
    /\ in2 = in \cup {slot} /\ rec \in TimerRecords /\ rec.id = next /\ known2 = known \cup {next}

SlotsGrown(slots, in, slot, rec, slots2) ==
    /\ slot \notin in /\ DOMAIN slots \subseteq DOMAIN slots2
    /\ \A s \in in : slots2[s] = slots[s]
    /\ slots2[slot] = rec

LEMMA SlotsTaken ==
  ASSUME NEW slots, NEW in, NEW gone, NEW free, NEW known, NEW next,
         NEW rec, NEW slot, NEW slots2, NEW in2, NEW free2, NEW known2, NEW next2,
         SlotsFit(slots, in, gone, free, known, next), next2 = next + 1,
         SlotsTake(slots, in, free, known, next, rec, slot, slots2, in2, free2, known2)
  PROVE  /\ SlotsFit(slots2, in2, gone, free2, known2, next2)
         /\ SlotsGrown(slots, in, slot, rec, slots2)
<1>a. in2 = in \cup {slot} /\ rec \in TimerRecords /\ rec.id = next /\ known2 = known \cup {next}
  BY DEF SlotsTake
<1>0. /\ DOMAIN slots = 1 .. Len(slots) /\ Len(slots) \in Nat /\ slots \in Seq(TimerRecords)
      /\ free \in Seq(Nat) /\ NoRepeat(free) /\ Members(free) = DOMAIN slots \ in
      /\ in \subseteq DOMAIN slots /\ next \in Nat \ {0}
  BY LenProperties DEF SlotsFit
<1>1. /\ slots2 \in Seq(TimerRecords) /\ slot \notin in
      /\ DOMAIN slots2 = DOMAIN slots \cup {slot}
      /\ \A s \in DOMAIN slots : s # slot => slots2[s] = slots[s]
      /\ slots2[slot] = rec
      /\ free2 \in Seq(Nat) /\ NoRepeat(free2) /\ Members(free2) = DOMAIN slots \ (in \cup {slot})
  <2>1. CASE free = <<>>
    <3>1. slot = Len(slots) + 1 /\ slots2 = Append(slots, rec) /\ free2 = free
      BY <2>1 DEF SlotsTake
    <3>2. /\ slots2 \in Seq(TimerRecords) /\ Len(slots2) = Len(slots) + 1
          /\ \A i \in 1 .. Len(slots) : slots2[i] = slots[i]
          /\ slots2[Len(slots) + 1] = rec
      BY <1>0, <1>a, <3>1, AppendProperties
    <3> QED BY <1>0, <3>1, <3>2, LenProperties
  <2>2. CASE free # <<>>
    <3>1. /\ slot = free[Len(free)] /\ slots2 = [slots EXCEPT ![slot] = rec]
          /\ free2 = SubSeq(free, 1, Len(free) - 1)
      BY <2>2 DEF SlotsTake
    <3>2. /\ free2 \in Seq(Nat) /\ NoRepeat(free2) /\ slot \in Members(free)
          /\ Members(free2) = Members(free) \ {slot}
      BY <1>0, <2>2, <3>1, FrontMembers
    <3>3. slot \in DOMAIN slots /\ slot \notin in BY <1>0, <3>2
    <3>4. /\ slots2 \in Seq(TimerRecords) /\ Len(slots2) = Len(slots)
          /\ \A j \in 1 .. Len(slots) : slots2[j] = IF j = slot THEN rec ELSE slots[j]
      BY <1>0, <1>a, <3>1, <3>3, ExceptSeq
    <3> QED BY <1>0, <3>2, <3>3, <3>4, LenProperties
  <2> QED BY <2>1, <2>2
<1>2. \A s \in in : slots2[s] = slots[s] /\ s # slot /\ s \in DOMAIN slots BY <1>0, <1>1
<1>3. known2 = Named(slots2, in2 \ gone)
  <2>1. known = Named(slots, in \ gone) /\ gone \subseteq in BY DEF SlotsFit
  <2> QED BY <1>a, <1>1, <1>2, <2>1 DEF Named
<1>4. \A s \in in : slots2[s].id \in 1 .. next - 1 BY <1>2 DEF SlotsFit
<1>5. \A s \in in2 : slots2[s].id \in 1 .. next BY <1>a, <1>0, <1>1, <1>4
<1>6. \A s, t \in in2 : slots2[s].id = slots2[t].id => s = t
  <2>1. \A s \in in : slots2[s].id # next BY <1>0, <1>4
  <2> QED BY <1>a, <1>1, <1>2, <2>1 DEF SlotsFit
<1>7. \A s \in DOMAIN slots2 \ in2 : slots2[s].id = 0 BY <1>a, <1>1 DEF SlotsFit
<1>8. in2 \cap Members(free2) = {} /\ in2 \cup Members(free2) = DOMAIN slots2 /\ gone \subseteq in2
  BY <1>a, <1>0, <1>1 DEF SlotsFit
<1>9. next2 \in Nat \ {0} /\ next2 - 1 = next BY <1>0
<1>10. SlotsFit(slots2, in2, gone, free2, known2, next2)
  BY <1>1, <1>3, <1>5, <1>6, <1>7, <1>8, <1>9 DEF SlotsFit
<1> QED BY <1>0, <1>1, <1>2, <1>10 DEF SlotsGrown

------------------------------------------------------------------------------
LEMMA TimerStarts == TimersInit => TimerIInv
<1> SUFFICES ASSUME TimersInit PROVE TimerIInv OBVIOUS
<1>1. MaxTimers \in Nat /\ MaxCatchUp \in Nat \ {0} BY TimersAssumption
<1>2. FiringsFit(timers, heap, tick, callback, firedNow, nextId)
  BY <1>1 DEF TimersInit, FiringsFit, NoTick
<1> QED BY <1>1, <1>2 DEF TimersInit, TimerIInv, NoTick, SlotsFit, Named, Members, NoRepeat

LEMMA ScheduleStep ==
  ASSUME TimerIInv, NEW deadline \in 0 .. MaxTime, NEW period \in Periods \cup {0},
         NEW moves \in BOOLEAN, Schedule(deadline, period, moves)
  PROVE  TimerIInv'
<1> DEFINE rec == [id |-> nextId, deadline |-> deadline, period |-> period]
           slot == IF freeSlots = <<>> THEN Len(timers) + 1 ELSE freeSlots[Len(freeSlots)]
<1>a. rec \in TimerRecords /\ rec.id = nextId
  BY TimersAssumption DEF TimerRecords, TimerIInv, SlotsFit
<1>1. /\ SlotsTake(timers, heap, freeSlots, index, nextId, rec, slot, timers', heap', freeSlots', index')
      /\ heap' = heap \cup {slot} /\ index' = index \cup {nextId} /\ nextId' = nextId + 1
      /\ nextId <= MaxTimers
      /\ UNCHANGED <<dead, tick, callback, fired, firedNow>>
  BY <1>a DEF Schedule, SlotsTake
<1>2. SlotsFit(timers, heap, dead, freeSlots, index, nextId) BY DEF TimerIInv
<1> HIDE DEF rec, slot
<1>3. /\ SlotsFit(timers', heap', dead, freeSlots', index', nextId')
      /\ SlotsGrown(timers, heap, slot, rec, timers')
  BY <1>1, <1>2, SlotsTaken
<1>4. /\ slot \notin heap /\ DOMAIN timers \subseteq DOMAIN timers'
      /\ \A s \in heap : timers'[s] = timers[s]
      /\ timers'[slot] = rec
  BY <1>3 DEF SlotsGrown
<1>5. FiringsFit(timers', heap \cup {slot}, tick, callback, firedNow, nextId + 1)
  <2>1. FiringsFit(timers, heap, tick, callback, firedNow, nextId) BY DEF TimerIInv
  <2>2. nextId \in Nat \ {0} /\ MaxTimers \in Nat /\ nextId \in Ids /\ timers'[slot].id = nextId
    BY <1>1, <1>a, <1>2, <1>4, TimersAssumption DEF SlotsFit, Ids
  <2>3. tick.on => \A s \in heap \cup {slot} :
                      timers'[s].deadline <= tick.now => firedNow[timers'[s].id] = 0
    BY <1>4, <2>1, <2>2 DEF FiringsFit
  <2>4. tick.rounds > 0 =>
          /\ tick.on /\ tick.id \in 1 .. (nextId + 1) - 1 /\ tick.slot \in DOMAIN timers'
          /\ firedNow[tick.id] + tick.rounds <= MaxCatchUp + (IF callback = 0 THEN 0 ELSE 1)
          /\ \A s \in heap \cup {slot} : timers'[s].id = tick.id => timers'[s].deadline > tick.now
    <3> SUFFICES ASSUME tick.rounds > 0
                 PROVE  /\ tick.on /\ tick.id \in 1 .. (nextId + 1) - 1 /\ tick.slot \in DOMAIN timers'
                        /\ firedNow[tick.id] + tick.rounds <= MaxCatchUp + (IF callback = 0 THEN 0 ELSE 1)
                        /\ \A s \in heap \cup {slot} :
                              timers'[s].id = tick.id => timers'[s].deadline > tick.now
      OBVIOUS
    <3>1. /\ tick.on /\ tick.id \in 1 .. nextId - 1 /\ tick.slot \in DOMAIN timers
          /\ firedNow[tick.id] + tick.rounds <= MaxCatchUp + (IF callback = 0 THEN 0 ELSE 1)
          /\ \A s \in heap : timers[s].id = tick.id => timers[s].deadline > tick.now
      BY <2>1 DEF FiringsFit
    <3>2. tick.id # nextId /\ tick.id \in 1 .. (nextId + 1) - 1 BY <2>2, <3>1
    <3> QED BY <1>4, <2>2, <3>1, <3>2
  <2> QED BY <2>1, <2>2, <2>3, <2>4 DEF FiringsFit, Ids
<1>6. nextId + 1 <= MaxTimers + 1 BY <1>1, <1>2, TimersAssumption DEF SlotsFit
<1> QED BY <1>1, <1>3, <1>5, <1>6 DEF TimerIInv

LEMMA CancelStep ==
  ASSUME TimerIInv, NEW id \in Ids, Cancel(id)
  PROVE  TimerIInv'
<1> DEFINE slot == SlotOf(id)
           gone == dead \cup {slot}
<1>1. id \in index /\ index' = index \ {id} /\ UNCHANGED <<nextId, tick, callback, fired, firedNow>>
  BY DEF Cancel
<1>2. slot \in heap \ dead /\ timers[slot].id = id
  <2>1. \E s \in heap \ dead : timers[s].id = id BY <1>1 DEF TimerIInv, SlotsFit, Named
  <2> QED BY <2>1 DEF TimerIInv, SlotsFit, SlotOf
<1>3. gone \in SUBSET heap /\ dead \subseteq gone /\ index \ Named(timers, gone \ dead) = index'
  BY <1>1, <1>2 DEF TimerIInv, SlotsFit, Named
<1>4. \/ Compact(gone)
      \/ dead' = gone /\ UNCHANGED <<timers, freeSlots, heap>>
  BY DEF Cancel
<1> HIDE DEF gone, slot
<1>5. CASE Compact(gone) BY <1>1, <1>3, <1>5, Compacted DEF TimerIInv
<1>6. CASE dead' = gone /\ UNCHANGED <<timers, freeSlots, heap>>
  <2>1. index' = Named(timers, heap \ gone)
    <3>1. \A s \in heap : timers[s].id = id => s = slot BY <1>2 DEF TimerIInv, SlotsFit
    <3> QED BY <1>1, <1>2, <1>3, <3>1 DEF Named, TimerIInv, SlotsFit, gone
  <2> QED BY <1>1, <1>3, <1>6, <2>1 DEF TimerIInv, SlotsFit
<1> QED BY <1>4, <1>5, <1>6

(* The slot at the top leaves the heap: a dead one, or a one-shot timer.    *)
LEMMA TopLeaves ==
  ASSUME TimerIInv, heap # {}, heap' = heap \ {Top}, timers' = Recycled(timers, {Top}),
         freeSlots' = Append(freeSlots, Top), dead' = dead \ {Top},
         index' = IF Top \in dead THEN index ELSE index \ {timers[Top].id}
  PROVE  /\ SlotsFit(timers', heap', dead', freeSlots', index', nextId)
         /\ SlotsKept(timers, heap, timers', heap')
<1>1. Top \in heap BY TopOf
<1> DEFINE out == {Top}
<1>2. /\ freeSlots' \in Seq(Nat) /\ NoRepeat(freeSlots')
      /\ Members(freeSlots') = Members(freeSlots) \cup out
  <2>1. freeSlots \in Seq(Nat) /\ NoRepeat(freeSlots) /\ Top \notin Members(freeSlots)
    BY <1>1 DEF TimerIInv, SlotsFit
  <2>2. Top \in Nat BY <1>1, LenProperties DEF TimerIInv, SlotsFit
  <2> QED BY <2>1, <2>2, AppendMembers
<1>3. index' = index \ Named(timers, out \ dead) /\ out \subseteq heap
  <2>1. CASE Top \in dead BY <1>1, <2>1 DEF Named
  <2>2. CASE Top \notin dead BY <1>1, <2>2 DEF Named
  <2> QED BY <2>1, <2>2
<1>4. SlotsLeave(timers, heap, dead, freeSlots, index, out, timers', heap', dead', freeSlots', index')
  BY <1>2, <1>3 DEF SlotsLeave
<1> QED BY <1>4, SlotsRecycled DEF TimerIInv

LEMMA DiscardStep == ASSUME TimerIInv, DiscardTop PROVE TimerIInv'
<1>1. /\ heap # {} /\ Top \in dead /\ heap' = heap \ {Top} /\ dead' = dead \ {Top}
      /\ timers' = Recycled(timers, {Top}) /\ freeSlots' = Append(freeSlots, Top)
      /\ UNCHANGED <<index, nextId, tick, callback, fired, firedNow>>
  BY DEF DiscardTop, AtTop
<1>2. /\ SlotsFit(timers', heap', dead', freeSlots', index', nextId)
      /\ SlotsKept(timers, heap, timers', heap')
  BY <1>1, TopLeaves
<1>3. FiringsFit(timers', heap', tick, callback, firedNow, nextId)
  BY <1>2, FiringsFewer DEF TimerIInv
<1> QED BY <1>1, <1>2, <1>3 DEF TimerIInv

(* The timer at the top that is due.                                        *)
LEMMA DueTimer ==
  ASSUME TimerIInv, Due
  PROVE  /\ heap # {} /\ Top \in heap \ dead /\ tick.on /\ tick.rounds = 0 /\ callback = 0
         /\ timers[Top] \in TimerRecords /\ Top \in DOMAIN timers
         /\ timers[Top].id \in Ids /\ timers[Top].id \in 1 .. nextId - 1
         /\ timers[Top].id \in index /\ firedNow[timers[Top].id] = 0
         /\ timers[Top].deadline <= tick.now
<1>1. /\ heap # {} /\ Top \notin dead /\ tick.on /\ tick.rounds = 0 /\ callback = 0
      /\ timers[Top].deadline <= tick.now
  BY DEF Due, AtTop
<1>2. Top \in heap BY <1>1, TopOf
<1>3. Top \in DOMAIN timers /\ timers[Top].id \in 1 .. nextId - 1 /\ timers[Top].id \in index
  BY <1>1, <1>2 DEF TimerIInv, SlotsFit, Named
<1>4. timers[Top].id \in Ids BY <1>3, TimersAssumption DEF TimerIInv, SlotsFit, Ids
<1>5. firedNow[timers[Top].id] = 0 BY <1>1, <1>2 DEF TimerIInv, FiringsFit
<1> QED BY <1>1, <1>2, <1>3, <1>4, <1>5 DEF TimerIInv, SlotsFit

LEMMA FireOnceStep == ASSUME TimerIInv, FireOnce PROVE TimerIInv'
<1> DEFINE id == timers[Top].id
<1>1. /\ heap' = heap \ {Top} /\ index' = index \ {id} /\ timers' = Recycled(timers, {Top})
      /\ freeSlots' = Append(freeSlots, Top) /\ callback' = id
      /\ fired' = [fired EXCEPT ![id] = @ + 1] /\ firedNow' = [firedNow EXCEPT ![id] = @ + 1]
      /\ UNCHANGED <<dead, nextId, tick>> /\ Due
  BY DEF FireOnce, Fire
<1>2. /\ heap # {} /\ Top \in heap \ dead /\ tick.on /\ tick.rounds = 0
      /\ id \in Ids /\ id \in 1 .. nextId - 1 /\ firedNow[id] = 0
  BY <1>1, DueTimer
<1>3. /\ SlotsFit(timers', heap', dead', freeSlots', index', nextId)
      /\ SlotsKept(timers, heap, timers', heap')
  BY <1>1, <1>2, TopLeaves
<1>4. FiringsFit(timers, heap, tick, callback, firedNow, nextId) BY DEF TimerIInv
<1>5. FiringsFit(timers', heap', tick, callback, firedNow, nextId) BY <1>3, <1>4, FiringsFewer
<1>6. \A s \in heap' : timers'[s].id # id
  <2>1. \A s \in heap' : s \in heap /\ s # Top /\ timers'[s] = timers[s]
    BY <1>1, <1>3 DEF SlotsKept
  <2> QED BY <1>2, <2>1 DEF TimerIInv, SlotsFit
<1> HIDE DEF id
<1>7. /\ firedNow' \in [Ids -> Nat] /\ firedNow'[id] = 1 /\ fired' \in [Ids -> Nat]
      /\ \A i \in Ids : i # id => firedNow'[i] = firedNow[i]
  BY <1>1, <1>2, <1>4 DEF TimerIInv, FiringsFit
<1>8. FiringsFit(timers', heap', tick, id, firedNow', nextId)
  <2>1. \A i \in Ids : firedNow'[i] <= MaxCatchUp /\ (i >= nextId => firedNow'[i] = 0)
    <3>1. nextId \in Nat /\ MaxCatchUp \in Nat \ {0} /\ ~(id >= nextId)
      BY <1>2, TimersAssumption DEF TimerIInv, SlotsFit
    <3> QED BY <1>4, <1>7, <3>1 DEF FiringsFit
  <2>2. ASSUME NEW s \in heap', timers'[s].deadline <= tick.now PROVE firedNow'[timers'[s].id] = 0
    <3>1. timers'[s].id \in Ids BY <1>3, TimersAssumption DEF SlotsFit, Ids, TimerIInv
    <3> QED BY <1>2, <1>5, <1>6, <1>7, <2>2, <3>1 DEF FiringsFit
  <2> QED BY <1>2, <1>7, <2>1, <2>2 DEF FiringsFit
<1> QED BY <1>1, <1>2, <1>3, <1>7, <1>8 DEF TimerIInv, Ids

LEMMA SameNames ==
  ASSUME NEW slots, NEW slots2, NEW S, \A s \in S : slots2[s].id = slots[s].id
  PROVE  Named(slots2, S) = Named(slots, S)
BY DEF Named

LEMMA NextIsLater ==
  ASSUME NEW deadline \in Nat, NEW period \in Nat \ {0}, NEW now \in Nat, deadline <= now
  PROVE  /\ Rounds(deadline, period, now) \in Nat /\ Rounds(deadline, period, now) <= MaxCatchUp
         /\ NextDeadline(deadline, period, now) \in Nat /\ NextDeadline(deadline, period, now) > now
<1>1. MaxCatchUp \in Nat \ {0} BY TimersAssumption
<1> DEFINE missed == (now - deadline) \div period + 1
           n == Rounds(deadline, period, now)
           next == deadline + n * period
<1>2. missed \in Nat OBVIOUS
<1> HIDE DEF missed
<1>3. n \in Nat /\ n <= MaxCatchUp BY <1>1, <1>2 DEF Rounds, missed
<1> HIDE DEF n
<1>4. next \in Nat BY <1>3
<1> HIDE DEF next
<1>5. NextDeadline(deadline, period, now) \in Nat /\ NextDeadline(deadline, period, now) > now
  BY <1>4 DEF NextDeadline, next, n
<1> QED BY <1>3, <1>5 DEF n

LEMMA RearmStep == ASSUME TimerIInv, RearmPeriodic PROVE TimerIInv'
<1> DEFINE top == Top
           r == timers[top]
           next == NextDeadline(r.deadline, r.period, tick.now)
           n == Rounds(r.deadline, r.period, tick.now)
<1>1. /\ Due /\ r.period > 0 /\ timers' = [timers EXCEPT ![top].deadline = next]
      /\ tick' = [tick EXCEPT !.slot = top, !.id = r.id, !.rounds = n]
      /\ UNCHANGED <<dead, freeSlots, heap, index, nextId, callback, fired, firedNow>>
  BY DEF RearmPeriodic
<1>2. /\ top \in heap \ dead /\ tick.on /\ callback = 0 /\ r \in TimerRecords /\ top \in DOMAIN timers
      /\ r.id \in Ids /\ r.id \in 1 .. nextId - 1 /\ firedNow[r.id] = 0
      /\ r.deadline <= tick.now
  BY <1>1, DueTimer
<1>3. n \in Nat /\ n <= MaxCatchUp /\ next \in Nat /\ next > tick.now
  <2>1. r.deadline \in Nat /\ r.period \in Nat \ {0} /\ tick.now \in Nat
    BY <1>1, <1>2 DEF TimerRecords, TimerIInv
  <2> QED BY <1>2, <2>1, NextIsLater
<1>4. timers \in Seq(TimerRecords) /\ DOMAIN timers = 1 .. Len(timers) /\ Len(timers) \in Nat
  BY LenProperties DEF TimerIInv, SlotsFit
<1> HIDE DEF next, n
<1>5. /\ timers' \in Seq(TimerRecords) /\ DOMAIN timers' = DOMAIN timers
      /\ timers'[top].id = r.id /\ timers'[top].deadline = next
      /\ \A s \in DOMAIN timers : s # top => timers'[s] = timers[s]
  <2> DEFINE later == [r EXCEPT !.deadline = next]
  <2>1. later \in TimerRecords /\ later.id = r.id /\ later.deadline = next
    BY <1>2, <1>3 DEF TimerRecords
  <2>2. timers' = [timers EXCEPT ![top] = later] BY <1>1
  <2> HIDE DEF later, r, top
  <2>3. /\ timers' \in Seq(TimerRecords) /\ Len(timers') = Len(timers)
        /\ \A j \in 1 .. Len(timers) : timers'[j] = IF j = top THEN later ELSE timers[j]
    BY <1>2, <1>4, <2>1, <2>2, ExceptSeq
  <2> QED BY <1>2, <1>4, <2>1, <2>3, LenProperties
<1>6. \A s \in DOMAIN timers : timers'[s].id = timers[s].id BY <1>5
<1> HIDE DEF top, r
<1>7. SlotsFit(timers', heap, dead, freeSlots, index, nextId)
  <2>1. index = Named(timers', heap \ dead)
    <3>1. index = Named(timers, heap \ dead) /\ \A s \in heap \ dead : s \in DOMAIN timers
      BY DEF TimerIInv, SlotsFit
    <3> QED BY <1>6, <3>1, SameNames
  <2> QED BY <1>5, <1>6, <2>1 DEF TimerIInv, SlotsFit
<1>8. /\ tick' \in [on : BOOLEAN, now : Nat, slot : Nat, id : Nat, rounds : Nat]
      /\ tick'.on /\ tick'.now = tick.now /\ tick'.slot = top /\ tick'.id = r.id /\ tick'.rounds = n
  <2>1. r.id \in Nat /\ top \in Nat BY <1>2, <1>4 DEF Ids
  <2> QED BY <1>1, <1>2, <1>3, <2>1 DEF TimerIInv
<1>9. FiringsFit(timers', heap, tick', callback, firedNow, nextId)
  <2>0. FiringsFit(timers, heap, tick, callback, firedNow, nextId) BY DEF TimerIInv
  <2>1. \A s \in heap : s \in DOMAIN timers /\ (timers[s].id = timers[top].id => s = top)
    BY <1>2 DEF TimerIInv, SlotsFit
  <2>2. \A s \in heap : timers'[s].id = r.id => timers'[s].deadline > tick.now
    BY <1>3, <1>5, <1>6, <2>1 DEF r
  <2>3. \A s \in heap : timers'[s].deadline <= tick.now => firedNow[timers'[s].id] = 0
    BY <1>2, <1>5, <1>6, <2>0, <2>1 DEF FiringsFit, r
  <2>4. firedNow[r.id] + n <= MaxCatchUp + (IF callback = 0 THEN 0 ELSE 1)
    BY <1>2, <1>3, TimersAssumption
  <2> QED BY <1>2, <1>5, <1>8, <2>0, <2>2, <2>3, <2>4 DEF FiringsFit
<1> QED BY <1>1, <1>7, <1>8, <1>9 DEF TimerIInv

LEMMA RoundStep ==
  ASSUME TimerIInv, FireRound
  PROVE  TimerIInv' /\ tick.id \in index /\ fired' = [fired EXCEPT ![tick.id] = @ + 1]
<1> DEFINE id == tick.id
<1>1. /\ tick.on /\ tick.rounds > 0 /\ callback = 0 /\ timers[tick.slot].id = id
      /\ tick.slot \notin dead /\ callback' = id
      /\ fired' = [fired EXCEPT ![id] = @ + 1] /\ firedNow' = [firedNow EXCEPT ![id] = @ + 1]
      /\ UNCHANGED <<timers, dead, freeSlots, heap, index, nextId, tick>>
  BY DEF FireRound, Fire, StillThere, slotVars
<1>2. FiringsFit(timers, heap, tick, callback, firedNow, nextId) BY DEF TimerIInv
<1>3. /\ id \in 1 .. nextId - 1 /\ tick.slot \in DOMAIN timers
      /\ firedNow[id] + tick.rounds <= MaxCatchUp
      /\ \A s \in heap : timers[s].id = id => timers[s].deadline > tick.now
  BY <1>1, <1>2, TimersAssumption DEF FiringsFit
<1>4. nextId \in Nat /\ id \in Ids /\ tick.rounds \in Nat /\ MaxCatchUp \in Nat
  BY <1>3, TimersAssumption DEF TimerIInv, SlotsFit, Ids
<1>5. tick.slot \in heap \ dead /\ id \in index
  <2>1. tick.slot \in heap BY <1>1, <1>3, <1>4 DEF TimerIInv, SlotsFit
  <2> QED BY <1>1, <2>1 DEF TimerIInv, SlotsFit, Named
<1> HIDE DEF id
<1>6. /\ firedNow' \in [Ids -> Nat] /\ firedNow'[id] = firedNow[id] + 1 /\ fired' \in [Ids -> Nat]
      /\ firedNow[id] \in Nat
      /\ \A i \in Ids : i # id => firedNow'[i] = firedNow[i]
  BY <1>1, <1>2, <1>4 DEF TimerIInv, FiringsFit
<1>7. FiringsFit(timers, heap, tick, id, firedNow', nextId)
  <2>1. \A i \in Ids : firedNow'[i] <= MaxCatchUp /\ (i >= nextId => firedNow'[i] = 0)
    <3>1. firedNow'[id] <= MaxCatchUp /\ ~(id >= nextId) BY <1>1, <1>3, <1>4, <1>6
    <3> QED BY <1>2, <1>6, <3>1 DEF FiringsFit
  <2>2. ASSUME NEW s \in heap, timers[s].deadline <= tick.now PROVE firedNow'[timers[s].id] = 0
    <3>1. timers[s].id \in Ids BY TimersAssumption DEF SlotsFit, Ids, TimerIInv
    <3>2. timers[s].id # id
      <4>1. timers[s].deadline \in Nat /\ tick.now \in Nat
        <5>1. timers \in Seq(TimerRecords) BY DEF TimerIInv, SlotsFit
        <5>2. timers[s] \in TimerRecords BY <5>1 DEF TimerIInv, SlotsFit
        <5> QED BY <5>2 DEF TimerRecords, TimerIInv
      <4> QED BY <1>3, <2>2, <4>1
    <3> QED BY <1>1, <1>2, <1>6, <2>2, <3>1, <3>2 DEF FiringsFit
  <2> QED BY <1>1, <1>3, <1>4, <1>6, <2>1, <2>2 DEF FiringsFit, id
<1> QED BY <1>1, <1>4, <1>5, <1>6, <1>7 DEF TimerIInv, id, Ids

(* The slots stay as they are while a Tick begins, goes on and ends.        *)
LEMMA TickMoves ==
  ASSUME TimerIInv, UNCHANGED <<slotVars, fired>>,
         \/ \E now \in 0 .. MaxTime : TickBegin(now)
         \/ SkipRounds \/ CallbackEnds
         \/ tick' = NoTick /\ UNCHANGED <<callback, firedNow>>
  PROVE  TimerIInv'
<1>0. FiringsFit(timers, heap, tick, callback, firedNow, nextId) BY DEF TimerIInv
<1>m. MaxTime \in Nat /\ MaxCatchUp \in Nat \ {0} BY TimersAssumption
<1>1. ASSUME NEW now \in 0 .. MaxTime, TickBegin(now) PROVE TimerIInv'
  <2>1. /\ tick' = [NoTick EXCEPT !.on = TRUE, !.now = now] /\ callback' = callback
        /\ firedNow' = [i \in Ids |-> 0]
    BY <1>1 DEF TickBegin
  <2>2. \A s \in heap : timers[s].id \in Ids BY TimersAssumption DEF TimerIInv, SlotsFit, Ids
  <2>a. now \in Nat BY <1>m
  <2>b. /\ tick' \in [on : BOOLEAN, now : Nat, slot : Nat, id : Nat, rounds : Nat]
        /\ tick'.rounds = 0
    BY <2>a, <2>1 DEF NoTick
  <2>3. FiringsFit(timers, heap, tick', callback, firedNow', nextId)
    BY <1>m, <2>b, <2>1, <2>2 DEF FiringsFit
  <2> QED BY <2>1, <2>3, <2>b DEF TimerIInv, slotVars
<1>2. ASSUME SkipRounds PROVE TimerIInv'
  <2>1. tick' = [tick EXCEPT !.rounds = 0] /\ UNCHANGED <<callback, firedNow>>
    BY <1>2 DEF SkipRounds
  <2>2. /\ tick' \in [on : BOOLEAN, now : Nat, slot : Nat, id : Nat, rounds : Nat]
        /\ tick'.on = tick.on /\ tick'.now = tick.now /\ tick'.rounds = 0
    BY <2>1 DEF TimerIInv
  <2> QED BY <1>0, <2>1, <2>2 DEF TimerIInv, slotVars, FiringsFit
<1>3. ASSUME CallbackEnds PROVE TimerIInv'
  <2>1. /\ callback # 0 /\ callback' = 0 /\ firedNow' = firedNow
        /\ tick' = [tick EXCEPT !.rounds = IF @ > 0 THEN @ - 1 ELSE 0]
    BY <1>3 DEF CallbackEnds
  <2>2. /\ tick' \in [on : BOOLEAN, now : Nat, slot : Nat, id : Nat, rounds : Nat]
        /\ tick'.on = tick.on /\ tick'.now = tick.now /\ tick'.id = tick.id /\ tick'.slot = tick.slot
        /\ tick'.rounds = IF tick.rounds > 0 THEN tick.rounds - 1 ELSE 0
        /\ tick.rounds \in Nat
    BY <2>1 DEF TimerIInv
  <2>3. tick'.rounds > 0 =>
          /\ tick.on /\ tick.id \in 1 .. nextId - 1 /\ tick.slot \in DOMAIN timers
          /\ firedNow[tick.id] + tick'.rounds <= MaxCatchUp + (IF callback' = 0 THEN 0 ELSE 1)
          /\ \A s \in heap : timers[s].id = tick.id => timers[s].deadline > tick.now
    <3> SUFFICES ASSUME tick'.rounds > 0
                 PROVE  /\ tick.on /\ tick.id \in 1 .. nextId - 1 /\ tick.slot \in DOMAIN timers
                        /\ firedNow[tick.id] + tick'.rounds <= MaxCatchUp + (IF callback' = 0 THEN 0 ELSE 1)
                        /\ \A s \in heap : timers[s].id = tick.id => timers[s].deadline > tick.now
      OBVIOUS
    <3>1. tick.rounds > 0 /\ tick'.rounds = tick.rounds - 1 BY <2>2
    <3>2. /\ tick.on /\ tick.id \in 1 .. nextId - 1 /\ tick.slot \in DOMAIN timers
          /\ firedNow[tick.id] + tick.rounds <= MaxCatchUp + 1
          /\ \A s \in heap : timers[s].id = tick.id => timers[s].deadline > tick.now
      BY <1>0, <2>1, <3>1 DEF FiringsFit
    <3>3. firedNow[tick.id] \in Nat
      BY <1>0, <3>2, TimersAssumption DEF FiringsFit, Ids, TimerIInv, SlotsFit
    <3> QED BY <1>m, <2>1, <2>2, <3>1, <3>2, <3>3
  <2> QED BY <1>0, <2>1, <2>2, <2>3 DEF TimerIInv, slotVars, FiringsFit
<1>4. ASSUME tick' = NoTick, UNCHANGED <<callback, firedNow>> PROVE TimerIInv'
  BY <1>0, <1>4 DEF TimerIInv, slotVars, NoTick, FiringsFit
<1> QED BY <1>1, <1>2, <1>3, <1>4

LEMMA EndStep == ASSUME TimerIInv, TickEnd PROVE TimerIInv'
<1>1. /\ tick' = NoTick /\ UNCHANGED <<index, nextId, callback, fired, firedNow>>
      /\ \/ Compact(dead)
         \/ UNCHANGED <<timers, freeSlots, heap, dead, cancelledCount>>
  BY DEF TickEnd
<1>2. CASE Compact(dead)
  <2>1. dead \in SUBSET heap /\ index \ Named(timers, dead \ dead) = index
    BY DEF TimerIInv, SlotsFit, Named
  <2>2. /\ SlotsFit(timers', heap', dead', freeSlots', index, nextId)
        /\ FiringsFit(timers', heap', tick, callback, firedNow, nextId)
    BY <1>2, <2>1, Compacted
  <2>3. FiringsFit(timers', heap', NoTick, callback, firedNow, nextId)
    BY <2>2 DEF FiringsFit, NoTick
  <2> QED BY <1>1, <2>2, <2>3 DEF TimerIInv, NoTick
<1>3. CASE UNCHANGED <<timers, freeSlots, heap, dead, cancelledCount>>
  BY <1>1, <1>3, TickMoves DEF slotVars
<1> QED BY <1>1, <1>2, <1>3

LEMMA TimerSteps ==
  TimerIInv /\ [TimersNext]_timerVars
      => TimerIInv' /\ \A i \in Ids : i < nextId /\ i \notin index => fired'[i] = fired[i]
<1> SUFFICES ASSUME TimerIInv, [TimersNext]_timerVars
             PROVE  TimerIInv' /\ \A i \in Ids : i < nextId /\ i \notin index => fired'[i] = fired[i]
  OBVIOUS
<1> DEFINE Silent == \A i \in Ids : i \notin index => fired'[i] = fired[i]
<1>1. ASSUME NEW deadline \in 0 .. MaxTime, NEW period \in Periods \cup {0}, NEW moves \in BOOLEAN,
             Schedule(deadline, period, moves)
      PROVE  TimerIInv' /\ Silent
  BY <1>1, ScheduleStep DEF Schedule
<1>2. ASSUME NEW id \in Ids, Cancel(id) PROVE TimerIInv' /\ Silent
  BY <1>2, CancelStep DEF Cancel
<1>3. ASSUME NEW now \in 0 .. MaxTime, TickBegin(now) PROVE TimerIInv' /\ Silent
  BY <1>3, TickMoves DEF TickBegin
<1>4. ASSUME DiscardTop PROVE TimerIInv' /\ Silent BY <1>4, DiscardStep DEF DiscardTop
<1>5. ASSUME FireOnce PROVE TimerIInv' /\ Silent
  BY <1>5, DueTimer, FireOnceStep DEF TimerIInv, FireOnce, Fire
<1>6. ASSUME RearmPeriodic PROVE TimerIInv' /\ Silent BY <1>6, RearmStep DEF RearmPeriodic
<1>7. ASSUME FireRound PROVE TimerIInv' /\ Silent BY <1>7, RoundStep DEF TimerIInv
<1>8. ASSUME SkipRounds PROVE TimerIInv' /\ Silent BY <1>8, TickMoves DEF SkipRounds
<1>9. ASSUME CallbackEnds PROVE TimerIInv' /\ Silent BY <1>9, TickMoves DEF CallbackEnds
<1>10. ASSUME TickEnd PROVE TimerIInv' /\ Silent BY <1>10, EndStep DEF TickEnd
<1>11. ASSUME UNCHANGED timerVars PROVE TimerIInv' /\ Silent BY <1>11 DEF timerVars, TimerIInv
<1> QED BY <1>1, <1>2, <1>3, <1>4, <1>5, <1>6, <1>7, <1>8, <1>9, <1>10, <1>11 DEF TimersNext, TickStep

LEMMA TimerSafe == TimerIInv => SlotsPartitioned /\ CatchUpBounded
<1> SUFFICES ASSUME TimerIInv PROVE SlotsPartitioned /\ CatchUpBounded OBVIOUS
<1>1. Freed = Members(freeSlots) /\ Slots = DOMAIN timers BY DEF Freed, Members, Slots
<1>2. index = {timers[s].id : s \in heap \ dead} BY DEF TimerIInv, SlotsFit, Named
<1> QED
  BY <1>1, <1>2, CountMembers DEF TimerIInv, SlotsFit, FiringsFit, SlotsPartitioned, CatchUpBounded

(* No slot leaks, no timer is lost and none catches up without end: for     *)
(* any timers, periods, cancellations and compactions.                      *)
THEOREM TimersCorrect == TimersSpec => [](SlotsPartitioned /\ CatchUpBounded) /\ CancelledStaysSilent
BY TimerStarts, TimerSteps, TimerSafe, PTL DEF TimersSpec, CancelledStaysSilent

------------------------------------------------------------------------------
(* The asynchronous log.  Every accepted record is in the ring, in the      *)
(* batch or with the sinks, in order.                                       *)

Records == Writers \X Nat
PumpRounds == [didWork : BOOLEAN, lastBatch : Nat, lastDropped : Nat, burst : BOOLEAN]

LogTypes ==
    /\ ring \in Seq(Records) /\ accepted \in Seq(Records)
    /\ onSink \in Seq(Records) /\ batch \in Seq(Records)
    /\ records \in [Writers -> Nat]
    /\ dropped \in Nat /\ warnings \in Nat
    /\ written \in Nat /\ flushed \in Nat /\ durable \in Nat
    /\ round \in PumpRounds
    /\ pump \in {"drain", "losses", "sync", "stop?", "tail", "ended"}

(* Where the pump is says what it can have left behind, and a burst that    *)
(* is on has been told of.                                                  *)
LogIInv ==
    /\ LogTypes /\ NoRecordLost /\ LossIsReported
    /\ pump \notin {"drain", "tail"} => batch = <<>>
    /\ pump \in {"tail", "ended"} => ~logRunning
    /\ pump = "ended" => ring = <<>>
    /\ round.burst => warnings > 0

LEMMA Regroup ==
  ASSUME NEW S
  PROVE  \A s, t, u \in Seq(S) : (s \o t) \o u = s \o (t \o u)
<1> TAKE s, t, u \in Seq(S)
<1> QED BY ConcatAssociative

LEMMA SplitRing ==
  ASSUME NEW S, NEW s \in Seq(S), s # <<>>, NEW n \in Nat \ {0}
  PROVE  LET k == Smaller(Len(s), n) IN
         /\ SubSeq(s, 1, k) \in Seq(S) /\ SubSeq(s, k + 1, Len(s)) \in Seq(S)
         /\ SubSeq(s, 1, k) \o SubSeq(s, k + 1, Len(s)) = s
<1> DEFINE k == Smaller(Len(s), n)
<1>1. Len(s) \in Nat \ {0} BY EmptySeq
<1>2. k \in 1 .. Len(s) BY <1>1 DEF Smaller
<1> HIDE DEF k
<1>3. \A i \in 1 .. Len(s) : s[i] \in S BY ElementOfSeq
<1>4. SubSeq(s, 1, k) \in Seq(S) BY <1>1, <1>2, <1>3, SubSeqProperties
<1>5. SubSeq(s, k + 1, Len(s)) \in Seq(S) BY <1>1, <1>2, <1>3, SubSeqProperties
<1>6. SubSeq(s, 1, k) \o SubSeq(s, k + 1, Len(s)) = SubSeq(s, 1, Len(s))
  BY <1>1, <1>2, ConcatAdjacentSubSeq
<1> QED BY <1>4, <1>5, <1>6, SubSeqFull DEF k

LEMMA LogStarts == LogInit => LogIInv
<1> SUFFICES ASSUME LogInit PROVE LogIInv OBVIOUS
<1>1. LogTypes BY EmptySeq DEF LogInit, LogTypes, PumpRounds
<1> QED
  BY <1>1, EmptySeq, ConcatEmptySeq DEF LogInit, LogIInv, LossIsReported, NoRecordLost, LogTypes

LEMMA LogSteps == LogIInv /\ [LogNext]_logVars => LogIInv'
<1> SUFFICES ASSUME LogIInv, [LogNext]_logVars PROVE LogIInv' OBVIOUS
<1>r. \A s, t, u \in Seq(Records) : (s \o t) \o u = s \o (t \o u) BY Regroup
<1> USE DEF LogIInv, LogTypes, NoRecordLost, LossIsReported
<1>0. /\ Len(onSink) \in Nat /\ Len(batch) \in Nat /\ Len(ring) \in Nat
      /\ RingSize \in Nat \ {0} /\ DrainBatch \in Nat \ {0}
  BY LogPumpAssumption
<1>1. ASSUME NEW w \in Writers, WriteRaw(w) PROVE LogIInv'
  <2>1. CASE Len(ring) < RingSize
    <3> DEFINE r == <<w, records[w] + 1>>
    <3>1. r \in Records
      <4>1. records[w] + 1 \in Nat BY DEF LogTypes
      <4> QED BY <4>1 DEF Records
    <3>2. ring' = Append(ring, r) /\ accepted' = Append(accepted, r) BY <1>1, <2>1 DEF WriteRaw
    <3> HIDE DEF r
    <3>3. ring' \in Seq(Records) /\ accepted' \in Seq(Records) BY <3>1, <3>2
    <3>4. onSink \o batch \o ring' = accepted'
      <4>1. ring' = ring \o <<r>> /\ accepted' = accepted \o <<r>> BY <3>1, <3>2, AppendIsConcat
      <4>2. <<r>> \in Seq(Records) BY <3>1
      <4>3. onSink \o batch \in Seq(Records) BY ConcatProperties
      <4>4. (onSink \o batch) \o (ring \o <<r>>) = ((onSink \o batch) \o ring) \o <<r>>
        <5> HIDE DEF LogIInv
        <5>1. ring \in Seq(Records) BY DEF LogIInv
        <5> QED BY <4>2, <4>3, <5>1, ConcatAssociative
      <4> QED BY <4>1, <4>4
    <3>5. /\ pump \notin {"tail", "ended"}
          /\ UNCHANGED <<onSink, batch, dropped, warnings, written, flushed, durable,
                         round, pump, logRunning>>
          /\ records' \in [Writers -> Nat]
      BY <1>1, <2>1 DEF WriteRaw, pumpVars
    <3> QED BY <3>3, <3>4, <3>5
  <2>2. CASE ~(Len(ring) < RingSize)
    <3>1. /\ records' \in [Writers -> Nat] /\ dropped' \in Nat
          /\ UNCHANGED <<ring, accepted, onSink, batch, warnings, written, flushed,
                         durable, round, pump, logRunning>>
      BY <1>1, <2>2 DEF WriteRaw, pumpVars
    <3> QED BY <3>1
  <2> QED BY <2>1, <2>2
<1>2. ASSUME NEW w \in Writers, Flush(w) \/ FlushTimesOut(w) \/ WriterStep(w) PROVE LogIInv'
  <2>1. UNCHANGED <<ring, accepted, records, dropped, pumpVars, written, flushed, logRunning>>
    BY <1>2 DEF Flush, FlushTimesOut, WriterStep, CountRecord, FlushReturns
  <2> QED BY <2>1 DEF pumpVars
<1>3. CASE ShutdownLog BY <1>3 DEF ShutdownLog, pumpVars
<1>4. CASE TakeBatch
  <2> DEFINE k == Smaller(Len(ring), DrainBatch)
  <2>1. /\ batch' = SubSeq(ring, 1, k) /\ ring' = SubSeq(ring, k + 1, Len(ring))
        /\ ring # <<>> /\ batch = <<>> /\ pump \in {"drain", "tail"}
        /\ UNCHANGED <<Writing, written, flushed, pump, round, onSink, durable, warnings>>
    BY <1>4 DEF TakeBatch
  <2>2. /\ batch' \in Seq(Records) /\ ring' \in Seq(Records) /\ batch' \o ring' = ring
    BY <1>0, <2>1, SplitRing
  <2> HIDE DEF k
  <2>3. onSink \o batch' \o ring' = accepted
    <3>1. (onSink \o batch') \o ring' = onSink \o (batch' \o ring')
      <4>1. onSink \in Seq(Records) /\ batch' \in Seq(Records) /\ ring' \in Seq(Records) BY <2>2
      <4> QED BY ONLY <1>r, <4>1
    <3> QED BY <2>1, <2>2, <3>1, ConcatEmptySeq
  <2> QED BY <2>1, <2>2, <2>3 DEF Writing
<1>5. CASE DispatchBatch
  <2>1. /\ onSink' = onSink \o batch /\ batch' = <<>>
        /\ written' = written + Len(batch)
        /\ UNCHANGED <<Writing, ring, flushed, pump, durable, warnings>>
        /\ pump \in {"drain", "tail"}
    BY <1>5 DEF DispatchBatch
  <2>2. /\ round' \in PumpRounds
        /\ round'.lastDropped = round.lastDropped /\ round'.burst = round.burst
    BY <1>0, <1>5 DEF DispatchBatch, PumpRounds
  <2>3. /\ onSink' \in Seq(Records) /\ Len(onSink') = Len(onSink) + Len(batch)
        /\ batch' \in Seq(Records)
        /\ onSink' \o batch' = onSink'
    BY <2>1, ConcatProperties, ConcatEmptySeq
  <2> QED BY <1>0, <2>1, <2>2, <2>3 DEF Writing
<1>6. CASE CheckOverflow
  <2>1. /\ pump' = "sync" /\ batch = <<>>
        /\ UNCHANGED <<Writing, ring, written, flushed, batch, onSink, durable>>
    BY <1>6 DEF CheckOverflow, LogIInv
  <2>2. /\ round' \in PumpRounds /\ warnings' \in Nat /\ warnings' <= round'.lastDropped
        /\ round'.lastDropped > 0 => warnings' > 0
        /\ round'.burst => warnings' > 0
    <3>1. CASE dropped > round.lastDropped
      <4> DEFINE d == round.didWork \/ ~round.burst
      <4>1. /\ round' = [round EXCEPT !.lastDropped = dropped, !.burst = TRUE, !.didWork = d]
            /\ warnings' = warnings + (IF round.burst THEN 0 ELSE 1)
            /\ round \in PumpRounds
        BY <1>6, <3>1 DEF CheckOverflow
      <4>2. d \in BOOLEAN OBVIOUS
      <4> HIDE DEF d
      <4>3. round' \in PumpRounds /\ round'.lastDropped = dropped /\ round'.burst
        BY <4>1, <4>2 DEF PumpRounds
      <4> QED BY <3>1, <4>1, <4>3 DEF PumpRounds
    <3>2. CASE ~(dropped > round.lastDropped)
      <4>1. /\ round' = [round EXCEPT !.burst = FALSE] /\ warnings' = warnings
            /\ round \in PumpRounds
        BY <1>6, <3>2 DEF CheckOverflow
      <4> QED BY <4>1 DEF PumpRounds
    <3> QED BY <3>1, <3>2
  <2> QED BY <2>1, <2>2 DEF Writing
<1>7. ASSUME NEW over \in BOOLEAN, SyncSinks(over) PROVE LogIInv'
  BY <1>0, <1>7 DEF SyncSinks, Writing
<1>8. CASE NextRound BY <1>8 DEF NextRound, Writing, PumpRounds
<1>9. CASE PumpEnds
  <2>1. Len(accepted) = Len(onSink)
    <3>1. onSink \o ring = onSink BY <1>9, ConcatEmptySeq DEF PumpEnds
    <3> QED BY <1>9, <3>1, ConcatEmptySeq DEF PumpEnds
  <2> QED BY <1>0, <1>9, <2>1 DEF PumpEnds, Writing
<1>10. CASE UNCHANGED logVars BY <1>10 DEF logVars
<1>11. CASE BacklogGone BY <1>11 DEF BacklogGone, Writing
<1> QED BY <1>1, <1>2, <1>3, <1>4, <1>5, <1>6, <1>7, <1>8, <1>9, <1>10, <1>11
        DEF LogNext, PumpStep

LEMMA LogSafe == LogIInv => NoRecordLost /\ LossIsReported
BY DEF LogIInv

(* The sinks get every accepted record once and in order, and losses are    *)
(* told of: for any writers, ring and batch.                                *)
THEOREM LogCorrect == LogSpec => [](NoRecordLost /\ LossIsReported)
BY LogStarts, LogSteps, LogSafe, PTL DEF LogSpec

------------------------------------------------------------------------------
(* The event bus and the command and query buses.  An event is in the       *)
(* queue, in the drain's hand, dispatched, dropped or handed back; a call   *)
(* in progress is on its caller's stack.                                    *)

(* Taking one element out.                                                  *)
LEMMA RemovedMembers ==
  ASSUME NEW S, NEW s \in Seq(S), NoRepeat(s), NEW k \in DOMAIN s
  PROVE  /\ RemoveAt(s, k) \in Seq(S) /\ NoRepeat(RemoveAt(s, k))
         /\ Members(RemoveAt(s, k)) = Members(s) \ {s[k]}
<1> DEFINE f == SubSeq(s, 1, k - 1)
           g == SubSeq(s, k + 1, Len(s))
<1>1. Len(s) \in Nat /\ DOMAIN s = 1 .. Len(s) /\ k \in Int BY LenProperties
<1>2. f \in Seq(S) /\ NoRepeat(f) /\ Members(f) = {s[i] : i \in 1 .. k - 1}
  BY <1>1, StretchMembers
<1>3. g \in Seq(S) /\ NoRepeat(g) /\ Members(g) = {s[i] : i \in k + 1 .. Len(s)}
  BY <1>1, StretchMembers
<1>4. Members(f) \cap Members(g) = {} /\ Members(f) \cup Members(g) = Members(s) \ {s[k]}
  <2>1. \A i \in 1 .. k - 1, j \in k + 1 .. Len(s) : s[i] # s[j] /\ s[i] # s[k] /\ s[j] # s[k]
    BY <1>1 DEF NoRepeat
  <2>2. Members(s) = {s[i] : i \in 1 .. Len(s)} BY <1>1 DEF Members
  <2>3. \A i \in 1 .. Len(s) : i \in 1 .. k - 1 \/ i \in k + 1 .. Len(s) \/ i = k BY <1>1
  <2>4. /\ \A i \in 1 .. k - 1 : i \in 1 .. Len(s)
        /\ \A i \in k + 1 .. Len(s) : i \in 1 .. Len(s)
    BY <1>1
  <2>5. Members(f) \cap Members(g) = {} BY ONLY <2>1, <1>2, <1>3
  <2>6. ASSUME NEW x PROVE x \in Members(f) \cup Members(g) <=> x \in Members(s) \ {s[k]}
    <3> HIDE DEF f, g
    <3>1. ASSUME x \in Members(f) \cup Members(g) PROVE x \in Members(s) \ {s[k]}
      <4>1. CASE x \in Members(f)
        <5>1. PICK i \in 1 .. k - 1 : x = s[i] BY ONLY <4>1, <1>2
        <5>2. x # s[k] BY <5>1, <1>1 DEF NoRepeat
        <5> QED BY ONLY <5>1, <5>2, <1>1, <2>2, <2>4
      <4>2. CASE x \in Members(g)
        <5>1. PICK i \in k + 1 .. Len(s) : x = s[i] BY ONLY <4>2, <1>3
        <5>2. x # s[k] BY <5>1, <1>1 DEF NoRepeat
        <5> QED BY ONLY <5>1, <5>2, <1>1, <2>2, <2>4
      <4> QED BY <3>1, <4>1, <4>2
    <3>2. ASSUME x \in Members(s) \ {s[k]} PROVE x \in Members(f) \cup Members(g)
      BY ONLY <3>2, <2>2, <2>3, <1>2, <1>3
    <3> QED BY <3>1, <3>2
  <2> QED BY <2>5, <2>6
<1> HIDE DEF f, g
<1>5. /\ f \o g \in Seq(S) /\ Members(f \o g) = Members(f) \cup Members(g)
      /\ NoRepeat(f \o g)
  <2>1. /\ f \in Seq(S) /\ g \in Seq(S) /\ NoRepeat(f) /\ NoRepeat(g)
        /\ Members(f) \cap Members(g) = {}
    BY ONLY <1>2, <1>3, <1>4
  <2>2. f \o g \in Seq(S) /\ Members(f \o g) = Members(f) \cup Members(g)
    BY ONLY <2>1, ConcatMembers
  <2>3. NoRepeat(f \o g) BY ONLY <2>1, ConcatMembers
  <2> QED BY ONLY <2>2, <2>3
<1> QED BY <1>4, <1>5 DEF RemoveAt, f, g

------------------------------------------------------------------------------
(* Every event is in one place.                                             *)
IdsOf(q) == {q[i].id : i \in DOMAIN q}
Ascending(q) == \A i, j \in DOMAIN q : i < j => q[i].id < q[j].id
EventOf(ev) == IF ev = NoEvent THEN {} ELSE {ev.id}

OnePlace(q, made, hand, done, dr, rf) ==
    /\ q \in Seq(Event) /\ made \in Nat /\ Ascending(q)
    /\ 1..made = IdsOf(q) \cup hand \cup done \cup dr \cup rf
    /\ IdsOf(q) \cap (hand \cup done \cup dr \cup rf) = {}
    /\ hand \cap (done \cup dr \cup rf) = {}
    /\ done \cap (dr \cup rf) = {} /\ dr \cap rf = {}

OnePublished(q, made, dr, rf, q2, made2, dr2, rf2) ==
    /\ made < MaxEvents /\ made2 = made + 1
    /\ \/ (\E k \in EventKinds : q2 = Append(q, [id |-> made + 1, kind |-> k])) /\ dr2 = dr /\ rf2 = rf
       \/ q2 = q /\ dr2 = dr /\ rf2 = rf \cup {made + 1}
       \/ q2 = q /\ dr2 = dr \cup {made + 1} /\ rf2 = rf

LEMMA EventIds ==
  \A e \in Event : e.id \in 1..MaxEvents /\ e.id \in Nat /\ e.kind \in EventKinds /\ e # NoEvent
BY BusAssumption DEF Event, NoEvent

LEMMA QueueIds ==
  ASSUME NEW q \in Seq(Event)
  PROVE  \A i \in DOMAIN q : q[i] \in Event /\ q[i].id \in Nat /\ i \in Nat
<1> QED BY LenProperties, ElementOfSeq, EventIds

LEMMA PublishedPlace ==
  ASSUME NEW q, NEW made, NEW hand, NEW done, NEW dr, NEW rf, NEW q2, NEW made2, NEW dr2, NEW rf2,
         OnePlace(q, made, hand, done, dr, rf), OnePublished(q, made, dr, rf, q2, made2, dr2, rf2)
  PROVE  /\ OnePlace(q2, made2, hand, done, dr2, rf2)
         /\ \A i \in DOMAIN q2 : q2[i].id = made2 \/ (i \in DOMAIN q /\ q2[i] = q[i])
<1>1. /\ q \in Seq(Event) /\ made \in Nat /\ Ascending(q)
      /\ 1..made = IdsOf(q) \cup hand \cup done \cup dr \cup rf
      /\ IdsOf(q) \cap (hand \cup done \cup dr \cup rf) = {}
      /\ hand \cap (done \cup dr \cup rf) = {}
      /\ done \cap (dr \cup rf) = {} /\ dr \cap rf = {}
  BY DEF OnePlace
<1>2. made2 = made + 1 /\ made + 1 \in 1..MaxEvents /\ made2 \in Nat
  BY <1>1, BusAssumption DEF OnePublished
<1>0. made \in Nat BY <1>1
<1>3. 1..made2 = 1..made \cup {made2} /\ made2 \notin 1..made /\ made \in Nat BY ONLY <1>2, <1>0
<1>4. CASE q2 = q /\ \/ dr2 = dr /\ rf2 = rf \cup {made + 1}
                     \/ dr2 = dr \cup {made + 1} /\ rf2 = rf
  BY ONLY <1>1, <1>2, <1>3, <1>4 DEF OnePlace
<1>5. CASE (\E k \in EventKinds : q2 = Append(q, [id |-> made + 1, kind |-> k])) /\ dr2 = dr /\ rf2 = rf
  <2>1. PICK k \in EventKinds : q2 = Append(q, [id |-> made + 1, kind |-> k]) BY <1>5
  <2> DEFINE e == [id |-> made + 1, kind |-> k]
             n == Len(q)
  <2>2. e \in Event /\ e.id = made2 BY <1>2 DEF Event
  <2>3. q2 = Append(q, e) BY <2>1
  <2> HIDE DEF e, n
  <2>4. /\ q2 \in Seq(Event) /\ n \in Nat /\ DOMAIN q = 1 .. n /\ DOMAIN q2 = 1 .. n + 1
        /\ \A i \in 1 .. n + 1 : q2[i] = IF i = n + 1 THEN e ELSE q[i]
    BY <1>1, <2>2, <2>3, AppendOf, LenProperties DEF n
  <2>5. \A i \in DOMAIN q : i \in DOMAIN q2 /\ q2[i] = q[i] /\ q[i].id \in IdsOf(q) /\ i < n + 1
    BY <2>4 DEF IdsOf
  <2>6. \A i \in DOMAIN q2 : (i = n + 1 /\ q2[i] = e) \/ (i \in DOMAIN q /\ q2[i] = q[i]) BY <2>4
  <2>7. IdsOf(q2) = IdsOf(q) \cup {made2} BY <2>2, <2>4, <2>5, <2>6 DEF IdsOf
  <2>8. Ascending(q2)
    <3> SUFFICES ASSUME NEW i \in DOMAIN q2, NEW j \in DOMAIN q2, i < j PROVE q2[i].id < q2[j].id
      BY DEF Ascending
    <3>1. i \in DOMAIN q /\ q2[i] = q[i] BY <2>4
    <3>2. CASE j = n + 1
      <4>1. q2[j].id = made2 BY <3>2, <2>2, <2>4
      <4>2. q[i].id \in 1..made BY <3>1, <2>5, <1>1
      <4> QED BY ONLY <4>1, <4>2, <3>1, <1>2, <1>3
    <3>3. CASE j \in DOMAIN q /\ q2[j] = q[j] BY <3>1, <3>3, <1>1 DEF Ascending
    <3> QED BY <2>6, <3>2, <3>3
  <2>9. OnePlace(q2, made2, hand, done, dr2, rf2)
    BY <1>1, <1>2, <1>3, <1>5, <2>4, <2>7, <2>8 DEF OnePlace
  <2> QED BY <2>2, <2>6, <2>9
<1> QED BY <1>4, <1>5 DEF OnePublished

OnePopped(q, q2, ev) == q # <<>> /\ ev = Head(q) /\ q2 = Tail(q)

LEMMA PoppedPlace ==
  ASSUME NEW q, NEW made, NEW done, NEW dr, NEW rf, NEW q2, NEW ev,
         OnePlace(q, made, {}, done, dr, rf), OnePopped(q, q2, ev)
  PROVE  /\ OnePlace(q2, made, {ev.id}, done, dr, rf) /\ ev \in Event
         /\ \A i \in DOMAIN q2 : q2[i] = q[i + 1] /\ i + 1 \in DOMAIN q /\ ev.id < q2[i].id
<1>1. /\ q \in Seq(Event) /\ made \in Nat /\ Ascending(q)
      /\ 1..made = IdsOf(q) \cup done \cup dr \cup rf
      /\ IdsOf(q) \cap (done \cup dr \cup rf) = {}
      /\ done \cap (dr \cup rf) = {} /\ dr \cap rf = {}
  BY DEF OnePlace
<1> DEFINE n == Len(q)
<1>2. /\ ev \in Event /\ ev = q[1] /\ q2 \in Seq(Event) /\ n \in Nat \ {0}
      /\ DOMAIN q = 1 .. n /\ DOMAIN q2 = 1 .. n - 1
      /\ \A i \in 1 .. n - 1 : q2[i] = q[i + 1] /\ i + 1 \in 1 .. n
  BY <1>1, TailOf, LenProperties DEF OnePopped
<1> HIDE DEF n
<1>3. \A i \in DOMAIN q2 : q2[i] = q[i + 1] /\ i + 1 \in DOMAIN q /\ ev.id < q2[i].id
  <2> SUFFICES ASSUME NEW i \in DOMAIN q2
               PROVE  q2[i] = q[i + 1] /\ i + 1 \in DOMAIN q /\ ev.id < q2[i].id
    OBVIOUS
  <2>1. i \in 1 .. n - 1 /\ 1 \in 1 .. n /\ i + 1 \in 1 .. n /\ 1 < i + 1
    BY ONLY <1>2, i \in DOMAIN q2
  <2>2. q2[i] = q[i + 1] /\ 1 \in DOMAIN q /\ i + 1 \in DOMAIN q BY ONLY <1>2, <2>1
  <2>3. q[1].id < q[i + 1].id BY ONLY <1>1, <2>1, <2>2 DEF Ascending
  <2> QED BY ONLY <1>2, <2>2, <2>3
<1>4. 1 \in DOMAIN q /\ \A i \in DOMAIN q : i = 1 \/ (i - 1 \in DOMAIN q2 /\ q2[i - 1] = q[i])
  BY <1>2
<1>5. \A i \in DOMAIN q2 : q2[i].id # ev.id
  <2>1. \A i \in DOMAIN q2 : q2[i].id \in Nat BY <1>2, QueueIds
  <2>2. ev.id \in Nat BY <1>2, EventIds
  <2>3. \A i \in DOMAIN q2 : ev.id < q2[i].id BY <1>3
  <2> QED BY ONLY <2>1, <2>2, <2>3
<1>6. IdsOf(q) = IdsOf(q2) \cup {ev.id} /\ ev.id \notin IdsOf(q2)
  <2>1. \A i \in DOMAIN q : q[i].id \in IdsOf(q2) \cup {ev.id} BY ONLY <1>2, <1>4 DEF IdsOf
  <2>2. (\A i \in DOMAIN q2 : q2[i].id \in IdsOf(q)) /\ ev.id \in IdsOf(q)
    BY ONLY <1>2, <1>3, <1>4 DEF IdsOf
  <2>3. ev.id \notin IdsOf(q2) BY ONLY <1>5 DEF IdsOf
  <2>4. \A x : (x \in IdsOf(q) <=> \E i \in DOMAIN q : x = q[i].id) /\ (x \in IdsOf(q2) <=> \E i \in DOMAIN q2 : x = q2[i].id)
    BY DEF IdsOf
  <2> QED BY ONLY <2>1, <2>2, <2>3, <2>4
<1>7. Ascending(q2)
  <2>1. \A i \in DOMAIN q2 : i \in Int /\ i + 1 \in DOMAIN q /\ q2[i].id = q[i + 1].id
    BY ONLY <1>2, <1>3
  <2> SUFFICES ASSUME NEW i \in DOMAIN q2, NEW j \in DOMAIN q2, i < j PROVE q2[i].id < q2[j].id
    BY DEF Ascending
  <2> QED BY <1>1, <2>1 DEF Ascending
<1> QED BY <1>1, <1>2, <1>3, <1>6, <1>7 DEF OnePlace

LEMMA CountedPlaces ==
  ASSUME NEW q, NEW made, NEW hand, NEW done, NEW dr, NEW rf,
         OnePlace(q, made, hand, done, dr, rf)
  PROVE  made = Len(q) + Cardinality(hand) + Cardinality(done) + Cardinality(dr) + Cardinality(rf)
<1>1. /\ q \in Seq(Event) /\ made \in Nat /\ Ascending(q)
      /\ 1..made = IdsOf(q) \cup hand \cup done \cup dr \cup rf
      /\ IdsOf(q) \cap (hand \cup done \cup dr \cup rf) = {}
      /\ hand \cap (done \cup dr \cup rf) = {}
      /\ done \cap (dr \cup rf) = {} /\ dr \cap rf = {}
  BY DEF OnePlace
<1>2. IsFiniteSet(1..made) /\ Cardinality(1..made) = made BY <1>1, FS_Interval
<1>3. IsFiniteSet(IdsOf(q)) /\ IsFiniteSet(hand) /\ IsFiniteSet(done) /\ IsFiniteSet(dr) /\ IsFiniteSet(rf)
  BY <1>1, <1>2, FS_Subset
<1>4. Cardinality(IdsOf(q)) = Len(q)
  <2> DEFINE f == [i \in 1 .. Len(q) |-> q[i].id]
  <2>1. Len(q) \in Nat /\ DOMAIN q = 1 .. Len(q) BY <1>1, LenProperties
  <2>2. IsFiniteSet(1 .. Len(q)) /\ Cardinality(1 .. Len(q)) = Len(q)
    <3> DEFINE n == Len(q)
    <3> HIDE DEF n
    <3>1. n \in Nat => IsFiniteSet(1 .. n) /\ Cardinality(1 .. n) = n BY FS_Interval
    <3> QED BY <2>1, <3>1 DEF n
  <2>3. f \in [1 .. Len(q) -> IdsOf(q)] BY <2>1 DEF IdsOf
  <2>4. f \in Surjection(1 .. Len(q), IdsOf(q)) BY <2>1, <2>3 DEF Surjection, IdsOf
  <2>5. \A i, j \in DOMAIN q : q[i].id = q[j].id => i = j
    <3> TAKE i, j \in DOMAIN q
    <3>1. i \in Nat /\ j \in Nat /\ q[i].id \in Nat /\ q[j].id \in Nat BY <1>1, QueueIds
    <3> QED BY <1>1, <3>1 DEF Ascending
  <2>6. f \in Bijection(1 .. Len(q), IdsOf(q))
    BY <2>1, <2>3, <2>4, <2>5 DEF Bijection, Injection, IsInjective
  <2> QED BY <2>2, <2>6, FS_Bijection DEF ExistsBijection
<1> DEFINE A == dr \cup rf
           B == done \cup A
           C == hand \cup B
           D == IdsOf(q) \cup C
<1>5. IsFiniteSet(A) /\ Cardinality(A) = Cardinality(dr) + Cardinality(rf) - Cardinality(dr \cap rf)
  BY <1>3, FS_Union
<1>6. IsFiniteSet(B) /\ Cardinality(B) = Cardinality(done) + Cardinality(A) - Cardinality(done \cap A)
  BY <1>3, <1>5, FS_Union
<1>7. IsFiniteSet(C) /\ Cardinality(C) = Cardinality(hand) + Cardinality(B) - Cardinality(hand \cap B)
  BY <1>3, <1>6, FS_Union
<1>8. IsFiniteSet(D) /\ Cardinality(D) = Cardinality(IdsOf(q)) + Cardinality(C) - Cardinality(IdsOf(q) \cap C)
  BY <1>3, <1>7, FS_Union
<1>9. D = 1..made /\ dr \cap rf = {} /\ done \cap A = {} /\ hand \cap B = {} /\ IdsOf(q) \cap C = {}
  BY <1>1
<1>10. /\ Cardinality(dr \cap rf) = 0 /\ Cardinality(done \cap A) = 0 /\ Cardinality(hand \cap B) = 0
       /\ Cardinality(IdsOf(q) \cap C) = 0
  <2> HIDE DEF A, B, C, D
  <2> QED BY <1>9, FS_EmptySet
<1>11. /\ Cardinality(hand) \in Nat /\ Cardinality(done) \in Nat /\ Cardinality(dr) \in Nat
       /\ Cardinality(rf) \in Nat /\ Len(q) \in Nat
  BY <1>1, <1>3, FS_CardinalityType, LenProperties
<1> HIDE DEF A, B, C, D
<1>12. Cardinality(D) = made BY ONLY <1>2, <1>9
<1>13. Cardinality(A) = Cardinality(dr) + Cardinality(rf) BY ONLY <1>5, <1>10, <1>11
<1>14. Cardinality(B) = Cardinality(done) + Cardinality(A) BY ONLY <1>6, <1>10, <1>11, <1>13
<1>15. Cardinality(C) = Cardinality(hand) + Cardinality(B)
  BY ONLY <1>7, <1>10, <1>11, <1>13, <1>14
<1>16. Cardinality(D) = Len(q) + Cardinality(C)
  BY ONLY <1>4, <1>8, <1>10, <1>11, <1>13, <1>14, <1>15
<1> QED BY ONLY <1>11, <1>12, <1>13, <1>14, <1>15, <1>16

------------------------------------------------------------------------------
(* What a subscriber has heard is older than what waits.                    *)
HeardFits(q, made, ev, to, inbox) ==
    /\ inbox \in [1..MaxSubs -> Seq(Nat)] /\ made \in Nat
    /\ to \in Seq(1..MaxSubs) /\ NoRepeat(to)
    /\ ev \in Event \cup {NoEvent}
    /\ ev # NoEvent => ev.id <= made /\ \A j \in DOMAIN q : ev.id < q[j].id
    /\ \A s \in 1..MaxSubs : \A x \in Members(inbox[s]) :
          x <= made /\ \A j \in DOMAIN q : x < q[j].id
    /\ ev # NoEvent => \A s \in 1..MaxSubs : \A x \in Members(inbox[s]) :
          x <= ev.id /\ (s \in Members(to) => x < ev.id)
    /\ \A s \in 1..MaxSubs : \A i, j \in DOMAIN inbox[s] : i < j => inbox[s][i] < inbox[s][j]

LEMMA HeardPublished ==
  ASSUME NEW q, NEW made, NEW ev, NEW to, NEW inbox, NEW q2, NEW made2,
         HeardFits(q, made, ev, to, inbox), made2 = made + 1,
         \A i \in DOMAIN q2 : q2[i].id = made2 \/ (i \in DOMAIN q /\ q2[i] = q[i])
  PROVE  HeardFits(q2, made2, ev, to, inbox)
<1>1. made \in Nat /\ made2 \in Nat BY DEF HeardFits
<1>2. \A s \in 1..MaxSubs : \A x \in Members(inbox[s]) : x \in Nat
  BY LenProperties, ElementOfSeq DEF HeardFits, Members
<1>3. ev # NoEvent => ev.id <= made2 /\ \A j \in DOMAIN q2 : ev.id < q2[j].id
  BY <1>1, EventIds DEF HeardFits
<1>4. \A s \in 1..MaxSubs : \A x \in Members(inbox[s]) :
          x <= made2 /\ \A j \in DOMAIN q2 : x < q2[j].id
  <2> TAKE s \in 1..MaxSubs
  <2> TAKE x \in Members(inbox[s])
  <2> QED BY <1>1, <1>2 DEF HeardFits
<1> QED BY <1>1, <1>3, <1>4 DEF HeardFits

LEMMA HeardPopped ==
  ASSUME NEW q, NEW made, NEW to, NEW inbox, NEW q2, NEW ev2, NEW to2,
         HeardFits(q, made, NoEvent, to, inbox), q \in Seq(Event), q # <<>>,
         IdsOf(q) \subseteq 1..made, ev2 = Head(q),
         \A i \in DOMAIN q2 : q2[i] = q[i + 1] /\ i + 1 \in DOMAIN q /\ ev2.id < q2[i].id,
         to2 \in Seq(1..MaxSubs), NoRepeat(to2)
  PROVE  HeardFits(q2, made, ev2, to2, inbox)
<1>1. ev2 = q[1] /\ ev2 \in Event /\ 1 \in DOMAIN q BY TailOf, LenProperties
<1>2. ev2.id \in 1..made BY <1>1 DEF IdsOf
<1>3. \A s \in 1..MaxSubs : \A x \in Members(inbox[s]) : x \in Nat /\ x < ev2.id
  <2>1. \A s \in 1..MaxSubs : \A x \in Members(inbox[s]) : x \in Nat
    BY LenProperties, ElementOfSeq DEF HeardFits, Members
  <2> QED BY <2>1, <1>1 DEF HeardFits
<1>4. made \in Nat BY DEF HeardFits
<1>5. \A s \in 1..MaxSubs : \A x \in Members(inbox[s]) :
          x <= ev2.id /\ (s \in Members(to2) => x < ev2.id)
  <2> TAKE s \in 1..MaxSubs
  <2> TAKE x \in Members(inbox[s])
  <2>1. x \in Nat /\ x < ev2.id /\ ev2.id \in Nat
    BY ONLY <1>2, <1>3, <1>4, s \in 1..MaxSubs, x \in Members(inbox[s])
  <2> QED BY ONLY <2>1
<1>6. ev2.id <= made BY ONLY <1>2, <1>4
<1> QED BY <1>1, <1>5, <1>6 DEF HeardFits

LEMMA HeardDelivered ==
  ASSUME NEW q, NEW made, NEW ev, NEW to, NEW inbox, NEW to2, NEW inbox2,
         HeardFits(q, made, ev, to, inbox), ev # NoEvent, to # <<>>, to2 = Tail(to),
         inbox2 = [inbox EXCEPT ![Head(to)] = Append(@, ev.id)]
  PROVE  HeardFits(q, made, ev, to2, inbox2)
<1> DEFINE s0 == Head(to)
<1>1. /\ to \in Seq(1..MaxSubs) /\ NoRepeat(to) /\ inbox \in [1..MaxSubs -> Seq(Nat)]
      /\ ev \in Event /\ made \in Nat /\ ev.id <= made
  BY DEF HeardFits
<1>2. ev.id \in Nat BY <1>1, EventIds
<1>3. /\ s0 \in 1..MaxSubs /\ s0 = to[1] /\ to2 \in Seq(1..MaxSubs) /\ Len(to) \in Nat \ {0}
      /\ DOMAIN to = 1 .. Len(to) /\ DOMAIN to2 = 1 .. Len(to) - 1
      /\ \A i \in 1 .. Len(to) - 1 : to2[i] = to[i + 1] /\ i + 1 \in 1 .. Len(to)
  BY <1>1, TailOf, LenProperties
<1>4. NoRepeat(to2) /\ s0 \notin Members(to2) /\ Members(to2) \subseteq Members(to) /\ s0 \in Members(to)
  <2>1. \A i \in DOMAIN to2 : i \in Int /\ i + 1 \in DOMAIN to /\ to2[i] = to[i + 1] /\ i + 1 # 1
    BY <1>3
  <2>2. NoRepeat(to2)
    <3> SUFFICES ASSUME NEW i \in DOMAIN to2, NEW j \in DOMAIN to2, to2[i] = to2[j] PROVE i = j
      BY DEF NoRepeat
    <3> QED BY <1>1, <2>1 DEF NoRepeat
  <2> QED BY <1>1, <1>3, <2>1, <2>2 DEF NoRepeat, Members
<1> HIDE DEF s0
<1>5. /\ inbox2[s0] = Append(inbox[s0], ev.id)
      /\ inbox2 \in [1..MaxSubs -> Seq(Nat)]
      /\ \A s \in 1..MaxSubs : s # s0 => inbox2[s] = inbox[s]
  BY <1>1, <1>2, <1>3, AppendOf DEF s0
<1>6. Members(inbox2[s0]) = Members(inbox[s0]) \cup {ev.id}
  <2> DEFINE old == inbox[s0]
             id == ev.id
  <2>1. old \in Seq(Nat) /\ id \in Nat /\ inbox2[s0] = Append(old, id) BY <1>1, <1>2, <1>3, <1>5
  <2> HIDE DEF old, id
  <2>2. Members(Append(old, id)) = Members(old) \cup {id} BY ONLY <2>1, AppendMembers
  <2> QED BY ONLY <2>1, <2>2 DEF old, id
<1>7. \A s \in 1..MaxSubs : \A x \in Members(inbox2[s]) : x \in Members(inbox[s]) \/ (s = s0 /\ x = ev.id)
  BY <1>5, <1>6
<1>8. \A s \in 1..MaxSubs : \A x \in Members(inbox2[s]) :
          x <= made /\ \A j \in DOMAIN q : x < q[j].id
  BY <1>7 DEF HeardFits
<1>9. \A s \in 1..MaxSubs : \A x \in Members(inbox2[s]) :
          x <= ev.id /\ (s \in Members(to2) => x < ev.id)
  BY <1>2, <1>4, <1>7 DEF HeardFits
<1>10. \A s \in 1..MaxSubs : \A i, j \in DOMAIN inbox2[s] : i < j => inbox2[s][i] < inbox2[s][j]
  <2> TAKE s \in 1..MaxSubs
  <2>1. CASE s # s0 BY <2>1, <1>5 DEF HeardFits
  <2>2. CASE s = s0
    <3> DEFINE a == inbox[s0]
               b == inbox2[s0]
               n == Len(a)
    <3>1. /\ n \in Nat /\ DOMAIN a = 1 .. n /\ DOMAIN b = 1 .. n + 1
          /\ \A i \in 1 .. n + 1 : b[i] = IF i = n + 1 THEN ev.id ELSE a[i]
      <4>1. a \in Seq(Nat) /\ b \in Seq(Nat) /\ b = Append(a, ev.id) BY <1>1, <1>3, <1>5
      <4> HIDE DEF a, b
      <4> QED BY <4>1, <1>2, AppendOf, LenProperties
    <3>2. /\ \A i, j \in DOMAIN a : i < j => a[i] < a[j]
          /\ \A i \in DOMAIN a : a[i] < ev.id
      BY <1>3, <1>4 DEF HeardFits, Members
    <3> HIDE DEF a, b, n
    <3>3. \A i, j \in DOMAIN b : i < j => b[i] < b[j]
      <4> TAKE i, j \in DOMAIN b
      <4> HAVE i < j
      <4>1. i \in DOMAIN a /\ b[i] = a[i] BY <3>1
      <4>2. CASE j = n + 1 BY <3>1, <3>2, <4>1, <4>2
      <4>3. CASE j # n + 1 BY <3>1, <3>2, <4>1, <4>3
      <4> QED BY <4>2, <4>3
    <3> QED BY <3>3, <2>2 DEF b
  <2> QED BY <2>1, <2>2
<1>11. ev.id <= made /\ \A j \in DOMAIN q : ev.id < q[j].id BY DEF HeardFits
<1> QED BY <1>1, <1>3, <1>4, <1>5, <1>8, <1>9, <1>10, <1>11 DEF HeardFits

LEMMA HeardEnded ==
  ASSUME NEW q, NEW made, NEW ev, NEW to, NEW inbox, NEW to2,
         HeardFits(q, made, ev, to, inbox), to2 \in Seq(1..MaxSubs), NoRepeat(to2)
  PROVE  HeardFits(q, made, NoEvent, to2, inbox)
BY DEF HeardFits

------------------------------------------------------------------------------
DrainRecords == [on : BOOLEAN, left : Int, event : Event \cup {NoEvent}, to : Seq(1..MaxSubs)]

SubsFit(subs, n) ==
    /\ n \in Nat /\ subs \in [EventKinds -> Seq(1..MaxSubs)]
    /\ \A k \in EventKinds : NoRepeat(subs[k]) /\ \A s \in Members(subs[k]) : s <= n

EventsIInv ==
    /\ SubsFit(busSubs, busNextSub) /\ busDrain \in DrainRecords
    /\ busDrain.event # NoEvent => busDrain.on
    /\ OnePlace(busQueue, busMade, EventOf(busDrain.event), busDone, busDropped, busRefused)
    /\ HeardFits(busQueue, busMade, busDrain.event, busDrain.to, busInbox)

LEMMA EmptyList ==
  ASSUME NEW S
  PROVE  <<>> \in Seq(S) /\ NoRepeat(<<>>) /\ Members(<<>>) = {} /\ DOMAIN <<>> = {}
BY DEF NoRepeat, Members

LEMMA IdleFits == IdleDrain \in DrainRecords /\ IdleDrain.event = NoEvent /\ IdleDrain.to = <<>>
BY DEF IdleDrain, DrainRecords, NoEvent

LEMMA EventsStart == BusesInit => EventsIInv
<1> SUFFICES ASSUME BusesInit PROVE EventsIInv OBVIOUS
<1>1. /\ busSubs = [k \in EventKinds |-> <<>>] /\ busNextSub = 0
      /\ busQueue = <<>> /\ busMade = 0 /\ busDropped = {} /\ busRefused = {}
      /\ busDrain = IdleDrain /\ busInbox = [s \in 1..MaxSubs |-> <<>>] /\ busDone = {}
  BY DEF BusesInit
<1>2. OnePlace(<<>>, 0, {}, {}, {}, {}) BY EmptyList DEF OnePlace, IdsOf, Ascending
<1>3. HeardFits(<<>>, 0, NoEvent, <<>>, busInbox) BY <1>1, EmptyList DEF HeardFits
<1> QED BY <1>1, <1>2, <1>3, EmptyList, IdleFits DEF EventsIInv, EventOf, SubsFit

LEMMA SubscribeKeeps ==
  ASSUME EventsIInv, NEW k \in EventKinds, Subscribe(k)
  PROVE  EventsIInv'
<1>1. /\ busNextSub < MaxSubs /\ busNextSub' = busNextSub + 1
      /\ busSubs' = [busSubs EXCEPT ![k] = Append(@, busNextSub')]
      /\ UNCHANGED <<busQueue, busMade, busDropped, busRefused, busDrain, busInbox, busDone>>
  BY DEF Subscribe
<1>2. /\ busNextSub \in Nat /\ busSubs \in [EventKinds -> Seq(1..MaxSubs)]
      /\ \A j \in EventKinds : NoRepeat(busSubs[j]) /\ \A s \in Members(busSubs[j]) : s <= busNextSub
  BY DEF EventsIInv, SubsFit
<1>3. busNextSub' \in 1..MaxSubs /\ busSubs[k] \in Seq(1..MaxSubs) /\ busNextSub' \notin Members(busSubs[k])
      /\ \A j \in EventKinds : \A s \in Members(busSubs[j]) : s \in Nat /\ s <= busNextSub'
  <2>1. busNextSub' \in 1..MaxSubs /\ busSubs[k] \in Seq(1..MaxSubs) BY <1>1, <1>2, BusAssumption
  <2>2. \A j \in EventKinds : \A s \in Members(busSubs[j]) : s \in 1..MaxSubs BY <1>2, MembersIn
  <2> QED BY <1>1, <1>2, <2>1, <2>2
<1> DEFINE new == Append(busSubs[k], busNextSub')
<1>4. new \in Seq(1..MaxSubs) /\ NoRepeat(new) /\ Members(new) = Members(busSubs[k]) \cup {busNextSub'}
  <2> DEFINE old == busSubs[k]
             id == busNextSub'
             ids == 1..MaxSubs
  <2>1. old \in Seq(ids) /\ NoRepeat(old) /\ id \in ids /\ id \notin Members(old) BY <1>2, <1>3
  <2>2. new = Append(old, id) OBVIOUS
  <2> HIDE DEF new, old, id, ids
  <2>3. Append(old, id) \in Seq(ids) /\ Members(Append(old, id)) = Members(old) \cup {id}
    BY ONLY <2>1, AppendMembers
  <2>4. NoRepeat(Append(old, id)) BY ONLY <2>1, AppendMembers
  <2>5. new \in Seq(ids) /\ NoRepeat(new) /\ Members(new) = Members(old) \cup {id}
    BY ONLY <2>2, <2>3, <2>4
  <2> QED BY ONLY <2>5 DEF old, id, ids
<1> HIDE DEF new
<1>5. /\ busSubs' \in [EventKinds -> Seq(1..MaxSubs)] /\ busSubs'[k] = new
      /\ \A j \in EventKinds : j # k => busSubs'[j] = busSubs[j]
  BY <1>1, <1>2, <1>4 DEF new
<1>6. \A j \in EventKinds : NoRepeat(busSubs'[j]) /\ \A s \in Members(busSubs'[j]) : s <= busNextSub'
  <2> TAKE j \in EventKinds
  <2>1. CASE j = k BY <2>1, <1>3, <1>4, <1>5
  <2>2. CASE j # k BY <2>2, <1>2, <1>3, <1>5
  <2> QED BY <2>1, <2>2
<1> QED BY <1>1, <1>3, <1>5, <1>6 DEF EventsIInv, SubsFit

LEMMA ErasedFits ==
  ASSUME NEW S, NEW subs \in Seq(S), NoRepeat(subs), NEW id
  PROVE  Erased(subs, id) \in Seq(S) /\ NoRepeat(Erased(subs, id)) /\ Members(Erased(subs, id)) \subseteq Members(subs)
<1>1. CASE \E i \in DOMAIN subs : subs[i] = id
  <2>1. PICK i \in DOMAIN subs : Erased(subs, id) = RemoveAt(subs, i) BY <1>1 DEF Erased
  <2> QED BY <2>1, RemovedMembers
<1>2. CASE ~ \E i \in DOMAIN subs : subs[i] = id BY <1>2 DEF Erased
<1> QED BY <1>1, <1>2

LEMMA UnsubscribeKeeps ==
  ASSUME EventsIInv, NEW s \in 1..MaxSubs, Unsubscribe(s)
  PROVE  EventsIInv'
<1>1. /\ busSubs' = [k \in EventKinds |-> Erased(busSubs[k], s)]
      /\ UNCHANGED <<busNextSub, busQueue, busMade, busDropped, busRefused, busDrain, busInbox, busDone>>
  BY DEF Unsubscribe
<1>2. /\ busNextSub \in Nat /\ busSubs \in [EventKinds -> Seq(1..MaxSubs)]
      /\ \A j \in EventKinds : NoRepeat(busSubs[j]) /\ \A t \in Members(busSubs[j]) : t <= busNextSub
  BY DEF EventsIInv, SubsFit
<1>3. \A k \in EventKinds : /\ busSubs'[k] \in Seq(1..MaxSubs) /\ NoRepeat(busSubs'[k])
                            /\ Members(busSubs'[k]) \subseteq Members(busSubs[k])
  BY <1>1, <1>2, ErasedFits
<1>4. SubsFit(busSubs', busNextSub) BY <1>1, <1>2, <1>3 DEF SubsFit
<1> QED BY <1>1, <1>4 DEF EventsIInv

LEMMA PublishedIsOne ==
  ASSUME NEW k \in EventKinds, Published(k)
  PROVE  OnePublished(busQueue, busMade, busDropped, busRefused, busQueue', busMade', busDropped', busRefused')
BY DEF Published, OnePublished

LEMMA EventPublishKeeps ==
  ASSUME EventsIInv, NEW k \in EventKinds, Publish(k)
  PROVE  EventsIInv'
<1>1. UNCHANGED <<busSubs, busNextSub, busDrain, busInbox, busDone>> /\ Published(k)
  BY DEF Publish
<1>2. OnePublished(busQueue, busMade, busDropped, busRefused, busQueue', busMade', busDropped', busRefused')
  BY <1>1, PublishedIsOne
<1>3. /\ OnePlace(busQueue', busMade', EventOf(busDrain.event), busDone, busDropped', busRefused')
      /\ \A i \in DOMAIN busQueue' : busQueue'[i].id = busMade' \/ (i \in DOMAIN busQueue /\ busQueue'[i] = busQueue[i])
  BY ONLY <1>2, EventsIInv, PublishedPlace DEF EventsIInv
<1>4. HeardFits(busQueue', busMade', busDrain.event, busDrain.to, busInbox)
  <2>1. HeardFits(busQueue, busMade, busDrain.event, busDrain.to, busInbox) /\ busMade' = busMade + 1
    BY <1>2 DEF EventsIInv, OnePublished
  <2> QED BY ONLY <2>1, <1>3, HeardPublished
<1> QED BY <1>1, <1>3, <1>4 DEF EventsIInv

LEMMA DrainBeginKeeps ==
  ASSUME EventsIInv, NEW max \in Int, DrainBegin(max) \/ DrainEnd
  PROVE  EventsIInv'
<1>1. /\ UNCHANGED <<busSubs, busNextSub, busQueue, busMade, busDropped, busRefused, busInbox, busDone>>
      /\ busDrain' = [IdleDrain EXCEPT !.on = TRUE, !.left = max] \/ busDrain' = IdleDrain
      /\ busDrain.event = NoEvent
  BY DEF DrainBegin, DrainEnd, EventsIInv
<1>2. busDrain' \in DrainRecords /\ busDrain'.event = NoEvent /\ busDrain'.to = <<>>
  <2>1. CASE busDrain' = IdleDrain BY <2>1, IdleFits
  <2>2. CASE busDrain' = [IdleDrain EXCEPT !.on = TRUE, !.left = max]
    BY <2>2, IdleFits DEF IdleDrain, DrainRecords
  <2> QED BY <1>1, <2>1, <2>2
<1>3. HeardFits(busQueue, busMade, NoEvent, <<>>, busInbox)
  BY HeardEnded, EmptyList DEF EventsIInv
<1> QED BY <1>1, <1>2, <1>3 DEF EventsIInv

LEMMA DrainPopKeeps ==
  ASSUME EventsIInv, DrainPop
  PROVE  EventsIInv'
<1> DEFINE ev == Head(busQueue)
           to == busSubs[ev.kind]
<1>1. /\ UNCHANGED <<busSubs, busNextSub, busMade, busDropped, busRefused, busInbox, busDone>>
      /\ busDrain.event = NoEvent /\ busQueue # <<>> /\ busQueue' = Tail(busQueue)
      /\ busDrain' = [busDrain EXCEPT !.event = ev, !.to = to]
  BY DEF DrainPop
<1>2. busDrain.on BY DEF DrainPop
<1>3. OnePlace(busQueue, busMade, {}, busDone, busDropped, busRefused)
  BY <1>1 DEF EventsIInv, EventOf
<1> HIDE DEF ev, to
<1>4. /\ OnePlace(busQueue', busMade, {ev.id}, busDone, busDropped, busRefused) /\ ev \in Event
      /\ \A i \in DOMAIN busQueue' : busQueue'[i] = busQueue[i + 1] /\ i + 1 \in DOMAIN busQueue /\ ev.id < busQueue'[i].id
  <2>1. OnePopped(busQueue, busQueue', ev) BY <1>1 DEF ev, OnePopped
  <2> QED BY ONLY <2>1, <1>3, PoppedPlace
<1>5. to \in Seq(1..MaxSubs) /\ NoRepeat(to) BY <1>4, EventIds DEF EventsIInv, SubsFit, to
<1>6. HeardFits(busQueue', busMade, ev, to, busInbox)
  <2>1. HeardFits(busQueue, busMade, NoEvent, busDrain.to, busInbox) BY <1>1 DEF EventsIInv
  <2>2. busQueue \in Seq(Event) /\ IdsOf(busQueue) \subseteq 1..busMade BY <1>3 DEF OnePlace
  <2> QED BY ONLY <1>1, <1>4, <1>5, <2>1, <2>2, HeardPopped DEF ev
<1>7. busDrain \in DrainRecords BY DEF EventsIInv
<1>8. busDrain'.event = ev /\ busDrain'.to = to /\ busDrain' \in DrainRecords
  BY ONLY <1>1, <1>4, <1>5, <1>7 DEF DrainRecords
<1>9. busDrain'.on
  <2>1. busDrain'.on = busDrain.on BY ONLY <1>1, <1>7 DEF DrainRecords
  <2> QED BY <1>2, <2>1
<1> QED BY <1>1, <1>4, <1>6, <1>8, <1>9, EventIds DEF EventsIInv, EventOf

LEMMA DeliverKeeps ==
  ASSUME EventsIInv, Deliver
  PROVE  EventsIInv'
<1> DEFINE ev == busDrain.event
           to2 == Tail(busDrain.to)
<1>1. /\ UNCHANGED <<busSubs, busNextSub, busDone>>
      /\ ev # NoEvent /\ busDrain.to # <<>>
      /\ busInbox' = [busInbox EXCEPT ![Head(busDrain.to)] = Append(@, ev.id)]
      /\ busDrain' = [busDrain EXCEPT !.to = Tail(@)]
      /\ \/ UNCHANGED <<busQueue, busMade, busDropped, busRefused>>
         \/ \E k \in EventKinds : Published(k)
  BY DEF Deliver
<1>2. busDrain \in DrainRecords /\ busDrain.on BY <1>1 DEF EventsIInv
<1>3. HeardFits(busQueue, busMade, ev, busDrain.to, busInbox) BY DEF EventsIInv
<1>4. HeardFits(busQueue, busMade, ev, to2, busInbox') BY ONLY <1>1, <1>3, HeardDelivered
<1>5. to2 \in Seq(1..MaxSubs) BY <1>4 DEF HeardFits
<1>6. busDrain'.event = ev /\ busDrain'.to = to2 /\ busDrain' \in DrainRecords
  <2>1. busDrain' = [busDrain EXCEPT !.to = to2] BY <1>1
  <2> HIDE DEF to2
  <2> QED BY ONLY <2>1, <1>2, <1>5 DEF DrainRecords
<1>7. busDrain'.on
  <2>1. busDrain' = [busDrain EXCEPT !.to = to2] BY <1>1
  <2> HIDE DEF to2
  <2>2. busDrain'.on = busDrain.on BY ONLY <2>1, <1>2 DEF DrainRecords
  <2> QED BY <1>2, <2>2
<1> HIDE DEF ev, to2
<1>8. OnePlace(busQueue, busMade, EventOf(ev), busDone, busDropped, busRefused)
  BY DEF EventsIInv, ev
<1>9. /\ OnePlace(busQueue', busMade', EventOf(ev), busDone, busDropped', busRefused')
      /\ HeardFits(busQueue', busMade', ev, to2, busInbox')
  <2>1. CASE UNCHANGED <<busQueue, busMade, busDropped, busRefused>> BY <2>1, <1>4, <1>8
  <2>2. CASE \E k \in EventKinds : Published(k)
    <3>1. OnePublished(busQueue, busMade, busDropped, busRefused, busQueue', busMade', busDropped', busRefused')
      BY <2>2, PublishedIsOne
    <3>2. /\ OnePlace(busQueue', busMade', EventOf(ev), busDone, busDropped', busRefused')
          /\ \A i \in DOMAIN busQueue' : busQueue'[i].id = busMade' \/ (i \in DOMAIN busQueue /\ busQueue'[i] = busQueue[i])
      BY ONLY <3>1, <1>8, PublishedPlace
    <3>3. busMade' = busMade + 1 BY <3>1 DEF OnePublished
    <3> QED BY ONLY <3>2, <3>3, <1>4, HeardPublished
  <2> QED BY <1>1, <2>1, <2>2
<1> QED BY <1>1, <1>6, <1>7, <1>9 DEF EventsIInv

LEMMA DrainNextKeeps ==
  ASSUME EventsIInv, DrainNext
  PROVE  EventsIInv'
<1> DEFINE ev == busDrain.event
<1>1. /\ UNCHANGED <<busSubs, busNextSub, busQueue, busMade, busDropped, busRefused, busInbox>>
      /\ ev # NoEvent /\ busDone' = busDone \cup {ev.id}
      /\ busDrain' = [busDrain EXCEPT !.event = NoEvent, !.left = @ - 1] \/ busDrain' = IdleDrain
  BY DEF DrainNext
<1>2. busDrain \in DrainRecords BY DEF EventsIInv
<1>3. busDrain' \in DrainRecords /\ busDrain'.event = NoEvent
  <2>1. CASE busDrain' = IdleDrain BY <2>1, IdleFits
  <2>2. CASE busDrain' = [busDrain EXCEPT !.event = NoEvent, !.left = @ - 1]
    <3> DEFINE n == busDrain.left - 1
    <3>1. n \in Int BY ONLY <1>2 DEF DrainRecords
    <3>2. busDrain' = [busDrain EXCEPT !.event = NoEvent, !.left = n] BY ONLY <2>2, <1>2
    <3> HIDE DEF n
    <3> QED BY ONLY <3>1, <3>2, <1>2 DEF DrainRecords
  <2> QED BY <1>1, <2>1, <2>2
<1>4. busDrain'.to = busDrain.to \/ busDrain'.to = <<>>
  <2>1. CASE busDrain' = IdleDrain BY <2>1, IdleFits
  <2>2. CASE busDrain' = [busDrain EXCEPT !.event = NoEvent, !.left = @ - 1]
    BY ONLY <2>2, <1>2 DEF DrainRecords
  <2> QED BY <1>1, <2>1, <2>2
<1> HIDE DEF ev
<1>5. HeardFits(busQueue, busMade, ev, busDrain.to, busInbox) BY DEF EventsIInv, ev
<1>6. busDrain'.to \in Seq(1..MaxSubs) /\ NoRepeat(busDrain'.to)
  BY <1>4, <1>5, EmptyList DEF HeardFits
<1>7. HeardFits(busQueue, busMade, NoEvent, busDrain'.to, busInbox)
  BY ONLY <1>5, <1>6, HeardEnded
<1>8. OnePlace(busQueue, busMade, EventOf(NoEvent), busDone', busDropped, busRefused)
  <2>1. EventOf(NoEvent) = {} /\ EventOf(ev) = {ev.id} BY <1>1 DEF EventOf
  <2>2. OnePlace(busQueue, busMade, {ev.id}, busDone, busDropped, busRefused)
    BY <2>1 DEF EventsIInv, ev
  <2> QED BY ONLY <1>1, <2>1, <2>2 DEF OnePlace
<1> QED BY <1>1, <1>3, <1>7, <1>8 DEF EventsIInv

LEMMA EventsSteps == EventsIInv /\ [EventsNext]_eventVars => EventsIInv'
<1> SUFFICES ASSUME EventsIInv, [EventsNext]_eventVars PROVE EventsIInv' OBVIOUS
<1>1. CASE UNCHANGED eventVars \/ \E k \in EventKinds : PublishImmediate(k)
  BY <1>1 DEF EventsIInv, eventVars, PublishImmediate
<1>2. CASE \E k \in EventKinds : Subscribe(k) \/ Publish(k)
  BY <1>2, SubscribeKeeps, EventPublishKeeps
<1>3. CASE \E s \in 1..MaxSubs : Unsubscribe(s) BY <1>3, UnsubscribeKeeps
<1>4. CASE \E max \in 0..BusCapacity : DrainBegin(max) BY <1>4, DrainBeginKeeps
<1>5. CASE DrainPop \/ Deliver \/ DrainNext \/ DrainEnd
  BY <1>5, DrainPopKeeps, DeliverKeeps, DrainNextKeeps, DrainBeginKeeps
<1> QED BY <1>1, <1>2, <1>3, <1>4, <1>5 DEF EventsNext

LEMMA EventsSafe == EventsIInv => EventsAccountedFor /\ SubscribersHearInOrder
<1> SUFFICES ASSUME EventsIInv PROVE EventsAccountedFor /\ SubscribersHearInOrder OBVIOUS
<1>1. /\ OnePlace(busQueue, busMade, EventOf(busDrain.event), busDone, busDropped, busRefused)
      /\ HeardFits(busQueue, busMade, busDrain.event, busDrain.to, busInbox)
  BY DEF EventsIInv
<1>2. busMade = Len(busQueue) + Cardinality(EventOf(busDrain.event)) + Cardinality(busDone)
                 + Cardinality(busDropped) + Cardinality(busRefused)
  BY ONLY <1>1, CountedPlaces
<1>3. \A i \in DOMAIN busQueue : busQueue[i].id \notin busDone BY <1>1 DEF OnePlace, IdsOf
<1>4. EventsAccountedFor
  BY <1>1, <1>2, <1>3 DEF EventsAccountedFor, OnePlace, QueuedEvents, IdsOf, EventInHand, EventOf
<1> QED BY <1>1, <1>4 DEF HeardFits, SubscribersHearInOrder

------------------------------------------------------------------------------
(* The stacks under way.                                                    *)
Buss == {"command", "query"}
Pairs(stacks, bus) ==
    {c \in BusThreads \X (1..MaxDepth) : c[2] \in DOMAIN stacks[c[1]] /\ stacks[c[1]][c[2]] = bus}
CallPlaces(list, bus) == {i \in DOMAIN list : list[i] = bus}

CallsIInv ==
    /\ busCalls \in [BusThreads -> Seq(Buss)] /\ busReadOnly \in [BusThreads -> Nat]
    /\ \A t \in BusThreads : Len(busCalls[t]) <= MaxDepth
    /\ IsFiniteSet(Pairs(busCalls, "command"))
    /\ busInFlight = Cardinality(Pairs(busCalls, "command"))
    /\ \A t \in BusThreads : busReadOnly[t] = Cardinality(CallPlaces(busCalls[t], "query"))

LEMMA PushedPlaces ==
  ASSUME NEW list \in Seq(Buss), NEW b \in Buss, NEW c \in Buss
  PROVE  LET l2 == Append(list, b) IN
         /\ l2 \in Seq(Buss) /\ Len(l2) = Len(list) + 1 /\ Len(list) \in Nat
         /\ DOMAIN l2 = DOMAIN list \cup {Len(list) + 1} /\ Len(list) + 1 \notin DOMAIN list
         /\ \A i \in DOMAIN list : l2[i] = list[i]
         /\ l2[Len(list) + 1] = b
         /\ CallPlaces(l2, c) = IF b = c THEN CallPlaces(list, c) \cup {Len(list) + 1} ELSE CallPlaces(list, c)
<1> DEFINE n == Len(list)
           l2 == Append(list, b)
<1>1. /\ l2 \in Seq(Buss) /\ n \in Nat /\ DOMAIN list = 1 .. n /\ DOMAIN l2 = 1 .. n + 1
      /\ Len(l2) = n + 1
      /\ \A i \in 1 .. n + 1 : l2[i] = IF i = n + 1 THEN b ELSE list[i]
  BY AppendOf, LenProperties
<1> HIDE DEF n, l2
<1>2. DOMAIN l2 = DOMAIN list \cup {n + 1} /\ n + 1 \notin DOMAIN list BY ONLY <1>1
<1>3. (\A i \in DOMAIN list : l2[i] = list[i]) /\ l2[n + 1] = b BY ONLY <1>1
<1>4. CallPlaces(l2, c) = IF b = c THEN CallPlaces(list, c) \cup {n + 1} ELSE CallPlaces(list, c)
  BY ONLY <1>2, <1>3 DEF CallPlaces
<1> QED BY <1>1, <1>2, <1>3, <1>4 DEF n, l2

LEMMA PoppedPlaces ==
  ASSUME NEW list \in Seq(Buss), list # <<>>, NEW c \in Buss
  PROVE  LET l2 == SubSeq(list, 1, Len(list) - 1) IN
         /\ l2 \in Seq(Buss) /\ Len(l2) = Len(list) - 1 /\ Len(list) \in Nat
         /\ DOMAIN l2 = DOMAIN list \ {Len(list)} /\ Len(list) \in DOMAIN list
         /\ \A i \in DOMAIN l2 : l2[i] = list[i]
         /\ CallPlaces(l2, c) = CallPlaces(list, c) \ {Len(list)}
         /\ list[Len(list)] \in Buss
<1> DEFINE n == Len(list)
           l2 == SubSeq(list, 1, n - 1)
<1>1. n \in Nat \ {0} /\ DOMAIN list = 1 .. n BY EmptySeq, LenProperties
<1>2. /\ l2 \in Seq(Buss) /\ Len(l2) = n - 1 /\ \A i \in 1 .. n - 1 : l2[i] = list[i]
  <2>1. /\ SubSeq(list, 1, n - 1) \in Seq(Buss) /\ Len(SubSeq(list, 1, n - 1)) = n - 1 - 1 + 1
        /\ \A i \in 1 .. n - 1 - 1 + 1 : SubSeq(list, 1, n - 1)[i] = list[1 + i - 1]
    BY <1>1, StretchOf
  <2> HIDE DEF n
  <2> QED BY <1>1, <2>1
<1>3. DOMAIN l2 = 1 .. n - 1 BY <1>1, <1>2, LenProperties
<1>4. list[n] \in Buss BY <1>1, ElementOfSeq
<1> HIDE DEF n, l2
<1>5. DOMAIN l2 = DOMAIN list \ {n} /\ n \in DOMAIN list BY ONLY <1>1, <1>3
<1>6. \A i \in DOMAIN l2 : l2[i] = list[i] BY ONLY <1>2, <1>3
<1>7. CallPlaces(l2, c) = CallPlaces(list, c) \ {n} BY ONLY <1>5, <1>6 DEF CallPlaces
<1> QED BY <1>1, <1>2, <1>4, <1>5, <1>6, <1>7 DEF n, l2

(* One call more, or one less, of thread t.                                 *)
CallPushed(stacks, stacks2, t, b) ==
    /\ stacks \in [BusThreads -> Seq(Buss)] /\ t \in BusThreads /\ b \in Buss
    /\ Len(stacks[t]) < MaxDepth /\ stacks2 = [stacks EXCEPT ![t] = Append(@, b)]

CallPopped(stacks, stacks2, t) ==
    /\ stacks \in [BusThreads -> Seq(Buss)] /\ t \in BusThreads
    /\ stacks[t] # <<>> /\ Len(stacks[t]) <= MaxDepth
    /\ stacks2 = [stacks EXCEPT ![t] = SubSeq(@, 1, Len(@) - 1)]

LEMMA PushedPairs ==
  ASSUME NEW stacks, NEW stacks2, NEW t, NEW b, NEW c \in Buss, CallPushed(stacks, stacks2, t, b)
  PROVE  Pairs(stacks2, c) = IF b = c THEN Pairs(stacks, c) \cup {<<t, Len(stacks[t]) + 1>>} ELSE Pairs(stacks, c)
<1> DEFINE n == Len(stacks[t]) + 1
<1> USE BusAssumption DEF CallPushed
<1>1. /\ n \in Nat /\ DOMAIN stacks2[t] = DOMAIN stacks[t] \cup {n} /\ n \notin DOMAIN stacks[t]
      /\ \A i \in DOMAIN stacks[t] : stacks2[t][i] = stacks[t][i]
      /\ stacks2[t][n] = b
  BY PushedPlaces
<1>2. \A u \in BusThreads : u # t => stacks2[u] = stacks[u] OBVIOUS
<1>3. n \in 1 .. MaxDepth BY LenProperties
<1> HIDE DEF n
<1>4. ASSUME NEW x
      PROVE  x \in Pairs(stacks2, c) <=> x \in Pairs(stacks, c) \/ (b = c /\ x = <<t, n>>)
  <2>1. CASE x \in BusThreads \X (1..MaxDepth)
    <3>1. PICK u \in BusThreads, i \in 1..MaxDepth : x = <<u, i>> BY <2>1
    <3>2. /\ x \in Pairs(stacks2, c) <=> i \in DOMAIN stacks2[u] /\ stacks2[u][i] = c
          /\ x \in Pairs(stacks, c) <=> i \in DOMAIN stacks[u] /\ stacks[u][i] = c
      BY <2>1, <3>1 DEF Pairs
    <3>3. x = <<t, n>> <=> u = t /\ i = n BY <3>1
    <3>4. CASE u # t BY ONLY <3>2, <3>3, <3>4, <1>2, u \in BusThreads
    <3>5. CASE u = t BY ONLY <3>2, <3>3, <3>5, <1>1
    <3> QED BY <3>4, <3>5
  <2>2. CASE x \notin BusThreads \X (1..MaxDepth) BY <1>3, <2>2 DEF Pairs
  <2> QED BY <2>1, <2>2
<1>5. CASE b = c BY <1>4, <1>5 DEF n
<1>6. CASE b # c BY <1>4, <1>6
<1> QED BY <1>5, <1>6

LEMMA PoppedPairs ==
  ASSUME NEW stacks, NEW stacks2, NEW t, NEW c \in Buss, CallPopped(stacks, stacks2, t)
  PROVE  /\ Pairs(stacks2, c) = Pairs(stacks, c) \ {<<t, Len(stacks[t])>>}
         /\ <<t, Len(stacks[t])>> \in Pairs(stacks, c) <=> stacks[t][Len(stacks[t])] = c
<1> DEFINE n == Len(stacks[t])
<1> USE DEF CallPopped
<1>1. /\ n \in Nat /\ DOMAIN stacks2[t] = DOMAIN stacks[t] \ {n} /\ n \in DOMAIN stacks[t]
      /\ \A i \in DOMAIN stacks2[t] : stacks2[t][i] = stacks[t][i]
  BY PoppedPlaces
<1>2. \A u \in BusThreads : u # t => stacks2[u] = stacks[u] OBVIOUS
<1>3. <<t, n>> \in BusThreads \X (1..MaxDepth)
  <2>1. n \in 1 .. n BY <1>1, LenProperties
  <2> QED BY <1>1, <2>1, BusAssumption
<1> HIDE DEF n
<1>4. ASSUME NEW x
      PROVE  x \in Pairs(stacks2, c) <=> x \in Pairs(stacks, c) /\ x # <<t, n>>
  <2>1. CASE x \in BusThreads \X (1..MaxDepth)
    <3>1. PICK u \in BusThreads, i \in 1..MaxDepth : x = <<u, i>> BY <2>1
    <3>2. /\ x \in Pairs(stacks2, c) <=> i \in DOMAIN stacks2[u] /\ stacks2[u][i] = c
          /\ x \in Pairs(stacks, c) <=> i \in DOMAIN stacks[u] /\ stacks[u][i] = c
      BY <2>1, <3>1 DEF Pairs
    <3>3. x = <<t, n>> <=> u = t /\ i = n BY <3>1
    <3>4. CASE u # t BY ONLY <3>2, <3>3, <3>4, <1>2, u \in BusThreads
    <3>5. CASE u = t BY ONLY <3>2, <3>3, <3>5, <1>1
    <3> QED BY <3>4, <3>5
  <2>2. CASE x \notin BusThreads \X (1..MaxDepth) BY <2>2 DEF Pairs
  <2> QED BY <2>1, <2>2
<1>5. <<t, n>> \in Pairs(stacks, c) <=> stacks[t][n] = c
  <2> DEFINE x == <<t, n>>
  <2>1. x[1] = t /\ x[2] = n OBVIOUS
  <2> HIDE DEF x
  <2> QED BY <1>1, <1>3, <2>1 DEF x, Pairs
<1> QED BY <1>4, <1>5 DEF n

LEMMA FinitePlaces ==
  ASSUME NEW list \in Seq(Buss), NEW c
  PROVE  IsFiniteSet(CallPlaces(list, c)) /\ Cardinality(CallPlaces(list, c)) \in Nat
<1> DEFINE n == Len(list)
<1>1. n \in Nat /\ DOMAIN list = 1 .. n BY LenProperties
<1>2. CallPlaces(list, c) \in SUBSET (1 .. n) BY <1>1 DEF CallPlaces
<1> HIDE DEF n
<1>3. IsFiniteSet(CallPlaces(list, c)) BY <1>1, <1>2, FS_Interval, FS_Subset
<1> QED BY <1>3, FS_CardinalityType

LEMMA CallsStart == BusesInit => CallsIInv
<1> SUFFICES ASSUME BusesInit PROVE CallsIInv OBVIOUS
<1>1. /\ busCalls = [t \in BusThreads |-> <<>>] /\ busInFlight = 0
      /\ busReadOnly = [t \in BusThreads |-> 0]
  BY DEF BusesInit
<1>2. Pairs(busCalls, "command") = {} /\ \A t \in BusThreads : CallPlaces(busCalls[t], "query") = {}
  BY <1>1 DEF Pairs, CallPlaces
<1>3. busCalls \in [BusThreads -> Seq(Buss)] /\ \A t \in BusThreads : Len(busCalls[t]) = 0
  BY <1>1
<1>4. IsFiniteSet({}) /\ Cardinality({}) = 0 /\ MaxDepth >= 0 BY FS_EmptySet, BusAssumption
<1>5. busReadOnly \in [BusThreads -> Nat] /\ \A t \in BusThreads : busReadOnly[t] = 0 BY <1>1
<1> QED BY ONLY <1>1, <1>2, <1>3, <1>4, <1>5 DEF CallsIInv

LEMMA CallBegins ==
  ASSUME CallsIInv, NEW t \in BusThreads, NEW type, Dispatch(t, type) \/ Ask(t, type)
  PROVE  CallsIInv'
<1> DEFINE list == busCalls[t]
           cm == Pairs(busCalls, "command")
           n == Len(list) + 1
<1>1. PICK b \in Buss :
        /\ Len(list) < MaxDepth /\ busCalls' = [busCalls EXCEPT ![t] = Append(@, b)]
        /\ \/ b = "command" /\ busInFlight' = busInFlight + 1 /\ busReadOnly' = busReadOnly
           \/ b = "query" /\ busInFlight' = busInFlight /\ busReadOnly' = [busReadOnly EXCEPT ![t] = @ + 1]
  BY DEF Dispatch, Ask, Buss
<1>2. /\ busCalls \in [BusThreads -> Seq(Buss)] /\ busReadOnly \in [BusThreads -> Nat]
      /\ \A u \in BusThreads : Len(busCalls[u]) <= MaxDepth
      /\ IsFiniteSet(cm) /\ busInFlight = Cardinality(cm)
      /\ \A u \in BusThreads : busReadOnly[u] = Cardinality(CallPlaces(busCalls[u], "query"))
      /\ list \in Seq(Buss) /\ "command" \in Buss /\ "query" \in Buss /\ MaxDepth \in Int
  BY BusAssumption DEF CallsIInv, Buss
<1>3. Pairs(busCalls', "command") = IF b = "command" THEN cm \cup {<<t, n>>} ELSE cm
  <2>1. CallPushed(busCalls, busCalls', t, b) BY <1>1, <1>2 DEF CallPushed
  <2> QED BY ONLY <2>1, <1>2, PushedPairs
<1>4. <<t, n>> \notin cm
  <2>1. n \notin DOMAIN list BY ONLY <1>2, PushedPlaces
  <2> HIDE DEF n
  <2> DEFINE x == <<t, n>>
  <2>2. x[1] = t /\ x[2] = n OBVIOUS
  <2> HIDE DEF x
  <2> QED BY <2>1, <2>2 DEF x, Pairs
<1>5. /\ busCalls'[t] = Append(list, b)
      /\ Append(list, b) \in Seq(Buss) /\ Len(Append(list, b)) = Len(list) + 1 /\ Len(list) \in Nat
      /\ n \notin CallPlaces(list, "query")
      /\ CallPlaces(Append(list, b), "query") = IF b = "query" THEN CallPlaces(list, "query") \cup {n} ELSE CallPlaces(list, "query")
  <2>1. busCalls'[t] = Append(list, b) BY <1>1, <1>2
  <2>2. b \in Buss OBVIOUS
  <2> HIDE DEF list
  <2>3. n \notin DOMAIN list BY ONLY <1>2, PushedPlaces
  <2>4. n \notin CallPlaces(list, "query") BY <2>3 DEF CallPlaces
  <2> QED BY ONLY <1>2, <2>1, <2>2, <2>4, PushedPlaces
<1>6. \A u \in BusThreads : u # t => busCalls'[u] = busCalls[u] BY <1>1, <1>2
<1>7. busCalls' \in [BusThreads -> Seq(Buss)] BY <1>1, <1>2, <1>5
<1>8. \A u \in BusThreads : Len(busCalls'[u]) <= MaxDepth BY <1>1, <1>2, <1>5, <1>6
<1> HIDE DEF n, cm, list
<1>9. IsFiniteSet(Pairs(busCalls', "command")) /\ busInFlight' = Cardinality(Pairs(busCalls', "command"))
  <2>1. IsFiniteSet(cm \cup {<<t, n>>}) /\ Cardinality(cm \cup {<<t, n>>}) = Cardinality(cm) + 1
    BY ONLY <1>2, <1>4, FS_AddElement
  <2>2. CASE b = "command" BY ONLY <1>1, <1>2, <1>3, <2>1, <2>2
  <2>3. CASE b = "query" BY ONLY <1>1, <1>2, <1>3, <2>3
  <2> QED BY <1>1, <2>2, <2>3
<1>10. IsFiniteSet(CallPlaces(list, "query")) BY <1>2, FinitePlaces
<1>11. busReadOnly' \in [BusThreads -> Nat] BY <1>1, <1>2
<1>12. Cardinality(CallPlaces(Append(list, b), "query")) = (IF b = "query" THEN busReadOnly[t] + 1 ELSE busReadOnly[t])
  <2>1. busReadOnly[t] = Cardinality(CallPlaces(list, "query")) BY <1>2 DEF list
  <2>2. Cardinality(CallPlaces(list, "query") \cup {n}) = Cardinality(CallPlaces(list, "query")) + 1
    BY ONLY <1>5, <1>10, FS_AddElement
  <2> QED BY ONLY <2>1, <2>2, <1>5
<1>13. \A u \in BusThreads : busReadOnly'[u] = IF u = t /\ b = "query" THEN busReadOnly[u] + 1 ELSE busReadOnly[u]
  BY <1>1, <1>2
<1>14. \A u \in BusThreads : busReadOnly'[u] = Cardinality(CallPlaces(busCalls'[u], "query"))
  BY ONLY <1>2, <1>5, <1>6, <1>12, <1>13
<1> QED BY ONLY <1>7, <1>8, <1>9, <1>11, <1>14 DEF CallsIInv

LEMMA CallReturns ==
  ASSUME CallsIInv, NEW t \in BusThreads, CallEnds(t)
  PROVE  CallsIInv'
<1> DEFINE list == busCalls[t]
           cm == Pairs(busCalls, "command")
           n == Len(list)
           l2 == SubSeq(list, 1, Len(list) - 1)
<1>1. /\ list # <<>> /\ busCalls' = [busCalls EXCEPT ![t] = SubSeq(@, 1, Len(@) - 1)]
      /\ \/ list[n] = "command" /\ busInFlight' = busInFlight - 1 /\ busReadOnly' = busReadOnly
         \/ /\ list[n] = "query" /\ busInFlight' = busInFlight
            /\ busReadOnly' = [busReadOnly EXCEPT ![t] = IF @ > 0 THEN @ - 1 ELSE @]
  BY DEF CallEnds, Front, Last
<1>2. /\ busCalls \in [BusThreads -> Seq(Buss)] /\ busReadOnly \in [BusThreads -> Nat]
      /\ \A u \in BusThreads : Len(busCalls[u]) <= MaxDepth
      /\ IsFiniteSet(cm) /\ busInFlight = Cardinality(cm)
      /\ \A u \in BusThreads : busReadOnly[u] = Cardinality(CallPlaces(busCalls[u], "query"))
      /\ list \in Seq(Buss) /\ "command" \in Buss /\ "query" \in Buss
  BY DEF CallsIInv, Buss
<1>3. /\ Pairs(busCalls', "command") = cm \ {<<t, n>>}
      /\ <<t, n>> \in cm <=> list[n] = "command"
  <2>1. CallPopped(busCalls, busCalls', t) BY <1>1, <1>2 DEF CallPopped
  <2> QED BY ONLY <2>1, <1>2, PoppedPairs
<1>4. busCalls'[t] = l2 /\ \A u \in BusThreads : u # t => busCalls'[u] = busCalls[u]
  BY <1>1, <1>2
<1>5. /\ l2 \in Seq(Buss) /\ Len(l2) = n - 1 /\ n \in Nat
      /\ CallPlaces(l2, "query") = CallPlaces(list, "query") \ {n} /\ n \in DOMAIN list
  <2> HIDE DEF list
  <2> QED BY ONLY <1>1, <1>2, PoppedPlaces
<1>6. n \in CallPlaces(list, "query") <=> list[n] = "query" BY <1>5 DEF CallPlaces
<1>7. busCalls' \in [BusThreads -> Seq(Buss)] BY <1>1, <1>2, <1>5
<1>8. \A u \in BusThreads : Len(busCalls'[u]) <= MaxDepth BY <1>2, <1>4, <1>5, BusAssumption
<1> HIDE DEF n, cm, list, l2
<1>9. IsFiniteSet(Pairs(busCalls', "command")) /\ busInFlight' = Cardinality(Pairs(busCalls', "command"))
  <2>1. IsFiniteSet(cm \ {<<t, n>>})
        /\ Cardinality(cm \ {<<t, n>>}) = IF <<t, n>> \in cm THEN Cardinality(cm) - 1 ELSE Cardinality(cm)
    BY ONLY <1>2, FS_RemoveElement
  <2>2. CASE list[n] = "command" BY ONLY <1>1, <1>2, <1>3, <2>1, <2>2
  <2>3. CASE list[n] = "query" BY ONLY <1>1, <1>2, <1>3, <2>1, <2>3
  <2> QED BY <1>1, <2>2, <2>3
<1>10. IsFiniteSet(CallPlaces(list, "query")) /\ Cardinality(CallPlaces(list, "query")) \in Nat
  BY <1>2, FinitePlaces
<1>11. busReadOnly[t] = Cardinality(CallPlaces(list, "query")) /\ busReadOnly[t] \in Nat
  BY <1>2 DEF list
<1>12. Cardinality(CallPlaces(l2, "query")) = (IF list[n] = "query" THEN busReadOnly[t] - 1 ELSE busReadOnly[t])
  BY ONLY <1>5, <1>6, <1>10, <1>11, FS_RemoveElement
<1>13. list[n] = "query" => busReadOnly[t] > 0 BY ONLY <1>6, <1>10, <1>11, FS_EmptySet
<1>14. \A u \in BusThreads : busReadOnly'[u] = IF u = t /\ list[n] = "query" THEN busReadOnly[u] - 1 ELSE busReadOnly[u]
  BY <1>1, <1>2, <1>13
<1>15. busReadOnly' \in [BusThreads -> Nat]
  <2>1. CASE list[n] = "command" BY ONLY <1>1, <1>2, <2>1
  <2>2. CASE list[n] = "query"
    <3>1. busReadOnly[t] - 1 \in Nat BY ONLY <1>11, <1>13, <2>2
    <3>2. busReadOnly' = [busReadOnly EXCEPT ![t] = busReadOnly[t] - 1] BY <1>1, <1>2, <1>13, <2>2
    <3> QED BY ONLY <3>1, <3>2, <1>2
  <2> QED BY <1>1, <2>1, <2>2
<1>16. \A u \in BusThreads : busReadOnly'[u] = Cardinality(CallPlaces(busCalls'[u], "query"))
  BY ONLY <1>2, <1>4, <1>12, <1>14
<1> QED BY ONLY <1>7, <1>8, <1>9, <1>15, <1>16 DEF CallsIInv

LEMMA CallsSteps == CallsIInv /\ [CallsNext]_callVars => CallsIInv'
<1> SUFFICES ASSUME CallsIInv, [CallsNext]_callVars PROVE CallsIInv' OBVIOUS
<1>1. CASE \E t \in BusThreads, type \in CallTypes : Dispatch(t, type) \/ Ask(t, type) \/ CallEnds(t)
  BY <1>1, CallBegins, CallReturns
<1>2. CASE UNCHANGED <<busCalls, busInFlight, busReadOnly>> BY <1>2 DEF CallsIInv
<1>3. \A t, bus, type : (RegisterHandler(bus, type) \/ ProbeWrite(t)) => UNCHANGED <<busCalls, busInFlight, busReadOnly>>
  BY DEF RegisterHandler, ProbeWrite
<1> QED BY <1>1, <1>2, <1>3 DEF CallsNext, callVars

LEMMA CallsSafe == CallsIInv => CallsAreCounted
BY DEF CallsIInv, CallsAreCounted, CallsUnderWay, Pairs, CallPlaces

(* The event bus and the command and query buses share nothing.             *)
LEMMA BusesApart ==
  /\ EventsNext => UNCHANGED callVars
  /\ CallsNext => UNCHANGED eventVars
<1>1. EventsNext => UNCHANGED callVars
  BY DEF EventsNext, Subscribe, Unsubscribe, Publish, PublishImmediate, DrainBegin, DrainPop,
         Deliver, DrainNext, DrainEnd
<1> QED BY <1>1 DEF CallsNext, RegisterHandler, Dispatch, Ask, CallEnds, ProbeWrite

(* No event is lost, a subscriber hears in order and once, and the stacks   *)
(* under way are counted: for any threads, subscriptions and handlers.      *)
THEOREM BusesCorrect == BusesSpec => [](EventsAccountedFor /\ SubscribersHearInOrder /\ CallsAreCounted)
<1>1. BusesInit => EventsIInv /\ CallsIInv BY EventsStart, CallsStart
<1>2. EventsIInv /\ CallsIInv /\ [BusesNext]_busVars => EventsIInv' /\ CallsIInv'
  <2>1. [BusesNext]_busVars => [EventsNext]_eventVars /\ [CallsNext]_callVars
    BY BusesApart DEF BusesNext, busVars
  <2> QED BY <2>1, EventsSteps, CallsSteps
<1> QED BY <1>1, <1>2, EventsSafe, CallsSafe, PTL DEF BusesSpec

------------------------------------------------------------------------------
(* The pool and the objects.  A block is in one of five places, and each    *)
(* list names it at most once.                                              *)

BlockNumbers == Nat \ {0}
(* Five sets that share nothing, and are all of a sixth.                    *)
Dealt(a, b, c, d, e, all) ==
    /\ a \cap b = {} /\ a \cap c = {} /\ a \cap d = {} /\ a \cap e = {} /\ b \cap c = {}
    /\ b \cap d = {} /\ b \cap e = {} /\ c \cap d = {} /\ c \cap e = {} /\ d \cap e = {}
    /\ a \cup b \cup c \cup d \cup e = all
ListFits(s) == s \in Seq(BlockNumbers) /\ NoRepeat(s)
HandFits(hand) ==
    /\ hand \in [Foreign -> Nat]
    /\ \A t, u \in Foreign : hand[t] = hand[u] /\ hand[t] # 0 => t = u

PoolIInv ==
    /\ memChunks \in Nat /\ ListFits(memFree) /\ ListFits(memRemote) /\ ListFits(memOverflow)
    /\ HandFits(memHand) /\ memMagic = memHeld
    /\ Dealt(Members(memFree), Members(memRemote), Members(memOverflow), memHeld, InHands(memHand), Blocks)
ObjectIInv ==
    /\ objChunks \in Nat /\ ListFits(objFree)
    /\ Members(objFree) \cap objInUse = {} /\ Members(objFree) \cup objInUse = ObjectSlots

BlocksOf(n) == 1 .. (n * ChunkBlocks)
LEMMA ChunkAdded ==
  ASSUME NEW n \in Nat
  PROVE  LET s == ChunkSeq(n) IN
         /\ ListFits(s) /\ s # <<>> /\ Members(s) \cap BlocksOf(n) = {}
         /\ BlocksOf(n + 1) = BlocksOf(n) \cup Members(s)
<1> DEFINE k == ChunkBlocks
           m == n * k
           s == ChunkSeq(n)
<1>1. k \in Nat \ {0} /\ m \in Nat BY MemoryAssumption
<1>2. (n + 1) * k = m + k BY <1>1
<1>3. s = [i \in 1 .. k |-> m + i] BY DEF ChunkSeq
<1> HIDE DEF k, m, s
<1>4. s \in Seq(BlockNumbers) /\ Len(s) = k /\ DOMAIN s = 1 .. k
  <2>1. s \in [1 .. k -> BlockNumbers] BY <1>1, <1>3 DEF BlockNumbers
  <2> QED BY <2>1, <1>1
<1>5. s # <<>> BY <1>1, <1>4, EmptySeq
<1>6. Members(s) = (m + 1) .. (m + k)
  <2>1. ASSUME NEW x \in Members(s) PROVE x \in (m + 1) .. (m + k) BY <1>1, <1>3 DEF Members
  <2>2. ASSUME NEW x \in (m + 1) .. (m + k) PROVE x \in Members(s)
    BY <1>1, <1>3, <1>4 DEF Members
  <2> QED BY <2>1, <2>2
<1>7. BlocksOf(n) = 1 .. m /\ BlocksOf(n + 1) = 1 .. (m + k) BY <1>2 DEF BlocksOf, m, k
<1> QED BY <1>1, <1>3, <1>4, <1>5, <1>6, <1>7 DEF s, ListFits, NoRepeat

(* The head of a list leaves it, a block is put in front of one.            *)
LEMMA ListTail ==
  ASSUME NEW s, ListFits(s), s # <<>>
  PROVE  /\ ListFits(Tail(s)) /\ Head(s) \in Members(s)
         /\ Members(Tail(s)) = Members(s) \ {Head(s)}
BY TailMembers DEF ListFits

LEMMA PutInFront ==
  ASSUME NEW s, ListFits(s), NEW b \in BlockNumbers, b \notin Members(s)
  PROVE  ListFits(<<b>> \o s) /\ Members(<<b>> \o s) = Members(s) \cup {b}
<1>1. <<b>> \in Seq(BlockNumbers) /\ Members(<<b>>) = {b} /\ NoRepeat(<<b>>)
  <2>1. <<b>> \in Seq(BlockNumbers) OBVIOUS
  <2> QED BY <2>1 DEF Members, NoRepeat
<1> DEFINE one == <<b>>
<1> HIDE DEF one
<1>2. Members(one) \cap Members(s) = {} /\ one \in Seq(BlockNumbers) /\ NoRepeat(one)
  BY <1>1 DEF one
<1>3. s \in Seq(BlockNumbers) /\ NoRepeat(s) BY DEF ListFits
<1>4. one \o s \in Seq(BlockNumbers) /\ Members(one \o s) = Members(one) \cup Members(s)
  BY ONLY <1>2, <1>3, ConcatMembers
<1>5. NoRepeat(one \o s) BY ONLY <1>2, <1>3, ConcatMembers
<1>6. Members(one) = {b} BY <1>1 DEF one
<1>7. ListFits(one \o s) /\ Members(one \o s) = Members(s) \cup {b}
  BY ONLY <1>4, <1>5, <1>6 DEF ListFits
<1> QED BY <1>7 DEF one

LEMMA PutBehind ==
  ASSUME NEW s, ListFits(s), NEW b \in BlockNumbers, b \notin Members(s)
  PROVE  ListFits(Append(s, b)) /\ Members(Append(s, b)) = Members(s) \cup {b}
<1>1. s \in Seq(BlockNumbers) /\ NoRepeat(s) BY DEF ListFits
<1>2. /\ Append(s, b) \in Seq(BlockNumbers) /\ Members(Append(s, b)) = Members(s) \cup {b}
      /\ NoRepeat(Append(s, b))
  BY ONLY <1>1, b \in BlockNumbers, b \notin Members(s), AppendMembers
<1> QED BY ONLY <1>2 DEF ListFits

LEMMA ReverseMembers ==
  ASSUME NEW s, ListFits(s)
  PROVE  ListFits(Reverse(s)) /\ Members(Reverse(s)) = Members(s)
<1> DEFINE n == Len(s)
           r == Reverse(s)
<1>1. n \in Nat /\ DOMAIN s = 1 .. n /\ s \in Seq(BlockNumbers) /\ NoRepeat(s)
  BY LenProperties DEF ListFits
<1>2. r = [i \in 1 .. n |-> s[(n - i) + 1]] BY DEF Reverse
<1> HIDE DEF n, r
<1>3. \A i \in 1 .. n : (n - i) + 1 \in 1 .. n /\ s[(n - i) + 1] \in BlockNumbers /\ (n - ((n - i) + 1)) + 1 = i
  BY <1>1, ElementOfSeq DEF n
<1>4. r \in Seq(BlockNumbers) /\ DOMAIN r = 1 .. n BY <1>1, <1>2, <1>3
<1>5. NoRepeat(r)
  <2> SUFFICES ASSUME NEW i \in 1 .. n, NEW j \in 1 .. n, r[i] = r[j] PROVE i = j
    BY <1>4 DEF NoRepeat
  <2> QED BY <1>1, <1>2, <1>3 DEF NoRepeat
<1>6. ASSUME NEW x \in Members(r) PROVE x \in Members(s) BY <1>1, <1>2, <1>3, <1>4 DEF Members
<1>7. ASSUME NEW x \in Members(s) PROVE x \in Members(r)
  <2>1. PICK i \in 1 .. n : x = s[i] BY <1>1 DEF Members
  <2> QED BY <1>2, <1>3, <1>4, <2>1 DEF Members
<1> QED BY <1>4, <1>5, <1>6, <1>7 DEF ListFits, r

LEMMA HandTakes ==
  ASSUME NEW hand, HandFits(hand), NEW t \in Foreign, hand[t] = 0,
         NEW b \in BlockNumbers, b \notin InHands(hand)
  PROVE  LET g == [hand EXCEPT ![t] = b] IN HandFits(g) /\ InHands(g) = InHands(hand) \cup {b}
<1> DEFINE g == [hand EXCEPT ![t] = b]
<1>1. /\ g \in [Foreign -> Nat] /\ g[t] = b /\ b # 0 /\ \A u \in Foreign : u # t => g[u] = hand[u]
      /\ \A u \in Foreign : hand[u] # b /\ hand[u] \in Nat
  BY DEF HandFits, BlockNumbers, InHands
<1> HIDE DEF g
<1>2. InHands(g) = InHands(hand) \cup {b} BY <1>1 DEF InHands
<1> QED BY <1>1, <1>2 DEF g, HandFits

LEMMA HandGives ==
  ASSUME NEW hand, HandFits(hand), NEW t \in Foreign, hand[t] # 0
  PROVE  LET g == [hand EXCEPT ![t] = 0] IN
         /\ HandFits(g) /\ InHands(g) = InHands(hand) \ {hand[t]}
         /\ hand[t] \in InHands(hand) /\ hand[t] \in BlockNumbers
<1> DEFINE g == [hand EXCEPT ![t] = 0]
<1>1. /\ g \in [Foreign -> Nat] /\ g[t] = 0 /\ \A u \in Foreign : u # t => g[u] = hand[u] /\ hand[u] # hand[t]
      /\ hand[t] \in BlockNumbers
  BY DEF HandFits, BlockNumbers
<1> HIDE DEF g
<1>2. InHands(g) = InHands(hand) \ {hand[t]}
  <2>1. ASSUME NEW x \in InHands(g) PROVE x \in InHands(hand) \ {hand[t]}
    <3>1. PICK u \in Foreign : x = g[u] /\ x # 0 BY <2>1 DEF InHands
    <3> QED BY <1>1, <3>1 DEF InHands
  <2>2. ASSUME NEW x \in InHands(hand) \ {hand[t]} PROVE x \in InHands(g)
    <3>1. PICK u \in Foreign : x = hand[u] /\ x # 0 BY <2>2 DEF InHands
    <3> QED BY <1>1, <2>2, <3>1 DEF InHands
  <2> QED BY <2>1, <2>2
<1>3. hand[t] \in InHands(hand) BY DEF InHands
<1> QED BY <1>1, <1>2, <1>3 DEF g, HandFits

(* The head of a list of free blocks, wherever they were, goes to a caller. *)
LEMMA TakeMoves ==
  ASSUME NEW list, ListFits(list), list # <<>>, NEW b, NEW c, NEW held, NEW e, NEW all,
         Dealt(Members(list), b, c, held, e, all)
  PROVE  /\ ListFits(Tail(list))
         /\ Dealt(Members(Tail(list)), b, c, held \cup {Head(list)}, e, all)
<1>1. /\ ListFits(Tail(list)) /\ Head(list) \in Members(list)
      /\ Members(Tail(list)) = Members(list) \ {Head(list)}
  BY ListTail
<1> DEFINE a == Members(list)
           x == Head(list)
           f == Members(Tail(list))
<1>2. Dealt(a, b, c, held, e, all) /\ x \in a /\ f = a \ {x} BY <1>1
<1> HIDE DEF a, x, f
<1> QED BY <1>1, <1>2 DEF a, x, f, Dealt

LEMMA AllocateSteps ==
  ASSUME PoolIInv, Allocate
  PROVE  PoolIInv'
<1>1. /\ memChunks \in Nat /\ ListFits(memFree) /\ ListFits(memRemote) /\ ListFits(memOverflow)
      /\ HandFits(memHand) /\ memMagic = memHeld
      /\ Dealt(Members(memFree), Members(memRemote), Members(memOverflow), memHeld, InHands(memHand), Blocks)
  BY DEF PoolIInv
<1>2. ListFits(<<>>) /\ Members(<<>>) = {}
  BY EmptySeq, LenProperties DEF ListFits, NoRepeat, Members
<1>3. ASSUME NEW list, PoolTake(list), ListFits(list), list # <<>>,
             memChunks' \in Nat, ListFits(memRemote'), ListFits(memOverflow'),
             Dealt(Members(list), Members(memRemote'), Members(memOverflow'), memHeld, InHands(memHand), Blocks')
      PROVE  PoolIInv'
  <2>1. /\ memFree' = Tail(list) /\ memHeld' = memHeld \cup {Head(list)} /\ memMagic' = memHeld'
        /\ memHand' = memHand
    BY <1>1, <1>3 DEF PoolTake
  <2>2. /\ ListFits(Tail(list))
        /\ Dealt(Members(Tail(list)), Members(memRemote'), Members(memOverflow'), memHeld \cup {Head(list)},
                 InHands(memHand), Blocks')
    BY <1>3, TakeMoves
  <2>3. ListFits(memFree') /\ HandFits(memHand') /\ memMagic' = memHeld' BY <2>1, <2>2, <1>1
  <2> QED BY <1>3, <2>1, <2>2, <2>3 DEF PoolIInv
<1>4. CASE memFree # <<>> /\ PoolTake(memFree) /\ UNCHANGED <<memChunks, memRemote, memOverflow>>
  BY <1>1, <1>3, <1>4 DEF Blocks
<1>5. CASE /\ memFree = <<>> /\ Refilled # <<>> /\ PoolTake(Refilled)
           /\ memRemote' = <<>> /\ memOverflow' = <<>> /\ UNCHANGED memChunks
  <2> DEFINE a == Members(memRemote)
             b == Members(memOverflow)
             both == memRemote \o memOverflow
  <2>1. Blocks' = Blocks BY <1>5 DEF Blocks
  <2>2. Members(memFree) = {} /\ a \cap b = {} BY <1>1, <1>2, <1>5 DEF Dealt
  <2>3. ListFits(both) /\ Members(both) = a \cup b BY <2>2, <1>1, ConcatMembers DEF ListFits
  <2>4. ListFits(Refilled) /\ Members(Refilled) = a \cup b
    <3> HIDE DEF both
    <3> QED BY <2>3, ReverseMembers DEF Refilled, both
  <2>5. Dealt(Members(Refilled), {}, {}, memHeld, InHands(memHand), Blocks)
    BY <2>2, <2>4, <1>1 DEF Dealt
  <2> QED BY <2>1, <2>4, <2>5, <1>1, <1>2, <1>3, <1>5
<1>6. CASE /\ memFree = <<>> /\ Refilled = <<>> /\ memChunks < MaxChunks
           /\ memChunks' = memChunks + 1 /\ PoolTake(ChunkSeq(memChunks))
           /\ UNCHANGED <<memRemote, memOverflow>>
  <2> DEFINE s == ChunkSeq(memChunks)
  <2>1. ListFits(s) /\ s # <<>> /\ Members(s) \cap Blocks = {} /\ Blocks' = Blocks \cup Members(s)
    BY <1>1, <1>6, ChunkAdded DEF Blocks, BlocksOf
  <2>2. Members(memFree) = {} BY <1>2, <1>6
  <2> HIDE DEF s
  <2>3. memChunks' \in Nat /\ memRemote' = memRemote /\ memOverflow' = memOverflow /\ PoolTake(s)
    BY <1>1, <1>6 DEF s
  <2> QED BY <1>1, <1>3, <2>1, <2>2, <2>3 DEF Dealt
<1> QED BY <1>4, <1>5, <1>6 DEF Allocate

LEMMA FreeSteps ==
  ASSUME PoolIInv, NEW b \in Blocks, FreeLocal(b) \/ FreeAgain(b) \/ \E t \in Foreign : FreeRemote(t, b)
  PROVE  PoolIInv'
<1>1. /\ memChunks \in Nat /\ ListFits(memFree) /\ ListFits(memRemote) /\ ListFits(memOverflow)
      /\ HandFits(memHand) /\ memMagic = memHeld
      /\ Dealt(Members(memFree), Members(memRemote), Members(memOverflow), memHeld, InHands(memHand), Blocks)
  BY DEF PoolIInv
<1>2. b \in BlockNumbers /\ memChunks' = memChunks /\ Blocks' = Blocks
  BY DEF Blocks, BlockNumbers, FreeLocal, FreeAgain, FreeRemote
<1>3. CASE FreeLocal(b)
  <2>1. /\ b \in memHeld /\ memHeld' = memHeld \ {b} /\ memMagic' = memHeld' /\ memFree' = <<b>> \o memFree
        /\ memRemote' = memRemote /\ memOverflow' = memOverflow /\ memHand' = memHand
    BY <1>1, <1>3 DEF FreeLocal
  <2>2. ListFits(memFree') /\ Members(memFree') = Members(memFree) \cup {b}
    BY <1>1, <1>2, <2>1, PutInFront DEF Dealt
  <2>3. Dealt(Members(memFree'), Members(memRemote'), Members(memOverflow'), memHeld', InHands(memHand'), Blocks')
    BY <1>1, <1>2, <2>1, <2>2 DEF Dealt
  <2> QED BY <2>1, <2>2, <2>3, <1>1, <1>2 DEF PoolIInv
<1>4. ASSUME NEW t \in Foreign, FreeRemote(t, b) PROVE PoolIInv'
  <2>1. /\ b \in memHeld /\ memHeld' = memHeld \ {b} /\ memMagic' = memHeld' /\ memHand[t] = 0
        /\ memHand' = [memHand EXCEPT ![t] = b]
        /\ memFree' = memFree /\ memRemote' = memRemote /\ memOverflow' = memOverflow
    BY <1>1, <1>4 DEF FreeRemote
  <2>2. HandFits(memHand') /\ InHands(memHand') = InHands(memHand) \cup {b}
    BY <1>1, <1>2, <2>1, HandTakes DEF Dealt
  <2>3. Dealt(Members(memFree'), Members(memRemote'), Members(memOverflow'), memHeld', InHands(memHand'), Blocks')
    BY <1>1, <1>2, <2>1, <2>2 DEF Dealt
  <2> QED BY <2>1, <2>2, <2>3, <1>1, <1>2 DEF PoolIInv
<1>5. CASE FreeAgain(b) BY <1>1, <1>2, <1>5 DEF PoolIInv, FreeAgain
<1> QED BY <1>3, <1>4, <1>5

LEMMA HomeSteps ==
  ASSUME PoolIInv, NEW t \in Foreign, GoHome(t)
  PROVE  PoolIInv'
<1> DEFINE b == memHand[t]
<1>1. /\ memChunks \in Nat /\ ListFits(memFree) /\ ListFits(memRemote) /\ ListFits(memOverflow)
      /\ HandFits(memHand) /\ memMagic = memHeld
      /\ Dealt(Members(memFree), Members(memRemote), Members(memOverflow), memHeld, InHands(memHand), Blocks)
  BY DEF PoolIInv
<1>2. /\ b # 0 /\ memHand' = [memHand EXCEPT ![t] = 0]
      /\ memChunks' = memChunks /\ Blocks' = Blocks /\ memFree' = memFree
      /\ memHeld' = memHeld /\ memMagic' = memMagic
  BY DEF GoHome, Blocks
<1>3. /\ HandFits(memHand') /\ InHands(memHand') = InHands(memHand) \ {b}
      /\ b \in InHands(memHand) /\ b \in BlockNumbers
  BY <1>1, <1>2, HandGives
<1> HIDE DEF b
<1>4. b \notin Members(memRemote) /\ b \notin Members(memOverflow) BY <1>1, <1>3 DEF Dealt
<1>5. CASE memRemote' = Append(memRemote, b) /\ memOverflow' = memOverflow
  <2>1. ListFits(memRemote') /\ Members(memRemote') = Members(memRemote) \cup {b}
    BY <1>1, <1>3, <1>4, <1>5, PutBehind
  <2>2. Dealt(Members(memFree'), Members(memRemote'), Members(memOverflow'), memHeld', InHands(memHand'), Blocks')
    BY <1>1, <1>2, <1>3, <1>5, <2>1 DEF Dealt
  <2> QED BY <2>1, <2>2, <1>1, <1>2, <1>3, <1>5 DEF PoolIInv
<1>6. CASE memOverflow' = Append(memOverflow, b) /\ memRemote' = memRemote
  <2>1. ListFits(memOverflow') /\ Members(memOverflow') = Members(memOverflow) \cup {b}
    BY <1>1, <1>3, <1>4, <1>6, PutBehind
  <2>2. Dealt(Members(memFree), Members(memRemote), Members(memOverflow'), memHeld, InHands(memHand'), Blocks)
    BY <2>1, <1>1, <1>3 DEF Dealt
  <2> QED BY <1>1, <1>2, <1>3, <1>6, <2>1, <2>2 DEF PoolIInv
<1> QED BY <1>5, <1>6 DEF GoHome, b

LEMMA PoolSteps == ASSUME PoolIInv, [PoolNext]_poolVars PROVE PoolIInv'
<1>1. CASE UNCHANGED poolVars BY <1>1 DEF PoolIInv, Blocks, poolVars
<1> QED BY <1>1, AllocateSteps, FreeSteps, HomeSteps DEF PoolNext

LEMMA LastMembers ==
  ASSUME NEW s, ListFits(s), s # <<>>
  PROVE  /\ ListFits(Front(s)) /\ Last(s) \in Members(s)
         /\ Members(Front(s)) = Members(s) \ {Last(s)}
<1>1. LET f == SubSeq(s, 1, Len(s) - 1) IN
      /\ f \in Seq(BlockNumbers) /\ NoRepeat(f) /\ s[Len(s)] \in Members(s)
      /\ Members(f) = Members(s) \ {s[Len(s)]}
  BY FrontMembers DEF ListFits
<1> QED BY <1>1 DEF ListFits, Front, Last

LEMMA ObjectSteps == ASSUME ObjectIInv, [ObjectNext]_objVars PROVE ObjectIInv'
<1>1. /\ objChunks \in Nat /\ ListFits(objFree)
      /\ Members(objFree) \cap objInUse = {} /\ Members(objFree) \cup objInUse = ObjectSlots
  BY DEF ObjectIInv
<1>2. CASE UNCHANGED objVars BY <1>1, <1>2 DEF objVars, ObjectIInv, ObjectSlots
<1>3. ASSUME Acquire PROVE ObjectIInv'
  <2> DEFINE list == IF objFree = <<>> THEN ChunkSeq(objChunks) ELSE objFree
  <2>1. /\ objChunks' = (IF objFree = <<>> THEN objChunks + 1 ELSE objChunks)
        /\ objFree' = Front(list) /\ objInUse' = objInUse \cup {Last(list)}
    BY <1>3 DEF Acquire
  <2>2. /\ ListFits(list) /\ list # <<>> /\ objChunks' \in Nat
        /\ Members(list) \cap objInUse = {} /\ Members(list) \cup objInUse = ObjectSlots'
    <3>1. CASE objFree = <<>>
      <4>1. list = ChunkSeq(objChunks) /\ objChunks' = objChunks + 1 BY <2>1, <3>1
      <4>2. /\ ListFits(list) /\ list # <<>> /\ Members(list) \cap ObjectSlots = {}
            /\ ObjectSlots' = ObjectSlots \cup Members(list)
        BY <1>1, <4>1, ChunkAdded DEF ObjectSlots, BlocksOf
      <4>3. Members(objFree) = {} BY <3>1, EmptySeq, LenProperties DEF Members
      <4> HIDE DEF list
      <4> QED BY <1>1, <4>1, <4>2, <4>3
    <3>2. CASE objFree # <<>>
      <4>1. list = objFree /\ objChunks' = objChunks /\ ObjectSlots' = ObjectSlots
        BY <2>1, <3>2 DEF ObjectSlots
      <4> HIDE DEF list
      <4> QED BY <1>1, <3>2, <4>1
    <3> QED BY <3>1, <3>2
  <2> HIDE DEF list
  <2>3. /\ ListFits(objFree') /\ Last(list) \in Members(list)
        /\ Members(objFree') = Members(list) \ {Last(list)}
    BY <2>1, <2>2, LastMembers
  <2> QED BY <2>1, <2>2, <2>3 DEF ObjectIInv
<1>4. ASSUME NEW s \in objInUse, Release(s) PROVE ObjectIInv'
  <2>1. objInUse' = objInUse \ {s} /\ objFree' = Append(objFree, s) /\ objChunks' = objChunks
    BY <1>4 DEF Release
  <2>2. s \in BlockNumbers /\ s \notin Members(objFree) /\ ObjectSlots' = ObjectSlots
    BY <2>1, <1>1 DEF ObjectSlots, BlockNumbers
  <2> QED BY <1>1, <2>1, <2>2, PutBehind DEF ObjectIInv
<1> QED BY <1>2, <1>3, <1>4 DEF ObjectNext

LEMMA MemoryStarts == ASSUME MemoryInit PROVE PoolIInv /\ ObjectIInv
<1>1. ListFits(<<>>) /\ Members(<<>>) = {}
  BY EmptySeq, LenProperties DEF ListFits, NoRepeat, Members
<1>2. /\ memFree = <<>> /\ memChunks = 0 /\ memMagic = {} /\ memHeld = {}
      /\ memRemote = <<>> /\ memOverflow = <<>> /\ memHand = [t \in Foreign |-> 0]
      /\ objFree = <<>> /\ objChunks = 0 /\ objInUse = {}
  BY DEF MemoryInit
<1>3. Blocks = {} /\ ObjectSlots = {} BY <1>2, MemoryAssumption DEF Blocks, ObjectSlots
<1>4. PoolIInv
  <2>1. Dealt({}, {}, {}, {}, {}, {}) BY DEF Dealt
  <2> QED BY <1>1, <1>2, <1>3, <2>1 DEF PoolIInv, HandFits, InHands
<1> QED BY <1>1, <1>2, <1>3, <1>4 DEF ObjectIInv

LEMMA MemorySafe == ASSUME PoolIInv, ObjectIInv PROVE BlocksPartitioned
<1> DEFINE places == <<ToSet(memFree), ToSet(memRemote), ToSet(memOverflow), memHeld, InHands(memHand)>>
<1>1. /\ ListFits(memFree) /\ ListFits(memRemote) /\ ListFits(memOverflow)
      /\ HandFits(memHand) /\ memMagic = memHeld
      /\ Dealt(Members(memFree), Members(memRemote), Members(memOverflow), memHeld, InHands(memHand), Blocks)
      /\ ListFits(objFree)
      /\ Members(objFree) \cap objInUse = {} /\ Members(objFree) \cup objInUse = ObjectSlots
  BY DEF PoolIInv, ObjectIInv
<1>2. \A s : ToSet(s) = Members(s) BY DEF ToSet, Members
<1>3. ASSUME NEW s, ListFits(s) PROVE IsInjective(s) BY <1>3 DEF ListFits, NoRepeat, IsInjective
<1>4. Apart(places) /\ UNION ToSet(places) = Blocks
  <2> DEFINE a == Members(memFree)
             b == Members(memRemote)
             c == Members(memOverflow)
             d == memHeld
             e == InHands(memHand)
  <2>1. places = <<a, b, c, d, e>> BY <1>2
  <2>2. Dealt(a, b, c, d, e, Blocks) BY <1>1
  <2> HIDE DEF a, b, c, d, e, places
  <2>3. /\ DOMAIN places = 1 .. 5 /\ places[1] = a /\ places[2] = b /\ places[3] = c /\ places[4] = d
        /\ places[5] = e
    BY <2>1
  <2>4. Apart(places)
    <3> SUFFICES ASSUME NEW i \in 1 .. 5, NEW j \in 1 .. 5, i # j PROVE places[i] \cap places[j] = {}
      BY <2>3 DEF Apart
    <3>1. /\ a \cap b = {} /\ a \cap c = {} /\ a \cap d = {} /\ a \cap e = {} /\ b \cap c = {}
          /\ b \cap d = {} /\ b \cap e = {} /\ c \cap d = {} /\ c \cap e = {} /\ d \cap e = {}
          /\ b \cap a = {} /\ c \cap a = {} /\ d \cap a = {} /\ e \cap a = {} /\ c \cap b = {}
          /\ d \cap b = {} /\ e \cap b = {} /\ d \cap c = {} /\ e \cap c = {} /\ e \cap d = {}
      BY <2>2 DEF Dealt
    <3> QED BY <2>3, <3>1
  <2>5. UNION {a, b, c, d, e} = Blocks BY <2>2 DEF Dealt
  <2> QED BY <2>3, <2>4, <2>5 DEF ToSet
<1> HIDE DEF places
<1>5. \A t, u \in Foreign : memHand[t] = memHand[u] /\ memHand[t] # 0 => t = u
  BY <1>1 DEF HandFits
<1>6. ToSet(objFree) \cap objInUse = {} /\ ToSet(objFree) \cup objInUse = ObjectSlots
  BY <1>1, <1>2
<1> QED BY <1>1, <1>3, <1>4, <1>5, <1>6 DEF BlocksPartitioned, places

(* The pool, the objects and the arena share nothing.                       *)
LEMMA AllocatorsApart ==
  /\ PoolNext => UNCHANGED <<objVars, arenaVars>>
  /\ ObjectNext => UNCHANGED <<poolVars, arenaVars>>
  /\ ArenaNext => UNCHANGED <<poolVars, objVars>>
<1>1. ObjectNext => UNCHANGED <<poolVars, arenaVars>> BY DEF ObjectNext, Acquire, Release
<1>2. ArenaNext => UNCHANGED <<poolVars, objVars>> BY DEF ArenaNext, ArenaReset, Push
<1> QED BY <1>1, <1>2 DEF PoolNext, Allocate, PoolTake, FreeLocal, FreeAgain, FreeRemote, GoHome

(* A block is in one place only, and so is a slot of the object pool: for   *)
(* any threads, chunks and frees.                                           *)
THEOREM MemoryCorrect == MemorySpec => []BlocksPartitioned
<1>1. ASSUME PoolIInv /\ ObjectIInv, [MemoryNext]_memoryVars PROVE (PoolIInv /\ ObjectIInv)'
  <2>1. [PoolNext]_poolVars /\ [ObjectNext]_objVars
    BY <1>1, AllocatorsApart DEF MemoryNext, memoryVars
  <2> QED BY <1>1, <2>1, PoolSteps, ObjectSteps
<1> QED BY <1>1, MemoryStarts, MemorySafe, PTL DEF MemorySpec

------------------------------------------------------------------------------
(* The configuration.                                                       *)

(* The snapshot is one version ahead while a writer is inside; no reader    *)
(* knows of a version to come, and one version is one snapshot.             *)
ConfigIInv ==
    /\ cfgVersion \in 0 .. MaxVersion
    /\ cfgCurrent.version = IF cfgLock = Nobody THEN cfgVersion ELSE cfgVersion + 1
    /\ cfgCurrent.version <= MaxVersion
    /\ cfgSeen \in [CfgReaders -> 0 .. MaxVersion + 1]
    /\ cfgCache = [r \in CfgReaders |-> cfgCache[r]]
    /\ \A r \in CfgReaders :
          /\ cfgSeen[r] # NotRead => cfgSeen[r] <= cfgVersion
          /\ \/ cfgCache[r].version = NotRead
             \/ /\ cfgCache[r].version \in 0 .. cfgCurrent.version
                /\ cfgCache[r].version = cfgCurrent.version => cfgCache[r] = cfgCurrent

LEMMA ConfigStarts == ConfigInit => ConfigIInv
BY ConfigAssumption DEF ConfigInit, ConfigIInv, NotRead, Nobody

(* A writer that has the mutex stores a version nobody has read.            *)
LEMMA ConfigStored ==
  ASSUME ConfigIInv, NEW w \in CfgWriters, NEW values,
         cfgLock = Nobody, cfgVersion < MaxVersion, cfgLock' = w, Stored(values),
         UNCHANGED <<cfgVersion, cfgCache, cfgSeen>>
  PROVE  ConfigIInv'
<1>1. cfgCurrent' = [version |-> cfgVersion + 1, values |-> values] BY DEF Stored
<1>2. w # Nobody /\ MaxVersion \in Nat BY ConfigAssumption
<1>3. ASSUME NEW r \in CfgReaders
      PROVE  \/ cfgCache'[r].version = NotRead
             \/ /\ cfgCache'[r].version \in 0 .. cfgCurrent'.version
                /\ cfgCache'[r].version = cfgCurrent'.version => cfgCache'[r] = cfgCurrent'
  BY <1>1, <1>2 DEF ConfigIInv
<1> QED BY <1>1, <1>2, <1>3 DEF ConfigIInv

LEMMA ConfigSteps ==
  ConfigIInv /\ [ConfigNext]_configVars
      => /\ ConfigIInv'
         /\ \A r \in CfgReaders : AcquireSnapshot(r) =>
               /\ cfgCache'[r].version >= cfgSeen[r]
               /\ cfgCache[r].version # NotRead => cfgCache'[r].version >= cfgCache[r].version
               /\ cfgCache'[r].version = cfgCurrent.version => cfgCache'[r] = cfgCurrent
<1> SUFFICES ASSUME ConfigIInv, [ConfigNext]_configVars
             PROVE  /\ ConfigIInv'
                    /\ \A r \in CfgReaders : AcquireSnapshot(r) =>
                          /\ cfgCache'[r].version >= cfgSeen[r]
                          /\ cfgCache[r].version # NotRead
                                => cfgCache'[r].version >= cfgCache[r].version
                          /\ cfgCache'[r].version = cfgCurrent.version => cfgCache'[r] = cfgCurrent
  OBVIOUS
<1>0. MaxVersion \in Nat BY ConfigAssumption
<1>a. ASSUME NEW r \in CfgReaders, AcquireSnapshot(r)
      PROVE  /\ cfgCache'[r] = IF cfgCache[r].version # cfgSeen[r] THEN cfgCurrent ELSE cfgCache[r]
             /\ cfgSeen[r] # NotRead
  BY <1>a DEF AcquireSnapshot, ConfigIInv
<1>b. ASSUME NEW r \in CfgReaders, AcquireSnapshot(r)
      PROVE  /\ cfgCache'[r].version >= cfgSeen[r]
             /\ cfgCache[r].version # NotRead => cfgCache'[r].version >= cfgCache[r].version
             /\ cfgCache'[r].version = cfgCurrent.version => cfgCache'[r] = cfgCurrent
  BY <1>0, <1>a, <1>b DEF ConfigIInv, NotRead
<1>1. ASSUME NEW f \in CfgFiles, EditFile(f) PROVE ConfigIInv' BY <1>1 DEF EditFile, ConfigIInv
<1>2. ASSUME PublishVersion PROVE ConfigIInv'
  BY <1>0, <1>2 DEF PublishVersion, ConfigIInv, NotRead
<1>3. ASSUME NEW w \in CfgWriters, NEW kind, NEW files, LoadParse(w, kind, files) PROVE ConfigIInv'
  BY <1>3 DEF LoadParse, ConfigIInv
<1>4. ASSUME NEW w \in CfgWriters, LoadMerge(w) PROVE ConfigIInv'
  BY <1>4, ConfigStored DEF LoadMerge
<1>5. ASSUME NEW w \in CfgWriters, Reload(w) PROVE ConfigIInv' BY <1>5, ConfigStored DEF Reload
<1>6. ASSUME NEW w \in CfgWriters, ResetConfig(w) PROVE ConfigIInv'
  BY <1>6, ConfigStored DEF ResetConfig
<1>7. ASSUME NEW w \in CfgWriters, NEW k \in CfgKeys, SetKey(w, k) PROVE ConfigIInv'
  BY <1>7, ConfigStored DEF SetKey
<1>8. ASSUME NEW r \in CfgReaders, ReadVersion(r) PROVE ConfigIInv'
  BY <1>0, <1>8 DEF ReadVersion, ConfigIInv, NotRead
<1>9. ASSUME NEW r \in CfgReaders, AcquireSnapshot(r) PROVE ConfigIInv'
  <2>1. /\ cfgCache' = [cfgCache EXCEPT ![r] = IF @.version # cfgSeen[r] THEN cfgCurrent ELSE @]
        /\ cfgSeen' = [cfgSeen EXCEPT ![r] = NotRead]
        /\ UNCHANGED <<cfgVersion, cfgCurrent, cfgLock>>
    BY <1>9 DEF AcquireSnapshot
  <2>2. cfgCache = [q \in CfgReaders |-> cfgCache[q]] BY DEF ConfigIInv
  <2>3. ASSUME NEW q \in CfgReaders
        PROVE  /\ cfgSeen'[q] # NotRead => cfgSeen'[q] <= cfgVersion'
               /\ \/ cfgCache'[q].version = NotRead
                  \/ /\ cfgCache'[q].version \in 0 .. cfgCurrent'.version
                     /\ cfgCache'[q].version = cfgCurrent'.version => cfgCache'[q] = cfgCurrent'
    <3>1. CASE q = r BY <1>0, <1>9, <1>a, <2>1, <3>1 DEF ConfigIInv, NotRead
    <3>2. CASE q # r BY <2>1, <2>2, <3>2 DEF ConfigIInv
    <3> QED BY <3>1, <3>2
  <2> QED BY <1>0, <2>1, <2>2, <2>3 DEF ConfigIInv, NotRead
<1>10. ASSUME UNCHANGED configVars PROVE ConfigIInv' BY <1>10 DEF configVars, ConfigIInv
<1> QED BY <1>1, <1>2, <1>3, <1>4, <1>5, <1>6, <1>7, <1>8, <1>9, <1>10, <1>b DEF ConfigNext

(* A read returns a whole snapshot no older than any version the reader     *)
(* could know of when it began: for any writers, readers and sources.       *)
THEOREM ConfigCorrect == ConfigSpec => ReadersNeverGoBack
BY ConfigStarts, ConfigSteps, PTL DEF ConfigSpec, ReadersNeverGoBack

------------------------------------------------------------------------------
(* The components side by side.  A step of the composition is a step of one *)
(* of them and leaves the variables of the others alone.                    *)

EngineIInv ==
  /\ ThreadIInv /\ TimerIInv /\ LogIInv /\ EventsIInv /\ CallsIInv
  /\ PoolIInv /\ ObjectIInv /\ ConfigIInv
  /\ NetIInv /\ RpcIInv /\ ClientIInv /\ CacheIInv /\ StreamerIInv

LEMMA EngineStarts == EngineInit => EngineIInv
<1> SUFFICES ASSUME EngineInit PROVE EngineIInv OBVIOUS
<1>1. /\ ThreadInit /\ TimersInit /\ LogInit /\ BusesInit /\ MemoryInit
      /\ ConfigInit /\ TransportInit /\ RpcInit /\ ClientInit /\ ResourcesInit
  BY DEF EngineInit
<1> QED BY <1>1, ThreadStarts, TimerStarts, LogStarts, EventsStart, CallsStart, MemoryStarts,
           ConfigStarts, NetStarts, RpcStarts, ClientStarts, CacheStarts, StreamerStarts
        DEF EngineIInv

LEMMA StreamerApart ==
  /\ ResourcesNext => UNCHANGED stVars
  /\ StreamerNext => UNCHANGED rsVars
BY DEF ResourcesNext, StreamerNext

CoreStep ==
  /\ [ThreadNext]_threadVars /\ [TimersNext]_timerVars /\ [LogNext]_logVars
  /\ [EventsNext]_eventVars /\ [CallsNext]_callVars
  /\ [PoolNext]_poolVars /\ [ObjectNext]_objVars /\ [ConfigNext]_configVars
FarStep ==
  /\ [TransportNext]_netVars /\ [RpcNext]_rpcVars /\ [ClientNext]_clVars
  /\ [ResourcesNext]_rsVars /\ [StreamerNext]_stVars

LEMMA OneMoves == [EngineNext]_engineVars => CoreStep /\ FarStep
<1> SUFFICES ASSUME [EngineNext]_engineVars PROVE CoreStep /\ FarStep OBVIOUS
<1>0. /\ UNCHANGED coreVars => UNCHANGED <<threadVars, timerVars, logVars, busVars, memoryVars, configVars>>
      /\ UNCHANGED farVars => UNCHANGED <<netVars, rpcVars, clVars, resourceVars>>
      /\ UNCHANGED busVars => UNCHANGED <<eventVars, callVars>>
      /\ UNCHANGED memoryVars => UNCHANGED <<poolVars, objVars>>
      /\ UNCHANGED resourceVars => UNCHANGED <<rsVars, stVars>>
  BY DEF coreVars, farVars, busVars, memoryVars, resourceVars
<1>1. CASE OnThread(ThreadNext) BY <1>0, <1>1 DEF OnThread, CoreStep, FarStep
<1>2. CASE OnTimers BY <1>0, <1>2 DEF OnTimers, CoreStep, FarStep
<1>3. CASE OnLog(LogNext) BY <1>0, <1>3 DEF OnLog, CoreStep, FarStep
<1>4. CASE OnBuses BY <1>0, <1>4, BusesApart DEF OnBuses, CoreStep, FarStep
<1>5. CASE OnMemory BY <1>0, <1>5, AllocatorsApart DEF OnMemory, CoreStep, FarStep
<1>6. CASE OnConfig BY <1>0, <1>6 DEF OnConfig, CoreStep, FarStep
<1>7. CASE OnNet BY <1>0, <1>7 DEF OnNet, CoreStep, FarStep
<1>8. CASE OnRpc(RpcNext) BY <1>0, <1>8 DEF OnRpc, CoreStep, FarStep
<1>9. CASE OnClient BY <1>0, <1>9 DEF OnClient, CoreStep, FarStep
<1>10. CASE OnResources(focus = "resources" /\ ResourcesNext) \/ OnResources(focus = "streamer" /\ StreamerNext)
  BY <1>0, <1>10, StreamerApart DEF OnResources, CoreStep, FarStep
<1>11. CASE UNCHANGED engineVars BY <1>0, <1>11 DEF engineVars, CoreStep, FarStep
<1> QED BY <1>1, <1>2, <1>3, <1>4, <1>5, <1>6, <1>7, <1>8, <1>9, <1>10, <1>11 DEF EngineNext

LEMMA EngineSteps == EngineIInv /\ [EngineNext]_engineVars => EngineIInv'
<1> SUFFICES ASSUME EngineIInv, [EngineNext]_engineVars PROVE EngineIInv' OBVIOUS
<1>1. CoreStep /\ FarStep BY OneMoves
<1>2. ThreadIInv' /\ TimerIInv' /\ LogIInv' /\ EventsIInv' /\ CallsIInv'
  BY <1>1, ThreadSteps, TimerSteps, LogSteps, EventsSteps, CallsSteps DEF EngineIInv, CoreStep
<1>3. NetIInv' /\ RpcIInv' /\ ClientIInv' /\ CacheIInv' /\ StreamerIInv'
  BY <1>1, NetSteps, RpcSteps, ClientSteps, CacheSteps, StreamerSteps DEF EngineIInv, FarStep
<1> QED BY <1>1, <1>2, <1>3, PoolSteps, ObjectSteps, ConfigSteps DEF EngineIInv, CoreStep

LEMMA EngineSafe == EngineIInv => NothingIsLost /\ OrderIsKept
<1> SUFFICES ASSUME EngineIInv PROVE NothingIsLost /\ OrderIsKept OBVIOUS
<1>1. /\ TasksAccountedFor /\ PostOrderKept /\ OwesOnlyBehindUnpublished
      /\ SlotsPartitioned /\ CatchUpBounded /\ NoRecordLost /\ LossIsReported
      /\ EventsAccountedFor /\ SubscribersHearInOrder /\ CallsAreCounted /\ BlocksPartitioned
  BY ThreadSafe, TimerSafe, LogSafe, EventsSafe, CallsSafe, MemorySafe DEF EngineIInv
<1> QED
  BY <1>1, NetSafe, RpcSafe, ClientSafe, CacheSafe, StreamerSafe DEF NothingIsLost, OrderIsKept,
     EngineIInv

(* Nothing that is given to a component is lost or given out twice: a       *)
(* posted task, a log record, an event, a timer's slot, a block of memory, a*)
(* call, a connection's slot, a load and its bytes, for any number of       *)
(* threads, slots, workers and messages.                                    *)
THEOREM EngineLosesNothing == EngineSpec => []NothingIsLost
BY EngineStarts, EngineSteps, EngineSafe, PTL DEF EngineSpec

(* Tasks, events, frames, retries and answers come in the order and as      *)
(* often as the components promise, whatever their threads interleave.      *)
THEOREM EngineKeepsOrder == EngineSpec => []OrderIsKept
BY EngineStarts, EngineSteps, EngineSafe, PTL DEF EngineSpec

(* No reader goes back to an older configuration, no cancelled timer fires  *)
(* again and no chunk is taken away before its delay.                       *)
THEOREM EngineNeverGoesBack == EngineSpec => NothingComesBack
<1>1. EngineIInv /\ [EngineNext]_engineVars
        => /\ [\A r \in CfgReaders : AcquireSnapshot(r) =>
                 /\ cfgCache'[r].version >= cfgSeen[r]
                 /\ cfgCache[r].version # NotRead => cfgCache'[r].version >= cfgCache[r].version
                 /\ cfgCache'[r].version = cfgCurrent.version => cfgCache'[r] = cfgCurrent]_configVars
           /\ [\A i \in Ids : i < nextId /\ i \notin index => fired'[i] = fired[i]]_timerVars
           /\ [\A c \in DOMAIN stChunks :
                 stChunks[c].state = "Unloading" /\ stChunks'[c].state = "Unloaded" /\ stUpdates' # stUpdates
                   => stAway[c] >= UnloadDelay]_stVars
  BY OneMoves, ConfigSteps, TimerSteps, StreamerSteps DEF EngineIInv, CoreStep, FarStep
<1> QED BY <1>1, EngineStarts, EngineSteps, PTL
        DEF EngineSpec, NothingComesBack, ReadersNeverGoBack, CancelledStaysSilent, ChunksLinger
=============================================================================
