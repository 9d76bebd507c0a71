----------------------------- MODULE DataLemmas -----------------------------
(* Facts about numbers, sequences and sums that the proofs share, and that  *)
(* say nothing of the system.                                               *)
EXTENDS Integers, Sequences, FiniteSets, Functions, SequencesExt, FiniteSetTheorems, SequenceTheorems, TLAPS

(* A set of natural numbers has a least element.                            *)
LEMMA LeastOf ==
  ASSUME NEW S \in SUBSET Nat, S # {}
  PROVE  \E m \in S : \A n \in S : m <= n
<1> DEFINE R == OpToRel(<, Nat)
<1>1. PICK m \in S : \A n \in S : ~(<<n, m>> \in R)
  <2>1. IsWellFoundedOn(R, Nat) BY NatLessThanWellFounded
  <2> HIDE DEF R
  <2> QED BY <2>1, WFMin
<1>2. \A n \in S : n < m => <<n, m>> \in R BY Zenon DEF OpToRel
<1> HIDE DEF R
<1>3. m \in Nat /\ \A n \in S : n \in Nat /\ ~(n < m) BY <1>1, <1>2
<1> QED BY <1>3

(* The head and the tail of a sequence.                                     *)
LEMMA TailOf ==
  ASSUME NEW S, NEW s \in Seq(S), s # <<>>
  PROVE  /\ Head(s) \in S /\ Head(s) = s[1] /\ Tail(s) \in Seq(S)
         /\ Len(s) \in Nat \ {0} /\ Len(Tail(s)) = Len(s) - 1
         /\ \A i \in 1 .. Len(Tail(s)) : Tail(s)[i] = s[i + 1] /\ i + 1 \in 1 .. Len(s)
<1>1. /\ Head(s) \in S /\ Tail(s) \in Seq(S) /\ Len(Tail(s)) = Len(s) - 1
      /\ \A i \in 1 .. Len(Tail(s)) : Tail(s)[i] = s[i+1]
  BY HeadTailProperties
<1>2. Head(s) = s[1] OBVIOUS
<1> QED BY <1>1, <1>2, EmptySeq

(* The elements of a sequence with one more.                                *)
LEMMA AppendOf ==
  ASSUME NEW S, NEW s \in Seq(S), NEW e \in S
  PROVE  /\ Append(s, e) \in Seq(S) /\ Len(s) \in Nat /\ Len(Append(s, e)) = Len(s) + 1
         /\ \A i \in 1 .. Len(s) + 1 :
               Append(s, e)[i] = IF i = Len(s) + 1 THEN e ELSE s[i]
<1>1. /\ Append(s, e) \in Seq(S) /\ Len(Append(s, e)) = Len(s) + 1
      /\ \A i \in 1 .. Len(s) : Append(s, e)[i] = s[i]
      /\ Append(s, e)[Len(s) + 1] = e
  BY AppendProperties
<1> QED BY <1>1, LenProperties

(* Sequences that name everything once.                                     *)
Members(s) == {s[i] : i \in DOMAIN s}
NoRepeat(s) == \A i, j \in DOMAIN s : s[i] = s[j] => i = j

(* A stretch of a sequence.                                                 *)
LEMMA StretchOf ==
  ASSUME NEW S, NEW s \in Seq(S), NEW a \in Int, NEW b \in Int, 1 <= a, a <= b + 1, b <= Len(s)
  PROVE  /\ SubSeq(s, a, b) \in Seq(S) /\ Len(SubSeq(s, a, b)) = b - a + 1
         /\ \A i \in 1 .. b - a + 1 : SubSeq(s, a, b)[i] = s[a + i - 1]
<1>1. /\ SubSeq(s, a, b) \in Seq(S) /\ Len(SubSeq(s, a, b)) = (IF a <= b THEN b - a + 1 ELSE 0)
      /\ \A i \in 1 .. b - a + 1 : SubSeq(s, a, b)[i] = s[a + i - 1]
  BY LenProperties, ElementOfSeq, SubSeqProperties
<1> QED BY <1>1

LEMMA StretchMembers ==
  ASSUME NEW S, NEW s \in Seq(S), NEW a \in Int, NEW b \in Int, 1 <= a, a <= b + 1, b <= Len(s),
         NoRepeat(s)
  PROVE  /\ NoRepeat(SubSeq(s, a, b)) /\ Members(SubSeq(s, a, b)) = {s[i] : i \in a .. b}
         /\ SubSeq(s, a, b) \in Seq(S)
<1> DEFINE t == SubSeq(s, a, b)
           n == b - a + 1
<1>1. t \in Seq(S) /\ Len(t) = n /\ n \in Nat /\ \A i \in 1 .. n : t[i] = s[a + i - 1]
  BY StretchOf
<1>2. DOMAIN t = 1 .. n /\ DOMAIN s = 1 .. Len(s) /\ Len(s) \in Nat BY <1>1, LenProperties
<1> HIDE DEF t
<1>3. \A i \in DOMAIN t : a + i - 1 \in DOMAIN s /\ a + i - 1 \in a .. b /\ t[i] = s[a + i - 1] /\ i \in Int
  BY <1>1, <1>2
<1>4. \A i \in a .. b : i - a + 1 \in DOMAIN t /\ t[i - a + 1] = s[i] BY <1>1, <1>2
<1>5. NoRepeat(t)
  <2> SUFFICES ASSUME NEW i \in DOMAIN t, NEW j \in DOMAIN t, t[i] = t[j] PROVE i = j
    BY DEF NoRepeat
  <2> QED BY <1>3 DEF NoRepeat
<1>6. Members(t) = {s[i] : i \in a .. b}
  <2>1. Members(t) \subseteq {s[i] : i \in a .. b} BY <1>3 DEF Members
  <2>2. {s[i] : i \in a .. b} \subseteq Members(t) BY <1>4 DEF Members
  <2> QED BY <2>1, <2>2
<1> QED BY <1>1, <1>5, <1>6 DEF t

(* One more member.                                                         *)
LEMMA MembersIn ==
  ASSUME NEW S, NEW s \in Seq(S)
  PROVE  Members(s) \in SUBSET S
BY ElementOfSeq, LenProperties DEF Members

LEMMA AppendMembers ==
  ASSUME NEW S, NEW s \in Seq(S), NEW e \in S
  PROVE  /\ Append(s, e) \in Seq(S) /\ Members(Append(s, e)) = Members(s) \cup {e}
         /\ NoRepeat(s) /\ e \notin Members(s) => NoRepeat(Append(s, e))
<1> DEFINE t == Append(s, e)
           n == Len(s)
<1>a. /\ t \in Seq(S) /\ n \in Nat /\ DOMAIN s = 1 .. n /\ DOMAIN t = 1 .. n + 1
      /\ \A i \in 1 .. n : t[i] = s[i]
      /\ t[n + 1] = e
  BY AppendProperties, LenProperties
<1> HIDE DEF t, n
<1>1. \A i \in DOMAIN t : (i \in DOMAIN s /\ t[i] = s[i]) \/ (i = n + 1 /\ t[i] = e) BY <1>a
<1>2. Members(t) = Members(s) \cup {e} BY <1>a, <1>1 DEF Members
<1> QED BY <1>a, <1>1, <1>2 DEF t, Members, NoRepeat

(* The head leaves.                                                         *)
LEMMA TailMembers ==
  ASSUME NEW S, NEW s \in Seq(S), NoRepeat(s), s # <<>>
  PROVE  /\ Tail(s) \in Seq(S) /\ NoRepeat(Tail(s)) /\ Head(s) \in Members(s)
         /\ Members(Tail(s)) = Members(s) \ {Head(s)}
<1>1. /\ s \in Seq(S) /\ NoRepeat(s) /\ Len(s) \in Nat \ {0} /\ DOMAIN s = 1 .. Len(s)
      /\ Head(s) = s[1] /\ Tail(s) \in Seq(S) /\ Len(Tail(s)) = Len(s) - 1
      /\ DOMAIN Tail(s) = 1 .. Len(s) - 1
      /\ \A i \in 1 .. Len(s) - 1 : Tail(s)[i] = s[i + 1] /\ i + 1 \in 1 .. Len(s)
  BY TailOf, LenProperties
<1> DEFINE t == Tail(s)
           n == Len(s)
<1>2. /\ n \in Nat \ {0} /\ DOMAIN s = 1 .. n /\ DOMAIN t = 1 .. n - 1
      /\ \A i \in 1 .. n - 1 : t[i] = s[i + 1]
  BY <1>1
<1> HIDE DEF t, n
<1>3. NoRepeat(t)
  <2> SUFFICES ASSUME NEW i \in DOMAIN t, NEW j \in DOMAIN t, t[i] = t[j] PROVE i = j
    BY DEF NoRepeat
  <2>1. i + 1 = j + 1 BY <1>1, <1>2 DEF NoRepeat
  <2> QED BY <2>1, <1>2
<1>4. 1 \in DOMAIN s BY <1>2
<1>5. ASSUME NEW x \in Members(t) PROVE x \in Members(s) /\ x # s[1]
  <2>1. PICK i \in DOMAIN t : x = t[i] BY <1>5 DEF Members
  <2>2. i + 1 \in DOMAIN s /\ x = s[i + 1] /\ i + 1 # 1 BY <2>1, <1>2
  <2> QED BY <2>2, <1>1, <1>4 DEF Members, NoRepeat
<1>6. ASSUME NEW x \in Members(s), x # s[1] PROVE x \in Members(t)
  <2>1. PICK i \in DOMAIN s : x = s[i] BY <1>6 DEF Members
  <2>2. i - 1 \in DOMAIN t /\ t[i - 1] = x BY <1>2, <1>6, <2>1
  <2> QED BY <2>2 DEF Members
<1> QED BY <1>1, <1>3, <1>4, <1>5, <1>6 DEF t, Members

(* Two sequences in one.                                                    *)
LEMMA ConcatMembers ==
  ASSUME NEW S, NEW s \in Seq(S), NEW o \in Seq(S)
  PROVE  /\ s \o o \in Seq(S) /\ Members(s \o o) = Members(s) \cup Members(o)
         /\ NoRepeat(s) /\ NoRepeat(o) /\ Members(s) \cap Members(o) = {} => NoRepeat(s \o o)
<1> DEFINE t == s \o o
           n == Len(s)
<1>1. /\ t \in Seq(S) /\ n \in Nat /\ Len(o) \in Nat
      /\ DOMAIN s = 1 .. n /\ DOMAIN o = 1 .. Len(o) /\ DOMAIN t = 1 .. n + Len(o)
      /\ \A i \in 1 .. n + Len(o) : t[i] = IF i <= n THEN s[i] ELSE o[i - n]
  BY ConcatProperties, LenProperties
<1> HIDE DEF t, n
<1>2. ASSUME NEW i \in DOMAIN t
      PROVE  \/ i \in DOMAIN s /\ t[i] = s[i]
             \/ i - n \in DOMAIN o /\ t[i] = o[i - n]
  <2>1. i \in 1 .. n + Len(o) BY <1>1
  <2>2. CASE i <= n BY <1>1, <2>1, <2>2
  <2>3. CASE ~(i <= n) BY <1>1, <2>1, <2>3
  <2> QED BY <2>2, <2>3
<1>3. /\ \A i \in DOMAIN s : i \in DOMAIN t /\ t[i] = s[i]
      /\ \A i \in DOMAIN o : n + i \in DOMAIN t /\ t[n + i] = o[i]
  BY <1>1
<1>4. Members(t) = Members(s) \cup Members(o) BY <1>2, <1>3 DEF Members
<1>5. ASSUME NoRepeat(s), NoRepeat(o), Members(s) \cap Members(o) = {}, NEW i \in DOMAIN t, NEW j \in DOMAIN t, t[i] = t[j]
      PROVE  i = j
  <2>1. (i \in DOMAIN s <=> ~(i - n \in DOMAIN o)) /\ (j \in DOMAIN s <=> ~(j - n \in DOMAIN o))
        /\ i \in Int /\ j \in Int
    BY <1>1
  <2>2. CASE i \in DOMAIN s /\ j \in DOMAIN s BY <1>2, <1>5, <2>1, <2>2 DEF NoRepeat
  <2>3. CASE i - n \in DOMAIN o /\ j - n \in DOMAIN o
    BY <1>1, <1>2, <1>5, <2>1, <2>3 DEF NoRepeat
  <2>4. ASSUME NEW k \in DOMAIN s, NEW l \in DOMAIN o PROVE s[k] # o[l] BY <1>5 DEF Members
  <2> QED BY <1>2, <1>5, <2>1, <2>2, <2>3, <2>4
<1> QED BY <1>1, <1>4, <1>5 DEF t, NoRepeat

(* Popping the last element.                                                *)
LEMMA FrontMembers ==
  ASSUME NEW S, NEW s \in Seq(S), s # <<>>, NoRepeat(s)
  PROVE  LET f == SubSeq(s, 1, Len(s) - 1) IN
         /\ f \in Seq(S) /\ NoRepeat(f) /\ s[Len(s)] \in Members(s)
         /\ Members(f) = Members(s) \ {s[Len(s)]}
<1> DEFINE f == SubSeq(s, 1, Len(s) - 1)
           n == Len(s)
<1>1. n \in Nat \ {0} /\ DOMAIN s = 1 .. n BY EmptySeq, LenProperties
<1>2. /\ f \in Seq(S) /\ Len(f) = n - 1
      /\ \A i \in 1 .. n - 1 : f[i] = s[i]
  <2>1. /\ f \in Seq(S) /\ Len(f) = (IF 1 <= n - 1 THEN n - 1 - 1 + 1 ELSE 0)
        /\ \A i \in 1 .. (n - 1) - 1 + 1 : f[i] = s[1 + i - 1]
    BY <1>1, ElementOfSeq, SubSeqProperties
  <2> HIDE DEF f, n
  <2>2. n - 1 = 0 \/ n - 1 >= 1 BY <1>1
  <2>3. \A i \in 1 .. n - 1 : f[i] = s[i] BY <1>1, <2>1
  <2> QED BY <1>1, <2>1, <2>3
<1>3. DOMAIN f = 1 .. n - 1 BY <1>2, LenProperties
<1> HIDE DEF f, n
<1>4. n \in DOMAIN s /\ \A i \in DOMAIN f : i \in DOMAIN s /\ i # n /\ f[i] = s[i]
  BY <1>1, <1>2, <1>3
<1>5. Members(f) = Members(s) \ {s[n]} /\ s[n] \in Members(s)
  BY <1>1, <1>2, <1>3, <1>4 DEF Members, NoRepeat
<1> QED BY <1>1, <1>2, <1>3, <1>5 DEF f, n, NoRepeat

(* A sequence without repetition is as long as it has members.              *)
LEMMA CountMembers ==
  ASSUME NEW S, NEW s \in Seq(S), NoRepeat(s)
  PROVE  /\ IsFiniteSet(Members(s)) /\ Cardinality(Members(s)) = Len(s)
<1>1. Len(s) \in Nat /\ DOMAIN s = 1 .. Len(s) /\ s = [i \in 1 .. Len(s) |-> s[i]]
  BY LenProperties
<1>2. s \in Bijection(1 .. Len(s), Members(s))
  <2>1. s \in [1 .. Len(s) -> Members(s)] BY <1>1 DEF Members
  <2>2. s \in Surjection(1 .. Len(s), Members(s)) BY <1>1, <2>1 DEF Surjection, Members
  <2>3. s \in Injection(1 .. Len(s), Members(s))
    BY <1>1, <2>1 DEF Injection, NoRepeat, IsInjective
  <2> QED BY <2>2, <2>3 DEF Bijection
<1>3. IsFiniteSet(1 .. Len(s)) /\ Cardinality(1 .. Len(s)) = Len(s)
  <2> DEFINE n == Len(s)
  <2>1. n \in Nat BY <1>1
  <2> HIDE DEF n
  <2> QED BY <2>1, FS_Interval DEF n
<1> QED BY <1>2, <1>3, FS_Bijection DEF ExistsBijection

(* A sequence without repetition, as long as a finite set is large, names   *)
(* all of it.                                                               *)
LEMMA AllNamed ==
  ASSUME NEW S, IsFiniteSet(S), NEW s \in Seq(S), NoRepeat(s), Len(s) = Cardinality(S)
  PROVE  Members(s) = S
<1>1. Cardinality(Members(s)) = Cardinality(S) BY CountMembers
<1> QED BY <1>1, LenProperties, ElementOfSeq, FS_Subset DEF Members

------------------------------------------------------------------------------
(* Sums over finite sets.  SumFunctionOnSet chooses the order of its        *)
(* summands; these facts say that the order does not matter.                *)

Body(f, iter, s) == IF s = {} THEN 0
                    ELSE LET x == CHOOSE x \in s : TRUE IN f[x] + iter[s \ {x}]

Iter(f, S) == CHOOSE iter : iter = [s \in SUBSET S |-> Body(f, iter, s)]

IsIter(f, iter, S) == iter = [s \in SUBSET S |-> Body(f, iter, s)]

(* Some set of a family of subsets of a finite set has no smaller one in it.*)
LEMMA MinimalSet ==
  ASSUME NEW S, IsFiniteSet(S), NEW Bad, Bad \subseteq SUBSET S, Bad # {}
  PROVE  \E T \in Bad : \A U \in Bad : U \subseteq T => U = T
<1>1. PICK T \in Bad : \A U \in Bad : <<U, T>> \notin StrictSubsetOrdering(S)
  BY FS_StrictSubsetOrderingWellFounded, FS_FiniteSubsetsOfFinite, WFMin
<1>2. QED BY <1>1 DEF StrictSubsetOrdering

(* The sum is the iteration that the library chooses.                       *)
LEMMA SumIsIter == \A f, S : SumFunctionOnSet(f, S) = Iter(f, S)[S]
BY DEF SumFunctionOnSet, FoldFunctionOnSet, MapThenFoldSet, Iter, Body

(* Iterations over a set and over a larger one agree on the set.            *)
LEMMA IterAgrees ==
  ASSUME NEW f, NEW S, NEW T, IsFiniteSet(S), S \subseteq T,
         NEW i, IsIter(f, i, S), NEW j, IsIter(f, j, T)
  PROVE  i[S] = j[S]
<1> DEFINE Bad == {s \in SUBSET S : i[s] # j[s]}
<1>1. SUFFICES ASSUME Bad # {} PROVE FALSE BY DEF Bad
<1>2. PICK s \in Bad : \A u \in Bad : u \subseteq s => u = s
  <2>1. Bad \subseteq SUBSET S OBVIOUS
  <2> HIDE DEF Bad
  <2>2. QED BY <1>1, <2>1, MinimalSet
<1>3. /\ s \in SUBSET S /\ s \in SUBSET T /\ i[s] = Body(f, i, s) /\ j[s] = Body(f, j, s)
  BY DEF IsIter
<1> DEFINE x == CHOOSE x \in s : TRUE
<1>4. x \in s BY <1>3 DEF Body
<1>5. QED BY <1>2, <1>3, <1>4 DEF Body

(* The chosen iteration is one: shown of a least set without it.            *)
LEMMA IterExists ==
  ASSUME NEW f, NEW S, IsFiniteSet(S)
  PROVE  IsIter(f, Iter(f, S), S)
<1> DEFINE Bad == {s \in SUBSET S : ~IsIter(f, Iter(f, s), s)}
<1>1. SUFFICES ASSUME Bad # {} PROVE FALSE OBVIOUS
<1>2. PICK T \in Bad : \A U \in Bad : U \subseteq T => U = T
  <2>1. Bad \subseteq SUBSET S OBVIOUS
  <2> HIDE DEF Bad
  <2>2. QED BY <1>1, <2>1, MinimalSet
<1>3. \A s \in SUBSET T : s # T => IsIter(f, Iter(f, s), s) /\ IsFiniteSet(s) BY <1>2, FS_Subset
<1> DEFINE c == CHOOSE x \in T : TRUE
           value(s) == Iter(f, s)[s]
           iter == [s \in SUBSET T |->
                      IF s = T THEN IF T = {} THEN 0 ELSE f[c] + value(T \ {c})
                               ELSE value(s)]
<1> HIDE DEF Bad
<1>4. IsIter(f, iter, T)
  <2>1. ASSUME NEW s \in SUBSET T PROVE iter[s] = Body(f, iter, s)
    <3>1. CASE s = {} /\ s = T BY <3>1 DEF Body
    <3>2. CASE s = {} /\ s # T
      <4>1. IsIter(f, Iter(f, s), s) BY <1>3, <3>2
      <4> HIDE DEF c
      <4>2. QED BY <3>2, <4>1 DEF Body, IsIter
    <3>3. CASE s # {} /\ s = T
      <4>1. iter[T \ {c}] = value(T \ {c}) BY <3>3
      <4>2. Body(f, iter, T) = f[c] + iter[T \ {c}] BY <3>3 DEF Body
      <4>3. QED BY <3>3, <4>1, <4>2
    <3>4. CASE s # {} /\ s # T
      <4> DEFINE x == CHOOSE x \in s : TRUE
      <4>1. x \in s /\ s \ {x} \in SUBSET T /\ s \ {x} # T /\ s \ {x} \subseteq s BY <3>4
      <4>2. /\ IsIter(f, Iter(f, s), s) /\ IsIter(f, Iter(f, s \ {x}), s \ {x})
            /\ IsFiniteSet(s \ {x})
        BY <1>3, <3>4, <4>1
      <4>3. Iter(f, s \ {x})[s \ {x}] = Iter(f, s)[s \ {x}]
        <5> HIDE DEF x
        <5>1. QED BY <4>1, <4>2, IterAgrees
      <4>4. value(s) = f[x] + value(s \ {x}) BY <3>4, <4>2, <4>3 DEF Body, IsIter
      <4>5. iter[s] = value(s) /\ iter[s \ {x}] = value(s \ {x}) BY <3>4, <4>1
      <4>6. Body(f, iter, s) = f[x] + iter[s \ {x}] BY <3>4 DEF Body
      <4> HIDE DEF iter, x, value
      <4>7. QED BY <4>4, <4>5, <4>6
    <3>5. QED BY <3>1, <3>2, <3>3, <3>4
  <2>2. iter = [s \in SUBSET T |-> iter[s]] OBVIOUS
  <2> HIDE DEF iter
  <2>3. QED BY <2>1, <2>2 DEF IsIter
<1>5. IsIter(f, Iter(f, T), T)
  <2> HIDE DEF iter
  <2>1. QED BY <1>4 DEF Iter, IsIter
<1>6. QED BY <1>2, <1>5 DEF Bad

Sum(f, S) == SumFunctionOnSet(f, S)

(* The sum takes one summand after the other.                               *)
LEMMA SumChoose ==
  ASSUME NEW f, NEW S, IsFiniteSet(S)
  PROVE  Sum(f, S) = IF S = {} THEN 0
                     ELSE LET x == CHOOSE x \in S : TRUE IN f[x] + Sum(f, S \ {x})
<1>1. IsIter(f, Iter(f, S), S) /\ Sum(f, S) = Iter(f, S)[S] BY IterExists, SumIsIter DEF Sum
<1>2. Sum(f, S) = Body(f, Iter(f, S), S)
  <2>1. S \in SUBSET S OBVIOUS
  <2> DEFINE it == Iter(f, S)
  <2>2. it = [s \in SUBSET S |-> Body(f, it, s)] /\ Sum(f, S) = it[S] BY <1>1 DEF IsIter
  <2> HIDE DEF it
  <2>3. QED BY <2>1, <2>2 DEF it
<1>3. CASE S = {} BY <1>2, <1>3 DEF Body
<1>4. CASE S # {}
  <2> DEFINE x == CHOOSE x \in S : TRUE
  <2>1. x \in S BY <1>4
  <2>2. Iter(f, S \ {x})[S \ {x}] = Iter(f, S)[S \ {x}]
    BY <1>1, FS_Subset, IterExists, IterAgrees
  <2>3. Sum(f, S \ {x}) = Iter(f, S \ {x})[S \ {x}] BY SumIsIter DEF Sum
  <2>4. QED BY <1>2, <1>4, <2>2, <2>3 DEF Body
<1>5. QED BY <1>3, <1>4

(* Integers sum up to an integer.                                           *)
LEMMA SumOfIntegers ==
  ASSUME NEW f, NEW S, IsFiniteSet(S), \A x \in S : f[x] \in Int
  PROVE  Sum(f, S) \in Int
<1> DEFINE Bad == {s \in SUBSET S : Sum(f, s) \notin Int}
<1>1. SUFFICES ASSUME Bad # {} PROVE FALSE OBVIOUS
<1>2. PICK T \in Bad : \A U \in Bad : U \subseteq T => U = T
  <2>1. Bad \subseteq SUBSET S OBVIOUS
  <2> HIDE DEF Bad
  <2>2. QED BY <1>1, <2>1, MinimalSet
<1>3. IsFiniteSet(T) /\ T \subseteq S BY FS_Subset
<1>4. Sum(f, T) = IF T = {} THEN 0
                    ELSE LET x == CHOOSE x \in T : TRUE IN f[x] + Sum(f, T \ {x})
  BY <1>3, SumChoose
<1> DEFINE x == CHOOSE x \in T : TRUE
<1>5. T # {} /\ x \in T BY <1>2, <1>4
<1>6. Sum(f, T \ {x}) \in Int BY <1>2, <1>5
<1>7. QED BY <1>3, <1>4, <1>5, <1>6

(* Nothing sums up to nothing.                                              *)
LEMMA SumOfZeros ==
  ASSUME NEW f, NEW S, IsFiniteSet(S), \A x \in S : f[x] = 0
  PROVE  Sum(f, S) = 0
<1> DEFINE Bad == {s \in SUBSET S : Sum(f, s) # 0}
<1>1. SUFFICES ASSUME Bad # {} PROVE FALSE OBVIOUS
<1>2. PICK T \in Bad : \A U \in Bad : U \subseteq T => U = T
  <2>1. Bad \subseteq SUBSET S OBVIOUS
  <2> HIDE DEF Bad
  <2>2. QED BY <1>1, <2>1, MinimalSet
<1>3. IsFiniteSet(T) /\ T \subseteq S BY FS_Subset
<1>4. Sum(f, T) = IF T = {} THEN 0
                    ELSE LET x == CHOOSE x \in T : TRUE IN f[x] + Sum(f, T \ {x})
  BY <1>3, SumChoose
<1> DEFINE x == CHOOSE x \in T : TRUE
<1>5. T # {} /\ x \in T BY <1>2, <1>4
<1>6. Sum(f, T \ {x}) = 0 BY <1>2, <1>5
<1>7. QED BY <1>3, <1>4, <1>5, <1>6

(* Any summand may be taken first.                                          *)
LEMMA SumRemove ==
  ASSUME NEW f, NEW S, IsFiniteSet(S), \A x \in S : f[x] \in Int, NEW x \in S
  PROVE  Sum(f, S) = f[x] + Sum(f, S \ {x})
<1> DEFINE Bad == {s \in SUBSET S : \E y \in s : Sum(f, s) # f[y] + Sum(f, s \ {y})}
<1>1. SUFFICES ASSUME Bad # {} PROVE FALSE BY DEF Bad
<1>2. PICK T \in Bad : \A U \in Bad : U \subseteq T => U = T
  <2>1. Bad \subseteq SUBSET S OBVIOUS
  <2> HIDE DEF Bad
  <2>2. QED BY <1>1, <2>1, MinimalSet
<1>3. PICK y \in T : Sum(f, T) # f[y] + Sum(f, T \ {y}) BY <1>2
<1>4. IsFiniteSet(T) /\ T \subseteq S BY FS_Subset
<1> DEFINE c == CHOOSE z \in T : TRUE
<1>5. c \in T /\ Sum(f, T) = f[c] + Sum(f, T \ {c}) BY <1>4, SumChoose
<1> HIDE DEF c
<1>6. c # y BY <1>3, <1>5
<1>7. T \ {c} \notin Bad /\ T \ {y} \notin Bad BY <1>2, <1>5, <1>3
<1>8. Sum(f, T \ {c}) = f[y] + Sum(f, (T \ {c}) \ {y}) BY <1>4, <1>6, <1>7
<1>9. Sum(f, T \ {y}) = f[c] + Sum(f, (T \ {y}) \ {c}) BY <1>4, <1>5, <1>6, <1>7
<1>10. Sum(f, (T \ {c}) \ {y}) = Sum(f, (T \ {y}) \ {c}) OBVIOUS
<1>11. f[c] \in Int /\ f[y] \in Int /\ Sum(f, (T \ {c}) \ {y}) \in Int
  BY <1>4, <1>5, FS_Subset, SumOfIntegers
<1>12. QED BY <1>3, <1>5, <1>8, <1>9, <1>10, <1>11

(* The sum depends on the values alone.                                     *)
LEMMA SumDependsOnValues ==
  ASSUME NEW f, NEW g, NEW S, IsFiniteSet(S), \A x \in S : f[x] = g[x]
  PROVE  Sum(f, S) = Sum(g, S)
<1> DEFINE Bad == {s \in SUBSET S : Sum(f, s) # Sum(g, s)}
<1>1. SUFFICES ASSUME Bad # {} PROVE FALSE BY DEF Bad
<1>2. PICK T \in Bad : \A U \in Bad : U \subseteq T => U = T
  <2>1. Bad \subseteq SUBSET S OBVIOUS
  <2> HIDE DEF Bad
  <2>2. QED BY <1>1, <2>1, MinimalSet
<1>3. IsFiniteSet(T) /\ T \subseteq S BY FS_Subset
<1>4. T # {} BY <1>3, SumChoose
<1> DEFINE x == CHOOSE x \in T : TRUE
<1>5. x \in T BY <1>4
<1>6. Sum(f, T) = f[x] + Sum(f, T \ {x}) /\ Sum(g, T) = g[x] + Sum(g, T \ {x})
  BY <1>3, <1>4, SumChoose
<1>7. QED BY <1>2, <1>3, <1>5, <1>6

(* One value changes.                                                       *)
LEMMA SumChanges ==
  ASSUME NEW f, NEW g, NEW S, IsFiniteSet(S),
         \A x \in S : f[x] \in Int /\ g[x] \in Int,
         NEW x \in S, \A y \in S \ {x} : f[y] = g[y]
  PROVE  Sum(g, S) = Sum(f, S) + g[x] - f[x]
<1>1. Sum(f, S) = f[x] + Sum(f, S \ {x}) /\ Sum(g, S) = g[x] + Sum(g, S \ {x}) BY SumRemove
<1>2. Sum(f, S \ {x}) \in Int BY FS_Subset, SumOfIntegers
<1>3. QED BY <1>1, <1>2, FS_Subset, SumDependsOnValues

(* A sum is the sum over a part and the sum over the rest.                  *)
LEMMA SumOfParts ==
  ASSUME NEW f, NEW S, IsFiniteSet(S), \A x \in S : f[x] \in Int, NEW T \in SUBSET S
  PROVE  Sum(f, S) = Sum(f, T) + Sum(f, S \ T)
<1> DEFINE Bad == {s \in SUBSET S : Sum(f, S) # Sum(f, s) + Sum(f, S \ s)}
<1>1. SUFFICES ASSUME Bad # {} PROVE FALSE BY DEF Bad
<1>2. PICK U \in Bad : \A V \in Bad : V \subseteq U => V = U
  <2>1. Bad \subseteq SUBSET S OBVIOUS
  <2> HIDE DEF Bad
  <2>2. QED BY <1>1, <2>1, MinimalSet
<1>3. \A s \in SUBSET S : IsFiniteSet(s) /\ Sum(f, s) \in Int BY FS_Subset, SumOfIntegers
<1>4. U # {}
  <2>1. Sum(f, {}) = 0 BY FS_EmptySet, SumChoose
  <2>2. Sum(f, S) = Sum(f, {}) + Sum(f, S \ {}) BY <1>3, <2>1
  <2> QED BY <2>2
<1>5. PICK x \in U : TRUE BY <1>4
<1> DEFINE V == U \ {x}
<1>6. Sum(f, S) = Sum(f, V) + Sum(f, S \ V) BY <1>2, <1>5
<1>7. Sum(f, U) = f[x] + Sum(f, V) BY <1>3, <1>5, SumRemove
<1>8. Sum(f, S \ V) = f[x] + Sum(f, S \ U)
  <2>1. (S \ V) \ {x} = S \ U /\ x \in S \ V /\ S \ V \in SUBSET S BY <1>5
  <2> HIDE DEF V
  <2> QED BY <1>3, <2>1, SumRemove
<1>9. f[x] \in Int /\ Sum(f, V) \in Int /\ Sum(f, S \ U) \in Int BY <1>3, <1>5
<1> HIDE DEF V
<1> QED BY <1>2, <1>6, <1>7, <1>8, <1>9

(* Natural numbers sum up to one.                                           *)
LEMMA SumOfNaturals ==
  ASSUME NEW f, NEW S, IsFiniteSet(S), \A x \in S : f[x] \in Nat
  PROVE  Sum(f, S) \in Nat
<1> DEFINE Bad == {s \in SUBSET S : Sum(f, s) \notin Nat}
<1>1. SUFFICES ASSUME Bad # {} PROVE FALSE OBVIOUS
<1>2. PICK T \in Bad : \A U \in Bad : U \subseteq T => U = T
  <2>1. Bad \subseteq SUBSET S OBVIOUS
  <2> HIDE DEF Bad
  <2>2. QED BY <1>1, <2>1, MinimalSet
<1>3. IsFiniteSet(T) /\ T \subseteq S BY FS_Subset
<1>4. Sum(f, T) = IF T = {} THEN 0
                    ELSE LET x == CHOOSE x \in T : TRUE IN f[x] + Sum(f, T \ {x})
  BY <1>3, SumChoose
<1> DEFINE x == CHOOSE x \in T : TRUE
<1>5. T # {} /\ x \in T BY <1>2, <1>4
<1>6. Sum(f, T \ {x}) \in Nat BY <1>2, <1>5
<1>7. QED BY <1>2, <1>3, <1>4, <1>5, <1>6

(* A sum of natural numbers does not shrink when the set grows.             *)
LEMMA SumIsMonotone ==
  ASSUME NEW f, NEW S, IsFiniteSet(S), \A x \in S : f[x] \in Nat, NEW T \in SUBSET S
  PROVE  Sum(f, T) <= Sum(f, S)
<1>1. Sum(f, S) \in Nat /\ Sum(f, T) \in Nat /\ Sum(f, S \ T) \in Nat
  BY FS_Subset, SumOfNaturals
<1> QED BY <1>1, SumOfParts
------------------------------------------------------------------------------
(* Finite sets of integers, listed in order.                                *)

NoGreatest(S) == {s \in SUBSET S : s # {} /\ ~\E m \in s : \A i \in s : i <= m}

(* A finite set of integers has a greatest element.                         *)
LEMMA GreatestOf ==
  ASSUME NEW S \in SUBSET Int, IsFiniteSet(S), S # {}
  PROVE  \E m \in S : \A i \in S : i <= m
<1>1. SUFFICES ASSUME NoGreatest(S) # {} PROVE FALSE BY DEF NoGreatest
<1>2. PICK T \in NoGreatest(S) : \A U \in NoGreatest(S) : U \subseteq T => U = T
  <2>1. NoGreatest(S) \subseteq SUBSET S BY DEF NoGreatest
  <2> QED BY <1>1, <2>1, MinimalSet
<1>3. T \in SUBSET S /\ T \in SUBSET Int /\ T # {} /\ ~\E m \in T : \A i \in T : i <= m
  BY <1>2 DEF NoGreatest
<1>4. PICK x \in T : TRUE BY <1>3
<1> DEFINE U == T \ {x}
<1>5. U \in SUBSET S /\ U \subseteq T /\ U # T BY <1>3, <1>4
<1>6. CASE U = {} BY <1>3, <1>4, <1>6
<1>7. CASE U # {}
  <2>1. PICK m \in U : \A i \in U : i <= m BY <1>2, <1>5, <1>7 DEF NoGreatest
  <2>2. m \in Int /\ x \in Int /\ m \in T BY <1>3, <1>4, <1>5, <2>1
  <2>3. \A i \in T : i \in Int /\ (i \in U \/ i = x) BY <1>3
  <2>4. CASE x <= m BY <1>3, <2>1, <2>2, <2>3, <2>4
  <2>5. CASE ~(x <= m) BY <1>3, <1>4, <2>1, <2>2, <2>3, <2>5
  <2> QED BY <2>4, <2>5
<1> QED BY <1>6, <1>7

Increasing(at) == \A i, j \in DOMAIN at : i < j => at[i] < at[j]

LEMMA OneMorePlace ==
  ASSUME NEW T \in SUBSET Int, IsFiniteSet(T), NEW m \in T, \A i \in T : i <= m,
         NEW f \in SetToSeqs(T \ {m}), Increasing(f)
  PROVE  \E at \in SetToSeqs(T) : Increasing(at)
<1> DEFINE c == Cardinality(T \ {m})
           g == [i \in 1 .. c + 1 |-> IF i = c + 1 THEN m ELSE f[i]]
<1>1. IsFiniteSet(T) /\ IsFiniteSet(T \ {m}) BY FS_RemoveElement
<1>2. c \in Nat /\ Cardinality(T) = c + 1 BY <1>1, FS_CardinalityType, FS_RemoveElement
<1>3. f \in [1 .. c -> T \ {m}] /\ \A i, j \in 1 .. c : i # j => f[i] # f[j] BY DEF SetToSeqs
<1> HIDE DEF c
<1> HIDE DEF g
<1>4. ASSUME NEW i \in 1 .. c PROVE f[i] \in T /\ f[i] \in Int /\ f[i] < m
  <2>1. f[i] \in T /\ f[i] # m BY <1>3
  <2>2. \A k \in T : k \in Int OBVIOUS
  <2> DEFINE x == f[i]
  <2> HIDE DEF x
  <2>3. x \in T /\ x # m BY <2>1 DEF x
  <2>4. x \in Int /\ m \in Int /\ x <= m BY <2>2, <2>3
  <2> QED BY <2>3, <2>4 DEF x
<1>5. g \in [1 .. c + 1 -> T] /\ \A i, j \in 1 .. c + 1 : i # j => g[i] # g[j]
  BY <1>2, <1>3, <1>4 DEF g
<1>6. Increasing(g)
  <2> SUFFICES ASSUME NEW i \in 1 .. c + 1, NEW j \in 1 .. c + 1, i < j PROVE g[i] < g[j]
    BY <1>5 DEF Increasing
  <2>1. i \in 1 .. c /\ i # c + 1 /\ g[i] = f[i] BY <1>2 DEF g
  <2>2. CASE j = c + 1 BY <1>4, <2>1, <2>2 DEF g
  <2>3. CASE j \in 1 .. c
    <3>1. DOMAIN f = 1 .. c BY <1>3
    <3> QED BY <1>2, <2>1, <2>3, <3>1 DEF Increasing, g
  <2> QED BY <1>2, <2>2, <2>3
<1> QED BY <1>2, <1>5, <1>6 DEF SetToSeqs

Unlisted(S) == {T \in SUBSET S : ~\E at \in SetToSeqs(T) : Increasing(at)}

LEMMA ListedInOrder ==
  ASSUME NEW S \in SUBSET Int, IsFiniteSet(S)
  PROVE  \E at \in SetToSeqs(S) : Increasing(at)
<1>0. SUFFICES ASSUME Unlisted(S) # {} PROVE FALSE BY DEF Unlisted
<1>1. Unlisted(S) \subseteq SUBSET S BY DEF Unlisted
<1>2. PICK T \in Unlisted(S) : \A U \in Unlisted(S) : U \subseteq T => U = T
  BY <1>0, <1>1, MinimalSet
<1>3. CASE T = {}
  <2>1. <<>> \in SetToSeqs({}) /\ Increasing(<<>>) BY FS_EmptySet DEF SetToSeqs, Increasing
  <2> QED BY <1>2, <1>3, <2>1 DEF Unlisted
<1>4. CASE T # {}
  <2>1. T \in SUBSET Int /\ T \in SUBSET S /\ IsFiniteSet(T) BY <1>1, <1>2, FS_Subset
  <2>2. PICK m \in T : \A i \in T : i <= m BY <1>4, <2>1, GreatestOf
  <2>3. PICK f \in SetToSeqs(T \ {m}) : Increasing(f) BY <1>1, <1>2 DEF Unlisted
  <2> QED BY <1>2, <2>1, <2>2, <2>3, OneMorePlace DEF Unlisted
<1> QED BY <1>3, <1>4

(* A list of a finite set names each of it once.                            *)
LEMMA ListedOnce ==
  ASSUME NEW S, IsFiniteSet(S), NEW s \in SetToSeqs(S)
  PROVE  s \in Seq(S) /\ Members(s) = S /\ NoRepeat(s) /\ DOMAIN s = 1 .. Cardinality(S)
<1>1. s \in [1 .. Cardinality(S) -> S] /\ \A i, j \in 1 .. Cardinality(S) : i # j => s[i] # s[j]
  BY DEF SetToSeqs
<1>2. s \in Seq(S) /\ Len(s) = Cardinality(S) /\ DOMAIN s = 1 .. Cardinality(S)
  BY <1>1, FS_CardinalityType
<1> QED BY <1>1, <1>2, AllNamed DEF NoRepeat

(* The list that the increasing one is chosen to be.                        *)
LEMMA ChosenInOrder ==
  ASSUME NEW S \in SUBSET Int, IsFiniteSet(S), NEW at,
         at = CHOOSE f \in SetToSeqs(S) : \A i, j \in DOMAIN f : i < j => f[i] < f[j]
  PROVE  /\ at \in Seq(S) /\ NoRepeat(at) /\ Members(at) = S /\ DOMAIN at = 1 .. Cardinality(S)
         /\ Increasing(at)
<1> QED BY ListedInOrder, ListedOnce DEF Increasing

(* The same of places in a sequence.                                        *)
LEMMA PlacesAreFew ==
  ASSUME NEW n \in Nat, NEW S \in SUBSET (1 .. n)
  PROVE  IsFiniteSet(S) /\ Cardinality(S) \in Nat /\ Cardinality(S) <= n
<1>1. IsFiniteSet(1 .. n) /\ Cardinality(1 .. n) = (IF 1 > n THEN 0 ELSE n - 1 + 1)
  BY FS_Interval
<1>2. IsFiniteSet(S) /\ Cardinality(S) <= Cardinality(1 .. n) BY <1>1, FS_Subset
<1> QED BY <1>1, <1>2, FS_CardinalityType

LEMMA PlacesInOrder ==
  ASSUME NEW n \in Nat, NEW S \in SUBSET (1 .. n), NEW at,
         at = CHOOSE f \in SetToSeqs(S) : \A i, j \in DOMAIN f : i < j => f[i] < f[j]
  PROVE  at \in Seq(S) /\ NoRepeat(at) /\ Members(at) = S /\ Len(at) <= n
<1>1. IsFiniteSet(S) /\ Cardinality(S) \in Nat /\ Cardinality(S) <= n BY PlacesAreFew
<1>2. at \in Seq(S) /\ NoRepeat(at) /\ Members(at) = S /\ DOMAIN at = 1 .. Cardinality(S)
  BY <1>1, ChosenInOrder
<1> QED BY <1>1, <1>2, LenProperties

(* What stands at chosen places of a sequence, in their order.              *)
PicksOut(t, s, at, places) ==
    /\ at = CHOOSE f \in SetToSeqs(places) : \A i, j \in DOMAIN f : i < j => f[i] < f[j]
    /\ t = [i \in DOMAIN at |-> s[at[i]]]

LEMMA PickedPlaces ==
  ASSUME NEW R, NEW s \in Seq(R), NEW places \in SUBSET (DOMAIN s), NEW at, NEW t,
         PicksOut(t, s, at, places)
  PROVE  /\ t \in Seq(R) /\ Len(t) <= Len(s) /\ Members(t) = {s[i] : i \in places}
         /\ NoRepeat(s) => NoRepeat(t)
<1> DEFINE n == Len(s)
<1>1. n \in Nat /\ DOMAIN s = 1 .. n /\ \A i \in DOMAIN s : s[i] \in R
  BY LenProperties, ElementOfSeq
<1>0. /\ at = CHOOSE f \in SetToSeqs(places) : \A i, j \in DOMAIN f : i < j => f[i] < f[j]
      /\ t = [i \in DOMAIN at |-> s[at[i]]]
  BY DEF PicksOut
<1> HIDE DEF n
<1>2. n \in Nat /\ places \in SUBSET (1 .. n) BY <1>1
<1>3. at \in Seq(places) /\ NoRepeat(at) /\ Members(at) = places /\ Len(at) <= n
  BY <1>0, <1>2, PlacesInOrder
<1>4. Len(at) \in Nat /\ DOMAIN at = 1 .. Len(at) /\ \A i \in DOMAIN at : at[i] \in places
  BY <1>3, LenProperties, ElementOfSeq
<1>5. t \in Seq(R) /\ Len(t) = Len(at) /\ DOMAIN t = DOMAIN at /\ \A i \in DOMAIN at : t[i] = s[at[i]]
  BY <1>0, <1>1, <1>2, <1>4
<1>6. Members(t) = {s[i] : i \in places}
  <2>1. ASSUME NEW x \in Members(t) PROVE x \in {s[i] : i \in places}
    <3>1. PICK j \in DOMAIN t : x = t[j] BY <2>1 DEF Members
    <3> QED BY <1>4, <1>5, <3>1
  <2>2. ASSUME NEW i \in places PROVE s[i] \in Members(t)
    <3>1. PICK j \in DOMAIN at : at[j] = i BY <1>3, <2>2 DEF Members
    <3> QED BY <1>5, <3>1 DEF Members
  <2> QED BY <2>1, <2>2
<1>7. NoRepeat(s) => NoRepeat(t)
  <2> SUFFICES ASSUME NoRepeat(s), NEW i \in DOMAIN t, NEW j \in DOMAIN t, t[i] = t[j] PROVE i = j
    BY DEF NoRepeat
  <2>1. at[i] = at[j] BY <1>1, <1>2, <1>4, <1>5 DEF NoRepeat
  <2> QED BY <1>3, <1>5, <2>1 DEF NoRepeat
<1> QED BY <1>3, <1>4, <1>5, <1>6, <1>7 DEF n

------------------------------------------------------------------------------
(* Iterations written as recursive functions: g[0] is the start, g[n] the   *)
(* result of the n-th step.  There is one, and what every step keeps holds  *)
(* throughout.                                                              *)
Iterated(g, N, a, F) == g[0] = a /\ \A n \in 1 .. N : g[n] = F[<<n, g[n - 1]>>]

LEMMA Iterates ==
  ASSUME NEW N \in Nat, NEW S, NEW a \in S, NEW F \in [(1 .. N) \X S -> S]
  PROVE  \E g \in [0 .. N -> S] : Iterated(g, N, a, F)
<1> DEFINE Bad == {n \in 0 .. N : ~\E g \in [0 .. n -> S] : Iterated(g, n, a, F)}
<1>1. SUFFICES ASSUME Bad # {} PROVE FALSE BY DEF Bad
<1>2. PICK n \in Bad : \A m \in Bad : n <= m
  <2>1. Bad \in SUBSET Nat OBVIOUS
  <2> HIDE DEF Bad
  <2> QED BY <1>1, <2>1, LeastOf
<1>3. n \in 0 .. N /\ ~\E g \in [0 .. n -> S] : Iterated(g, n, a, F) BY <1>2
<1>4. CASE n = 0
  <2> DEFINE g == [i \in 0 .. 0 |-> a]
  <2>1. g \in [0 .. n -> S] /\ Iterated(g, n, a, F) BY <1>4 DEF Iterated
  <2> QED BY <1>3, <2>1
<1>5. CASE n # 0
  <2>1. n - 1 \in 0 .. N /\ n \in 1 .. N /\ ~(n <= n - 1) BY <1>3, <1>5
  <2>2. PICK g \in [0 .. n - 1 -> S] : Iterated(g, n - 1, a, F) BY <1>2, <2>1
  <2> DEFINE h == [i \in 0 .. n |-> IF i = n THEN F[<<n, g[n - 1]>>] ELSE g[i]]
  <2>3. \A i \in 0 .. n : i = n \/ i \in 0 .. n - 1 BY <2>1
  <2>4. h \in [0 .. n -> S] BY <2>1, <2>3
  <2>5. h[0] = a BY <2>1, <2>2 DEF Iterated
  <2>6. ASSUME NEW i \in 1 .. n PROVE h[i] = F[<<i, h[i - 1]>>]
    <3>1. i - 1 \in 0 .. n /\ i - 1 # n /\ i \in 0 .. n BY <2>1
    <3>2. h[i - 1] = g[i - 1] BY <3>1
    <3>3. CASE i = n
      <4>1. h[i] = F[<<n, g[n - 1]>>] BY <3>1, <3>3
      <4> HIDE DEF h
      <4> QED BY <3>2, <3>3, <4>1
    <3>4. CASE i # n
      <4>1. i \in 1 .. n - 1 /\ h[i] = g[i] BY <2>1, <3>1, <3>4
      <4> HIDE DEF h
      <4> QED BY <2>2, <3>2, <4>1 DEF Iterated
    <3> QED BY <3>3, <3>4
  <2> HIDE DEF h
  <2> QED BY <1>3, <2>4, <2>5, <2>6 DEF Iterated
<1> QED BY <1>4, <1>5

LEMMA IterationKeeps ==
  ASSUME NEW N \in Nat, NEW g, NEW S, g[0] \in S,
         \A n \in 1 .. N : g[n - 1] \in S => g[n] \in S
  PROVE  \A n \in 0 .. N : g[n] \in S
<1> DEFINE Bad == {n \in 0 .. N : g[n] \notin S}
<1>1. SUFFICES ASSUME Bad # {} PROVE FALSE BY DEF Bad
<1>2. PICK n \in Bad : \A m \in Bad : n <= m
  <2>1. Bad \in SUBSET Nat OBVIOUS
  <2> HIDE DEF Bad
  <2> QED BY <1>1, <2>1, LeastOf
<1>3. n \in 0 .. N /\ n # 0 /\ g[n] \notin S BY <1>2
<1>4. n - 1 \in 0 .. N /\ n \in 1 .. N /\ ~(n <= n - 1) BY <1>3
<1> QED BY <1>2, <1>3, <1>4
=============================================================================
