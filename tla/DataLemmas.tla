----------------------------- MODULE DataLemmas -----------------------------
(***************************************************************************)
(* Lemmas about numbers, finite sets and sequences that the proofs about   *)
(* several components rest on.  The library's induction theorems take an   *)
(* operator, which the provers cannot instantiate; the least element of a  *)
(* set, which these lemmas derive from the well-founded order of finite    *)
(* sets, does the work of induction in the form of a set.                  *)
(***************************************************************************)
EXTENDS Naturals, Sequences, FiniteSets, FiniteSetTheorems, WellFoundedInduction, SequenceTheorems, Orders, TLAPS

\* Every set of naturals that is not empty has a least element.
LEMMA LeastNatural ==
    ASSUME NEW S \in SUBSET Nat, S # {}
    PROVE  \E m \in S : \A k \in S : m <= k
<1> DEFINE Upto(m) == {k \in S : k <= m}
           R == StrictSubsetOrdering(Nat)
           Initial == {Upto(m) : m \in S}
<1>1. \A m \in S : Upto(m) \in FiniteSubsetsOf(Nat)
  <2> TAKE m \in S
  <2>1. IsFiniteSet(Upto(m))
    BY FS_BoundedSetOfNaturals
  <2> QED  BY <2>1 DEF FiniteSubsetsOf
<1>2. PICK U \in Initial : \A V \in Initial : ~(<<V, U>> \in R)
  <2>1. Initial \subseteq FiniteSubsetsOf(Nat) /\ Initial # {}
    BY <1>1
  <2> HIDE DEF Initial, R
  <2> QED  BY <2>1, FS_StrictSubsetOrderingWellFounded, WFMin DEF R
<1>3. PICK m \in S : U = Upto(m)
  OBVIOUS
<1>4. ASSUME NEW k \in S, k < m PROVE FALSE
  <2>1. m <= m /\ ~(m <= k) /\ \A j \in S : j <= k => j <= m
    BY <1>4
  <2>2. Upto(k) \subseteq Upto(m) /\ m \in Upto(m) /\ m \notin Upto(k)
    BY <2>1, Zenon
  <2>3. <<Upto(k), Upto(m)>> \in R
    BY <2>2 DEF StrictSubsetOrdering
  <2> QED  BY <1>2, <1>3, <2>3
<1> QED  BY <1>4

\* Induction: a set that has zero and the successors of its members.
LEMMA AllNaturals ==
    ASSUME NEW S, 0 \in S, \A n \in Nat : n \in S => n + 1 \in S
    PROVE  Nat \subseteq S
<1> SUFFICES ASSUME Nat \ S # {} PROVE FALSE
  OBVIOUS
<1>1. PICK m \in Nat \ S : \A k \in Nat \ S : m <= k
  BY LeastNatural
<1>2. m - 1 \in Nat /\ m - 1 \in S
  BY <1>1
<1> QED  BY <1>2

\* The members of a set of naturals that lie within a distance of each other.
LEMMA CloseTogether ==
    ASSUME NEW S \in SUBSET Nat, NEW n \in Nat, \A i, j \in S : j < i + n
    PROVE  IsFiniteSet(S) /\ Cardinality(S) <= n
<1>1. CASE S = {}
  BY <1>1, FS_EmptySet
<1>2. CASE S # {}
  <2>1. PICK m \in S : \A k \in S : m <= k
    BY <1>2, LeastNatural
  <2>2. S \in SUBSET (m .. m + n - 1) /\ m < m + n
    BY <2>1
  <2>3. IsFiniteSet(m .. m + n - 1) /\ Cardinality(m .. m + n - 1) = n
    BY <2>2, FS_Interval
  <2> QED  BY <2>2, <2>3, FS_Subset
<1> QED  BY <1>1, <1>2

\* Counting: what joins or leaves a finite set.
LEMMA OneJoins ==
    ASSUME NEW S, IsFiniteSet(S), NEW x, x \notin S
    PROVE  /\ IsFiniteSet(S \union {x}) /\ Cardinality(S) \in Nat
           /\ Cardinality(S \union {x}) = Cardinality(S) + 1
BY FS_AddElement, FS_CardinalityType

LEMMA OneLeaves ==
    ASSUME NEW S, IsFiniteSet(S), NEW x \in S
    PROVE  /\ IsFiniteSet(S \ {x}) /\ Cardinality(S) \in Nat \ {0}
           /\ Cardinality(S \ {x}) = Cardinality(S) - 1 /\ Cardinality(S \ {x}) \in Nat
<1>1. Cardinality(S) \in Nat /\ Cardinality(S) # 0
  BY FS_EmptySet, FS_CardinalityType
<1>2. IsFiniteSet(S \ {x}) /\ Cardinality(S \ {x}) = Cardinality(S) - 1
  BY FS_RemoveElement
<1> QED  BY <1>1, <1>2

\* The members of an interval.
LEMMA IntervalSize ==
    ASSUME NEW a \in Int, NEW b \in Int, a <= b + 1
    PROVE  IsFiniteSet(a .. b) /\ Cardinality(a .. b) = b - a + 1
BY FS_Interval

\* What a sequence is, without its constructors.
LEMMA SeqParts ==
    ASSUME NEW S, NEW s \in Seq(S)
    PROVE  Len(s) \in Nat /\ DOMAIN s = 1 .. Len(s) /\ (\A i \in 1 .. Len(s) : s[i] \in S)
           /\ (s = <<>> <=> Len(s) = 0)
BY LenProperties, ElementOfSeq, EmptySeq

-----------------------------------------------------------------------------
(***************************************************************************)
(* Orders.  In a strict order the number of members before a member grows  *)
(* along the order, so each number up to the size of the set is taken      *)
(* once.                                                                   *)
(***************************************************************************)
StrictlyOrders(R, S) ==
    /\ \A x, y, z \in S : <<x, y>> \in R /\ <<y, z>> \in R => <<x, z>> \in R
    /\ \A x \in S : <<x, x>> \notin R
    /\ \A x, y \in S : x = y \/ <<x, y>> \in R \/ <<y, x>> \in R

LEMMA InOrderIs ==
    ASSUME NEW S, IsFiniteSet(S), NEW R, StrictlyOrders(R, S)
    PROVE  /\ Cardinality(S) \in Nat
           /\ InOrder(S, R) \in [1 .. Cardinality(S) -> S]
           /\ \A x \in S : \E k \in 1 .. Cardinality(S) : InOrder(S, R)[k] = x
           /\ \A j, k \in 1 .. Cardinality(S) : <<InOrder(S, R)[j], InOrder(S, R)[k]>> \in R <=> j < k
<1> DEFINE n == Cardinality(S)
           below == [x \in S |-> {y \in S : <<y, x>> \in R}]
           count == [x \in S |-> Cardinality(below[x])]
           list == InOrder(S, R)
           place == [x \in S |-> count[x] + 1]
<1>1. n \in Nat
  BY FS_CardinalityType
<1>2. \A x \in S : IsFiniteSet(below[x]) /\ count[x] = Cardinality(below[x]) /\ count[x] \in Nat /\ count[x] < n
  <2> TAKE x \in S
  <2>1. below[x] \subseteq S \ {x}
    BY DEF StrictlyOrders
  <2>2. IsFiniteSet(S \ {x}) /\ Cardinality(S \ {x}) = n - 1
    BY OneLeaves
  <2>3. count[x] = Cardinality(below[x])
    OBVIOUS
  <2> HIDE DEF n, count, below
  <2>4. IsFiniteSet(below[x]) /\ count[x] <= n - 1
    BY <2>1, <2>2, <2>3, FS_Subset
  <2>5. count[x] \in Nat
    BY <2>3, <2>4, FS_CardinalityType
  <2> QED  BY <1>1, <2>3, <2>4, <2>5
<1>3. \A x, y \in S : <<x, y>> \in R => count[x] < count[y]
  <2> SUFFICES ASSUME NEW x \in S, NEW y \in S, <<x, y>> \in R PROVE count[x] < count[y]
    OBVIOUS
  <2>1. below[x] \subseteq below[y] \ {x} /\ x \in below[y]
    BY DEF StrictlyOrders
  <2> HIDE DEF count, below
  <2>2. IsFiniteSet(below[y] \ {x}) /\ Cardinality(below[y] \ {x}) = count[y] - 1
    BY <1>2, <2>1, OneLeaves
  <2>3. count[x] <= count[y] - 1
    BY <1>2, <2>1, <2>2, FS_Subset
  <2> QED  BY <1>2, <2>3
<1>4. list = [k \in 1 .. n |-> CHOOSE x \in S : count[x] = k - 1]
  <2> DEFINE counted(k) == CHOOSE x \in S : count[x] = k - 1
             as_defined(k) == CHOOSE x \in S : Cardinality({y \in S : <<y, x>> \in R}) = k - 1
  <2>1. \A k : counted(k) = as_defined(k)
    OBVIOUS
  <2>2. list = [k \in 1 .. n |-> as_defined(k)]
    BY DEF InOrder
  <2>3. list = [k \in 1 .. n |-> counted(k)]
    <3> HIDE DEF counted, as_defined, list, n
    <3> QED  BY <2>1, <2>2, Zenon
  <2> QED  BY <2>3
<1> HIDE DEF n, count, below, list
<1>5. \A x, y \in S : <<x, y>> \in R <=> count[x] < count[y]
  <2> SUFFICES ASSUME NEW x \in S, NEW y \in S, count[x] < count[y] PROVE <<x, y>> \in R
    BY <1>3
  <2>1. x # y /\ ~(count[y] < count[x])
    BY <1>2
  <2>2. <<y, x>> \notin R
    BY <1>3, <2>1
  <2> QED  BY <2>1, <2>2 DEF StrictlyOrders
<1>6. \A x, y \in S : count[x] = count[y] => x = y
  <2> SUFFICES ASSUME NEW x \in S, NEW y \in S, count[x] = count[y] PROVE x = y
    OBVIOUS
  <2>1. ~(count[x] < count[y]) /\ ~(count[y] < count[x])
    BY <1>2
  <2> QED  BY <1>5, <2>1 DEF StrictlyOrders
<1>7. \A k \in 1 .. n : \E x \in S : count[x] = k - 1
  <2>1. place \in [S -> 1 .. n]
    <3>1. \A x \in S : count[x] + 1 \in 1 .. n
      BY <1>1, <1>2
    <3> QED  BY <3>1
  <2>2. \A x, y \in S : place[x] = place[y] => x = y
    <3> SUFFICES ASSUME NEW x \in S, NEW y \in S, count[x] + 1 = count[y] + 1 PROVE x = y
      OBVIOUS
    <3>1. count[x] = count[y]
      BY <1>2
    <3> QED  BY <1>6, <3>1
  <2>3. \A x \in S : place[x] = count[x] + 1
    OBVIOUS
  <2> HIDE DEF place
  <2>4. place \in Injection(S, 1 .. n)
    BY <2>1, <2>2 DEF Injection, IsInjective
  <2>5. IsFiniteSet(1 .. n) /\ Cardinality(1 .. n) = Cardinality(S)
    BY <1>1, IntervalSize DEF n
  <2>6. place \in Surjection(S, 1 .. n)
    BY <2>4, <2>5, FS_Injection
  <2>7. \A k \in 1 .. n : \E x \in S : place[x] = k
    BY <2>6 DEF Surjection
  <2> QED  BY <1>2, <2>3, <2>7
<1>8. \A k \in 1 .. n : list[k] \in S /\ count[list[k]] = k - 1
  BY <1>4, <1>7
<1>9. list \in [1 .. n -> S]
  BY <1>4, <1>8
<1>10. \A x \in S : \E k \in 1 .. n : list[k] = x
  <2> TAKE x \in S
  <2>1. PICK k \in 1 .. n : k = count[x] + 1
    BY <1>1, <1>2
  <2>2. list[k] \in S /\ count[list[k]] = count[x]
    BY <1>2, <1>8, <2>1
  <2> QED  BY <1>6, <2>2
<1>11. \A j, k \in 1 .. n : <<list[j], list[k]>> \in R <=> j < k
  <2> TAKE j, k \in 1 .. n
  <2>1. <<list[j], list[k]>> \in R <=> count[list[j]] < count[list[k]]
    BY <1>5, <1>8
  <2>2. count[list[j]] = j - 1 /\ count[list[k]] = k - 1 /\ j \in Int /\ k \in Int
    BY <1>8
  <2> QED  BY <2>1, <2>2
<1> QED  BY <1>1, <1>9, <1>10, <1>11 DEF n, list

LEMMA AscendingIs ==
    ASSUME NEW S \in SUBSET Int, IsFiniteSet(S)
    PROVE  /\ Cardinality(S) \in Nat
           /\ Ascending(S) \in [1 .. Cardinality(S) -> S]
           /\ \A x \in S : \E k \in 1 .. Cardinality(S) : Ascending(S)[k] = x
           /\ \A j, k \in 1 .. Cardinality(S) : Ascending(S)[j] < Ascending(S)[k] <=> j < k
<1> DEFINE R == {p \in S \X S : p[1] < p[2]}
           size == Cardinality(S)
<1>1. \A m, n \in S : <<m, n>> \in R <=> m < n
  OBVIOUS
<1>2. Ascending(S) = InOrder(S, R)
  BY DEF Ascending
<1> HIDE DEF R
<1>3. StrictlyOrders(R, S)
  BY <1>1 DEF StrictlyOrders
<1>4. /\ size \in Nat /\ InOrder(S, R) \in [1 .. size -> S]
      /\ \A x \in S : \E k \in 1 .. size : InOrder(S, R)[k] = x
      /\ \A j, k \in 1 .. size : <<InOrder(S, R)[j], InOrder(S, R)[k]>> \in R <=> j < k
  BY <1>3, InOrderIs
<1> HIDE DEF size
<1>5. \A j, k \in 1 .. size : InOrder(S, R)[j] < InOrder(S, R)[k] <=> j < k
  BY <1>1, <1>4
<1> QED  BY <1>2, <1>4, <1>5 DEF size

\* A function on 1 .. n is a sequence.
LEMMA ListIsSeq == ASSUME NEW S, NEW n \in Nat, NEW f \in [1 .. n -> S] PROVE f \in Seq(S) /\ Len(f) = n
OBVIOUS

\* Where each entry of few comes from in s, in their order, when few has just
\* those that are in S.
Takes(from, few, s, S) ==
    /\ from \in [1 .. Len(few) -> 1 .. Len(s)]
    /\ \A k \in 1 .. Len(few) : few[k] = s[from[k]] /\ s[from[k]] \in S
    /\ \A j, k \in 1 .. Len(few) : from[j] < from[k] <=> j < k
    /\ \A i \in 1 .. Len(s) : s[i] \in S => \E k \in 1 .. Len(few) : from[k] = i

LEMMA AmongIs ==
    ASSUME NEW T, NEW s \in Seq(T), NEW S
    PROVE  Among(s, S) \in Seq(T \intersect S) /\ \E from : Takes(from, Among(s, S), s, S)
<1> DEFINE Kept == {k \in 1 .. Len(s) : s[k] \in S}
           n == Cardinality(Kept)
           from == Ascending(Kept)
<1>1. Len(s) \in Nat /\ DOMAIN s = 1 .. Len(s) /\ \A i \in 1 .. Len(s) : s[i] \in T
  BY SeqParts
<1>2. IsFiniteSet(Kept) /\ Kept \subseteq Int
  <2>1. IsFiniteSet(1 .. Len(s)) /\ Kept \subseteq 1 .. Len(s)
    BY <1>1, IntervalSize
  <2>2. Kept \subseteq Int
    BY <1>1
  <2> HIDE DEF Kept
  <2> QED  BY <2>1, <2>2, FS_Subset
<1>3. /\ n \in Nat /\ from \in [1 .. n -> Kept]
      /\ \A x \in Kept : \E k \in 1 .. n : from[k] = x
      /\ \A j, k \in 1 .. n : from[j] < from[k] <=> j < k
  BY <1>2, AscendingIs
<1>4. Among(s, S) = [k \in DOMAIN from |-> s[from[k]]]
  BY <1>1 DEF Among
<1>5. from \in [1 .. n -> 1 .. Len(s)] /\ \A k \in 1 .. n : s[from[k]] \in S
  BY <1>3
<1>6. \A i \in 1 .. Len(s) : s[i] \in S => \E k \in 1 .. n : from[k] = i
  BY <1>3
<1> HIDE DEF n, from, Kept
<1>7. Among(s, S) = [k \in 1 .. n |-> s[from[k]]]
  BY <1>4, <1>5
<1>8. Among(s, S) \in Seq(T \intersect S) /\ Len(Among(s, S)) = n
  <2>1. Among(s, S) \in [1 .. n -> T \intersect S]
    BY <1>1, <1>5, <1>7
  <2> QED  BY <1>3, <2>1, ListIsSeq
<1>9. \A k \in 1 .. n : Among(s, S)[k] = s[from[k]]
  BY <1>7
<1>10. Takes(from, Among(s, S), s, S)
  BY <1>3, <1>5, <1>6, <1>8, <1>9 DEF Takes
<1> QED  BY <1>8, <1>10
-----------------------------------------------------------------------------
(***************************************************************************)
(* Places in lists.  Which entries come ahead of an entry says where it    *)
(* is: when nothing that is ahead of it is lost, it does not come forward. *)
(***************************************************************************)
Distinct(s) == \A i, j \in 1 .. Len(s) : s[i] = s[j] => i = j
Entries(s) == {s[i] : i \in 1 .. Len(s)}
Within(s, k) == {s[i] : i \in {j \in 1 .. Len(s) : j <= k}}
Ahead(s, x, y) == \E i, j \in 1 .. Len(s) : i < j /\ s[i] = x /\ s[j] = y

LEMMA AmongOrder ==
    ASSUME NEW T, NEW s \in Seq(T), NEW S
    PROVE  /\ Among(s, S) \in Seq(T) /\ Entries(Among(s, S)) = Entries(s) \intersect S
           /\ \A x, y : Ahead(Among(s, S), x, y) <=> x \in S /\ y \in S /\ Ahead(s, x, y)
           /\ Distinct(s) => Distinct(Among(s, S))
<1> DEFINE few == Among(s, S)
<1>1. few \in Seq(T \intersect S) /\ \E from : Takes(from, few, s, S)
  BY AmongIs
<1>2. PICK from : Takes(from, few, s, S)
  BY <1>1
<1> HIDE DEF few
<1>3. /\ Len(few) \in Nat /\ Len(s) \in Nat /\ few \in Seq(T)
      /\ from \in [1 .. Len(few) -> 1 .. Len(s)]
      /\ \A k \in 1 .. Len(few) : few[k] = s[from[k]] /\ s[from[k]] \in S
      /\ \A j, k \in 1 .. Len(few) : from[j] < from[k] <=> j < k
      /\ \A i \in 1 .. Len(s) : s[i] \in S => \E k \in 1 .. Len(few) : from[k] = i
  BY <1>1, <1>2, SeqParts DEF Takes
<1>4. Entries(few) = Entries(s) \intersect S
  <2>1. ASSUME NEW x \in Entries(s) \intersect S PROVE x \in Entries(few)
    <3>1. PICK i \in 1 .. Len(s) : s[i] = x
      BY DEF Entries
    <3>2. PICK k \in 1 .. Len(few) : from[k] = i
      BY <1>3, <3>1
    <3> QED  BY <1>3, <3>1, <3>2 DEF Entries
  <2>2. ASSUME NEW x \in Entries(few) PROVE x \in Entries(s) \intersect S
    BY <1>3 DEF Entries
  <2> QED  BY <2>1, <2>2
<1>5. ASSUME NEW x, NEW y, Ahead(few, x, y) PROVE x \in S /\ y \in S /\ Ahead(s, x, y)
  <2>1. PICK i, j \in 1 .. Len(few) : i < j /\ few[i] = x /\ few[j] = y
    BY <1>5 DEF Ahead
  <2>2. from[i] \in 1 .. Len(s) /\ from[j] \in 1 .. Len(s) /\ from[i] < from[j]
    BY <1>3, <2>1
  <2>3. s[from[i]] = x /\ x \in S /\ s[from[j]] = y /\ y \in S
    BY <1>3, <2>1
  <2> QED  BY <2>2, <2>3 DEF Ahead
<1>6. ASSUME NEW x \in S, NEW y \in S, Ahead(s, x, y) PROVE Ahead(few, x, y)
  <2>1. PICK i, j \in 1 .. Len(s) : i < j /\ s[i] = x /\ s[j] = y
    BY <1>6 DEF Ahead
  <2>2. PICK k \in 1 .. Len(few) : from[k] = i
    BY <1>3, <2>1
  <2>3. PICK l \in 1 .. Len(few) : from[l] = j
    BY <1>3, <2>1
  <2> QED  BY <1>3, <2>1, <2>2, <2>3 DEF Ahead
<1>7. ASSUME Distinct(s) PROVE Distinct(few)
  <2> SUFFICES ASSUME NEW j \in 1 .. Len(few), NEW k \in 1 .. Len(few), few[j] = few[k] PROVE j = k
    BY DEF Distinct
  <2>1. from[j] \in 1 .. Len(s) /\ from[k] \in 1 .. Len(s) /\ s[from[j]] = s[from[k]]
    BY <1>3
  <2>2. from[j] = from[k]
    BY <1>7, <2>1 DEF Distinct
  <2>3. ~(from[j] < from[k]) /\ ~(from[k] < from[j])
    BY <2>1, <2>2
  <2>4. ~(j < k) /\ ~(k < j)
    BY <1>3, <2>3
  <2> QED  BY <2>4
<1>8. \A x, y : Ahead(few, x, y) <=> x \in S /\ y \in S /\ Ahead(s, x, y)
  BY <1>5, <1>6
<1> QED  BY <1>3, <1>4, <1>7, <1>8 DEF few

\* The first k of t are among those of s, save some, when the first k of s are
\* ahead in t of whatever they are ahead of in s.
LEMMA Forward ==
    ASSUME NEW T, NEW s \in Seq(T), NEW t \in Seq(T), Distinct(s), Distinct(t), NEW k \in Nat, NEW M,
           \A x \in Entries(t) \ M : x \in Entries(s),
           \A x \in Entries(t) \ M : \A y \in Within(s, k) : Ahead(s, y, x) => Ahead(t, y, x)
    PROVE  Within(t, k) \subseteq M \union Within(s, k)
<1> SUFFICES ASSUME NEW i \in 1 .. Len(t), i <= k, t[i] \notin M, t[i] \notin Within(s, k)
             PROVE  FALSE
  BY DEF Within
<1> DEFINE x == t[i]
<1>1. Len(s) \in Nat /\ Len(t) \in Nat /\ x \in Entries(t) \ M
  BY SeqParts DEF Entries
<1>2. PICK j \in 1 .. Len(s) : s[j] = x
  BY <1>1 DEF Entries
<1>3. k < j
  BY <1>1, <1>2 DEF Within
<1>4. ASSUME NEW m \in 1 .. k PROVE \E a \in 1 .. i - 1 : t[a] = s[m]
  <2>1. m \in 1 .. Len(s) /\ m < j /\ s[m] \in Within(s, k)
    BY <1>1, <1>2, <1>3 DEF Within
  <2>2. Ahead(s, s[m], x)
    BY <1>2, <2>1 DEF Ahead
  <2>3. Ahead(t, s[m], x)
    BY <1>1, <2>1, <2>2
  <2>4. PICK a, b \in 1 .. Len(t) : a < b /\ t[a] = s[m] /\ t[b] = x
    BY <2>3 DEF Ahead
  <2>5. b = i
    BY <2>4 DEF Distinct
  <2> QED  BY <1>1, <2>4, <2>5
<1> DEFINE place == [m \in 1 .. k |-> CHOOSE a \in 1 .. i - 1 : t[a] = s[m]]
<1>5. place \in [1 .. k -> 1 .. i - 1] /\ \A m \in 1 .. k : t[place[m]] = s[m]
  BY <1>4
<1> HIDE DEF place
<1>6. \A m, n \in 1 .. k : place[m] = place[n] => m = n
  <2> SUFFICES ASSUME NEW m \in 1 .. k, NEW n \in 1 .. k, place[m] = place[n] PROVE m = n
    OBVIOUS
  <2>1. m \in 1 .. Len(s) /\ n \in 1 .. Len(s)
    BY <1>1, <1>2, <1>3
  <2>2. t[place[m]] = s[m] /\ t[place[n]] = s[n]
    BY <1>5
  <2>3. s[m] = s[n]
    BY <2>2
  <2> QED  BY <2>1, <2>3 DEF Distinct
<1>7. place \in Injection(1 .. k, 1 .. i - 1)
  BY <1>5, <1>6 DEF Injection, IsInjective
<1>8. IsFiniteSet(1 .. i - 1) /\ Cardinality(1 .. i - 1) = i - 1 /\ Cardinality(1 .. k) = k
  BY IntervalSize
<1>9. k <= i - 1
  BY <1>7, <1>8, FS_Injection
<1> QED  BY <1>1, <1>9

\* A list in an order has its entries ahead of each other as the order has them.
LEMMA InOrderAhead ==
    ASSUME NEW S, IsFiniteSet(S), NEW R, StrictlyOrders(R, S)
    PROVE  /\ InOrder(S, R) \in Seq(S) /\ Entries(InOrder(S, R)) = S /\ Distinct(InOrder(S, R))
           /\ \A x, y : Ahead(InOrder(S, R), x, y) <=> x \in S /\ y \in S /\ <<x, y>> \in R
<1> DEFINE s == InOrder(S, R)
<1>1. /\ Cardinality(S) \in Nat /\ s \in [1 .. Cardinality(S) -> S]
      /\ \A x \in S : \E k \in 1 .. Cardinality(S) : s[k] = x
      /\ \A j, k \in 1 .. Cardinality(S) : <<s[j], s[k]>> \in R <=> j < k
  BY InOrderIs
<1> HIDE DEF s
<1>2. s \in Seq(S) /\ Len(s) = Cardinality(S)
  BY <1>1, ListIsSeq
<1>3. Entries(s) = S
  BY <1>1, <1>2 DEF Entries
<1>4. Distinct(s)
  <2> SUFFICES ASSUME NEW i \in 1 .. Len(s), NEW j \in 1 .. Len(s), s[i] = s[j] PROVE i = j
    BY DEF Distinct
  <2>1. <<s[i], s[j]>> \notin R /\ <<s[j], s[i]>> \notin R
    BY <1>1, <1>2 DEF StrictlyOrders
  <2>2. ~(i < j) /\ ~(j < i)
    BY <1>1, <1>2, <2>1
  <2> QED  BY <1>1, <1>2, <2>2
<1>5. \A x, y : Ahead(s, x, y) <=> x \in S /\ y \in S /\ <<x, y>> \in R
  BY <1>1, <1>2 DEF Ahead
<1> QED  BY <1>2, <1>3, <1>4, <1>5 DEF s
=============================================================================
