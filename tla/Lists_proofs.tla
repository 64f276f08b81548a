----------------------------- MODULE Lists_proofs -----------------------------
(***************************************************************************)
(* Lemmas about Lists, and about least and greatest numbers, for lists of  *)
(* any length.                                                             *)
(*                                                                         *)
(* The induction theorems of the library take the formula to be proved as  *)
(* an operator, which the backends cannot instantiate.  What they can cite *)
(* is WFMin, in which a set takes its place: the least element of the set  *)
(* of counterexamples is the place where an induction fails.               *)
(***************************************************************************)
EXTENDS Lists, FiniteSets, FiniteSetTheorems, WellFoundedInduction, TLAPS

\* A nonempty set of naturals has a least element.
LEMMA LeastNatural ==
  ASSUME NEW T, T \subseteq Nat, T # {}
  PROVE  \E x \in T : \A y \in T : x <= y
<1> DEFINE R == OpToRel(<, Nat)
<1>1. IsWellFoundedOn(R, Nat)
  BY NatLessThanWellFounded
<1>2. PICK x \in T : \A y \in T : ~ (<<y, x>> \in R)
  <2> HIDE DEF R
  <2> QED
    BY <1>1, WFMin
<1>3. ASSUME NEW y \in T, y < x PROVE FALSE
  <2>1. <<y, x>> \in R
    BY <1>3 DEF OpToRel
  <2> QED
    BY <1>2, <2>1
<1> HIDE DEF R
<1> QED
  BY <1>3

\* Induction: a set that holds 0 and, with n, also n + 1 holds every natural.
LEMMA InductionOnSets ==
  ASSUME NEW S, 0 \in S, \A n \in Nat : n \in S => n + 1 \in S
  PROVE  \A n \in Nat : n \in S
<1> DEFINE T == Nat \ S
<1> SUFFICES ASSUME T # {} PROVE FALSE
  OBVIOUS
<1>1. PICK x \in T : \A y \in T : x <= y
  <2>1. T \subseteq Nat
    OBVIOUS
  <2> HIDE DEF T
  <2> QED
    BY <2>1, LeastNatural
<1>2. x # 0 /\ x - 1 \in Nat /\ ~ (x <= x - 1)
  OBVIOUS
<1>3. x - 1 \in S
  BY <1>1, <1>2
<1> QED
  BY <1>2, <1>3

\* What is built from base in n steps.
IsBuilt(g, S, base, n, step) ==
  g \in [0 .. n -> S] /\ g[0] = base /\ \A k \in 1 .. n : g[k] = step[k][g[k - 1]]

\* Whatever the steps are, something is built by them.
LEMMA RecursionUpTo ==
  ASSUME NEW S, NEW base \in S, NEW n \in Nat, NEW step \in [1 .. n -> [S -> S]]
  PROVE  \E g : IsBuilt(g, S, base, n, step)
<1> DEFINE Solves(g, m) == IsBuilt(g, S, base, m, step)
           Solvable == {m \in Nat : m <= n => \E g : Solves(g, m)}
<1>1. 0 \in Solvable
  <2>1. Solves([k \in 0 .. 0 |-> base], 0)
    BY DEF IsBuilt
  <2> QED
    BY <2>1
<1>2. ASSUME NEW m \in Nat, m \in Solvable PROVE m + 1 \in Solvable
  <2> SUFFICES ASSUME m + 1 <= n PROVE \E g : Solves(g, m + 1)
    OBVIOUS
  <2>1. PICK g : Solves(g, m)
    BY <1>2
  <2> DEFINE h == [k \in 0 .. m + 1 |-> IF k <= m THEN g[k] ELSE step[m + 1][g[m]]]
  <2>2. step[m + 1][g[m]] \in S
    BY <2>1 DEF IsBuilt
  <2>3. h \in [0 .. m + 1 -> S] /\ h[0] = base
    BY <2>1, <2>2 DEF IsBuilt
  <2>4. ASSUME NEW k \in 1 .. m + 1 PROVE h[k] = step[k][h[k - 1]]
    <3>1. CASE k <= m
      BY <2>1, <3>1 DEF IsBuilt
    <3>2. CASE k = m + 1
      BY <2>1, <3>2 DEF IsBuilt
    <3> QED
      BY <3>1, <3>2
  <2> QED
    BY <2>3, <2>4 DEF IsBuilt
<1>3. \A m \in Nat : m \in Solvable
  <2> HIDE DEF Solvable
  <2> QED
    BY <1>1, <1>2, InductionOnSets
<1> QED
  BY <1>3

\* A function on the first numbers is a list.
LEMMA FunctionIsList ==
  ASSUME NEW T, NEW n \in Nat, NEW f \in [1 .. n -> T]
  PROVE  f \in Seq(T) /\ Len(f) = n /\ DOMAIN f = 1 .. n
OBVIOUS

-----------------------------------------------------------------------------
(* Sums *)

\* The sums of what comes first in a list, for each length.
AreSums(sum, seq) ==
  /\ sum \in [0 .. Len(seq) -> Int] /\ sum[0] = 0
  /\ \A n \in 1 .. Len(seq) : sum[n] = sum[n - 1] + seq[n]

\* A sum is the last of the sums of what comes first.
LEMMA SumUnfolds ==
  ASSUME NEW seq \in Seq(Int)
  PROVE  \E sum : AreSums(sum, seq) /\ SumOf(seq) = sum[Len(seq)]
<1> DEFINE Is(f) == f = [n \in 0 .. Len(seq) |->
                           IF n = 0 THEN 0 ELSE f[n - 1] + seq[n]]
           step == [n \in 1 .. Len(seq) |-> [x \in Int |-> x + seq[n]]]
<1>1. Len(seq) \in Nat /\ step \in [1 .. Len(seq) -> [Int -> Int]]
  OBVIOUS
<1>2. PICK g : IsBuilt(g, Int, 0, Len(seq), step)
  <2> HIDE DEF step
  <2>1. 0 \in Int
    OBVIOUS
  <2> QED
    BY <1>1, <2>1, RecursionUpTo
<1>3. ASSUME NEW k \in 1 .. Len(seq) PROVE g[k] = g[k - 1] + seq[k]
  <2>1. seq[k] \in Int /\ k - 1 \in 0 .. Len(seq)
    OBVIOUS
  <2>2. step[k] = [x \in Int |-> x + seq[k]]
    OBVIOUS
  <2> HIDE DEF step
  <2> QED
    BY <2>1, <2>2, <1>2 DEF IsBuilt
<1>4. Is(g)
  <2> HIDE DEF step
  <2>1. g \in [0 .. Len(seq) -> Int] /\ g[0] = 0
    BY <1>2 DEF IsBuilt
  <2> QED
    BY <2>1, <1>3
<1> DEFINE sum == CHOOSE f : Is(f)
<1>5. Is(sum)
  BY <1>4, Zenon
<1>6. SumOf(seq) = sum[Len(seq)]
  BY DEF SumOf
<1> HIDE DEF sum
<1> DEFINE Integral == {n \in Nat : n <= Len(seq) => sum[n] \in Int}
<1>7. 0 \in Integral /\ \A n \in Nat : n \in Integral => n + 1 \in Integral
  BY <1>5, <1>1
<1>8. \A n \in Nat : n \in Integral
  <2> HIDE DEF Integral
  <2> QED
    BY <1>7, InductionOnSets
<1>9. AreSums(sum, seq)
  <2>1. sum[0] = 0 /\ \A n \in 1 .. Len(seq) : sum[n] = sum[n - 1] + seq[n]
    BY <1>1, <1>5
  <2>2. \A n \in 0 .. Len(seq) : sum[n] \in Int
    BY <1>1, <1>8
  <2>3. sum = [n \in 0 .. Len(seq) |-> sum[n]]
    BY <1>5
  <2>4. sum \in [0 .. Len(seq) -> Int]
    BY <2>2, <2>3
  <2> QED
    BY <2>1, <2>4 DEF AreSums
<1> QED
  BY <1>6, <1>9

\* A sum of integers is one.
LEMMA SumOfIntegers == ASSUME NEW seq \in Seq(Int) PROVE SumOf(seq) \in Int
BY SumUnfolds DEF AreSums

\* Sums in proportion: element by element, hence in all.
LEMMA SumProportional ==
  ASSUME NEW s \in Seq(Int), NEW t \in Seq(Int), Len(s) = Len(t),
         NEW a \in Int, NEW b \in Int, \A i \in 1 .. Len(s) : a * s[i] = b * t[i]
  PROVE  a * SumOf(s) = b * SumOf(t)
<1>1. PICK x : AreSums(x, s) /\ SumOf(s) = x[Len(s)]
  BY SumUnfolds
<1>2. PICK y : AreSums(y, t) /\ SumOf(t) = y[Len(t)]
  BY SumUnfolds
<1> DEFINE Fine == {n \in Nat : n <= Len(s) => a * x[n] = b * y[n]}
<1>3. 0 \in Fine
  BY <1>1, <1>2 DEF AreSums
<1>4. ASSUME NEW n \in Nat, n \in Fine PROVE n + 1 \in Fine
  <2> SUFFICES ASSUME n + 1 <= Len(s) PROVE a * x[n + 1] = b * y[n + 1]
    OBVIOUS
  <2>1. /\ x[n + 1] = x[n] + s[n + 1] /\ y[n + 1] = y[n] + t[n + 1]
        /\ x[n] \in Int /\ y[n] \in Int /\ s[n + 1] \in Int /\ t[n + 1] \in Int
    <3>1. n + 1 \in 1 .. Len(s) /\ n \in 0 .. Len(s) /\ (n + 1) - 1 = n
      OBVIOUS
    <3>2. s[n + 1] \in Int /\ t[n + 1] \in Int
      BY <3>1
    <3>3. x[n] \in Int /\ x[n + 1] = x[(n + 1) - 1] + s[n + 1]
      BY <1>1, <3>1 DEF AreSums
    <3>4. y[n] \in Int /\ y[n + 1] = y[(n + 1) - 1] + t[n + 1]
      BY <1>2, <3>1 DEF AreSums
    <3> QED
      BY <3>1, <3>2, <3>3, <3>4
  <2>2. a * x[n] = b * y[n] /\ a * s[n + 1] = b * t[n + 1]
    BY <1>4
  <2>3. \A u, v, c \in Int : c * (u + v) = c * u + c * v
    OBVIOUS
  <2>4. /\ a * (x[n] + s[n + 1]) = a * x[n] + a * s[n + 1]
        /\ b * (y[n] + t[n + 1]) = b * y[n] + b * t[n + 1]
    <3> DEFINE u == x[n]
               v == s[n + 1]
               w == y[n]
               z == t[n + 1]
    <3>1. u \in Int /\ v \in Int /\ w \in Int /\ z \in Int
      BY <2>1
    <3> HIDE DEF u, v, w, z
    <3>2. a * (u + v) = a * u + a * v /\ b * (w + z) = b * w + b * z
      BY <2>3, <3>1
    <3> QED
      BY <3>2 DEF u, v, w, z
  <2> QED
    BY <2>1, <2>2, <2>4
<1>5. \A n \in Nat : n \in Fine
  <2> HIDE DEF Fine
  <2> QED
    BY <1>3, <1>4, InductionOnSets
<1> QED
  BY <1>1, <1>2, <1>5 DEF AreSums

\* A sum grows with its elements.
LEMMA SumMonotone ==
  ASSUME NEW s \in Seq(Int), NEW t \in Seq(Int), Len(s) = Len(t),
         \A i \in 1 .. Len(s) : s[i] <= t[i]
  PROVE  SumOf(s) <= SumOf(t)
<1>1. PICK x : AreSums(x, s) /\ SumOf(s) = x[Len(s)]
  BY SumUnfolds
<1>2. PICK y : AreSums(y, t) /\ SumOf(t) = y[Len(t)]
  BY SumUnfolds
<1> DEFINE Fine == {n \in Nat : n <= Len(s) => x[n] <= y[n]}
<1>3. 0 \in Fine
  BY <1>1, <1>2 DEF AreSums
<1>4. ASSUME NEW n \in Nat, n \in Fine PROVE n + 1 \in Fine
  <2> SUFFICES ASSUME n + 1 <= Len(s) PROVE x[n + 1] <= y[n + 1]
    OBVIOUS
  <2>1. /\ x[n + 1] = x[n] + s[n + 1] /\ y[n + 1] = y[n] + t[n + 1]
        /\ x[n] \in Int /\ y[n] \in Int /\ s[n + 1] \in Int /\ t[n + 1] \in Int
    <3>1. n + 1 \in 1 .. Len(s) /\ n \in 0 .. Len(s) /\ (n + 1) - 1 = n
      OBVIOUS
    <3>2. s[n + 1] \in Int /\ t[n + 1] \in Int
      BY <3>1
    <3>3. x[n] \in Int /\ x[n + 1] = x[(n + 1) - 1] + s[n + 1]
      BY <1>1, <3>1 DEF AreSums
    <3>4. y[n] \in Int /\ y[n + 1] = y[(n + 1) - 1] + t[n + 1]
      BY <1>2, <3>1 DEF AreSums
    <3> QED
      BY <3>1, <3>2, <3>3, <3>4
  <2>2. x[n] <= y[n] /\ s[n + 1] <= t[n + 1]
    BY <1>4
  <2> QED
    BY <2>1, <2>2
<1>5. \A n \in Nat : n \in Fine
  <2> HIDE DEF Fine
  <2> QED
    BY <1>3, <1>4, InductionOnSets
<1> QED
  BY <1>1, <1>2, <1>5 DEF AreSums

\* A sum of naturals is one.
LEMMA SumOfNaturals == ASSUME NEW seq \in Seq(Nat) PROVE SumOf(seq) \in Nat
<1> DEFINE zeros == [i \in 1 .. Len(seq) |-> 0]
<1>1. seq \in Seq(Int) /\ zeros \in Seq(Int) /\ Len(zeros) = Len(seq)
  OBVIOUS
<1>2. 1 * SumOf(zeros) = 0 * SumOf(zeros)
  <2> DEFINE one == 1
             none == 0
  <2>1. /\ one \in Int /\ none \in Int
        /\ \A i \in 1 .. Len(zeros) : one * zeros[i] = none * zeros[i]
    BY <1>1
  <2> HIDE DEF zeros, one, none
  <2>2. one * SumOf(zeros) = none * SumOf(zeros)
    BY <1>1, <2>1, SumProportional
  <2> QED
    BY <2>2 DEF one, none
<1>3. SumOf(zeros) <= SumOf(seq)
  <2>1. \A i \in 1 .. Len(zeros) : zeros[i] <= seq[i]
    BY <1>1
  <2> HIDE DEF zeros
  <2> QED
    BY <1>1, <2>1, SumMonotone
<1>4. SumOf(zeros) \in Int /\ SumOf(seq) \in Int
  BY <1>1, SumOfIntegers
<1> QED
  BY <1>2, <1>3, <1>4

\* A list of marks of one worth adds up to their number times it.
LEMMA SumOfMarks ==
  ASSUME NEW seq \in Seq(Int), NEW worth \in Int, NEW marked \in SUBSET (1 .. Len(seq)),
         \A i \in 1 .. Len(seq) : seq[i] = IF i \in marked THEN worth ELSE 0
  PROVE  Cardinality(marked) \in Nat /\ SumOf(seq) = worth * Cardinality(marked)
<1>1. PICK x : AreSums(x, seq) /\ SumOf(seq) = x[Len(seq)]
  BY SumUnfolds
<1> DEFINE Upto(n) == marked \cap (1 .. n)
           Fine == {n \in Nat : n <= Len(seq) =>
                      /\ IsFiniteSet(Upto(n)) /\ Cardinality(Upto(n)) \in Nat
                      /\ x[n] = worth * Cardinality(Upto(n))}
<1>2. 0 \in Fine
  <2>1. Upto(0) = {}
    OBVIOUS
  <2>2. IsFiniteSet(Upto(0)) /\ Cardinality(Upto(0)) = 0
    BY <2>1, FS_EmptySet
  <2>3. x[0] = 0 /\ worth * 0 = 0
    BY <1>1 DEF AreSums
  <2> QED
    BY <2>2, <2>3
<1>3. ASSUME NEW n \in Nat, n \in Fine PROVE n + 1 \in Fine
  <2> SUFFICES ASSUME n + 1 <= Len(seq)
               PROVE  /\ IsFiniteSet(Upto(n + 1)) /\ Cardinality(Upto(n + 1)) \in Nat
                      /\ x[n + 1] = worth * Cardinality(Upto(n + 1))
    OBVIOUS
  <2>1. n + 1 \in 1 .. Len(seq) /\ n \in 0 .. Len(seq) /\ (n + 1) - 1 = n
    OBVIOUS
  <2>2. x[n] \in Int /\ x[n + 1] = x[(n + 1) - 1] + seq[n + 1]
    BY <1>1, <2>1 DEF AreSums
  <2>3. /\ IsFiniteSet(Upto(n)) /\ Cardinality(Upto(n)) \in Nat
        /\ x[n] = worth * Cardinality(Upto(n))
    BY <1>3
  <2>4. CASE n + 1 \in marked
    <3>1. Upto(n + 1) = Upto(n) \cup {n + 1} /\ n + 1 \notin Upto(n)
      BY <2>4
    <3> DEFINE c == Cardinality(Upto(n))
    <3>2. /\ IsFiniteSet(Upto(n + 1))
          /\ Cardinality(Upto(n + 1)) = c + 1 /\ c \in Nat
      <4> HIDE DEF Upto
      <4> QED
        BY <2>3, <3>1, FS_AddElement
    <3>3. x[n + 1] = worth * c + worth
      BY <2>1, <2>2, <2>3, <2>4
    <3> HIDE DEF c
    <3>4. worth * (c + 1) = worth * c + worth
      <4>1. \A u \in Int, v \in Nat : u * (v + 1) = u * v + u
        OBVIOUS
      <4> QED
        BY <3>2, <4>1
    <3> QED
      BY <3>2, <3>3, <3>4
  <2>5. CASE n + 1 \notin marked
    <3>1. Upto(n + 1) = Upto(n)
      BY <2>5
    <3>2. x[n + 1] = x[n]
      BY <2>1, <2>2, <2>5
    <3> HIDE DEF Upto
    <3> QED
      BY <2>3, <3>1, <3>2
  <2> QED
    BY <2>4, <2>5
<1>4. \A n \in Nat : n \in Fine
  <2> HIDE DEF Fine
  <2> QED
    BY <1>2, <1>3, InductionOnSets
<1>5. Len(seq) \in Fine
  <2>1. Len(seq) \in Nat
    OBVIOUS
  <2> HIDE DEF Fine
  <2> QED
    BY <1>4, <2>1
<1>6. Upto(Len(seq)) = marked
  <2>1. \A i \in marked : i \in 1 .. Len(seq)
    OBVIOUS
  <2> QED
    BY <2>1
<1>7. Len(seq) \in Nat /\ Len(seq) <= Len(seq)
  OBVIOUS
<1> QED
  BY <1>1, <1>5, <1>6, <1>7

-----------------------------------------------------------------------------
(* Least and greatest *)

\* One of the numbers of a list that is not empty is the greatest.
LEMMA GreatestOfList ==
  ASSUME NEW s, NEW n \in Nat, n # 0, \A i \in 1 .. n : s[i] \in Int
  PROVE  \E i \in 1 .. n : \A j \in 1 .. n : s[j] <= s[i]
<1> DEFINE Fine == {m \in Nat : 0 < m /\ m <= n =>
                      \E i \in 1 .. m : \A j \in 1 .. m : s[j] <= s[i]}
<1>1. 0 \in Fine
  OBVIOUS
<1>2. ASSUME NEW m \in Nat, m \in Fine PROVE m + 1 \in Fine
  <2> SUFFICES ASSUME m + 1 <= n
               PROVE  \E i \in 1 .. m + 1 : \A j \in 1 .. m + 1 : s[j] <= s[i]
    OBVIOUS
  <2>1. CASE m = 0
    <3>1. \A j \in 1 .. m + 1 : j = 1 /\ s[j] <= s[1]
      BY <2>1
    <3> QED
      BY <3>1
  <2>2. CASE m # 0
    <3>1. PICK i \in 1 .. m : \A j \in 1 .. m : s[j] <= s[i]
      BY <1>2, <2>2
    <3> DEFINE k == IF s[i] <= s[m + 1] THEN m + 1 ELSE i
    <3>2. s[i] \in Int /\ s[m + 1] \in Int /\ k \in 1 .. m + 1
      OBVIOUS
    <3>3. ASSUME NEW j \in 1 .. m + 1 PROVE s[j] <= s[k]
      <4>1. s[j] \in Int /\ (j \in 1 .. m \/ j = m + 1)
        OBVIOUS
      <4> QED
        BY <3>1, <3>2, <4>1
    <3> QED
      BY <3>2, <3>3
  <2> QED
    BY <2>1, <2>2
<1>3. \A m \in Nat : m \in Fine
  <2> HIDE DEF Fine
  <2> QED
    BY <1>1, <1>2, InductionOnSets
<1> QED
  BY <1>3

\* Among the numbers of some indices one is the first of the least.
LEMMA FirstOfLeast ==
  ASSUME NEW n \in Nat, NEW I \in SUBSET (1 .. n), I # {}, NEW f, \A i \in I : f[i] \in Int
  PROVE  \E i \in I : \A j \in I : f[i] < f[j] \/ (f[i] = f[j] /\ i <= j)
<1>1. PICK w \in I : \A j \in I : f[w] <= f[j]
  <2>1. PICK k \in I : TRUE
    OBVIOUS
  <2> DEFINE down == [i \in 1 .. n |-> IF i \in I THEN 0 - f[i] ELSE 0 - f[k]]
  <2>2. \A i \in 1 .. n : down[i] \in Int
    BY <2>1
  <2>3. n # 0
    BY <2>1
  <2>4. PICK g \in 1 .. n : \A j \in 1 .. n : down[j] <= down[g]
    <3> HIDE DEF down
    <3> QED
      BY <2>2, <2>3, GreatestOfList
  <2> DEFINE w == IF g \in I THEN g ELSE k
  <2>5. w \in I /\ down[g] = 0 - f[w]
    BY <2>1
  <2>6. ASSUME NEW j \in I PROVE f[w] <= f[j]
    <3>1. down[j] <= down[g] /\ down[j] = 0 - f[j]
      BY <2>4
    <3>2. f[w] \in Int /\ f[j] \in Int
      BY <2>5
    <3> HIDE DEF w, down
    <3> QED
      BY <2>5, <3>1, <3>2
  <2> QED
    BY <2>5, <2>6
<1> DEFINE First == {i \in I : f[i] = f[w]}
<1>2. PICK i \in First : \A j \in First : i <= j
  <2>1. First \subseteq Nat /\ First # {}
    <3>1. \A i \in I : i \in 1 .. n
      OBVIOUS
    <3>2. \A i \in First : i \in Nat
      BY <3>1
    <3> QED
      BY <1>1, <3>2
  <2> HIDE DEF First
  <2> QED
    BY <2>1, LeastNatural
<1>3. ASSUME NEW j \in I PROVE f[i] < f[j] \/ (f[i] = f[j] /\ i <= j)
  <2>1. f[i] <= f[j] /\ f[i] \in Int /\ f[j] \in Int
    BY <1>1
  <2>2. f[i] = f[j] => i <= j
    BY <1>2
  <2> QED
    BY <2>1, <2>2
<1> QED
  BY <1>2, <1>3

\* One of the numbers of a finite set that is not empty is the greatest.
LEMMA GreatestOfSet ==
  ASSUME NEW S \in SUBSET Int, S # {}, IsFiniteSet(S)
  PROVE  \E x \in S : \A y \in S : y <= x
<1> DEFINE n == Cardinality(S)
<1>1. n \in Nat /\ n # 0
  <2>1. Cardinality(S) \in Nat
    BY FS_CardinalityType
  <2>2. Cardinality(S) # 0
    BY FS_EmptySet
  <2> QED
    BY <2>1, <2>2
<1>2. PICK s : s \in Bijection(1 .. n, S)
  BY FS_CardinalityType DEF ExistsBijection
<1> HIDE DEF n
<1>3. s \in [1 .. n -> S] /\ \A y \in S : \E j \in 1 .. n : s[j] = y
  BY <1>2 DEF Bijection, Surjection, Injection
<1>4. PICK i \in 1 .. n : \A j \in 1 .. n : s[j] <= s[i]
  <2>1. \A i \in 1 .. n : s[i] \in Int
    BY <1>3
  <2> QED
    BY <1>1, <2>1, GreatestOfList
<1> QED
  BY <1>3, <1>4

-----------------------------------------------------------------------------
(* Picking *)

\* The list p holds the elements of seq at the indices that h gives, which
\* are those in kept, in their order.
IsPick(h, p, seq, kept, n) ==
  /\ h \in [1 .. Len(p) -> kept \cap (1 .. n)]
  /\ \A i \in 1 .. Len(p) : p[i] = seq[h[i]]
  /\ \A i \in 1 .. Len(p) : \A j \in 1 .. Len(p) : i < j => h[i] < h[j]
  /\ \A k \in kept \cap (1 .. n) : \E i \in 1 .. Len(p) : h[i] = k

\* What is picked of what comes first in a list, for each length.
ArePicks(upTo, seq, kept, S) ==
  /\ upTo \in [0 .. Len(seq) -> S] /\ upTo[0] = << >>
  /\ \A n \in 1 .. Len(seq) :
       upTo[n] = IF n \in kept THEN Append(upTo[n - 1], seq[n]) ELSE upTo[n - 1]

\* What is picked is the last of what is picked of what comes first.
LEMMA PickUnfolds ==
  ASSUME NEW T, NEW seq \in Seq(T), NEW kept
  PROVE  \E upTo : ArePicks(upTo, seq, kept, Seq(T)) /\ Picked(seq, kept) = upTo[Len(seq)]
<1> DEFINE S == Seq(T)
           Is(f) == f = [n \in 0 .. Len(seq) |->
                           IF n = 0 THEN << >>
                           ELSE IF n \in kept THEN Append(f[n - 1], seq[n])
                           ELSE f[n - 1]]
           step == [n \in 1 .. Len(seq) |->
                      [p \in S |-> IF n \in kept THEN Append(p, seq[n]) ELSE p]]
<1>1. Len(seq) \in Nat /\ << >> \in S
  OBVIOUS
<1>2. step \in [1 .. Len(seq) -> [S -> S]]
  <2>1. \A n \in 1 .. Len(seq) : seq[n] \in T
    OBVIOUS
  <2>2. \A p \in S, x \in T : Append(p, x) \in S
    OBVIOUS
  <2> HIDE DEF S
  <2> QED
    BY <2>1, <2>2
<1>3. PICK g : IsBuilt(g, S, << >>, Len(seq), step)
  <2> HIDE DEF step, S
  <2> QED
    BY <1>1, <1>2, RecursionUpTo
<1> HIDE DEF S
<1>4. ASSUME NEW k \in 1 .. Len(seq)
      PROVE  g[k] = IF k \in kept THEN Append(g[k - 1], seq[k]) ELSE g[k - 1]
  <2>1. k - 1 \in 0 .. Len(seq)
    BY <1>1
  <2>2. step[k] = [p \in S |-> IF k \in kept THEN Append(p, seq[k]) ELSE p]
    OBVIOUS
  <2> HIDE DEF step
  <2>3. g[k] = step[k][g[k - 1]] /\ g[k - 1] \in S
    BY <2>1, <1>3 DEF IsBuilt
  <2> QED
    BY <2>2, <2>3
<1>5. g \in [0 .. Len(seq) -> S] /\ g[0] = << >>
  <2> HIDE DEF step
  <2> QED
    BY <1>3 DEF IsBuilt
<1>6. Is(g)
  <2> HIDE DEF step
  <2>1. \A n \in 0 .. Len(seq) : n = 0 \/ n \in 1 .. Len(seq)
    BY <1>1
  <2>2. \A n \in 0 .. Len(seq) :
          g[n] = IF n = 0 THEN << >>
                 ELSE IF n \in kept THEN Append(g[n - 1], seq[n])
                 ELSE g[n - 1]
    BY <2>1, <1>1, <1>4, <1>5
  <2>3. g = [n \in 0 .. Len(seq) |-> g[n]]
    BY <1>5
  <2> QED
    BY <2>2, <2>3, Zenon
<1> HIDE DEF step
<1> DEFINE upTo == CHOOSE f : Is(f)
<1>7. Is(upTo)
  BY <1>6, Zenon
<1>8. Picked(seq, kept) = upTo[Len(seq)]
  BY DEF Picked
<1> HIDE DEF upTo
<1>9. /\ upTo = [n \in 0 .. Len(seq) |-> upTo[n]] /\ upTo[0] = << >>
      /\ \A n \in 1 .. Len(seq) :
           upTo[n] = IF n \in kept THEN Append(upTo[n - 1], seq[n]) ELSE upTo[n - 1]
  <2>1. \A n \in 0 .. Len(seq) :
          upTo[n] = IF n = 0 THEN << >>
                    ELSE IF n \in kept THEN Append(upTo[n - 1], seq[n])
                    ELSE upTo[n - 1]
    BY <1>7, Zenon
  <2>2. 0 \in 0 .. Len(seq) /\ \A n \in 1 .. Len(seq) : n # 0 /\ n \in 0 .. Len(seq)
    BY <1>1
  <2>3. upTo = [n \in 0 .. Len(seq) |-> upTo[n]]
    BY <1>7, Zenon
  <2> QED
    BY <2>1, <2>2, <2>3
<1> HIDE DEF Is
<1> DEFINE Same == {n \in Nat : n <= Len(seq) => upTo[n] = g[n]}
<1>10. 0 \in Same
  BY <1>9, <1>5
<1>11. ASSUME NEW n \in Nat, n \in Same PROVE n + 1 \in Same
  <2> SUFFICES ASSUME n + 1 <= Len(seq) PROVE upTo[n + 1] = g[n + 1]
    OBVIOUS
  <2>1. n + 1 \in 1 .. Len(seq) /\ (n + 1) - 1 = n
    BY <1>1
  <2>2. upTo[n] = g[n]
    BY <1>1, <1>11
  <2> QED
    BY <2>1, <2>2, <1>4, <1>9
<1>12. \A n \in Nat : n \in Same
  <2> HIDE DEF Same
  <2> QED
    BY <1>10, <1>11, InductionOnSets
<1>13. \A n \in 0 .. Len(seq) : upTo[n] \in S
  BY <1>1, <1>5, <1>12
<1>14. ArePicks(upTo, seq, kept, S)
  BY <1>9, <1>13 DEF ArePicks
<1> QED
  BY <1>8, <1>14 DEF S

\* Picking keeps the elements at the kept indices, in their order.
LEMMA PickedKeepsOrder ==
  ASSUME NEW T, NEW seq \in Seq(T), NEW kept
  PROVE  /\ Picked(seq, kept) \in Seq(T)
         /\ \E h : IsPick(h, Picked(seq, kept), seq, kept, Len(seq))
<1>1. PICK upTo : ArePicks(upTo, seq, kept, Seq(T)) /\ Picked(seq, kept) = upTo[Len(seq)]
  BY PickUnfolds
<1>2. Len(seq) \in Nat
  OBVIOUS
<1> DEFINE Fine == {n \in Nat : n <= Len(seq) => \E h : IsPick(h, upTo[n], seq, kept, n)}
<1>3. 0 \in Fine
  <2>1. upTo[0] = << >> /\ kept \cap (1 .. 0) = {} /\ Len(<< >>) = 0
    BY <1>1, <1>2 DEF ArePicks
  <2>2. IsPick([i \in 1 .. 0 |-> 0], upTo[0], seq, kept, 0)
    BY <2>1 DEF IsPick
  <2> QED
    BY <2>2
<1>4. ASSUME NEW n \in Nat, n \in Fine PROVE n + 1 \in Fine
  <2> SUFFICES ASSUME n + 1 <= Len(seq)
               PROVE  \E h : IsPick(h, upTo[n + 1], seq, kept, n + 1)
    OBVIOUS
  <2> DEFINE p == upTo[n]
             q == upTo[n + 1]
  <2>1. n + 1 \in 1 .. Len(seq) /\ n \in 0 .. Len(seq) /\ (n + 1) - 1 = n
    BY <1>2
  <2>2. /\ p \in Seq(T) /\ seq[n + 1] \in T
        /\ q = IF n + 1 \in kept THEN Append(p, seq[n + 1]) ELSE p
    BY <1>1, <2>1 DEF ArePicks
  <2>3. PICK h : IsPick(h, p, seq, kept, n)
    BY <1>2, <1>4
  <2> HIDE DEF p, q
  <2>4. CASE n + 1 \notin kept
    <3>1. kept \cap (1 .. n + 1) = kept \cap (1 .. n)
      BY <2>4
    <3>2. IsPick(h, q, seq, kept, n + 1)
      BY <2>2, <2>3, <2>4, <3>1 DEF IsPick
    <3> QED
      BY <3>2 DEF q
  <2>5. CASE n + 1 \in kept
    <3> DEFINE m == Len(p)
               f == [i \in 1 .. m + 1 |-> IF i <= m THEN h[i] ELSE n + 1]
    <3>1. /\ m \in Nat /\ Len(q) = m + 1 /\ q[m + 1] = seq[n + 1]
          /\ \A i \in 1 .. m : q[i] = p[i]
      BY <2>2, <2>5
    <3>2. /\ h \in [1 .. m -> kept \cap (1 .. n)] /\ \A i \in 1 .. m : p[i] = seq[h[i]]
          /\ \A i \in 1 .. m : \A j \in 1 .. m : i < j => h[i] < h[j]
          /\ \A k \in kept \cap (1 .. n) : \E i \in 1 .. m : h[i] = k
      BY <2>3 DEF IsPick
    <3>3. kept \cap (1 .. n + 1) = (kept \cap (1 .. n)) \cup {n + 1}
      BY <2>5
    <3> HIDE DEF m
    <3>4. f \in [1 .. m + 1 -> kept \cap (1 .. n + 1)]
      BY <3>1, <3>2, <3>3
    <3>5. \A i \in 1 .. m + 1 : q[i] = seq[f[i]]
      BY <3>1, <3>2
    <3>6. \A i \in 1 .. m + 1 : \A j \in 1 .. m + 1 : i < j => f[i] < f[j]
      <4> SUFFICES ASSUME NEW i \in 1 .. m + 1, NEW j \in 1 .. m + 1, i < j PROVE f[i] < f[j]
        OBVIOUS
      <4>1. i \in 1 .. m /\ h[i] \in 1 .. n
        BY <3>1, <3>2
      <4>2. CASE j = m + 1
        BY <3>1, <4>1, <4>2
      <4>3. CASE j \in 1 .. m
        BY <3>1, <3>2, <4>1, <4>3
      <4> QED
        BY <3>1, <4>2, <4>3
    <3>7. \A k \in kept \cap (1 .. n + 1) : \E i \in 1 .. m + 1 : f[i] = k
      <4>1. \A i \in 1 .. m : i \in 1 .. m + 1 /\ f[i] = h[i]
        BY <3>1
      <4>2. m + 1 \in 1 .. m + 1 /\ f[m + 1] = n + 1
        BY <3>1
      <4> HIDE DEF f
      <4> QED
        BY <3>2, <3>3, <4>1, <4>2
    <3>8. IsPick(f, q, seq, kept, n + 1)
      <4> HIDE DEF f
      <4> QED
        BY <3>1, <3>4, <3>5, <3>6, <3>7 DEF IsPick
    <3> QED
      BY <3>8 DEF q
  <2> QED
    BY <2>4, <2>5
<1>5. \A n \in Nat : n \in Fine
  <2> HIDE DEF Fine
  <2> QED
    BY <1>3, <1>4, InductionOnSets
<1>6. Len(seq) <= Len(seq) /\ Len(seq) \in 0 .. Len(seq)
  BY <1>2
<1> QED
  BY <1>1, <1>2, <1>5, <1>6 DEF ArePicks
=============================================================================
