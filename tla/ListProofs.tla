------------------------------ MODULE ListProofs ------------------------------
(***************************************************************************)
(* Lemmas about numbers, folds and orders, for sequences of every length.  *)
(*                                                                         *)
(* What a fold computes takes an induction over the length of a sequence.  *)
(* It is done on sets of numbers, by the least number for which a fact     *)
(* would fail.                                                             *)
(***************************************************************************)
EXTENDS Lists, SequencesExt, SequenceTheorems, FiniteSetTheorems,
        FunctionTheorems, WellFoundedInduction, TLAPS

-----------------------------------------------------------------------------
(* Numbers *)

\* Every set of natural numbers that is not empty has a least one.
LEMMA LeastNumber ==
    ASSUME NEW S \in SUBSET Nat, S # {}
    PROVE  \E n \in S : \A m \in S : n <= m
<1> DEFINE R == OpToRel(<, Nat)
<1>1. IsWellFoundedOn(R, Nat)
  BY NatLessThanWellFounded
<1>2. \A x, y \in Nat : x < y => <<x, y>> \in R
  BY DEF OpToRel
<1> HIDE DEF R
<1>3. PICK n \in S : \A m \in S : <<m, n>> \notin R
  BY <1>1, WFMin
<1>4. n \in Nat /\ \A m \in S : m \in Nat
  OBVIOUS
<1>5. \A m \in S : ~ (m < n)
  BY <1>2, <1>3, <1>4
<1>6. \A m \in S : n <= m
  BY <1>4, <1>5
<1>7. QED
  BY <1>6

\* It is its minimum.
LEMMA MinIs ==
    ASSUME NEW S \in SUBSET Nat, S # {}
    PROVE  Min(S) \in S /\ \A n \in S : Min(S) <= n
  BY LeastNumber DEF Min

\* A set of numbers with an upper bound has a maximum.
LEMMA MaxOfBounded ==
    ASSUME NEW n \in Nat, NEW s \in SUBSET (1..n), s # {}
    PROVE  Max(s) \in s /\ \A x \in s : x <= Max(s)
<1> DEFINE B == {k \in Nat : \A x \in s : x <= k}
<1>1. n \in B
  OBVIOUS
<1>2. PICK m \in B : \A k \in B : m <= k
  BY <1>1, LeastNumber
<1>3. m \in s
  <2>1. SUFFICES ASSUME m \notin s PROVE FALSE
    OBVIOUS
  <2>2. \A x \in s : x \in Int /\ 1 <= x /\ x <= m /\ x # m
    BY <1>2, <2>1
  <2>3. m \in Nat /\ m # 0
    <3>1. m \in Nat
      OBVIOUS
    <3>2. PICK x \in s : TRUE
      OBVIOUS
    <3>3. QED
      BY <2>2, <3>1, <3>2
  <2>4. m - 1 \in B
    BY <2>2, <2>3
  <2>5. QED
    BY <1>2, <2>3, <2>4
<1>4. \E x \in s : \A y \in s : x >= y
  <2>1. \A y \in s : m >= y
    BY <1>2
  <2>2. QED
    BY <1>3, <2>1
<1>5. Max(s) \in s /\ \A y \in s : Max(s) >= y
  BY <1>4 DEF Max
<1>6. \A y \in s : y \in Int
  OBVIOUS
<1>7. QED
  BY <1>5, <1>6

\* So removing the maximum leaves numbers below it.
LEMMA BelowMax ==
    ASSUME NEW n \in Nat, NEW s \in SUBSET (1..n), s # {}
    PROVE  /\ Max(s) \in 1..n
           /\ s \ {Max(s)} \in SUBSET (1..(Max(s) - 1))
<1>1. Max(s) \in s /\ \A x \in s : x <= Max(s)
  BY MaxOfBounded
<1>2. Max(s) \in 1..n
  BY <1>1
<1>3. \A x \in s \ {Max(s)} : x \in 1..(Max(s) - 1)
  BY <1>1, <1>2
<1>4. QED
  BY <1>2, <1>3

\* A set below n that holds n has it for its maximum.
LEMMA MaxIsBound ==
    ASSUME NEW n \in Nat, NEW s \in SUBSET (1..n), n \in s
    PROVE  Max(s) = n
<1>1. Max(s) \in s /\ \A x \in s : x <= Max(s)
  BY MaxOfBounded
<1>2. Max(s) \in 1..n /\ n <= Max(s)
  BY <1>1
<1>3. QED
  BY <1>2

-----------------------------------------------------------------------------
(* Folds *)

\* f is the function a fold is computed by: f[s] folds the elements at s, where F[i]
\* is what the i-th does to the others' result.
Accumulates(f, base, F, n) ==
    f = [s \in SUBSET (1..n) |->
            IF s = {} THEN base ELSE F[Max(s)][f[s \ {Max(s)}]]]

\* There is one, for sequences of every length.
LEMMA AccumulatorExists ==
    ASSUME NEW A, NEW base \in A, NEW n \in Nat, NEW F \in [1..n -> [A -> A]]
    PROVE  \E f \in [SUBSET (1..n) -> A] : Accumulates(f, base, F, n)
<1> DEFINE Without == {k \in 0..n : ~ \E f \in [SUBSET (1..k) -> A] : Accumulates(f, base, F, k)}
<1>1. SUFFICES Without = {}
  <2>1. n \in 0..n
    OBVIOUS
  <2>2. QED
    BY <1>1, <2>1
<1>2. SUFFICES ASSUME Without # {} PROVE FALSE
  OBVIOUS
<1>3. PICK k \in Without : \A j \in Without : k <= j
  <2>1. Without \in SUBSET Nat
    OBVIOUS
  <2>2. QED
    BY <1>2, <2>1, LeastNumber
<1>4. CASE k = 0
  <2> DEFINE f == [s \in SUBSET (1..0) |-> base]
  <2>1. \A s \in SUBSET (1..0) : s = {}
    OBVIOUS
  <2>2. Accumulates(f, base, F, 0)
    BY <2>1 DEF Accumulates
  <2>3. f \in [SUBSET (1..0) -> A]
    OBVIOUS
  <2>4. QED
    BY <1>3, <1>4, <2>2, <2>3
<1>5. CASE k # 0
  <2>1. k \in Nat /\ k - 1 \in 0..n /\ k \in 1..n /\ ~(k <= k - 1)
    BY <1>5
  <2>2. PICK f \in [SUBSET (1..(k - 1)) -> A] : Accumulates(f, base, F, k - 1)
    BY <1>3, <2>1
  <2> DEFINE g == [s \in SUBSET (1..k) |->
                      IF k \in s THEN F[k][f[s \ {k}]] ELSE f[s]]
  <2>3. ASSUME NEW s \in SUBSET (1..k)
        PROVE  IF k \in s THEN s \ {k} \in SUBSET (1..(k - 1))
                          ELSE s \in SUBSET (1..(k - 1))
    BY <2>1
  <2>4. g \in [SUBSET (1..k) -> A]
    BY <2>1, <2>3
  <2>5. ASSUME NEW s \in SUBSET (1..k)
        PROVE  g[s] = IF s = {} THEN base ELSE F[Max(s)][g[s \ {Max(s)}]]
    <3>1. CASE k \in s
      <4>1. Max(s) = k
        BY <2>1, <3>1, MaxIsBound
      <4>2. s \ {k} \in SUBSET (1..k) /\ k \notin s \ {k} /\ s # {}
        BY <3>1
      <4>3. g[s \ {k}] = f[s \ {k}]
        BY <4>2
      <4>4. g[s] = F[k][f[s \ {k}]]
        BY <3>1
      <4>5. QED
        BY <4>1, <4>2, <4>3, <4>4
    <3>2. CASE k \notin s
      <4>1. s \in SUBSET (1..(k - 1))
        BY <2>3, <3>2
      <4>2. f[s] = IF s = {} THEN base ELSE F[Max(s)][f[s \ {Max(s)}]]
        BY <2>2, <4>1 DEF Accumulates
      <4>3. g[s] = f[s] /\ g[s \ {Max(s)}] = f[s \ {Max(s)}]
        BY <3>2
      <4>4. QED
        BY <4>2, <4>3
    <3>3. QED
      BY <3>1, <3>2
  <2>6. Accumulates(g, base, F, k)
    BY <2>5 DEF Accumulates
  <2>7. QED
    BY <1>3, <2>4, <2>6
<1>6. QED
  BY <1>4, <1>5

\* The maximum of the first k numbers is k, and without it they are the first k - 1.
LEMMA PrefixMax ==
    ASSUME NEW k \in Nat \ {0}
    PROVE  1..k # {} /\ Max(1..k) = k /\ 1..k \ {Max(1..k)} = 1..(k - 1)
<1>1. k \in 1..k
  OBVIOUS
<1>2. Max(1..k) = k
  BY <1>1, MaxIsBound
<1>3. \A i \in Int : i \in 1..k /\ i # k <=> i \in 1..(k - 1)
  OBVIOUS
<1>4. QED
  BY <1>1, <1>2, <1>3

-----------------------------------------------------------------------------
(* Orders *)

\* R is a strict total order on S.
Orders(R, S) ==
    /\ \A i \in S : <<i, i>> \notin R
    /\ \A i, j \in S : i = j \/ <<i, j>> \in R \/ <<j, i>> \in R
    /\ \A i, j, k \in S : <<i, j>> \in R /\ <<j, k>> \in R => <<i, k>> \in R

\* How many elements come before this one.
Rank(S, R, i) == Cardinality({j \in S : <<j, i>> \in R})

\* Those before the earlier of two elements are also before the later one.
LEMMA RankGrows ==
    ASSUME NEW S, IsFiniteSet(S), NEW R, Orders(R, S),
           NEW i \in S, NEW j \in S, <<i, j>> \in R
    PROVE  Rank(S, R, i) < Rank(S, R, j)
<1> DEFINE A == {k \in S : <<k, i>> \in R}
           B == {k \in S : <<k, j>> \in R}
<1>1. A \in SUBSET B /\ i \in B /\ i \notin A
  BY DEF Orders
<1>2. IsFiniteSet(B) /\ B \in SUBSET S
  BY FS_Subset
<1>3. IsFiniteSet(A) /\ Cardinality(A) <= Cardinality(B)
      /\ (Cardinality(B) = Cardinality(A) => A = B)
  BY <1>1, <1>2, FS_Subset
<1>4. Cardinality(A) \in Nat /\ Cardinality(B) \in Nat
  BY <1>2, <1>3, FS_CardinalityType
<1>5. Cardinality(A) < Cardinality(B)
  BY <1>1, <1>3, <1>4
<1>6. QED
  BY <1>5 DEF Rank

\* An element comes before itself no more than before any other.
LEMMA RankType ==
    ASSUME NEW S, IsFiniteSet(S), NEW R, Orders(R, S), NEW i \in S
    PROVE  Rank(S, R, i) \in 0..(Cardinality(S) - 1)
<1> DEFINE A == {j \in S : <<j, i>> \in R}
<1>1. A \in SUBSET S /\ i \notin A
  BY DEF Orders
<1>2. IsFiniteSet(A) /\ Cardinality(A) <= Cardinality(S)
      /\ (Cardinality(S) = Cardinality(A) => S = A)
  BY <1>1, FS_Subset
<1>3. Cardinality(A) \in Nat /\ Cardinality(S) \in Nat
  BY <1>2, FS_CardinalityType
<1>4. Cardinality(A) # Cardinality(S)
  BY <1>1, <1>2
<1>5. QED
  BY <1>2, <1>3, <1>4 DEF Rank

\* There is one element for each number of elements before it.
LEMMA RankBijective ==
    ASSUME NEW S, IsFiniteSet(S), NEW R, Orders(R, S),
           NEW k \in 1..Cardinality(S)
    PROVE  \E i \in S : Rank(S, R, i) = k - 1
<1> DEFINE n == Cardinality(S)
           T == 0..(n - 1)
           f == [i \in S |-> Rank(S, R, i)]
<1>1. n \in Nat
  BY FS_CardinalityType
<1> HIDE DEF n
<1>2. f \in [S -> T]
  BY RankType DEF n
<1>3. \A i, j \in S : i # j => f[i] # f[j]
  <2>1. SUFFICES ASSUME NEW i \in S, NEW j \in S, i # j PROVE f[i] # f[j]
    OBVIOUS
  <2>2. Rank(S, R, i) \in Int /\ Rank(S, R, j) \in Int
    BY RankType
  <2>3. <<i, j>> \in R \/ <<j, i>> \in R
    BY <2>1 DEF Orders
  <2>4. Rank(S, R, i) < Rank(S, R, j) \/ Rank(S, R, j) < Rank(S, R, i)
    BY <2>3, RankGrows
  <2>5. QED
    BY <2>2, <2>4
<1>4. f \in Injection(S, T)
  BY <1>2, <1>3 DEF Injection, IsInjective
<1>5. IsFiniteSet(T) /\ Cardinality(T) = n
  <2>1. /\ IsFiniteSet(0..(n - 1))
        /\ Cardinality(0..(n - 1)) = IF 0 > n - 1 THEN 0 ELSE (n - 1) - 0 + 1
    BY <1>1, FS_Interval
  <2>2. QED
    BY <1>1, <2>1
<1>6. f \in Surjection(S, T)
  BY <1>4, <1>5, FS_Injection DEF n
<1>7. k - 1 \in T
  BY <1>1 DEF n
<1>8. QED
  BY <1>6, <1>7 DEF Surjection

\* A list with k - 1 elements before the k-th holds every element, after those
\* that come before it.
LEMMA SortedIs ==
    ASSUME NEW S, IsFiniteSet(S), NEW R, Orders(R, S),
           NEW list \in [1..Cardinality(S) -> S],
           \A k \in 1..Cardinality(S) : Rank(S, R, list[k]) = k - 1
    PROVE  /\ \A i \in S : /\ Rank(S, R, i) + 1 \in 1..Cardinality(S)
                           /\ list[Rank(S, R, i) + 1] = i
           /\ \A k, l \in 1..Cardinality(S) :
                  k < l <=> <<list[k], list[l]>> \in R
<1> DEFINE n == Cardinality(S)
<1>1. n \in Nat
  BY FS_CardinalityType
<1>2. \A k \in 1..n : list[k] \in S /\ Rank(S, R, list[k]) = k - 1
  OBVIOUS
<1>4. ASSUME NEW i \in S, NEW j \in S
      PROVE  <<i, j>> \in R <=> Rank(S, R, i) < Rank(S, R, j)
  <2>1. Rank(S, R, i) \in Int /\ Rank(S, R, j) \in Int
    BY RankType
  <2>2. CASE i = j
    BY <2>1, <2>2 DEF Orders
  <2>3. CASE <<i, j>> \in R
    BY <2>3, RankGrows
  <2>4. CASE <<j, i>> \in R
    <3>1. Rank(S, R, j) < Rank(S, R, i)
      BY <2>4, RankGrows
    <3>2. <<i, j>> \notin R
      BY <2>4 DEF Orders
    <3>3. QED
      BY <2>1, <3>1, <3>2
  <2>5. QED
    BY <2>2, <2>3, <2>4 DEF Orders
<1> HIDE DEF n
<1>5. ASSUME NEW k \in 1..n, NEW l \in 1..n
      PROVE  k < l <=> <<list[k], list[l]>> \in R
  <2>1. k \in Int /\ l \in Int
    BY <1>1
  <2>2. Rank(S, R, list[k]) = k - 1 /\ Rank(S, R, list[l]) = l - 1
    BY <1>2
  <2>3. k - 1 < l - 1 <=> k < l
    BY <2>1
  <2>4. QED
    BY <1>2, <1>4, <2>2, <2>3
<1>6. ASSUME NEW i \in S
      PROVE  Rank(S, R, i) + 1 \in 1..n /\ list[Rank(S, R, i) + 1] = i
  <2> DEFINE k == Rank(S, R, i) + 1
  <2>1. Rank(S, R, i) \in 0..(n - 1)
    BY RankType DEF n
  <2>2. k \in 1..n /\ Rank(S, R, i) = k - 1
    BY <1>1, <2>1
  <2>3. list[k] \in S /\ Rank(S, R, list[k]) = Rank(S, R, i)
    BY <1>2, <2>2
  <2>4. Rank(S, R, i) \in Int
    BY <2>1
  <2>5. <<list[k], i>> \notin R /\ <<i, list[k]>> \notin R
    BY <1>4, <2>3, <2>4
  <2>6. QED
    BY <2>2, <2>3, <2>5 DEF Orders
<1>7. QED
  BY <1>5, <1>6 DEF n

Less(I) == {p \in I \X I : p[1] < p[2]}

\* Numbers are ordered by <.
LEMMA LessOrders ==
    ASSUME NEW I \in SUBSET Int
    PROVE  /\ Orders(Less(I), I)
           /\ \A i, j \in I : <<i, j>> \in Less(I) <=> i < j
<1>1. \A i, j \in I : <<i, j>> \in Less(I) <=> i < j
  BY DEF Less
<1>2. \A i \in I : i \in Int
  OBVIOUS
<1>3. QED
  BY <1>1, <1>2 DEF Orders

Earlier(I, i) == {j \in I : j < i}

Later(I, i) == {j \in I : j > i}

\* Picked keeps the elements at these positions, and their order.
LEMMA PickedIs ==
    ASSUME NEW T, NEW seq \in Seq(T), NEW I \in SUBSET DOMAIN seq
    PROVE  /\ Cardinality(I) \in Nat
           /\ \E at \in [1..Cardinality(I) -> I] :
                  /\ Picked(seq, I) = [k \in 1..Cardinality(I) |-> seq[at[k]]]
                  /\ \A k, l \in 1..Cardinality(I) : k < l <=> at[k] < at[l]
                  /\ \A k \in 1..Cardinality(I) :
                         Cardinality(Earlier(I, at[k])) = k - 1
                  /\ \A i \in I : \E k \in 1..Cardinality(I) : at[k] = i
<1>1. Len(seq) \in Nat /\ DOMAIN seq = 1..Len(seq)
  BY LenProperties
<1>2. I \in SUBSET Int
  BY <1>1
<1>3. IsFiniteSet(I)
  <2>1. IsFiniteSet(1..Len(seq))
    BY <1>1, FS_Interval
  <2>2. QED
    BY <1>1, <2>1, FS_Subset
<1> DEFINE n == Cardinality(I)
           R == Less(I)
           at == InOrder(I, <)
<1>4. \A i \in I : {j \in I : j < i} = {j \in I : <<j, i>> \in R}
  BY <1>2, LessOrders
<1>5. \A i \in I : Cardinality({j \in I : j < i}) = Rank(I, R, i)
  BY <1>4 DEF Rank
<1>6. Orders(R, I) /\ n \in Nat
  BY <1>2, <1>3, LessOrders, FS_CardinalityType
<1>7. /\ at \in [1..n -> I]
      /\ \A k \in 1..n : Rank(I, R, at[k]) = k - 1
  <2>1. ASSUME NEW k \in 1..n
        PROVE  at[k] \in I /\ Cardinality({j \in I : j < at[k]}) = k - 1
    <3>1. \E i \in I : Rank(I, R, i) = k - 1
      BY <1>3, <1>6, RankBijective
    <3>2. \E i \in I : Cardinality({j \in I : j < i}) = k - 1
      BY <1>5, <3>1
    <3>3. at[k] = CHOOSE i \in I : Cardinality({j \in I : j < i}) = k - 1
      BY DEF InOrder
    <3>4. QED
      BY <3>2, <3>3
  <2>2. at \in [1..n -> I]
    BY <2>1 DEF InOrder
  <2>3. QED
    BY <1>5, <2>1, <2>2
<1> HIDE DEF R, at
<1>8. /\ \A i \in I : Rank(I, R, i) + 1 \in 1..n /\ at[Rank(I, R, i) + 1] = i
      /\ \A k, l \in 1..n : k < l <=> <<at[k], at[l]>> \in R
  BY <1>3, <1>6, <1>7, SortedIs
<1>9. Picked(seq, I) = [k \in 1..n |-> seq[at[k]]]
  <2>1. DOMAIN at = 1..n
    BY <1>7
  <2>2. QED
    BY <2>1 DEF Picked, at
<1> HIDE DEF n
<1>10. \A k, l \in 1..n : k < l <=> at[k] < at[l]
  BY <1>2, <1>7, <1>8, LessOrders DEF R
<1>11. \A k \in 1..n : Cardinality(Earlier(I, at[k])) = k - 1
  BY <1>5, <1>7 DEF Earlier
<1>12. \A i \in I : \E k \in 1..n : at[k] = i
  BY <1>8
<1>13. QED
  BY <1>6, <1>7, <1>9, <1>10, <1>11, <1>12 DEF n

\* So nothing else is in what is picked, and nothing is left out.
LEMMA PickedSet ==
    ASSUME NEW T, NEW seq \in Seq(T), NEW I \in SUBSET DOMAIN seq
    PROVE  /\ Picked(seq, I) \in Seq(T)
           /\ Len(Picked(seq, I)) = Cardinality(I)
           /\ ToSet(Picked(seq, I)) = {seq[i] : i \in I}
<1> DEFINE n == Cardinality(I)
           list == Picked(seq, I)
<1>1. n \in Nat
  BY PickedIs
<1>2. PICK at \in [1..n -> I] :
          /\ list = [k \in 1..n |-> seq[at[k]]]
          /\ \A i \in I : \E k \in 1..n : at[k] = i
  BY PickedIs
<1>3. \A i \in I : seq[i] \in T
  <2>1. DOMAIN seq = 1..Len(seq)
    BY LenProperties
  <2>2. QED
    BY <2>1, ElementOfSeq
<1> HIDE DEF n, list
<1>4. list \in [1..n -> T]
  BY <1>2, <1>3
<1>5. list \in Seq(T) /\ Len(list) = n
  BY <1>1, <1>4, SeqDef, LenProperties
<1>6. ToSet(list) = {seq[i] : i \in I}
  <2>1. \A k \in 1..n : list[k] = seq[at[k]] /\ at[k] \in I
    BY <1>2
  <2>2. DOMAIN list = 1..n
    BY <1>4
  <2>3. QED
    BY <1>2, <2>1, <2>2 DEF ToSet
<1>7. QED
  BY <1>5, <1>6 DEF n, list

\* What is not before an element and is not that element is after it.
LEMMA LaterCount ==
    ASSUME NEW I \in SUBSET Int, IsFiniteSet(I), NEW i \in I
    PROVE  Cardinality(Later(I, i)) =
               Cardinality(I) - Cardinality(Earlier(I, i)) - 1
<1> DEFINE A == {j \in I : j < i}
           B == A \cup {i}
<1>1. i \in Int /\ \A j \in I : j \in Int
  OBVIOUS
<1>2. {j \in I : j > i} = I \ B /\ I \cap B = B /\ i \notin A
  <2>1. \A j \in I : j \in B <=> j < i \/ j = i
    OBVIOUS
  <2>2. \A j \in I : j > i <=> j \notin B
    BY <1>1, <2>1
  <2>3. B \in SUBSET I /\ i \notin A
    BY <1>1
  <2> HIDE DEF A, B
  <2>4. QED
    BY <2>2, <2>3
<1>3. A \in SUBSET I
  OBVIOUS
<1>4. IsFiniteSet(A)
  BY <1>3, FS_Subset
<1>5. Cardinality(A) \in Nat /\ Cardinality(I) \in Nat
  BY <1>4, FS_CardinalityType
<1>6. Cardinality(B) = Cardinality(A) + 1
  BY <1>2, <1>4, FS_AddElement
<1>7. Cardinality(I \ B) = Cardinality(I) - Cardinality(B)
  BY <1>2, FS_Difference
<1>8. Later(I, i) = I \ B /\ Earlier(I, i) = A
  BY <1>2 DEF Later, Earlier
<1> HIDE DEF A, B
<1>9. QED
  BY <1>2, <1>5, <1>6, <1>7, <1>8

\* A list without repetitions holds as many elements as it is long.
LEMMA DistinctCount ==
    ASSUME NEW T, NEW list \in Seq(T),
           \A k, l \in 1..Len(list) : k < l => list[k] # list[l]
    PROVE  Cardinality(ToSet(list)) = Len(list)
<1> DEFINE n == Len(list)
           D == 1..n
           S == ToSet(list)
<1>1. n \in Nat /\ DOMAIN list = D /\ list \in [D -> T]
  BY LenProperties
<1>2. list \in Surjection(D, S)
  BY <1>1 DEF Surjection, ToSet
<1>3. \A a, b \in D : list[a] = list[b] => a = b
  <2>1. \A a, b \in D : a \in Int /\ b \in Int
    OBVIOUS
  <2>2. QED
    BY <2>1
<1>4. list \in Injection(D, S)
  BY <1>1, <1>2, <1>3 DEF Surjection, Injection, IsInjective
<1>5. IsFiniteSet(D) /\ Cardinality(D) = n
  BY <1>1, FS_Interval
<1> HIDE DEF n, D, S
<1>6. Cardinality(S) = Cardinality(D)
  BY <1>2, <1>4, <1>5, FS_Surjection
<1>7. QED
  BY <1>5, <1>6 DEF n, S

\* Two lists, one after the other, hold what each of them holds.
LEMMA ConcatHolds ==
    ASSUME NEW T, NEW s \in Seq(T), NEW t \in Seq(T)
    PROVE  s \o t \in Seq(T) /\ ToSet(s \o t) = ToSet(s) \cup ToSet(t)
<1> DEFINE m == Len(s)
           n == Len(t)
           u == s \o t
<1>1. /\ m \in Nat /\ n \in Nat
      /\ DOMAIN s = 1..m /\ DOMAIN t = 1..n
  BY LenProperties
<1>2. /\ u \in Seq(T) /\ Len(u) = m + n
      /\ \A i \in 1..(m + n) : u[i] = IF i <= m THEN s[i] ELSE t[i - m]
  BY ConcatProperties
<1>3. DOMAIN u = 1..(m + n)
  BY <1>2, LenProperties
<1> HIDE DEF m, n, u
<1>4. ASSUME NEW i \in 1..(m + n)
      PROVE  u[i] \in ToSet(s) \cup ToSet(t)
  <2>1. CASE i <= m
    <3>1. i \in 1..m /\ u[i] = s[i]
      BY <1>1, <1>2, <2>1
    <3>2. QED
      BY <1>1, <3>1 DEF ToSet
  <2>2. CASE ~(i <= m)
    <3>1. i - m \in 1..n /\ u[i] = t[i - m]
      BY <1>1, <1>2, <2>2
    <3>2. QED
      BY <1>1, <3>1 DEF ToSet
  <2>3. QED
    BY <2>1, <2>2
<1>5. ASSUME NEW i \in 1..m PROVE s[i] \in ToSet(u)
  <2>1. i \in 1..(m + n) /\ i <= m
    BY <1>1
  <2>2. QED
    BY <1>2, <1>3, <2>1 DEF ToSet
<1>6. ASSUME NEW i \in 1..n PROVE t[i] \in ToSet(u)
  <2>1. m + i \in 1..(m + n) /\ ~(m + i <= m) /\ (m + i) - m = i
    BY <1>1
  <2>2. u[m + i] = t[i]
    BY <1>2, <2>1
  <2>3. QED
    BY <1>3, <2>1, <2>2 DEF ToSet
<1>7. ToSet(u) \subseteq ToSet(s) \cup ToSet(t)
  BY <1>3, <1>4 DEF ToSet
<1>8. ToSet(s) \subseteq ToSet(u) /\ ToSet(t) \subseteq ToSet(u)
  BY <1>1, <1>5, <1>6 DEF ToSet
<1>9. QED
  BY <1>2, <1>7, <1>8 DEF u
=============================================================================
