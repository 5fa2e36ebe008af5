----------------------------- MODULE ListsProofs -----------------------------
(***************************************************************************)
(* What the other proofs need of sequences, folds and sums: induction over *)
(* the natural numbers, sorting, filtering, removing, and a fold or a sum  *)
(* step by step.                                                           *)
(***************************************************************************)
EXTENDS Lists, FiniteSetTheorems, SequenceTheorems, WellFoundedInduction, TLAPS

-----------------------------------------------------------------------------
(* Sequences.                                                              *)

\* The elements of a sequence followed by another.
LEMMA CatOf ==
    ASSUME NEW S, NEW s \in Seq(S), NEW t \in Seq(S)
    PROVE  /\ s \o t \in Seq(S) /\ Len(s \o t) = Len(s) + Len(t)
           /\ \A i \in 1..Len(s) : (s \o t)[i] = s[i]
           /\ \A i \in 1..Len(t) : (s \o t)[Len(s) + i] = t[i]
OBVIOUS

\* Two sequences are equal if their elements are.
LEMMA SameSeq ==
    ASSUME NEW S, NEW s \in Seq(S), NEW t \in Seq(S), Len(s) = Len(t),
           \A i \in 1..Len(s) : s[i] = t[i]
    PROVE  s = t
BY SeqEqual

\* Two sequences, one after the other.
LEMMA ConcatLemma ==
    ASSUME NEW V, NEW a \in Seq(V), NEW b \in Seq(V)
    PROVE  /\ a \o b \in Seq(V)
           /\ Range(a \o b) = Range(a) \cup Range(b)
           /\ IsInjective(a) /\ IsInjective(b) /\ Range(a) \cap Range(b) = {}
                  => IsInjective(a \o b)
<1> DEFINE n == Len(a)
           k == Len(b)
           c == a \o b
<1>1. /\ n \in Nat /\ k \in Nat /\ DOMAIN a = 1..n /\ DOMAIN b = 1..k
      /\ c \in Seq(V) /\ DOMAIN c = 1..(n + k)
  OBVIOUS
<1>2. /\ \A i \in 1..n : c[i] = a[i]
      /\ \A i \in 1..k : c[n + i] = b[i]
  OBVIOUS
<1>3. \A i \in 1..(n + k) : i \in 1..n \/ \E j \in 1..k : i = n + j
  <2> SUFFICES ASSUME NEW i \in 1..(n + k), i \notin 1..n PROVE \E j \in 1..k : i = n + j
    OBVIOUS
  <2>1. i - n \in 1..k /\ i = n + (i - n)
    BY <1>1
  <2> QED
    BY <2>1
<1>4. /\ \A i \in 1..n : i \in 1..(n + k)
      /\ \A i \in 1..k : n + i \in 1..(n + k)
  BY <1>1
<1> HIDE DEF n, k, c
<1>5. Range(c) = Range(a) \cup Range(b)
  <2>1. ASSUME NEW i \in 1..(n + k) PROVE c[i] \in Range(a) \cup Range(b)
    <3>1. CASE i \in 1..n
      BY <1>1, <1>2, <3>1 DEF Range
    <3>2. CASE i \notin 1..n
      <4>1. PICK j \in 1..k : i = n + j
        BY <1>3, <3>2
      <4> QED
        BY <1>1, <1>2, <4>1 DEF Range
    <3> QED
      BY <3>1, <3>2
  <2>2. Range(a) \subseteq Range(c)
    BY <1>1, <1>2, <1>4 DEF Range
  <2>3. Range(b) \subseteq Range(c)
    BY <1>1, <1>2, <1>4 DEF Range
  <2>4. Range(c) = {c[i] : i \in 1..(n + k)}
    BY <1>1 DEF Range
  <2> QED
    BY <2>1, <2>2, <2>3, <2>4
<1>6. ASSUME IsInjective(a), IsInjective(b), Range(a) \cap Range(b) = {}
      PROVE  IsInjective(c)
  <2>1. \A i \in 1..n, j \in 1..k : a[i] # b[j]
    BY <1>1, <1>6 DEF Range
  <2>2. \A i, j \in 1..n : a[i] = a[j] => i = j
    BY <1>1, <1>6 DEF IsInjective
  <2>3. \A i, j \in 1..k : b[i] = b[j] => i = j
    BY <1>1, <1>6 DEF IsInjective
  <2> SUFFICES ASSUME NEW i \in 1..(n + k), NEW j \in 1..(n + k), c[i] = c[j] PROVE i = j
    BY <1>1 DEF IsInjective
  <2>4. CASE i \in 1..n /\ j \in 1..n
    BY <1>2, <2>2, <2>4
  <2>5. CASE i \notin 1..n /\ j \notin 1..n
    BY <1>2, <1>3, <2>3, <2>5
  <2>6. CASE i \in 1..n /\ j \notin 1..n
    BY <1>2, <1>3, <2>1, <2>6
  <2>7. CASE i \notin 1..n /\ j \in 1..n
    BY <1>2, <1>3, <2>1, <2>7
  <2> QED
    BY <2>4, <2>5, <2>6, <2>7
<1> QED
  BY <1>1, <1>5, <1>6 DEF c

-----------------------------------------------------------------------------
(* Sorting, filtering and removing.                                        *)

\* R orders S strictly and totally.
Orders(R, S) ==
    /\ \A x \in S : <<x, x>> \notin R
    /\ \A x, y, z \in S : <<x, y>> \in R /\ <<y, z>> \in R => <<x, z>> \in R
    /\ \A x, y \in S : x # y => <<x, y>> \in R \/ <<y, x>> \in R

\* 1..n has n elements.
LEMMA IntervalSize == \A n \in Nat : IsFiniteSet(1..n) /\ Cardinality(1..n) = n
BY FS_Interval

\* An injection between finite sets of the same size reaches every element.
LEMMA OntoBySize ==
    ASSUME NEW S, IsFiniteSet(S), NEW n \in Nat, Cardinality(S) = n,
           NEW f \in [1..n -> S], IsInjective(f)
    PROVE  Range(f) = S
<1>1. IsFiniteSet(1..n) /\ Cardinality(1..n) = n
  BY FS_Interval
<1>2. f \in Injection(1..n, S)
  BY DEF Injection
<1>3. f \in Surjection(1..n, S)
  BY <1>1, <1>2, FS_Injection
<1> QED
  BY <1>3 DEF Surjection, Range

\* The position of an element among those that come before it.
LEMMA RankStep ==
    ASSUME NEW S, IsFiniteSet(S), NEW R, Orders(R, S), NEW x \in S, NEW y \in S,
           <<x, y>> \in R
    PROVE  Cardinality({z \in S : <<z, x>> \in R}) < Cardinality({z \in S : <<z, y>> \in R})
<1> DEFINE X == {z \in S : <<z, x>> \in R}
           Y == {z \in S : <<z, y>> \in R}
<1>1. X \subseteq Y /\ x \in Y /\ x \notin X
  BY DEF Orders
<1>2. IsFiniteSet(X) /\ IsFiniteSet(Y)
  BY FS_Subset, X \in SUBSET S, Y \in SUBSET S
<1>3. Cardinality(X) <= Cardinality(Y) /\ Cardinality(X) # Cardinality(Y)
  BY <1>1, <1>2, FS_Subset, X \in SUBSET Y
<1>4. Cardinality(X) \in Nat /\ Cardinality(Y) \in Nat
  BY <1>2, FS_CardinalityType
<1> QED
  BY <1>3, <1>4

\* There are fewer of those than elements.
LEMMA RankBound ==
    ASSUME NEW S, IsFiniteSet(S), NEW R, Orders(R, S), NEW x \in S
    PROVE  Cardinality({z \in S : <<z, x>> \in R}) \in 0..(Cardinality(S) - 1)
<1> DEFINE X == {z \in S : <<z, x>> \in R}
<1>1. X \subseteq S /\ x \notin X
  BY DEF Orders
<1>2. IsFiniteSet(X)
  BY FS_Subset, X \in SUBSET S
<1>3. Cardinality(X) <= Cardinality(S) /\ Cardinality(X) # Cardinality(S)
  BY <1>1, FS_Subset, X \in SUBSET S
<1>4. Cardinality(X) \in Nat /\ Cardinality(S) \in Nat
  BY <1>2, FS_CardinalityType
<1> QED
  BY <1>3, <1>4

\* A finite ordered set can be listed in order.
LEMMA OrderExists ==
    ASSUME NEW S, IsFiniteSet(S), NEW R, Orders(R, S)
    PROVE  \E s \in [1..Cardinality(S) -> S] :
               \A i, j \in 1..Cardinality(S) : i < j => <<s[i], s[j]>> \in R
<1> DEFINE n == Cardinality(S)
           Rank(x) == Cardinality({z \in S : <<z, x>> \in R})
           rank == [x \in S |-> Rank(x) + 1]
<1>1. n \in Nat
  BY FS_CardinalityType
<1>2. \A x \in S : Rank(x) \in 0..(n - 1)
  BY RankBound
<1>3. \A x, y \in S : <<x, y>> \in R => Rank(x) < Rank(y)
  BY RankStep
<1> HIDE DEF n, Rank
<1>4. rank \in [S -> 1..n]
  BY <1>1, <1>2
<1>5. \A x, y \in S : rank[x] = rank[y] => x = y
  <2> SUFFICES ASSUME NEW x \in S, NEW y \in S, x # y PROVE rank[x] # rank[y]
    OBVIOUS
  <2>1. Rank(x) < Rank(y) \/ Rank(y) < Rank(x)
    BY <1>3 DEF Orders
  <2> QED
    BY <1>2, <2>1
<1>6. rank \in Injection(S, 1..n)
  BY <1>4, <1>5 DEF Injection, IsInjective
<1>7. IsFiniteSet(1..n) /\ Cardinality(1..n) = Cardinality(S)
  BY <1>1, FS_Interval DEF n
<1>8. rank \in Surjection(S, 1..n)
  BY <1>6, <1>7, FS_Injection
<1> DEFINE s == [k \in 1..n |-> CHOOSE x \in S : rank[x] = k]
<1>9. \A k \in 1..n : s[k] \in S /\ rank[s[k]] = k
  BY <1>8 DEF Surjection
<1>10. ASSUME NEW i \in 1..n, NEW j \in 1..n, i < j
       PROVE  <<s[i], s[j]>> \in R
  <2>1. s[i] # s[j] /\ s[i] \in S /\ s[j] \in S
    BY <1>9, <1>10
  <2>2. ~(rank[s[j]] < rank[s[i]])
    BY <1>9, <1>10
  <2> HIDE DEF s
  <2>3. <<s[j], s[i]>> \notin R
    BY <1>2, <1>3, <2>1, <2>2
  <2> QED
    BY <2>1, <2>3 DEF Orders
<1> QED
  <2>1. s \in [1..n -> S]
    BY <1>9
  <2> QED
    BY <1>10, <2>1 DEF n

\* What sorting returns: every element once, those before others first.
LEMMA InOrderLemma ==
    ASSUME NEW S, IsFiniteSet(S), NEW R, Orders(R, S)
    PROVE  /\ InOrder(S, R) \in Seq(S)
           /\ Len(InOrder(S, R)) = Cardinality(S)
           /\ IsInjective(InOrder(S, R))
           /\ Range(InOrder(S, R)) = S
           /\ \A i, j \in 1..Cardinality(S) :
                  i < j => <<InOrder(S, R)[i], InOrder(S, R)[j]>> \in R
<1> DEFINE n == Cardinality(S)
           s == InOrder(S, R)
<1>1. n \in Nat
  BY FS_CardinalityType
<1>2. s \in [1..n -> S] /\ \A i, j \in 1..n : i < j => <<s[i], s[j]>> \in R
  BY OrderExists DEF InOrder
<1> HIDE DEF n, s
<1>3. s \in Seq(S) /\ Len(s) = n
  BY <1>1, <1>2
<1>4. IsInjective(s)
  <2> SUFFICES ASSUME NEW i \in 1..n, NEW j \in 1..n, i < j, s[i] = s[j] PROVE FALSE
    BY <1>1, <1>2 DEF IsInjective
  <2> QED
    BY <1>2 DEF Orders
<1>5. Range(s) = S
  BY <1>1, <1>2, <1>4, OntoBySize DEF n
<1> QED
  BY <1>2, <1>3, <1>4, <1>5 DEF n, s

\* What sorting numbers returns.
LEMMA AscendingLemma ==
    ASSUME NEW S \in SUBSET Nat, IsFiniteSet(S)
    PROVE  /\ Ascending(S) \in Seq(S)
           /\ Len(Ascending(S)) = Cardinality(S)
           /\ IsInjective(Ascending(S))
           /\ Range(Ascending(S)) = S
           /\ \A i, j \in 1..Cardinality(S) : i < j => Ascending(S)[i] < Ascending(S)[j]
<1> DEFINE R == {p \in S \X S : p[1] < p[2]}
<1>1. Orders(R, S)
  <2>1. \A x, y \in S : <<x, y>> \in R <=> x < y
    OBVIOUS
  <2>2. \A x \in S : x \in Nat
    OBVIOUS
  <2> HIDE DEF R
  <2> QED
    BY <2>1, <2>2 DEF Orders
<1>2. Ascending(S) = InOrder(S, R)
  BY DEF Ascending
<1>3. \A x, y : <<x, y>> \in R => x < y
  OBVIOUS
<1> HIDE DEF R
<1> DEFINE s == InOrder(S, R)
<1>4. /\ s \in Seq(S) /\ Len(s) = Cardinality(S) /\ IsInjective(s) /\ Range(s) = S
      /\ \A i, j \in 1..Cardinality(S) : i < j => <<s[i], s[j]>> \in R
  BY <1>1, InOrderLemma
<1> HIDE DEF s
<1>5. Ascending(S) = s
  BY <1>2 DEF s
<1> QED
  BY <1>3, <1>4, <1>5

\* The greatest number of a finite set of numbers.
LEMMA GreatestLemma ==
    ASSUME NEW I \in SUBSET Nat, IsFiniteSet(I), I # {}
    PROVE  \E i \in I : \A j \in I : j <= i
<1> DEFINE n == Cardinality(I)
           at == Ascending(I)
<1>1. n \in Nat /\ n # 0
  BY FS_CardinalityType, FS_EmptySet
<1>2. /\ at \in Seq(I) /\ Len(at) = n /\ Range(at) = I
      /\ \A i, j \in 1..n : i < j => at[i] < at[j]
  BY AscendingLemma
<1> HIDE DEF n, at
<1>3. n \in 1..n /\ at[n] \in I
  BY <1>1, <1>2
<1>4. ASSUME NEW j \in I PROVE j <= at[n]
  <2>1. DOMAIN at = 1..n
    BY <1>1, <1>2
  <2>2. PICK k \in 1..n : at[k] = j
    BY <1>2, <2>1 DEF Range
  <2>3. k = n \/ k < n
    BY <1>1
  <2>4. j = at[n] \/ j < at[n]
    BY <1>2, <1>3, <2>2, <2>3
  <2>5. j \in Nat /\ at[n] \in Nat
    BY <1>3
  <2> QED
    BY <2>4, <2>5
<1> QED
  BY <1>3, <1>4

\* What a filter keeps.
LEMMA KeptLemma ==
    ASSUME NEW V, NEW s \in Seq(V), NEW T
    PROVE  /\ Kept(s, T) \in Seq(V)
           /\ Range(Kept(s, T)) = Range(s) \cap T
           /\ IsInjective(s) => IsInjective(Kept(s, T))
<1> DEFINE I == {i \in DOMAIN s : s[i] \in T}
           at == Ascending(I)
<1>1. I \in SUBSET Nat /\ I \subseteq 1..Len(s)
  OBVIOUS
<1>2. IsFiniteSet(I)
  BY <1>1, FS_Interval, FS_Subset, I \in SUBSET (1..Len(s))
<1>3. at \in Seq(I) /\ IsInjective(at) /\ Range(at) = I
  BY <1>1, <1>2, AscendingLemma
<1>4. Kept(s, T) = [k \in DOMAIN at |-> s[at[k]]]
  BY DEF Kept
<1> HIDE DEF at
<1>5. \A k \in DOMAIN at : at[k] \in I
  BY <1>3
<1>6. Kept(s, T) \in Seq(V) /\ DOMAIN Kept(s, T) = DOMAIN at
  BY <1>1, <1>3, <1>4, <1>5
<1>7. Range(Kept(s, T)) = Range(s) \cap T
  BY <1>3, <1>4, <1>5 DEF Range
<1>8. IsInjective(s) => IsInjective(Kept(s, T))
  BY <1>3, <1>4, <1>5 DEF IsInjective
<1> QED
  BY <1>6, <1>7, <1>8

\* The first position of an element of T.
LEMMA FirstAtLemma ==
    ASSUME NEW V, NEW s \in Seq(V), NEW T, Range(s) \cap T # {}
    PROVE  /\ FirstAt(s, T) \in 1..Len(s)
           /\ s[FirstAt(s, T)] \in T
           /\ \A j \in 1..(FirstAt(s, T) - 1) : s[j] \notin T
<1> DEFINE I == {i \in 1..Len(s) : s[i] \in T}
           at == Ascending(I)
           First(i) == s[i] \in T /\ \A j \in 1..(i - 1) : s[j] \notin T
<1>1. I \in SUBSET Nat /\ I \in SUBSET (1..Len(s)) /\ I # {}
  BY DEF Range
<1>2. IsFiniteSet(I)
  BY <1>1, FS_Interval, FS_Subset
<1>3. Cardinality(I) \in Nat /\ Cardinality(I) # 0
  BY <1>1, <1>2, FS_CardinalityType, FS_EmptySet
<1>4. /\ at \in Seq(I) /\ Len(at) = Cardinality(I) /\ Range(at) = I
      /\ \A i, j \in 1..Cardinality(I) : i < j => at[i] < at[j]
  BY <1>1, <1>2, AscendingLemma
<1> HIDE DEF at, I
<1>5. at[1] \in I /\ \A i \in I : at[1] <= i
  <2>1. at[1] \in I
    BY <1>3, <1>4
  <2>2. ASSUME NEW i \in I PROVE at[1] <= i
    <3>1. PICK k \in 1..Cardinality(I) : at[k] = i
      <4>1. DOMAIN at = 1..Cardinality(I)
        BY <1>3, <1>4
      <4> QED
        BY <1>4, <4>1 DEF Range
    <3>2. k = 1 \/ at[1] < at[k]
      BY <1>3, <1>4, <3>1
    <3>3. at[1] \in Nat /\ i \in Nat
      BY <1>1, <2>1 DEF I
    <3> QED
      BY <3>1, <3>2, <3>3
  <2> QED
    BY <2>1, <2>2
<1>6. at[1] \in DOMAIN s /\ First(at[1])
  BY <1>1, <1>5 DEF I
<1>7. FirstAt(s, T) \in DOMAIN s /\ First(FirstAt(s, T))
  BY <1>6 DEF FirstAt
<1> QED
  BY <1>7

\* Removing by position moves what comes after by one.
LEMMA RemoveAtLemma ==
    ASSUME NEW V, NEW s \in Seq(V), NEW p \in 1..Len(s)
    PROVE  /\ RemoveAt(s, p) \in Seq(V)
           /\ Len(RemoveAt(s, p)) = Len(s) - 1
           /\ \A j \in 1..(Len(s) - 1) :
                  RemoveAt(s, p)[j] = IF j < p THEN s[j] ELSE s[j + 1]
<1> DEFINE a == SubSeq(s, 1, p - 1)
           b == SubSeq(s, p + 1, Len(s))
<1>1. a \in Seq(V) /\ Len(a) = p - 1 /\ \A j \in 1..(p - 1) : a[j] = s[j]
  OBVIOUS
<1>2. b \in Seq(V) /\ Len(b) = Len(s) - p /\ \A j \in 1..(Len(s) - p) : b[j] = s[p + j]
  OBVIOUS
<1>3. RemoveAt(s, p) = a \o b
  BY DEF RemoveAt
<1> HIDE DEF a, b
<1>4. a \o b \in Seq(V) /\ Len(a \o b) = Len(s) - 1
  <2>1. Len(s) \in Nat /\ a \in Seq(V) /\ b \in Seq(V)
    BY <1>1, <1>2
  <2>2. a \o b \in Seq(V) /\ Len(a \o b) = Len(a) + Len(b)
    BY <2>1
  <2>3. Len(a) + Len(b) = Len(s) - 1
    BY <1>1, <1>2, <2>1
  <2> QED
    BY <2>2, <2>3
<1>5. ASSUME NEW j \in 1..(Len(s) - 1)
      PROVE  (a \o b)[j] = IF j < p THEN s[j] ELSE s[j + 1]
  <2>1. CASE j < p
    BY <1>1, <1>2, <2>1
  <2>2. CASE ~(j < p)
    <3>1. (a \o b)[j] = b[j - Len(a)]
      BY <1>1, <1>2, <2>2
    <3>2. j - (p - 1) \in 1..(Len(s) - p) /\ p + (j - (p - 1)) = j + 1
      BY <2>2
    <3>3. b[j - (p - 1)] = s[j + 1]
      BY <1>2, <3>2
    <3> QED
      BY <1>1, <2>2, <3>1, <3>3
  <2> QED
    BY <2>1, <2>2
<1> QED
  BY <1>3, <1>4, <1>5

\* remove() of list or deque: the first occurrence goes.
LEMMA RemoveOneLemma ==
    ASSUME NEW V, NEW s \in Seq(V), NEW x
    PROVE  /\ RemoveOne(s, x) \in Seq(V)
           /\ x \notin Range(s) => RemoveOne(s, x) = s
           /\ x \in Range(s) =>
                \E p \in 1..Len(s) :
                    /\ s[p] = x /\ \A j \in 1..(p - 1) : s[j] # x
                    /\ Len(RemoveOne(s, x)) = Len(s) - 1
                    /\ \A j \in 1..(Len(s) - 1) :
                           RemoveOne(s, x)[j] = IF j < p THEN s[j] ELSE s[j + 1]
<1>1. CASE x \notin Range(s)
  BY <1>1 DEF RemoveOne
<1>2. CASE x \in Range(s)
  <2> DEFINE p == FirstAt(s, {x})
  <2>1. p \in 1..Len(s) /\ s[p] = x /\ \A j \in 1..(p - 1) : s[j] # x
    BY <1>2, FirstAtLemma
  <2>2. RemoveOne(s, x) = RemoveAt(s, p)
    BY <1>2 DEF RemoveOne
  <2> HIDE DEF p
  <2>3. /\ RemoveOne(s, x) \in Seq(V) /\ Len(RemoveOne(s, x)) = Len(s) - 1
        /\ \A j \in 1..(Len(s) - 1) :
               RemoveOne(s, x)[j] = IF j < p THEN s[j] ELSE s[j + 1]
    BY <2>1, <2>2, RemoveAtLemma
  <2> QED
    BY <1>2, <2>1, <2>3
<1> QED
  BY <1>1, <1>2

\* Counted from the end, what comes after the removed element stays in place.
LEMMA TailKept ==
    ASSUME NEW V, NEW s \in Seq(V), NEW x, NEW d \in Nat, d < Len(s),
           \A j \in (Len(s) - d)..Len(s) : s[j] # x
    PROVE  /\ d < Len(RemoveOne(s, x))
           /\ RemoveOne(s, x)[Len(RemoveOne(s, x)) - d] = s[Len(s) - d]
<1>1. CASE x \notin Range(s)
  BY <1>1, RemoveOneLemma
<1>2. CASE x \in Range(s)
  <2> DEFINE r == RemoveOne(s, x)
  <2>1. PICK p \in 1..Len(s) :
            /\ s[p] = x /\ Len(r) = Len(s) - 1
            /\ \A j \in 1..(Len(s) - 1) : r[j] = IF j < p THEN s[j] ELSE s[j + 1]
    BY <1>2, RemoveOneLemma
  <2> HIDE DEF r
  <2>2. p < Len(s) - d
    BY <2>1
  <2>3. /\ Len(r) - d \in 1..(Len(s) - 1) /\ ~(Len(r) - d < p)
        /\ Len(r) - d + 1 = Len(s) - d
    BY <2>1, <2>2
  <2>4. r[Len(r) - d] = s[Len(s) - d] /\ d < Len(r)
    BY <2>1, <2>3
  <2> QED
    BY <2>4 DEF r
<1> QED
  BY <1>1, <1>2

\* Only the removed element may be missing.
LEMMA RemoveOneRange ==
    ASSUME NEW V, NEW s \in Seq(V), NEW x
    PROVE  Range(s) \ {x} \subseteq Range(RemoveOne(s, x))
<1> DEFINE r == RemoveOne(s, x)
<1>1. CASE x \notin Range(s)
  BY <1>1, RemoveOneLemma
<1>2. CASE x \in Range(s)
  <2>1. PICK p \in 1..Len(s) :
            /\ s[p] = x /\ r \in Seq(V) /\ Len(r) = Len(s) - 1
            /\ \A j \in 1..(Len(s) - 1) : r[j] = IF j < p THEN s[j] ELSE s[j + 1]
    BY <1>2, RemoveOneLemma
  <2> HIDE DEF r
  <2>2. ASSUME NEW i \in 1..Len(s), s[i] # x PROVE s[i] \in Range(r)
    <3>1. CASE i < p
      <4>1. i \in DOMAIN r /\ r[i] = s[i]
        BY <2>1, <3>1
      <4> QED
        BY <4>1 DEF Range
    <3>2. CASE i > p
      <4>1. i - 1 \in DOMAIN r /\ r[i - 1] = s[i]
        BY <2>1, <3>2
      <4> QED
        BY <4>1 DEF Range
    <3> QED
      BY <2>1, <2>2, <3>1, <3>2
  <2> QED
    BY <2>2 DEF Range, r
<1> QED
  BY <1>1, <1>2

\* Where every element occurs once, it is gone, and nothing else.
LEMMA RemoveOneInjective ==
    ASSUME NEW V, NEW s \in Seq(V), NEW x, IsInjective(s)
    PROVE  IsInjective(RemoveOne(s, x)) /\ Range(RemoveOne(s, x)) = Range(s) \ {x}
<1> DEFINE r == RemoveOne(s, x)
<1>1. CASE x \notin Range(s)
  BY <1>1, RemoveOneLemma
<1>2. CASE x \in Range(s)
  <2>1. PICK p \in 1..Len(s) :
            /\ s[p] = x /\ r \in Seq(V) /\ Len(r) = Len(s) - 1
            /\ \A j \in 1..(Len(s) - 1) : r[j] = IF j < p THEN s[j] ELSE s[j + 1]
    BY <1>2, RemoveOneLemma
  <2> HIDE DEF r
  <2>2. DOMAIN r = 1..(Len(s) - 1) /\ DOMAIN s = 1..Len(s) /\ Len(s) \in Nat
    BY <2>1
  <2>3. \A i, j \in 1..Len(s) : s[i] = s[j] => i = j
    BY <2>2 DEF IsInjective
  <2>4. IsInjective(r)
    BY <2>1, <2>2, <2>3 DEF IsInjective
  <2>5. ASSUME NEW j \in 1..(Len(s) - 1) PROVE r[j] \in Range(s) \ {x}
    <3>1. CASE j < p
      <4>1. j \in 1..Len(s) /\ j # p /\ r[j] = s[j]
        BY <2>1, <2>2, <3>1
      <4>2. s[j] # x
        BY <2>1, <2>3, <4>1
      <4> QED
        BY <2>2, <4>1, <4>2 DEF Range
    <3>2. CASE ~(j < p)
      <4>1. j + 1 \in 1..Len(s) /\ j + 1 # p /\ r[j] = s[j + 1]
        BY <2>1, <2>2, <3>2
      <4>2. s[j + 1] # x
        BY <2>1, <2>3, <4>1
      <4> QED
        BY <2>2, <4>1, <4>2 DEF Range
    <3> QED
      BY <3>1, <3>2
  <2>6. Range(r) \subseteq Range(s) \ {x}
    BY <2>2, <2>5 DEF Range
  <2>7. Range(s) \ {x} \subseteq Range(r)
    BY RemoveOneRange DEF r
  <2> QED
    BY <2>4, <2>6, <2>7 DEF r
<1> QED
  BY <1>1, <1>2

-----------------------------------------------------------------------------
(* Numbers and folds.                                                      *)

\* Induction over the natural numbers, for a set.
LEMMA NatSet ==
    ASSUME NEW S, 0 \in S, \A n \in S : n + 1 \in S
    PROVE  Nat \subseteq S
<1> DEFINE T == Nat \ S
           R == OpToRel(<, Nat)
<1>1. SUFFICES ASSUME T # {} PROVE FALSE
  OBVIOUS
<1>2. IsWellFoundedOn(R, Nat)
  BY NatLessThanWellFounded
<1>3. PICK m \in T : \A y \in T : ~(<<y, m>> \in R)
  <2> HIDE DEF R
  <2> QED
    BY <1>1, <1>2, WFMin
<1>4. m - 1 \in T
  OBVIOUS
<1>5. <<m - 1, m>> \in R
  BY <1>4 DEF OpToRel
<1> QED
  BY <1>3, <1>4, <1>5

\* Every nonempty set of naturals has a least element, a bounded one a greatest.
LEMMA LeastOf ==
    ASSUME NEW T \in SUBSET Nat, T # {}
    PROVE  \E m \in T : \A y \in T : m <= y
<1> DEFINE R == OpToRel(<, Nat)
<1>1. IsWellFoundedOn(R, Nat)
  BY NatLessThanWellFounded
<1>2. PICK m \in T : \A y \in T : ~(<<y, m>> \in R)
  <2> HIDE DEF R
  <2> QED
    BY <1>1, WFMin
<1>3. ASSUME NEW y \in T PROVE m <= y
  <2>1. y \in Nat /\ m \in Nat
    OBVIOUS
  <2>2. y < m => <<y, m>> \in R
    BY <2>1 DEF OpToRel
  <2> HIDE DEF R
  <2> QED
    BY <1>2, <2>1, <2>2
<1> QED
  BY <1>3

\* A bounded set of numbers has a greatest.
LEMMA GreatestOf ==
    ASSUME NEW n \in Nat, NEW T \in SUBSET (0..n), T # {}
    PROVE  \E m \in T : \A y \in T : m >= y
<1> DEFINE U == {n - y : y \in T}
<1>1. U \in SUBSET Nat /\ U # {}
  <2>1. \A y \in T : y \in 0..n /\ n - y \in Nat
    OBVIOUS
  <2> QED
    BY <2>1
<1>2. PICK u \in U : \A v \in U : u <= v
  BY <1>1, LeastOf
<1>3. PICK m \in T : u = n - m
  OBVIOUS
<1>4. \A y \in T : n - y \in U
  OBVIOUS
<1>5. \A y \in T : n - m <= n - y
  <2> HIDE DEF U
  <2> QED
    BY <1>2, <1>3, <1>4
<1> QED
  BY <1>5

\* The greatest of a set is its Max.
LEMMA MaxOf ==
    ASSUME NEW s \in SUBSET Int, NEW m \in s, \A y \in s : m >= y
    PROVE  Max(s) = m
<1> DEFINE Tops == {x \in s : \A y \in s : x >= y}
<1>1. m \in Tops /\ \A x \in Tops : x = m
  OBVIOUS
<1>2. Max(s) = CHOOSE x \in Tops : TRUE
  BY DEF Max
<1> QED
  BY <1>1, <1>2

\* Max picks from the set.
LEMMA MaxIn ==
    ASSUME NEW n \in Nat, NEW s \in SUBSET (1..n), s # {}
    PROVE  Max(s) \in 1..n
<1>1. s \in SUBSET (0..n)
  OBVIOUS
<1>3. PICK m \in s : \A y \in s : m >= y
  BY <1>1, GreatestOf
<1>2. Max(s) = m
  BY <1>3, MaxOf
<1> QED
  BY <1>2

\* What a function takes a finite set to is finite.
LEMMA FiniteImage ==
    ASSUME NEW S, IsFiniteSet(S), NEW f, DOMAIN f = S
    PROVE  IsFiniteSet({f[x] : x \in S})
<1> DEFINE T == {f[x] : x \in S}
           g == [x \in S |-> f[x]]
<1>1. g \in [S -> T] /\ \A t \in T : \E x \in S : g[x] = t
  OBVIOUS
<1>2. g \in Surjection(S, T)
  BY <1>1 DEF Surjection
<1> HIDE DEF g, T
<1>3. IsFiniteSet(T)
  BY <1>2, FS_Surjection
<1> QED
  BY <1>3 DEF T

\* A fold's function on the sets of positions, its next value being g of the
\* greatest position and the value without it.
FoldsBy(f, V, n, a, g) ==
    /\ f[{}] = a
    /\ \A s \in SUBSET (1..n) : s # {} /\ f[s \ {Max(s)}] \in V =>
           f[s] = g[<<Max(s), f[s \ {Max(s)}]>>]

\* The same, position by position, up to the last value.
StepsTo(v, h, n, a, g) == h[0] = a /\ h[n] = v /\ \A i \in 1..n : h[i] = g[<<i, h[i - 1]>>]

\* Such a function exists...
LEMMA FoldExists ==
    ASSUME NEW V, NEW n \in Nat, NEW a \in V, NEW g \in [(1..n) \X V -> V]
    PROVE  \E f \in [SUBSET (1..n) -> V] : FoldsBy(f, V, n, a, g)
<1> DEFINE Good(m, f) ==
               /\ f[{}] = a
               /\ \A s \in SUBSET (1..m) : s # {} => f[s] = g[<<Max(s), f[s \ {Max(s)}]>>]
           Fits(m) == \E f \in [SUBSET (1..m) -> V] : Good(m, f)
           M == {m \in Nat : m <= n => Fits(m)}
<1>1. 0 \in M
  <2>1. 1..0 = {}
    OBVIOUS
  <2>2. [s \in SUBSET (1..0) |-> a] \in [SUBSET (1..0) -> V] /\ Good(0, [s \in SUBSET (1..0) |-> a])
    BY <2>1
  <2>3. Fits(0)
    BY <2>2
  <2> HIDE DEF Fits
  <2> QED
    BY <2>3
<1>2. ASSUME NEW m \in M PROVE m + 1 \in M
  <2>1. SUFFICES ASSUME m + 1 <= n PROVE Fits(m + 1)
    <3> HIDE DEF Fits
    <3> QED
      OBVIOUS
  <2>2. PICK f \in [SUBSET (1..m) -> V] : Good(m, f)
    <3>1. Fits(m)
      <4> HIDE DEF Fits
      <4> QED
        BY <2>1
    <3> HIDE DEF Good
    <3> QED
      BY <3>1
  <2> DEFINE h == [s \in SUBSET (1..(m + 1)) |->
                     IF m + 1 \in s THEN g[<<m + 1, f[s \ {m + 1}]>>] ELSE f[s]]
  <2>3. ASSUME NEW s \in SUBSET (1..(m + 1)) PROVE s \ {m + 1} \in SUBSET (1..m)
    OBVIOUS
  <2>4. ASSUME NEW s \in SUBSET (1..(m + 1)) PROVE h[s] \in V
    <3>1. CASE m + 1 \in s
      <4>1. f[s \ {m + 1}] \in V
        BY <2>3
      <4>2. <<m + 1, f[s \ {m + 1}]>> \in (1..n) \X V
        BY <4>1, <2>1
      <4> QED
        BY <4>2, <3>1
    <3>2. CASE m + 1 \notin s
      <4>1. s \ {m + 1} = s
        BY <3>2
      <4>2. s \in SUBSET (1..m)
        BY <4>1, <2>3
      <4> QED
        BY <4>2, <3>2
    <3> QED
      BY <3>1, <3>2
  <2>5. h \in [SUBSET (1..(m + 1)) -> V]
    BY <2>4
  <2>6. ASSUME NEW s \in SUBSET (1..(m + 1))
        PROVE  IF s = {} THEN h[s] = a ELSE h[s] = g[<<Max(s), h[s \ {Max(s)}]>>]
    <3>1. CASE m + 1 \in s
      <4>1. Max(s) = m + 1
        <5>1. \A y \in s : m + 1 >= y
          OBVIOUS
        <5> QED
          BY <5>1, <3>1, MaxOf
      <4>2. h[s \ {m + 1}] = f[s \ {m + 1}]
        BY <2>3
      <4>3. h[s] = g[<<m + 1, f[s \ {m + 1}]>>]
        BY <3>1
      <4> HIDE DEF h
      <4> QED
        BY <4>1, <4>2, <4>3, <3>1
    <3>2. CASE m + 1 \notin s /\ s # {}
      <4>1. s \in SUBSET (1..m)
        <5>1. s \ {m + 1} = s
          BY <3>2
        <5> QED
          BY <5>1, <2>3
      <4>2. h[s] = f[s] /\ h[s \ {Max(s)}] = f[s \ {Max(s)}]
        BY <3>2
      <4>3. f[s] = g[<<Max(s), f[s \ {Max(s)}]>>]
        BY <4>1, <3>2, <2>2
      <4> HIDE DEF h
      <4> QED
        BY <4>2, <4>3, <3>2
    <3>3. CASE s = {}
      <4>1. h[s] = f[s]
        BY <3>3
      <4>2. f[s] = a
        BY <3>3, <2>2
      <4> QED
        BY <4>1, <4>2, <3>3
    <3> QED
      BY <3>1, <3>2, <3>3
  <2> HIDE DEF h
  <2> QED
    BY <2>5, <2>6
<1>3. n \in M
  <2> HIDE DEF M
  <2> QED
    BY <1>1, <1>2, NatSet
<1>4. Fits(n)
  <2> HIDE DEF Fits
  <2> QED
    BY <1>3
<1>5. PICK f \in [SUBSET (1..n) -> V] : Good(n, f)
  <2> HIDE DEF Good
  <2> QED
    BY <1>4
<1>6. FoldsBy(f, V, n, a, g)
  BY <1>5 DEF FoldsBy
<1> QED
  BY <1>6

\* ...and its values on the sets 1..k are those of the steps from a.
LEMMA FoldSteps ==
    ASSUME NEW V, NEW n \in Nat, NEW a \in V, NEW g \in [(1..n) \X V -> V], NEW f,
           FoldsBy(f, V, n, a, g)
    PROVE  \E h \in [0..n -> V] : StepsTo(f[1..n], h, n, a, g)
<1> DEFINE h == [i \in 0..n |-> f[1..i]]
           M == {i \in Nat : i <= n => h[i] \in V}
<1>1. h[0] = a
  <2>1. 1..0 = {}
    OBVIOUS
  <2> QED
    BY <2>1 DEF FoldsBy
<1>2. ASSUME NEW i \in 1..n, h[i - 1] \in V
      PROVE  h[i] \in V /\ h[i] = g[<<i, h[i - 1]>>]
  <2> DEFINE s == 1..i
  <2>1. s \in SUBSET (1..n) /\ s # {}
    OBVIOUS
  <2>2. Max(s) = i
    <3>1. s \in SUBSET Int /\ i \in s /\ \A y \in s : i >= y
      OBVIOUS
    <3> QED
      BY <3>1, MaxOf
  <2>3. s \ {i} = 1..(i - 1)
    OBVIOUS
  <2>4. h[i] = f[s] /\ h[i - 1] = f[s \ {i}]
    <3>1. h[i - 1] = f[1..(i - 1)]
      OBVIOUS
    <3>2. h[i] = f[s]
      OBVIOUS
    <3> HIDE DEF h, s
    <3> QED
      BY <2>3, <3>1, <3>2
  <2> HIDE DEF h, s
  <2>5. h[i] = g[<<i, h[i - 1]>>]
    BY <2>1, <2>2, <2>4, <1>2 DEF FoldsBy
  <2> QED
    BY <2>5, <1>2
<1>3. n \in M /\ \A i \in 0..n : i \in M
  <2>1. 0 \in M
    BY <1>1
  <2>2. ASSUME NEW i \in M PROVE i + 1 \in M
    <3>1. SUFFICES ASSUME i + 1 <= n PROVE h[i + 1] \in V
      OBVIOUS
    <3>2. h[i] \in V /\ i + 1 \in 1..n /\ i = (i + 1) - 1
      BY <3>1
    <3> HIDE DEF h, M
    <3> QED
      BY <3>2, <1>2
  <2> HIDE DEF M
  <2>3. Nat \subseteq M
    BY <2>1, <2>2, NatSet
  <2> QED
    BY <2>3
<1>4. \A i \in 0..n : h[i] \in V
  BY <1>3
<1>5. h \in [0..n -> V]
  BY <1>4
<1>6. h[n] = f[1..n]
  OBVIOUS
<1> HIDE DEF h
<1>7. StepsTo(f[1..n], h, n, a, g)
  <2>1. \A i \in 1..n : i - 1 \in 0..n
    OBVIOUS
  <2> QED
    BY <1>1, <1>2, <1>4, <1>6, <2>1 DEF StepsTo
<1> QED
  BY <1>5, <1>7

-----------------------------------------------------------------------------
(* Sums.                                                                   *)

\* The subsets of D of at most n elements.
SubsetsOf(D, n) == {s \in SUBSET D : Cardinality(s) <= n}

\* F sums f over subsets, taking out the element that CHOOSE picks.
SumsBy(F, f, D, n) ==
    /\ F[{}] = 0
    /\ \A s \in SubsetsOf(D, n) : s # {} =>
           F[s] = f[CHOOSE x \in s : TRUE] + F[s \ {CHOOSE x \in s : TRUE}]

\* Without one of its elements a finite set has one fewer.
LEMMA OneFewer ==
    ASSUME NEW D, IsFiniteSet(D), NEW s \in SUBSET D, NEW x \in s
    PROVE  /\ s \ {x} \in SUBSET D /\ IsFiniteSet(s)
           /\ Cardinality(s) \in Nat \ {0} /\ Cardinality(s \ {x}) = Cardinality(s) - 1
<1>1. IsFiniteSet(s)
  BY FS_Subset
<1>2. Cardinality(s) \in Nat /\ Cardinality(s) # 0
  BY <1>1, FS_CardinalityType, FS_EmptySet
<1>3. Cardinality(s \ {x}) = Cardinality(s) - 1
  BY <1>1, FS_RemoveElement
<1> QED
  BY <1>1, <1>2, <1>3

\* Such a function exists.
LEMMA SumExists ==
    ASSUME NEW D, IsFiniteSet(D), NEW f \in [D -> Int]
    PROVE  \E F \in [SUBSET D -> Int] : SumsBy(F, f, D, Cardinality(D))
<1> DEFINE c(s) == CHOOSE x \in s : TRUE
           Fits(n) == \E F \in [SubsetsOf(D, n) -> Int] : SumsBy(F, f, D, n)
           M == {n \in Nat : Fits(n)}
<1>1. Cardinality({}) = 0 /\ \A s \in SUBSET D : Cardinality(s) \in Nat /\ (Cardinality(s) = 0 <=> s = {})
  BY FS_Subset, FS_CardinalityType, FS_EmptySet
<1>2. 0 \in M
  <2> DEFINE F == [s \in SubsetsOf(D, 0) |-> 0]
  <2>1. \A s \in SubsetsOf(D, 0) : s = {}
    BY <1>1 DEF SubsetsOf
  <2>2. {} \in SubsetsOf(D, 0)
    BY <1>1 DEF SubsetsOf
  <2>3. F \in [SubsetsOf(D, 0) -> Int] /\ SumsBy(F, f, D, 0)
    BY <2>1, <2>2 DEF SumsBy
  <2> QED
    BY <2>3
<1>3. ASSUME NEW n \in M PROVE n + 1 \in M
  <2>1. n \in Nat
    OBVIOUS
  <2>2. PICK F \in [SubsetsOf(D, n) -> Int] : SumsBy(F, f, D, n)
    OBVIOUS
  <2> DEFINE G == [s \in SubsetsOf(D, n + 1) |->
                      IF s = {} THEN 0 ELSE f[c(s)] + F[s \ {c(s)}]]
  <2>3. ASSUME NEW s \in SubsetsOf(D, n + 1), s # {}
        PROVE  c(s) \in s /\ s \ {c(s)} \in SubsetsOf(D, n) /\ s \ {c(s)} \in SubsetsOf(D, n + 1)
    <3>1. c(s) \in s
      BY <2>3
    <3>2. s \in SUBSET D /\ Cardinality(s) <= n + 1
      BY DEF SubsetsOf
    <3> HIDE DEF c
    <3>3. s \ {c(s)} \in SUBSET D /\ Cardinality(s \ {c(s)}) = Cardinality(s) - 1 /\ Cardinality(s) \in Nat
      BY <3>1, <3>2, OneFewer
    <3> QED
      BY <2>1, <3>1, <3>2, <3>3 DEF SubsetsOf
  <2>4. \A s \in SubsetsOf(D, n + 1) : s # {} => c(s) \in D /\ f[c(s)] \in Int
    BY <2>3 DEF SubsetsOf
  <2>5. {} \in SubsetsOf(D, n) /\ {} \in SubsetsOf(D, n + 1)
    BY <1>1, <2>1 DEF SubsetsOf
  <2> HIDE DEF c
  <2>6. G \in [SubsetsOf(D, n + 1) -> Int]
    BY <2>3, <2>4
  <2>7. ASSUME NEW s \in SubsetsOf(D, n) PROVE G[s] = F[s]
    <3>1. s \in SubsetsOf(D, n + 1)
      BY <1>1, <2>1 DEF SubsetsOf
    <3> QED
      BY <3>1, <2>2, <2>5 DEF SumsBy, c
  <2>8. \A s \in SubsetsOf(D, n + 1) : s # {} => G[s] = f[c(s)] + G[s \ {c(s)}]
    BY <2>3, <2>7
  <2> HIDE DEF G
  <2>9. SumsBy(G, f, D, n + 1)
    BY <2>2, <2>5, <2>7, <2>8 DEF SumsBy, c
  <2> HIDE DEF Fits
  <2>10. Fits(n + 1)
    BY <2>6, <2>9 DEF Fits
  <2> QED
    BY <2>1, <2>10
<1>4. Cardinality(D) \in M
  <2> HIDE DEF M
  <2> QED
    BY <1>2, <1>3, NatSet, FS_CardinalityType
<1>5. SubsetsOf(D, Cardinality(D)) = SUBSET D
  BY FS_Subset DEF SubsetsOf
<1> QED
  BY <1>4, <1>5

\* The sum over a set, element by element.
SumsOver(F, f, D) ==
    /\ F[{}] = 0
    /\ \A s \in SUBSET D : \A x \in s : F[s] = f[x] + F[s \ {x}]

\* A sum does not depend on the order of its terms.
LEMMA SumAnyOrder ==
    ASSUME NEW D, IsFiniteSet(D), NEW f \in [D -> Int], NEW F \in [SUBSET D -> Int],
           SumsBy(F, f, D, Cardinality(D))
    PROVE  SumsOver(F, f, D)
<1> DEFINE c(s) == CHOOSE x \in s : TRUE
           AllTerms(s) == \A x \in s : F[s] = f[x] + F[s \ {x}]
           M == {n \in Nat : \A s \in SubsetsOf(D, n) : AllTerms(s)}
<1>1. \A s \in SUBSET D : Cardinality(s) \in Nat /\ (Cardinality(s) = 0 <=> s = {})
  BY FS_Subset, FS_CardinalityType, FS_EmptySet
<1>2. 0 \in M
  BY <1>1 DEF SubsetsOf
<1>3. SubsetsOf(D, Cardinality(D)) = SUBSET D
  BY FS_Subset DEF SubsetsOf
<1>4. \A s \in SUBSET D : s # {} => c(s) \in s /\ F[s] = f[c(s)] + F[s \ {c(s)}]
  BY <1>3 DEF SumsBy
<1> HIDE DEF c
<1>5. ASSUME NEW n \in M PROVE n + 1 \in M
  <2>1. SUFFICES ASSUME NEW s \in SubsetsOf(D, n + 1), NEW x \in s, x # c(s)
                 PROVE  F[s] = f[x] + F[s \ {x}]
    BY <1>4 DEF SubsetsOf
  <2> DEFINE y == c(s)
             r == (s \ {x}) \ {y}
  <2>2. s \in SUBSET D /\ Cardinality(s) <= n + 1 /\ y \in s
    BY <1>4 DEF SubsetsOf
  <2>3. s \ {x} \in SubsetsOf(D, n) /\ s \ {y} \in SubsetsOf(D, n)
    <3> HIDE DEF y
    <3>1. Cardinality(s \ {x}) = Cardinality(s) - 1 /\ Cardinality(s \ {y}) = Cardinality(s) - 1
      BY <2>2, OneFewer
    <3> QED
      BY <1>1, <2>2, <3>1 DEF SubsetsOf
  <2>4. AllTerms(s \ {x}) /\ AllTerms(s \ {y})
    BY <2>3
  <2>5. F[s] = f[y] + F[s \ {y}]
    BY <1>4, <2>2
  <2> HIDE DEF y
  <2>6. F[s \ {x}] = f[y] + F[(s \ {x}) \ {y}]
    BY <2>1, <2>2, <2>4 DEF y
  <2>7. F[s \ {y}] = f[x] + F[(s \ {y}) \ {x}]
    BY <2>1, <2>2, <2>4 DEF y
  <2>8. (s \ {y}) \ {x} = r
    OBVIOUS
  <2>9. r \in SUBSET D /\ F[r] \in Int /\ f[x] \in Int /\ f[y] \in Int
    BY <2>2
  <2>10. F[s \ {x}] = f[y] + F[r] /\ F[s \ {y}] = f[x] + F[r]
    BY <2>6, <2>7, <2>8
  <2> HIDE DEF r
  <2> QED
    BY <2>5, <2>9, <2>10
<1>6. Cardinality(D) \in M
  <2> HIDE DEF M
  <2> QED
    BY <1>2, <1>5, NatSet, FS_CardinalityType
<1> QED
  BY <1>3, <1>6 DEF SumsBy, SumsOver

\* What SumFunction computes.
LEMMA SumSteps ==
    ASSUME NEW D, IsFiniteSet(D), NEW f \in [D -> Int]
    PROVE  \E F \in [SUBSET D -> Int] : SumsOver(F, f, D) /\ SumFunction(f) = F[D]
<1> DEFINE Iter(F) == F = [s \in SUBSET DOMAIN f |->
                              IF s = {} THEN 0
                              ELSE f[CHOOSE x \in s : TRUE] + F[s \ {CHOOSE x \in s : TRUE}]]
           iter == CHOOSE F : Iter(F)
<1>1. SumFunction(f) = iter[DOMAIN f]
  BY Zenon DEF SumFunction, SumFunctionOnSet, FoldFunctionOnSet, MapThenFoldSet
<1>2. DOMAIN f = D /\ SubsetsOf(D, Cardinality(D)) = SUBSET D
  BY FS_Subset DEF SubsetsOf
<1>3. PICK F \in [SUBSET D -> Int] : SumsBy(F, f, D, Cardinality(D))
  BY SumExists
<1>4. Iter(F)
  BY <1>2, <1>3 DEF SumsBy
<1>5. Iter(iter)
  BY <1>4
<1> HIDE DEF iter
<1>6. SumsBy(iter, f, D, Cardinality(D))
  BY <1>2, <1>5 DEF SumsBy
<1>7. iter \in [SUBSET D -> Int]
  <2>1. iter = F
    <3> DEFINE M == {n \in Nat : \A s \in SubsetsOf(D, n) : iter[s] = F[s]}
    <3>1. \A s \in SUBSET D : Cardinality(s) \in Nat /\ (Cardinality(s) = 0 <=> s = {})
      BY FS_Subset, FS_CardinalityType, FS_EmptySet
    <3>2. 0 \in M
      <4>1. \A s \in SubsetsOf(D, 0) : s = {}
        BY <3>1 DEF SubsetsOf
      <4>2. iter[{}] = 0 /\ F[{}] = 0
        BY <1>3, <1>6 DEF SumsBy
      <4> QED
        BY <4>1, <4>2
    <3>3. ASSUME NEW n \in M PROVE n + 1 \in M
      <4>1. SUFFICES ASSUME NEW s \in SubsetsOf(D, n + 1), s # {} PROVE iter[s] = F[s]
        <5>1. iter[{}] = F[{}]
          BY <1>3, <1>6 DEF SumsBy
        <5>2. \A s \in SubsetsOf(D, n + 1) : s = {} => iter[s] = F[s]
          BY <5>1
        <5>3. n + 1 \in Nat
          OBVIOUS
        <5> HIDE DEF iter
        <5> QED
          BY <5>2, <5>3
      <4> DEFINE y == CHOOSE x \in s : TRUE
      <4>2. s \in SUBSET D /\ Cardinality(s) <= n + 1 /\ y \in s
        BY <4>1 DEF SubsetsOf
      <4>3. iter[s] = f[y] + iter[s \ {y}] /\ F[s] = f[y] + F[s \ {y}]
        BY <1>2, <1>3, <1>6, <4>1, <4>2 DEF SumsBy
      <4> HIDE DEF y
      <4>4. s \ {y} \in SubsetsOf(D, n)
        <5>1. Cardinality(s \ {y}) = Cardinality(s) - 1
          BY <4>2, OneFewer
        <5> QED
          BY <3>1, <4>2, <5>1 DEF SubsetsOf
      <4> QED
        BY <4>3, <4>4
    <3> HIDE DEF M
    <3>4. Cardinality(D) \in M
      BY <3>2, <3>3, NatSet, FS_CardinalityType
    <3>5. \A s \in SUBSET D : iter[s] = F[s]
      BY <1>2, <3>4 DEF M
    <3>6. DOMAIN iter = SUBSET D /\ iter = [s \in SUBSET D |-> iter[s]]
      BY <1>2, <1>5
    <3> QED
      BY <3>5, <3>6
  <2> QED
    BY <2>1
<1>8. SumsOver(iter, f, D)
  BY <1>6, <1>7, SumAnyOrder
<1> QED
  BY <1>1, <1>2, <1>7, <1>8

\* Sums over sets that both functions agree on are equal.
LEMMA SumAgree ==
    ASSUME NEW D, IsFiniteSet(D), NEW f \in [D -> Int], NEW g \in [D -> Int],
           NEW F \in [SUBSET D -> Int], NEW G \in [SUBSET D -> Int],
           SumsOver(F, f, D), SumsOver(G, g, D),
           NEW T \in SUBSET D, \A x \in T : f[x] = g[x]
    PROVE  F[T] = G[T]
<1> DEFINE M == {n \in Nat : \A s \in SUBSET T : Cardinality(s) <= n => F[s] = G[s]}
<1>1. \A s \in SUBSET T : Cardinality(s) \in Nat /\ (Cardinality(s) = 0 <=> s = {})
  BY FS_Subset, FS_CardinalityType, FS_EmptySet
<1>2. 0 \in M
  <2>1. \A s \in SUBSET T : Cardinality(s) <= 0 => s = {}
    BY <1>1
  <2>2. F[{}] = G[{}]
    BY DEF SumsOver
  <2> QED
    BY <2>1, <2>2
<1>3. ASSUME NEW n \in M PROVE n + 1 \in M
  <2>1. SUFFICES ASSUME NEW s \in SUBSET T, Cardinality(s) <= n + 1, s # {} PROVE F[s] = G[s]
    <3>1. F[{}] = G[{}]
      BY DEF SumsOver
    <3>2. \A s \in SUBSET T : s = {} => F[s] = G[s]
      BY <3>1
    <3>3. n + 1 \in Nat
      OBVIOUS
    <3> QED
      BY <3>2, <3>3
  <2>2. PICK x \in s : TRUE
    BY <2>1
  <2>3. s \in SUBSET D /\ s \ {x} \in SUBSET T
    OBVIOUS
  <2>4. Cardinality(s \ {x}) <= n
    <3>1. Cardinality(s \ {x}) = Cardinality(s) - 1
      BY <2>2, <2>3, OneFewer
    <3> QED
      BY <1>1, <2>1, <3>1
  <2>5. F[s] = f[x] + F[s \ {x}] /\ G[s] = g[x] + G[s \ {x}]
    BY <2>2, <2>3 DEF SumsOver
  <2>6. F[s \ {x}] = G[s \ {x}] /\ f[x] = g[x]
    BY <2>2, <2>3, <2>4
  <2> QED
    BY <2>5, <2>6
<1>4. Cardinality(D) \in M
  <2> HIDE DEF M
  <2> QED
    BY <1>2, <1>3, NatSet, FS_CardinalityType
<1> QED
  BY <1>4, FS_Subset

\* A sum of numbers is a number.
LEMMA SumInt == \A D : IsFiniteSet(D) => \A f \in [D -> Int] : SumFunction(f) \in Int
<1>1. ASSUME NEW D, IsFiniteSet(D), NEW f \in [D -> Int] PROVE SumFunction(f) \in Int
  <2>1. PICK F \in [SUBSET D -> Int] : SumsOver(F, f, D) /\ SumFunction(f) = F[D]
    BY <1>1, SumSteps
  <2> QED
    BY <2>1
<1> QED
  BY <1>1

\* When one term changes, the sum changes by as much.
LEMMA SumChange ==
    ASSUME NEW D, IsFiniteSet(D), NEW f \in [D -> Int], NEW g \in [D -> Int], NEW x \in D,
           \A y \in D \ {x} : f[y] = g[y]
    PROVE  SumFunction(g) - g[x] = SumFunction(f) - f[x]
<1>1. PICK F \in [SUBSET D -> Int] : SumsOver(F, f, D) /\ SumFunction(f) = F[D]
  BY SumSteps
<1>2. PICK G \in [SUBSET D -> Int] : SumsOver(G, g, D) /\ SumFunction(g) = G[D]
  BY SumSteps
<1>3. F[D \ {x}] = G[D \ {x}]
  BY <1>1, <1>2, SumAgree, D \ {x} \in SUBSET D
<1>4. F[D] = f[x] + F[D \ {x}] /\ G[D] = g[x] + G[D \ {x}]
  BY <1>1, <1>2, D \in SUBSET D DEF SumsOver
<1>5. F[D \ {x}] \in Int /\ F[D] \in Int /\ G[D] \in Int /\ f[x] \in Int /\ g[x] \in Int
  <2>1. D \ {x} \in SUBSET D /\ D \in SUBSET D
    OBVIOUS
  <2> QED
    BY <2>1
<1> QED
  BY <1>1, <1>2, <1>3, <1>4, <1>5

\* A sum of sums, term by term.
LEMMA SumAdd ==
    ASSUME NEW D, IsFiniteSet(D), NEW f \in [D -> Int], NEW g \in [D -> Int],
           NEW h \in [D -> Int], \A x \in D : f[x] + g[x] = h[x]
    PROVE  SumFunction(f) + SumFunction(g) = SumFunction(h)
<1>1. PICK F \in [SUBSET D -> Int] : SumsOver(F, f, D) /\ SumFunction(f) = F[D]
  BY SumSteps
<1>2. PICK G \in [SUBSET D -> Int] : SumsOver(G, g, D) /\ SumFunction(g) = G[D]
  BY SumSteps
<1>3. PICK H \in [SUBSET D -> Int] : SumsOver(H, h, D) /\ SumFunction(h) = H[D]
  BY SumSteps
<1> DEFINE M == {n \in Nat : \A s \in SUBSET D : Cardinality(s) <= n => F[s] + G[s] = H[s]}
<1>4. \A s \in SUBSET D : Cardinality(s) \in Nat /\ (Cardinality(s) = 0 <=> s = {})
  BY FS_Subset, FS_CardinalityType, FS_EmptySet
<1>5. F[{}] + G[{}] = H[{}]
  BY <1>1, <1>2, <1>3 DEF SumsOver
<1>6. 0 \in M
  <2>1. \A s \in SUBSET D : Cardinality(s) <= 0 => s = {}
    BY <1>4
  <2> QED
    BY <1>5, <2>1
<1>7. ASSUME NEW n \in M PROVE n + 1 \in M
  <2>1. SUFFICES ASSUME NEW s \in SUBSET D, Cardinality(s) <= n + 1, s # {}
                 PROVE  F[s] + G[s] = H[s]
    <3>1. \A s \in SUBSET D : s = {} => F[s] + G[s] = H[s]
      BY <1>5
    <3>2. n + 1 \in Nat
      OBVIOUS
    <3> QED
      BY <3>1, <3>2
  <2>2. PICK x \in s : TRUE
    BY <2>1
  <2>3. s \ {x} \in SUBSET D /\ x \in D
    BY <2>2
  <2>4. Cardinality(s \ {x}) <= n
    <3>1. Cardinality(s \ {x}) = Cardinality(s) - 1
      BY <2>2, OneFewer
    <3> QED
      BY <1>4, <2>1, <3>1
  <2>5. /\ F[s] = f[x] + F[s \ {x}] /\ G[s] = g[x] + G[s \ {x}]
        /\ H[s] = h[x] + H[s \ {x}]
    BY <1>1, <1>2, <1>3, <2>2 DEF SumsOver
  <2>6. F[s \ {x}] + G[s \ {x}] = H[s \ {x}] /\ f[x] + g[x] = h[x]
    BY <2>3, <2>4
  <2>7. /\ F[s \ {x}] \in Int /\ G[s \ {x}] \in Int /\ H[s \ {x}] \in Int
        /\ f[x] \in Int /\ g[x] \in Int /\ h[x] \in Int
    BY <2>3
  <2> QED
    BY <2>5, <2>6, <2>7
<1>8. Cardinality(D) \in M
  <2> HIDE DEF M
  <2> QED
    BY <1>6, <1>7, NatSet, FS_CardinalityType
<1> QED
  BY <1>1, <1>2, <1>3, <1>8

\* The same with terms that are no greater.
LEMMA SumRelate ==
    ASSUME NEW D, IsFiniteSet(D), NEW f \in [D -> Int], NEW g \in [D -> Int],
           NEW h \in [D -> Int], \A x \in D : f[x] + g[x] <= h[x]
    PROVE  SumFunction(f) + SumFunction(g) <= SumFunction(h)
<1>1. PICK F \in [SUBSET D -> Int] : SumsOver(F, f, D) /\ SumFunction(f) = F[D]
  BY SumSteps
<1>2. PICK G \in [SUBSET D -> Int] : SumsOver(G, g, D) /\ SumFunction(g) = G[D]
  BY SumSteps
<1>3. PICK H \in [SUBSET D -> Int] : SumsOver(H, h, D) /\ SumFunction(h) = H[D]
  BY SumSteps
<1> DEFINE M == {n \in Nat : \A s \in SUBSET D : Cardinality(s) <= n => F[s] + G[s] <= H[s]}
<1>4. \A s \in SUBSET D : Cardinality(s) \in Nat /\ (Cardinality(s) = 0 <=> s = {})
  BY FS_Subset, FS_CardinalityType, FS_EmptySet
<1>5. F[{}] + G[{}] <= H[{}]
  BY <1>1, <1>2, <1>3 DEF SumsOver
<1>6. 0 \in M
  <2>1. \A s \in SUBSET D : Cardinality(s) <= 0 => s = {}
    BY <1>4
  <2> QED
    BY <1>5, <2>1
<1>7. ASSUME NEW n \in M PROVE n + 1 \in M
  <2>1. SUFFICES ASSUME NEW s \in SUBSET D, Cardinality(s) <= n + 1, s # {}
                 PROVE  F[s] + G[s] <= H[s]
    <3>1. \A s \in SUBSET D : s = {} => F[s] + G[s] <= H[s]
      BY <1>5
    <3>2. n + 1 \in Nat
      OBVIOUS
    <3> QED
      BY <3>1, <3>2
  <2>2. PICK x \in s : TRUE
    BY <2>1
  <2>3. s \ {x} \in SUBSET D /\ x \in D
    BY <2>2
  <2>4. Cardinality(s \ {x}) <= n
    <3>1. Cardinality(s \ {x}) = Cardinality(s) - 1
      BY <2>2, OneFewer
    <3> QED
      BY <1>4, <2>1, <3>1
  <2>5. /\ F[s] = f[x] + F[s \ {x}] /\ G[s] = g[x] + G[s \ {x}]
        /\ H[s] = h[x] + H[s \ {x}]
    BY <1>1, <1>2, <1>3, <2>2 DEF SumsOver
  <2>6. F[s \ {x}] + G[s \ {x}] <= H[s \ {x}] /\ f[x] + g[x] <= h[x]
    BY <2>3, <2>4
  <2>7. /\ F[s \ {x}] \in Int /\ G[s \ {x}] \in Int /\ H[s \ {x}] \in Int
        /\ f[x] \in Int /\ g[x] \in Int /\ h[x] \in Int
    BY <2>3
  <2> QED
    BY <2>5, <2>6, <2>7
<1>8. Cardinality(D) \in M
  <2> HIDE DEF M
  <2> QED
    BY <1>6, <1>7, NatSet, FS_CardinalityType
<1> QED
  BY <1>1, <1>2, <1>3, <1>8

\* A sum of equal terms.
LEMMA SumConstant ==
    ASSUME NEW D, IsFiniteSet(D), NEW c \in Int, NEW f \in [D -> Int], \A x \in D : f[x] = c
    PROVE  SumFunction(f) = Cardinality(D) * c
<1>1. PICK F \in [SUBSET D -> Int] : SumsOver(F, f, D) /\ SumFunction(f) = F[D]
  BY SumSteps
<1> DEFINE M == {n \in Nat : \A s \in SUBSET D : Cardinality(s) = n => F[s] = n * c}
<1>2. \A s \in SUBSET D : Cardinality(s) \in Nat /\ (Cardinality(s) = 0 <=> s = {})
  BY FS_Subset, FS_CardinalityType, FS_EmptySet
<1>3. 0 \in M
  <2>1. \A s \in SUBSET D : Cardinality(s) = 0 => F[s] = 0
    BY <1>1, <1>2 DEF SumsOver
  <2>2. 0 * c = 0
    OBVIOUS
  <2> QED
    BY <2>1, <2>2
<1>4. ASSUME NEW n \in M PROVE n + 1 \in M
  <2>1. SUFFICES ASSUME NEW s \in SUBSET D, Cardinality(s) = n + 1 PROVE F[s] = (n + 1) * c
    OBVIOUS
  <2>2. PICK x \in s : TRUE
    BY <1>2, <2>1
  <2>3. Cardinality(s \ {x}) = n
    <3>1. Cardinality(s \ {x}) = Cardinality(s) - 1
      BY <2>2, OneFewer
    <3> QED
      BY <2>1, <3>1
  <2>4. F[s] = c + F[s \ {x}]
    BY <1>1, <2>2 DEF SumsOver
  <2>5. F[s \ {x}] = n * c
    BY <2>2, <2>3
  <2> QED
    BY <2>4, <2>5
<1>5. Cardinality(D) \in M
  <2> HIDE DEF M
  <2> QED
    BY <1>3, <1>4, NatSet, FS_CardinalityType
<1> QED
  BY <1>1, <1>5
=============================================================================
