---------------------------- MODULE DecodingProofs ----------------------------
(***************************************************************************)
(* Decoding for any vocabulary, target, set of prompts and configurations, *)
(* and any bounds: the types of a run, the prefix cache's snapshots, the   *)
(* drafters' caches, and that what is streamed is what greedy decoding of  *)
(* the target alone gives.                                                 *)
(***************************************************************************)
EXTENDS Decoding, ListsProofs

-----------------------------------------------------------------------------
(* Sequences.                                                              *)

\* The first n elements.
LEMMA TakeOf ==
    ASSUME NEW S, NEW s \in Seq(S), NEW n \in Int, n <= Len(s)
    PROVE  /\ Take(s, n) \in Seq(S)
           /\ Len(Take(s, n)) = IF n >= 0 THEN n ELSE 0
           /\ \A i \in 1..n : Take(s, n)[i] = s[i]
BY DEF Take

\* The elements after the first n.
LEMMA DropOf ==
    ASSUME NEW S, NEW s \in Seq(S), NEW n \in Nat
    PROVE  /\ Drop(s, n) \in Seq(S)
           /\ Len(Drop(s, n)) = IF n <= Len(s) THEN Len(s) - n ELSE 0
           /\ \A i \in 1..(Len(s) - n) : Drop(s, n)[i] = s[n + i]
<1>1. \A i \in (n + 1)..Len(s) : s[i] \in S
  OBVIOUS
<1> QED
  BY <1>1, SubSeqProperties DEF Drop

\* All but the last element, and the last.
LEMMA FrontOf ==
    ASSUME NEW S, NEW s \in Seq(S), s # <<>>
    PROVE  Front(s) = Take(s, Len(s) - 1) /\ Last(s) \in S
BY DEF Front, Last, Take

\* All of a sequence, and none of it.
LEMMA TakeAll ==
    ASSUME NEW S, NEW s \in Seq(S)
    PROVE  Take(s, Len(s)) = s /\ Take(s, 0) = <<>> /\ Drop(s, 0) = s
<1>1. Take(s, Len(s)) = s
  BY SubSeqFull DEF Take
<1>2. Drop(s, 0) = s
  BY SubSeqFull DEF Drop
<1>3. Take(s, 0) = <<>>
  BY SubSeqEmpty DEF Take
<1> QED
  BY <1>1, <1>2, <1>3

\* The first elements of a sequence followed by another.
LEMMA TakeCat ==
    ASSUME NEW S, NEW s \in Seq(S), NEW t \in Seq(S)
    PROVE  /\ \A n \in 0..Len(s) : Take(s \o t, n) = Take(s, n)
           /\ \A n \in 0..Len(t) : Take(s \o t, Len(s) + n) = s \o Take(t, n)
<1>1. ASSUME NEW n \in 0..Len(s) PROVE Take(s \o t, n) = Take(s, n)
  <2>1. Take(s, n) \in Seq(S) /\ Len(Take(s, n)) = n /\ \A i \in 1..n : Take(s, n)[i] = s[i]
    BY TakeOf
  <2>2. /\ Take(s \o t, n) \in Seq(S) /\ Len(Take(s \o t, n)) = n
        /\ \A i \in 1..n : Take(s \o t, n)[i] = (s \o t)[i]
    <3>1. n <= Len(s \o t) /\ s \o t \in Seq(S) /\ n \in Int
      BY CatOf
    <3> QED
      BY <3>1 DEF Take
  <2> QED
    BY <2>1, <2>2, SameSeq
<1>2. ASSUME NEW n \in 0..Len(t) PROVE Take(s \o t, Len(s) + n) = s \o Take(t, n)
  <2> DEFINE u == Take(t, n)
  <2>1. u \in Seq(S) /\ Len(u) = n /\ \A i \in 1..n : u[i] = t[i]
    BY TakeOf
  <2>2. /\ Take(s \o t, Len(s) + n) \in Seq(S) /\ Len(Take(s \o t, Len(s) + n)) = Len(s) + n
        /\ \A i \in 1..(Len(s) + n) : Take(s \o t, Len(s) + n)[i] = (s \o t)[i]
    <3>1. Len(s) + n <= Len(s \o t) /\ s \o t \in Seq(S) /\ Len(s) + n \in Nat
      BY CatOf
    <3> HIDE DEF u
    <3> QED
      BY <3>1 DEF Take
  <2> HIDE DEF u
  <2>3. /\ s \o u \in Seq(S) /\ Len(s \o u) = Len(s) + n
        /\ \A i \in 1..(Len(s) + n) :
               (s \o u)[i] = IF i <= Len(s) THEN s[i] ELSE u[i - Len(s)]
    BY <2>1, ConcatProperties
  <2>4. ASSUME NEW i \in 1..(Len(s) + n) PROVE (s \o t)[i] = (s \o u)[i]
    <3>1. (s \o t)[i] = IF i <= Len(s) THEN s[i] ELSE t[i - Len(s)]
      BY ConcatProperties
    <3>2. i > Len(s) => i - Len(s) \in 1..n
      OBVIOUS
    <3> QED
      BY <2>1, <2>3, <3>1, <3>2
  <2>5. Take(s \o t, Len(s) + n) = s \o u
    <3> DEFINE a == Take(s \o t, Len(s) + n)
               b == s \o u
    <3>1. /\ a \in Seq(S) /\ b \in Seq(S) /\ Len(a) = Len(b) /\ Len(b) = Len(s) + n
      BY <2>2, <2>3
    <3>2. \A i \in 1..Len(a) : a[i] = b[i]
      BY <2>2, <2>4
    <3> HIDE DEF a, b
    <3>3. a = b
      BY <3>1, <3>2, SameSeq
    <3> QED
      BY <3>3 DEF a, b
  <2> QED
    BY <2>5 DEF u
<1> QED
  BY <1>1, <1>2

-----------------------------------------------------------------------------
(* The prefix cache.                                                       *)

Entry == [ids : Ids, kv : KV]
Labels(kv) == [i \in DOMAIN kv |-> kv[i].id]
Distinct(es) == \A i, j \in DOMAIN es : i # j => es[i].ids # es[j].ids

\* The bytes of a list are summed entry by entry...
LEMMA BytesSteps ==
    ASSUME NEW es \in Seq(Entry)
    PROVE  \E h \in [0..Len(es) -> Nat] :
               /\ h[0] = 0 /\ \A i \in 1..Len(es) : h[i] = h[i - 1] + Len(es[i].kv)
               /\ Bytes(es) = h[Len(es)]
<1> DEFINE n == Len(es)
           g == [x \in (1..n) \X Nat |-> x[2] + Len(es[x[1]].kv)]
           Iter(f) == f = [s \in SUBSET DOMAIN es |->
                              IF s = {} THEN 0 ELSE f[s \ {Max(s)}] + Len(es[Max(s)].kv)]
           iter == CHOOSE f : Iter(f)
<1>1. Bytes(es) = iter[DOMAIN es]
  BY Zenon DEF Bytes, FoldLeft, MapThenFoldSet
<1>2. DOMAIN es = 1..n /\ n \in Nat /\ \A i \in 1..n : Len(es[i].kv) \in Nat
  BY DEF Entry, KV
<1>3. g \in [(1..n) \X Nat -> Nat]
  BY <1>2
<1>4. ASSUME NEW s \in SUBSET (1..n), s # {} PROVE Max(s) \in 1..n
  BY <1>2, <1>4, MaxIn
<1> HIDE DEF n
<1>5. Iter(iter)
  <2> HIDE DEF g, Iter
  <2>1. PICK f \in [SUBSET (1..n) -> Nat] : FoldsBy(f, Nat, n, 0, g)
    <3>1. 0 \in Nat /\ n \in Nat
      BY <1>2
    <3> QED
      BY <3>1, <1>3, FoldExists
  <2>2. ASSUME NEW s \in SUBSET (1..n), s # {}
        PROVE  f[s] = f[s \ {Max(s)}] + Len(es[Max(s)].kv)
    <3>1. <<Max(s), f[s \ {Max(s)}]>> \in (1..n) \X Nat
      BY <1>4, <2>2
    <3>2. f[s] = g[<<Max(s), f[s \ {Max(s)}]>>]
      BY <2>1, <2>2 DEF FoldsBy
    <3> QED
      BY <3>1, <3>2 DEF g
  <2>3. Iter(f)
    <3> USE DEF Iter
    <3> QED
      BY <2>1, <2>2, <1>2 DEF FoldsBy
  <2> QED
    BY <2>3
<1>6. iter[{}] = 0
  BY <1>5
<1>7. ASSUME NEW s \in SUBSET (1..n), s # {}, iter[s \ {Max(s)}] \in Nat
      PROVE  iter[s] = g[<<Max(s), iter[s \ {Max(s)}]>>]
  <2> HIDE DEF iter
  <2>1. iter[s] = iter[s \ {Max(s)}] + Len(es[Max(s)].kv)
    BY <1>5, <1>7, <1>2
  <2> HIDE DEF Iter
  <2> QED
    BY <2>1, <1>4, <1>7
<1> HIDE DEF iter, g, Iter
<1>8. PICK h \in [0..n -> Nat] : StepsTo(iter[1..n], h, n, 0, g)
  <2>1. 0 \in Nat /\ n \in Nat
    BY <1>2
  <2>2. FoldsBy(iter, Nat, n, 0, g)
    BY <1>6, <1>7 DEF FoldsBy
  <2> QED
    BY <2>1, <2>2, <1>3, FoldSteps
<1>9. ASSUME NEW i \in 1..n PROVE h[i] = h[i - 1] + Len(es[i].kv)
  <2>1. i - 1 \in 0..n
    BY <1>2
  <2>2. <<i, h[i - 1]>> \in (1..n) \X Nat
    BY <2>1
  <2> QED
    BY <1>8, <2>2 DEF g, StepsTo
<1> QED
  BY <1>1, <1>2, <1>8, <1>9 DEF n, StepsTo

\* ...and however they are summed.
LEMMA BytesOf ==
    ASSUME NEW es \in Seq(Entry), NEW h, h[0] = 0,
           \A i \in 1..Len(es) : h[i] = h[i - 1] + Len(es[i].kv)
    PROVE  Bytes(es) = h[Len(es)] /\ Bytes(es) \in Nat
<1> DEFINE n == Len(es)
           g == [x \in (1..n) \X Nat |-> x[2] + Len(es[x[1]].kv)]
<1>1. PICK k \in [0..n -> Nat] : /\ k[0] = 0 /\ \A i \in 1..n : k[i] = k[i - 1] + Len(es[i].kv)
                                 /\ Bytes(es) = k[n]
  BY BytesSteps
<1> DEFINE M == {i \in Nat : i <= n => h[i] = k[i]}
<1>2. 0 \in M
  BY <1>1
<1>3. ASSUME NEW i \in M PROVE i + 1 \in M
  <2>1. SUFFICES ASSUME i + 1 <= n PROVE h[i + 1] = k[i + 1]
    OBVIOUS
  <2>2. h[i] = k[i] /\ i + 1 \in 1..n /\ i = (i + 1) - 1
    BY <2>1
  <2> QED
    BY <2>2, <1>1
<1> HIDE DEF M
<1>4. n \in M
  BY <1>2, <1>3, NatSet
<1> QED
  BY <1>1, <1>4 DEF M

\* One entry more costs its length.
LEMMA BytesAppend ==
    /\ Bytes(<<>>) = 0
    /\ \A es \in Seq(Entry) : \A e \in Entry :
           Bytes(Append(es, e)) = Bytes(es) + Len(e.kv) /\ Bytes(es) \in Nat
<1>1. Bytes(<<>>) = 0
  <2>1. <<>> \in Seq(Entry) /\ Len(<<>>) = 0
    OBVIOUS
  <2> DEFINE h == [i \in 0..0 |-> 0]
  <2>2. h[0] = 0 /\ \A i \in 1..Len(<<>>) : h[i] = h[i - 1] + Len(<<>>[i].kv)
    OBVIOUS
  <2> HIDE DEF h
  <2> QED
    BY <2>1, <2>2, BytesSteps
<1>2. ASSUME NEW es \in Seq(Entry), NEW e \in Entry
      PROVE  Bytes(Append(es, e)) = Bytes(es) + Len(e.kv) /\ Bytes(es) \in Nat
  <2> DEFINE n == Len(es)
             fs == Append(es, e)
  <2>1. fs \in Seq(Entry) /\ Len(fs) = n + 1 /\ n \in Nat /\ \A i \in 1..n : fs[i] = es[i]
    OBVIOUS
  <2>2. fs[n + 1] = e
    OBVIOUS
  <2> HIDE DEF fs
  <2>3. PICK h \in [0..Len(fs) -> Nat] :
            /\ h[0] = 0 /\ \A i \in 1..Len(fs) : h[i] = h[i - 1] + Len(fs[i].kv)
            /\ Bytes(fs) = h[Len(fs)]
    BY <2>1, BytesSteps
  <2>4. \A i \in 1..n : h[i] = h[i - 1] + Len(es[i].kv)
    BY <2>1, <2>3
  <2>5. Bytes(es) = h[n] /\ Bytes(es) \in Nat
    BY <2>3, <2>4, BytesOf
  <2>6. h[n + 1] = h[n] + Len(e.kv)
    BY <2>1, <2>2, <2>3
  <2> QED
    BY <2>1, <2>3, <2>5, <2>6 DEF fs
<1> QED
  BY <1>1, <1>2

\* What a list of entries costs is a number.
LEMMA BytesNat == \A es \in Seq(Entry) : Bytes(es) \in Nat
<1>1. ASSUME NEW es \in Seq(Entry) PROVE Bytes(es) \in Nat
  BY BytesSteps
<1> QED
  BY <1>1

\* A list of entries costs what its two parts do.
LEMMA BytesCut ==
    ASSUME NEW es \in Seq(Entry), NEW n \in 0..Len(es)
    PROVE  /\ Bytes(es) = Bytes(Take(es, n)) + Bytes(Drop(es, n))
           /\ {Bytes(es), Bytes(Take(es, n)), Bytes(Drop(es, n))} \subseteq Nat
<1>1. PICK h \in [0..Len(es) -> Nat] :
          /\ h[0] = 0 /\ \A i \in 1..Len(es) : h[i] = h[i - 1] + Len(es[i].kv)
          /\ Bytes(es) = h[Len(es)]
  BY BytesSteps
<1> DEFINE s == Take(es, n)
           t == Drop(es, n)
           k == [i \in 0..Len(t) |-> h[n + i] - h[n]]
<1>2. s \in Seq(Entry) /\ Len(s) = n /\ \A i \in 1..n : s[i] = es[i]
  BY TakeOf
<1>3. t \in Seq(Entry) /\ Len(t) = Len(es) - n /\ \A i \in 1..(Len(es) - n) : t[i] = es[n + i]
  BY DropOf
<1> HIDE DEF s, t
<1>4. Bytes(s) = h[n] /\ Bytes(s) \in Nat
  <2>1. n \in Nat /\ n <= Len(es) /\ Len(es) \in Nat
    OBVIOUS
  <2>2. \A i \in 1..n : i \in 1..Len(es)
    BY <2>1
  <2>3. h[0] = 0 /\ \A i \in 1..Len(s) : h[i] = h[i - 1] + Len(s[i].kv)
    BY <1>1, <1>2, <2>2
  <2>4. s \in Seq(Entry)
    BY <1>2
  <2>5. Bytes(s) = h[Len(s)] /\ Bytes(s) \in Nat
    BY <2>3, <2>4, BytesOf
  <2> QED
    BY <1>2, <2>5
<1>5. k[0] = 0 /\ k[Len(t)] = h[Len(es)] - h[n]
  BY <1>3
<1>6. ASSUME NEW i \in 1..Len(t) PROVE k[i] = k[i - 1] + Len(t[i].kv)
  <2>1. n + i \in 1..Len(es) /\ n + i - 1 \in 0..Len(es) /\ n + (i - 1) = n + i - 1
    <3>1. i \in 1..(Len(es) - n)
      BY <1>3
    <3> QED
      BY <3>1
  <2>2. h[n + i] = h[n + i - 1] + Len(t[i].kv)
    <3>1. t[i] = es[n + i]
      BY <1>3
    <3> DEFINE j == n + i
    <3>2. j \in 1..Len(es)
      BY <2>1
    <3> HIDE DEF j
    <3>3. h[j] = h[j - 1] + Len(es[j].kv)
      BY <1>1, <3>2
    <3> QED
      BY <3>1, <3>3 DEF j
  <2>3. Len(t[i].kv) \in Nat
    <3>1. t[i] \in Entry
      BY <1>3
    <3> QED
      BY <3>1 DEF Entry, KV
  <2>4. k[i] = h[n + i] - h[n] /\ k[i - 1] = h[n + i - 1] - h[n]
    BY <2>1
  <2>5. h[n] \in Nat /\ h[n + i] \in Nat /\ h[n + i - 1] \in Nat
    BY <2>1
  <2> DEFINE u == h[n + i]
             v == h[n + i - 1]
  <2>6. k[i] = u - h[n] /\ k[i - 1] = v - h[n] /\ u = v + Len(t[i].kv)
    BY <2>2, <2>4
  <2>7. h[n] \in Nat /\ u \in Nat /\ v \in Nat
    BY <2>5
  <2> HIDE DEF k, u, v
  <2> QED
    BY <2>3, <2>6, <2>7
<1> HIDE DEF k
<1>7. Bytes(t) = k[Len(t)] /\ Bytes(t) \in Nat
  BY <1>3, <1>5, <1>6, BytesOf
<1> QED
  BY <1>1, <1>4, <1>5, <1>7 DEF s, t

Halves == [same : Seq(Entry), other : Seq(Entry)]
Halved(s, e, ids) == IF e.ids = ids THEN [s EXCEPT !.same = Append(@, e)]
                     ELSE [s EXCEPT !.other = Append(@, e)]

\* A list is split entry by entry.
LEMMA SplitSteps ==
    ASSUME NEW es \in Seq(Entry), NEW ids
    PROVE  \E h \in [0..Len(es) -> Halves] :
               /\ h[0] = [same |-> <<>>, other |-> <<>>]
               /\ \A i \in 1..Len(es) : h[i] = Halved(h[i - 1], es[i], ids)
               /\ Split(es, ids) = h[Len(es)]
<1> DEFINE n == Len(es)
           none == [same |-> <<>>, other |-> <<>>]
           g == [x \in (1..n) \X Halves |-> Halved(x[2], es[x[1]], ids)]
           Iter(f) == f = [s \in SUBSET DOMAIN es |->
                              IF s = {} THEN none ELSE Halved(f[s \ {Max(s)}], es[Max(s)], ids)]
           iter == CHOOSE f : Iter(f)
<1>1. Split(es, ids) = iter[DOMAIN es]
  BY Zenon DEF Split, FoldLeft, MapThenFoldSet, Halved
<1>2. DOMAIN es = 1..n /\ n \in Nat /\ \A i \in 1..n : es[i] \in Entry
  OBVIOUS
<1>3. g \in [(1..n) \X Halves -> Halves] /\ none \in Halves
  <2>1. ASSUME NEW i \in 1..n, NEW s \in Halves PROVE Halved(s, es[i], ids) \in Halves
    <3>1. es[i] \in Entry /\ s.same \in Seq(Entry) /\ s.other \in Seq(Entry)
      BY <1>2 DEF Halves
    <3>2. Append(s.same, es[i]) \in Seq(Entry) /\ Append(s.other, es[i]) \in Seq(Entry)
      BY <3>1
    <3> QED
      BY <3>1, <3>2 DEF Halves, Halved
  <2>2. none \in Halves
    BY DEF Halves
  <2> QED
    BY <2>1, <2>2
<1>4. ASSUME NEW s \in SUBSET (1..n), s # {} PROVE Max(s) \in 1..n
  BY <1>2, <1>4, MaxIn
<1> HIDE DEF n, none
<1>5. Iter(iter)
  <2> HIDE DEF g, Iter
  <2>1. PICK f \in [SUBSET (1..n) -> Halves] : FoldsBy(f, Halves, n, none, g)
    BY <1>2, <1>3, FoldExists
  <2>2. ASSUME NEW s \in SUBSET (1..n), s # {}
        PROVE  f[s] = Halved(f[s \ {Max(s)}], es[Max(s)], ids)
    <3>1. <<Max(s), f[s \ {Max(s)}]>> \in (1..n) \X Halves
      BY <1>4, <2>2
    <3>2. f[s] = g[<<Max(s), f[s \ {Max(s)}]>>]
      BY <2>1, <2>2 DEF FoldsBy
    <3> QED
      BY <3>1, <3>2 DEF g
  <2>3. Iter(f)
    <3> USE DEF Iter
    <3> QED
      BY <2>1, <2>2, <1>2 DEF FoldsBy
  <2> QED
    BY <2>3
<1>6. iter[{}] = none
  BY <1>5
<1>7. ASSUME NEW s \in SUBSET (1..n), s # {}, iter[s \ {Max(s)}] \in Halves
      PROVE  iter[s] = g[<<Max(s), iter[s \ {Max(s)}]>>]
  <2> HIDE DEF iter
  <2>1. iter[s] = Halved(iter[s \ {Max(s)}], es[Max(s)], ids)
    BY <1>5, <1>7, <1>2
  <2> HIDE DEF Iter
  <2> QED
    BY <2>1, <1>4, <1>7
<1> HIDE DEF iter, g, Iter
<1>8. PICK h \in [0..n -> Halves] : StepsTo(iter[1..n], h, n, none, g)
  <2>1. FoldsBy(iter, Halves, n, none, g)
    BY <1>6, <1>7 DEF FoldsBy
  <2> QED
    BY <2>1, <1>2, <1>3, FoldSteps
<1>9. ASSUME NEW i \in 1..n PROVE h[i] = Halved(h[i - 1], es[i], ids)
  <2>1. i - 1 \in 0..n
    BY <1>2
  <2>2. <<i, h[i - 1]>> \in (1..n) \X Halves
    BY <2>1
  <2> QED
    BY <1>8, <2>2 DEF g, StepsTo
<1> QED
  BY <1>1, <1>2, <1>8, <1>9 DEF n, none, StepsTo

\* Of entries with different ids at most one is of the ids asked for; the others
\* keep being different, and no entry is lost.
SplitInto(s, es, k, ids) ==
    /\ \/ s.same = <<>> /\ \A j \in 1..k : es[j].ids # ids
       \/ \E j \in 1..k : es[j].ids = ids /\ s.same = <<es[j]>>
    /\ \A i \in DOMAIN s.other :
           s.other[i].ids # ids /\ \E j \in 1..k : s.other[i] = es[j]
    /\ Distinct(s.other)
    /\ Len(s.same) + Len(s.other) = k
    /\ Bytes(s.same) + Bytes(s.other) = Bytes(Take(es, k))

\* Split() sorts a list by the ids, keeping the order and the cost.
LEMMA SplitHalves ==
    ASSUME NEW es \in Seq(Entry), NEW ids, Distinct(es)
    PROVE  Split(es, ids) \in Halves /\ SplitInto(Split(es, ids), es, Len(es), ids)
<1> DEFINE n == Len(es)
<1>1. PICK h \in [0..n -> Halves] :
          /\ h[0] = [same |-> <<>>, other |-> <<>>]
          /\ \A i \in 1..n : h[i] = Halved(h[i - 1], es[i], ids)
          /\ Split(es, ids) = h[n]
  BY SplitSteps
<1> DEFINE M == {k \in Nat : k <= n => SplitInto(h[k], es, k, ids)}
<1>2. n \in Nat /\ \A i \in 1..n : es[i] \in Entry
  OBVIOUS
<1>3. 0 \in M
  <2>1. Take(es, 0) = <<>>
    BY TakeAll
  <2>2. Bytes(<<>>) + Bytes(<<>>) = Bytes(<<>>)
    BY BytesAppend
  <2>3. h[0].same = <<>> /\ h[0].other = <<>> /\ DOMAIN <<>> = {} /\ Len(<<>>) = 0
    BY <1>1
  <2>4. SplitInto(h[0], es, 0, ids)
    BY <2>1, <2>2, <2>3 DEF SplitInto, Distinct
  <2> HIDE DEF n
  <2> QED
    BY <2>4
<1>4. ASSUME NEW k \in M PROVE k + 1 \in M
  <2>1. SUFFICES ASSUME k + 1 <= n PROVE SplitInto(h[k + 1], es, k + 1, ids)
    OBVIOUS
  <2> DEFINE s == h[k]
             e == es[k + 1]
  <2>2. SplitInto(s, es, k, ids) /\ s \in Halves /\ e \in Entry /\ k \in Nat /\ k + 1 \in 1..n
    BY <2>1, <1>2
  <2>3. h[k + 1] = Halved(s, e, ids)
    <3>1. k = (k + 1) - 1
      BY <2>2
    <3> QED
      BY <1>1, <2>2, <3>1
  <2>4. \A j \in 1..k : es[j].ids # e.ids /\ es[j] \in Entry
    BY <2>2, <1>2 DEF Distinct
  <2>5. Bytes(Take(es, k + 1)) = Bytes(Take(es, k)) + Len(e.kv)
    <3>0. {k, k + 1} \subseteq Int /\ k >= 0 /\ k <= Len(es) /\ k + 1 <= Len(es)
      BY <2>1, <2>2
    <3>1. Take(es, k) \in Seq(Entry) /\ Len(Take(es, k)) = k /\ \A i \in 1..k : Take(es, k)[i] = es[i]
      BY <3>0, TakeOf
    <3>2. /\ Take(es, k + 1) \in Seq(Entry) /\ Len(Take(es, k + 1)) = k + 1
          /\ \A i \in 1..(k + 1) : Take(es, k + 1)[i] = es[i]
      BY <3>0, TakeOf
    <3>3. Append(Take(es, k), e) \in Seq(Entry) /\ Len(Append(Take(es, k), e)) = k + 1
      BY <3>1, <2>2
    <3>4. \A i \in 1..(k + 1) : Append(Take(es, k), e)[i] = es[i]
      BY <3>1, <2>2
    <3>5. Take(es, k + 1) = Append(Take(es, k), e)
      BY <3>2, <3>3, <3>4, SeqEqual
    <3> QED
      BY <3>1, <3>5, <2>2, BytesAppend
  <2>6. Bytes(s.same) \in Nat /\ Bytes(s.other) \in Nat /\ Bytes(Take(es, k)) \in Nat /\ Len(e.kv) \in Nat
    <3>1. s.same \in Seq(Entry) /\ s.other \in Seq(Entry)
      BY <2>2 DEF Halves
    <3>2. Take(es, k) \in Seq(Entry)
      <4>1. k \in Int /\ k <= Len(es)
        BY <2>1, <2>2
      <4> QED
        BY <4>1, TakeOf
    <3>3. Len(e.kv) \in Nat
      BY <2>2 DEF Entry, KV
    <3> QED
      BY <3>1, <3>2, <3>3, BytesNat
  <2> HIDE DEF s, e, n, M
  <2>7. CASE e.ids = ids
    <3>1. s.same = <<>> /\ \A j \in 1..k : es[j].ids # ids
      BY <2>2, <2>4, <2>7 DEF SplitInto
    <3>2. h[k + 1].other = s.other /\ h[k + 1].same = <<e>>
      BY <2>2, <2>3, <2>7, <3>1 DEF Halved, Halves
    <3>3. Bytes(<<e>>) = Len(e.kv)
      <4>1. Append(<<>>, e) = <<e>>
        OBVIOUS
      <4>2. <<>> \in Seq(Entry)
        OBVIOUS
      <4>3. Bytes(Append(<<>>, e)) = Bytes(<<>>) + Len(e.kv) /\ Bytes(<<>>) = 0
        BY <4>2, <2>2, BytesAppend
      <4>4. Bytes(Append(<<>>, e)) = Len(e.kv)
        BY <4>3, <2>6
      <4> QED
        BY <4>1, <4>4, Zenon
    <3>4. Len(s.other) = k /\ Bytes(s.other) = Bytes(Take(es, k))
      <4>1. Len(s.same) = 0 /\ Bytes(s.same) = 0
        BY <3>1, BytesAppend
      <4> QED
        BY <4>1, <2>2, <2>6 DEF SplitInto, Halves
    <3>5. \E j \in 1..(k + 1) : es[j].ids = ids /\ h[k + 1].same = <<es[j]>>
      <4>1. k + 1 \in 1..(k + 1)
        BY <2>2
      <4> QED
        BY <4>1, <3>2, <2>7 DEF e
    <3>6. \A i \in DOMAIN s.other :
              s.other[i].ids # ids /\ \E j \in 1..(k + 1) : s.other[i] = es[j]
      <4>1. 1..k \subseteq 1..(k + 1)
        BY <2>2
      <4> QED
        BY <4>1, <2>2 DEF SplitInto
    <3>7. Distinct(s.other) /\ Len(<<e>>) = 1
      BY <2>2 DEF SplitInto
    <3>8. Bytes(<<e>>) + Bytes(s.other) = Bytes(Take(es, k + 1)) /\ Len(<<e>>) + Len(s.other) = k + 1
      BY <3>3, <3>4, <3>7, <2>5, <2>6, <2>2
    <3> QED
      BY <3>2, <3>5, <3>6, <3>7, <3>8 DEF SplitInto
  <2>8. CASE e.ids # ids
    <3> DEFINE others == Append(s.other, e)
               l == Len(s.other)
    <3>0. s.other \in Seq(Entry) /\ s.same \in Seq(Entry)
      BY <2>2 DEF Halves
    <3>1. h[k + 1].other = others /\ h[k + 1].same = s.same
      BY <2>2, <2>3, <2>8 DEF Halved, Halves
    <3>2. /\ others \in Seq(Entry) /\ Len(others) = l + 1 /\ l \in Nat /\ others[l + 1] = e
          /\ \A i \in 1..l : others[i] = s.other[i]
          /\ DOMAIN others = 1..(l + 1) /\ DOMAIN s.other = 1..l
      BY <3>0, <2>2
    <3>3. Bytes(others) = Bytes(s.other) + Len(e.kv)
      BY <3>0, <2>2, BytesAppend
    <3> HIDE DEF others, l
    <3>4. \/ s.same = <<>> /\ \A j \in 1..(k + 1) : es[j].ids # ids
          \/ \E j \in 1..(k + 1) : es[j].ids = ids /\ s.same = <<es[j]>>
      <4>1. CASE s.same = <<>> /\ \A j \in 1..k : es[j].ids # ids
        <5>1. \A j \in 1..(k + 1) : j \in 1..k \/ j = k + 1
          BY <2>2
        <5> QED
          BY <5>1, <4>1, <2>8 DEF e
      <4>2. CASE \E j \in 1..k : es[j].ids = ids /\ s.same = <<es[j]>>
        <5>1. 1..k \subseteq 1..(k + 1)
          BY <2>2
        <5> QED
          BY <5>1, <4>2
      <4> QED
        BY <4>1, <4>2, <2>2 DEF SplitInto
    <3>5. ASSUME NEW i \in DOMAIN others
          PROVE  others[i].ids # ids /\ \E j \in 1..(k + 1) : others[i] = es[j]
      <4>1. CASE i = l + 1
        <5>1. k + 1 \in 1..(k + 1)
          BY <2>2
        <5> QED
          BY <5>1, <4>1, <3>2, <2>8 DEF e
      <4>2. CASE i \in 1..l
        <5>1. others[i].ids # ids /\ \E j \in 1..k : others[i] = es[j]
          <6>1. \A m \in DOMAIN s.other :
                    s.other[m].ids # ids /\ \E j \in 1..k : s.other[m] = es[j]
            BY <2>2 DEF SplitInto
          <6>2. others[i] = s.other[i] /\ i \in DOMAIN s.other
            BY <4>2, <3>2
          <6> QED
            BY <6>1, <6>2
        <5>2. 1..k \subseteq 1..(k + 1)
          BY <2>2
        <5> QED
          BY <5>1, <5>2
      <4> QED
        BY <4>1, <4>2, <3>2
    <3>6. Distinct(others)
      <4>1. \A i \in 1..l : others[i].ids # e.ids
        <5>1. ASSUME NEW i \in 1..l PROVE others[i].ids # e.ids
          <6>1. i \in DOMAIN s.other /\ others[i] = s.other[i]
            BY <3>2
          <6>2. PICK j \in 1..k : others[i] = es[j]
            BY <6>1, <2>2 DEF SplitInto
          <6> QED
            BY <6>2, <2>4
        <5> QED
          BY <5>1
      <4>2. \A i, j \in 1..l : i # j => others[i].ids # others[j].ids
        <5>1. Distinct(s.other)
          BY <2>2 DEF SplitInto
        <5> QED
          BY <5>1, <3>2 DEF Distinct
      <4>3. \A i \in DOMAIN others : i \in 1..l \/ i = l + 1
        BY <3>2
      <4> QED
        BY <4>1, <4>2, <4>3, <3>2 DEF Distinct
    <3>7. /\ Bytes(s.same) + Bytes(others) = Bytes(Take(es, k + 1))
          /\ Len(s.same) + Len(others) = k + 1
      <4>1. Len(s.same) \in Nat
        BY <3>0
      <4>2. Bytes(s.same) + Bytes(s.other) = Bytes(Take(es, k))
        BY <2>2 DEF SplitInto
      <4>3. Len(s.same) + Len(others) = k + 1
        <5>1. Len(s.same) + l = k
          BY <2>2 DEF SplitInto, l
        <5>2. Len(others) = l + 1 /\ l \in Nat /\ k \in Nat
          BY <3>2, <2>2
        <5> DEFINE p == Len(s.same)
                   q == Len(others)
        <5>3. p \in Nat /\ p + l = k /\ q = l + 1
          BY <4>1, <5>1, <5>2
        <5> HIDE DEF p, q
        <5>4. p + q = k + 1
          BY <5>2, <5>3
        <5> QED
          BY <5>4 DEF p, q
      <4>4. Bytes(s.same) + Bytes(others) = Bytes(Take(es, k + 1))
        BY <4>2, <3>3, <2>5, <2>6
      <4> QED
        BY <4>3, <4>4
    <3> QED
      BY <3>1, <3>4, <3>5, <3>6, <3>7 DEF SplitInto
  <2> QED
    BY <2>7, <2>8
<1>5. n \in M
  <2> HIDE DEF M, n
  <2> QED
    BY <1>2, <1>3, <1>4, NatSet
<1> QED
  BY <1>1, <1>2, <1>5

\* What a prefix cache is: every entry's ids are those of its KV, no ids are
\* there twice, and the bytes counted are those held, within both bounds.
Honest(es) == \A i \in DOMAIN es : es[i].ids = Labels(es[i].kv)
Caches == {c \in [entries : Seq(Entry), bytes : Int] :
              /\ Honest(c.entries) /\ Distinct(c.entries)
              /\ c.bytes = Bytes(c.entries) /\ c.bytes <= MaxBytes
              /\ Len(c.entries) <= MaxEntries}

\* The bounds are numbers.
LEMMA ConstantTypes ==
    /\ MaxBytes \in Nat \ {0} /\ MaxEntries \in Nat \ {0} /\ Every \in Nat \ {0}
    /\ MinHit \in Nat /\ Margin \in Nat /\ MaxNew \in Nat /\ MaxTurns \in Nat /\ MaxFaults \in Nat
BY DecodingAssumption

\* Entries are dropped until both bounds hold, which they do at the latest when
\* none is left.
LEMMA EvictedSound ==
    ASSUME NEW c \in [entries : Seq(Entry), bytes : Int],
           Honest(c.entries), Distinct(c.entries), c.bytes = Bytes(c.entries)
    PROVE  Evicted(c) \in Caches
<1> DEFINE es == c.entries
           Enough(n) == /\ Len(es) - n <= MaxEntries
                        /\ c.bytes - Bytes(Take(es, n)) <= MaxBytes
           Right(n) == Enough(n) /\ \A m \in 0..(n - 1) : ~Enough(m)
           n == CHOOSE n \in 0..Len(es) : Right(n)
<1>1. es \in Seq(Entry) /\ Len(es) \in Nat
  OBVIOUS
<1>2. Evicted(c) = [entries |-> Drop(es, n), bytes |-> c.bytes - Bytes(Take(es, n))]
  BY DEF Evicted
<1> HIDE DEF es
<1>3. n \in 0..Len(es) /\ Enough(n)
  <2> DEFINE T == {m \in 0..Len(es) : Enough(m)}
  <2>1. Len(es) \in T
    <3>1. Take(es, Len(es)) = es
      BY <1>1, TakeAll
    <3>2. c.bytes = Bytes(es) /\ Bytes(es) \in Nat
      BY <1>1, BytesNat DEF es
    <3> QED
      BY <1>1, <3>1, <3>2, ConstantTypes
  <2> HIDE DEF Enough
  <2>2. PICK m \in T : \A y \in T : m <= y
    <3>1. T \in SUBSET Nat /\ T # {}
      BY <2>1, <1>1
    <3> QED
      BY <3>1, LeastOf
  <2>3. m \in 0..Len(es) /\ Enough(m)
    OBVIOUS
  <2>4. ASSUME NEW k \in 0..(m - 1) PROVE ~Enough(k)
    <3>1. k \in 0..Len(es) /\ k < m
      BY <2>3, <1>1
    <3>2. k \notin T
      <4> HIDE DEF T
      <4> QED
        BY <2>2, <2>3, <3>1
    <3> QED
      BY <3>1, <3>2
  <2>5. Right(m)
    BY <2>3, <2>4
  <2> HIDE DEF Right
  <2>6. n \in 0..Len(es) /\ Right(n)
    BY <2>3, <2>5
  <2> HIDE DEF n
  <2> QED
    BY <2>6 DEF Right
<1> DEFINE k == n
<1> HIDE DEF n
<1> DEFINE fs == Drop(es, n)
<1>4. fs \in Seq(Entry) /\ Len(fs) = Len(es) - n /\ \A i \in 1..Len(fs) : fs[i] = es[n + i] /\ n + i \in DOMAIN es
  <2>1. n \in Nat /\ n <= Len(es)
    BY <1>3, <1>1
  <2>2. fs \in Seq(Entry) /\ Len(fs) = Len(es) - n /\ \A i \in 1..(Len(es) - n) : fs[i] = es[n + i]
    BY <2>1, <1>1, DropOf
  <2>3. \A i \in 1..(Len(es) - n) : n + i \in 1..Len(es)
    BY <2>1, <1>1
  <2>4. DOMAIN es = 1..Len(es)
    BY <1>1
  <2> HIDE DEF fs
  <2> QED
    BY <2>2, <2>3, <2>4
<1>5. /\ Bytes(es) = Bytes(Take(es, n)) + Bytes(fs)
      /\ Bytes(es) \in Nat /\ Bytes(Take(es, n)) \in Nat /\ Bytes(fs) \in Nat
  BY <1>1, <1>3, BytesCut
<1> HIDE DEF fs
<1>6. Honest(fs) /\ Distinct(fs)
  <2>1. DOMAIN fs = 1..Len(fs) /\ n \in Nat
    BY <1>4, <1>3
  <2>2. Honest(es) /\ Distinct(es)
    BY DEF es
  <2>3. Honest(fs)
    BY <1>4, <2>1, <2>2 DEF Honest
  <2>4. ASSUME NEW i \in DOMAIN fs, NEW j \in DOMAIN fs, i # j PROVE fs[i].ids # fs[j].ids
    <3>1. n + i \in DOMAIN es /\ n + j \in DOMAIN es /\ fs[i] = es[n + i] /\ fs[j] = es[n + j]
      BY <1>4, <2>1
    <3>2. n + i # n + j
      BY <2>1, <2>4
    <3> QED
      BY <3>1, <3>2, <2>2 DEF Distinct
  <2>5. Distinct(fs)
    BY <2>4 DEF Distinct
  <2> QED
    BY <2>3, <2>5
<1>7. c.bytes - Bytes(Take(es, n)) = Bytes(fs)
  <2>1. c.bytes = Bytes(es)
    BY DEF es
  <2> QED
    BY <1>5, <2>1
<1>8. Bytes(fs) <= MaxBytes /\ Len(fs) <= MaxEntries
  BY <1>3, <1>4, <1>7
<1> QED
  BY <1>2, <1>4, <1>5, <1>6, <1>7, <1>8 DEF Caches, fs

\* An entry put in front of nothing, behind the others: the longest-lived last.
LEMMA AppendSound ==
    ASSUME NEW es \in Seq(Entry), NEW e \in Entry, Honest(es), Distinct(es),
           e.ids = Labels(e.kv), \A i \in DOMAIN es : es[i].ids # e.ids
    PROVE  /\ Append(es, e) \in Seq(Entry) /\ Honest(Append(es, e)) /\ Distinct(Append(es, e))
           /\ Len(Append(es, e)) = Len(es) + 1
<1> DEFINE fs == Append(es, e)
           n == Len(es)
<1>1. /\ fs \in Seq(Entry) /\ Len(fs) = n + 1 /\ n \in Nat
      /\ DOMAIN es = 1..n /\ DOMAIN fs = 1..(n + 1)
      /\ fs[n + 1] = e /\ \A i \in 1..n : fs[i] = es[i]
  OBVIOUS
<1> HIDE DEF fs, n
<1>2. \A i \in DOMAIN fs : i = n + 1 \/ i \in 1..n
  BY <1>1
<1>3. Honest(fs)
  BY <1>1, <1>2 DEF Honest
<1>4. Distinct(fs)
  BY <1>1, <1>2 DEF Distinct
<1> QED
  BY <1>1, <1>3, <1>4 DEF fs, n

\* _insert() keeps the cache sound: a replaced or evicted entry gives back its bytes.
LEMMA InsertSound ==
    ASSUME NEW c \in Caches, NEW e \in Entry, e.ids = Labels(e.kv)
    PROVE  Insert(c, e) \in Caches
<1>1. CASE Len(e.kv) > MaxBytes
  BY <1>1 DEF Insert
<1>2. CASE ~(Len(e.kv) > MaxBytes)
  <2> DEFINE es == c.entries
             s == Split(es, e.ids)
             d == [entries |-> Append(s.other, e), bytes |-> c.bytes - Bytes(s.same) + Len(e.kv)]
  <2>1. es \in Seq(Entry) /\ Honest(es) /\ Distinct(es) /\ c.bytes = Bytes(es)
    BY DEF Caches
  <2>2. s \in Halves /\ SplitInto(s, es, Len(es), e.ids)
    BY <2>1, SplitHalves
  <2>3. Insert(c, e) = Evicted(d)
    BY <1>2 DEF Insert
  <2> HIDE DEF s, es
  <2>4. s.same \in Seq(Entry) /\ s.other \in Seq(Entry)
    BY <2>2 DEF Halves
  <2>5. Distinct(s.other) /\ \A i \in DOMAIN s.other : s.other[i].ids # e.ids
    BY <2>2 DEF SplitInto
  <2>6. Honest(s.other)
    <3>1. DOMAIN es = 1..Len(es)
      BY <2>1
    <3>2. ASSUME NEW i \in DOMAIN s.other PROVE s.other[i].ids = Labels(s.other[i].kv)
      <4>1. PICK j \in 1..Len(es) : s.other[i] = es[j]
        BY <2>2 DEF SplitInto
      <4> QED
        BY <4>1, <3>1, <2>1 DEF Honest
    <3> QED
      BY <3>2 DEF Honest
  <2>7. /\ d.entries \in Seq(Entry) /\ Honest(d.entries) /\ Distinct(d.entries)
        /\ d.entries = Append(s.other, e)
    BY <2>4, <2>5, <2>6, AppendSound
  <2>8. d.bytes = Bytes(d.entries) /\ d.bytes \in Int
    <3>1. Take(es, Len(es)) = es
      BY <2>1, TakeAll
    <3>2. Bytes(s.same) + Bytes(s.other) = c.bytes
      BY <2>1, <2>2, <3>1 DEF SplitInto
    <3>3. Bytes(s.same) \in Nat /\ Bytes(s.other) \in Nat
      BY <2>4, BytesNat
    <3>4. Bytes(Append(s.other, e)) = Bytes(s.other) + Len(e.kv) /\ Len(e.kv) \in Nat
      <4>1. Len(e.kv) \in Nat
        BY DEF Entry, KV
      <4> QED
        BY <4>1, <2>4, BytesAppend
    <3>5. d.bytes = c.bytes - Bytes(s.same) + Len(e.kv)
      OBVIOUS
    <3> HIDE DEF d
    <3> QED
      BY <2>7, <3>2, <3>3, <3>4, <3>5
  <2>9. d \in [entries : Seq(Entry), bytes : Int]
    BY <2>7, <2>8
  <2> HIDE DEF d
  <2> QED
    BY <2>3, <2>7, <2>8, <2>9, EvictedSound
<1> QED
  BY <1>1, <1>2

\* A lookup that hits moves its entry to the end and changes nothing else.
LEMMA RefreshSound ==
    ASSUME NEW c \in Caches, NEW e \in Range(c.entries)
    PROVE  [c EXCEPT !.entries = Append(Split(@, e.ids).other, e)] \in Caches
<1> DEFINE es == c.entries
           s == Split(es, e.ids)
           d == [c EXCEPT !.entries = Append(s.other, e)]
<1>1. /\ es \in Seq(Entry) /\ Honest(es) /\ Distinct(es) /\ c.bytes = Bytes(es)
      /\ c.bytes <= MaxBytes /\ Len(es) <= MaxEntries /\ DOMAIN es = 1..Len(es)
  BY DEF Caches
<1>2. s \in Halves /\ SplitInto(s, es, Len(es), e.ids)
  BY <1>1, SplitHalves
<1>0. d.entries = Append(s.other, e) /\ d.bytes = c.bytes /\ d = [entries |-> Append(s.other, e), bytes |-> c.bytes]
  <2>1. c \in [entries : Seq(Entry), bytes : Int]
    BY DEF Caches
  <2> DEFINE x == Append(s.other, e)
  <2>2. d = [c EXCEPT !.entries = x]
    OBVIOUS
  <2> HIDE DEF s, x, d
  <2>3. d = [entries |-> x, bytes |-> c.bytes]
    BY <2>1, <2>2
  <2>4. d.entries = x /\ d.bytes = c.bytes
    BY <2>3
  <2> QED
    BY <2>3, <2>4 DEF x
<1>3. PICK j \in 1..Len(es) : e = es[j]
  BY <1>1 DEF Range
<1>4. e \in Entry /\ e.ids = Labels(e.kv)
  BY <1>1, <1>3 DEF Honest
<1>5. s.same \in Seq(Entry) /\ s.other \in Seq(Entry)
  <2> HIDE DEF s
  <2> QED
    BY <1>2 DEF Halves
<1> HIDE DEF s, es, d
<1>6. s.same = <<e>>
  <2>1. PICK i \in 1..Len(es) : es[i].ids = e.ids /\ s.same = <<es[i]>>
    BY <1>2, <1>3 DEF SplitInto
  <2>2. i = j
    BY <1>1, <1>3, <2>1 DEF Distinct
  <2> QED
    BY <1>3, <2>1, <2>2
<1>7. Distinct(s.other) /\ \A i \in DOMAIN s.other : s.other[i].ids # e.ids
  BY <1>2 DEF SplitInto
<1>8. Honest(s.other)
  <2>2. ASSUME NEW i \in DOMAIN s.other PROVE s.other[i].ids = Labels(s.other[i].kv)
    <3>1. PICK l \in 1..Len(es) : s.other[i] = es[l]
      BY <1>2 DEF SplitInto
    <3> QED
      BY <3>1, <1>1 DEF Honest
  <2> QED
    BY <2>2 DEF Honest
<1>9. /\ d.entries \in Seq(Entry) /\ Honest(d.entries) /\ Distinct(d.entries)
      /\ Len(d.entries) = Len(s.other) + 1
  BY <1>0, <1>4, <1>5, <1>7, <1>8, AppendSound
<1>10. Len(d.entries) = Len(es) /\ Len(es) \in Nat
  <2>1. Len(s.same) + Len(s.other) = Len(es) /\ Len(s.same) = 1
    BY <1>2, <1>6 DEF SplitInto
  <2>2. Len(s.other) \in Nat /\ Len(es) \in Nat
    BY <1>5, <1>1
  <2> QED
    BY <1>9, <2>1, <2>2
<1>11. d.bytes = Bytes(d.entries)
  <2>1. Bytes(s.same) + Bytes(s.other) = Bytes(es)
    <3>1. Take(es, Len(es)) = es
      BY <1>1, TakeAll
    <3> QED
      BY <1>2, <3>1 DEF SplitInto
  <2>2. Bytes(s.same) = Len(e.kv) /\ Len(e.kv) \in Nat
    <3>1. Len(e.kv) \in Nat
      BY <1>4 DEF Entry, KV
    <3>2. Append(<<>>, e) = <<e>> /\ <<>> \in Seq(Entry)
      OBVIOUS
    <3>3. Bytes(Append(<<>>, e)) = Bytes(<<>>) + Len(e.kv) /\ Bytes(<<>>) = 0
      BY <1>4, <3>2, BytesAppend
    <3>4. Bytes(Append(<<>>, e)) = Len(e.kv)
      BY <3>1, <3>3
    <3> QED
      BY <1>6, <3>1, <3>2, <3>4, Zenon
  <2>3. Bytes(Append(s.other, e)) = Bytes(s.other) + Len(e.kv) /\ Bytes(s.other) \in Nat
    BY <1>4, <1>5, BytesAppend
  <2> QED
    BY <1>0, <1>1, <2>1, <2>2, <2>3
<1> QED
  <2>1. c.bytes \in Int
    BY DEF Caches
  <2>2. d \in [entries : Seq(Entry), bytes : Int]
    BY <1>0, <1>9, <2>1
  <2>3. d \in Caches
    BY <2>2, <1>0, <1>1, <1>9, <1>10, <1>11 DEF Caches
  <2> QED
    BY <2>3 DEF d, s, es

\* store() inserts snapshots of several lengths one after the other.
LEMMA StoreSound ==
    ASSUME store \in Caches, NEW ids \in Ids, NEW kv \in KV, Len(ids) = Len(kv), ids = Labels(kv),
           NEW ns \in Seq(1..Len(kv))
    PROVE  Store(ids, kv, ns) \in Caches
<1> DEFINE n == Len(ns)
           cut(m) == [ids |-> Take(ids, Least(m, Len(ids))), kv |-> Take(kv, m)]
           g == [x \in (1..n) \X Caches |-> Insert(x[2], cut(ns[x[1]]))]
           Iter(f) == f = [s \in SUBSET DOMAIN ns |->
                              IF s = {} THEN store ELSE Insert(f[s \ {Max(s)}], cut(ns[Max(s)]))]
           iter == CHOOSE f : Iter(f)
<1>1. Store(ids, kv, ns) = iter[DOMAIN ns]
  BY Zenon DEF Store, FoldLeft, MapThenFoldSet
<1>2. DOMAIN ns = 1..n /\ n \in Nat /\ \A i \in 1..n : ns[i] \in 1..Len(kv)
  OBVIOUS
<1>3. ASSUME NEW m \in 1..Len(kv) PROVE cut(m) \in Entry /\ cut(m).ids = Labels(cut(m).kv)
  <2>1. Len(kv) \in Nat /\ m \in Int /\ m >= 0 /\ m <= Len(kv) /\ m <= Len(ids) /\ Least(m, Len(ids)) = m
    <3>1. Len(kv) \in Nat
      BY DEF KV
    <3> QED
      BY <3>1 DEF Least
  <2>2. /\ Take(ids, m) \in Ids /\ Len(Take(ids, m)) = m
        /\ \A i \in 1..m : Take(ids, m)[i] = ids[i]
    BY <2>1, TakeOf DEF Ids
  <2>3. /\ Take(kv, m) \in KV /\ Len(Take(kv, m)) = m
        /\ \A i \in 1..m : Take(kv, m)[i] = kv[i]
    BY <2>1, TakeOf DEF KV
  <2>4. \A i \in 1..m : ids[i] = kv[i].id
    <3>1. 1..m \subseteq 1..Len(kv) /\ DOMAIN kv = 1..Len(kv)
      BY <2>1 DEF KV
    <3> QED
      BY <3>1 DEF Labels
  <2>5. DOMAIN Take(ids, m) = 1..m /\ DOMAIN Take(kv, m) = 1..m
    BY <2>2, <2>3 DEF Ids, KV
  <2>6. Take(ids, m) = [i \in 1..m |-> kv[i].id]
    BY <2>2, <2>4, <2>5 DEF Ids
  <2>7. Labels(Take(kv, m)) = [i \in 1..m |-> kv[i].id]
    BY <2>3, <2>5 DEF Labels
  <2>8. cut(m) = [ids |-> Take(ids, m), kv |-> Take(kv, m)]
    BY <2>1
  <2> HIDE DEF cut
  <2> QED
    BY <2>2, <2>3, <2>6, <2>7, <2>8 DEF Entry
<1> HIDE DEF n, cut
<1>4. g \in [(1..n) \X Caches -> Caches]
  BY <1>2, <1>3, InsertSound
<1>5. ASSUME NEW s \in SUBSET (1..n), s # {} PROVE Max(s) \in 1..n
  BY <1>2, <1>5, MaxIn
<1>6. Iter(iter)
  <2> HIDE DEF g, Iter
  <2>1. PICK f \in [SUBSET (1..n) -> Caches] : FoldsBy(f, Caches, n, store, g)
    BY <1>2, <1>4, FoldExists
  <2>2. ASSUME NEW s \in SUBSET (1..n), s # {}
        PROVE  f[s] = Insert(f[s \ {Max(s)}], cut(ns[Max(s)]))
    <3>1. <<Max(s), f[s \ {Max(s)}]>> \in (1..n) \X Caches
      BY <1>5, <2>2
    <3>2. f[s] = g[<<Max(s), f[s \ {Max(s)}]>>]
      BY <2>1, <2>2 DEF FoldsBy
    <3> QED
      BY <3>1, <3>2 DEF g
  <2>3. Iter(f)
    <3> USE DEF Iter
    <3> QED
      BY <2>1, <2>2, <1>2 DEF FoldsBy
  <2> QED
    BY <2>3
<1>7. iter[{}] = store
  BY <1>6
<1>8. ASSUME NEW s \in SUBSET (1..n), s # {}, iter[s \ {Max(s)}] \in Caches
      PROVE  iter[s] = g[<<Max(s), iter[s \ {Max(s)}]>>]
  <2> HIDE DEF iter
  <2>1. iter[s] = Insert(iter[s \ {Max(s)}], cut(ns[Max(s)]))
    BY <1>6, <1>8, <1>2
  <2> HIDE DEF Iter
  <2> QED
    BY <2>1, <1>5, <1>8
<1> HIDE DEF iter, g, Iter
<1>9. PICK h \in [0..n -> Caches] : StepsTo(iter[1..n], h, n, store, g)
  <2>1. FoldsBy(iter, Caches, n, store, g)
    BY <1>7, <1>8 DEF FoldsBy
  <2> QED
    BY <2>1, <1>2, <1>4, FoldSteps
<1> QED
  BY <1>1, <1>2, <1>9 DEF StepsTo

\* The lengths store() takes snapshots at are within what it was given.
LEMMA SnapshotLengthsIn ==
    ASSUME NEW ids, NEW kv \in KV
    PROVE  SnapshotLengths(ids, kv) \in Seq(1..Len(kv))
<1> DEFINE n == Len(kv)
           q == (n - 1) \div Every + 1
           ns == [i \in 1..q |-> Least(i * Every, n)]
<1>1. n \in Nat /\ Every \in Nat /\ Every > 0
  BY ConstantTypes DEF KV
<1>4. SnapshotLengths(ids, kv) = <<>> \/ SnapshotLengths(ids, kv) = ns
  BY Zenon DEF SnapshotLengths
<1>2. CASE n = 0
  <2>1. q = 0
    <3>1. (0 - 1) \div Every = 0 - 1
      BY <1>1
    <3> QED
      BY <3>1, <1>2
  <2>2. ns = <<>>
    BY <2>1
  <2>3. <<>> \in Seq(1..n)
    OBVIOUS
  <2> HIDE DEF ns
  <2> QED
    BY <2>2, <2>3, <1>4
<1>3. CASE n > 0
  <2>1. q \in Nat
    <3>1. (n - 1) \div Every \in Nat
      BY <1>1, <1>3
    <3> QED
      BY <3>1
  <2>2. ASSUME NEW i \in 1..q PROVE Least(i * Every, n) \in 1..n
    <3>1. i * Every \in Nat /\ i * Every >= 1
      BY <1>1, <2>1
    <3> QED
      BY <3>1, <1>1, <1>3 DEF Least
  <2>3. ns \in Seq(1..n)
    <3> HIDE DEF q
    <3>1. ns \in [1..q -> 1..n]
      BY <2>2
    <3> QED
      BY <2>1, <3>1
  <2>4. <<>> \in Seq(1..n)
    OBVIOUS
  <2> HIDE DEF ns
  <2> QED
    BY <2>3, <2>4, <1>4
<1> QED
  BY <1>1, <1>2, <1>3

-----------------------------------------------------------------------------
(* The shape of a run.                                                     *)

Past == [att : KV, lin : Ids]
Pairs == Seq([at : Nat, next : Vocab])
Drafters == [k : 0..config.maxDraft, ids : Ids, kv : Ids, pending : Pairs, committed : Pairs]

\* The ids of a run: `generated` behind the seeded prefix is the prompt and what
\* was emitted, or short of it once the token buffer was full.
RunInv ==
    /\ phase # "idle" => prompt # <<>> /\ gen # <<>> /\ hit < Len(prompt)
    /\ hit > 0 => config.prefix
    /\ phase \in {"prefill", "first"} =>
           gen = Drop(prompt, hit) /\ emitted = <<>> /\ drafter = NewDrafter
    /\ phase = "first" => left = 0
    /\ phase = "decode" => emitted # <<>> /\ Len(emitted) < maxNew
    /\ Len(Context) <= Len(prompt) + Len(emitted)
    /\ BufferSufficed => Context = prompt \o emitted
    /\ config.drafter # "none" => BufferSufficed

\* The KV cache of the plain loop: one position behind the context, or past it
\* for good once the buffer is full; as far as both go, of the context's ids.
CacheInv ==
    /\ phase \in {"prefill", "first"} => Len(past.att) = Len(Context) - left
    /\ phase = "decode" /\ config.drafter = "none" =>
           \/ Len(past.att) = Len(Context) - 1
           \/ Len(past.att) >= Len(Context) /\ config.prealloc /\ Len(gen) >= buffer
    /\ phase # "idle" /\ config.drafter = "none" =>
           \A i \in DOMAIN past.att : i <= Len(Context) => past.att[i].id = Context[i]

ShapeInv ==
    /\ TypeOK /\ store \in Caches /\ drafter.kv = drafter.ids
    /\ RunInv /\ CacheInv

\* A sequence is its first elements and the rest.
LEMMA CutJoin ==
    ASSUME NEW S, NEW s \in Seq(S), NEW n \in 0..Len(s)
    PROVE  Take(s, n) \o Drop(s, n) = s
<1>1. /\ Take(s, n) \in Seq(S) /\ Len(Take(s, n)) = n
      /\ \A i \in 1..n : Take(s, n)[i] = s[i]
  <2>1. n \in Int /\ n >= 0 /\ n <= Len(s)
    OBVIOUS
  <2> QED
    BY <2>1, TakeOf
<1>2. /\ Drop(s, n) \in Seq(S) /\ Len(Drop(s, n)) = Len(s) - n
      /\ \A i \in 1..(Len(s) - n) : Drop(s, n)[i] = s[n + i]
  <2>1. n \in Nat /\ n <= Len(s)
    OBVIOUS
  <2> QED
    BY <2>1, DropOf
<1> DEFINE a == Take(s, n)
           b == Drop(s, n)
<1> HIDE DEF a, b
<1>3. /\ a \o b \in Seq(S) /\ Len(a \o b) = Len(s)
      /\ \A i \in 1..Len(s) : (a \o b)[i] = IF i <= n THEN a[i] ELSE b[i - n]
  BY <1>1, <1>2, ConcatProperties DEF a, b
<1>4. ASSUME NEW i \in 1..Len(s) PROVE (a \o b)[i] = s[i]
  <2>1. CASE i <= n
    BY <2>1, <1>1, <1>3 DEF a
  <2>2. CASE ~(i <= n)
    <3>1. i - n \in 1..(Len(s) - n) /\ n + (i - n) = i
      BY <2>2
    <3>2. b[i - n] = s[n + (i - n)]
      BY <3>1, <1>2 DEF b
    <3> QED
      BY <3>1, <3>2, <2>2, <1>3
  <2> QED
    BY <2>1, <2>2
<1>5. a \o b = s
  BY <1>3, <1>4, SameSeq
<1> QED
  BY <1>5 DEF a, b

\* The context, and the context with one id more.
LEMMA JoinOf ==
    ASSUME NEW p \in Ids, NEW h \in 0..Len(p), NEW g \in Ids
    PROVE  /\ Take(p, h) \o g \in Ids /\ Len(Take(p, h) \o g) = h + Len(g)
           /\ \A i \in 1..h : (Take(p, h) \o g)[i] = p[i]
           /\ \A i \in 1..Len(g) : (Take(p, h) \o g)[h + i] = g[i]
<1> DEFINE s == Take(p, h)
<1>1. s \in Seq(Vocab) /\ Len(s) = h /\ \A i \in 1..h : s[i] = p[i]
  BY TakeOf DEF Ids
<1> HIDE DEF s
<1>g. g \in Seq(Vocab)
  BY DEF Ids
<1>2. /\ s \o g \in Seq(Vocab) /\ Len(s \o g) = Len(s) + Len(g)
      /\ \A i \in 1..Len(s) : (s \o g)[i] = s[i]
      /\ \A i \in 1..Len(g) : (s \o g)[Len(s) + i] = g[i]
  <2>1. s \in Seq(Vocab)
    BY <1>1
  <2> QED
    BY <2>1, <1>g, CatOf
<1> QED
  BY <1>1, <1>2 DEF s, Ids

\* The elements of a sequence and one more.
LEMMA AppendOf ==
    ASSUME NEW S, NEW s \in Seq(S), NEW e \in S
    PROVE  /\ Append(s, e) \in Seq(S) /\ Len(Append(s, e)) = Len(s) + 1
           /\ Append(s, e)[Len(s) + 1] = e /\ \A i \in 1..Len(s) : Append(s, e)[i] = s[i]
OBVIOUS

\* The target's greedy pick is an id.
LEMMA GreedyIn ==
    ASSUME model \in Models, NEW ids \in Ids, ids # <<>>
    PROVE  Greedy(ids) \in Vocab
<1>1. Len(ids) \in Nat /\ Len(ids) >= 1 /\ \A i \in 1..Len(ids) : ids[i] \in Vocab
  BY DEF Ids
<1>2. model \in [Vocab \X Vocab -> Vocab]
  BY DecodingAssumption
<1> DEFINE a == IF Len(ids) = 1 THEN ids[1] ELSE ids[Len(ids) - 1]
<1>3. a \in Vocab
  <2>1. CASE Len(ids) = 1
    BY <1>1, <2>1
  <2>2. CASE Len(ids) # 1
    <3> DEFINE l == Len(ids)
    <3>0. l \in Nat /\ l >= 1 /\ l # 1
      BY <1>1, <2>2
    <3> HIDE DEF l
    <3>3. l - 1 \in 1..l
      BY <3>0
    <3>1. Len(ids) - 1 \in 1..Len(ids)
      BY <3>3 DEF l
    <3>2. ids[Len(ids) - 1] \in Vocab
      BY <1>1, <3>1
    <3> QED
      BY <3>2, <2>2
  <2> QED
    BY <2>1, <2>2
<1>4. Last(ids) \in Vocab
  BY <1>1 DEF Last
<1>5. Greedy(ids) = model[<<a, Last(ids)>>]
  BY DEF Greedy
<1> HIDE DEF a
<1> QED
  BY <1>2, <1>3, <1>4, <1>5

\* The target picks an id, whatever the cache holds.
LEMMA PicksIn ==
    ASSUME model \in Models, NEW ids \in Ids, ids # <<>>, NEW p
    PROVE  Picks(p, ids) \subseteq Vocab
BY GreedyIn DEF Picks

\* A sweep adds the ids it was fed, from the offset on.
LEMMA FeedOf ==
    ASSUME NEW p \in Past, NEW ids \in Ids, NEW offset \in Nat
    PROVE  /\ Feed(p, ids, offset) \in Past
           /\ Len(Feed(p, ids, offset).att) = Len(p.att) + Len(ids)
           /\ \A i \in 1..Len(p.att) : Feed(p, ids, offset).att[i] = p.att[i]
           /\ \A i \in 1..Len(ids) : Feed(p, ids, offset).att[Len(p.att) + i]
                                         = [id |-> ids[i], pos |-> offset + i - 1]
           /\ Feed(p, ids, offset).lin = IF config.hybrid THEN p.lin \o ids ELSE p.lin
<1> DEFINE Cell == [id : Vocab, pos : Nat]
           new == [i \in DOMAIN ids |-> [id |-> ids[i], pos |-> offset + i - 1]]
<1>1. DOMAIN ids = 1..Len(ids) /\ Len(ids) \in Nat /\ \A i \in 1..Len(ids) : ids[i] \in Vocab
  BY DEF Ids
<1>2. new \in Seq(Cell) /\ Len(new) = Len(ids)
  <2>1. \A i \in 1..Len(ids) : [id |-> ids[i], pos |-> offset + i - 1] \in Cell
    BY <1>1
  <2>2. new \in [1..Len(ids) -> Cell]
    BY <1>1, <2>1
  <2> HIDE DEF new, Cell
  <2> QED
    BY <1>1, <2>2
<1>3. \A i \in 1..Len(ids) : new[i] = [id |-> ids[i], pos |-> offset + i - 1]
  BY <1>1
<1>4. p.att \in Seq(Cell) /\ p.lin \in Seq(Vocab)
  BY DEF Past, KV, Ids
<1>5. Feed(p, ids, offset) = [att |-> p.att \o new, lin |-> IF config.hybrid THEN p.lin \o ids ELSE p.lin]
  BY DEF Feed
<1> HIDE DEF new
<1>6. /\ p.att \o new \in Seq(Cell) /\ Len(p.att \o new) = Len(p.att) + Len(new)
      /\ \A i \in 1..Len(p.att) : (p.att \o new)[i] = p.att[i]
      /\ \A i \in 1..Len(new) : (p.att \o new)[Len(p.att) + i] = new[i]
  <2> DEFINE att == p.att
  <2>1. att \in Seq(Cell) /\ new \in Seq(Cell)
    BY <1>2, <1>4
  <2> HIDE DEF Cell, att
  <2>2. /\ att \o new \in Seq(Cell) /\ Len(att \o new) = Len(att) + Len(new)
        /\ \A i \in 1..Len(att) : (att \o new)[i] = att[i]
        /\ \A i \in 1..Len(new) : (att \o new)[Len(att) + i] = new[i]
    BY <2>1, CatOf
  <2> QED
    BY <2>2 DEF att
<1>7. p.lin \o ids \in Seq(Vocab)
  BY <1>4 DEF Ids
<1>8. Feed(p, ids, offset) \in Past
  BY <1>4, <1>5, <1>6, <1>7 DEF Past, KV, Ids
<1> DEFINE f == Feed(p, ids, offset)
<1>9. f.att = p.att \o new /\ f.lin = IF config.hybrid THEN p.lin \o ids ELSE p.lin
  <2> DEFINE att == p.att \o new
             lin == IF config.hybrid THEN p.lin \o ids ELSE p.lin
  <2>1. f = [att |-> att, lin |-> lin]
    BY <1>5
  <2> HIDE DEF att, lin, f
  <2>2. f.att = att /\ f.lin = lin
    BY <2>1
  <2> QED
    BY <2>2 DEF att, lin
<1> HIDE DEF f
<1>10. /\ Len(f.att) = Len(p.att) + Len(ids)
       /\ \A i \in 1..Len(p.att) : f.att[i] = p.att[i]
       /\ \A i \in 1..Len(ids) : f.att[Len(p.att) + i] = [id |-> ids[i], pos |-> offset + i - 1]
  BY <1>2, <1>3, <1>6, <1>9
<1> QED
  BY <1>8, <1>9, <1>10 DEF f

\* What a configuration is made of; only the plain runner has a prefix cache.
LEMMA ConfigTypes ==
    ASSUME config \in Configs
    PROVE  /\ config.drafter \in {"none", "ngram", "model", "mtp"}
           /\ config.hybrid \in BOOLEAN /\ config.strict \in BOOLEAN /\ config.prefix \in BOOLEAN
           /\ config.prealloc \in BOOLEAN
           /\ config.chunk \in Nat /\ config.ngram \in Nat \ {0} /\ config.maxDraft \in Nat
           /\ config.prefix => config.drafter = "none" /\ ~config.hybrid
<1>1. config \in [drafter : {"none", "ngram", "model", "mtp"}, hybrid : BOOLEAN,
                  strict : BOOLEAN, prefix : BOOLEAN, prealloc : BOOLEAN,
                  chunk : Nat, ngram : Nat \ {0}, maxDraft : Nat]
  BY DecodingAssumption
<1>2. config.prefix => config.drafter = "none" /\ ~config.hybrid
  BY DecodingAssumption
<1> QED
  BY <1>1, <1>2

\* A slice of the prompt is no longer than what is left.
LEMMA ChunkIn ==
    ASSUME config \in Configs, NEW n \in Nat
    PROVE  Chunk(n) \in 0..n
BY ConfigTypes DEF Chunk, Least

\* The last slice of a prefill is not empty.
LEMMA LastChunkIn ==
    ASSUME config \in Configs, NEW n \in Nat \ {0}
    PROVE  LastChunk(n) \in 1..n
<1>1. CASE config.chunk = 0
  BY <1>1 DEF LastChunk
<1>2. CASE config.chunk # 0
  <2> DEFINE c == config.chunk
             r == (n - 1) % c
  <2>1. c \in Nat \ {0}
    BY <1>2, ConfigTypes
  <2>2. r \in Nat /\ r <= n - 1
    BY <2>1
  <2>3. LastChunk(n) = r + 1
    BY <1>2 DEF LastChunk
  <2> HIDE DEF r
  <2> QED
    BY <2>2, <2>3
<1> QED
  BY <1>1, <1>2

\* The context is the seeded prefix and `generated` behind it.
LEMMA ContextOf ==
    ASSUME TypeOK
    PROVE  /\ Context \in Ids /\ Len(Context) = hit + Len(gen)
           /\ hit \in Nat /\ Len(gen) \in Nat /\ Len(prompt) \in Nat /\ Len(emitted) \in Nat
           /\ \A i \in 1..hit : Context[i] = prompt[i]
           /\ \A i \in 1..Len(gen) : Context[hit + i] = gen[i]
<1>1. prompt \in Ids /\ gen \in Ids /\ emitted \in Ids /\ hit \in 0..Len(prompt)
  BY DEF TypeOK
<1>2. hit \in Nat /\ Len(gen) \in Nat /\ Len(prompt) \in Nat /\ Len(emitted) \in Nat
  BY <1>1 DEF Ids
<1> QED
  BY <1>1, <1>2, JoinOf DEF Context

\* A runner begins in shape.
LEMMA InitShape == Init => ShapeInv
<1> SUFFICES ASSUME Init PROVE ShapeInv
  OBVIOUS
<1>2. <<>> \in Seq(Vocab) /\ <<>> \in Seq(Entry) /\ <<>> \in Seq([id : Vocab, pos : Nat])
      /\ <<>> \in Seq([at : Nat, next : Vocab]) /\ Len(<<>>) = 0
  OBVIOUS
<1>3. config \in Configs /\ config.maxDraft \in Nat
  BY ConfigTypes DEF Init
<1>4. store \in Caches
  <2>1. store = [entries |-> <<>>, bytes |-> 0]
    BY DEF Init
  <2>2. store \in [entries : Seq(Entry), bytes : Int] /\ store.entries = <<>> /\ store.bytes = 0
    BY <1>2, <2>1
  <2>3. Honest(<<>>) /\ Distinct(<<>>)
    BY DEF Honest, Distinct
  <2>4. Bytes(<<>>) = 0
    BY BytesAppend
  <2> QED
    BY <1>2, <2>2, <2>3, <2>4, ConstantTypes DEF Caches
<1>5. NewDrafter \in Drafters /\ NewDrafter.kv = NewDrafter.ids
  <2>1. config.maxDraft \in 0..config.maxDraft
    BY <1>3
  <2> QED
    BY <1>2, <2>1 DEF NewDrafter, Drafters, Pairs, Ids
<1>6. past \in Past
  BY <1>2 DEF Init, EmptyPast, Past, KV, Ids
<1>7. Context = <<>>
  <2>1. Take(<<>>, 0) = <<>>
    BY DEF Take
  <2> QED
    BY <2>1 DEF Init, Context
<1>8. TypeOK
  <2>1. store \in [entries : Seq(Entry), bytes : Int]
    BY <1>4 DEF Caches
  <2>2. drafter \in Drafters
    BY <1>5 DEF Init
  <2>3. /\ model \in Models /\ buffer \in Nat /\ turn \in 0..MaxTurns /\ faults \in 0..MaxFaults
        /\ phase \in {"idle", "prefill", "first", "decode", "store"}
        /\ prompt \in Ids /\ maxNew \in 0..MaxNew /\ hit \in 0..Len(prompt)
        /\ gen \in Ids /\ left \in 0..Len(gen) /\ emitted \in Ids /\ degraded \in BOOLEAN
    <3>1. /\ model \in Models /\ buffer = 0 /\ turn = 0 /\ faults = 0 /\ phase = "idle"
          /\ prompt = <<>> /\ maxNew = 0 /\ hit = 0
          /\ gen = <<>> /\ left = 0 /\ emitted = <<>> /\ degraded = FALSE
      BY DEF Init
    <3>2. 0 \in 0..MaxTurns /\ 0 \in 0..MaxFaults /\ 0 \in 0..MaxNew /\ 0 \in 0..0
      BY ConstantTypes
    <3> QED
      BY <1>2, <3>1, <3>2 DEF Ids
  <2> QED
    BY <2>1, <2>2, <2>3, <1>3, <1>6 DEF TypeOK, Past, Drafters, Pairs, Entry
<1>9. RunInv
  BY <1>2, <1>7 DEF Init, RunInv, BufferSufficed
<1>10. CacheInv
  BY DEF Init, CacheInv
<1> QED
  BY <1>4, <1>5, <1>8, <1>9, <1>10 DEF Init, ShapeInv

\* An entry lookup() returns is of a proper prefix.
LEMMA LookupGives ==
    ASSUME store \in Caches, NEW p \in Ids, NEW e \in Lookup(p)
    PROVE  /\ e \in Range(store.entries) /\ e \in Entry /\ Len(e.ids) < Len(p)
           /\ Len(e.ids) \in Nat /\ Len(e.kv) = Len(e.ids)
           /\ e.ids = Take(p, Len(e.ids)) /\ e.ids = Labels(e.kv)
<1> DEFINE es == store.entries
<1>1. e \in Range(es) /\ Usable(e, p)
  BY DEF Lookup
<1>2. es \in Seq(Entry) /\ Honest(es)
  BY DEF Caches
<1> HIDE DEF es
<1>3. PICK j \in DOMAIN es : e = es[j]
  BY <1>1, <1>2 DEF Range
<1>4. e \in Entry /\ e.ids = Labels(e.kv)
  BY <1>2, <1>3 DEF Honest
<1>5. Len(e.ids) \in Nat /\ Len(e.kv) = Len(e.ids)
  <2>1. e.kv \in KV /\ e.ids \in Ids
    BY <1>4 DEF Entry
  <2>2. DOMAIN e.kv = DOMAIN e.ids
    BY <1>4 DEF Labels
  <2> QED
    BY <2>1, <2>2 DEF KV, Ids
<1> QED
  BY <1>1, <1>4, <1>5 DEF Usable, es

\* A run begins with the whole prompt as its context, and the cache holding the
\* seeded prefix of it.
LEMMA StartOf ==
    ASSUME ShapeInv, Start
    PROVE  /\ prompt' \in Ids /\ prompt' # <<>> /\ Len(prompt') \in Nat /\ Len(prompt') > 0
           /\ left' = Len(gen') /\ maxNew' \in 0..MaxNew /\ phase' = "prefill"
           /\ buffer' = (IF config.prealloc /\ buffer = 0 THEN maxNew' + Margin ELSE buffer)
           /\ turn < MaxTurns /\ turn' = turn + 1 /\ emitted' = <<>> /\ drafter' = NewDrafter
           /\ degraded' = FALSE /\ config' = config /\ model' = model /\ faults' = faults
           /\ store' \in Caches /\ hit' \in Nat /\ hit' < Len(prompt') /\ gen' = Drop(prompt', hit')
           /\ past'.lin = <<>> /\ past' \in Past /\ Len(past'.att) = hit'
           /\ \A i \in 1..hit' : past'.att[i].id = prompt'[i]
           /\ hit' > 0 => config.prefix
           /\ gen' \in Ids /\ Len(gen') = Len(prompt') - hit' /\ Context' = prompt'
<1>1. TypeOK /\ store \in Caches
  BY DEF ShapeInv
<1>2. PICK p \in Prompts \cup (IF turn = 0 THEN {}
                              ELSE {Append(prompt \o emitted, t) : t \in Vocab}) :
        /\ prompt' = p
        /\ IF config.prefix /\ Lookup(p) # {}
           THEN LET e == CHOOSE e \in Lookup(p) : TRUE
                IN  /\ store' = [store EXCEPT !.entries = Append(Split(@, e.ids).other, e)]
                    /\ Seeded(e, p)
           ELSE store' = store /\ hit' = 0 /\ past' = EmptyPast /\ gen' = p
  BY DEF Start
<1>3. p \in Ids /\ p # <<>> /\ Len(p) \in Nat /\ Len(p) > 0
  <2>1. CASE p \in Prompts
    BY <2>1, DecodingAssumption DEF Ids
  <2>2. CASE p \notin Prompts
    <3>1. PICK t \in Vocab : p = Append(prompt \o emitted, t)
      BY <1>2, <2>2
    <3>2. prompt \o emitted \in Seq(Vocab)
      BY <1>1 DEF TypeOK, Ids
    <3> QED
      BY <3>1, <3>2 DEF Ids
  <2>3. p \in Seq(Vocab) /\ p # <<>>
    BY <2>1, <2>2 DEF Ids
  <2> QED
    BY <2>3 DEF Ids
<1>4. /\ left' = Len(gen') /\ maxNew' \in 0..MaxNew /\ phase' = "prefill"
      /\ buffer' = (IF config.prealloc /\ buffer = 0 THEN maxNew' + Margin ELSE buffer)
      /\ turn < MaxTurns /\ turn' = turn + 1 /\ emitted' = <<>> /\ drafter' = NewDrafter /\ degraded' = FALSE
      /\ config' = config /\ model' = model /\ faults' = faults
  BY DEF Start, runner
<1>5. config \in Configs /\ config.maxDraft \in Nat
  BY <1>1, ConfigTypes DEF TypeOK
<1>6. /\ store' \in Caches /\ hit' \in Nat /\ hit' < Len(p) /\ gen' = Drop(p, hit')
      /\ past'.att \in KV /\ past'.lin = <<>> /\ past' \in Past /\ Len(past'.att) = hit'
      /\ \A i \in 1..hit' : past'.att[i].id = p[i]
      /\ hit' > 0 => config.prefix
  <2>1. CASE config.prefix /\ Lookup(p) # {}
    <3> DEFINE e == CHOOSE e \in Lookup(p) : TRUE
    <3>1. e \in Lookup(p)
      BY <2>1
    <3>2. /\ store' = [store EXCEPT !.entries = Append(Split(@, e.ids).other, e)]
          /\ Seeded(e, p)
      BY <2>1, <1>2
    <3> HIDE DEF e
    <3>3. /\ e \in Range(store.entries) /\ e \in Entry /\ Len(e.ids) < Len(p)
          /\ Len(e.ids) \in Nat /\ Len(e.kv) = Len(e.ids)
          /\ e.ids = Take(p, Len(e.ids)) /\ e.ids = Labels(e.kv)
      BY <1>1, <1>3, <3>1, LookupGives
    <3>4. store' \in Caches
      BY <1>1, <3>2, <3>3, RefreshSound
    <3>5. hit' = Len(e.ids) /\ past' = [att |-> e.kv, lin |-> <<>>] /\ gen' = Drop(p, Len(e.ids))
      BY <3>2 DEF Seeded, EmptyPast
    <3>6. past'.att = e.kv /\ past'.lin = <<>> /\ past' \in Past /\ e.kv \in KV
      BY <3>3, <3>5 DEF Past, Ids, Entry
    <3>7. ASSUME NEW i \in 1..hit' PROVE past'.att[i].id = p[i]
      <4>1. i \in 1..Len(e.ids) /\ i \in DOMAIN e.kv
        BY <3>3, <3>5, <3>6 DEF KV
      <4>2. e.ids[i] = e.kv[i].id
        BY <4>1, <3>3 DEF Labels
      <4>3. Len(e.ids) \in Int /\ Len(e.ids) <= Len(p) /\ p \in Seq(Vocab)
        BY <3>3, <1>3 DEF Ids
      <4>4. Take(p, Len(e.ids))[i] = p[i]
        BY <4>1, <4>3, TakeOf
      <4> QED
        BY <3>3, <3>6, <4>2, <4>4
    <3> QED
      BY <2>1, <3>3, <3>4, <3>5, <3>6, <3>7
  <2>2. CASE ~(config.prefix /\ Lookup(p) # {})
    <3>1. store' = store /\ hit' = 0 /\ past' = EmptyPast /\ gen' = p
      BY <1>2, <2>2
    <3>2. gen' = Drop(p, 0)
      BY <3>1, <1>3, TakeAll DEF Ids
    <3>3. past'.att = <<>> /\ past'.lin = <<>> /\ past' \in Past /\ past'.att \in KV
      BY <3>1 DEF EmptyPast, Past, KV, Ids
    <3> QED
      BY <3>1, <3>2, <3>3, <1>1, <1>3
  <2> QED
    BY <2>1, <2>2
<1>7. gen' \in Ids /\ Len(gen') = Len(p) - hit' /\ Context' = p
  <2>1. p \in Seq(Vocab)
    BY <1>3 DEF Ids
  <2>2. /\ Drop(p, hit') \in Seq(Vocab) /\ Len(Drop(p, hit')) = Len(p) - hit'
    <3>1. hit' \in Nat /\ hit' <= Len(p)
      BY <1>3, <1>6
    <3> QED
      BY <3>1, <2>1, DropOf
  <2>3. Take(p, hit') \o Drop(p, hit') = p
    <3>1. hit' \in 0..Len(p)
      BY <1>6, <1>3
    <3> QED
      BY <3>1, <2>1, CutJoin
  <2> QED
    BY <2>2, <2>3, <1>2, <1>6 DEF Context, Ids
<1> QED
  BY <1>2, <1>3, <1>4, <1>6, <1>7

\* run() sets a turn up in shape, whether or not the prefix cache has a hit.
LEMMA StartShape ==
    ASSUME ShapeInv, Start
    PROVE  ShapeInv'
<1>1. TypeOK /\ config \in Configs /\ config.maxDraft \in Nat
  BY ConfigTypes DEF ShapeInv, TypeOK
<1> DEFINE p == prompt'
<1>3. p \in Ids /\ p # <<>> /\ Len(p) \in Nat /\ Len(p) > 0
  BY StartOf
<1>4. /\ left' = Len(gen') /\ maxNew' \in 0..MaxNew /\ phase' = "prefill"
      /\ buffer' = (IF config.prealloc /\ buffer = 0 THEN maxNew' + Margin ELSE buffer)
      /\ turn < MaxTurns /\ turn' = turn + 1 /\ emitted' = <<>> /\ drafter' = NewDrafter /\ degraded' = FALSE
      /\ config' = config /\ model' = model /\ faults' = faults
  BY StartOf
<1>6. /\ store' \in Caches /\ hit' \in Nat /\ hit' < Len(p) /\ gen' = Drop(p, hit')
      /\ past' \in Past /\ Len(past'.att) = hit'
      /\ \A i \in 1..hit' : past'.att[i].id = p[i]
      /\ hit' > 0 => config.prefix
  BY StartOf
<1>7. gen' \in Ids /\ Len(gen') = Len(p) - hit' /\ Context' = p
  BY StartOf
<1>8. NewDrafter' = NewDrafter /\ NewDrafter \in Drafters /\ NewDrafter.kv = NewDrafter.ids
  <2>1. config.maxDraft \in 0..config.maxDraft
    BY <1>1
  <2>2. <<>> \in Ids /\ <<>> \in Pairs
    BY DEF Ids, Pairs
  <2> QED
    BY <1>4, <2>1, <2>2 DEF NewDrafter, Drafters
<1>9. TypeOK'
  <2>1. store' \in [entries : Seq(Entry), bytes : Int]
    BY <1>6 DEF Caches
  <2>2. buffer' \in Nat
    <3>1. buffer \in Nat /\ maxNew' \in Nat /\ Margin \in Nat
      BY <1>1, <1>4, ConstantTypes DEF TypeOK
    <3>2. buffer' = maxNew' + Margin \/ buffer' = buffer
      BY <1>4, Zenon
    <3> QED
      BY <3>1, <3>2
  <2>3. turn' \in 0..MaxTurns
    BY <1>1, <1>4, ConstantTypes DEF TypeOK
  <2>4. left' \in 0..Len(gen') /\ hit' \in 0..Len(prompt')
    <3>1. Len(gen') \in Nat
      BY <1>7 DEF Ids
    <3> QED
      BY <3>1, <1>3, <1>4, <1>6
  <2>5. <<>> \in Ids
    BY DEF Ids
  <2>6. drafter' \in Drafters /\ config.maxDraft = config'.maxDraft
    BY <1>4, <1>8
  <2> QED
    BY <1>1, <1>3, <1>4, <1>6, <1>7, <2>1, <2>2, <2>3, <2>4, <2>5, <2>6
    DEF TypeOK, Past, Drafters, Pairs, Entry
<1>10. RunInv'
  <2>1. Len(<<>>) = 0 /\ p \o <<>> = p
    BY <1>3 DEF Ids
  <2>2. gen' # <<>>
    <3>1. Len(gen') > 0
      BY <1>7, <1>6, <1>3
    <3> QED
      BY <3>1, <2>1
  <2> QED
    BY <1>3, <1>4, <1>6, <1>7, <1>8, <2>1, <2>2 DEF RunInv, BufferSufficed
<1>11. CacheInv'
  <2>1. Len(past'.att) = Len(Context') - left'
    BY <1>3, <1>4, <1>6, <1>7
  <2>2. DOMAIN past'.att = 1..hit'
    BY <1>6 DEF KV, Past
  <2> QED
    BY <1>4, <1>6, <1>7, <2>1, <2>2 DEF CacheInv
<1> QED
  BY <1>4, <1>6, <1>8, <1>9, <1>10, <1>11 DEF ShapeInv

\* What every step but the first leaves of the shape.
ConfigKept ==
    /\ config' = config /\ model' = model /\ prompt' = prompt /\ maxNew' = maxNew /\ hit' = hit
    /\ turn' = turn

\* A slice of the prompt moves the cache as far as it moves `left`.
LEMMA PrefillShape ==
    ASSUME ShapeInv, Prefill
    PROVE  ShapeInv'
<1> DEFINE n == Chunk(left)
           c == Len(gen) - left
           ids == SubSeq(gen, c + 1, c + n)
<1>1. TypeOK /\ RunInv /\ CacheInv
  BY DEF ShapeInv
<1>2. /\ past' = Feed(past, ids, Offset) /\ left' = left - n /\ phase = "prefill"
      /\ phase' = (IF left' = 0 THEN "first" ELSE "prefill")
      /\ ConfigKept /\ store' = store /\ buffer' = buffer
      /\ faults' = faults /\ gen' = gen /\ emitted' = emitted /\ drafter' = drafter /\ degraded' = degraded
  BY DEF Prefill, runner, cache, run, ConfigKept
<1>3. /\ gen \in Ids /\ left \in 0..Len(gen) /\ Len(gen) \in Nat /\ hit \in Nat /\ left \in Nat /\ past \in Past
      /\ config \in Configs
  BY <1>1, ContextOf DEF TypeOK, Past
<1>4. n \in 0..left
  BY <1>3, ChunkIn
<1> HIDE DEF n
<1>5. c \in Nat /\ c + n <= Len(gen) /\ n \in Nat
  BY <1>3, <1>4
<1>6. ids \in Ids /\ Len(ids) = n /\ \A i \in 1..n : ids[i] = gen[c + i]
  <2> HIDE DEF c
  <2>1. \A i \in (c + 1)..(c + n) : gen[i] \in Vocab
    BY <1>3, <1>5 DEF Ids
  <2> QED
    BY <1>5, <2>1, SubSeqProperties DEF Ids
<1> HIDE DEF ids
<1>7. Offset \in Nat /\ Offset = hit + c
  BY <1>3 DEF Offset
<1>8. /\ past' \in Past /\ Len(past'.att) = Len(past.att) + n
      /\ \A i \in 1..Len(past.att) : past'.att[i] = past.att[i]
      /\ \A i \in 1..n : past'.att[Len(past.att) + i] = [id |-> ids[i], pos |-> Offset + i - 1]
  <2> HIDE DEF c
  <2> DEFINE f == Feed(past, ids, Offset)
  <2>1. /\ f \in Past /\ Len(f.att) = Len(past.att) + Len(ids)
        /\ \A i \in 1..Len(past.att) : f.att[i] = past.att[i]
        /\ \A i \in 1..Len(ids) : f.att[Len(past.att) + i] = [id |-> ids[i], pos |-> Offset + i - 1]
    <3> DEFINE at == Offset
    <3>1. at \in Nat /\ ids \in Ids /\ past \in Past
      BY <1>3, <1>6, <1>7
    <3> HIDE DEF at
    <3>2. /\ Feed(past, ids, at) \in Past /\ Len(Feed(past, ids, at).att) = Len(past.att) + Len(ids)
          /\ \A i \in 1..Len(past.att) : Feed(past, ids, at).att[i] = past.att[i]
          /\ \A i \in 1..Len(ids) :
                 Feed(past, ids, at).att[Len(past.att) + i] = [id |-> ids[i], pos |-> at + i - 1]
      BY <3>1, FeedOf
    <3> QED
      BY <3>2 DEF at
  <2>2. past' = f
    BY <1>2
  <2> HIDE DEF f
  <2> QED
    BY <1>6, <2>1, <2>2
<1>9. /\ Len(Context) = hit + Len(gen) /\ Context' = Context
      /\ \A i \in 1..Len(gen) : Context[hit + i] = gen[i]
  <2>1. Context' = Context
    BY <1>2 DEF Context, ConfigKept
  <2> QED
    BY <2>1, <1>1, ContextOf
<1>10. Len(past.att) = hit + c /\ Len(past.att) \in Nat
  BY <1>1, <1>2, <1>3, <1>9 DEF CacheInv
<1>11. left' \in 0..Len(gen) /\ phase' \in {"prefill", "first"} /\ (phase' = "first" => left' = 0)
  BY <1>2, <1>3, <1>4
<1>12. TypeOK'
  BY <1>1, <1>2, <1>8, <1>11 DEF TypeOK, Past, ConfigKept
<1>13. RunInv'
  <2>1. NewDrafter' = NewDrafter
    BY <1>2 DEF NewDrafter, ConfigKept
  <2> QED
    BY <1>1, <1>2, <1>9, <1>11, <2>1 DEF RunInv, ConfigKept, BufferSufficed
<1>14. CacheInv'
  <2>1. Len(past'.att) = Len(Context') - left'
    <3>1. left' = left - n /\ Len(past'.att) = hit + c + n /\ Len(Context') = hit + Len(gen)
      BY <1>2, <1>8, <1>9, <1>10
    <3> QED
      BY <1>3, <1>5, <3>1
  <2>2. ASSUME NEW i \in DOMAIN past'.att, config.drafter = "none" PROVE past'.att[i].id = Context[i]
    <3>1. i \in 1..(hit + c + n)
      BY <1>8, <1>10 DEF Past, KV
    <3>2. CASE i <= hit + c
      <4>1. i \in 1..Len(past.att) /\ i \in DOMAIN past.att /\ i <= Len(Context)
        <5>1. i \in 1..Len(past.att)
          BY <1>3, <1>5, <1>10, <3>1, <3>2
        <5>2. DOMAIN past.att = 1..Len(past.att)
          BY <1>3 DEF Past, KV
        <5>3. hit + c <= Len(Context)
          BY <1>3, <1>5, <1>9
        <5> QED
          BY <1>3, <1>5, <3>1, <3>2, <5>1, <5>2, <5>3
      <4>2. past.att[i].id = Context[i]
        BY <1>1, <1>2, <2>2, <4>1 DEF CacheInv
      <4> QED
        BY <1>8, <4>1, <4>2
    <3>3. CASE ~(i <= hit + c)
      <4> DEFINE j == i - (hit + c)
      <4>1. j \in 1..n /\ i = Len(past.att) + j /\ i = hit + (c + j) /\ c + j \in 1..Len(gen)
        <5> DEFINE g == Len(gen)
                   p == Len(past.att)
        <5>1. g \in Nat /\ p = hit + c /\ c + n <= g /\ hit \in Nat
          BY <1>3, <1>5, <1>10
        <5> HIDE DEF c, g, p
        <5>2. i - (hit + c) \in 1..n /\ i = p + (i - (hit + c)) /\ i = hit + (c + (i - (hit + c)))
          BY <1>5, <3>1, <3>3, <5>1
        <5>3. c + (i - (hit + c)) \in 1..g
          BY <1>5, <5>1, <5>2
        <5> QED
          BY <5>2, <5>3 DEF g, p
      <4> HIDE DEF j
      <4>2. past'.att[i] = [id |-> ids[j], pos |-> Offset + j - 1]
        BY <1>8, <4>1
      <4>3. Context[i] = gen[c + j] /\ ids[j] = gen[c + j]
        BY <1>6, <1>9, <4>1
      <4> QED
        BY <4>2, <4>3
    <3> QED
      BY <3>2, <3>3
  <2> QED
    BY <1>2, <1>9, <1>11, <2>1, <2>2 DEF CacheInv, ConfigKept
<1> QED
  BY <1>2, <1>12, <1>13, <1>14 DEF ShapeInv

\* An id more in `generated` is one more in the context.
LEMMA ContextGrows ==
    ASSUME TypeOK, NEW u \in Ids, hit' = hit, prompt' = prompt, gen' = gen \o u
    PROVE  Context' = Context \o u /\ gen' \in Ids /\ Len(gen') = Len(gen) + Len(u)
<1>1. gen \in Seq(Vocab) /\ u \in Seq(Vocab) /\ prompt \in Seq(Vocab) /\ hit \in 0..Len(prompt)
  BY DEF TypeOK, Ids
<1>2. Take(prompt, hit) \in Seq(Vocab)
  <2>1. hit \in Int /\ hit <= Len(prompt)
    BY <1>1
  <2> QED
    BY <1>1, <2>1, TakeOf
<1>3. Take(prompt, hit) \o (gen \o u) = (Take(prompt, hit) \o gen) \o u
  <2> DEFINE s == Take(prompt, hit)
  <2>1. s \in Seq(Vocab) /\ gen \in Seq(Vocab) /\ u \in Seq(Vocab)
    BY <1>1, <1>2
  <2> HIDE DEF s
  <2>2. (s \o gen) \o u = s \o (gen \o u)
    BY <2>1, ConcatAssociative
  <2> QED
    BY <2>2 DEF s
<1>4. Context' = Take(prompt, hit) \o (gen \o u)
  BY DEF Context
<1> QED
  BY <1>1, <1>3, <1>4, CatOf DEF Context, Ids

\* The hidden states queued by an extend().
LEMMA ExtendIn ==
    ASSUME NEW d \in Drafters, NEW at \in Nat, NEW ids \in Ids
    PROVE  /\ Extend(d, at, ids) \in Drafters
           /\ Extend(d, at, ids).kv = d.kv /\ Extend(d, at, ids).ids = d.ids
           /\ Extend(d, at, ids).committed = d.committed
           /\ Extend(d, at, ids).pending =
                  d.pending \o [i \in DOMAIN ids |-> [at |-> at + i - 1, next |-> ids[i]]]
<1> DEFINE Pair == [at : Nat, next : Vocab]
           new == [i \in DOMAIN ids |-> [at |-> at + i - 1, next |-> ids[i]]]
           x == d.pending \o new
<1>1. DOMAIN ids = 1..Len(ids) /\ Len(ids) \in Nat /\ \A i \in 1..Len(ids) : ids[i] \in Vocab
  BY DEF Ids
<1>2. new \in Seq(Pair)
  <2>1. \A i \in 1..Len(ids) : [at |-> at + i - 1, next |-> ids[i]] \in Pair
    BY <1>1
  <2>2. new \in [1..Len(ids) -> Pair]
    BY <1>1, <2>1
  <2> HIDE DEF new, Pair
  <2> QED
    BY <1>1, <2>2
<1>3. d.pending \in Seq(Pair)
  BY DEF Drafters, Pairs
<1> HIDE DEF new
<1>4. x \in Seq(Pair)
  <2> HIDE DEF Pair
  <2> QED
    BY <1>2, <1>3
<1>5. Extend(d, at, ids) = [d EXCEPT !.pending = x]
  BY DEF Extend, new
<1> HIDE DEF x
<1>6. [d EXCEPT !.pending = x] \in Drafters
  BY <1>4 DEF Drafters, Pairs
<1>7. LET f == [d EXCEPT !.pending = x]
      IN  f.kv = d.kv /\ f.ids = d.ids /\ f.committed = d.committed /\ f.pending = x
  BY DEF Drafters
<1> QED
  BY <1>5, <1>6, <1>7 DEF x, new

\* The first token leaves the cache one position behind the context.
LEMMA FirstTokenShape ==
    ASSUME ShapeInv, FirstToken
    PROVE  ShapeInv'
<1>1. TypeOK /\ RunInv /\ CacheInv
  BY DEF ShapeInv
<1>2. /\ ConfigKept /\ store' = store /\ buffer' = buffer /\ phase = "first"
      /\ faults' = faults /\ left' = left /\ past' = past /\ degraded' = degraded
  BY DEF FirstToken, runner, cache, run, ConfigKept
<1>3. /\ gen = Drop(prompt, hit) /\ emitted = <<>> /\ drafter = NewDrafter /\ left = 0
      /\ prompt # <<>> /\ gen # <<>> /\ hit < Len(prompt)
  BY <1>1, <1>2 DEF RunInv
<1>4. /\ Context \in Ids /\ Len(Context) = hit + Len(gen)
      /\ hit \in Nat /\ Len(gen) \in Nat /\ Len(prompt) \in Nat
      /\ config \in Configs /\ past \in Past /\ gen \in Ids /\ prompt \in Ids /\ drafter \in Drafters
      /\ hit \in 0..Len(prompt) /\ maxNew \in Nat
  <2>1. MaxNew \in Nat
    BY ConstantTypes
  <2> QED
    BY <1>1, <2>1, ContextOf DEF TypeOK, Past, Drafters, Pairs
<1>5. Context = prompt /\ Len(gen) > 0
  BY <1>3, <1>4, CutJoin DEF Context, Ids
<1>6. CASE maxNew = 0
  <2>1. phase' = "store" /\ gen' = gen /\ emitted' = emitted /\ drafter' = drafter
    BY <1>6 DEF FirstToken
  <2>2. Context' = Context
    BY <1>2, <2>1 DEF Context, ConfigKept
  <2>3. TypeOK'
    BY <1>1, <1>2, <2>1 DEF TypeOK, ConfigKept
  <2>4. RunInv'
    BY <1>1, <1>2, <2>1, <2>2 DEF RunInv, BufferSufficed, ConfigKept
  <2>5. CacheInv'
    BY <1>1, <1>2, <2>1, <2>2 DEF CacheInv, ConfigKept
  <2> QED
    BY <1>2, <2>1, <2>3, <2>4, <2>5 DEF ShapeInv
<1>7. CASE maxNew # 0
  <2>1. PICK t \in Picks(past, Context) :
                /\ gen' = Append(gen, t) /\ emitted' = <<t>>
                /\ phase' = (IF config.drafter = "none" /\ config.prealloc /\ Len(gen') > buffer
                             THEN "idle" ELSE IF maxNew = 1 THEN "store" ELSE "decode")
                /\ drafter' = (IF config.drafter # "mtp" THEN drafter
                               ELSE LET n == LastChunk(Len(gen))
                                    IN  Extend(drafter, Len(gen) - n, Drop(gen', Len(gen') - n)))
    BY <1>7 DEF FirstToken
  <2>2. t \in Vocab
    <3>1. Context # <<>> /\ model \in Models
      BY <1>1, <1>3, <1>5 DEF TypeOK
    <3> QED
      BY <1>4, <2>1, <3>1, PicksIn
  <2>3. <<t>> \in Ids /\ Len(<<t>>) = 1 /\ <<t>> # <<>> /\ gen' = gen \o <<t>>
    BY <2>1, <2>2, <1>4, AppendIsConcat DEF Ids
  <2>4. Context' = Context \o <<t>> /\ gen' \in Ids /\ Len(gen') = Len(gen) + 1
    BY <1>1, <1>2, <2>3, ContextGrows DEF ConfigKept
  <2>5. /\ Len(Context') = Len(Context) + 1 /\ Context' \in Ids
        /\ \A i \in 1..Len(Context) : Context'[i] = Context[i]
    BY <1>4, <2>3, <2>4, CatOf DEF Ids
  <2>6. drafter' \in Drafters /\ drafter'.kv = drafter'.ids
    <3>1. drafter.kv = drafter.ids
      BY DEF ShapeInv
    <3>2. CASE config.drafter # "mtp"
      BY <1>4, <2>1, <3>1, <3>2
    <3>3. CASE config.drafter = "mtp"
      <4> DEFINE n == LastChunk(Len(gen))
                 ids == Drop(gen', Len(gen') - n)
      <4>1. n \in 1..Len(gen)
        BY <1>4, <1>5, LastChunkIn
      <4> HIDE DEF n
      <4>2. Len(gen) - n \in Nat /\ Len(gen') - n \in Nat
        BY <1>4, <2>4, <4>1
      <4>3. ids \in Ids
        BY <2>4, <4>2, DropOf DEF Ids
      <4>4. drafter' = Extend(drafter, Len(gen) - n, ids)
        BY <2>1, <3>3 DEF n
      <4> HIDE DEF ids
      <4> QED
        BY <1>4, <3>1, <4>2, <4>3, <4>4, ExtendIn
    <3> QED
      BY <3>2, <3>3
  <2>7. phase' \in {"idle", "store", "decode"} /\ (phase' = "decode" => maxNew > 1)
    BY <2>1, <1>4, <1>7
  <2>8. TypeOK'
    <3>1. left' \in 0..Len(gen')
      BY <1>2, <1>3, <1>4, <2>4
    <3>2. drafter' \in [k : 0..config'.maxDraft, ids : Ids, kv : Ids, pending : Pairs, committed : Pairs]
      BY <1>2, <2>6 DEF Drafters, ConfigKept
    <3> QED
      BY <1>1, <1>2, <2>1, <2>3, <2>4, <2>7, <3>1, <3>2 DEF TypeOK, ConfigKept, Pairs
  <2>9. RunInv'
    <3>1. Len(emitted') = 1 /\ emitted' # <<>> /\ gen' # <<>>
      BY <2>1, <2>3, <2>4, <1>4 DEF Ids
    <3>2. Context' = prompt \o emitted' /\ Len(Context') = Len(prompt) + 1
      BY <1>5, <2>1, <2>4, <2>5
    <3>3. hit > 0 => config.prefix
      BY <1>1 DEF RunInv
    <3> QED
      BY <1>2, <1>3, <2>7, <3>1, <3>2, <3>3 DEF RunInv, BufferSufficed, ConfigKept
  <2>10. CacheInv'
    <3>1. Len(past.att) = Len(Context)
      BY <1>1, <1>2, <1>3, <1>4 DEF CacheInv
    <3>2. Len(past'.att) = Len(Context') - 1
      BY <1>2, <1>4, <2>5, <3>1
    <3>3. ASSUME NEW i \in DOMAIN past.att, config.drafter = "none" PROVE past.att[i].id = Context'[i]
      <4>1. i \in 1..Len(Context) /\ i <= Len(Context)
        BY <1>4, <3>1 DEF Past, KV
      <4>2. past.att[i].id = Context[i]
        BY <1>1, <1>2, <3>3, <4>1 DEF CacheInv
      <4> QED
        BY <2>5, <4>1, <4>2
    <3> QED
      BY <1>2, <2>7, <3>2, <3>3 DEF CacheInv, ConfigKept
  <2> QED
    BY <1>1, <1>2, <2>6, <2>8, <2>9, <2>10 DEF ShapeInv
<1> QED
  BY <1>6, <1>7

\* A sweep of the plain loop feeds one id and appends one, unless the buffer is full.
LEMMA PlainStepShape ==
    ASSUME ShapeInv, PlainStep
    PROVE  ShapeInv'
<1>1. TypeOK /\ RunInv /\ CacheInv
  BY DEF ShapeInv
<1>2. /\ ConfigKept /\ store' = store /\ buffer' = buffer /\ phase = "decode" /\ config.drafter = "none"
      /\ faults' = faults /\ left' = left /\ drafter' = drafter /\ degraded' = degraded
      /\ past' = Feed(past, <<Last(gen)>>, Len(gen) - 1)
  BY DEF PlainStep, runner, cache, run, ConfigKept
<1>3. PICK t \in Picks(past', Context) :
        /\ gen' = Appended(t) /\ emitted' = Append(emitted, t)
        /\ phase' = (IF Len(emitted') = maxNew \/ t = Eos THEN "store" ELSE "decode")
  BY DEF PlainStep
<1>4. /\ Context \in Ids /\ Len(Context) = hit + Len(gen)
      /\ hit \in Nat /\ Len(gen) \in Nat /\ Len(prompt) \in Nat /\ Len(emitted) \in Nat
      /\ config \in Configs /\ past \in Past /\ gen \in Ids /\ prompt \in Ids /\ emitted \in Ids
      /\ maxNew \in Nat /\ model \in Models
      /\ \A i \in 1..Len(gen) : Context[hit + i] = gen[i]
  <2>1. MaxNew \in Nat
    BY ConstantTypes
  <2> QED
    BY <1>1, <2>1, ContextOf DEF TypeOK, Past
<1>5. gen # <<>> /\ prompt # <<>> /\ emitted # <<>> /\ Len(emitted) < maxNew /\ hit < Len(prompt)
      /\ (hit > 0 => config.prefix)
  BY <1>1, <1>2 DEF RunInv
<1>6. Len(gen) > 0 /\ Last(gen) \in Vocab /\ Last(gen) = gen[Len(gen)]
  BY <1>4, <1>5 DEF Ids, Last
<1>7. t \in Vocab
  <2>1. Context # <<>>
    BY <1>4, <1>6
  <2> QED
    BY <1>3, <1>4, <2>1, PicksIn
<1>8. <<t>> \in Ids /\ Len(<<t>>) = 1 /\ <<Last(gen)>> \in Ids /\ Len(<<Last(gen)>>) = 1
  BY <1>6, <1>7 DEF Ids
<1>9. /\ past' \in Past /\ Len(past'.att) = Len(past.att) + 1
      /\ \A i \in 1..Len(past.att) : past'.att[i] = past.att[i]
      /\ past'.att[Len(past.att) + 1].id = Last(gen)
  <2> DEFINE ids == <<Last(gen)>>
             f == Feed(past, ids, Len(gen) - 1)
  <2>1. ids \in Ids /\ Len(ids) = 1 /\ ids[1] = Last(gen) /\ Len(gen) - 1 \in Nat
    BY <1>4, <1>6, <1>8
  <2>2. past' = f
    BY <1>2
  <2> HIDE DEF ids
  <2>3. /\ f \in Past /\ Len(f.att) = Len(past.att) + Len(ids)
        /\ \A i \in 1..Len(past.att) : f.att[i] = past.att[i]
        /\ \A i \in 1..Len(ids) : f.att[Len(past.att) + i] = [id |-> ids[i], pos |-> (Len(gen) - 1) + i - 1]
    <3> DEFINE at == Len(gen) - 1
    <3>1. at \in Nat /\ ids \in Ids /\ past \in Past
      BY <1>4, <2>1
    <3> HIDE DEF at
    <3>2. /\ Feed(past, ids, at) \in Past /\ Len(Feed(past, ids, at).att) = Len(past.att) + Len(ids)
          /\ \A i \in 1..Len(past.att) : Feed(past, ids, at).att[i] = past.att[i]
          /\ \A i \in 1..Len(ids) :
                 Feed(past, ids, at).att[Len(past.att) + i] = [id |-> ids[i], pos |-> at + i - 1]
      BY <3>1, FeedOf
    <3> QED
      BY <3>2 DEF at
  <2> HIDE DEF f
  <2>4. f.att[Len(past.att) + 1].id = ids[1]
    <3>1. 1 \in 1..Len(ids)
      BY <2>1
    <3>2. f.att[Len(past.att) + 1] = [id |-> ids[1], pos |-> (Len(gen) - 1) + 1 - 1]
      BY <2>3, <3>1
    <3> QED
      BY <3>2
  <2> QED
    BY <2>1, <2>2, <2>3, <2>4
<1>10. /\ emitted' \in Ids /\ Len(emitted') = Len(emitted) + 1 /\ emitted' # <<>>
       /\ emitted' = emitted \o <<t>>
  <2>1. emitted \in Seq(Vocab)
    BY <1>4 DEF Ids
  <2>2. emitted' = Append(emitted, t) /\ Append(emitted, t) = emitted \o <<t>>
    BY <1>3, <1>7, <2>1, AppendIsConcat
  <2>3. Append(emitted, t) \in Seq(Vocab) /\ Len(Append(emitted, t)) = Len(emitted) + 1
    BY <1>7, <2>1, AppendOf
  <2> QED
    BY <1>4, <2>2, <2>3 DEF Ids
<1>11. phase' \in {"store", "decode"} /\ (phase' = "decode" => Len(emitted') < maxNew)
  BY <1>3, <1>4, <1>5, <1>10
<1>12. Len(past.att) \in Nat /\ DOMAIN past.att = 1..Len(past.att) /\ DOMAIN past'.att = 1..(Len(past.att) + 1)
  BY <1>4, <1>9 DEF Past, KV
<1>13. \/ Len(past.att) = Len(Context) - 1
       \/ Len(past.att) >= Len(Context) /\ config.prealloc /\ Len(gen) >= buffer
  BY <1>1, <1>2 DEF CacheInv
<1>14. ASSUME NEW i \in DOMAIN past'.att, i <= Len(Context) PROVE past'.att[i].id = Context[i]
  <2>1. CASE i <= Len(past.att)
    <3>1. i \in 1..Len(past.att)
      BY <1>12, <2>1
    <3>2. past.att[i].id = Context[i]
      BY <1>1, <1>2, <1>12, <1>14, <3>1 DEF CacheInv
    <3> QED
      BY <1>9, <3>1, <3>2
  <2>2. CASE ~(i <= Len(past.att))
    <3>1. i = Len(past.att) + 1 /\ i = hit + Len(gen) /\ Len(gen) \in 1..Len(gen)
      BY <1>4, <1>6, <1>12, <1>13, <1>14, <2>2
    <3>2. Context[hit + Len(gen)] = gen[Len(gen)]
      BY <1>4, <3>1
    <3> QED
      BY <1>6, <1>9, <3>1, <3>2
  <2> QED
    BY <2>1, <2>2
<1>15. CASE config.prealloc /\ Len(gen) >= buffer
  <2>1. gen' = gen /\ Context' = Context
    BY <1>2, <1>3, <1>15 DEF Appended, Context, ConfigKept
  <2>2. TypeOK'
    BY <1>1, <1>2, <1>9, <1>10, <1>11, <2>1 DEF TypeOK, Past, ConfigKept
  <2>3. RunInv'
    <3>1. Len(Context') < Len(prompt) + Len(emitted')
      BY <1>1, <1>4, <1>10, <2>1 DEF RunInv
    <3> QED
      BY <1>2, <1>4, <1>5, <1>10, <1>11, <2>1, <3>1 DEF RunInv, BufferSufficed, ConfigKept
  <2>4. CacheInv'
    <3>1. Len(past'.att) >= Len(Context')
      BY <1>4, <1>9, <1>12, <1>13, <2>1
    <3> QED
      BY <1>2, <1>11, <1>14, <1>15, <2>1, <3>1 DEF CacheInv, ConfigKept
  <2> QED
    BY <1>1, <1>2, <2>2, <2>3, <2>4 DEF ShapeInv
<1>16. CASE ~(config.prealloc /\ Len(gen) >= buffer)
  <2>1. gen' = gen \o <<t>>
    <3>1. gen' = Append(gen, t)
      BY <1>3, <1>16 DEF Appended
    <3> QED
      BY <1>4, <1>7, <3>1, AppendIsConcat DEF Ids
  <2>2. Context' = Context \o <<t>> /\ gen' \in Ids /\ Len(gen') = Len(gen) + 1
    BY <1>1, <1>2, <1>8, <2>1, ContextGrows DEF ConfigKept
  <2>3. /\ Len(Context') = Len(Context) + 1
        /\ \A i \in 1..Len(Context) : Context'[i] = Context[i]
    <3>1. Context \in Seq(Vocab) /\ <<t>> \in Seq(Vocab) /\ Len(<<t>>) = 1
      BY <1>4, <1>8 DEF Ids
    <3> DEFINE u == <<t>>
    <3> HIDE DEF u
    <3>2. /\ Len(Context \o u) = Len(Context) + 1
          /\ \A i \in 1..Len(Context) : (Context \o u)[i] = Context[i]
      BY <3>1, CatOf DEF u
    <3> QED
      BY <2>2, <3>2 DEF u
  <2>4. TypeOK'
    <3>1. left' \in 0..Len(gen') /\ Len(gen') \in Nat
      BY <1>1, <1>2, <1>4, <2>2 DEF TypeOK
    <3> QED
      BY <1>1, <1>2, <1>9, <1>10, <1>11, <2>2, <3>1 DEF TypeOK, Past, ConfigKept
  <2>5. RunInv'
    <3>1. Len(Context') <= Len(prompt) + Len(emitted')
      BY <1>1, <1>4, <1>10, <2>3 DEF RunInv
    <3>2. BufferSufficed' => Context' = prompt \o emitted'
      <4>1. SUFFICES ASSUME Len(Context') = Len(prompt) + Len(emitted') PROVE Context' = prompt \o emitted'
        BY <1>2 DEF BufferSufficed, ConfigKept
      <4>2. BufferSufficed
        BY <4>1, <1>4, <1>10, <2>3 DEF BufferSufficed
      <4>3. Context = prompt \o emitted
        BY <4>2, <1>1 DEF RunInv
      <4>4. (prompt \o emitted) \o <<t>> = prompt \o (emitted \o <<t>>)
        <5>1. prompt \in Seq(Vocab) /\ emitted \in Seq(Vocab) /\ <<t>> \in Seq(Vocab)
          BY <1>4, <1>8 DEF Ids
        <5> QED
          BY <5>1, ConcatAssociative
      <4> QED
        BY <1>10, <2>2, <4>3, <4>4
    <3>3. gen' # <<>>
      BY <1>4, <2>2
    <3> QED
      BY <1>2, <1>4, <1>5, <1>10, <1>11, <3>1, <3>2, <3>3 DEF RunInv, ConfigKept
  <2>6. CacheInv'
    <3>1. Len(past'.att) = Len(Context') - 1
      BY <1>4, <1>9, <1>12, <1>13, <1>16, <2>3
    <3>2. ASSUME NEW i \in DOMAIN past'.att PROVE past'.att[i].id = Context'[i]
      <4>1. i \in 1..Len(Context) /\ i <= Len(Context)
        BY <1>4, <1>12, <1>13, <1>16, <3>2
      <4> QED
        BY <1>14, <2>3, <4>1
    <3> QED
      BY <1>2, <1>11, <3>1, <3>2 DEF CacheInv, ConfigKept
  <2> QED
    BY <1>1, <1>2, <2>4, <2>5, <2>6 DEF ShapeInv
<1> QED
  BY <1>15, <1>16

-----------------------------------------------------------------------------
(* The operators of a verification step.                                   *)

\* verify_greedy() confirms no more than the draft, and only what the target picks.
LEMMA AcceptedIn ==
    ASSUME NEW draft \in Ids, NEW picks \in [1..(Len(draft) + 1) -> Vocab]
    PROVE  /\ Accepted(draft, picks) \in 0..Len(draft)
           /\ \A i \in 1..Accepted(draft, picks) : picks[i] = draft[i]
<1> DEFINE Right(n) == /\ \A i \in 1..n : picks[i] = draft[i]
                       /\ n = Len(draft) \/ picks[n + 1] # draft[n + 1]
           T == {n \in 0..Len(draft) : n = Len(draft) \/ picks[n + 1] # draft[n + 1]}
<1>1. Len(draft) \in Nat
  BY DEF Ids
<1>2. PICK m \in T : \A y \in T : m <= y
  <2>1. T \in SUBSET Nat /\ Len(draft) \in T
    BY <1>1
  <2> QED
    BY <2>1, LeastOf
<1>3. ASSUME NEW i \in 1..m PROVE picks[i] = draft[i]
  <2>1. i - 1 \in 0..Len(draft) /\ i - 1 < m /\ (i - 1) + 1 = i
    BY <1>1
  <2>2. i - 1 \notin T
    <3> HIDE DEF T
    <3>1. m \in Nat
      BY <1>1, <1>2 DEF T
    <3> QED
      BY <1>2, <2>1, <3>1
  <2> QED
    BY <2>1, <2>2
<1>4. m \in 0..Len(draft) /\ Right(m)
  BY <1>3
<1>5. Accepted(draft, picks) = CHOOSE n \in 0..Len(draft) : Right(n)
  BY DEF Accepted
<1> HIDE DEF Right
<1>6. Accepted(draft, picks) \in 0..Len(draft) /\ Right(Accepted(draft, picks))
  BY <1>4, <1>5
<1> QED
  BY <1>6 DEF Right

\* The new tokens: the confirmed draft and one of the target.
LEMMA NewTokensIn ==
    ASSUME NEW draft \in Ids, NEW picks \in [1..(Len(draft) + 1) -> Vocab]
    PROVE  /\ NewTokens(draft, picks) \in Ids
           /\ Len(NewTokens(draft, picks)) = Accepted(draft, picks) + 1
           /\ Accepted(draft, picks) \in 0..Len(draft)
           /\ \A i \in 1..(Accepted(draft, picks) + 1) : NewTokens(draft, picks)[i] = picks[i]
           /\ \A i \in 1..Accepted(draft, picks) : NewTokens(draft, picks)[i] = draft[i]
<1> DEFINE n == Accepted(draft, picks)
           s == Take(draft, n)
<1>1. n \in 0..Len(draft) /\ Len(draft) \in Nat /\ \A i \in 1..n : picks[i] = draft[i]
  BY AcceptedIn DEF Ids
<1>2. NewTokens(draft, picks) = Append(s, picks[n + 1])
  BY DEF NewTokens
<1> HIDE DEF n
<1>3. s \in Seq(Vocab) /\ Len(s) = n /\ \A i \in 1..n : s[i] = draft[i]
  <2>1. n \in Int /\ n >= 0 /\ n <= Len(draft)
    BY <1>1
  <2> QED
    BY <2>1, TakeOf DEF Ids
<1>4. picks[n + 1] \in Vocab
  BY <1>1
<1> HIDE DEF s
<1>5. /\ Append(s, picks[n + 1]) \in Seq(Vocab) /\ Len(Append(s, picks[n + 1])) = n + 1
      /\ Append(s, picks[n + 1])[n + 1] = picks[n + 1]
      /\ \A i \in 1..n : Append(s, picks[n + 1])[i] = s[i]
  BY <1>3, <1>4, AppendOf
<1>6. \A i \in 1..(n + 1) : i = n + 1 \/ i \in 1..n
  BY <1>1
<1>7. n \in Nat /\ \A i \in 1..n : i \in 1..(n + 1)
  BY <1>1
<1> QED
  BY <1>1, <1>2, <1>3, <1>5, <1>6, <1>7 DEF n, Ids

\* Cut after the first EOS, there is one at the end and none before it.
LEMMA UpToEosOf ==
    ASSUME NEW ids \in Ids, ids # <<>>
    PROVE  \E n \in 1..Len(ids) :
               /\ UpToEos(ids) = Take(ids, n)
               /\ Eos \in Range(ids) => ids[n] = Eos
               /\ Eos \notin Range(ids) => n = Len(ids)
               /\ \A i \in 1..(n - 1) : ids[i] # Eos
<1>1. ids \in Seq(Vocab) /\ DOMAIN ids = 1..Len(ids) /\ Len(ids) \in Nat /\ Len(ids) > 0
  BY DEF Ids
<1>2. CASE Eos \notin Range(ids)
  <2>1. UpToEos(ids) = Take(ids, Len(ids))
    BY <1>1, <1>2, TakeAll DEF UpToEos
  <2>2. \A i \in 1..Len(ids) : ids[i] # Eos
    BY <1>1, <1>2 DEF Range
  <2>3. Len(ids) \in 1..Len(ids) /\ \A i \in 1..(Len(ids) - 1) : i \in 1..Len(ids)
    BY <1>1
  <2> QED
    BY <1>2, <2>1, <2>2, <2>3
<1>3. CASE Eos \in Range(ids)
  <2> DEFINE First(i) == ids[i] = Eos /\ Eos \notin Range(Take(ids, i - 1))
             k == CHOOSE i \in DOMAIN ids : First(i)
             T == {i \in 1..Len(ids) : ids[i] = Eos}
  <2>1. PICK m \in T : \A y \in T : m <= y
    <3>1. T \in SUBSET Nat /\ T # {}
      BY <1>1, <1>3 DEF Range
    <3> QED
      BY <3>1, LeastOf
  <2>2. ASSUME NEW i \in 1..Len(ids)
        PROVE  Eos \notin Range(Take(ids, i - 1)) <=> \A j \in 1..(i - 1) : ids[j] # Eos
    <3> DEFINE s == Take(ids, i - 1)
    <3>1. i - 1 \in Int /\ i - 1 >= 0 /\ i - 1 <= Len(ids)
      BY <1>1
    <3>2. s \in Seq(Vocab) /\ Len(s) = i - 1 /\ \A j \in 1..(i - 1) : s[j] = ids[j]
      BY <1>1, <3>1, TakeOf
    <3> HIDE DEF s
    <3>3. DOMAIN s = 1..(i - 1)
      BY <3>2
    <3> QED
      BY <3>2, <3>3 DEF Range, s
  <2>3. \A j \in 1..(m - 1) : ids[j] # Eos
    <3>1. ASSUME NEW j \in 1..(m - 1) PROVE ids[j] # Eos
      <4>1. j \in 1..Len(ids) /\ j < m
        BY <1>1
      <4> QED
        BY <2>1, <4>1
    <3> QED
      BY <3>1
  <2>4. m \in DOMAIN ids /\ First(m)
    BY <1>1, <2>2, <2>3
  <2> HIDE DEF First
  <2>5. k \in DOMAIN ids /\ First(k)
    BY <2>4
  <2>6. UpToEos(ids) = Take(ids, k)
    BY <1>3 DEF UpToEos, First
  <2> HIDE DEF k
  <2> QED
    BY <1>1, <1>3, <2>2, <2>5, <2>6 DEF First
<1> QED
  BY <1>2, <1>3

\* The target picks an id at every position of a verification sweep.
LEMMA TargetPicksIn ==
    ASSUME model \in Models, gen \in Ids, gen # <<>>, NEW draft \in Ids, NEW picks \in TargetPicks(draft)
    PROVE  picks \in [1..(Len(draft) + 1) -> Vocab]
<1>1. CASE ~Truthful(past, Front(gen))
  BY <1>1 DEF TargetPicks
<1>2. CASE Truthful(past, Front(gen))
  <2>1. picks = [i \in 1..(Len(draft) + 1) |-> Greedy(gen \o Take(draft, i - 1))]
    BY <1>2 DEF TargetPicks
  <2>2. ASSUME NEW i \in 1..(Len(draft) + 1) PROVE Greedy(gen \o Take(draft, i - 1)) \in Vocab
    <3> DEFINE s == Take(draft, i - 1)
    <3>1. s \in Seq(Vocab)
      <4>1. i - 1 \in Int /\ i - 1 <= Len(draft) /\ draft \in Seq(Vocab)
        BY DEF Ids
      <4> QED
        BY <4>1, TakeOf
    <3> HIDE DEF s
    <3>2. gen \o s \in Ids /\ gen \o s # <<>>
      BY <3>1 DEF Ids
    <3> QED
      BY <3>2, GreedyIn DEF s
  <2> QED
    BY <2>1, <2>2
<1> QED
  BY <1>1, <1>2

\* The draft is cut so that the run does not exceed max_new_tokens.
LEMMA CappedIn ==
    ASSUME maxNew \in Nat, emitted \in Ids, Len(emitted) < maxNew, NEW draft \in Ids
    PROVE  /\ Capped(draft) \in Ids /\ Len(Capped(draft)) <= Len(draft)
           /\ Len(emitted) + Len(Capped(draft)) + 1 <= maxNew
<1> DEFINE m == maxNew - Len(emitted) - 1
           n == Least(Len(draft), m)
<1>1. Len(draft) \in Nat /\ Len(emitted) \in Nat
  BY DEF Ids
<1>2. n \in Nat /\ n <= Len(draft) /\ n <= m
  BY <1>1 DEF Least
<1>3. Capped(draft) = Take(draft, n)
  BY DEF Capped
<1> HIDE DEF n
<1>4. Take(draft, n) \in Ids /\ Len(Take(draft, n)) = n
  BY <1>2, TakeOf DEF Ids
<1> QED
  BY <1>1, <1>2, <1>3, <1>4

\* The latest occurrence of the longest context is one of those found.
LEMMA NgramDraftIn ==
    ASSUME config \in Configs, NEW ids \in Ids
    PROVE  NgramDraft(ids) \in Ids
<1> DEFINE Occurs(n, i) == /\ n < Len(ids) /\ i <= Len(ids) - n
                           /\ SubSeq(ids, i, i + n - 1) = Drop(ids, Len(ids) - n)
           found == {m \in (1..config.ngram) \X (1..Len(ids)) : Occurs(m[1], m[2])}
           Best(m) == \A o \in found : o[1] < m[1] \/ (o[1] = m[1] /\ o[2] <= m[2])
           best == CHOOSE m \in found : Best(m)
           last == Least(best[1] + best[2] + config.maxDraft - 1, Len(ids))
<1>1. NgramDraft(ids) = IF found = {} \/ config.maxDraft = 0 THEN <<>>
                        ELSE SubSeq(ids, best[1] + best[2], last)
  BY DEF NgramDraft
<1>2. Len(ids) \in Nat /\ config.ngram \in Nat /\ config.maxDraft \in Nat
  BY ConfigTypes DEF Ids
<1>3. <<>> \in Ids
  BY DEF Ids
<1>4. found \in SUBSET ((1..config.ngram) \X (1..Len(ids)))
  OBVIOUS
<1> HIDE DEF found
<1>5. ASSUME found # {} PROVE \E m \in found : Best(m)
  <2> DEFINE ns == {m[1] : m \in found}
  <2>1. PICK n \in ns : \A y \in ns : n >= y
    <3>1. ns \in SUBSET (0..config.ngram) /\ ns # {}
      BY <1>2, <1>4, <1>5
    <3> QED
      BY <1>2, <3>1, GreatestOf
  <2> DEFINE is == {m[2] : m \in {o \in found : o[1] = n}}
  <2>2. PICK i \in is : \A y \in is : i >= y
    <3>1. is \in SUBSET (0..Len(ids)) /\ is # {}
      BY <1>2, <1>4, <2>1
    <3> QED
      BY <1>2, <3>1, GreatestOf
  <2>3. PICK m \in found : m[1] = n /\ m[2] = i
    OBVIOUS
  <2>4. ASSUME NEW o \in found PROVE o[1] < m[1] \/ (o[1] = m[1] /\ o[2] <= m[2])
    <3>1. o[1] \in ns /\ o[1] \in Nat /\ o[2] \in Nat /\ m[1] \in Nat /\ m[2] \in Nat
      BY <1>2, <1>4
    <3>2. o[1] <= m[1]
      <4> HIDE DEF ns
      <4> QED
        BY <2>1, <2>3, <3>1
    <3>3. o[1] = m[1] => o[2] \in is
      BY <2>3
    <3>4. o[1] = m[1] => o[2] <= m[2]
      <4> HIDE DEF is
      <4> QED
        BY <2>2, <2>3, <3>1, <3>3
    <3> QED
      BY <3>1, <3>2, <3>4
  <2> QED
    BY <2>4
<1>6. CASE found = {} \/ config.maxDraft = 0
  BY <1>1, <1>3, <1>6
<1>7. CASE ~(found = {} \/ config.maxDraft = 0)
  <2> HIDE DEF Best
  <2>1. best \in found
    BY <1>5, <1>7
  <2> HIDE DEF best
  <2>2. best[1] \in Nat \ {0} /\ best[2] \in Nat \ {0}
    BY <1>4, <2>1
  <2>3. last \in Int /\ last <= Len(ids)
    BY <1>2, <2>2 DEF Least
  <2> HIDE DEF last
  <2>4. SubSeq(ids, best[1] + best[2], last) \in Seq(Vocab)
    <3>1. \A i \in (best[1] + best[2])..last : ids[i] \in Vocab
      BY <2>2, <2>3 DEF Ids
    <3>2. best[1] + best[2] \in Int
      BY <2>2
    <3> QED
      BY <2>3, <3>1, <3>2, SubSeqProperties
  <2> QED
    BY <1>1, <1>7, <2>4 DEF Ids
<1> QED
  BY <1>6, <1>7

\* The drafter's cache and the confirmed ids agree as far as is kept.
LEMMA AgreementOf ==
    ASSUME NEW ids \in Ids, NEW cached \in Ids, ids # <<>>
    PROVE  /\ Agreement(ids, cached) \in 0..(Len(ids) - 1) /\ Agreement(ids, cached) <= Len(cached)
           /\ \A i \in 1..Agreement(ids, cached) : cached[i] = ids[i]
<1> DEFINE S == {ids, cached}
           C == CommonPrefixes(S)
           Longest(l) == \A o \in C : Len(o) <= Len(l)
           lcp == LongestCommonPrefix(S)
<1>1. lcp = CHOOSE l \in C : Longest(l)
  BY DEF LongestCommonPrefix
<1>2. ids \in Seq(Vocab) /\ cached \in Seq(Vocab) /\ Len(ids) \in Nat /\ Len(cached) \in Nat /\ Len(ids) > 0
  BY DEF Ids
<1>3. \A s \in S : \A o \in Prefixes(s) : \E l \in 0..Len(s) : o = SubSeq(s, 1, l)
  BY <1>2 DEF Prefixes
<1>4. ASSUME NEW o \in C
      PROVE  /\ Len(o) \in Nat /\ Len(o) <= Len(ids) /\ Len(o) <= Len(cached)
             /\ SubSeq(o, 1, Len(o)) = SubSeq(ids, 1, Len(o))
             /\ SubSeq(o, 1, Len(o)) = SubSeq(cached, 1, Len(o))
  <2>1. IsPrefix(o, ids) /\ IsPrefix(o, cached)
    BY DEF CommonPrefixes
  <2>2. PICK s \in S : o \in Prefixes(s)
    BY DEF CommonPrefixes
  <2>3. PICK l \in 0..Len(s) : o = SubSeq(s, 1, l)
    BY <1>3, <2>2
  <2>4. Len(o) \in Nat
    BY <1>2, <2>3
  <2> QED
    BY <2>1, <2>4 DEF IsPrefix
<1>5. \E l \in C : Longest(l)
  <2> DEFINE T == {Len(o) : o \in C}
  <2>1. T \in SUBSET (0..Len(ids))
    <3>1. \A o \in C : Len(o) \in 0..Len(ids)
      <4> HIDE DEF C
      <4> QED
        BY <1>2, <1>4
    <3> HIDE DEF C
    <3> QED
      BY <3>1
  <2>2. <<>> \in C
    <3>1. <<>> \in Prefixes(ids)
      BY <1>2 DEF Prefixes
    <3>2. \A s \in S : IsPrefix(<<>>, s)
      BY <1>2 DEF IsPrefix
    <3> QED
      BY <3>1, <3>2 DEF CommonPrefixes
  <2>3. PICK m \in T : \A y \in T : m >= y
    <3>1. T # {}
      BY <2>2
    <3> HIDE DEF T
    <3> QED
      BY <1>2, <2>1, <3>1, GreatestOf
  <2>4. PICK l \in C : m = Len(l)
    OBVIOUS
  <2>5. ASSUME NEW o \in C PROVE Len(o) <= Len(l)
    <3>1. Len(o) \in T
      OBVIOUS
    <3>2. Len(o) \in Nat /\ Len(l) \in Nat
      BY <1>4
    <3> HIDE DEF T, C
    <3> QED
      BY <2>3, <2>4, <3>1, <3>2
  <2> QED
    BY <2>5
<1>6. lcp \in C
  <2> HIDE DEF Longest, C, lcp
  <2> QED
    BY <1>1, <1>5
<1> HIDE DEF lcp, C
<1>7. /\ Len(lcp) \in Nat /\ Len(lcp) <= Len(ids) /\ Len(lcp) <= Len(cached)
      /\ SubSeq(ids, 1, Len(lcp)) = SubSeq(cached, 1, Len(lcp))
  BY <1>4, <1>6
<1>8. Agreement(ids, cached) = Least(Len(ids) - 1, Len(lcp))
  BY DEF Agreement, lcp
<1>9. \A i \in 1..Len(lcp) : cached[i] = ids[i]
  <2> DEFINE m == Len(lcp)
             a == Take(ids, m)
             b == Take(cached, m)
  <2>1. m \in Int /\ m <= Len(ids) /\ m <= Len(cached)
    BY <1>7
  <2> HIDE DEF m
  <2>2. (\A i \in 1..m : a[i] = ids[i]) /\ \A i \in 1..m : b[i] = cached[i]
    BY <1>2, <2>1, TakeOf
  <2>3. a = b
    BY <1>7 DEF Take, m
  <2> QED
    BY <2>2, <2>3 DEF m
<1> QED
  BY <1>2, <1>7, <1>8, <1>9 DEF Least

\* A draft model's cache and the ids it is believed to cover stay the same.
LEMMA DraftModelIn ==
    ASSUME gen \in Ids, gen # <<>>, NEW d \in Drafters, d.kv = d.ids,
           NEW drafted \in Ids, drafted # <<>>, NEW fails \in BOOLEAN
    PROVE  LET e == DraftModel(d, drafted, fails)
           IN  e \in Drafters /\ e.kv = e.ids /\ e.k = d.k /\ e.pending = d.pending /\ e.committed = d.committed
<1> DEFINE keep == IF fails THEN 0 ELSE Agreement(gen, d.ids)
           fed == Front(drafted)
           kv == Take(d.kv, keep) \o Drop(gen, keep) \o fed
           ids == gen \o fed
<1>1. gen \in Seq(Vocab) /\ drafted \in Seq(Vocab) /\ d.ids \in Seq(Vocab) /\ Len(gen) \in Nat /\ Len(gen) > 0
      /\ Len(d.ids) \in Nat /\ Len(drafted) \in Nat
  BY DEF Ids, Drafters
<1>2. keep \in Nat /\ keep <= Len(gen) /\ keep <= Len(d.ids) /\ \A i \in 1..keep : d.ids[i] = gen[i]
  <2>1. CASE fails
    BY <1>1, <2>1
  <2>2. CASE ~fails
    <3> DEFINE a == Agreement(gen, d.ids)
    <3>1. a \in 0..(Len(gen) - 1) /\ a <= Len(d.ids) /\ \A i \in 1..a : d.ids[i] = gen[i]
      BY AgreementOf DEF Drafters
    <3>2. keep = a
      BY <2>2
    <3> HIDE DEF a, keep
    <3> QED
      BY <1>1, <3>1, <3>2
  <2> QED
    BY <2>1, <2>2
<1>3. DraftModel(d, drafted, fails) = [d EXCEPT !.kv = kv, !.ids = ids]
  BY DEF DraftModel
<1> HIDE DEF keep
<1>4. fed \in Seq(Vocab)
  <2>1. fed = Take(drafted, Len(drafted) - 1)
    BY <1>1, FrontOf
  <2>2. Len(drafted) - 1 \in Int /\ Len(drafted) - 1 <= Len(drafted)
    BY <1>1
  <2> QED
    BY <1>1, <2>1, <2>2, TakeOf
<1> HIDE DEF fed
<1>5. Take(d.kv, keep) = Take(gen, keep)
  <2> DEFINE a == Take(d.ids, keep)
             b == Take(gen, keep)
  <2>1. keep \in Int /\ keep >= 0
    BY <1>2
  <2>2. a \in Seq(Vocab) /\ Len(a) = keep /\ \A i \in 1..keep : a[i] = d.ids[i]
    BY <1>1, <1>2, <2>1, TakeOf
  <2>3. b \in Seq(Vocab) /\ Len(b) = keep /\ \A i \in 1..keep : b[i] = gen[i]
    BY <1>1, <1>2, <2>1, TakeOf
  <2> HIDE DEF a, b
  <2>4. a = b
    BY <1>2, <2>2, <2>3, SameSeq
  <2> QED
    BY <2>4 DEF a, b
<1>6. kv = ids
  <2>1. keep \in 0..Len(gen)
    BY <1>1, <1>2
  <2>2. Take(gen, keep) \o Drop(gen, keep) = gen
    BY <1>1, <2>1, CutJoin
  <2> QED
    BY <1>5, <2>2
<1>7. ids \in Ids
  BY <1>1, <1>4 DEF Ids
<1> HIDE DEF kv, ids
<1>8. LET e == [d EXCEPT !.kv = kv, !.ids = ids]
      IN  /\ e \in Drafters /\ e.kv = kv /\ e.ids = ids /\ e.k = d.k /\ e.pending = d.pending
          /\ e.committed = d.committed
  BY <1>6, <1>7 DEF Drafters
<1> QED
  BY <1>3, <1>6, <1>8

\* The draft length stays between nothing and its maximum.
LEMMA ObservedIn ==
    ASSUME config \in Configs, NEW d \in Drafters, NEW proposed \in Nat, NEW accepted \in Nat,
           config.drafter # "ngram" /\ proposed # 0 => d.k > 0
    PROVE  LET e == Observed(d, proposed, accepted)
           IN  e \in Drafters /\ e.kv = d.kv /\ e.ids = d.ids /\ e.pending = d.pending /\ e.committed = d.committed
<1>1. CASE config.drafter = "ngram" \/ proposed = 0
  BY <1>1 DEF Observed
<1>2. CASE ~(config.drafter = "ngram" \/ proposed = 0)
  <2> DEFINE k == IF accepted >= proposed THEN Least(d.k * 2, config.maxDraft)
                  ELSE IF accepted * 2 >= proposed THEN Least(d.k + 1, config.maxDraft)
                  ELSE IF d.k \div 2 > 1 THEN d.k \div 2 ELSE 1
  <2>1. Observed(d, proposed, accepted) = [d EXCEPT !.k = k]
    BY <1>2 DEF Observed
  <2>2. d.k \in Nat /\ d.k > 0 /\ d.k <= config.maxDraft /\ config.maxDraft \in Nat
    BY <1>2, ConfigTypes DEF Drafters
  <2>3. k \in 0..config.maxDraft
    <3>1. d.k \div 2 \in Nat /\ d.k \div 2 <= d.k
      BY <2>2
    <3> QED
      BY <2>2, <3>1 DEF Least
  <2> HIDE DEF k
  <2>4. LET e == [d EXCEPT !.k = k]
        IN  /\ e \in Drafters /\ e.kv = d.kv /\ e.ids = d.ids /\ e.pending = d.pending
            /\ e.committed = d.committed
    BY <2>3 DEF Drafters
  <2> QED
    BY <2>1, <2>4
<1> QED
  BY <1>1, <1>2

\* The pending pairs join the committed ones, in order.
LEMMA MtpDraftIn ==
    ASSUME NEW d \in Drafters
    PROVE  LET e == MtpDraft(d)
           IN  /\ e \in Drafters /\ e.kv = d.kv /\ e.ids = d.ids /\ e.k = d.k
               /\ e.committed \o e.pending = d.committed \o d.pending
<1> DEFINE x == d.committed \o d.pending
           e == [d EXCEPT !.committed = x, !.pending = <<>>]
<1>1. MtpDraft(d) = e
  BY DEF MtpDraft
<1>2. d.committed \in Pairs /\ d.pending \in Pairs
  BY DEF Drafters
<1>3. x \in Pairs /\ <<>> \in Pairs
  BY <1>2 DEF Pairs
<1>4. x \o <<>> = x
  BY <1>3 DEF Pairs
<1> HIDE DEF x
<1>5. e \in Drafters /\ e.kv = d.kv /\ e.ids = d.ids /\ e.k = d.k /\ e.committed = x /\ e.pending = <<>>
  BY <1>3 DEF Drafters
<1> HIDE DEF e
<1> QED
  BY <1>1, <1>4, <1>5 DEF x

\* What a proposal may be.
LEMMA ProposalsIn ==
    ASSUME config \in Configs, gen \in Ids, gen # <<>>, drafter \in Drafters, drafter.kv = drafter.ids,
           NEW p \in Proposals
    PROVE  /\ p.draft \in Ids /\ p.after \in Drafters /\ p.after.kv = p.after.ids
           /\ config.drafter # "ngram" /\ p.draft # <<>> => p.after.k > 0
           /\ config.drafter = "mtp" =>
                  p.after.committed \o p.after.pending = drafter.committed \o drafter.pending
<1> DEFINE Bad == drafter.k = 0 \/ (config.drafter = "mtp" /\ drafter.pending = <<>>)
           fs == IF Agreement(gen, drafter.ids) \in {0, Len(drafter.ids)} THEN {FALSE} ELSE BOOLEAN
           ngrams == {[draft |-> NgramDraft(gen), after |-> drafter]}
           nothing == {[draft |-> <<>>, after |-> drafter]}
           models == {[draft |-> d, after |-> DraftModel(drafter, d, f)] :
                          d \in [1..drafter.k -> Vocab], f \in fs}
           mtps == {[draft |-> d, after |-> MtpDraft(drafter)] : d \in [1..drafter.k -> Vocab]}
<1>p. Proposals = IF config.drafter = "ngram" THEN ngrams ELSE IF Bad THEN nothing
                  ELSE IF config.drafter = "model" THEN models ELSE mtps
  BY SMT DEF Proposals
<1> HIDE DEF fs, ngrams, nothing, models, mtps
<1>1. CASE config.drafter = "ngram"
  <2>1. p = [draft |-> NgramDraft(gen), after |-> drafter]
    BY <1>p, <1>1 DEF ngrams
  <2>2. NgramDraft(gen) \in Ids
    BY NgramDraftIn
  <2> QED
    BY <1>1, <2>1, <2>2
<1>2. CASE config.drafter # "ngram" /\ Bad
  <2>1. p = [draft |-> <<>>, after |-> drafter]
    BY <1>p, <1>2 DEF nothing
  <2>2. <<>> \in Ids
    BY DEF Ids
  <2> QED
    BY <2>1, <2>2
<1>3. ASSUME drafter.k # 0, NEW d \in [1..drafter.k -> Vocab] PROVE d \in Ids /\ d # <<>> /\ drafter.k > 0
  <2>1. drafter.k \in Nat
    BY ConfigTypes DEF Drafters
  <2> QED
    BY <1>3, <2>1 DEF Ids
<1>4. CASE config.drafter # "ngram" /\ ~Bad /\ config.drafter = "model"
  <2>1. PICK d \in [1..drafter.k -> Vocab], f \in BOOLEAN :
            p = [draft |-> d, after |-> DraftModel(drafter, d, f)]
    <3>1. fs \subseteq BOOLEAN
      BY DEF fs
    <3>2. p \in models
      BY <1>p, <1>4
    <3>3. PICK d \in [1..drafter.k -> Vocab], f \in fs :
              p = [draft |-> d, after |-> DraftModel(drafter, d, f)]
      BY <3>2, SMT DEF models
    <3> QED
      BY <3>1, <3>3
  <2>2. d \in Ids /\ d # <<>> /\ drafter.k > 0
    BY <1>3, <1>4
  <2> DEFINE e == DraftModel(drafter, d, f)
  <2>3. e \in Drafters /\ e.kv = e.ids /\ e.k = drafter.k
    BY <2>2, DraftModelIn
  <2> HIDE DEF e
  <2>4. p.draft = d /\ p.after = e
    BY <2>1 DEF e
  <2> QED
    BY <1>4, <2>2, <2>3, <2>4
<1>5. CASE config.drafter # "ngram" /\ ~Bad /\ config.drafter # "model"
  <2>1. PICK d \in [1..drafter.k -> Vocab] : p = [draft |-> d, after |-> MtpDraft(drafter)]
    <3>1. p \in mtps
      BY <1>p, <1>5
    <3> QED
      BY <3>1 DEF mtps
  <2>2. d \in Ids /\ d # <<>> /\ drafter.k > 0
    BY <1>3, <1>5
  <2> DEFINE e == MtpDraft(drafter)
  <2>3. /\ e \in Drafters /\ e.kv = drafter.kv /\ e.ids = drafter.ids /\ e.k = drafter.k
        /\ e.committed \o e.pending = drafter.committed \o drafter.pending
    BY MtpDraftIn
  <2> HIDE DEF e
  <2>4. p.draft = d /\ p.after = e
    BY <2>1 DEF e
  <2> QED
    BY <1>5, <2>2, <2>3, <2>4
<1> QED
  BY <1>1, <1>2, <1>4, <1>5

\* A rollback, also one that fails halfway, leaves a cache of ids.
LEMMA RollbackIn ==
    ASSUME past \in Past, gen \in Ids, gen # <<>>, NEW n \in Nat, NEW keep \in 1..n, NEW fed \in Past,
           Len(fed.att) = Len(past.att) + n,
           config.hybrid => Len(fed.lin) = Len(past.lin) + n
    PROVE  Rollback(fed, keep, n) \in Past /\ FailedRollbacks(fed, keep, n) \subseteq Past
<1>0. /\ fed.att \in Seq([id : Vocab, pos : Nat]) /\ fed.lin \in Seq(Vocab)
      /\ Len(fed.att) \in Nat /\ Len(fed.lin) \in Nat /\ Len(past.lin) \in Nat /\ Len(past.att) \in Nat
      /\ Len(gen) \in Nat /\ Len(gen) > 0
  BY DEF Past, KV, Ids
<1>1. Rollback(fed, keep, n) \in Past
  <2>1. CASE keep = n
    BY <2>1 DEF Rollback
  <2>2. CASE keep # n /\ config.hybrid
    <3> DEFINE a == Take(fed.att, Len(fed.att) - (n - keep))
               l == Take(fed.lin, Len(past.lin) + keep)
    <3>1. a \in KV
      <4>1. Len(fed.att) - (n - keep) \in Int /\ Len(fed.att) - (n - keep) <= Len(fed.att)
        BY <1>0
      <4> QED
        BY <1>0, <4>1, TakeOf DEF KV
    <3>2. l \in Ids
      <4>1. Len(past.lin) + keep \in Int /\ Len(past.lin) + keep <= Len(fed.lin)
        BY <1>0, <2>2
      <4> QED
        BY <1>0, <4>1, TakeOf DEF Ids
    <3>3. Rollback(fed, keep, n) = [att |-> a, lin |-> l]
      BY <2>2 DEF Rollback
    <3> HIDE DEF a, l
    <3> QED
      BY <3>1, <3>2, <3>3 DEF Past
  <2>3. CASE keep # n /\ ~config.hybrid
    <3> DEFINE m == Least(Len(fed.att), Len(gen) - 1 + keep)
               a == Take(fed.att, m)
    <3>1. m \in Int /\ m <= Len(fed.att)
      BY <1>0 DEF Least
    <3>2. Rollback(fed, keep, n) = [fed EXCEPT !.att = a]
      BY <2>3 DEF Rollback
    <3> HIDE DEF m
    <3>3. a \in KV
      BY <1>0, <3>1, TakeOf DEF KV
    <3> HIDE DEF a
    <3> QED
      BY <3>2, <3>3 DEF Past
  <2> QED
    BY <2>1, <2>2, <2>3
<1>2. ASSUME NEW f \in FailedRollbacks(fed, keep, n) PROVE f \in Past
  <2> DEFINE a == Rollback(fed, keep, n).att
  <2>1. f = fed \/ f = [fed EXCEPT !.att = a]
    BY Zenon DEF FailedRollbacks
  <2>2. a \in KV
    BY <1>1 DEF Past
  <2> HIDE DEF a
  <2> QED
    BY <2>1, <2>2 DEF Past
<1> QED
  BY <1>1, <1>2

Fed(draft) == Feed(past, <<Last(gen)>> \o draft, Len(gen) - 1)

\* What a verification step does, of a draft, the target's picks and the drafter
\* propose() left.
Verified(draft, picks, after) ==
    LET kept == Accepted(draft, picks) + 1
        n == Len(draft) + 1
        new == NewTokens(draft, picks)
        d == Observed(after, Len(draft), Accepted(draft, picks))
    IN  /\ Len(emitted) + Len(draft) + 1 <= maxNew
        /\ after.kv = after.ids /\ (config.drafter # "ngram" /\ draft # <<>> => after.k > 0)
        /\ config.drafter = "mtp" =>
               after.committed \o after.pending = drafter.committed \o drafter.pending
        /\ \/ past' = Rollback(Fed(draft), kept, n) /\ degraded' = degraded /\ faults' = faults
           \/ Fault /\ degraded' = TRUE /\ past' \in FailedRollbacks(Fed(draft), kept, n)
        /\ \/ phase' = "idle" /\ gen' = gen /\ emitted' = emitted /\ drafter' = drafter /\ degraded' # degraded
           \/ /\ gen' = gen \o UpToEos(new) /\ emitted' = emitted \o UpToEos(new)
              /\ drafter' = IF config.drafter = "mtp" THEN Extend(d, Len(gen) - 1, new) ELSE d
              /\ phase' = IF Len(emitted') >= maxNew \/ Eos \in Range(new) THEN "store" ELSE "decode"

\* A cut draft was not empty.
LEMMA CappedDraft ==
    ASSUME maxNew \in Nat, emitted \in Ids, Len(emitted) < maxNew, NEW draft \in Ids, Capped(draft) # <<>>
    PROVE  draft # <<>>
<1>1. Len(Capped(draft)) <= Len(draft) /\ Capped(draft) \in Ids
  BY CappedIn
<1>2. Len(Capped(draft)) \in Nat /\ Len(Capped(draft)) # 0
  BY <1>1 DEF Ids
<1> QED
  BY <1>1, <1>2

\* A step of the speculative loop, taken apart.
LEMMA SpecStepOf ==
    ASSUME ShapeInv, SpecStep
    PROVE  /\ ConfigKept /\ store' = store /\ buffer' = buffer /\ left' = left /\ phase = "decode"
           /\ config.drafter # "none"
           /\ \E draft \in Ids : \E picks \in TargetPicks(draft) : \E after \in Drafters :
                  Verified(draft, picks, after)
<1>1. TypeOK /\ RunInv /\ drafter.kv = drafter.ids
  BY DEF ShapeInv
<1>2. ConfigKept /\ store' = store /\ buffer' = buffer /\ left' = left /\ phase = "decode" /\ config.drafter # "none"
  BY DEF SpecStep, runner, cache, run, ConfigKept
<1>3. /\ config \in Configs /\ gen \in Ids /\ emitted \in Ids /\ maxNew \in Nat /\ drafter \in Drafters
      /\ gen # <<>> /\ Len(emitted) < maxNew
  <2>1. MaxNew \in Nat
    BY ConstantTypes
  <2> QED
    BY <1>1, <1>2, <2>1 DEF TypeOK, RunInv, Drafters, Pairs
<1> DEFINE Steps(v) ==
             /\ \/ /\ past' = Rollback(v.fed, v.kept, v.n)
                   /\ UNCHANGED <<degraded, faults>>
                \/ /\ Fault /\ degraded' = TRUE
                   /\ past' \in FailedRollbacks(v.fed, v.kept, v.n)
             /\ IF degraded' # degraded /\ config.strict
                THEN phase' = "idle" /\ UNCHANGED <<gen, emitted, drafter>>
                ELSE /\ gen' = gen \o UpToEos(v.new) /\ emitted' = emitted \o UpToEos(v.new)
                     /\ drafter' = IF config.drafter = "mtp"
                                   THEN Extend(Observed(v.after, v.n - 1, v.kept - 1), Len(gen) - 1, v.new)
                                   ELSE Observed(v.after, v.n - 1, v.kept - 1)
                     /\ phase' = IF Len(emitted') >= maxNew \/ Eos \in Range(v.new)
                                 THEN "store" ELSE "decode"
           Result(p, picks) ==
             [n |-> Len(Capped(p.draft)) + 1, kept |-> Accepted(Capped(p.draft), picks) + 1,
              new |-> NewTokens(Capped(p.draft), picks), after |-> p.after,
              fed |-> Feed(past, <<Last(gen)>> \o Capped(p.draft), Len(gen) - 1)]
<1>4. PICK v \in Verifications : Steps(v)
  BY DEF SpecStep
<1>5. PICK p \in Proposals : \E picks \in TargetPicks(Capped(p.draft)) : v = Result(p, picks)
  <2> DEFINE R(p) == {Result(p, picks) : picks \in TargetPicks(Capped(p.draft))}
  <2>1. Verifications = UNION {R(p) : p \in Proposals}
    BY DEF Verifications
  <2>2. PICK p \in Proposals : v \in R(p)
    <3> HIDE DEF R
    <3> QED
      BY <1>4, <2>1
  <2> QED
    BY <2>2
<1>6. PICK picks \in TargetPicks(Capped(p.draft)) : v = Result(p, picks)
  BY <1>5
<1> DEFINE draft == Capped(p.draft)
<1>7. /\ p.draft \in Ids /\ p.after \in Drafters /\ p.after.kv = p.after.ids
      /\ config.drafter # "ngram" /\ p.draft # <<>> => p.after.k > 0
      /\ config.drafter = "mtp" =>
             p.after.committed \o p.after.pending = drafter.committed \o drafter.pending
  BY <1>1, <1>3, ProposalsIn
<1>8. draft \in Ids /\ Len(emitted) + Len(draft) + 1 <= maxNew
  BY <1>3, <1>7, CappedIn
<1>9. draft # <<>> => p.draft # <<>>
  BY <1>3, <1>7, CappedDraft
<1>10. Accepted(draft, picks) \in 0..Len(draft) /\ Len(draft) \in Nat
  <2>1. model \in Models
    BY <1>1 DEF TypeOK
  <2>2. picks \in [1..(Len(draft) + 1) -> Vocab]
    BY <1>3, <1>6, <1>8, <2>1, TargetPicksIn
  <2> QED
    BY <1>8, <2>2, AcceptedIn DEF Ids
<1>11. /\ v.n = Len(draft) + 1 /\ v.kept = Accepted(draft, picks) + 1 /\ v.new = NewTokens(draft, picks)
       /\ v.after = p.after /\ v.fed = Fed(draft) /\ v.n - 1 = Len(draft)
       /\ v.kept - 1 = Accepted(draft, picks)
  <2> DEFINE a == Accepted(draft, picks)
             new == NewTokens(draft, picks)
             fed == Fed(draft)
             l == Len(draft)
  <2>1. v = [n |-> l + 1, kept |-> a + 1, new |-> new, after |-> p.after, fed |-> fed]
    BY <1>6 DEF Fed
  <2>2. a \in Nat /\ l \in Nat
    BY <1>10
  <2> HIDE DEF a, new, fed, l
  <2>3. /\ v.n = l + 1 /\ v.kept = a + 1 /\ v.new = new /\ v.after = p.after /\ v.fed = fed
    BY <2>1
  <2>4. v.n - 1 = l /\ v.kept - 1 = a
    BY <2>2, <2>3
  <2> QED
    BY <2>3, <2>4 DEF a, new, fed, l
<1>12. Verified(draft, picks, p.after)
  <2> HIDE DEF draft
  <2>1. \/ past' = Rollback(Fed(draft), Accepted(draft, picks) + 1, Len(draft) + 1)
           /\ degraded' = degraded /\ faults' = faults
        \/ Fault /\ degraded' = TRUE
           /\ past' \in FailedRollbacks(Fed(draft), Accepted(draft, picks) + 1, Len(draft) + 1)
    BY <1>4, <1>11
  <2> DEFINE new == NewTokens(draft, picks)
             d == Observed(p.after, Len(draft), Accepted(draft, picks))
  <2>2. \/ phase' = "idle" /\ gen' = gen /\ emitted' = emitted /\ drafter' = drafter /\ degraded' # degraded
        \/ /\ gen' = gen \o UpToEos(new) /\ emitted' = emitted \o UpToEos(new)
           /\ drafter' = IF config.drafter = "mtp" THEN Extend(d, Len(gen) - 1, new) ELSE d
           /\ phase' = IF Len(emitted') >= maxNew \/ Eos \in Range(new) THEN "store" ELSE "decode"
    <3>1. CASE degraded' # degraded /\ config.strict
      BY <1>4, <3>1
    <3>2. CASE ~(degraded' # degraded /\ config.strict)
      BY <1>4, <1>11, <3>2
    <3> QED
      BY <3>1, <3>2
  <2> HIDE DEF Steps
  <2>3. draft # <<>> => p.draft # <<>>
    BY <1>9 DEF draft
  <2>4. Len(emitted) + Len(draft) + 1 <= maxNew
    BY <1>8
  <2> QED
    BY <1>7, <2>1, <2>2, <2>3, <2>4 DEF Verified
<1> QED
  <2> HIDE DEF draft
  <2>1. picks \in TargetPicks(draft)
    BY <1>6 DEF draft
  <2> QED
    BY <1>2, <1>7, <1>8, <1>12, <2>1

\* What a verification sweep adds to the cache.
LEMMA FedOf ==
    ASSUME config \in Configs, past \in Past, gen \in Ids, gen # <<>>, NEW draft \in Ids
    PROVE  /\ Fed(draft) \in Past
           /\ Len(Fed(draft).att) = Len(past.att) + (Len(draft) + 1)
           /\ Fed(draft).lin = IF config.hybrid THEN past.lin \o (<<Last(gen)>> \o draft) ELSE past.lin
           /\ config.hybrid => Len(Fed(draft).lin) = Len(past.lin) + (Len(draft) + 1)
           /\ \A i \in 1..Len(past.att) : Fed(draft).att[i] = past.att[i]
           /\ \A i \in 1..(Len(draft) + 1) :
                  Fed(draft).att[Len(past.att) + i] =
                      [id |-> (<<Last(gen)>> \o draft)[i], pos |-> (Len(gen) - 1) + i - 1]
<1> DEFINE ids == <<Last(gen)>> \o draft
           f == Feed(past, ids, Len(gen) - 1)
<1>1. Len(gen) \in Nat /\ Len(gen) > 0 /\ Last(gen) \in Vocab /\ Len(draft) \in Nat
  BY DEF Ids, Last
<1>2. ids \in Seq(Vocab) /\ Len(ids) = Len(draft) + 1
  BY <1>1 DEF Ids
<1>3. Len(gen) - 1 \in Nat /\ ids \in Ids
  BY <1>1, <1>2 DEF Ids
<1> HIDE DEF ids
<1>4. /\ f \in Past
      /\ Len(f.att) = Len(past.att) + Len(ids)
      /\ \A i \in 1..Len(past.att) : f.att[i] = past.att[i]
      /\ \A i \in 1..Len(ids) : f.att[Len(past.att) + i] = [id |-> ids[i], pos |-> (Len(gen) - 1) + i - 1]
      /\ f.lin = IF config.hybrid THEN past.lin \o ids ELSE past.lin
  BY <1>3, FeedOf
<1>5. Len(past.lin \o ids) = Len(past.lin) + Len(ids)
  <2>1. past.lin \in Seq(Vocab)
    BY DEF Past, Ids
  <2> QED
    BY <1>2, <2>1, CatOf
<1>6. Fed(draft) = f
  BY DEF Fed, ids
<1> HIDE DEF f
<1> QED
  BY <1>2, <1>4, <1>5, <1>6 DEF ids

\* The tokens up to EOS are some of them.
LEMMA UpToEosIn ==
    ASSUME NEW ids \in Ids, ids # <<>>
    PROVE  UpToEos(ids) \in Ids /\ Len(UpToEos(ids)) \in 1..Len(ids)
<1>1. PICK n \in 1..Len(ids) : UpToEos(ids) = Take(ids, n)
  BY UpToEosOf
<1>2. ids \in Seq(Vocab) /\ n \in Int /\ n >= 1 /\ n <= Len(ids)
  BY DEF Ids
<1>3. Take(ids, n) \in Seq(Vocab) /\ Len(Take(ids, n)) = n
  BY <1>2, TakeOf
<1> QED
  BY <1>1, <1>3 DEF Ids

\* A verification step appends at least one id, to `generated` and to what is streamed.
LEMMA SpecStepShape ==
    ASSUME ShapeInv, SpecStep
    PROVE  ShapeInv'
<1>1. TypeOK /\ RunInv /\ CacheInv /\ drafter.kv = drafter.ids /\ store \in Caches
  BY DEF ShapeInv
<1>2. ConfigKept /\ store' = store /\ buffer' = buffer /\ left' = left /\ phase = "decode" /\ config.drafter # "none"
  BY SpecStepOf
<1>3. /\ config \in Configs /\ gen \in Ids /\ emitted \in Ids /\ prompt \in Ids /\ maxNew \in Nat
      /\ drafter \in Drafters /\ past \in Past /\ gen # <<>> /\ emitted # <<>> /\ prompt # <<>>
      /\ Len(emitted) < maxNew /\ hit < Len(prompt) /\ (hit > 0 => config.prefix)
      /\ BufferSufficed /\ Context = prompt \o emitted /\ model \in Models /\ Len(emitted) \in Nat
      /\ Len(gen) \in Nat /\ Len(gen) > 0
  <2>1. MaxNew \in Nat
    BY ConstantTypes
  <2>2. /\ config \in Configs /\ gen \in Ids /\ emitted \in Ids /\ prompt \in Ids /\ maxNew \in Nat
        /\ drafter \in Drafters /\ past \in Past /\ model \in Models
    BY <1>1, <2>1 DEF TypeOK, Past, Drafters, Pairs
  <2>3. /\ gen # <<>> /\ emitted # <<>> /\ prompt # <<>>
        /\ Len(emitted) < maxNew /\ hit < Len(prompt) /\ (hit > 0 => config.prefix)
        /\ BufferSufficed /\ Context = prompt \o emitted
    BY <1>1, <1>2 DEF RunInv
  <2>4. Len(emitted) \in Nat /\ Len(gen) \in Nat /\ Len(gen) > 0
    BY <2>2, <2>3 DEF Ids
  <2> QED
    BY <2>2, <2>3, <2>4
<1>a. PICK draft \in Ids :
          \E picks \in TargetPicks(draft) : \E after \in Drafters : Verified(draft, picks, after)
  BY SpecStepOf
<1>b. PICK picks \in TargetPicks(draft) : \E after \in Drafters : Verified(draft, picks, after)
  BY <1>a
<1>4. PICK after \in Drafters : Verified(draft, picks, after)
  BY <1>b
<1> DEFINE n == Len(draft) + 1
           kept == Accepted(draft, picks) + 1
           new == NewTokens(draft, picks)
           u == UpToEos(new)
           d == Observed(after, Len(draft), Accepted(draft, picks))
<1>5. picks \in [1..(Len(draft) + 1) -> Vocab] /\ Len(draft) \in Nat
  BY <1>3, TargetPicksIn DEF Ids
<1>6. new \in Ids /\ Len(new) = kept /\ kept \in 1..n /\ Accepted(draft, picks) \in Nat /\ new # <<>> /\ n \in Nat
  <2> DEFINE a == Accepted(draft, picks)
  <2>1. a \in 0..Len(draft) /\ new \in Ids /\ Len(new) = a + 1
    BY <1>5, NewTokensIn
  <2> HIDE DEF a
  <2>2. a \in Nat /\ a + 1 \in 1..(Len(draft) + 1) /\ a + 1 # 0
    BY <1>5, <2>1
  <2> HIDE DEF new
  <2>3. new # <<>>
    BY <2>1, <2>2
  <2> QED
    BY <1>5, <2>1, <2>2, <2>3 DEF a
<1> HIDE DEF n, kept, new
<1>7. u \in Ids /\ Len(u) \in 1..Len(new)
  BY <1>6, UpToEosIn
<1> HIDE DEF u
<1>8. past' \in Past /\ faults' \in 0..MaxFaults /\ degraded' \in BOOLEAN
  <2>1. Rollback(Fed(draft), kept, n) \in Past /\ FailedRollbacks(Fed(draft), kept, n) \subseteq Past
    <3> DEFINE fed == Fed(draft)
    <3>1. fed \in Past /\ Len(fed.att) = Len(past.att) + n /\ (config.hybrid => Len(fed.lin) = Len(past.lin) + n)
      BY <1>3, FedOf DEF n
    <3> HIDE DEF fed
    <3>2. Rollback(fed, kept, n) \in Past /\ FailedRollbacks(fed, kept, n) \subseteq Past
      BY <1>3, <1>6, <3>1, RollbackIn
    <3> QED
      BY <3>2 DEF fed
  <2>2. \/ past' = Rollback(Fed(draft), kept, n) /\ degraded' = degraded /\ faults' = faults
        \/ Fault /\ degraded' = TRUE /\ past' \in FailedRollbacks(Fed(draft), kept, n)
    BY <1>4 DEF Verified, n, kept
  <2>3. faults \in 0..MaxFaults /\ degraded \in BOOLEAN /\ MaxFaults \in Nat
    BY <1>1, ConstantTypes DEF TypeOK
  <2>4. past' \in Past
    BY <2>1, <2>2
  <2>5. faults' = faults \/ (faults < MaxFaults /\ faults' = faults + 1)
    BY <2>2 DEF Fault
  <2>6. degraded' \in BOOLEAN
    BY <2>2, <2>3
  <2> QED
    BY <2>3, <2>4, <2>5, <2>6
<1>9. \/ phase' = "idle" /\ gen' = gen /\ emitted' = emitted /\ drafter' = drafter
      \/ /\ gen' = gen \o u /\ emitted' = emitted \o u
         /\ drafter' = IF config.drafter = "mtp" THEN Extend(d, Len(gen) - 1, new) ELSE d
         /\ phase' = IF Len(emitted') >= maxNew \/ Eos \in Range(new) THEN "store" ELSE "decode"
  BY <1>4 DEF Verified, new, u
<1>10. CASE phase' = "idle" /\ gen' = gen /\ emitted' = emitted /\ drafter' = drafter
  <2>1. Context' = Context
    BY <1>2, <1>10 DEF Context, ConfigKept
  <2>2. TypeOK'
    BY <1>1, <1>2, <1>8, <1>10 DEF TypeOK, ConfigKept, Past
  <2>3. RunInv'
    BY <1>1, <1>2, <1>10, <2>1 DEF RunInv, BufferSufficed, ConfigKept
  <2>4. CacheInv'
    BY <1>10 DEF CacheInv
  <2> QED
    BY <1>1, <1>2, <1>10, <2>2, <2>3, <2>4 DEF ShapeInv
<1>11. CASE /\ gen' = gen \o u /\ emitted' = emitted \o u
            /\ drafter' = IF config.drafter = "mtp" THEN Extend(d, Len(gen) - 1, new) ELSE d
            /\ phase' = IF Len(emitted') >= maxNew \/ Eos \in Range(new) THEN "store" ELSE "decode"
  <2>1. d \in Drafters /\ d.kv = d.ids
    <3>1. after.kv = after.ids /\ (config.drafter # "ngram" /\ draft # <<>> => after.k > 0)
      BY <1>4 DEF Verified
    <3>2. Len(draft) # 0 => draft # <<>>
      OBVIOUS
    <3>3. d \in Drafters /\ d.kv = after.kv /\ d.ids = after.ids
      BY <1>3, <1>5, <1>6, <3>1, <3>2, ObservedIn
    <3> QED
      BY <3>1, <3>3
  <2> HIDE DEF d
  <2>2. drafter' \in Drafters /\ drafter'.kv = drafter'.ids
    <3>1. CASE config.drafter = "mtp"
      <4> DEFINE e == Extend(d, Len(gen) - 1, new)
      <4>1. Len(gen) - 1 \in Nat
        BY <1>3
      <4>2. e \in Drafters /\ e.kv = d.kv /\ e.ids = d.ids
        BY <1>6, <2>1, <4>1, ExtendIn
      <4>3. drafter' = e
        BY <1>11, <3>1
      <4> HIDE DEF e
      <4> QED
        BY <2>1, <4>2, <4>3
    <3>2. CASE config.drafter # "mtp"
      BY <1>11, <2>1, <3>2
    <3> QED
      BY <3>1, <3>2
  <2>3. Context' = Context \o u /\ gen' \in Ids /\ Len(gen') = Len(gen) + Len(u)
    BY <1>1, <1>2, <1>7, <1>11, ContextGrows DEF ConfigKept
  <2>4. emitted' \in Ids /\ Len(emitted') = Len(emitted) + Len(u) /\ Len(u) \in Nat /\ Len(u) > 0
    <3>1. emitted \in Seq(Vocab) /\ u \in Seq(Vocab)
      BY <1>3, <1>7 DEF Ids
    <3>2. emitted \o u \in Seq(Vocab) /\ Len(emitted \o u) = Len(emitted) + Len(u)
      BY <3>1, CatOf
    <3>3. Len(u) \in Nat /\ Len(u) > 0
      BY <1>6, <1>7
    <3> QED
      BY <1>11, <3>2, <3>3 DEF Ids
  <2>5. Context' = prompt \o emitted' /\ Len(Context') = Len(prompt) + Len(emitted')
    <3>1. prompt \in Seq(Vocab) /\ emitted \in Seq(Vocab) /\ u \in Seq(Vocab)
      BY <1>3, <1>7 DEF Ids
    <3>2. (prompt \o emitted) \o u = prompt \o (emitted \o u)
      BY <3>1, ConcatAssociative
    <3>3. Len(prompt \o emitted') = Len(prompt) + Len(emitted')
      BY <3>1, <2>4, CatOf DEF Ids
    <3> QED
      BY <1>3, <1>11, <2>3, <3>2, <3>3
  <2>6. phase' \in {"store", "decode"} /\ (phase' = "decode" => Len(emitted') < maxNew)
    BY <1>3, <1>11, <2>4
  <2>7. TypeOK'
    <3>1. left' \in 0..Len(gen')
      BY <1>1, <1>2, <1>3, <2>3, <2>4 DEF TypeOK
    <3>2. drafter' \in [k : 0..config'.maxDraft, ids : Ids, kv : Ids, pending : Pairs, committed : Pairs]
      BY <1>2, <2>2 DEF Drafters, ConfigKept
    <3> QED
      BY <1>1, <1>2, <1>8, <2>3, <2>4, <2>6, <3>1, <3>2 DEF TypeOK, ConfigKept, Past, Pairs
  <2>8. RunInv'
    <3>1. gen' # <<>> /\ emitted' # <<>>
      BY <1>3, <2>3, <2>4
    <3> QED
      BY <1>2, <1>3, <2>5, <2>6, <3>1 DEF RunInv, BufferSufficed, ConfigKept
  <2>9. CacheInv'
    BY <1>2, <2>6 DEF CacheInv, ConfigKept
  <2> QED
    BY <1>1, <1>2, <2>2, <2>7, <2>8, <2>9 DEF ShapeInv
<1> QED
  BY <1>9, <1>10, <1>11

\* No snapshots leave the cache as it was.
LEMMA StoreNothing ==
    ASSUME NEW ids, NEW kv
    PROVE  Store(ids, kv, <<>>) = store
<1> DEFINE cut(m) == [ids |-> Take(ids, Least(m, Len(ids))), kv |-> Take(kv, m)]
           Iter(f) == f = [s \in SUBSET DOMAIN <<>> |->
                              IF s = {} THEN store ELSE Insert(f[s \ {Max(s)}], cut(<<>>[Max(s)]))]
           iter == CHOOSE f : Iter(f)
<1>1. Store(ids, kv, <<>>) = iter[DOMAIN <<>>]
  BY Zenon DEF Store, FoldLeft, MapThenFoldSet
<1>2. DOMAIN <<>> = {}
  OBVIOUS
<1>3. Iter([s \in SUBSET DOMAIN <<>> |-> store])
  <2>1. \A s \in SUBSET DOMAIN <<>> : s = {}
    BY <1>2
  <2> QED
    BY <2>1
<1>4. Iter(iter)
  <2> HIDE DEF Iter
  <2> QED
    BY <1>3
<1>5. iter[{}] = store
  <2> HIDE DEF iter
  <2> QED
    BY <1>2, <1>4
<1> HIDE DEF iter
<1> QED
  BY <1>1, <1>2, <1>5

\* A run's snapshots are labelled with the ids of the positions they hold.
LEMMA FinishShape ==
    ASSUME ShapeInv, Finish
    PROVE  ShapeInv'
<1>1. TypeOK /\ RunInv /\ CacheInv /\ drafter.kv = drafter.ids /\ store \in Caches
  BY DEF ShapeInv
<1>2. /\ phase = "store" /\ phase' = "idle" /\ ConfigKept /\ buffer' = buffer /\ gen' = gen /\ left' = left
      /\ past' = past /\ emitted' = emitted /\ drafter' = drafter /\ degraded' = degraded
  BY DEF Finish, runner, run, ConfigKept
<1>3. store' \in Caches /\ (faults' = faults \/ Fault)
  <2>1. CASE ~config.prefix \/ past.att = <<>>
    BY <1>1, <2>1 DEF Finish
  <2>2. CASE ~(~config.prefix \/ past.att = <<>>)
    <3> DEFINE att == past.att
               ids == Take(Context, Least(Len(att), Len(Context)))
               lengths == SnapshotLengths(ids, att)
    <3>1. PICK n \in 0..Len(lengths) :
              /\ IF n = Len(lengths) THEN UNCHANGED faults ELSE Fault
              /\ store' = Store(ids, past.att, Take(lengths, n))
      BY <2>2 DEF Finish
    <3>2. /\ config.drafter = "none" /\ att \in KV /\ Len(att) \in Nat /\ DOMAIN att = 1..Len(att)
          /\ Context \in Seq(Vocab) /\ Len(Context) \in Nat
      <4>1. config \in Configs /\ att \in KV
        BY <1>1 DEF TypeOK
      <4>2. config.drafter = "none"
        BY <2>2, <4>1, ConfigTypes
      <4>3. Context \in Seq(Vocab) /\ Len(Context) \in Nat
        BY <1>1, ContextOf DEF Ids
      <4>4. Len(att) \in Nat /\ DOMAIN att = 1..Len(att)
        BY <4>1 DEF KV
      <4> QED
        BY <4>1, <4>2, <4>3, <4>4
    <3>3. \A i \in 1..Len(att) : i <= Len(Context) => att[i].id = Context[i]
      BY <1>1, <1>2, <3>2 DEF CacheInv
    <3> HIDE DEF att
    <3>4. CASE Len(att) > Len(Context)
      <4>1. Least(Len(att), Len(Context)) = Len(Context)
        BY <3>2, <3>4 DEF Least
      <4>2. ids = Context
        BY <3>2, <4>1, TakeAll
      <4>3. lengths = <<>>
        BY <3>4, <4>2 DEF SnapshotLengths
      <4>4. Take(lengths, n) = <<>>
        <5> HIDE DEF lengths
        <5>1. n = 0
          BY <3>1, <4>3
        <5> QED
          BY <4>3, <5>1 DEF Take
      <4>5. store' = store
        <5> HIDE DEF lengths, ids
        <5> QED
          BY <3>1, <4>4, StoreNothing
      <4>6. faults' = faults \/ Fault
        BY <3>1
      <4> QED
        BY <1>1, <4>5, <4>6
    <3>5. CASE ~(Len(att) > Len(Context))
      <4>1. Least(Len(att), Len(Context)) = Len(att)
        BY <3>2, <3>5 DEF Least
      <4>2. ids \in Seq(Vocab) /\ Len(ids) = Len(att) /\ \A i \in 1..Len(att) : ids[i] = Context[i]
        <5> DEFINE m == Len(att)
        <5>1. m \in Int /\ m >= 0 /\ m <= Len(Context)
          BY <3>2, <3>5
        <5>2. ids = Take(Context, m)
          BY <4>1
        <5> HIDE DEF m, ids
        <5>3. Take(Context, m) \in Seq(Vocab) /\ Len(Take(Context, m)) = m
              /\ \A i \in 1..m : Take(Context, m)[i] = Context[i]
          BY <3>2, <5>1, TakeOf
        <5> QED
          BY <5>2, <5>3 DEF m
      <4> HIDE DEF ids
      <4>3. \A i \in 1..Len(att) : ids[i] = att[i].id
        <5>1. \A i \in 1..Len(att) : i <= Len(Context)
          BY <3>2, <3>5
        <5> QED
          BY <3>3, <4>2, <5>1
      <4>4. ids = Labels(att)
        <5>1. ids = [i \in 1..Len(att) |-> att[i].id]
          BY <4>2, <4>3
        <5> QED
          BY <3>2, <5>1 DEF Labels
      <4>5. lengths \in Seq(1..Len(att))
        BY <3>2, SnapshotLengthsIn
      <4> HIDE DEF lengths
      <4>6. Take(lengths, n) \in Seq(1..Len(att))
        <5>1. Len(lengths) \in Nat /\ n \in Int /\ n <= Len(lengths)
          BY <4>5
        <5> QED
          BY <4>5, <5>1, TakeOf
      <4>7. Store(ids, att, Take(lengths, n)) \in Caches
        BY <1>1, <3>2, <4>2, <4>4, <4>6, StoreSound DEF Ids
      <4>8. faults' = faults \/ Fault
        BY <3>1
      <4>9. store' = Store(ids, att, Take(lengths, n))
        BY <3>1 DEF att
      <4> QED
        BY <4>7, <4>8, <4>9
    <3> QED
      BY <3>4, <3>5
  <2> QED
    BY <2>1, <2>2
<1>4. Context' = Context
  BY <1>2 DEF Context, ConfigKept
<1>5. TypeOK'
  <2>1. store' \in [entries : Seq(Entry), bytes : Int]
    BY <1>3 DEF Caches
  <2>2. faults' \in 0..MaxFaults
    BY <1>1, <1>3, ConstantTypes DEF TypeOK, Fault
  <2> QED
    BY <1>1, <1>2, <2>1, <2>2 DEF TypeOK, ConfigKept, Entry
<1>6. RunInv'
  BY <1>1, <1>2, <1>4 DEF RunInv, BufferSufficed, ConfigKept
<1>7. CacheInv'
  BY <1>2 DEF CacheInv
<1> QED
  BY <1>1, <1>2, <1>3, <1>5, <1>6, <1>7 DEF ShapeInv

\* A failing sweep changes nothing but the phase.
LEMMA SweepRaisesShape ==
    ASSUME ShapeInv, SweepRaises
    PROVE  ShapeInv'
<1>1. TypeOK /\ RunInv /\ CacheInv /\ drafter.kv = drafter.ids /\ store \in Caches
  BY DEF ShapeInv
<1>2. /\ phase' = "idle" /\ ConfigKept /\ store' = store /\ buffer' = buffer /\ gen' = gen /\ left' = left
      /\ past' = past /\ emitted' = emitted /\ drafter' = drafter /\ degraded' = degraded /\ Fault
  BY DEF SweepRaises, runner, cache, run, ConfigKept
<1>3. Context' = Context
  BY <1>2 DEF Context, ConfigKept
<1>4. TypeOK'
  <2>1. faults' \in 0..MaxFaults
    BY <1>1, <1>2, ConstantTypes DEF TypeOK, Fault
  <2> QED
    BY <1>1, <1>2, <2>1 DEF TypeOK, ConfigKept
<1>5. RunInv'
  BY <1>1, <1>2, <1>3 DEF RunInv, BufferSufficed, ConfigKept
<1>6. CacheInv'
  BY <1>2 DEF CacheInv
<1> QED
  BY <1>1, <1>2, <1>4, <1>5, <1>6 DEF ShapeInv

\* What no step changes stays as it was.
LEMMA StutterShape ==
    ASSUME ShapeInv, UNCHANGED vars
    PROVE  ShapeInv'
<1>1. /\ ConfigKept /\ store' = store /\ buffer' = buffer /\ gen' = gen /\ left' = left /\ phase' = phase
      /\ past' = past /\ emitted' = emitted /\ drafter' = drafter /\ degraded' = degraded /\ faults' = faults
  BY DEF vars, runner, cache, run, ConfigKept
<1>2. TypeOK /\ RunInv /\ CacheInv /\ drafter.kv = drafter.ids /\ store \in Caches
  BY DEF ShapeInv
<1>3. Context' = Context /\ NewDrafter' = NewDrafter
  BY <1>1 DEF Context, NewDrafter, ConfigKept
<1>4. TypeOK'
  BY <1>1, <1>2 DEF TypeOK, ConfigKept
<1>5. RunInv'
  BY <1>1, <1>2, <1>3 DEF RunInv, BufferSufficed, ConfigKept
<1>6. CacheInv'
  BY <1>1, <1>2, <1>3 DEF CacheInv, ConfigKept
<1> QED
  BY <1>1, <1>2, <1>4, <1>5, <1>6 DEF ShapeInv

\* The shape of a run holds throughout.
THEOREM ShapeInvariant == Spec => []ShapeInv
<1>1. Init => ShapeInv
  BY InitShape
<1>2. ShapeInv /\ [Next]_vars => ShapeInv'
  BY StartShape, PrefillShape, FirstTokenShape, PlainStepShape, SpecStepShape, FinishShape,
     SweepRaisesShape, StutterShape DEF Next
<1> QED
  BY <1>1, <1>2, PTL DEF Spec

\* Every variable keeps its type through every turn, failure and rollback: among
\* them the draft length between nothing and its maximum, and the positions left
\* to prefill within the prompt.
THEOREM TypeCorrect == Spec => []TypeOK
<1>1. ShapeInv => TypeOK
  BY DEF ShapeInv
<1> QED
  BY <1>1, ShapeInvariant, PTL

\* The prefix cache never holds a snapshot of other ids than its label's, two of the
\* same ids, more entries than it may or more bytes than it counts or may.
THEOREM SnapshotsStayLabelled == Spec => []SnapshotsLabelled
<1>1. ASSUME ShapeInv PROVE SnapshotsLabelled
  <2> DEFINE es == store.entries
             ids == {e.ids : e \in Range(es)}
             f == [i \in 1..Len(es) |-> es[i].ids]
  <2>1. /\ es \in Seq(Entry) /\ Honest(es) /\ Distinct(es) /\ store.bytes = Bytes(es)
        /\ store.bytes <= MaxBytes /\ Len(es) <= MaxEntries
        /\ DOMAIN es = 1..Len(es) /\ Len(es) \in Nat
    BY <1>1 DEF ShapeInv, Caches
  <2> HIDE DEF es
  <2>2. \A e \in Range(es) : e.ids = [i \in DOMAIN e.kv |-> e.kv[i].id]
    BY <2>1 DEF Honest, Labels, Range
  <2>3. Cardinality(ids) = Len(es)
    <3>1. f \in Bijection(1..Len(es), ids)
      <4>1. f \in [1..Len(es) -> ids]
        BY <2>1 DEF Range
      <4>2. \A i, j \in 1..Len(es) : i # j => f[i] # f[j]
        BY <2>1 DEF Distinct
      <4>3. \A x \in ids : \E i \in 1..Len(es) : f[i] = x
        BY <2>1 DEF Range
      <4> HIDE DEF f, ids
      <4> QED
        BY <4>1, <4>2, <4>3 DEF Bijection, Injection, Surjection, IsInjective
    <3>2. ExistsBijection(1..Len(es), ids)
      <4> HIDE DEF f, ids
      <4> QED
        BY <3>1 DEF ExistsBijection
    <3> HIDE DEF ids
    <3> QED
      BY <2>1, <3>2, FS_CountingElements
  <2> QED
    BY <2>1, <2>2, <2>3 DEF SnapshotsLabelled, es
<1> QED
  BY <1>1, ShapeInvariant, PTL

-----------------------------------------------------------------------------
(* What is emitted is what greedy decoding of the target gives.            *)

TruthfulAs(hybrid, p, ids) == p.att = Labelled(ids) /\ (hybrid => p.lin = ids)
GreedyAt(m, ids) == m[<<IF Len(ids) = 1 THEN ids[1] ELSE ids[Len(ids) - 1], Last(ids)>>]
GreedyFrom(m, ids, out) == \A i \in DOMAIN out : out[i] = GreedyAt(m, ids \o Take(out, i - 1))

\* Nothing has failed, and the seeded prefix was stored at its own positions.
Sound == ~degraded /\ (hit = 0 \/ Take(past.att, hit) = Labelled(Take(prompt, hit)))

\* The cache stands for what was fed: the context, up to the last id in decoding.
TruthInv ==
    /\ phase \in {"prefill", "first"} /\ Sound =>
           TruthfulAs(config.hybrid, past, Take(Context, Len(Context) - left))
    /\ phase = "decode" /\ Sound /\ hit = 0 /\ BufferSufficed =>
           TruthfulAs(config.hybrid, past, Take(Context, Len(Context) - 1))

OutputInv ==
    Sound /\ BufferSufficed /\ (hit = 0 \/ Len(emitted) <= 1) => GreedyFrom(model, prompt, emitted)

EndInv ==
    /\ Complete
    /\ phase = "decode" => \A i \in 2..Len(emitted) : emitted[i] # Eos

LosslessInv == ShapeInv /\ TruthInv /\ OutputInv /\ EndInv

\* Truthful and Greedy, as functions of a configuration and a target.
LEMMA TruthfulSame == \A p, ids : Truthful(p, ids) <=> TruthfulAs(config.hybrid, p, ids)
BY DEF Truthful, TruthfulAs

\* The target's pick, as a function of the target.
LEMMA GreedySame == \A ids : Greedy(ids) = GreedyAt(model, ids)
BY DEF Greedy, GreedyAt

\* A cache is that of the ids when it holds them at their positions.
LEMMA LabelledOf ==
    ASSUME NEW att \in KV, NEW ids \in Ids
    PROVE  /\ att = Labelled(ids) <=>
                 /\ Len(att) = Len(ids)
                 /\ \A i \in 1..Len(ids) : att[i] = [id |-> ids[i], pos |-> i - 1]
           /\ Len(Labelled(ids)) = Len(ids)
<1>1. /\ DOMAIN ids = 1..Len(ids) /\ DOMAIN att = 1..Len(att) /\ Len(ids) \in Nat /\ Len(att) \in Nat
      /\ att = [i \in DOMAIN att |-> att[i]] /\ \A i \in 1..Len(ids) : ids[i] \in Vocab
  BY DEF KV, Ids
<1> DEFINE l == Labelled(ids)
<1>2. l = [i \in 1..Len(ids) |-> [id |-> ids[i], pos |-> i - 1]]
  BY <1>1 DEF Labelled
<1>3. DOMAIN l = 1..Len(ids) /\ \A i \in 1..Len(ids) : l[i] = [id |-> ids[i], pos |-> i - 1]
  BY <1>2
<1>4. l \in Seq([id : Vocab, pos : Nat]) /\ Len(l) = Len(ids)
  <2> DEFINE Cell == [id : Vocab, pos : Nat]
             n == Len(ids)
  <2>1. \A i \in 1..n : [id |-> ids[i], pos |-> i - 1] \in Cell
    BY <1>1
  <2>2. l \in [1..n -> Cell] /\ n \in Nat
    BY <1>1, <1>2, <2>1
  <2> HIDE DEF l, Cell, n
  <2>3. l \in Seq(Cell) /\ Len(l) = n
    BY <2>2
  <2> QED
    BY <2>3 DEF Cell, n
<1> HIDE DEF l
<1>5. att = l <=> Len(att) = Len(l) /\ \A i \in 1..Len(att) : att[i] = l[i]
  <2>1. att \in Seq([id : Vocab, pos : Nat])
    BY DEF KV
  <2> QED
    BY <1>4, <2>1, SameSeq
<1>6. att = l <=>
          /\ Len(att) = Len(ids)
          /\ \A i \in 1..Len(ids) : att[i] = [id |-> ids[i], pos |-> i - 1]
  <2>1. Len(l) = Len(ids)
    BY <1>4
  <2>2. \A i \in 1..Len(ids) : l[i] = [id |-> ids[i], pos |-> i - 1]
    BY <1>3
  <2>3. CASE Len(att) = Len(ids)
    <3>1. (\A i \in 1..Len(ids) : att[i] = l[i]) <=>
              \A i \in 1..Len(ids) : att[i] = [id |-> ids[i], pos |-> i - 1]
      BY <2>2
    <3> QED
      BY <1>5, <2>1, <2>3, <3>1
  <2>4. CASE Len(att) # Len(ids)
    BY <1>5, <2>1, <2>4
  <2> QED
    BY <2>3, <2>4
<1> QED
  BY <1>4, <1>6 DEF l

\* A sweep at the right offset extends what the cache stands for.
LEMMA FeedTruthful ==
    ASSUME NEW p \in Past, NEW s \in Ids, NEW t \in Ids, TruthfulAs(config.hybrid, p, s)
    PROVE  TruthfulAs(config.hybrid, Feed(p, t, Len(s)), s \o t)
<1> DEFINE f == Feed(p, t, Len(s))
           st == s \o t
<1>1. Len(s) \in Nat /\ s \in Seq(Vocab) /\ t \in Seq(Vocab) /\ Len(t) \in Nat /\ p.att \in KV
  BY DEF Ids, Past
<1>2. /\ f \in Past /\ Len(f.att) = Len(p.att) + Len(t)
      /\ \A i \in 1..Len(p.att) : f.att[i] = p.att[i]
      /\ \A i \in 1..Len(t) : f.att[Len(p.att) + i] = [id |-> t[i], pos |-> Len(s) + i - 1]
      /\ f.lin = IF config.hybrid THEN p.lin \o t ELSE p.lin
  BY <1>1, FeedOf
<1>3. /\ Len(p.att) = Len(s) /\ \A i \in 1..Len(s) : p.att[i] = [id |-> s[i], pos |-> i - 1]
      /\ config.hybrid => p.lin = s
  BY <1>1, LabelledOf DEF TruthfulAs
<1>4. /\ st \in Seq(Vocab) /\ Len(st) = Len(s) + Len(t)
      /\ \A i \in 1..Len(s) : st[i] = s[i]
      /\ \A i \in 1..Len(t) : st[Len(s) + i] = t[i]
  BY <1>1, CatOf
<1> HIDE DEF f, st
<1>5. ASSUME NEW i \in 1..Len(st) PROVE f.att[i] = [id |-> st[i], pos |-> i - 1]
  <2>1. CASE i <= Len(s)
    <3>1. i \in 1..Len(s)
      BY <1>1, <2>1
    <3> QED
      BY <1>2, <1>3, <1>4, <3>1
  <2>2. CASE ~(i <= Len(s))
    <3> DEFINE j == i - Len(s)
    <3>1. j \in 1..Len(t) /\ i = Len(s) + j /\ Len(s) + j - 1 = i - 1
      BY <1>1, <1>4, <2>2
    <3> HIDE DEF j
    <3>2. f.att[Len(s) + j] = [id |-> t[j], pos |-> Len(s) + j - 1] /\ st[Len(s) + j] = t[j]
      BY <1>2, <1>3, <1>4, <3>1
    <3> QED
      BY <3>1, <3>2
  <2> QED
    BY <2>1, <2>2
<1>6. f.att = Labelled(st)
  <2>1. f.att \in KV /\ st \in Ids /\ Len(f.att) = Len(st)
    BY <1>2, <1>3, <1>4 DEF Past, Ids
  <2> QED
    BY <1>5, <2>1, LabelledOf
<1>7. config.hybrid => f.lin = st
  BY <1>2, <1>3 DEF st
<1> QED
  BY <1>6, <1>7 DEF TruthfulAs, f, st

\* What is kept of a cache stands for as much of the ids.
LEMMA TakeLabelled ==
    ASSUME NEW att \in KV, NEW ids \in Ids, att = Labelled(ids), NEW n \in 0..Len(ids)
    PROVE  Take(att, n) = Labelled(Take(ids, n)) /\ Len(att) = Len(ids)
<1> DEFINE a == Take(att, n)
           s == Take(ids, n)
<1>1. /\ ids \in Seq(Vocab) /\ att \in Seq([id : Vocab, pos : Nat]) /\ n \in Int /\ n >= 0 /\ n <= Len(ids)
      /\ Len(att) = Len(ids) /\ Len(ids) \in Nat
      /\ \A i \in 1..Len(ids) : att[i] = [id |-> ids[i], pos |-> i - 1]
  <2>1. ids \in Seq(Vocab) /\ att \in Seq([id : Vocab, pos : Nat]) /\ Len(ids) \in Nat
    BY DEF Ids, KV
  <2>2. Len(att) = Len(ids) /\ \A i \in 1..Len(ids) : att[i] = [id |-> ids[i], pos |-> i - 1]
    BY LabelledOf
  <2> QED
    BY <2>1, <2>2
<1>2. a \in Seq([id : Vocab, pos : Nat]) /\ Len(a) = n /\ \A i \in 1..n : a[i] = att[i]
  BY <1>1, TakeOf
<1>3. s \in Seq(Vocab) /\ Len(s) = n /\ \A i \in 1..n : s[i] = ids[i]
  BY <1>1, TakeOf
<1> HIDE DEF a, s
<1>4. \A i \in 1..n : i \in 1..Len(ids)
  BY <1>1
<1>5. a \in KV /\ s \in Ids /\ Len(a) = Len(s) /\ \A i \in 1..Len(s) : a[i] = [id |-> s[i], pos |-> i - 1]
  BY <1>1, <1>2, <1>3, <1>4 DEF KV, Ids
<1>6. a = Labelled(s)
  BY <1>5, LabelledOf
<1> QED
  BY <1>1, <1>6 DEF a, s

-----------------------------------------------------------------------------
(* Greedy outputs.                                                         *)

\* Nothing is a greedy output.
LEMMA GreedyNone == \A m, ids : GreedyFrom(m, ids, <<>>)
BY DEF GreedyFrom

\* A greedy output followed by one that is greedy after it is greedy.
LEMMA GreedyMore ==
    ASSUME NEW m, NEW ids \in Ids, NEW out \in Ids, NEW new \in Ids,
           GreedyFrom(m, ids, out), GreedyFrom(m, ids \o out, new)
    PROVE  GreedyFrom(m, ids, out \o new)
<1> DEFINE all == out \o new
<1>1. ids \in Seq(Vocab) /\ out \in Seq(Vocab) /\ new \in Seq(Vocab) /\ Len(out) \in Nat /\ Len(new) \in Nat
  BY DEF Ids
<1>2. /\ all \in Seq(Vocab) /\ Len(all) = Len(out) + Len(new) /\ DOMAIN all = 1..(Len(out) + Len(new))
      /\ \A i \in 1..Len(out) : all[i] = out[i]
      /\ \A i \in 1..Len(new) : all[Len(out) + i] = new[i]
  BY <1>1, CatOf
<1>3. /\ \A n \in 0..Len(out) : Take(all, n) = Take(out, n)
      /\ \A n \in 0..Len(new) : Take(all, Len(out) + n) = out \o Take(new, n)
  <2>1. out \in Seq(Vocab) /\ new \in Seq(Vocab)
    BY <1>1
  <2> QED
    BY <2>1, TakeCat
<1> HIDE DEF all
<1>4. ASSUME NEW i \in DOMAIN all PROVE all[i] = GreedyAt(m, ids \o Take(all, i - 1))
  <2>1. CASE i <= Len(out)
    <3>1. i \in DOMAIN out /\ i \in 1..Len(out) /\ i - 1 \in 0..Len(out)
      BY <1>1, <1>2, <2>1
    <3> QED
      BY <1>2, <1>3, <3>1 DEF GreedyFrom
  <2>2. CASE ~(i <= Len(out))
    <3> DEFINE j == i - Len(out)
    <3>1. j \in DOMAIN new /\ j \in 1..Len(new) /\ j - 1 \in 0..Len(new) /\ i = Len(out) + j
          /\ i - 1 = Len(out) + (j - 1)
      <4> DEFINE a == Len(out)
                 b == Len(new)
      <4>1. a \in Nat /\ b \in Nat /\ i \in 1..(a + b) /\ i > a /\ DOMAIN new = 1..b
        BY <1>1, <1>2, <2>2
      <4> HIDE DEF a, b
      <4>2. i - a \in 1..b /\ (i - a) - 1 \in 0..b /\ i = a + (i - a) /\ i - 1 = a + ((i - a) - 1)
        BY <4>1
      <4> QED
        BY <4>1, <4>2 DEF a, b
    <3> HIDE DEF j
    <3>2. all[i] = new[j]
      BY <1>2, <3>1
    <3>3. new[j] = GreedyAt(m, (ids \o out) \o Take(new, j - 1))
      BY <3>1 DEF GreedyFrom
    <3> DEFINE s == Take(new, j - 1)
    <3>4. s \in Seq(Vocab)
      <4>1. j - 1 \in Int /\ j - 1 <= Len(new)
        BY <3>1, <1>1
      <4> QED
        BY <1>1, <4>1, TakeOf
    <3>5. Take(all, i - 1) = out \o s
      BY <1>3, <3>1
    <3> HIDE DEF s
    <3>6. (ids \o out) \o s = ids \o (out \o s)
      BY <1>1, <3>4, ConcatAssociative
    <3> QED
      BY <3>2, <3>3, <3>5, <3>6 DEF s
  <2> QED
    BY <2>1, <2>2
<1> QED
  BY <1>4 DEF GreedyFrom, all

\* One pick is a greedy output.
LEMMA GreedyOne ==
    ASSUME NEW m, NEW ids \in Ids, NEW t \in Vocab, t = GreedyAt(m, ids)
    PROVE  GreedyFrom(m, ids, <<t>>)
<1>1. Take(<<t>>, 0) = <<>>
  <2>1. <<t>> \in Seq(Vocab)
    OBVIOUS
  <2> QED
    BY <2>1, TakeAll
<1>2. ids \o <<>> = ids
  BY DEF Ids
<1>3. DOMAIN <<t>> = {1}
  OBVIOUS
<1>4. <<t>>[1] = GreedyAt(m, ids \o Take(<<t>>, 1 - 1))
  <2>1. 1 - 1 = 0 /\ <<t>>[1] = t
    OBVIOUS
  <2> QED
    BY <1>1, <1>2, <2>1
<1> QED
  BY <1>3, <1>4 DEF GreedyFrom

\* What is cut from a greedy output leaves one.
LEMMA GreedyCut ==
    ASSUME NEW m, NEW ids, NEW out \in Ids, NEW n \in 0..Len(out), GreedyFrom(m, ids, out)
    PROVE  GreedyFrom(m, ids, Take(out, n))
<1> DEFINE s == Take(out, n)
<1>1. out \in Seq(Vocab) /\ n \in Int /\ n >= 0 /\ n <= Len(out) /\ Len(out) \in Nat
  BY DEF Ids
<1>2. s \in Seq(Vocab) /\ Len(s) = n /\ DOMAIN s = 1..n /\ \A i \in 1..n : s[i] = out[i]
  BY <1>1, TakeOf
<1>3. ASSUME NEW i \in 1..n PROVE Take(s, i - 1) = Take(out, i - 1)
  <2> DEFINE a == Take(s, i - 1)
             b == Take(out, i - 1)
  <2>1. i - 1 \in Int /\ i - 1 >= 0 /\ i - 1 <= Len(out) /\ i - 1 <= Len(s)
    BY <1>1, <1>2
  <2> HIDE DEF s
  <2>2. a \in Seq(Vocab) /\ Len(a) = i - 1 /\ \A j \in 1..(i - 1) : a[j] = s[j]
    BY <1>2, <2>1, TakeOf
  <2>3. b \in Seq(Vocab) /\ Len(b) = i - 1 /\ \A j \in 1..(i - 1) : b[j] = out[j]
    BY <1>1, <2>1, TakeOf
  <2> HIDE DEF a, b
  <2>4. \A j \in 1..(i - 1) : j \in 1..n
    BY <1>1
  <2>5. a = b
    BY <1>2, <2>2, <2>3, <2>4, SameSeq
  <2> QED
    BY <2>5 DEF a, b
<1> HIDE DEF s
<1>4. ASSUME NEW i \in 1..n PROVE s[i] = GreedyAt(m, ids \o Take(s, i - 1))
  <2>1. i \in DOMAIN out
    BY <1>1
  <2> QED
    BY <1>2, <1>3, <2>1 DEF GreedyFrom
<1> QED
  BY <1>2, <1>4 DEF GreedyFrom, s

\* A greedy output is the run of greedy decoding.
LEMMA GreedyRunOf ==
    ASSUME NEW ids \in Ids, NEW out \in Ids, GreedyFrom(model, ids, out)
    PROVE  out = GreedyRun(ids, Len(out))
<1> DEFINE n == Len(out)
           Runs(g) == g = [i \in 0..n |-> IF i = 0 THEN <<>> ELSE Append(g[i - 1], Greedy(ids \o g[i - 1]))]
           run0 == CHOOSE g : Runs(g)
           cut == [i \in 0..n |-> Take(out, i)]
<1>1. GreedyRun(ids, n) = run0[n]
  BY Zenon DEF GreedyRun
<1>2. n \in Nat /\ out \in Seq(Vocab) /\ DOMAIN out = 1..n
  BY DEF Ids
<1>3. cut[0] = <<>> /\ cut[n] = out
  BY <1>2, TakeAll
<1>4. ASSUME NEW i \in 1..n PROVE cut[i] = Append(cut[i - 1], Greedy(ids \o cut[i - 1]))
  <2> DEFINE a == Take(out, i - 1)
             b == Take(out, i)
  <2>1. i - 1 \in Int /\ i - 1 >= 0 /\ i - 1 <= n /\ i \in Int /\ i >= 0 /\ i <= n
    BY <1>2
  <2>2. a \in Seq(Vocab) /\ Len(a) = i - 1 /\ \A j \in 1..(i - 1) : a[j] = out[j]
    BY <1>2, <2>1, TakeOf
  <2>3. b \in Seq(Vocab) /\ Len(b) = i /\ \A j \in 1..i : b[j] = out[j]
    BY <1>2, <2>1, TakeOf
  <2>4. cut[i] = b /\ cut[i - 1] = a
    BY <2>1
  <2>5. out[i] = Greedy(ids \o a) /\ out[i] \in Vocab
    BY <1>2, GreedySame DEF GreedyFrom
  <2> HIDE DEF a, b, cut
  <2>6. /\ Append(a, out[i]) \in Seq(Vocab) /\ Len(Append(a, out[i])) = i
        /\ Append(a, out[i])[i] = out[i] /\ \A j \in 1..(i - 1) : Append(a, out[i])[j] = a[j]
    <3>1. Len(a) + 1 = i
      BY <2>1, <2>2
    <3> QED
      BY <2>2, <2>5, <3>1, AppendOf
  <2>7. \A j \in 1..i : b[j] = Append(a, out[i])[j]
    <3>1. \A j \in 1..i : j = i \/ j \in 1..(i - 1)
      BY <2>1
    <3>2. i \in 1..i
      BY <2>1
    <3> QED
      BY <2>2, <2>3, <2>6, <3>1, <3>2
  <2>8. b = Append(a, out[i])
    BY <2>3, <2>6, <2>7, SameSeq
  <2> QED
    BY <2>4, <2>5, <2>8
<1>5. Runs(cut)
  <2>1. \A i \in 0..n : i = 0 \/ i \in 1..n
    BY <1>2
  <2>2. \A i \in 0..n : cut[i] = IF i = 0 THEN <<>> ELSE Append(cut[i - 1], Greedy(ids \o cut[i - 1]))
    <3> HIDE DEF cut
    <3> QED
      BY <1>3, <1>4, <2>1
  <2>3. cut = [i \in 0..n |-> cut[i]]
    OBVIOUS
  <2> HIDE DEF cut
  <2> QED
    BY <2>2, <2>3
<1>6. Runs(run0)
  <2> HIDE DEF Runs
  <2> QED
    BY <1>5
<1> HIDE DEF run0
<1> DEFINE M == {i \in Nat : i <= n => run0[i] = cut[i]}
<1>7. 0 \in M
  BY <1>2, <1>3, <1>6
<1>8. ASSUME NEW i \in M PROVE i + 1 \in M
  <2>1. SUFFICES ASSUME i + 1 <= n PROVE run0[i + 1] = cut[i + 1]
    OBVIOUS
  <2>2. run0[i] = cut[i] /\ i + 1 \in 1..n /\ i + 1 \in 0..n /\ (i + 1) - 1 = i /\ i + 1 # 0
    BY <1>2, <2>1
  <2>3. run0[i + 1] = Append(run0[i], Greedy(ids \o run0[i]))
    <3>1. run0[i + 1] = Append(run0[(i + 1) - 1], Greedy(ids \o run0[(i + 1) - 1]))
      BY <1>6, <2>2
    <3> QED
      BY <2>2, <3>1
  <2> HIDE DEF cut, Runs, M
  <2>4. cut[i + 1] = Append(cut[i], Greedy(ids \o cut[i]))
    <3>1. cut[i + 1] = Append(cut[(i + 1) - 1], Greedy(ids \o cut[(i + 1) - 1]))
      BY <1>4, <2>2
    <3> QED
      BY <2>2, <3>1
  <2> QED
    BY <2>2, <2>3, <2>4
<1> HIDE DEF Runs, cut
<1>9. n \in M
  <2> HIDE DEF M
  <2> QED
    BY <1>2, <1>7, <1>8, NatSet
<1> QED
  BY <1>1, <1>2, <1>3, <1>9

\* The seeded prefix is that of any cache that extends it.
LEMMA SeededPart ==
    ASSUME NEW p \in Past, NEW q \in Past, NEW h \in Nat, h <= Len(p.att), h <= Len(q.att),
           \A i \in 1..h : q.att[i] = p.att[i]
    PROVE  Take(q.att, h) = Take(p.att, h)
<1> DEFINE a == Take(q.att, h)
           b == Take(p.att, h)
           Cell == [id : Vocab, pos : Nat]
<1>1. p.att \in Seq(Cell) /\ q.att \in Seq(Cell) /\ h \in Int /\ h >= 0
  BY DEF Past, KV
<1> HIDE DEF Cell
<1>2. a \in Seq(Cell) /\ Len(a) = h /\ \A i \in 1..h : a[i] = q.att[i]
  BY <1>1, TakeOf
<1>3. b \in Seq(Cell) /\ Len(b) = h /\ \A i \in 1..h : b[i] = p.att[i]
  BY <1>1, TakeOf
<1> HIDE DEF a, b
<1>4. a = b
  BY <1>2, <1>3, SameSeq
<1> QED
  BY <1>4 DEF a, b

\* A new run has emitted nothing, and its cache is the seeded prefix.
LEMMA StartLossless ==
    ASSUME LosslessInv, Start
    PROVE  TruthInv' /\ OutputInv' /\ EndInv'
<1>1. ShapeInv
  BY DEF LosslessInv
<1>2. /\ prompt' \in Ids /\ Len(prompt') \in Nat /\ left' = Len(gen') /\ phase' = "prefill" /\ emitted' = <<>>
      /\ config' = config /\ hit' \in Nat /\ hit' < Len(prompt') /\ past'.lin = <<>> /\ past' \in Past
      /\ Len(past'.att) = hit' /\ (hit' > 0 => config.prefix)
      /\ Len(gen') = Len(prompt') - hit' /\ Context' = prompt'
  BY <1>1, StartOf
<1>3. ASSUME Sound' PROVE TruthfulAs(config.hybrid, past', Take(prompt', hit'))
  <2>1. past'.att \in Seq([id : Vocab, pos : Nat])
    BY <1>2 DEF Past, KV
  <2>2. CASE hit' = 0
    <3>1. Take(prompt', 0) = <<>>
      BY <1>2, TakeAll DEF Ids
    <3>2. past'.att = <<>> /\ Labelled(<<>>) = <<>>
      BY <1>2, <2>1, <2>2 DEF Labelled
    <3> QED
      BY <1>2, <2>2, <3>1, <3>2 DEF TruthfulAs
  <2>3. CASE hit' # 0
    <3>1. Take(past'.att, hit') = past'.att
      BY <1>2, <2>1, TakeAll
    <3>2. ~config.hybrid
      <4>1. config \in Configs /\ config.prefix
        BY <1>1, <1>2, <2>3 DEF ShapeInv, TypeOK
      <4> QED
        BY <4>1, ConfigTypes
    <3> QED
      BY <1>3, <2>3, <3>1, <3>2 DEF Sound, TruthfulAs
  <2> QED
    BY <2>2, <2>3
<1>4. TruthInv'
  <2>1. Len(Context') - left' = hit' /\ phase' # "decode"
    BY <1>2
  <2> QED
    BY <1>2, <1>3, <2>1 DEF TruthInv
<1>5. OutputInv'
  BY <1>2, GreedyNone DEF OutputInv
<1>6. EndInv'
  BY <1>2 DEF EndInv, Complete
<1> QED
  BY <1>4, <1>5, <1>6

\* A slice is fed at the position behind what the cache covers.
LEMMA PrefillLossless ==
    ASSUME LosslessInv, Prefill
    PROVE  TruthInv' /\ OutputInv' /\ EndInv'
<1> DEFINE n == Chunk(left)
           c == Len(gen) - left
           m == hit + c
           ids == SubSeq(gen, c + 1, c + n)
<1>1. ShapeInv /\ TypeOK /\ RunInv /\ CacheInv /\ TruthInv /\ OutputInv /\ EndInv
  BY DEF LosslessInv, ShapeInv
<1>2. /\ past' = Feed(past, ids, Offset) /\ left' = left - n /\ phase = "prefill"
      /\ phase' = (IF left' = 0 THEN "first" ELSE "prefill")
      /\ ConfigKept /\ gen' = gen /\ emitted' = emitted /\ degraded' = degraded
  BY DEF Prefill, runner, cache, run, ConfigKept
<1>3. /\ gen \in Seq(Vocab) /\ Len(gen) \in Nat /\ left \in 0..Len(gen) /\ past \in Past /\ config \in Configs
      /\ hit \in Nat /\ Context \in Seq(Vocab) /\ Len(Context) = hit + Len(gen)
      /\ \A i \in 1..Len(gen) : Context[hit + i] = gen[i]
  BY <1>1, ContextOf DEF TypeOK, Past, Ids
<1>4. n \in 0..left
  BY <1>3, ChunkIn
<1> HIDE DEF n
<1>5. /\ c \in Nat /\ n \in Nat /\ c + n <= Len(gen) /\ m \in Nat /\ m + n <= Len(Context)
      /\ m = Len(Context) - left /\ Offset = m
  BY <1>3, <1>4 DEF Offset
<1>6. ids \in Seq(Vocab) /\ Len(ids) = n /\ \A i \in 1..n : ids[i] = gen[c + i]
  <2> HIDE DEF c
  <2>1. \A i \in (c + 1)..(c + n) : gen[i] \in Vocab
    BY <1>3, <1>5
  <2> QED
    BY <1>5, <2>1, SubSeqProperties
<1> HIDE DEF c, ids
<1> DEFINE s == Take(Context, m)
           t == Take(Context, m + n)
<1>7. s \in Seq(Vocab) /\ Len(s) = m /\ \A i \in 1..m : s[i] = Context[i]
  <2>1. m \in Int /\ m >= 0 /\ m <= Len(Context)
    BY <1>5
  <2> HIDE DEF m
  <2> QED
    BY <1>3, <2>1, TakeOf
<1>8. t \in Seq(Vocab) /\ Len(t) = m + n /\ \A i \in 1..(m + n) : t[i] = Context[i]
  <2>1. m + n \in Int /\ m + n >= 0 /\ m + n <= Len(Context)
    BY <1>5
  <2> HIDE DEF m
  <2> QED
    BY <1>3, <2>1, TakeOf
<1> HIDE DEF s, t
<1>9. s \o ids = t
  <2>1. /\ s \o ids \in Seq(Vocab) /\ Len(s \o ids) = m + n
        /\ \A i \in 1..m : (s \o ids)[i] = s[i]
        /\ \A i \in 1..n : (s \o ids)[m + i] = ids[i]
    <3>1. s \in Seq(Vocab) /\ ids \in Seq(Vocab)
      BY <1>6, <1>7
    <3>2. /\ s \o ids \in Seq(Vocab) /\ Len(s \o ids) = Len(s) + Len(ids)
          /\ \A i \in 1..Len(s) : (s \o ids)[i] = s[i]
          /\ \A i \in 1..Len(ids) : (s \o ids)[Len(s) + i] = ids[i]
      BY <3>1, CatOf
    <3> HIDE DEF m
    <3> QED
      BY <1>6, <1>7, <3>2
  <2>2. ASSUME NEW i \in 1..(m + n) PROVE (s \o ids)[i] = t[i]
    <3>1. CASE i <= m
      <4>1. i \in 1..m
        BY <1>5, <3>1
      <4> QED
        BY <1>7, <1>8, <2>1, <4>1
    <3>2. CASE ~(i <= m)
      <4>1. i - m \in 1..n /\ i = m + (i - m) /\ c + (i - m) \in 1..Len(gen) /\ i = hit + (c + (i - m))
        BY <1>3, <1>5, <3>2
      <4>2. (s \o ids)[i] = ids[i - m]
        BY <2>1, <4>1
      <4>3. ids[i - m] = gen[c + (i - m)]
        BY <1>6, <4>1
      <4>4. Context[i] = gen[c + (i - m)]
        BY <1>3, <4>1
      <4> QED
        BY <1>8, <4>2, <4>3, <4>4
    <3> QED
      BY <3>1, <3>2
  <2> QED
    BY <1>8, <2>1, <2>2, SameSeq
<1>10. Context' = Context /\ Len(Context') - left' = m + n
  <2>1. Context' = Context
    BY <1>2 DEF Context, ConfigKept
  <2>2. left' = left - n /\ m = Len(Context) - left /\ Len(Context) \in Nat /\ left \in Nat /\ n \in Nat
    BY <1>2, <1>3, <1>5
  <2> HIDE DEF m
  <2>3. Len(Context) - (left - n) = m + n
    BY <2>2
  <2> QED
    BY <2>1, <2>2, <2>3
<1>11. /\ past' \in Past /\ Len(past'.att) >= Len(past.att) /\ Len(past.att) \in Nat
       /\ \A i \in 1..Len(past.att) : past'.att[i] = past.att[i]
  <2> DEFINE f == Feed(past, ids, Offset)
  <2>1. ids \in Ids /\ Offset \in Nat
    BY <1>5, <1>6 DEF Ids
  <2>2. /\ f \in Past /\ Len(f.att) = Len(past.att) + Len(ids)
        /\ \A i \in 1..Len(past.att) : f.att[i] = past.att[i]
    BY <1>3, <2>1, FeedOf
  <2>3. past' = f /\ Len(past.att) \in Nat /\ Len(ids) \in Nat
    BY <1>2, <1>3, <2>1 DEF Past, KV, Ids
  <2> HIDE DEF f
  <2>4. Len(past'.att) = Len(past.att) + Len(ids) /\ past' \in Past
    BY <2>2, <2>3
  <2>5. Len(past'.att) >= Len(past.att)
    BY <2>3, <2>4
  <2> QED
    BY <2>2, <2>3, <2>4, <2>5
<1>12. Sound' => Sound
  <2>1. hit <= Len(past.att)
    BY <1>1, <1>2, <1>3, <1>5 DEF CacheInv
  <2>2. Take(past'.att, hit) = Take(past.att, hit)
    <3>1. hit <= Len(past'.att) /\ \A i \in 1..hit : past'.att[i] = past.att[i]
      BY <1>3, <1>11, <2>1
    <3> QED
      BY <1>3, <1>11, <2>1, <3>1, SeededPart
  <2> QED
    BY <1>2, <2>2 DEF Sound, ConfigKept
<1>13. ASSUME Sound PROVE TruthfulAs(config.hybrid, past', t)
  <2>1. TruthfulAs(config.hybrid, past, s)
    BY <1>1, <1>2, <1>5, <1>13 DEF TruthInv, s
  <2>2. TruthfulAs(config.hybrid, Feed(past, ids, Len(s)), s \o ids)
    BY <1>3, <1>6, <1>7, <2>1, FeedTruthful DEF Ids
  <2>3. Offset = Len(s)
    BY <1>5, <1>7
  <2> QED
    BY <1>2, <1>9, <2>2, <2>3
<1>14. TruthInv'
  <2>1. phase' \in {"prefill", "first"}
    BY <1>2
  <2>2. t = Take(Context', Len(Context') - left')
    BY <1>10 DEF t
  <2> QED
    BY <1>2, <1>12, <1>13, <2>1, <2>2 DEF TruthInv, ConfigKept
<1>15. OutputInv'
  <2>1. BufferSufficed' <=> BufferSufficed
    BY <1>2, <1>10 DEF BufferSufficed, ConfigKept
  <2> QED
    BY <1>1, <1>2, <1>12, <2>1 DEF OutputInv, ConfigKept
<1>16. EndInv'
  BY <1>1, <1>2 DEF EndInv, Complete, ConfigKept
<1> QED
  BY <1>14, <1>15, <1>16

\* The first token is the greedy pick after the prompt.
LEMMA FirstTokenLossless ==
    ASSUME LosslessInv, FirstToken
    PROVE  TruthInv' /\ OutputInv' /\ EndInv'
<1>1. ShapeInv /\ TypeOK /\ RunInv /\ CacheInv /\ TruthInv /\ OutputInv /\ EndInv
  BY DEF LosslessInv, ShapeInv
<1>2. ConfigKept /\ phase = "first" /\ left' = left /\ past' = past /\ degraded' = degraded
  BY DEF FirstToken, runner, cache, run, ConfigKept
<1>3. /\ gen = Drop(prompt, hit) /\ emitted = <<>> /\ left = 0 /\ prompt # <<>> /\ gen # <<>>
      /\ hit < Len(prompt) /\ prompt \in Seq(Vocab) /\ hit \in 0..Len(prompt) /\ past \in Past
      /\ model \in Models /\ gen \in Seq(Vocab) /\ maxNew \in Nat
  <2>1. MaxNew \in Nat
    BY ConstantTypes
  <2> QED
    BY <1>1, <1>2, <2>1 DEF RunInv, TypeOK, Past, Ids
<1>4. Context = prompt
  BY <1>3, CutJoin DEF Context
<1>5. Sound' <=> Sound
  BY <1>2 DEF Sound, ConfigKept
<1>6. Sound => Truthful(past, prompt)
  <2>1. Len(prompt) - 0 = Len(prompt) /\ Take(prompt, Len(prompt)) = prompt
    BY <1>3, TakeAll
  <2> QED
    BY <1>1, <1>2, <1>3, <1>4, <2>1, TruthfulSame DEF TruthInv
<1>7. CASE maxNew = 0
  <2>1. phase' = "store" /\ gen' = gen /\ emitted' = emitted
    BY <1>7 DEF FirstToken
  <2>2. TruthInv'
    BY <2>1 DEF TruthInv
  <2>3. OutputInv'
    BY <1>3, <2>1, GreedyNone DEF OutputInv
  <2>4. EndInv'
    BY <1>2, <1>3, <1>7, <2>1 DEF EndInv, Complete, ConfigKept
  <2> QED
    BY <2>2, <2>3, <2>4
<1>8. CASE maxNew # 0
  <2>1. PICK t \in Picks(past, Context) :
                /\ gen' = Append(gen, t) /\ emitted' = <<t>>
                /\ phase' = (IF config.drafter = "none" /\ config.prealloc /\ Len(gen') > buffer
                             THEN "idle" ELSE IF maxNew = 1 THEN "store" ELSE "decode")
    BY <1>8 DEF FirstToken
  <2>2. t \in Vocab /\ (Sound => t = GreedyAt(model, prompt))
    <3>1. t \in Vocab
      BY <1>3, <1>4, <2>1, PicksIn DEF Ids
    <3>2. Sound => t = Greedy(prompt)
      BY <1>4, <1>6, <2>1 DEF Picks
    <3> QED
      BY <3>1, <3>2, GreedySame
  <2>3. gen' = gen \o <<t>> /\ <<t>> \in Ids /\ Len(<<t>>) = 1
    BY <1>3, <2>1, <2>2, AppendIsConcat DEF Ids
  <2>4. Context' = prompt \o <<t>>
    BY <1>1, <1>2, <1>4, <2>3, ContextGrows DEF ConfigKept
  <2>5. TruthInv'
    <3>1. Take(Context', Len(Context') - 1) = prompt
      <4> DEFINE u == <<t>>
      <4>1. u \in Seq(Vocab) /\ Len(u) = 1
        BY <2>2
      <4> HIDE DEF u
      <4>2. Len(prompt \o u) = Len(prompt) + 1 /\ Len(prompt) \in Nat
        <5>1. prompt \in Seq(Vocab)
          BY <1>3
        <5>2. u \in Seq(Vocab)
          BY <4>1
        <5>3. Len(prompt \o u) = Len(prompt) + Len(u)
          BY <5>1, <5>2, CatOf
        <5> QED
          BY <4>1, <5>1, <5>3
      <4>3. Len(prompt \o u) - 1 = Len(prompt) /\ Len(prompt) \in 0..Len(prompt)
        BY <4>2
      <4>4. Take(prompt \o u, Len(prompt)) = Take(prompt, Len(prompt))
        BY <1>3, <4>1, <4>3, TakeCat
      <4>5. Take(prompt, Len(prompt)) = prompt
        BY <1>3, TakeAll
      <4> QED
        BY <2>4, <4>3, <4>4, <4>5 DEF u
    <3>2. phase' \notin {"prefill", "first"}
      BY <2>1
    <3>3. Sound => TruthfulAs(config.hybrid, past, prompt)
      BY <1>6, TruthfulSame
    <3> QED
      BY <1>2, <1>5, <3>1, <3>2, <3>3 DEF TruthInv, ConfigKept
  <2>6. OutputInv'
    <3>1. Sound => GreedyFrom(model, prompt, <<t>>)
      BY <1>3, <2>2, GreedyOne DEF Ids
    <3> QED
      BY <1>2, <1>5, <2>1, <3>1 DEF OutputInv, ConfigKept
  <2>7. EndInv'
    <3>1. Len(emitted') = 1
      BY <2>1
    <3>2. phase' = "store" => maxNew = 1
      BY <2>1
    <3> QED
      BY <1>2, <3>1, <3>2 DEF EndInv, Complete, ConfigKept
  <2> QED
    BY <2>5, <2>6, <2>7
<1> QED
  BY <1>7, <1>8

\* Past a hit, the context is `generated`.
LEMMA ContextIsGen ==
    ASSUME TypeOK, hit = 0
    PROVE  Context = gen
<1>1. gen \in Seq(Vocab) /\ prompt \in Seq(Vocab)
  BY DEF TypeOK, Ids
<1>2. Take(prompt, 0) = <<>>
  BY <1>1, TakeAll
<1>3. <<>> \o gen = gen
  BY <1>1
<1> QED
  BY <1>2, <1>3 DEF Context

\* All but the last id, and that one.
LEMMA FrontLast ==
    ASSUME NEW ids \in Ids, ids # <<>>
    PROVE  /\ Front(ids) = Take(ids, Len(ids) - 1) /\ Front(ids) \in Ids /\ Len(Front(ids)) = Len(ids) - 1
           /\ Front(ids) \o <<Last(ids)>> = ids
<1> DEFINE n == Len(ids) - 1
           s == Take(ids, n)
           l == Last(ids)
<1>1. ids \in Seq(Vocab) /\ Len(ids) \in Nat /\ Len(ids) > 0 /\ n \in Nat /\ n <= Len(ids) /\ n + 1 = Len(ids)
  BY DEF Ids
<1>2. Front(ids) = s /\ l \in Vocab /\ l = ids[Len(ids)]
  BY <1>1, FrontOf DEF Last
<1>3. s \in Seq(Vocab) /\ Len(s) = n /\ \A i \in 1..n : s[i] = ids[i]
  <2>1. n \in Int /\ n >= 0
    BY <1>1
  <2> HIDE DEF n
  <2> QED
    BY <1>1, <2>1, TakeOf
<1> HIDE DEF s, l, n
<1>4. /\ Append(s, l) \in Seq(Vocab) /\ Len(Append(s, l)) = n + 1
      /\ Append(s, l)[n + 1] = l /\ \A i \in 1..n : Append(s, l)[i] = s[i]
  BY <1>2, <1>3, AppendOf
<1>5. \A i \in 1..Len(ids) : i = n + 1 \/ i \in 1..n
  BY <1>1
<1>6. Append(s, l) = ids
  BY <1>1, <1>2, <1>3, <1>4, <1>5, SameSeq
<1>7. s \o <<l>> = Append(s, l)
  BY <1>2, <1>3, AppendIsConcat
<1> QED
  BY <1>1, <1>2, <1>3, <1>6, <1>7 DEF s, l, n, Ids

\* A step of the plain loop emits the greedy pick after all before it.
LEMMA PlainStepLossless ==
    ASSUME LosslessInv, PlainStep
    PROVE  TruthInv' /\ OutputInv' /\ EndInv'
<1>1. ShapeInv /\ TypeOK /\ RunInv /\ CacheInv /\ TruthInv /\ OutputInv /\ EndInv
  BY DEF LosslessInv, ShapeInv
<1>2. /\ ConfigKept /\ phase = "decode" /\ config.drafter = "none" /\ degraded' = degraded
      /\ past' = Feed(past, <<Last(gen)>>, Len(gen) - 1)
  BY DEF PlainStep, runner, cache, run, ConfigKept
<1>3. PICK t \in Picks(past', Context) :
        /\ gen' = Appended(t) /\ emitted' = Append(emitted, t)
        /\ phase' = (IF Len(emitted') = maxNew \/ t = Eos THEN "store" ELSE "decode")
  BY DEF PlainStep
<1>4. /\ Context \in Ids /\ Len(Context) = hit + Len(gen)
      /\ hit \in Nat /\ Len(gen) \in Nat /\ Len(prompt) \in Nat /\ Len(emitted) \in Nat
      /\ past \in Past /\ gen \in Ids /\ prompt \in Ids /\ emitted \in Ids
      /\ maxNew \in Nat /\ model \in Models
  <2>1. MaxNew \in Nat
    BY ConstantTypes
  <2> QED
    BY <1>1, <2>1, ContextOf DEF TypeOK, Past
<1>5. gen # <<>> /\ emitted # <<>> /\ Len(emitted) < maxNew /\ Len(emitted) > 0 /\ Len(gen) > 0
      /\ Len(Context) <= Len(prompt) + Len(emitted)
  <2>1. gen # <<>> /\ emitted # <<>> /\ Len(emitted) < maxNew /\ Len(Context) <= Len(prompt) + Len(emitted)
    BY <1>1, <1>2 DEF RunInv
  <2> QED
    BY <1>4, <2>1 DEF Ids
<1>6. t \in Vocab
  <2>1. Context # <<>>
    BY <1>4, <1>5
  <2> QED
    BY <1>3, <1>4, <2>1, PicksIn
<1>7. /\ emitted' \in Ids /\ Len(emitted') = Len(emitted) + 1 /\ emitted' = emitted \o <<t>>
      /\ emitted'[Len(emitted) + 1] = t /\ \A i \in 1..Len(emitted) : emitted'[i] = emitted[i]
  <2>1. emitted \in Seq(Vocab)
    BY <1>4 DEF Ids
  <2>2. emitted' = Append(emitted, t) /\ Append(emitted, t) = emitted \o <<t>>
    BY <1>3, <1>6, <2>1, AppendIsConcat
  <2>3. /\ Append(emitted, t) \in Seq(Vocab) /\ Len(Append(emitted, t)) = Len(emitted) + 1
        /\ Append(emitted, t)[Len(emitted) + 1] = t
        /\ \A i \in 1..Len(emitted) : Append(emitted, t)[i] = emitted[i]
    BY <1>6, <2>1, AppendOf
  <2> QED
    BY <1>4, <2>2, <2>3 DEF Ids
\* Only a step that found room in the buffer is told about.
<1>8. ASSUME BufferSufficed'
      PROVE  /\ BufferSufficed /\ Context = prompt \o emitted /\ Context' = Context \o <<t>>
             /\ gen' = gen \o <<t>>
  <2>1. CASE config.prealloc /\ Len(gen) >= buffer
    <3>1. gen' = gen
      BY <1>3, <2>1 DEF Appended
    <3>2. Context' = Context
      BY <1>2, <3>1 DEF Context, ConfigKept
    <3>3. Len(Context) = Len(prompt) + Len(emitted) + 1
      <4>1. Len(Context') = Len(prompt) + Len(emitted')
        BY <1>2, <1>8 DEF BufferSufficed, ConfigKept
      <4>2. Len(emitted') = Len(emitted) + 1 /\ Context' = Context
        BY <1>7, <3>2
      <4>3. Len(prompt) \in Nat /\ Len(emitted) \in Nat
        BY <1>4
      <4> QED
        BY <4>1, <4>2, <4>3
    <3> QED
      BY <1>4, <1>5, <3>3
  <2>2. CASE ~(config.prealloc /\ Len(gen) >= buffer)
    <3>1. gen' = gen \o <<t>>
      <4>1. gen' = Append(gen, t)
        BY <1>3, <2>2 DEF Appended
      <4> QED
        BY <1>4, <1>6, <4>1, AppendIsConcat DEF Ids
    <3>2. <<t>> \in Ids /\ Len(<<t>>) = 1
      BY <1>6 DEF Ids
    <3>3. Context' = Context \o <<t>>
      BY <1>1, <1>2, <3>1, <3>2, ContextGrows DEF ConfigKept
    <3>4. Len(Context') = Len(Context) + 1
      <4> DEFINE u == <<t>>
      <4>1. u \in Seq(Vocab) /\ Context \in Seq(Vocab) /\ Len(u) = 1
        BY <1>4, <3>2 DEF Ids
      <4> HIDE DEF u
      <4>2. Len(Context \o u) = Len(Context) + Len(u)
        BY <4>1, CatOf
      <4> QED
        BY <3>3, <4>1, <4>2 DEF u
    <3>5. BufferSufficed
      <4> DEFINE c == Len(Context)
                 d == Len(Context')
                 p == Len(prompt)
                 e == Len(emitted)
                 f == Len(emitted')
      <4>1. d = c + 1 /\ f = e + 1 /\ c \in Nat /\ p \in Nat /\ e \in Nat
        <5>1. Len(Context) \in Nat
          BY <1>4
        <5> QED
          BY <1>4, <1>7, <3>4, <5>1
      <4>2. d = p + f
        BY <1>2, <1>8 DEF BufferSufficed, ConfigKept
      <4> HIDE DEF c, d, p, e, f
      <4>3. c = p + e
        BY <4>1, <4>2
      <4> QED
        BY <4>3 DEF BufferSufficed, c, p, e
    <3> QED
      BY <1>1, <3>1, <3>3, <3>5 DEF RunInv
  <2> QED
    BY <2>1, <2>2
<1>9. ASSUME BufferSufficed, Sound, hit = 0 PROVE TruthfulAs(config.hybrid, past', Context)
  <2>1. Context = gen
    BY <1>1, <1>9, ContextIsGen
  <2> DEFINE s == Front(gen)
  <2>2. s = Take(gen, Len(gen) - 1) /\ s \in Ids /\ Len(s) = Len(gen) - 1 /\ s \o <<Last(gen)>> = gen
    BY <1>4, <1>5, FrontLast
  <2>3. TruthfulAs(config.hybrid, past, s)
    BY <1>1, <1>2, <1>9, <2>1, <2>2 DEF TruthInv
  <2>4. <<Last(gen)>> \in Ids
    BY <1>4, <1>5 DEF Ids, Last
  <2> HIDE DEF s
  <2>5. TruthfulAs(config.hybrid, Feed(past, <<Last(gen)>>, Len(s)), s \o <<Last(gen)>>)
    BY <1>4, <2>2, <2>3, <2>4, FeedTruthful
  <2> QED
    BY <1>2, <2>1, <2>2, <2>5
<1>10. ASSUME hit = 0, Sound' PROVE Sound
  BY <1>2, <1>10 DEF Sound, ConfigKept
<1>11. TruthInv'
  <2>1. phase' \notin {"prefill", "first"}
    BY <1>3
  <2>2. ASSUME Sound', hit = 0, BufferSufficed'
        PROVE  TruthfulAs(config.hybrid, past', Take(Context', Len(Context') - 1))
    <3>1. TruthfulAs(config.hybrid, past', Context)
      BY <1>8, <1>9, <1>10, <2>2
    <3>2. Take(Context', Len(Context') - 1) = Context
      <4> DEFINE u == <<t>>
      <4>1. u \in Seq(Vocab) /\ Len(u) = 1
        BY <1>6
      <4>2. Context \in Seq(Vocab) /\ Len(Context) \in Nat
        BY <1>4 DEF Ids
      <4>3. Context' = Context \o u
        BY <1>8, <2>2
      <4> HIDE DEF u
      <4>4. Len(Context \o u) = Len(Context) + Len(u)
        BY <4>1, <4>2, CatOf
      <4>5. Len(Context \o u) - 1 = Len(Context) /\ Len(Context) \in 0..Len(Context)
        BY <4>1, <4>2, <4>4
      <4>6. Take(Context \o u, Len(Context)) = Take(Context, Len(Context))
        BY <4>1, <4>2, <4>5, TakeCat
      <4>7. Take(Context, Len(Context)) = Context
        BY <4>2, TakeAll
      <4> QED
        BY <4>3, <4>5, <4>6, <4>7
    <3> QED
      BY <3>1, <3>2
  <2> QED
    BY <1>2, <2>1, <2>2 DEF TruthInv, ConfigKept
<1>12. OutputInv'
  <2>1. ASSUME Sound', BufferSufficed', hit = 0 PROVE GreedyFrom(model, prompt, emitted')
    <3>1. GreedyFrom(model, prompt, emitted)
      BY <1>1, <1>8, <1>10, <2>1 DEF OutputInv
    <3>2. t = Greedy(Context)
      BY <1>3, <1>8, <1>9, <1>10, <2>1, TruthfulSame DEF Picks
    <3>3. t = GreedyAt(model, prompt \o emitted)
      BY <1>8, <2>1, <3>2, GreedySame
    <3>4. prompt \o emitted \in Ids /\ <<t>> \in Ids
      BY <1>4, <1>6 DEF Ids
    <3>5. GreedyFrom(model, prompt \o emitted, <<t>>)
      BY <1>6, <3>3, <3>4, GreedyOne
    <3> QED
      BY <1>4, <1>7, <3>1, <3>4, <3>5, GreedyMore
  <2>2. ~(Len(emitted') <= 1)
    BY <1>4, <1>5, <1>7
  <2> QED
    BY <1>2, <2>1, <2>2 DEF OutputInv, ConfigKept
<1>13. EndInv'
  <2>1. \A i \in 2..Len(emitted) : emitted[i] # Eos
    BY <1>1, <1>2 DEF EndInv
  <2>2. \A i \in 2..(Len(emitted') - 1) : emitted'[i] # Eos
    <3>1. \A i \in 2..(Len(emitted') - 1) : i \in 2..Len(emitted) /\ i \in 1..Len(emitted)
      BY <1>4, <1>7
    <3> QED
      BY <1>7, <2>1, <3>1
  <2>3. phase' = "decode" => \A i \in 2..Len(emitted') : emitted'[i] # Eos
    <3>1. phase' = "decode" => t # Eos
      BY <1>3
    <3>2. \A i \in 2..Len(emitted') : i = Len(emitted) + 1 \/ i \in 2..(Len(emitted') - 1)
      BY <1>4, <1>7
    <3> QED
      BY <1>7, <2>2, <3>1, <3>2
  <2>4. phase' = "store" => \/ Len(emitted') = maxNew
                            \/ Len(emitted') \in 2..maxNew /\ Last(emitted') = Eos
    <3>1. phase' = "store" => Len(emitted') = maxNew \/ t = Eos
      BY <1>3
    <3>2. Last(emitted') = t
      BY <1>7 DEF Last
    <3>3. Len(emitted') \in 2..maxNew
      BY <1>4, <1>5, <1>7
    <3> QED
      BY <3>1, <3>2, <3>3
  <2> QED
    BY <1>2, <2>2, <2>3, <2>4 DEF EndInv, Complete, ConfigKept
<1> QED
  BY <1>11, <1>12, <1>13

\* The end of a run, a failure and a stutter change nothing these tell apart.
LEMMA QuietLossless ==
    ASSUME LosslessInv, ConfigKept, gen' = gen, past' = past, emitted' = emitted, degraded' = degraded,
           left' = left, phase' = "idle" \/ phase' = phase
    PROVE  TruthInv' /\ OutputInv' /\ EndInv'
<1>1. TruthInv /\ OutputInv /\ EndInv
  BY DEF LosslessInv
<1>2. Context' = Context
  BY DEF Context, ConfigKept
<1>3. (Sound' <=> Sound) /\ (BufferSufficed' <=> BufferSufficed)
  BY <1>2 DEF Sound, BufferSufficed, ConfigKept
<1>4. TruthInv'
  BY <1>1, <1>2, <1>3 DEF TruthInv, ConfigKept
<1>5. OutputInv'
  BY <1>1, <1>3 DEF OutputInv, ConfigKept
<1>6. EndInv'
  BY <1>1 DEF EndInv, Complete, ConfigKept
<1> QED
  BY <1>4, <1>5, <1>6

\* The picks of a faithful sweep are greedy: those of the draft that the target
\* confirms, and the target's own after them.
LEMMA VerifiedGreedy ==
    ASSUME NEW draft \in Ids, NEW picks \in [1..(Len(draft) + 1) -> Vocab],
           picks = [i \in 1..(Len(draft) + 1) |-> Greedy(gen \o Take(draft, i - 1))]
    PROVE  GreedyFrom(model, gen, NewTokens(draft, picks))
<1> DEFINE a == Accepted(draft, picks)
           new == NewTokens(draft, picks)
<1>1. /\ new \in Ids /\ Len(new) = a + 1 /\ a \in 0..Len(draft)
      /\ \A i \in 1..(a + 1) : new[i] = picks[i]
      /\ \A i \in 1..a : new[i] = draft[i]
  BY NewTokensIn
<1>2. draft \in Seq(Vocab) /\ Len(draft) \in Nat
  BY DEF Ids
<1> HIDE DEF a, new
<1>3. a \in Nat /\ a <= Len(draft) /\ new \in Seq(Vocab) /\ DOMAIN new = 1..(a + 1)
  BY <1>1, <1>2 DEF Ids
<1>4. ASSUME NEW i \in 1..(a + 1) PROVE new[i] = GreedyAt(model, gen \o Take(new, i - 1))
  <2> DEFINE s == Take(new, i - 1)
             t == Take(draft, i - 1)
             n == i - 1
  <2>1. n \in Int /\ n >= 0 /\ n <= Len(new) /\ n <= Len(draft) /\ n <= a
    BY <1>1, <1>2, <1>3
  <2> HIDE DEF n
  <2>2. Take(new, n) \in Seq(Vocab) /\ Len(Take(new, n)) = n /\ \A j \in 1..n : Take(new, n)[j] = new[j]
    BY <1>3, <2>1, TakeOf
  <2>3. Take(draft, n) \in Seq(Vocab) /\ Len(Take(draft, n)) = n
        /\ \A j \in 1..n : Take(draft, n)[j] = draft[j]
    BY <1>2, <2>1, TakeOf
  <2>4. \A j \in 1..n : j \in 1..a
    BY <1>3, <2>1
  <2>5. Take(new, n) = Take(draft, n)
    <3>1. \A j \in 1..n : Take(new, n)[j] = Take(draft, n)[j]
      BY <1>1, <2>2, <2>3, <2>4
    <3> QED
      BY <2>2, <2>3, <3>1, SameSeq
  <2>6. i \in 1..(Len(draft) + 1)
    BY <1>2, <1>3
  <2>7. picks[i] = Greedy(gen \o Take(draft, i - 1))
    BY <2>6
  <2> QED
    BY <1>1, <2>5, <2>7, GreedySame DEF n
<1> QED
  BY <1>3, <1>4 DEF GreedyFrom, new

\* What is cut at EOS stays greedy.
LEMMA UpToEosGreedy ==
    ASSUME NEW m, NEW ids, NEW out \in Ids, out # <<>>, GreedyFrom(m, ids, out)
    PROVE  GreedyFrom(m, ids, UpToEos(out))
<1>1. PICK n \in 1..Len(out) : UpToEos(out) = Take(out, n)
  BY UpToEosOf
<1>2. n \in 0..Len(out)
  BY DEF Ids
<1> QED
  BY <1>1, <1>2, GreedyCut

\* A verification sweep over a draft, from a cache one position behind.
LEMMA FedTruthful ==
    ASSUME gen \in Ids, gen # <<>>, past \in Past, TruthfulAs(config.hybrid, past, Front(gen)),
           NEW draft \in Ids
    PROVE  TruthfulAs(config.hybrid, Fed(draft), gen \o draft)
<1> DEFINE s == Front(gen)
           l == <<Last(gen)>>
<1>1. s \in Ids /\ Len(s) = Len(gen) - 1 /\ s \o l = gen
  BY FrontLast
<1>2. l \in Seq(Vocab) /\ draft \in Seq(Vocab)
  BY DEF Ids, Last
<1> HIDE DEF s, l
<1>3. l \o draft \in Ids
  BY <1>2, CatOf DEF Ids
<1>4. TruthfulAs(config.hybrid, Feed(past, l \o draft, Len(s)), s \o (l \o draft))
  <2>1. TruthfulAs(config.hybrid, past, s)
    BY DEF s
  <2> QED
    BY <1>1, <1>3, <2>1, FeedTruthful
<1>5. s \o (l \o draft) = gen \o draft
  <2>1. s \in Seq(Vocab) /\ l \in Seq(Vocab) /\ draft \in Seq(Vocab)
    BY <1>1, <1>2 DEF Ids
  <2>2. \A x, y, z \in Seq(Vocab) : (x \o y) \o z = x \o (y \o z)
    BY ConcatAssociative
  <2>3. (s \o l) \o draft = s \o (l \o draft)
    BY <2>1, <2>2
  <2>4. (s \o l) \o draft = gen \o draft
    BY <1>1
  <2> QED
    BY Zenon, <2>3, <2>4
<1> QED
  BY <1>1, <1>4, <1>5 DEF Fed, l

\* What a rollback keeps stands for the confirmed ids.
LEMMA RollbackTruthful ==
    ASSUME config \in Configs, gen \in Ids, gen # <<>>, past \in Past,
           TruthfulAs(config.hybrid, past, Front(gen)),
           NEW draft \in Ids, NEW a \in 0..Len(draft)
    PROVE  TruthfulAs(config.hybrid, Rollback(Fed(draft), a + 1, Len(draft) + 1), gen \o Take(draft, a))
<1> DEFINE fed == Fed(draft)
           all == gen \o draft
           kept == gen \o Take(draft, a)
           g == Len(gen)
           d == Len(draft)
           p == Len(past.att)
           q == Len(past.lin)
<1>1. /\ gen \in Seq(Vocab) /\ draft \in Seq(Vocab) /\ past.att \in KV /\ past.lin \in Seq(Vocab)
      /\ g \in Nat /\ g > 0 /\ d \in Nat /\ a \in Nat /\ a <= d
  BY DEF Ids, Past
<1>2. fed \in Past /\ Len(fed.att) = p + (d + 1) /\ (config.hybrid => Len(fed.lin) = q + (d + 1))
  BY FedOf
<1>3. TruthfulAs(config.hybrid, fed, all)
  BY FedTruthful
<1>4. Front(gen) \in Ids /\ Len(Front(gen)) = g - 1
  BY FrontLast
<1>5. p = g - 1 /\ (config.hybrid => q = g - 1)
  <2>1. past.att = Labelled(Front(gen)) /\ (config.hybrid => past.lin = Front(gen))
    BY DEF TruthfulAs
  <2>2. Len(Labelled(Front(gen))) = Len(Front(gen))
    BY <1>1, <1>4, LabelledOf
  <2> QED
    BY <1>4, <2>1, <2>2
<1>6. all \in Ids /\ Len(all) = g + d
  BY <1>1, CatOf DEF Ids
<1>7. Take(all, g + a) = kept
  <2>1. gen \in Seq(Vocab) /\ draft \in Seq(Vocab) /\ a \in 0..Len(draft)
    BY <1>1
  <2>2. \A n \in 0..Len(draft) : Take(gen \o draft, Len(gen) + n) = gen \o Take(draft, n)
    BY <2>1, TakeCat
  <2> QED
    BY <2>1, <2>2
<1> HIDE DEF fed, all, kept, g, d, p, q
<1>8. g + a \in 0..Len(all)
  BY <1>1, <1>6
<1>9. Take(fed.att, g + a) = Labelled(kept)
  <2>1. fed.att \in KV /\ fed.att = Labelled(all)
    BY <1>2, <1>3 DEF Past, TruthfulAs
  <2> QED
    BY <1>6, <1>7, <1>8, <2>1, TakeLabelled
<1>10. ASSUME config.hybrid PROVE fed.lin = all
  BY <1>3, <1>10 DEF TruthfulAs
<1>11. CASE a = d
  <2>1. kept = all
    <3>1. Take(draft, a) = draft
      BY <1>1, <1>11, TakeAll DEF d
    <3> QED
      BY <3>1 DEF kept, all
  <2>2. Rollback(fed, a + 1, d + 1) = fed
    BY <1>11 DEF Rollback
  <2> QED
    BY <1>3, <2>1, <2>2 DEF fed, d, kept
<1>12. CASE a # d
  <2>1. a + 1 # d + 1
    BY <1>1, <1>12
  <2>2. CASE config.hybrid
    <3>1. Rollback(fed, a + 1, d + 1) =
            [att |-> Take(fed.att, Len(fed.att) - ((d + 1) - (a + 1))), lin |-> Take(fed.lin, q + (a + 1))]
      BY <2>1, <2>2 DEF Rollback, q
    <3>2. Len(fed.att) - ((d + 1) - (a + 1)) = g + a /\ q + (a + 1) = g + a
      BY <1>1, <1>2, <1>5, <2>2
    <3> DEFINE att == Take(fed.att, g + a)
               lin == Take(fed.lin, g + a)
    <3>3. Rollback(fed, a + 1, d + 1) = [att |-> att, lin |-> lin]
      BY <3>1, <3>2
    <3>4. att = Labelled(kept) /\ lin = kept
      BY <1>7, <1>9, <1>10, <2>2
    <3> HIDE DEF att, lin
    <3>5. TruthfulAs(config.hybrid, [att |-> att, lin |-> lin], kept)
      BY <3>4 DEF TruthfulAs
    <3> QED
      BY <3>3, <3>5 DEF fed, d, kept
  <2>3. CASE ~config.hybrid
    <3> DEFINE att == Take(fed.att, Least(Len(fed.att), g - 1 + (a + 1)))
    <3>1. Rollback(fed, a + 1, d + 1) = [fed EXCEPT !.att = att]
      BY <2>1, <2>3 DEF Rollback, g
    <3>2. Least(Len(fed.att), g - 1 + (a + 1)) = g + a
      <4>1. Len(fed.att) = g + d /\ g - 1 + (a + 1) = g + a
        BY <1>1, <1>2, <1>5
      <4>2. Least(g + d, g + a) = g + a
        BY <1>1 DEF Least
      <4> QED
        BY <4>1, <4>2
    <3>3. att = Labelled(kept)
      BY <1>9, <3>2
    <3> HIDE DEF att
    <3>4. [fed EXCEPT !.att = att].att = att
      BY <1>2 DEF Past
    <3>5. TruthfulAs(config.hybrid, [fed EXCEPT !.att = att], kept)
      BY <2>3, <3>3, <3>4 DEF TruthfulAs
    <3> QED
      BY <3>1, <3>5 DEF fed, d, kept
  <2> QED
    BY <2>2, <2>3
<1> QED
  BY <1>11, <1>12

\* A verification step emits greedy picks only, and rolls the cache back to what
\* stands for them, whatever was drafted.
LEMMA SpecStepLossless ==
    ASSUME LosslessInv, SpecStep
    PROVE  TruthInv' /\ OutputInv' /\ EndInv'
<1>1. ShapeInv /\ TypeOK /\ RunInv /\ TruthInv /\ OutputInv /\ EndInv
  BY DEF LosslessInv, ShapeInv
<1>2. ConfigKept /\ phase = "decode" /\ config.drafter # "none"
  BY <1>1, SpecStepOf
<1>a. PICK draft \in Ids :
          \E picks \in TargetPicks(draft) : \E after \in Drafters : Verified(draft, picks, after)
  BY <1>1, SpecStepOf
<1>b. PICK picks \in TargetPicks(draft) : \E after \in Drafters : Verified(draft, picks, after)
  BY <1>a
<1>c. PICK after \in Drafters : Verified(draft, picks, after)
  BY <1>b
<1>3. /\ config \in Configs /\ gen \in Ids /\ emitted \in Ids /\ prompt \in Ids /\ maxNew \in Nat
      /\ past \in Past /\ gen # <<>> /\ model \in Models /\ Len(emitted) \in Nat /\ Len(emitted) > 0
      /\ hit = 0 /\ BufferSufficed /\ gen = prompt \o emitted
  <2>1. MaxNew \in Nat
    BY ConstantTypes
  <2>2. /\ config \in Configs /\ gen \in Ids /\ emitted \in Ids /\ prompt \in Ids /\ maxNew \in Nat
        /\ past \in Past /\ model \in Models /\ hit \in Nat
    BY <1>1, <2>1, ContextOf DEF TypeOK, Past
  <2>3. /\ gen # <<>> /\ emitted # <<>> /\ (hit > 0 => config.prefix)
        /\ BufferSufficed /\ Context = prompt \o emitted
    BY <1>1, <1>2 DEF RunInv
  <2>4. ~config.prefix
    BY <1>2, <2>2, ConfigTypes
  <2>5. hit = 0
    BY <2>2, <2>3, <2>4
  <2>6. Context = gen
    BY <1>1, <2>5, ContextIsGen
  <2>7. Len(emitted) \in Nat /\ Len(emitted) > 0
    BY <2>2, <2>3 DEF Ids
  <2> QED
    BY <2>2, <2>3, <2>5, <2>6, <2>7
<1> DEFINE n == Len(draft) + 1
           a == Accepted(draft, picks)
           new == NewTokens(draft, picks)
           u == UpToEos(new)
<1>4. picks \in [1..(Len(draft) + 1) -> Vocab] /\ Len(draft) \in Nat
  BY <1>3, TargetPicksIn DEF Ids
<1>5. /\ new \in Ids /\ Len(new) = a + 1 /\ a \in 0..Len(draft) /\ new # <<>> /\ a \in Nat
      /\ \A i \in 1..a : new[i] = draft[i]
  <2>1. /\ new \in Ids /\ Len(new) = a + 1 /\ a \in 0..Len(draft)
        /\ \A i \in 1..a : new[i] = draft[i]
    BY <1>4, NewTokensIn
  <2> HIDE DEF a, new
  <2>2. a \in Nat /\ a + 1 # 0
    BY <1>4, <2>1
  <2>3. new # <<>>
    BY <2>1, <2>2
  <2> QED
    BY <2>1, <2>2, <2>3
<1>6. /\ Len(emitted) + Len(draft) + 1 <= maxNew
      /\ \/ past' = Rollback(Fed(draft), a + 1, n) /\ degraded' = degraded
         \/ degraded' = TRUE
      /\ \/ phase' = "idle" /\ gen' = gen /\ emitted' = emitted /\ degraded' # degraded
         \/ /\ gen' = gen \o u /\ emitted' = emitted \o u
            /\ phase' = IF Len(emitted') >= maxNew \/ Eos \in Range(new) THEN "store" ELSE "decode"
  BY <1>c DEF Verified
<1> HIDE DEF n, a, new
<1>7. PICK e \in 1..Len(new) :
        /\ u = Take(new, e)
        /\ Eos \in Range(new) => new[e] = Eos
        /\ Eos \notin Range(new) => e = Len(new)
        /\ \A i \in 1..(e - 1) : new[i] # Eos
  BY <1>5, UpToEosOf
<1> HIDE DEF u
<1>8. /\ u \in Ids /\ Len(u) = e /\ e \in Nat /\ e > 0 /\ e <= a + 1
      /\ \A i \in 1..e : u[i] = new[i]
  <2>1. new \in Seq(Vocab) /\ e \in Int /\ e >= 0 /\ e <= Len(new) /\ e > 0 /\ e \in Nat
    BY <1>5 DEF Ids
  <2>2. Take(new, e) \in Seq(Vocab) /\ Len(Take(new, e)) = e /\ \A i \in 1..e : Take(new, e)[i] = new[i]
    BY <2>1, TakeOf
  <2> QED
    BY <1>5, <1>7, <2>1, <2>2 DEF Ids
<1>9. CASE phase' = "idle" /\ gen' = gen /\ emitted' = emitted /\ degraded' # degraded
  <2>1. ~Sound'
    BY <1>6, <1>9 DEF Sound
  <2>2. TruthInv' /\ OutputInv'
    BY <1>9, <2>1 DEF TruthInv, OutputInv
  <2>3. EndInv'
    BY <1>1, <1>9 DEF EndInv, Complete
  <2> QED
    BY <2>2, <2>3
<1>10. CASE /\ gen' = gen \o u /\ emitted' = emitted \o u
            /\ phase' = IF Len(emitted') >= maxNew \/ Eos \in Range(new) THEN "store" ELSE "decode"
  <2>1. /\ emitted' \in Ids /\ Len(emitted') = Len(emitted) + e
        /\ \A i \in 1..Len(emitted) : emitted'[i] = emitted[i]
        /\ \A i \in 1..e : emitted'[Len(emitted) + i] = u[i]
    <3>1. emitted \in Seq(Vocab) /\ u \in Seq(Vocab)
      BY <1>3, <1>8 DEF Ids
    <3>2. /\ emitted \o u \in Seq(Vocab) /\ Len(emitted \o u) = Len(emitted) + Len(u)
          /\ \A i \in 1..Len(emitted) : (emitted \o u)[i] = emitted[i]
          /\ \A i \in 1..Len(u) : (emitted \o u)[Len(emitted) + i] = u[i]
      BY <3>1, CatOf
    <3> QED
      BY <1>8, <1>10, <3>2 DEF Ids
  \* A faithful step of a faithful run.
  <2>2. ASSUME Sound'
        PROVE  /\ TruthfulAs(config.hybrid, past', gen \o Take(draft, a))
               /\ GreedyFrom(model, gen, u) /\ GreedyFrom(model, prompt, emitted)
    <3>1. past' = Rollback(Fed(draft), a + 1, n) /\ Sound
      BY <1>2, <1>3, <1>6, <2>2 DEF Sound, ConfigKept
    <3>2. TruthfulAs(config.hybrid, past, Front(gen))
      <4>1. Context = gen
        BY <1>1, <1>3, ContextIsGen
      <4>2. Front(gen) = Take(gen, Len(gen) - 1)
        BY <1>3, FrontLast
      <4> QED
        BY <1>1, <1>2, <1>3, <3>1, <4>1, <4>2 DEF TruthInv
    <3>3. TruthfulAs(config.hybrid, past', gen \o Take(draft, a))
      <4>1. TruthfulAs(config.hybrid, Rollback(Fed(draft), a + 1, Len(draft) + 1), gen \o Take(draft, a))
        BY <1>3, <1>5, <3>2, RollbackTruthful
      <4> QED
        BY <3>1, <4>1 DEF n
    <3>4. picks = [i \in 1..(Len(draft) + 1) |-> Greedy(gen \o Take(draft, i - 1))]
      BY <1>b, <3>2, TruthfulSame DEF TargetPicks
    <3>5. GreedyFrom(model, gen, new)
      BY <1>4, <3>4, VerifiedGreedy DEF new
    <3>6. GreedyFrom(model, gen, u)
      BY <1>5, <3>5, UpToEosGreedy DEF u
    <3>7. GreedyFrom(model, prompt, emitted)
      BY <1>1, <1>3, <3>1 DEF OutputInv
    <3> QED
      BY <3>3, <3>6, <3>7
  <2>3. OutputInv'
    <3>1. ASSUME Sound' PROVE GreedyFrom(model, prompt, emitted')
      <4>1. GreedyFrom(model, prompt \o emitted, u) /\ GreedyFrom(model, prompt, emitted)
        BY <1>3, <2>2, <3>1
      <4>2. GreedyFrom(model, prompt, emitted \o u)
        BY <1>3, <1>8, <4>1, GreedyMore
      <4> QED
        BY <1>10, <4>2
    <3> QED
      BY <1>2, <3>1 DEF OutputInv, ConfigKept
  <2>4. TruthInv'
    <3>1. phase' \in {"store", "decode"}
      BY <1>10
    <3>2. ASSUME Sound', phase' = "decode"
          PROVE  TruthfulAs(config.hybrid, past', Take(Context', Len(Context') - 1))
      <4>1. Eos \notin Range(new)
        BY <1>10, <3>2
      <4>2. e = a + 1
        BY <1>5, <1>7, <4>1
      <4>3. Context' = gen \o u
        <5>1. Context' = Take(prompt, hit) \o gen'
          BY <1>2 DEF Context, ConfigKept
        <5>2. gen \o u \in Seq(Vocab)
          BY <1>3, <1>8 DEF Ids
        <5>3. Take(prompt, 0) = <<>>
          BY <1>3, TakeAll DEF Ids
        <5>4. <<>> \o (gen \o u) = gen \o u
          BY <5>2
        <5> QED
          BY <1>3, <1>10, <5>1, <5>3, <5>4
      <4>4. Take(gen \o u, Len(gen \o u) - 1) = gen \o Take(draft, a)
        <5>1. gen \in Seq(Vocab) /\ u \in Seq(Vocab) /\ Len(gen) \in Nat
          BY <1>3, <1>8 DEF Ids
        <5>2. Len(gen \o u) = Len(gen) + Len(u)
          BY <5>1, CatOf
        <5>3. Len(gen \o u) - 1 = Len(gen) + a /\ a \in 0..Len(u)
          BY <1>5, <1>8, <4>2, <5>1, <5>2
        <5>4. \A k \in 0..Len(u) : Take(gen \o u, Len(gen) + k) = gen \o Take(u, k)
          BY <5>1, TakeCat
        <5>5. Take(u, a) = Take(draft, a)
          <6>1. draft \in Seq(Vocab) /\ a \in Int /\ a >= 0 /\ a <= Len(u) /\ a <= Len(draft)
            BY <1>4, <1>5, <5>3 DEF Ids
          <6>2. Take(u, a) \in Seq(Vocab) /\ Len(Take(u, a)) = a /\ \A j \in 1..a : Take(u, a)[j] = u[j]
            BY <5>1, <6>1, TakeOf
          <6>3. Take(draft, a) \in Seq(Vocab) /\ Len(Take(draft, a)) = a
                /\ \A j \in 1..a : Take(draft, a)[j] = draft[j]
            BY <6>1, TakeOf
          <6>4. \A j \in 1..a : j \in 1..e
            BY <1>5, <4>2
          <6>5. \A j \in 1..a : Take(u, a)[j] = Take(draft, a)[j]
            BY <1>5, <1>8, <6>2, <6>3, <6>4
          <6> QED
            BY <6>2, <6>3, <6>5, SameSeq
        <5> QED
          BY <5>3, <5>4, <5>5
      <4> QED
        BY <2>2, <3>2, <4>3, <4>4
    <3> QED
      BY <1>2, <3>1, <3>2 DEF TruthInv, ConfigKept
  <2>5. EndInv'
    <3>1. \A i \in 2..Len(emitted) : emitted[i] # Eos
      BY <1>1, <1>2 DEF EndInv
    <3> DEFINE l == Len(emitted)
    <3>2. l \in Nat /\ l > 0 /\ e \in Nat /\ e > 0 /\ Len(emitted') = l + e
      BY <1>3, <1>8, <2>1
    <3>3. l + e <= maxNew
      <4>1. l + Len(draft) + 1 <= maxNew /\ e <= a + 1 /\ a <= Len(draft)
        BY <1>4, <1>5, <1>6, <1>8
      <4> HIDE DEF l
      <4> QED
        BY <1>3, <1>4, <1>5, <3>2, <4>1
    <3>4. /\ \A i \in 1..l : emitted'[i] = emitted[i]
          /\ \A i \in 1..e : emitted'[l + i] = new[i]
      BY <1>8, <2>1
    <3>5. \A i \in 2..l : emitted[i] # Eos
      BY <3>1
    <3> HIDE DEF l
    <3>6. ASSUME NEW i \in 2..(l + e), i < l + e \/ Eos \notin Range(new) PROVE emitted'[i] # Eos
      <4>1. CASE i <= l
        <5>1. i \in 2..l /\ i \in 1..l
          BY <3>2, <4>1
        <5> QED
          BY <3>4, <3>5, <5>1
      <4>2. CASE ~(i <= l)
        <5>1. PICK j \in 1..e : i = l + j
          <6>1. i - l \in 1..e /\ i = l + (i - l)
            BY <3>2, <4>2
          <6> QED
            BY <6>1
        <5>2. emitted'[i] = new[j]
          BY <3>4, <5>1
        <5>3. CASE i < l + e
          <6>1. j \in 1..(e - 1)
            BY <3>2, <5>1, <5>3
          <6> QED
            BY <1>7, <5>2, <6>1
        <5>4. CASE Eos \notin Range(new)
          <6>1. j \in DOMAIN new
            BY <1>5, <1>8 DEF Ids
          <6> QED
            BY <5>2, <5>4, <6>1 DEF Range
        <5> QED
          BY <3>6, <5>3, <5>4
      <4> QED
        BY <4>1, <4>2
    <3>7. \A i \in 2..(Len(emitted') - 1) : emitted'[i] # Eos
      <4>1. \A i \in 2..(Len(emitted') - 1) : i \in 2..(l + e) /\ i < l + e
        BY <3>2
      <4> QED
        BY <3>6, <4>1
    <3>8. phase' = "decode" => \A i \in 2..Len(emitted') : emitted'[i] # Eos
      BY <1>10, <3>2, <3>6
    <3>9. phase' = "store" => \/ Len(emitted') = maxNew
                              \/ Len(emitted') \in 2..maxNew /\ Last(emitted') = Eos
      <4>1. ASSUME Eos \in Range(new) PROVE Len(emitted') \in 2..maxNew /\ Last(emitted') = Eos
        <5>1. l + e \in 2..maxNew /\ e \in 1..e
          BY <1>3, <3>2, <3>3
        <5>2. Last(emitted') = emitted'[l + e]
          BY <3>2 DEF Last
        <5> QED
          BY <1>7, <3>2, <3>4, <4>1, <5>1, <5>2
      <4>2. Len(emitted') >= maxNew => Len(emitted') = maxNew
        BY <1>3, <3>2, <3>3
      <4> QED
        BY <1>10, <4>1, <4>2
    <3> QED
      BY <1>2, <3>7, <3>8, <3>9 DEF EndInv, Complete, ConfigKept
  <2> QED
    BY <2>3, <2>4, <2>5
<1> QED
  BY <1>6, <1>9, <1>10

\* A runner that has emitted nothing has emitted greedily.
LEMMA InitLossless == Init => LosslessInv
<1>1. SUFFICES ASSUME Init PROVE TruthInv /\ OutputInv /\ EndInv
  BY InitShape DEF LosslessInv
<1>2. phase = "idle" /\ emitted = <<>>
  BY <1>1 DEF Init
<1>3. Len(emitted) = 0
  BY <1>2
<1>4. TruthInv
  BY <1>2 DEF TruthInv
<1>5. OutputInv
  BY <1>2, GreedyNone DEF OutputInv
<1>6. EndInv
  BY <1>2, <1>3 DEF EndInv, Complete
<1> QED
  BY <1>4, <1>5, <1>6

\* Every step keeps what is emitted greedy.
LEMMA StepLossless ==
    ASSUME LosslessInv, [Next]_vars
    PROVE  TruthInv' /\ OutputInv' /\ EndInv'
<1>1. CASE Start
  BY <1>1, StartLossless
<1>2. CASE Prefill
  BY <1>2, PrefillLossless
<1>3. CASE FirstToken
  BY <1>3, FirstTokenLossless
<1>4. CASE PlainStep
  BY <1>4, PlainStepLossless
<1>5. CASE SpecStep
  BY <1>5, SpecStepLossless
<1>6. CASE Finish
  <2>1. /\ ConfigKept /\ gen' = gen /\ past' = past /\ emitted' = emitted /\ degraded' = degraded
        /\ left' = left /\ phase' = "idle"
    BY <1>6 DEF Finish, runner, run, ConfigKept
  <2> QED
    BY <2>1, QuietLossless
<1>7. CASE SweepRaises
  <2>1. /\ ConfigKept /\ gen' = gen /\ past' = past /\ emitted' = emitted /\ degraded' = degraded
        /\ left' = left /\ phase' = "idle"
    BY <1>7 DEF SweepRaises, runner, cache, run, ConfigKept
  <2> QED
    BY <2>1, QuietLossless
<1>8. CASE UNCHANGED vars
  <2>1. /\ ConfigKept /\ gen' = gen /\ past' = past /\ emitted' = emitted /\ degraded' = degraded
        /\ left' = left /\ phase' = phase
    BY <1>8 DEF vars, runner, cache, run, ConfigKept
  <2> QED
    BY <2>1, QuietLossless
<1> QED
  BY <1>1, <1>2, <1>3, <1>4, <1>5, <1>6, <1>7, <1>8 DEF Next

\* The cache stands for what was fed and what was emitted is greedy, throughout.
THEOREM LosslessInvariant == Spec => []LosslessInv
<1>1. LosslessInv /\ [Next]_vars => LosslessInv'
  <2>1. ShapeInv /\ [Next]_vars => ShapeInv'
    BY StartShape, PrefillShape, FirstTokenShape, PlainStepShape, SpecStepShape, FinishShape,
       SweepRaisesShape, StutterShape DEF Next
  <2> QED
    BY <2>1, StepLossless DEF LosslessInv
<1> QED
  BY <1>1, InitLossless, PTL DEF Spec

\* What any of the runners streams is what greedy decoding of the target alone
\* gives, however it is drafted, verified, rolled back, chunked or seeded, unless a
\* degradation was recorded, the token buffer was full or the ids follow the first
\* one of a run with a prefix hit; and it ends at EOS or at max_new_tokens.
THEOREM GenerationLossless == Spec => []Lossless
<1>1. ASSUME LosslessInv PROVE Lossless
  <2>1. Complete
    BY <1>1 DEF LosslessInv, EndInv
  <2>2. ASSUME ~degraded, BufferSufficed,
               hit = 0 \/ (Len(emitted) <= 1 /\ Take(past.att, hit) = Labelled(Take(prompt, hit)))
        PROVE  emitted = GreedyRun(prompt, Len(emitted))
    <3>1. GreedyFrom(model, prompt, emitted)
      BY <1>1, <2>2 DEF LosslessInv, OutputInv, Sound
    <3>2. prompt \in Ids /\ emitted \in Ids
      BY <1>1 DEF LosslessInv, ShapeInv, TypeOK
    <3> QED
      BY <3>1, <3>2, GreedyRunOf
  <2> QED
    BY <2>1, <2>2 DEF Lossless
<1> QED
  BY <1>1, LosslessInvariant, PTL

-----------------------------------------------------------------------------
(* What the MTP head is fed.                                               *)

\* Each pair is a position and the id after it, consecutive, the last of them
\* one short of the last of the ids.
Chained(pairs, ids) ==
    \A i \in DOMAIN pairs :
        /\ pairs[i].at = Len(ids) - 1 - (Len(pairs) - i + 1)
        /\ pairs[i].next = ids[pairs[i].at + 2]

PairsInv ==
    phase = "decode" /\ config.drafter = "mtp" =>
        Chained(drafter.committed \o drafter.pending, gen)

\* extend() with what was confirmed continues the chain.
LEMMA ExtendChained ==
    ASSUME NEW d \in Drafters, NEW ids \in Ids, NEW new \in Ids, Len(ids) > 0,
           Chained(d.committed \o d.pending, ids)
    PROVE  LET e == Extend(d, Len(ids) - 1, new)
           IN  Chained(e.committed \o e.pending, ids \o new)
<1> DEFINE Pair == [at : Nat, next : Vocab]
           e == Extend(d, Len(ids) - 1, new)
           ext == [i \in DOMAIN new |-> [at |-> Len(ids) - 1 + i - 1, next |-> new[i]]]
           old == d.committed \o d.pending
           pairs == old \o ext
           all == ids \o new
           g == Len(ids)
           m == Len(old)
           k == Len(new)
<1>1. /\ ids \in Seq(Vocab) /\ new \in Seq(Vocab) /\ g \in Nat /\ g > 0 /\ k \in Nat /\ g - 1 \in Nat
      /\ d.committed \in Seq(Pair) /\ d.pending \in Seq(Pair) /\ DOMAIN new = 1..k
      /\ \A i \in 1..k : new[i] \in Vocab
  BY DEF Ids, Drafters, Pairs
<1>2. e.committed = d.committed /\ e.pending = d.pending \o ext
  BY <1>1, ExtendIn
<1>3. ext \in Seq(Pair) /\ Len(ext) = k /\ \A i \in 1..k : ext[i].at = g + i - 2 /\ ext[i].next = new[i]
  <2>1. ASSUME NEW i \in 1..k
        PROVE  /\ [at |-> g - 1 + i - 1, next |-> new[i]] \in Pair
               /\ [at |-> g - 1 + i - 1, next |-> new[i]].at = g + i - 2
    <3>1. g - 1 + i - 1 \in Nat /\ g - 1 + i - 1 = g + i - 2
      BY <1>1
    <3> QED
      BY <1>1, <3>1
  <2>2. ext = [i \in 1..k |-> [at |-> g - 1 + i - 1, next |-> new[i]]]
    BY <1>1
  <2>3. ext \in [1..k -> Pair]
    BY <2>1, <2>2
  <2>4. \A i \in 1..k : ext[i] = [at |-> g - 1 + i - 1, next |-> new[i]]
    BY <2>2
  <2> HIDE DEF ext, Pair, g, k
  <2>5. ext \in Seq(Pair) /\ Len(ext) = k
    BY <1>1, <2>3
  <2> QED
    BY <2>1, <2>4, <2>5
<1>4. old \in Seq(Pair) /\ m \in Nat
  <2> DEFINE c == d.committed
             p == d.pending
  <2>1. c \in Seq(Pair) /\ p \in Seq(Pair)
    BY <1>1
  <2> HIDE DEF Pair, c, p
  <2>2. c \o p \in Seq(Pair) /\ Len(c \o p) \in Nat
    BY <2>1
  <2> QED
    BY <2>2 DEF c, p
<1> HIDE DEF ext
<1>5. e.committed \o e.pending = pairs
  <2> DEFINE c == d.committed
             p == d.pending
  <2>1. c \in Seq(Pair) /\ p \in Seq(Pair) /\ ext \in Seq(Pair)
    BY <1>1, <1>3
  <2> HIDE DEF Pair, e, c, p
  <2>2. (c \o p) \o ext = c \o (p \o ext)
    BY <2>1, ConcatAssociative
  <2> QED
    BY <1>2, <2>2 DEF c, p
<1>6. \A i \in 1..m : /\ old[i].at = g - 1 - (m - i + 1) /\ old[i].next = ids[old[i].at + 2]
                      /\ old[i].at \in Nat
  <2> HIDE DEF old
  <2>1. DOMAIN old = 1..m /\ \A i \in 1..m : old[i].at \in Nat
    <3>1. DOMAIN old = 1..m /\ \A i \in 1..m : old[i] \in Pair
      <4> HIDE DEF Pair
      <4> QED
        BY <1>4
    <3> QED
      BY <3>1
  <2> QED
    BY <2>1 DEF Chained, old
<1>7. /\ Len(pairs) = m + k /\ DOMAIN pairs = 1..(m + k)
      /\ \A i \in 1..m : pairs[i] = old[i]
      /\ \A i \in 1..k : pairs[m + i] = ext[i]
  <2>1. old \in Seq(Pair) /\ ext \in Seq(Pair)
    BY <1>3, <1>4
  <2> HIDE DEF Pair, old
  <2>2. /\ pairs \in Seq(Pair) /\ Len(pairs) = Len(old) + Len(ext)
        /\ \A i \in 1..Len(old) : pairs[i] = old[i]
        /\ \A i \in 1..Len(ext) : pairs[Len(old) + i] = ext[i]
    BY <2>1, CatOf
  <2>3. DOMAIN pairs = 1..Len(pairs)
    BY <2>2
  <2> HIDE DEF pairs
  <2> QED
    BY <1>3, <2>2, <2>3
<1>8. /\ Len(all) = g + k
      /\ \A i \in 1..g : all[i] = ids[i]
      /\ \A i \in 1..k : all[g + i] = new[i]
  BY <1>1, CatOf
<1> HIDE DEF Pair, e, old, pairs, all, g, m, k
<1>9. ASSUME NEW i \in 1..(m + k)
      PROVE  /\ pairs[i].at = (g + k) - 1 - ((m + k) - i + 1)
             /\ pairs[i].next = all[pairs[i].at + 2]
  <2>1. CASE i <= m
    <3>1. i \in 1..m
      BY <1>4, <2>1
    <3> DEFINE at == old[i].at
    <3>2. pairs[i] = old[i] /\ at \in Nat /\ at = g - 1 - (m - i + 1) /\ old[i].next = ids[at + 2]
      BY <1>6, <1>7, <3>1
    <3> HIDE DEF at
    <3>3. at = (g + k) - 1 - ((m + k) - i + 1) /\ at + 2 \in 1..g
      BY <1>1, <1>4, <3>1, <3>2
    <3> QED
      BY <1>8, <3>2, <3>3 DEF at
  <2>2. CASE ~(i <= m)
    <3>1. PICK j \in 1..k : i = m + j
      <4>1. i - m \in 1..k /\ i = m + (i - m)
        BY <1>1, <1>4, <2>2
      <4> QED
        BY <4>1
    <3>2. pairs[i] = ext[j] /\ ext[j].at = g + j - 2 /\ ext[j].next = new[j]
      BY <1>3, <1>7, <3>1
    <3>3. g + j - 2 = (g + k) - 1 - ((m + k) - i + 1) /\ (g + j - 2) + 2 = g + j
      BY <1>1, <1>4, <3>1
    <3> QED
      BY <1>8, <3>2, <3>3
  <2> QED
    BY <2>1, <2>2
<1>10. Chained(pairs, all)
  BY <1>7, <1>8, <1>9 DEF Chained
<1> QED
  BY <1>5, <1>10 DEF e, all

\* The first extend() pairs the last slice's positions with the ids after them.
LEMMA FirstTokenPairs ==
    ASSUME ShapeInv, FirstToken
    PROVE  PairsInv'
<1>1. TypeOK /\ RunInv
  BY DEF ShapeInv
<1>2. ConfigKept /\ phase = "first" /\ phase' # "first"
  BY DEF FirstToken, runner, cache, run, ConfigKept
<1>3. /\ drafter = NewDrafter /\ gen # <<>> /\ config \in Configs /\ gen \in Ids /\ drafter \in Drafters
      /\ Context \in Ids /\ Context # <<>> /\ model \in Models /\ Len(gen) \in Nat /\ Len(gen) > 0
  <2>1. drafter = NewDrafter /\ gen # <<>>
    BY <1>1, <1>2 DEF RunInv
  <2>2. config \in Configs /\ gen \in Ids /\ drafter \in Drafters /\ model \in Models
    BY <1>1 DEF TypeOK, Drafters, Pairs
  <2>3. Context \in Ids /\ Len(Context) = hit + Len(gen) /\ hit \in Nat
    BY <1>1, ContextOf
  <2>4. Len(gen) \in Nat /\ Len(gen) > 0
    BY <2>1, <2>2 DEF Ids
  <2>5. Context # <<>>
    BY <2>3, <2>4
  <2> QED
    BY <2>1, <2>2, <2>3, <2>4, <2>5
<1>4. SUFFICES ASSUME phase' = "decode", config.drafter = "mtp"
               PROVE  Chained(drafter'.committed \o drafter'.pending, gen')
  BY <1>2 DEF PairsInv, ConfigKept
<1>5. maxNew # 0
  BY <1>4 DEF FirstToken
<1> DEFINE n == LastChunk(Len(gen))
<1>6. PICK t \in Picks(past, Context) :
        /\ gen' = Append(gen, t)
        /\ drafter' = Extend(drafter, Len(gen) - n, Drop(gen', Len(gen') - n))
  BY <1>4, <1>5 DEF FirstToken
<1>7. n \in 1..Len(gen)
  BY <1>3, LastChunkIn
<1> HIDE DEF n
<1>8. gen' \in Seq(Vocab) /\ Len(gen') = Len(gen) + 1
  <2>1. t \in Vocab /\ gen \in Seq(Vocab)
    BY <1>3, <1>6, PicksIn DEF Ids
  <2> QED
    BY <1>6, <2>1, AppendOf
<1> DEFINE c == Len(gen') - n
           s == Take(gen', c)
           new == Drop(gen', c)
<1>9. c \in Nat /\ c > 0 /\ c <= Len(gen') /\ c - 1 = Len(gen) - n
  BY <1>3, <1>7, <1>8
<1> HIDE DEF c
<1>10. s \in Ids /\ Len(s) = c /\ new \in Ids /\ s \o new = gen'
  <2>1. c \in Int /\ c >= 0 /\ c \in 0..Len(gen')
    BY <1>8, <1>9
  <2> QED
    BY <1>8, <1>9, <2>1, TakeOf, DropOf, CutJoin DEF Ids
<1> HIDE DEF s, new
<1>11. Chained(drafter.committed \o drafter.pending, s)
  <2>1. drafter.committed = <<>> /\ drafter.pending = <<>>
    BY <1>3 DEF NewDrafter
  <2>2. DOMAIN (drafter.committed \o drafter.pending) = {}
    BY <2>1
  <2> QED
    BY <2>2 DEF Chained
<1>12. drafter' = Extend(drafter, Len(s) - 1, new)
  BY <1>6, <1>9, <1>10 DEF c, new
<1> DEFINE e == Extend(drafter, Len(s) - 1, new)
<1>13. Chained(e.committed \o e.pending, s \o new)
  BY <1>3, <1>9, <1>10, <1>11, ExtendChained
<1> QED
  BY <1>10, <1>12, <1>13

\* A verification step's extend() takes up where the last one ended.
LEMMA SpecStepPairs ==
    ASSUME ShapeInv, PairsInv, SpecStep
    PROVE  PairsInv'
<1>1. TypeOK /\ RunInv
  BY DEF ShapeInv
<1>2. ConfigKept /\ phase = "decode"
  BY SpecStepOf
<1>a. PICK draft \in Ids :
          \E picks \in TargetPicks(draft) : \E after \in Drafters : Verified(draft, picks, after)
  BY SpecStepOf
<1>b. PICK picks \in TargetPicks(draft) : \E after \in Drafters : Verified(draft, picks, after)
  BY <1>a
<1>c. PICK after \in Drafters : Verified(draft, picks, after)
  BY <1>b
<1>3. /\ config \in Configs /\ gen \in Ids /\ gen # <<>> /\ model \in Models /\ Len(gen) \in Nat /\ Len(gen) > 0
      /\ Len(draft) \in Nat
  <2>1. config \in Configs /\ gen \in Ids /\ model \in Models
    BY <1>1 DEF TypeOK
  <2>2. gen # <<>>
    BY <1>1, <1>2 DEF RunInv
  <2>3. Len(gen) \in Nat /\ Len(gen) > 0 /\ Len(draft) \in Nat
    BY <2>1, <2>2 DEF Ids
  <2> QED
    BY <2>1, <2>2, <2>3
<1>4. SUFFICES ASSUME phase' = "decode", config.drafter = "mtp"
               PROVE  Chained(drafter'.committed \o drafter'.pending, gen')
  BY <1>2 DEF PairsInv, ConfigKept
<1> DEFINE new == NewTokens(draft, picks)
           a == Accepted(draft, picks)
           d == Observed(after, Len(draft), a)
           e == Extend(d, Len(gen) - 1, new)
<1>5. new \in Ids /\ a \in Nat
  <2>1. picks \in [1..(Len(draft) + 1) -> Vocab]
    BY <1>3, TargetPicksIn
  <2>2. new \in Ids /\ a \in 0..Len(draft)
    BY <2>1, NewTokensIn
  <2> HIDE DEF new, a
  <2> QED
    BY <1>3, <2>2
<1>6. /\ after.committed \o after.pending = drafter.committed \o drafter.pending
      /\ draft # <<>> => after.k > 0
      /\ gen' = gen \o UpToEos(new) /\ drafter' = e /\ Eos \notin Range(new)
  BY <1>4, <1>c DEF Verified
<1>7. gen' = gen \o new
  BY <1>6 DEF UpToEos
<1> HIDE DEF new, a
<1>8. d \in Drafters /\ d.committed \o d.pending = drafter.committed \o drafter.pending
  <2>1. Len(draft) # 0 => after.k > 0
    BY <1>6
  <2>2. d \in Drafters /\ d.committed = after.committed /\ d.pending = after.pending
    BY <1>3, <1>5, <2>1, ObservedIn
  <2> QED
    BY <1>6, <2>2
<1> HIDE DEF d
<1>9. Chained(d.committed \o d.pending, gen)
  BY <1>2, <1>4, <1>8 DEF PairsInv
<1>10. Chained(e.committed \o e.pending, gen \o new)
  BY <1>3, <1>5, <1>8, <1>9, ExtendChained
<1> QED
  BY <1>6, <1>7, <1>10

\* The draft model's cache always covers the ids it is believed to, and the MTP
\* head's pairs are consecutive, each with the confirmed id after it.
THEOREM DrafterStaysHonest == Spec => []DrafterHonest
<1> DEFINE Inv == ShapeInv /\ PairsInv
<1>1. Init => PairsInv
  BY DEF Init, PairsInv
<1>2. ASSUME ShapeInv, PairsInv, [Next]_vars PROVE PairsInv'
  <2>1. CASE Start
    BY <2>1 DEF Start, PairsInv
  <2>2. CASE Prefill
    <3>1. phase' # "decode"
      BY <2>2 DEF Prefill
    <3> QED
      BY <3>1 DEF PairsInv
  <2>3. CASE FirstToken
    BY <1>2, <2>3, FirstTokenPairs
  <2>4. CASE PlainStep
    <3>1. config.drafter = "none" /\ config' = config
      BY <2>4 DEF PlainStep, runner
    <3> QED
      BY <3>1 DEF PairsInv
  <2>5. CASE SpecStep
    BY <1>2, <2>5, SpecStepPairs
  <2>6. CASE Finish
    BY <2>6 DEF Finish, PairsInv
  <2>7. CASE SweepRaises
    BY <2>7 DEF SweepRaises, PairsInv
  <2>8. CASE UNCHANGED vars
    BY <1>2, <2>8 DEF PairsInv, vars, runner
  <2> QED
    BY <1>2, <2>1, <2>2, <2>3, <2>4, <2>5, <2>6, <2>7, <2>8 DEF Next
<1>3. ShapeInv /\ PairsInv => DrafterHonest
  BY DEF ShapeInv, PairsInv, DrafterHonest, Chained
<1>4. PairsInv /\ ShapeInv /\ ShapeInv' /\ [Next]_vars => PairsInv'
  BY <1>2
<1> HIDE DEF Inv
<1> QED
  BY <1>1, <1>3, <1>4, ShapeInvariant, PTL DEF Spec
=============================================================================
