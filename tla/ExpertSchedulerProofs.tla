------------------------ MODULE ExpertSchedulerProofs ------------------------
(***************************************************************************)
(* The expert scheduler for any number of layers, experts, workers and     *)
(* slots: the slots of a module are consistent, forward() computes every   *)
(* routed expert with its own weights, the experts used last stay, and     *)
(* the staging area and the pool's queue are bounded and owned.            *)
(***************************************************************************)
EXTENDS ExpertScheduler, ListsProofs

(* The inductive invariant, in parts.                                      *)

\* _slot_of lists the occupied slots of _id_of, each once and each expert
\* once, and the occupied slots hold their experts' weights.
Linked(l, idOf, data, items) ==
    /\ \A i \in 1..Len(items) : idOf[items[i].slot] = items[i].eid
    /\ \A j \in 1..Len(idOf) :
           idOf[j] # None => /\ \E i \in 1..Len(items) : items[i].slot = j
                             /\ data[j] = <<l, idOf[j]>>
    /\ \A i, j \in 1..Len(items) :
           items[i].slot = items[j].slot \/ items[i].eid = items[j].eid => i = j

Sound(l, m) == Linked(l, m.idOf, m.data, m.slotOf)
ModulesSound == \A l \in Layers : Sound(l, modules[l])

\* What is staged is in the order that drops it.
StagingInv == Len(stagingOrder) <= MaxStaged /\ staging \subseteq Range(stagingOrder)

\* Every key is queued or being read at most once, and until cleanup() those
\* are the keys in flight.
PoolInv ==
    /\ IsInjective(jobs) /\ Range(jobs) \cap running = {}
    /\ pc \notin {"closing", "closed"} =>
           inflight = Range(jobs) \cup running /\ inflight \cap staging = {}
    /\ pc \in {"closing", "closed"} => jobs = <<>>
    /\ pc = "closed" => /\ running = {} /\ staging = {}
                        /\ \A l \in Layers : modules[l].slotOf = <<>>

Computing == pc \in {"consume", "waiting", "reading"}

\* forward() works its way through the routed experts; ensure() misses one
\* that is not resident.
ForwardInv ==
    /\ Computing => /\ IsInjective(routed)
                    /\ Len(computed) + Len(todo) = Len(routed)
                    /\ \A i \in DOMAIN computed : computed[i] = <<layer, routed[i]>>
                    /\ \A i \in DOMAIN todo : todo[i] = routed[Len(computed) + i]
    /\ ~Computing => computed = <<>>
    /\ pc \in {"waiting", "reading"} => todo # <<>> /\ ~Has(Module, Head(todo))

\* _lru knows every resident expert, and ends with the experts computed last.
RecencyInv ==
    /\ IsInjective(lru)
    /\ \A l \in Layers : \A e \in Held(modules[l]) : <<l, e>> \in Range(lru)
    /\ \A i \in DOMAIN computed :
           Len(computed) - i < Capacity(Module) =>
               /\ Has(Module, computed[i][2])
               /\ Len(lru) > Len(computed) - i
               /\ lru[Len(lru) - (Len(computed) - i)] = computed[i]

IInv == TypeOK /\ ModulesSound /\ StagingInv /\ PoolInv /\ ForwardInv /\ RecencyInv

-----------------------------------------------------------------------------
(* The operations of a module.                                             *)

Occupied(m) == {j \in DOMAIN m.idOf : m.idOf[j] # None}

LEMMA NoneIsNoExpert == None \notin Experts /\ None \notin Keys /\ Experts \subseteq Nat
BY ExpertAssumption DEF Experts, Keys, Layers

LEMMA ElementType == ASSUME NEW V, NEW s \in Seq(V), NEW i \in 1..Len(s) PROVE s[i] \in V
OBVIOUS

\* What the type of a module says of its fields.
LEMMA ModuleFields ==
    ASSUME NEW m, ModuleOK(m)
    PROVE  /\ m = [idOf |-> m.idOf, data |-> m.data, slotOf |-> m.slotOf]
           /\ m.idOf \in Seq(Experts \cup {None}) /\ m.data \in Seq(Keys \cup {None})
           /\ m.slotOf \in Seq([eid : Experts, slot : Nat])
           /\ Len(m.idOf) \in Nat /\ Len(m.data) = Len(m.idOf) /\ Len(m.slotOf) \in Nat
           /\ DOMAIN m.idOf = 1..Len(m.idOf) /\ DOMAIN m.data = 1..Len(m.idOf)
           /\ DOMAIN m.slotOf = 1..Len(m.slotOf)
           /\ \A i \in 1..Len(m.slotOf) : /\ m.slotOf[i].eid \in Experts
                                          /\ m.slotOf[i].slot \in 1..Len(m.idOf)
<1>1. /\ m = [idOf |-> m.idOf, data |-> m.data, slotOf |-> m.slotOf]
      /\ m.idOf \in Seq(Experts \cup {None}) /\ m.data \in Seq(Keys \cup {None})
      /\ m.slotOf \in Seq([eid : Experts, slot : Nat])
  BY DEF ModuleOK
<1>2. /\ Len(m.idOf) \in Nat /\ Len(m.data) = Len(m.idOf) /\ Len(m.slotOf) \in Nat
      /\ DOMAIN m.idOf = 1..Len(m.idOf) /\ DOMAIN m.data = 1..Len(m.idOf)
      /\ DOMAIN m.slotOf = 1..Len(m.slotOf)
  BY <1>1 DEF ModuleOK
<1>3. \A i \in 1..Len(m.slotOf) : m.slotOf[i] \in [eid : Experts, slot : Nat]
  BY <1>1, ElementType
<1> QED
  BY <1>1, <1>2, <1>3 DEF ModuleOK

\* As many items as occupied slots, and as resident experts.
LEMMA CountSlots ==
    ASSUME NEW l, NEW m, ModuleOK(m), Sound(l, m)
    PROVE  /\ Len(m.slotOf) \in Nat /\ Capacity(m) \in Nat
           /\ Len(m.slotOf) = Cardinality(Occupied(m))
           /\ Len(m.slotOf) <= Capacity(m)
           /\ Len(m.slotOf) < Capacity(m) => \E j \in DOMAIN m.idOf : m.idOf[j] = None
           /\ IsFiniteSet(Held(m)) /\ Cardinality(Held(m)) = Len(m.slotOf)
<1> DEFINE n == Len(m.slotOf)
           D == 1..Len(m.idOf)
           f == [i \in 1..n |-> m.slotOf[i].slot]
           g == [i \in 1..n |-> m.slotOf[i].eid]
<1>1. /\ m.slotOf \in Seq([eid : Experts, slot : Nat]) /\ n \in Nat /\ DOMAIN m.slotOf = 1..n
      /\ m.idOf \in Seq(Experts \cup {None}) /\ Len(m.idOf) \in Nat /\ DOMAIN m.idOf = D
      /\ \A i \in 1..n : m.slotOf[i].slot \in D /\ m.slotOf[i].eid \in Experts
  BY ModuleFields
<1>2. f \in Bijection(1..n, Occupied(m))
  <2>1. \A i \in 1..n : f[i] \in Occupied(m)
    BY <1>1, NoneIsNoExpert DEF Sound, Linked, Occupied
  <2>2. \A i, j \in 1..n : f[i] = f[j] => i = j
    BY <1>1 DEF Sound, Linked
  <2>3. \A j \in Occupied(m) : \E i \in 1..n : f[i] = j
    BY <1>1 DEF Sound, Linked, Occupied
  <2> QED
    BY <2>1, <2>2, <2>3 DEF Bijection, Injection, Surjection, IsInjective
<1>3. IsFiniteSet(1..n) /\ Cardinality(1..n) = n /\ IsFiniteSet(D) /\ Cardinality(D) = Len(m.idOf)
  BY <1>1, IntervalSize
<1>4. n = Cardinality(Occupied(m))
  BY <1>2, <1>3, FS_Bijection DEF ExistsBijection
<1>5. Occupied(m) \in SUBSET D
  BY <1>1 DEF Occupied
<1>6. n <= Len(m.idOf) /\ (n < Len(m.idOf) => Occupied(m) # D)
  BY <1>1, <1>3, <1>4, <1>5, FS_Subset
<1>7. g \in Bijection(1..n, Held(m))
  <2>1. \A i \in 1..n : g[i] \in Held(m)
    BY <1>1 DEF Held
  <2>2. \A i, j \in 1..n : g[i] = g[j] => i = j
    BY <1>1 DEF Sound, Linked
  <2>3. \A e \in Held(m) : \E i \in 1..n : g[i] = e
    BY <1>1 DEF Held
  <2> QED
    BY <2>1, <2>2, <2>3 DEF Bijection, Injection, Surjection, IsInjective
<1>8. IsFiniteSet(Held(m)) /\ Cardinality(Held(m)) = n
  BY <1>3, <1>7, FS_Bijection DEF ExistsBijection
<1>9. n < Len(m.idOf) => \E j \in DOMAIN m.idOf : m.idOf[j] = None
  BY <1>1, <1>5, <1>6 DEF Occupied
<1> QED
  BY <1>1, <1>4, <1>6, <1>8, <1>9 DEF Capacity

\* The slot of a resident expert holds its weights.
LEMMA SlotHolds ==
    ASSUME NEW l, NEW m, ModuleOK(m), Sound(l, m), NEW e, Has(m, e)
    PROVE  m.data[SlotOf(m, e)] = <<l, e>>
<1>1. PICK i \in DOMAIN m.slotOf : m.slotOf[i].eid = e
  BY DEF Has, Held
<1>2. m.slotOf[i] \in Range(m.slotOf)
  BY DEF Range
<1>3. ItemOf(m, e) \in Range(m.slotOf) /\ ItemOf(m, e).eid = e
  BY <1>1, <1>2 DEF ItemOf
<1>4. PICK k \in DOMAIN m.slotOf : m.slotOf[k] = ItemOf(m, e)
  BY <1>3 DEF Range
<1>5. SlotOf(m, e) = m.slotOf[k].slot /\ m.slotOf[k].eid = e
  BY <1>3, <1>4 DEF SlotOf
<1>6. e \in Experts /\ k \in 1..Len(m.slotOf) /\ m.slotOf[k].slot \in 1..Len(m.idOf)
  BY <1>1, ModuleFields
<1>7. m.idOf[m.slotOf[k].slot] = e /\ e # None
  BY <1>5, <1>6, NoneIsNoExpert DEF Sound, Linked
<1> QED
  BY <1>5, <1>6, <1>7 DEF Sound, Linked

Items == [eid : Experts, slot : Nat]

\* fill() of an expert that is not resident, where a slot is free.
LEMMA FillLinked ==
    ASSUME NEW l, NEW idOf \in Seq(Experts \cup {None}), NEW data \in Seq(Keys \cup {None}),
           Len(data) = Len(idOf), NEW items \in Seq(Items),
           \A i \in 1..Len(items) : items[i].slot \in 1..Len(idOf),
           Linked(l, idOf, data, items),
           NEW e \in Experts, \A i \in 1..Len(items) : items[i].eid # e,
           NEW slot \in 1..Len(idOf), idOf[slot] = None
    PROVE  Linked(l, [idOf EXCEPT ![slot] = e], [data EXCEPT ![slot] = <<l, e>>],
                  Append(items, [eid |-> e, slot |-> slot]))
<1> DEFINE n == Len(items)
           item == [eid |-> e, slot |-> slot]
           idOf2 == [idOf EXCEPT ![slot] = e]
           data2 == [data EXCEPT ![slot] = <<l, e>>]
           items2 == Append(items, item)
<1>1. n \in Nat /\ Len(idOf) \in Nat
  OBVIOUS
<1>2. /\ idOf2[slot] = e /\ data2[slot] = <<l, e>> /\ Len(idOf2) = Len(idOf)
      /\ \A j \in 1..Len(idOf) : j # slot => idOf2[j] = idOf[j] /\ data2[j] = data[j]
  OBVIOUS
<1>3. /\ Len(items2) = n + 1 /\ items2[n + 1] = item
      /\ \A i \in 1..n : items2[i] = items[i]
  OBVIOUS
<1>4. item.eid = e /\ item.slot = slot
  OBVIOUS
<1>5. \A i \in 1..n : items[i].eid \in Experts
  <2>1. \A i \in 1..n : items[i] \in Items
    BY ElementType
  <2> QED
    BY <2>1 DEF Items
<1>6. \A i \in 1..n : items[i].slot # slot
  BY <1>5, NoneIsNoExpert DEF Linked
<1>7. \A i \in 1..(n + 1) : i = n + 1 \/ i \in 1..n
  BY <1>1
<1>8. n + 1 \in 1..(n + 1) /\ 1..n \subseteq 1..(n + 1)
  BY <1>1
<1> HIDE DEF n, item, idOf2, data2, items2
<1>9. \A i \in 1..(n + 1) : idOf2[items2[i].slot] = items2[i].eid
  <2> SUFFICES ASSUME NEW i \in 1..n PROVE idOf2[items[i].slot] = items[i].eid
    BY <1>2, <1>3, <1>4, <1>7
  <2> QED
    BY <1>2, <1>6 DEF Linked, n
<1>10. ASSUME NEW j \in 1..Len(idOf), idOf2[j] # None
       PROVE  (\E i \in 1..(n + 1) : items2[i].slot = j) /\ data2[j] = <<l, idOf2[j]>>
  <2>1. CASE j = slot
    BY <1>2, <1>3, <1>4, <1>8, <2>1
  <2>2. CASE j # slot
    <3>1. idOf[j] # None /\ idOf2[j] = idOf[j] /\ data2[j] = data[j]
      BY <1>2, <1>10, <2>2
    <3>2. PICK i \in 1..n : items[i].slot = j
      BY <3>1 DEF Linked, n
    <3>3. data[j] = <<l, idOf[j]>>
      BY <3>1 DEF Linked
    <3> QED
      BY <1>3, <1>8, <3>1, <3>2, <3>3
  <2> QED
    BY <2>1, <2>2
<1>11. ASSUME NEW i \in 1..(n + 1), NEW j \in 1..(n + 1),
              items2[i].slot = items2[j].slot \/ items2[i].eid = items2[j].eid
       PROVE  i = j
  <2>1. \A k \in 1..n : items[k].slot # slot /\ items[k].eid # e
    BY <1>6 DEF n
  <2>2. \A k, h \in 1..n : items[k].slot = items[h].slot \/ items[k].eid = items[h].eid => k = h
    BY DEF Linked, n
  <2> QED
    BY <1>3, <1>4, <1>7, <1>11, <2>1, <2>2
<1> QED
  <2>1. Linked(l, idOf2, data2, items2)
    BY <1>2, <1>3, <1>9, <1>10, <1>11 DEF Linked
  <2> QED
    BY <2>1 DEF idOf2, data2, items2, item

LEMMA FillLemma ==
    ASSUME NEW l \in Layers, NEW m, ModuleOK(m), Sound(l, m),
           NEW e \in Experts, ~Has(m, e), Len(m.slotOf) < Capacity(m)
    PROVE  /\ ModuleOK(Fill(m, e, <<l, e>>)) /\ Sound(l, Fill(m, e, <<l, e>>))
           /\ Held(Fill(m, e, <<l, e>>)) = Held(m) \cup {e}
           /\ Capacity(Fill(m, e, <<l, e>>)) = Capacity(m)
<1> DEFINE slot == CHOOSE i \in DOMAIN m.idOf :
                       m.idOf[i] = None /\ \A j \in 1..(i - 1) : m.idOf[j] # None
           n == Len(m.slotOf)
           item == [eid |-> e, slot |-> slot]
           idOf == [m.idOf EXCEPT ![slot] = e]
           data == [m.data EXCEPT ![slot] = <<l, e>>]
           slotOf == Append(m.slotOf, item)
           r == Fill(m, e, <<l, e>>)
<1>1. /\ m.slotOf \in Seq(Items) /\ n \in Nat
      /\ m.idOf \in Seq(Experts \cup {None}) /\ m.data \in Seq(Keys \cup {None})
      /\ Len(m.data) = Len(m.idOf) /\ Len(m.idOf) \in Capacities /\ Len(m.idOf) \in Nat
      /\ DOMAIN m.slotOf = 1..n /\ DOMAIN m.idOf = 1..Len(m.idOf)
      /\ \A i \in 1..n : m.slotOf[i].slot \in 1..Len(m.idOf) /\ m.slotOf[i].eid \in Experts
  BY ModuleFields DEF ModuleOK, Items
<1>2. slot \in 1..Len(m.idOf) /\ m.idOf[slot] = None
  <2>1. Range(m.idOf) \cap {None} # {}
    BY CountSlots DEF Range
  <2>2. /\ FirstAt(m.idOf, {None}) \in 1..Len(m.idOf)
        /\ m.idOf[FirstAt(m.idOf, {None})] \in {None}
        /\ \A j \in 1..(FirstAt(m.idOf, {None}) - 1) : m.idOf[j] \notin {None}
    BY <1>1, <2>1, FirstAtLemma
  <2> QED
    BY <1>1, <2>2
<1>3. r = [idOf |-> idOf, data |-> data, slotOf |-> slotOf]
  BY DEF Fill
<1> HIDE DEF slot, r
<1>4. <<l, e>> \in Keys
  BY DEF Keys
<1>5. /\ idOf \in Seq(Experts \cup {None}) /\ Len(idOf) = Len(m.idOf)
      /\ data \in Seq(Keys \cup {None}) /\ Len(data) = Len(m.idOf)
  BY <1>1, <1>2, <1>4
<1>6. item \in Items /\ item.eid = e /\ item.slot = slot
  BY <1>1, <1>2 DEF Items
<1>7. /\ slotOf \in Seq(Items) /\ Len(slotOf) = n + 1 /\ slotOf[n + 1] = item
      /\ \A i \in 1..n : slotOf[i] = m.slotOf[i]
  BY <1>1, <1>6
<1>8. \A i \in 1..n : m.slotOf[i].eid # e
  BY <1>1 DEF Has, Held
<1>9. Linked(l, idOf, data, slotOf)
  BY <1>1, <1>2, <1>8, FillLinked DEF Sound
<1> HIDE DEF idOf, data, slotOf, item
<1>10. r.idOf = idOf /\ r.data = data /\ r.slotOf = slotOf
  BY <1>3
<1>11. \A i \in 1..(n + 1) : i = n + 1 \/ i \in 1..n
  BY <1>1
<1>12. ModuleOK(r)
  <2>1. DOMAIN slotOf = 1..(n + 1) /\ DOMAIN idOf = 1..Len(m.idOf)
    BY <1>1, <1>5, <1>7
  <2>2. \A i \in 1..(n + 1) : slotOf[i].slot \in 1..Len(m.idOf)
    BY <1>1, <1>2, <1>6, <1>7, <1>11
  <2> QED
    BY <1>1, <1>3, <1>5, <1>7, <1>10, <2>1, <2>2 DEF ModuleOK, Items
<1>13. Sound(l, r)
  BY <1>9, <1>10 DEF Sound
<1>14. Held(r) = Held(m) \cup {e}
  <2>1. Held(r) = {slotOf[i].eid : i \in 1..(n + 1)}
    BY <1>1, <1>7, <1>10 DEF Held
  <2>2. Held(m) = {m.slotOf[i].eid : i \in 1..n}
    BY <1>1 DEF Held
  <2>3. slotOf[n + 1].eid = e /\ \A i \in 1..n : slotOf[i].eid = m.slotOf[i].eid
    BY <1>6, <1>7
  <2>4. n + 1 \in 1..(n + 1) /\ 1..n \subseteq 1..(n + 1)
    BY <1>1
  <2> QED
    BY <1>11, <2>1, <2>2, <2>3, <2>4
<1>15. Capacity(r) = Capacity(m)
  BY <1>5, <1>10 DEF Capacity
<1> QED
  BY <1>12, <1>13, <1>14, <1>15 DEF r

\* evict() of a resident expert.
LEMMA EvictLinked ==
    ASSUME NEW l, NEW idOf \in Seq(Experts \cup {None}), NEW data \in Seq(Keys \cup {None}),
           Len(data) = Len(idOf), NEW items \in Seq(Items),
           \A i \in 1..Len(items) : items[i].slot \in 1..Len(idOf),
           Linked(l, idOf, data, items), NEW p \in 1..Len(items)
    PROVE  Linked(l, [idOf EXCEPT ![items[p].slot] = None], [data EXCEPT ![items[p].slot] = None],
                  RemoveAt(items, p))
<1> DEFINE n == Len(items)
           slot == items[p].slot
           idOf2 == [idOf EXCEPT ![slot] = None]
           data2 == [data EXCEPT ![slot] = None]
           items2 == RemoveAt(items, p)
           Old(i) == IF i < p THEN i ELSE i + 1
<1>1. n \in Nat /\ Len(idOf) \in Nat /\ slot \in 1..Len(idOf) /\ p \in 1..n
  OBVIOUS
<1>2. /\ idOf2[slot] = None /\ Len(idOf2) = Len(idOf)
      /\ \A j \in 1..Len(idOf) : j # slot => idOf2[j] = idOf[j] /\ data2[j] = data[j]
  BY <1>1
<1>3. Len(items2) = n - 1 /\ \A i \in 1..(n - 1) : items2[i] = items[Old(i)]
  BY RemoveAtLemma
<1>4. /\ \A i \in 1..(n - 1) : Old(i) \in 1..n /\ Old(i) # p
      /\ \A i, j \in 1..(n - 1) : Old(i) = Old(j) => i = j
  BY <1>1
<1>5. \A k \in 1..n : k # p => \E i \in 1..(n - 1) : Old(i) = k
  <2> SUFFICES ASSUME NEW k \in 1..n, k # p PROVE \E i \in 1..(n - 1) : Old(i) = k
    OBVIOUS
  <2>1. CASE k < p
    <3>1. k \in 1..(n - 1) /\ Old(k) = k
      BY <1>1, <2>1
    <3> QED
      BY <3>1
  <2>2. CASE k > p
    <3>1. k - 1 \in 1..(n - 1) /\ Old(k - 1) = k
      BY <1>1, <2>2
    <3> QED
      BY <3>1
  <2> QED
    BY <1>1, <2>1, <2>2
<1> HIDE DEF n, slot, idOf2, data2, items2, Old
<1>6. \A k, h \in 1..n : items[k].slot = items[h].slot \/ items[k].eid = items[h].eid => k = h
  BY DEF Linked, n
<1>7. \A i \in 1..n : items[i].slot \in 1..Len(idOf) /\ idOf[items[i].slot] = items[i].eid
  BY DEF Linked, n
<1>8. \A i \in 1..n : i # p => items[i].slot # slot
  BY <1>1, <1>6 DEF slot
<1>9. \A i \in 1..(n - 1) : idOf2[items2[i].slot] = items2[i].eid
  BY <1>2, <1>3, <1>4, <1>7, <1>8
<1>10. ASSUME NEW j \in 1..Len(idOf), idOf2[j] # None
       PROVE  (\E i \in 1..(n - 1) : items2[i].slot = j) /\ data2[j] = <<l, idOf2[j]>>
  <2>1. j # slot /\ idOf[j] # None /\ idOf2[j] = idOf[j] /\ data2[j] = data[j]
    BY <1>2, <1>10
  <2>2. PICK k \in 1..n : items[k].slot = j
    BY <2>1 DEF Linked, n
  <2>3. PICK i \in 1..(n - 1) : Old(i) = k
    BY <1>5, <2>1, <2>2 DEF slot
  <2>4. data[j] = <<l, idOf[j]>>
    BY <2>1 DEF Linked
  <2> QED
    BY <1>3, <2>1, <2>2, <2>3, <2>4
<1>11. ASSUME NEW i \in 1..(n - 1), NEW j \in 1..(n - 1),
              items2[i].slot = items2[j].slot \/ items2[i].eid = items2[j].eid
       PROVE  i = j
  BY <1>3, <1>4, <1>6, <1>11
<1> QED
  <2>1. Linked(l, idOf2, data2, items2)
    BY <1>2, <1>3, <1>9, <1>10, <1>11 DEF Linked
  <2> QED
    BY <2>1 DEF idOf2, data2, items2, slot

LEMMA EvictLemma ==
    ASSUME NEW l \in Layers, NEW m, ModuleOK(m), Sound(l, m), NEW e, Has(m, e)
    PROVE  /\ ModuleOK(EvictSlot(m, e)) /\ Sound(l, EvictSlot(m, e))
           /\ Held(EvictSlot(m, e)) = Held(m) \ {e}
           /\ Capacity(EvictSlot(m, e)) = Capacity(m)
           /\ Len(EvictSlot(m, e).slotOf) = Len(m.slotOf) - 1
<1> DEFINE n == Len(m.slotOf)
           item == ItemOf(m, e)
           r == EvictSlot(m, e)
<1>1. /\ m = [idOf |-> m.idOf, data |-> m.data, slotOf |-> m.slotOf]
      /\ m.slotOf \in Seq(Items) /\ n \in Nat
      /\ m.idOf \in Seq(Experts \cup {None}) /\ m.data \in Seq(Keys \cup {None})
      /\ Len(m.data) = Len(m.idOf) /\ Len(m.idOf) \in Capacities /\ Len(m.idOf) \in Nat
      /\ DOMAIN m.slotOf = 1..n /\ DOMAIN m.idOf = 1..Len(m.idOf)
      /\ \A i \in 1..n : m.slotOf[i].slot \in 1..Len(m.idOf) /\ m.slotOf[i].eid \in Experts
  BY ModuleFields DEF ModuleOK, Items
<1>2. item \in Range(m.slotOf) /\ item.eid = e
  <2>1. PICK i \in DOMAIN m.slotOf : m.slotOf[i].eid = e
    BY DEF Has, Held
  <2>2. m.slotOf[i] \in Range(m.slotOf)
    BY DEF Range
  <2> QED
    BY <2>1, <2>2 DEF ItemOf
<1> DEFINE p == FirstAt(m.slotOf, {item})
<1>3. p \in 1..n /\ m.slotOf[p] = item
  BY <1>1, <1>2, FirstAtLemma
<1>4. RemoveOne(m.slotOf, item) = RemoveAt(m.slotOf, p)
  BY <1>2 DEF RemoveOne
<1> DEFINE slot == m.slotOf[p].slot
           idOf == [m.idOf EXCEPT ![slot] = None]
           data == [m.data EXCEPT ![slot] = None]
           slotOf == RemoveAt(m.slotOf, p)
<1>5. SlotOf(m, e) = slot
  BY <1>3 DEF SlotOf
<1> HIDE DEF item, p
<1>6. r = [idOf |-> idOf, data |-> data, slotOf |-> slotOf]
  <2>1. r = [m EXCEPT !.idOf = [m.idOf EXCEPT ![slot] = None],
                      !.data = [m.data EXCEPT ![slot] = None],
                      !.slotOf = RemoveAt(m.slotOf, p)]
    BY <1>4, <1>5 DEF EvictSlot, item
  <2> QED
    BY <1>1, <2>1
<1> HIDE DEF r
<1>7. Linked(l, idOf, data, slotOf)
  BY <1>1, <1>3, EvictLinked DEF Sound
<1>8. /\ idOf \in Seq(Experts \cup {None}) /\ Len(idOf) = Len(m.idOf)
      /\ data \in Seq(Keys \cup {None}) /\ Len(data) = Len(m.idOf)
  <2>1. slot \in 1..Len(m.idOf)
    BY <1>1, <1>3
  <2> HIDE DEF slot
  <2> QED
    BY <1>1, <2>1
<1>9. /\ slotOf \in Seq(Items) /\ Len(slotOf) = n - 1
      /\ \A i \in 1..(n - 1) : slotOf[i] = IF i < p THEN m.slotOf[i] ELSE m.slotOf[i + 1]
  BY <1>1, <1>3, RemoveAtLemma
<1> HIDE DEF idOf, data, slotOf, slot
<1>10. r.idOf = idOf /\ r.data = data /\ r.slotOf = slotOf
  BY <1>6
<1>11. \A i \in 1..(n - 1) : i \in 1..n /\ i + 1 \in 1..n
  BY <1>1
<1>12. ModuleOK(r)
  <2>1. DOMAIN slotOf = 1..(n - 1) /\ DOMAIN idOf = 1..Len(m.idOf)
    BY <1>1, <1>8, <1>9
  <2>2. \A i \in 1..(n - 1) : slotOf[i].slot \in 1..Len(m.idOf)
    BY <1>1, <1>9, <1>11
  <2> QED
    BY <1>1, <1>6, <1>8, <1>9, <1>10, <2>1, <2>2 DEF ModuleOK, Items
<1>13. Sound(l, r)
  BY <1>7, <1>10 DEF Sound
<1>14. Held(r) = Held(m) \ {e}
  <2>1. Held(r) = {slotOf[i].eid : i \in 1..(n - 1)}
    <3>1. DOMAIN slotOf = 1..(n - 1)
      BY <1>9
    <3> QED
      BY <1>10, <3>1 DEF Held
  <2>2. Held(m) = {m.slotOf[i].eid : i \in 1..n}
    BY <1>1 DEF Held
  <2>3. m.slotOf[p].eid = e
    BY <1>2, <1>3
  <2>4. \A i \in 1..n : i # p => m.slotOf[i].eid # e
    BY <1>3, <2>3 DEF Sound, Linked
  <2>5. \A i \in 1..(n - 1) : slotOf[i].eid \in Held(m) \ {e}
    BY <1>1, <1>3, <1>9, <1>11, <2>2, <2>4
  <2>6. ASSUME NEW i \in 1..n, i # p PROVE m.slotOf[i].eid \in Held(r)
    <3>1. CASE i < p
      <4>1. i \in 1..(n - 1) /\ slotOf[i] = m.slotOf[i]
        BY <1>1, <1>3, <1>9, <3>1
      <4> QED
        BY <2>1, <4>1
    <3>2. CASE i > p
      <4>1. i - 1 \in 1..(n - 1) /\ ~(i - 1 < p) /\ i - 1 + 1 = i
        BY <1>1, <1>3, <3>2
      <4>2. slotOf[i - 1] = m.slotOf[i]
        BY <1>9, <4>1
      <4> QED
        BY <2>1, <4>1, <4>2
    <3> QED
      BY <1>3, <2>6, <3>1, <3>2
  <2>7. Held(r) \subseteq Held(m) \ {e}
    BY <2>1, <2>5
  <2>8. Held(m) \ {e} \subseteq Held(r)
    <3>1. SUFFICES ASSUME NEW i \in 1..n, m.slotOf[i].eid # e
                   PROVE  m.slotOf[i].eid \in Held(r)
      BY <2>2
    <3> QED
      BY <2>3, <2>6, <3>1
  <2> QED
    BY <2>7, <2>8
<1>15. Capacity(r) = Capacity(m)
  BY <1>8, <1>10 DEF Capacity
<1> QED
  BY <1>9, <1>10, <1>12, <1>13, <1>14, <1>15 DEF r

\* resize(): who stays keeps its weights, in a slot of its own.
LEMMA ResizeLemma ==
    ASSUME NEW l \in Layers, NEW m, ModuleOK(m), Sound(l, m), NEW cap \in Capacities
    PROVE  /\ ModuleOK(Resize(m, cap)) /\ Sound(l, Resize(m, cap))
           /\ Held(Resize(m, cap)) \subseteq Held(m)
           /\ Capacity(Resize(m, cap)) = cap
<1> DEFINE n == Len(m.slotOf)
           leave == IF n > cap THEN n - cap ELSE 0
           K == (leave + 1)..n
           stay == {m.slotOf[i].slot : i \in K}
           old == Ascending(stay)
           k == Len(old)
           At(i) == i <= k
           idOf == [i \in 1..cap |-> IF At(i) THEN m.idOf[old[i]] ELSE None]
           data == [i \in 1..cap |-> IF At(i) THEN m.data[old[i]] ELSE None]
           slotOf == [i \in DOMAIN old |-> [eid |-> m.idOf[old[i]], slot |-> i]]
           r == [idOf |-> idOf, data |-> data, slotOf |-> slotOf]
<1>1. /\ m.slotOf \in Seq(Items) /\ n \in Nat
      /\ m.idOf \in Seq(Experts \cup {None}) /\ m.data \in Seq(Keys \cup {None})
      /\ Len(m.data) = Len(m.idOf) /\ Len(m.idOf) \in Nat
      /\ DOMAIN m.slotOf = 1..n /\ DOMAIN m.idOf = 1..Len(m.idOf)
      /\ \A i \in 1..n : m.slotOf[i].slot \in 1..Len(m.idOf) /\ m.slotOf[i].eid \in Experts
  BY ModuleFields DEF Items
<1>2. cap \in Nat
  BY ExpertAssumption
<1>3. leave \in Nat /\ n - leave <= cap /\ leave <= n
  BY <1>1, <1>2
<1>4. Resize(m, cap) = IF cap = Capacity(m) THEN m ELSE r
  BY DEF Resize
<1>5. CASE cap = Capacity(m)
  BY <1>4, <1>5
<1>6. CASE cap # Capacity(m)
  <2> HIDE DEF leave
  <2>1. K \subseteq 1..n /\ IsFiniteSet(K) /\ Cardinality(K) <= cap
    <3>1. IsFiniteSet(K) /\ Cardinality(K) = IF leave + 1 > n THEN 0 ELSE n - (leave + 1) + 1
      <4>1. leave + 1 \in Int /\ n \in Int
        BY <1>1, <1>3
      <4> QED
        BY <4>1, FS_Interval
    <3> QED
      BY <1>1, <1>2, <1>3, <3>1
  <2> HIDE DEF K
  <2>2. IsFiniteSet(stay) /\ Cardinality(stay) <= Cardinality(K)
    <3> DEFINE f == [i \in K |-> m.slotOf[i].slot]
    <3>1. f \in Surjection(K, stay)
      BY DEF Surjection
    <3> QED
      BY <2>1, <3>1, FS_Surjection
  <2>3. stay \in SUBSET Nat
    BY <1>1, <2>1
  <2>4. \A j \in stay : \E h \in 1..n : m.slotOf[h].slot = j
    BY <2>1
  <2> HIDE DEF stay
  <2>5. /\ old \in Seq(stay) /\ k \in Nat /\ k <= cap /\ DOMAIN old = 1..k
        /\ \A i, j \in 1..k : old[i] = old[j] => i = j
        /\ \A i \in 1..k : old[i] \in stay
    <3>1. old \in Seq(stay) /\ k = Cardinality(stay) /\ IsInjective(old)
      BY <2>2, <2>3, AscendingLemma
    <3>2. Cardinality(stay) \in Nat /\ Cardinality(K) \in Nat
      BY <2>1, <2>2, FS_CardinalityType
    <3> HIDE DEF old
    <3>3. k \in Nat /\ k <= cap /\ DOMAIN old = 1..k
      BY <1>2, <2>1, <2>2, <3>1, <3>2
    <3> QED
      BY <3>1, <3>3, ElementType DEF IsInjective
  <2> HIDE DEF old, k
  <2>6. ASSUME NEW i \in 1..k
        PROVE  \E h \in 1..n : /\ m.slotOf[h].slot = old[i] /\ old[i] \in 1..Len(m.idOf)
                               /\ m.idOf[old[i]] = m.slotOf[h].eid
                               /\ m.idOf[old[i]] \in Experts
                               /\ m.data[old[i]] = <<l, m.idOf[old[i]]>>
    <3>1. PICK h \in 1..n : m.slotOf[h].slot = old[i]
      BY <2>4, <2>5
    <3>2. m.idOf[old[i]] = m.slotOf[h].eid /\ m.slotOf[h].eid \in Experts
      BY <1>1, <3>1 DEF Sound, Linked
    <3>3. old[i] \in 1..Len(m.idOf)
      BY <1>1, <3>1
    <3>4. m.data[old[i]] = <<l, m.idOf[old[i]]>>
      <4>1. \A j \in 1..Len(m.idOf) : m.idOf[j] # None => m.data[j] = <<l, m.idOf[j]>>
        BY <1>1 DEF Sound, Linked
      <4>2. m.idOf[old[i]] # None
        BY <3>2, NoneIsNoExpert
      <4> QED
        BY <3>3, <4>1, <4>2
    <3> QED
      BY <3>1, <3>2, <3>3, <3>4
  <2>7. \A i \in 1..cap : /\ At(i) => i \in 1..k /\ idOf[i] = m.idOf[old[i]]
                                      /\ data[i] = m.data[old[i]]
                          /\ ~At(i) => idOf[i] = None /\ data[i] = None
    BY <1>2, <2>5
  <2>8. /\ idOf \in Seq(Experts \cup {None}) /\ Len(idOf) = cap
        /\ data \in Seq(Keys \cup {None}) /\ Len(data) = cap
    <3>1. \A i \in 1..cap : idOf[i] \in Experts \cup {None}
      BY <2>6, <2>7
    <3>2. \A i \in 1..cap : data[i] \in Keys \cup {None}
      <4> HIDE DEF idOf, data
      <4>1. ASSUME NEW i \in 1..k PROVE m.data[old[i]] \in Keys
        <5>1. m.data[old[i]] = <<l, m.idOf[old[i]]>> /\ m.idOf[old[i]] \in Experts
          BY <2>6
        <5> QED
          BY <5>1 DEF Keys
      <4> QED
        BY <2>7, <4>1
    <3>3. idOf \in [1..cap -> Experts \cup {None}] /\ data \in [1..cap -> Keys \cup {None}]
      BY <3>1, <3>2
    <3> HIDE DEF idOf, data
    <3> QED
      BY <1>2, <3>3
  <2>9. /\ slotOf \in Seq(Items) /\ Len(slotOf) = k
        /\ \A i \in 1..k : slotOf[i].eid = m.idOf[old[i]] /\ slotOf[i].slot = i
    <3>1. \A i \in 1..k : slotOf[i] = [eid |-> m.idOf[old[i]], slot |-> i]
      BY <2>5
    <3>2. ASSUME NEW i \in 1..k PROVE slotOf[i] \in Items
      <4>1. i \in Nat /\ m.idOf[old[i]] \in Experts
        BY <2>5, <2>6
      <4>2. [eid |-> m.idOf[old[i]], slot |-> i] \in Items
        BY <4>1 DEF Items
      <4> QED
        BY <3>1, <4>2
    <3>3. slotOf \in [1..k -> Items]
      BY <2>5, <3>2
    <3>4. slotOf \in Seq(Items) /\ Len(slotOf) = k
      <4> HIDE DEF slotOf
      <4> QED
        BY <2>5, <3>3
    <3> QED
      BY <3>1, <3>4
  <2>10. r.idOf = idOf /\ r.data = data /\ r.slotOf = slotOf
    OBVIOUS
  <2> HIDE DEF idOf, data, slotOf
  <2>11. 1..k \subseteq 1..cap /\ \A i \in 1..k : At(i)
    BY <1>2, <2>5
  <2>12. Linked(l, idOf, data, slotOf)
    <3>1. \A i \in 1..k : idOf[slotOf[i].slot] = slotOf[i].eid
      BY <2>7, <2>9, <2>11
    <3>2. ASSUME NEW j \in 1..cap, idOf[j] # None
          PROVE  (\E i \in 1..k : slotOf[i].slot = j) /\ data[j] = <<l, idOf[j]>>
      BY <2>6, <2>7, <2>9, <3>2
    <3>3. ASSUME NEW i \in 1..k, NEW j \in 1..k,
                 slotOf[i].slot = slotOf[j].slot \/ slotOf[i].eid = slotOf[j].eid
          PROVE  i = j
      <4>1. CASE slotOf[i].slot = slotOf[j].slot
        BY <2>9, <4>1
      <4>2. CASE slotOf[i].eid = slotOf[j].eid
        <5>1. PICK h \in 1..n : m.slotOf[h].slot = old[i] /\ m.idOf[old[i]] = m.slotOf[h].eid
          BY <2>6
        <5>2. PICK g \in 1..n : m.slotOf[g].slot = old[j] /\ m.idOf[old[j]] = m.slotOf[g].eid
          BY <2>6
        <5>3. h = g
          BY <2>9, <4>2, <5>1, <5>2 DEF Sound, Linked
        <5> QED
          BY <2>5, <5>1, <5>2, <5>3
      <4> QED
        BY <3>3, <4>1, <4>2
    <3> QED
      BY <2>8, <2>9, <3>1, <3>2, <3>3 DEF Linked
  <2>13. ModuleOK(r)
    <3>1. DOMAIN slotOf = 1..k /\ DOMAIN idOf = 1..cap
      BY <2>8, <2>9
    <3>2. \A i \in 1..k : slotOf[i].slot \in 1..cap
      BY <2>9, <2>11
    <3> QED
      BY <2>8, <2>9, <2>10, <3>1, <3>2 DEF ModuleOK, Items
  <2>14. Sound(l, r)
    BY <2>10, <2>12 DEF Sound
  <2>15. Held(r) \subseteq Held(m)
    <3>1. DOMAIN slotOf = 1..k
      BY <2>9
    <3>2. ASSUME NEW i \in 1..k PROVE slotOf[i].eid \in Held(m)
      <4>1. PICK h \in 1..n : m.idOf[old[i]] = m.slotOf[h].eid
        BY <2>6
      <4> QED
        BY <1>1, <2>9, <4>1 DEF Held
    <3> QED
      BY <2>10, <3>1, <3>2 DEF Held
  <2>16. Capacity(r) = cap
    BY <2>8, <2>10 DEF Capacity
  <2> QED
    BY <1>4, <1>6, <2>13, <2>14, <2>15, <2>16
<1> QED
  BY <1>5, <1>6

LEMMA EmptyLemma ==
    ASSUME NEW l, NEW cap \in Capacities
    PROVE  /\ ModuleOK(EmptyModule(cap)) /\ Sound(l, EmptyModule(cap))
           /\ Held(EmptyModule(cap)) = {} /\ EmptyModule(cap).slotOf = <<>>
<1> DEFINE idOf == [i \in 1..cap |-> None]
           m == [idOf |-> idOf, data |-> idOf, slotOf |-> <<>>]
<1>1. cap \in Nat
  BY ExpertAssumption
<1>2. /\ idOf \in Seq(Experts \cup {None}) /\ idOf \in Seq(Keys \cup {None}) /\ Len(idOf) = cap
      /\ \A i \in 1..cap : idOf[i] = None
  BY <1>1
<1>3. EmptyModule(cap) = m
  BY DEF EmptyModule
<1> HIDE DEF idOf
<1>4. m.idOf = idOf /\ m.data = idOf /\ m.slotOf = <<>>
  OBVIOUS
<1>5. Len(<<>>) = 0 /\ DOMAIN <<>> = {} /\ <<>> \in Seq([eid : Experts, slot : Nat])
  OBVIOUS
<1> HIDE DEF m
<1>6. ModuleOK(m)
  BY <1>2, <1>4, <1>5 DEF ModuleOK, m
<1>7. Sound(l, m)
  BY <1>2, <1>4, <1>5 DEF Sound, Linked
<1>8. Held(m) = {}
  BY <1>4, <1>5 DEF Held
<1> QED
  BY <1>3, <1>4, <1>6, <1>7, <1>8

-----------------------------------------------------------------------------
(* Predicting and prefetching.                                             *)

\* Higher counts first, then later sightings, then lower numbers.
LEMMA ByTwoKeys ==
    ASSUME NEW S \in SUBSET Nat, NEW c \in [S -> Nat], NEW t \in [S -> Nat], NEW R,
           \A d, e \in S : <<d, e>> \in R <=> \/ c[d] > c[e]
                                              \/ c[d] = c[e] /\ t[d] > t[e]
                                              \/ c[d] = c[e] /\ t[d] = t[e] /\ d < e
    PROVE  Orders(R, S)
<1>1. \A x \in S : x \in Nat /\ c[x] \in Nat /\ t[x] \in Nat
  OBVIOUS
<1>2. \A x \in S : <<x, x>> \notin R
  BY <1>1
<1>3. ASSUME NEW x \in S, NEW y \in S, NEW z \in S, <<x, y>> \in R, <<y, z>> \in R
      PROVE  <<x, z>> \in R
  BY <1>1, <1>3
<1>4. ASSUME NEW x \in S, NEW y \in S, x # y PROVE <<x, y>> \in R \/ <<y, x>> \in R
  <2>1. /\ x \in Nat /\ y \in Nat /\ c[x] \in Nat /\ c[y] \in Nat
        /\ t[x] \in Nat /\ t[y] \in Nat
    BY <1>1
  <2>2. CASE c[x] # c[y]
    BY <2>1, <2>2
  <2>3. CASE c[x] = c[y] /\ t[x] # t[y]
    BY <2>1, <2>3
  <2>4. CASE c[x] = c[y] /\ t[x] = t[y]
    BY <1>4, <2>1, <2>4
  <2> QED
    BY <2>2, <2>3, <2>4
<1> QED
  BY <1>2, <1>3, <1>4 DEF Orders

LEMMA ExpertsFinite == IsFiniteSet(Experts) /\ Experts \subseteq Nat
<1>1. IsFiniteSet(Experts)
  BY ExpertAssumption, FS_Interval DEF Experts
<1> QED
  BY <1>1, NoneIsNoExpert

\* predict() names experts, each once.
LEMMA PredictLemma ==
    ASSUME history \in [Layers -> Seq(SUBSET Experts)], NEW l \in Layers, NEW n \in Nat
    PROVE  Predict(l, n) \in Seq(Experts) /\ IsInjective(Predict(l, n))
<1> DEFINE h == history[l]
           Count(e) == Cardinality({i \in DOMAIN h : e \in h[i]})
           LastSeen(e) == CHOOSE i \in DOMAIN h :
                              e \in h[i] /\ \A j \in (i + 1)..Len(h) : e \notin h[j]
           Better(d, e) == \/ Count(d) > Count(e)
                           \/ Count(d) = Count(e) /\ LastSeen(d) > LastSeen(e)
                           \/ Count(d) = Count(e) /\ LastSeen(d) = LastSeen(e) /\ d < e
           older == (UNION Range(h)) \ Last(h)
           R == {p \in older \X older : Better(p[1], p[2])}
           ordered == Ascending(Last(h)) \o InOrder(older, R)
<1>1. h \in Seq(SUBSET Experts) /\ Len(h) \in Nat /\ DOMAIN h = 1..Len(h)
  OBVIOUS
<1>2. CASE h = <<>>
  <2>1. Predict(l, n) = <<>>
    BY <1>2 DEF Predict
  <2> QED
    BY <2>1 DEF IsInjective
<1>3. CASE h # <<>>
  <2>1. Len(h) # 0 /\ Last(h) \in SUBSET Experts /\ \A i \in 1..Len(h) : h[i] \in SUBSET Experts
    BY <1>1, <1>3 DEF Last
  <2>2. older \in SUBSET Experts
    BY <1>1, <2>1 DEF Range
  <2>3. IsFiniteSet(older) /\ IsFiniteSet(Last(h))
    BY <2>1, <2>2, ExpertsFinite, FS_Subset
  <2>4. \A e \in older : Count(e) \in Nat /\ LastSeen(e) \in Nat
    <3> TAKE e \in older
    <3> DEFINE I == {i \in DOMAIN h : e \in h[i]}
    <3>1. I \in SUBSET (1..Len(h)) /\ I \in SUBSET Nat /\ IsFiniteSet(1..Len(h))
      BY <1>1, IntervalSize
    <3>2. IsFiniteSet(I)
      BY <3>1, FS_Subset
    <3>3. I # {}
      BY <1>1 DEF Range
    <3>4. PICK i \in I : \A j \in I : j <= i
      BY <3>1, <3>2, <3>3, GreatestLemma
    <3>5. e \in h[i] /\ \A j \in (i + 1)..Len(h) : e \notin h[j]
      BY <1>1, <3>4
    <3>6. LastSeen(e) \in DOMAIN h
      BY <3>4, <3>5
    <3>7. Count(e) \in Nat
      BY <3>2, FS_CardinalityType
    <3> QED
      BY <1>1, <3>6, <3>7
  <2> HIDE DEF Count, LastSeen
  <2> DEFINE c == [e \in older |-> Count(e)]
             t == [e \in older |-> LastSeen(e)]
  <2>5. \A d, e \in older : <<d, e>> \in R <=> \/ c[d] > c[e]
                                               \/ c[d] = c[e] /\ t[d] > t[e]
                                               \/ c[d] = c[e] /\ t[d] = t[e] /\ d < e
    <3> HIDE DEF older
    <3>1. \A d, e \in older : <<d, e>> \in R <=> Better(d, e)
      OBVIOUS
    <3>2. \A e \in older : c[e] = Count(e) /\ t[e] = LastSeen(e)
      OBVIOUS
    <3> HIDE DEF R, c, t
    <3> TAKE d, e \in older
    <3>3. c[d] = Count(d) /\ c[e] = Count(e) /\ t[d] = LastSeen(d) /\ t[e] = LastSeen(e)
      BY <3>2
    <3> QED
      BY <3>1, <3>3
  <2>6. Orders(R, older)
    <3>1. c \in [older -> Nat] /\ t \in [older -> Nat] /\ older \in SUBSET Nat
      BY <2>2, <2>4, ExpertsFinite
    <3> HIDE DEF R, c, t, older
    <3> QED
      BY <2>5, <3>1, ByTwoKeys
  <2> HIDE DEF R
  <2> DEFINE a == Ascending(Last(h))
             b == InOrder(older, R)
  <2>7. a \in Seq(Last(h)) /\ IsInjective(a) /\ Range(a) = Last(h)
    BY <2>1, <2>3, ExpertsFinite, AscendingLemma
  <2>8. b \in Seq(older) /\ IsInjective(b) /\ Range(b) = older
    BY <2>3, <2>6, InOrderLemma
  <2>9. Range(a) \cap Range(b) = {}
    BY <2>7, <2>8
  <2> DEFINE k == IF Len(ordered) < n THEN Len(ordered) ELSE n
  <2>10. Predict(l, n) = SubSeq(ordered, 1, k)
    BY <1>3 DEF Predict, R, Count, LastSeen
  <2>11. ordered = a \o b
    OBVIOUS
  <2> HIDE DEF a, b, ordered, older
  <2>12. a \in Seq(Experts) /\ b \in Seq(Experts)
    BY <2>1, <2>2, <2>7, <2>8
  <2>13. ordered \in Seq(Experts) /\ IsInjective(ordered)
    BY <2>7, <2>8, <2>9, <2>11, <2>12, ConcatLemma
  <2>14. k \in Nat /\ k <= Len(ordered)
    BY <2>13
  <2> HIDE DEF k
  <2>15. /\ SubSeq(ordered, 1, k) \in Seq(Experts) /\ DOMAIN SubSeq(ordered, 1, k) = 1..k
         /\ \A i \in 1..k : SubSeq(ordered, 1, k)[i] = ordered[i] /\ i \in DOMAIN ordered
    BY <2>13, <2>14
  <2> QED
    BY <2>10, <2>13, <2>15 DEF IsInjective
<1> QED
  BY <1>2, <1>3

\* prefetch() queues keys that were neither queued, nor read, nor staged.
LEMMA PrefetchLemma ==
    ASSUME TypeOK, PoolInv, pc \notin {"closing", "closed"}, NEW l \in Layers,
           NEW eids \in Seq(Experts), IsInjective(eids), PrefetchAll(l, eids)
    PROVE  /\ inflight' \subseteq Keys /\ jobs' \in Seq(Keys)
           /\ IsInjective(jobs') /\ Range(jobs') \cap running' = {}
           /\ inflight' = Range(jobs') \cup running' /\ inflight' \cap staging' = {}
           /\ staging' = staging /\ stagingOrder' = stagingOrder /\ running' = running
<1> DEFINE T == {e \in Experts : ~Has(modules[l], e) /\ <<l, e>> \notin staging \cup inflight}
           wanted == Kept(eids, T)
           new == [i \in DOMAIN wanted |-> <<l, wanted[i]>>]
<1>1. /\ inflight' = inflight \cup Range(new) /\ jobs' = jobs \o new
      /\ staging' = staging /\ stagingOrder' = stagingOrder /\ running' = running
  BY DEF PrefetchAll
<1>2. wanted \in Seq(Experts) /\ Range(wanted) \subseteq T /\ IsInjective(wanted)
  BY KeptLemma
<1> HIDE DEF wanted
<1>3. new \in Seq(Keys) /\ IsInjective(new)
  <2>1. DOMAIN wanted = 1..Len(wanted) /\ Len(wanted) \in Nat
    BY <1>2
  <2>2. \A i \in 1..Len(wanted) : new[i] \in Keys
    BY <1>2, <2>1, ElementType DEF Keys
  <2>3. IsInjective(new)
    BY <1>2 DEF IsInjective
  <2>4. new \in [1..Len(wanted) -> Keys]
    BY <2>1, <2>2
  <2> HIDE DEF new
  <2> QED
    BY <2>1, <2>3, <2>4
<1>4. Range(new) \cap (staging \cup inflight) = {}
  BY <1>2 DEF Range
<1> HIDE DEF new, T
<1>5. jobs \in Seq(Keys) /\ inflight \subseteq Keys /\ inflight = Range(jobs) \cup running
      /\ IsInjective(jobs) /\ Range(jobs) \cap running = {} /\ inflight \cap staging = {}
  BY DEF TypeOK, PoolInv
<1>6. /\ jobs' \in Seq(Keys) /\ Range(jobs') = Range(jobs) \cup Range(new)
      /\ IsInjective(jobs')
  BY <1>1, <1>3, <1>4, <1>5, ConcatLemma
<1>7. Range(new) \subseteq Keys
  BY <1>3 DEF Range
<1> QED
  BY <1>1, <1>4, <1>5, <1>6, <1>7

-----------------------------------------------------------------------------
(* A resident expert is used.                                              *)

\* What a use leaves in order.
Used ==
    /\ modules' = [l \in Layers |-> modules'[l]] /\ \A l \in Layers : ModuleOK(modules'[l])
    /\ lru' \in Seq(Keys) /\ history' = history
    /\ todo' \in Seq(Experts) /\ computed' \in Seq(Keys \cup {None}) /\ pc' = "consume"
    /\ routed' = routed /\ layer' = layer /\ bounds' = bounds
    /\ ModulesSound' /\ ForwardInv' /\ RecencyInv'

\* What a use needs of the module and of the recency it starts from: the other
\* experts of the module were used before, and all but the one used longest ago
\* of the computed ones stay where they were.
LEMMA ComputeStep ==
    ASSUME IInv, Computing, todo # <<>>,
           NEW m, ModuleOK(m), Sound(layer, m), Capacity(m) = Capacity(Module),
           Has(m, Head(todo)),
           NEW recent \in Seq(Keys), IsInjective(recent),
           \A e \in Held(m) : <<layer, e>> \in Range(recent) \cup {Wanted},
           \A l \in Layers \ {layer} : \A e \in Held(modules[l]) : <<l, e>> \in Range(recent),
           \A i \in DOMAIN computed :
               Len(computed) - i < Capacity(Module) - 1 =>
                   /\ Has(m, computed[i][2])
                   /\ Len(recent) > Len(computed) - i
                   /\ recent[Len(recent) - (Len(computed) - i)] = computed[i],
           modules' = [modules EXCEPT ![layer] = m], lru' = Touched(recent), Compute(m),
           history' = history
    PROVE  Used
<1> DEFINE n == Len(computed)
           r == RemoveOne(recent, Wanted)
           cap == Capacity(Module)
<1>1. /\ modules = [l \in Layers |-> modules[l]] /\ layer \in Layers
      /\ \A l \in Layers : ModuleOK(modules[l]) /\ Sound(l, modules[l])
      /\ todo \in Seq(Experts) /\ computed \in Seq(Keys \cup {None}) /\ routed \in Seq(Experts)
      /\ n \in Nat /\ Len(todo) \in Nat /\ Len(todo) # 0 /\ Len(routed) \in Nat
      /\ DOMAIN computed = 1..n /\ DOMAIN todo = 1..Len(todo) /\ DOMAIN routed = 1..Len(routed)
  BY DEF IInv, TypeOK, ModulesSound
<1>2. /\ computed' = Append(computed, Wanted) /\ todo' = Tail(todo) /\ pc' = "consume"
      /\ layer' = layer /\ routed' = routed
  BY SlotHolds DEF Compute, Wanted
<1>3. /\ n + Len(todo) = Len(routed)
      /\ \A i \in 1..n : computed[i] = <<layer, routed[i]>>
      /\ \A i \in 1..Len(todo) : todo[i] = routed[n + i]
      /\ \A i, j \in 1..Len(routed) : routed[i] = routed[j] => i = j
  <2>1. /\ IsInjective(routed) /\ n + Len(todo) = Len(routed)
        /\ \A i \in DOMAIN computed : computed[i] = <<layer, routed[i]>>
        /\ \A i \in DOMAIN todo : todo[i] = routed[n + i]
    BY DEF IInv, ForwardInv
  <2> QED
    BY <1>1, <2>1 DEF IsInjective
<1>4. Head(todo) = routed[n + 1] /\ Head(todo) \in Experts /\ n + 1 \in 1..Len(routed)
  <2>1. 1 \in 1..Len(todo)
    BY <1>1
  <2>2. n + 1 \in 1..Len(routed)
    BY <1>1, <1>3
  <2>3. Head(todo) = todo[1] /\ Head(todo) \in Experts
    BY <1>1, ElementType, <2>1
  <2> QED
    BY <1>3, <2>1, <2>2, <2>3
<1>5. Wanted = <<layer, routed[n + 1]>> /\ Wanted \in Keys
  BY <1>1, <1>4 DEF Wanted, Keys
<1>6. \A i \in 1..n : computed[i] # Wanted
  <2>1. \A i \in 1..n : i \in 1..Len(routed) /\ i # n + 1
    BY <1>1, <1>4
  <2> QED
    BY <1>3, <1>4, <1>5, <2>1
<1>7. /\ Len(computed') = n + 1 /\ computed' \in Seq(Keys \cup {None})
      /\ DOMAIN computed' = 1..(n + 1)
      /\ computed'[n + 1] = Wanted /\ \A i \in 1..n : computed'[i] = computed[i]
  BY <1>1, <1>2, <1>5
<1>8. /\ todo' \in Seq(Experts) /\ Len(todo') = Len(todo) - 1
      /\ DOMAIN todo' = 1..(Len(todo) - 1)
      /\ \A i \in 1..(Len(todo) - 1) : todo'[i] = todo[i + 1]
  BY <1>1, <1>2
<1>9. \A i \in 1..(n + 1) : i = n + 1 \/ i \in 1..n
  BY <1>1
<1>10. /\ modules' = [l \in Layers |-> modules'[l]]
       /\ modules'[layer] = m /\ \A l \in Layers \ {layer} : modules'[l] = modules[l]
  BY <1>1
<1>11. (\A l \in Layers : ModuleOK(modules'[l])) /\ ModulesSound'
  BY <1>1, <1>10 DEF ModulesSound
<1>12. ForwardInv'
  <2>1. Len(computed') + Len(todo') = Len(routed')
    <3>1. (n + 1) + (Len(todo) - 1) = n + Len(todo)
      BY <1>1
    <3> QED
      BY <1>2, <1>3, <1>7, <1>8, <3>1
  <2>2. \A i \in DOMAIN computed' : computed'[i] = <<layer', routed'[i]>>
    BY <1>2, <1>3, <1>5, <1>7, <1>9
  <2>3. ASSUME NEW i \in DOMAIN todo' PROVE todo'[i] = routed'[Len(computed') + i]
    <3>1. i + 1 \in 1..Len(todo) /\ n + (i + 1) = (n + 1) + i /\ i \in 1..(Len(todo) - 1)
      BY <1>1, <1>8
    <3>2. todo'[i] = routed[n + (i + 1)]
      BY <1>3, <1>8, <3>1
    <3> QED
      BY <1>2, <1>7, <3>1, <3>2
  <2>4. IsInjective(routed')
    BY <1>2 DEF IInv, ForwardInv
  <2>5. pc' = "consume"
    BY <1>2
  <2> QED
    BY <2>1, <2>2, <2>3, <2>4, <2>5 DEF ForwardInv, Computing
<1>13. /\ r \in Seq(Keys) /\ IsInjective(r) /\ Range(r) = Range(recent) \ {Wanted}
  BY RemoveOneLemma, RemoveOneInjective
<1>14. lru' = Append(r, Wanted)
  BY DEF Touched
<1> HIDE DEF r
<1>15. /\ lru' \in Seq(Keys) /\ Len(lru') = Len(r) + 1 /\ Len(r) \in Nat
       /\ DOMAIN lru' = 1..(Len(r) + 1) /\ DOMAIN r = 1..Len(r)
       /\ lru'[Len(r) + 1] = Wanted /\ \A i \in 1..Len(r) : lru'[i] = r[i]
  BY <1>5, <1>13, <1>14
<1>16. \A i \in 1..(Len(r) + 1) : i = Len(r) + 1 \/ i \in 1..Len(r)
  BY <1>15
<1>17. IsInjective(lru')
  <2>1. \A i \in 1..Len(r) : r[i] # Wanted
    BY <1>13, <1>15 DEF Range
  <2>2. \A i, j \in 1..Len(r) : r[i] = r[j] => i = j
    BY <1>13, <1>15 DEF IsInjective
  <2> QED
    BY <1>15, <1>16, <2>1, <2>2 DEF IsInjective
<1>18. Range(recent) \cup {Wanted} \subseteq Range(lru')
  <2>1. Wanted \in Range(lru')
    <3>1. Len(r) + 1 \in DOMAIN lru'
      BY <1>15
    <3> QED
      BY <1>15, <3>1 DEF Range
  <2>2. ASSUME NEW i \in 1..Len(r) PROVE r[i] \in Range(lru')
    <3>1. i \in DOMAIN lru'
      BY <1>15
    <3> QED
      BY <1>15, <3>1 DEF Range
  <2>3. Range(r) \subseteq Range(lru')
    BY <1>15, <2>2 DEF Range
  <2> QED
    BY <1>13, <2>1, <2>3
<1>19. \A l \in Layers : \A e \in Held(modules'[l]) : <<l, e>> \in Range(lru')
  BY <1>10, <1>18
<1>20. cap \in Nat
  BY <1>1, CountSlots DEF Module
<1>21. ASSUME NEW i \in 1..(n + 1), (n + 1) - i < cap
       PROVE  /\ Has(m, computed'[i][2]) /\ Len(lru') > (n + 1) - i
              /\ lru'[Len(lru') - ((n + 1) - i)] = computed'[i]
  <2>1. CASE i = n + 1
    <3>1. (n + 1) - i = 0 /\ Len(lru') > 0
      BY <1>1, <1>15, <2>1
    <3>2. computed'[i][2] = Head(todo)
      BY <1>7, <2>1 DEF Wanted
    <3> QED
      BY <1>7, <1>15, <2>1, <3>1, <3>2
  <2>2. CASE i \in 1..n
    <3> DEFINE d == n - i
    <3>1. d \in Nat /\ d < cap - 1
      BY <1>1, <1>20, <1>21, <2>2
    <3>2. /\ Has(m, computed[i][2]) /\ d < Len(recent)
          /\ recent[Len(recent) - d] = computed[i]
      <4>1. i \in DOMAIN computed /\ n - i < Capacity(Module) - 1
        BY <1>1, <2>2, <3>1
      <4> QED
        BY <4>1
    <3>3. ASSUME NEW j \in (Len(recent) - d)..Len(recent) PROVE recent[j] # Wanted
      <4> DEFINE k == n - (Len(recent) - j)
      <4>1. k \in 1..n /\ n - k < cap - 1 /\ Len(recent) - (n - k) = j
        <5>1. Len(recent) \in Nat /\ j \in Int /\ Len(recent) - d =< j /\ j =< Len(recent)
          BY <3>1, <3>3
        <5>2. n \in Nat /\ cap \in Nat /\ i \in 1..n
          BY <1>1, <1>20, <2>2
        <5> HIDE DEF n, cap
        <5> QED
          BY <3>1, <5>1, <5>2
      <4>2. recent[Len(recent) - (n - k)] = computed[k]
        BY <1>1, <4>1
      <4> QED
        BY <1>6, <4>1, <4>2
    <3>4. d < Len(r) /\ r[Len(r) - d] = recent[Len(recent) - d]
      BY <3>1, <3>2, <3>3, TailKept DEF r
    <3>5. Len(r) - d \in 1..Len(r) /\ Len(lru') - ((n + 1) - i) = Len(r) - d
          /\ Len(lru') > (n + 1) - i
      <4>1. i \in Nat /\ n \in Nat /\ Len(r) \in Nat /\ Len(lru') = Len(r) + 1
        BY <1>1, <1>15, <2>2
      <4>2. Len(r) - d \in 1..Len(r)
        BY <3>1, <3>4, <4>1
      <4> QED
        BY <3>4, <4>1, <4>2
    <3> QED
      BY <1>7, <1>15, <2>2, <3>2, <3>4, <3>5
  <2> QED
    BY <1>9, <2>1, <2>2
<1>22. RecencyInv'
  <2>1. Module' = m /\ Capacity(Module') = cap
    BY <1>2, <1>10 DEF Module
  <2>2. \A i \in DOMAIN computed' :
            Len(computed') - i < Capacity(Module') =>
                /\ Has(Module', computed'[i][2]) /\ Len(lru') > Len(computed') - i
                /\ lru'[Len(lru') - (Len(computed') - i)] = computed'[i]
    BY <1>7, <1>21, <2>1
  <2> QED
    BY <1>17, <1>19, <2>2 DEF RecencyInv
<1>23. bounds' = bounds
  BY DEF Compute, bounds
<1> QED
  BY <1>2, <1>7, <1>8, <1>10, <1>11, <1>12, <1>15, <1>22, <1>23 DEF Used

LEMMA HitUses == ASSUME IInv, Hit PROVE Used
<1>1. /\ pc = "consume" /\ todo # <<>> /\ Has(Module, Head(todo))
      /\ lru' = Touched(lru) /\ Compute(Module) /\ modules' = modules /\ history' = history
  BY DEF Hit, ConsumeNext
<1>2. /\ layer \in Layers /\ modules = [l \in Layers |-> modules[l]] /\ lru \in Seq(Keys)
      /\ ModuleOK(Module) /\ Sound(layer, Module) /\ Capacity(Module) \in Nat
  BY CountSlots DEF IInv, TypeOK, ModulesSound, Module
<1>3. modules' = [modules EXCEPT ![layer] = Module]
  BY <1>1, <1>2 DEF Module
<1>4. \A l \in Layers : \A e \in Held(modules[l]) : <<l, e>> \in Range(lru)
  BY DEF IInv, RecencyInv
<1>5. \A i \in DOMAIN computed :
          Len(computed) - i < Capacity(Module) - 1 =>
              /\ Has(Module, computed[i][2]) /\ Len(lru) > Len(computed) - i
              /\ lru[Len(lru) - (Len(computed) - i)] = computed[i]
  <2>1. \A i \in DOMAIN computed : Len(computed) - i \in Int
    BY DEF IInv, TypeOK
  <2>2. \A i \in DOMAIN computed :
            Len(computed) - i < Capacity(Module) - 1 => Len(computed) - i < Capacity(Module)
    BY <1>2, <2>1
  <2> QED
    BY <2>2 DEF IInv, RecencyInv
<1>6. IsInjective(lru) /\ Computing
  BY <1>1 DEF IInv, RecencyInv, Computing
<1>7. \A e \in Held(Module) : <<layer, e>> \in Range(lru) \cup {Wanted}
  BY <1>2, <1>4 DEF Module
<1> QED
  BY <1>1, <1>2, <1>3, <1>4, <1>5, <1>6, <1>7, ComputeStep

\* A read expert is put where there is room.
LEMMA PlaceUses ==
    ASSUME IInv, pc \in {"waiting", "reading"},
           NEW room, ModuleOK(room), Sound(layer, room), Capacity(room) = Capacity(Module),
           Held(room) \subseteq Held(Module), Len(room.slotOf) < Capacity(room),
           NEW recent \in Seq(Keys), IsInjective(recent),
           \A e \in Held(room) : <<layer, e>> \in Range(recent),
           \A l \in Layers \ {layer} : \A e \in Held(modules[l]) : <<l, e>> \in Range(recent),
           \A i \in DOMAIN computed :
               Len(computed) - i < Capacity(Module) - 1 =>
                   /\ Has(room, computed[i][2])
                   /\ Len(recent) > Len(computed) - i
                   /\ recent[Len(recent) - (Len(computed) - i)] = computed[i],
           Place(room, recent, Wanted)
    PROVE  Used
<1> DEFINE e == Head(todo)
           m == Fill(room, e, Wanted)
<1>1. /\ modules' = [modules EXCEPT ![layer] = m] /\ lru' = Touched(recent) /\ Compute(m)
      /\ history' = history
  BY DEF Place
<1>2. Computing /\ todo # <<>> /\ ~Has(Module, e)
  BY DEF IInv, ForwardInv, Computing
<1>3. layer \in Layers /\ e \in Experts /\ Wanted = <<layer, e>>
  BY <1>2 DEF IInv, TypeOK, Wanted
<1>4. ~Has(room, e)
  BY <1>2 DEF Has
<1>5. /\ ModuleOK(m) /\ Sound(layer, m) /\ Held(m) = Held(room) \cup {e}
      /\ Capacity(m) = Capacity(Module)
  BY <1>3, <1>4, FillLemma
<1> HIDE DEF m, e
<1>6. Has(m, Head(todo)) /\ \A x : Has(room, x) => Has(m, x)
  BY <1>5 DEF Has, e
<1>7. \A x \in Held(m) : <<layer, x>> \in Range(recent) \cup {Wanted}
  BY <1>3, <1>5
<1>8. \A i \in DOMAIN computed :
          Len(computed) - i < Capacity(Module) - 1 =>
              /\ Has(m, computed[i][2])
              /\ Len(recent) > Len(computed) - i
              /\ recent[Len(recent) - (Len(computed) - i)] = computed[i]
  BY <1>6
<1> QED
  BY <1>1, <1>2, <1>5, <1>6, <1>7, <1>8, ComputeStep

\* Who is evicted is resident, and is the resident expert used longest ago: the
\* experts computed since then are in their places.
LEMMA VictimLemma ==
    ASSUME IInv, pc \in {"waiting", "reading"}, FreeSlots(Module) = 0
    PROVE  /\ Has(Module, Victim) /\ <<layer, Victim>> \in Range(lru)
           /\ \A j \in 1..Len(lru) :
                  lru[j] = <<layer, Victim>> =>
                      \A k \in 1..(j - 1) : lru[k] \notin {layer} \X Held(Module)
<1> DEFINE mine == {layer} \X Held(Module)
           f == FirstAt(lru, mine)
<1>1. /\ layer \in Layers /\ lru \in Seq(Keys) /\ ModuleOK(Module) /\ Sound(layer, Module)
      /\ IsInjective(lru) /\ \A e \in Held(Module) : <<layer, e>> \in Range(lru)
  BY DEF IInv, TypeOK, ModulesSound, Module, RecencyInv
<1>2. Cardinality(Held(Module)) = Capacity(Module) /\ IsFiniteSet(Held(Module))
  BY <1>1, CountSlots DEF FreeSlots
<1>3. Capacity(Module) \in Nat /\ Capacity(Module) # 0
  BY <1>1, ExpertAssumption DEF ModuleOK, Capacity
<1>4. Held(Module) # {}
  BY <1>2, <1>3, FS_EmptySet
<1>5. Range(lru) \cap mine # {}
  <2>1. PICK e : e \in Held(Module)
    BY <1>4
  <2>2. <<layer, e>> \in Range(lru) \cap mine
    BY <1>1, <2>1
  <2> QED
    BY <2>2
<1>6. f \in 1..Len(lru) /\ lru[f] \in mine /\ \A k \in 1..(f - 1) : lru[k] \notin mine
  BY <1>1, <1>5, FirstAtLemma
<1>7. Victim = lru[f][2]
  BY <1>5 DEF Victim
<1> HIDE DEF f
<1>8. Victim \in Held(Module) /\ lru[f] = <<layer, Victim>>
  BY <1>6, <1>7
<1>9. DOMAIN lru = 1..Len(lru)
  BY <1>1
<1>10. \A j \in 1..Len(lru) : lru[j] = <<layer, Victim>> => j = f
  BY <1>1, <1>6, <1>8, <1>9 DEF IsInjective
<1>11. <<layer, Victim>> \in Range(lru)
  BY <1>6, <1>8, <1>9 DEF Range
<1> QED
  BY <1>6, <1>8, <1>10, <1>11 DEF Has

\* Of as many computed experts as the module has other slots, none is evicted.
LEMMA VictimIsOld ==
    ASSUME IInv, pc \in {"waiting", "reading"}, FreeSlots(Module) = 0,
           NEW i \in DOMAIN computed, Len(computed) - i < Capacity(Module) - 1,
           NEW j \in (Len(lru) - (Len(computed) - i))..Len(lru)
    PROVE  lru[j] # <<layer, Victim>>
<1> DEFINE d == Len(computed) - i
           J == (Len(lru) - d)..Len(lru)
           cap == Capacity(Module)
<1>1. /\ layer \in Layers /\ lru \in Seq(Keys) /\ ModuleOK(Module) /\ Sound(layer, Module)
      /\ \A e \in Held(Module) : <<layer, e>> \in Range(lru)
      /\ Len(lru) \in Nat /\ Len(computed) \in Nat /\ i \in 1..Len(computed)
      /\ DOMAIN lru = 1..Len(lru)
  BY DEF IInv, TypeOK, ModulesSound, Module, RecencyInv
<1>2. cap \in Nat /\ Cardinality(Held(Module)) = cap /\ IsFiniteSet(Held(Module))
  BY <1>1, CountSlots DEF FreeSlots
<1>3. d \in Nat /\ d < cap - 1 /\ d < cap
  BY <1>1, <1>2
<1>4. d < Len(lru)
  BY <1>1, <1>3 DEF IInv, RecencyInv
<1> HIDE DEF cap, d
<1>5. IsFiniteSet(J) /\ Cardinality(J) = d + 1 /\ J \subseteq 1..Len(lru)
  <2>1. Len(lru) - d \in Int /\ Len(lru) \in Int /\ ~(Len(lru) - d > Len(lru))
        /\ Len(lru) - (Len(lru) - d) + 1 = d + 1
    BY <1>1, <1>3
  <2>2. IsFiniteSet(J) /\ Cardinality(J) = d + 1
    BY <2>1, FS_Interval
  <2> QED
    BY <1>1, <1>3, <1>4, <2>2
<1>6. SUFFICES ASSUME lru[j] = <<layer, Victim>> PROVE FALSE
  OBVIOUS
<1>7. j \in J /\ j \in 1..Len(lru)
  BY <1>5 DEF d
<1>8. \A k \in 1..(j - 1) : lru[k] \notin {layer} \X Held(Module)
  BY <1>6, <1>7, VictimLemma
<1>9. ASSUME NEW e \in Held(Module) PROVE \E k \in J : lru[k] = <<layer, e>>
  <2>1. PICK k \in 1..Len(lru) : lru[k] = <<layer, e>>
    BY <1>1 DEF Range
  <2>2. k \notin 1..(j - 1)
    <3>1. <<layer, e>> \in {layer} \X Held(Module)
      OBVIOUS
    <3> QED
      BY <1>8, <2>1, <3>1
  <2>3. k \in J
    BY <1>1, <1>3, <1>7, <2>1, <2>2
  <2> QED
    BY <2>1, <2>3
<1> DEFINE pos == [e \in Held(Module) |-> CHOOSE k \in J : lru[k] = <<layer, e>>]
<1>10. \A e \in Held(Module) : pos[e] \in J /\ lru[pos[e]] = <<layer, e>>
  BY <1>9
<1>11. pos \in Injection(Held(Module), J)
  <2>1. pos \in [Held(Module) -> J]
    BY <1>10
  <2>2. \A a, b \in Held(Module) : pos[a] = pos[b] => a = b
    <3> HIDE DEF pos
    <3> QED
      BY <1>10
  <2> QED
    BY <2>1, <2>2 DEF Injection, IsInjective
<1>12. Cardinality(Held(Module)) <= Cardinality(J)
  BY <1>5, <1>11, FS_Injection
<1> QED
  BY <1>2, <1>3, <1>5, <1>12

LEMMA InstallUses == ASSUME IInv, pc \in {"waiting", "reading"}, Install(Wanted) PROVE Used
<1>1. /\ layer \in Layers /\ lru \in Seq(Keys) /\ ModuleOK(Module) /\ Sound(layer, Module)
      /\ IsInjective(lru) /\ \A e \in Held(Module) : <<layer, e>> \in Range(lru)
      /\ \A l \in Layers : \A e \in Held(modules[l]) : <<l, e>> \in Range(lru)
      /\ Len(lru) \in Nat /\ Len(computed) \in Nat /\ DOMAIN computed = 1..Len(computed)
  BY DEF IInv, TypeOK, ModulesSound, Module, RecencyInv
<1>2. Capacity(Module) \in Nat /\ Len(Module.slotOf) \in Nat /\ Len(Module.slotOf) <= Capacity(Module)
  BY <1>1, CountSlots
<1>3. ASSUME NEW i \in DOMAIN computed, Len(computed) - i < Capacity(Module) - 1
      PROVE  /\ Has(Module, computed[i][2]) /\ Len(lru) > Len(computed) - i
             /\ lru[Len(lru) - (Len(computed) - i)] = computed[i]
  <2>1. Len(computed) - i < Capacity(Module)
    BY <1>1, <1>2, <1>3
  <2> QED
    BY <2>1 DEF IInv, RecencyInv
<1>4. CASE FreeSlots(Module) > 0 /\ Place(Module, lru, Wanted)
  <2>1. Len(Module.slotOf) < Capacity(Module)
    BY <1>2, <1>4 DEF FreeSlots
  <2> QED
    BY <1>1, <1>3, <1>4, <2>1, PlaceUses
<1>5. CASE FreeSlots(Module) = 0
  <2> DEFINE room == EvictSlot(Module, Victim)
             gone == <<layer, Victim>>
             recent == RemoveOne(lru, gone)
  <2>1. Has(Module, Victim) /\ gone \in Range(lru)
    BY <1>5, VictimLemma
  <2>2. Place(room, recent, Wanted)
    BY <1>5 DEF Install
  <2>3. /\ ModuleOK(room) /\ Sound(layer, room) /\ Held(room) = Held(Module) \ {Victim}
        /\ Capacity(room) = Capacity(Module) /\ Len(room.slotOf) = Len(Module.slotOf) - 1
    BY <1>1, <2>1, EvictLemma
  <2>4. recent \in Seq(Keys) /\ IsInjective(recent) /\ Range(recent) = Range(lru) \ {gone}
    BY <1>1, RemoveOneLemma, RemoveOneInjective
  <2>5. ASSUME NEW i \in DOMAIN computed, Len(computed) - i < Capacity(Module) - 1
        PROVE  /\ Has(room, computed[i][2]) /\ Len(recent) > Len(computed) - i
               /\ recent[Len(recent) - (Len(computed) - i)] = computed[i]
    <3> DEFINE d == Len(computed) - i
    <3>1. d \in Nat /\ d < Len(lru) /\ lru[Len(lru) - d] = computed[i]
      BY <1>1, <1>3, <2>5
    <3>2. \A j \in (Len(lru) - d)..Len(lru) : lru[j] # gone
      BY <1>5, <2>5, VictimIsOld
    <3>3. d < Len(recent) /\ recent[Len(recent) - d] = lru[Len(lru) - d]
      <4> HIDE DEF d
      <4> QED
        BY <1>1, <3>1, <3>2, TailKept
    <3>4. computed[i] # gone
      <4>1. Len(lru) - d \in (Len(lru) - d)..Len(lru)
        BY <1>1, <3>1
      <4> QED
        BY <3>1, <3>2, <4>1
    <3>5. computed[i] = <<layer, routed[i]>> /\ Has(Module, computed[i][2])
      BY <1>3, <2>5 DEF IInv, ForwardInv, Computing
    <3>6. Has(room, computed[i][2])
      BY <2>3, <3>4, <3>5 DEF Has
    <3> QED
      BY <3>1, <3>3, <3>6
  <2>6. Len(room.slotOf) < Capacity(room)
    BY <1>2, <2>3
  <2>7. \A e \in Held(room) : <<layer, e>> \in Range(recent)
    BY <1>1, <2>3, <2>4
  <2>8. \A l \in Layers \ {layer} : \A e \in Held(modules[l]) : <<l, e>> \in Range(recent)
    BY <1>1, <2>4
  <2> HIDE DEF room, recent
  <2> QED
    BY <2>2, <2>3, <2>4, <2>5, <2>6, <2>7, <2>8, PlaceUses
<1> QED
  BY <1>2, <1>4, <1>5 DEF Install

-----------------------------------------------------------------------------
(* The other steps.                                                        *)

\* What is kept while the modules, their recency and the computation stay.
LEMMA CacheKept ==
    ASSUME IInv, UNCHANGED <<modules, lru, routed, todo, computed, layer>>,
           pc' = pc \/ (pc \in {"waiting", "reading"} /\ pc' \in {"waiting", "reading"})
    PROVE  ModulesSound' /\ ForwardInv' /\ RecencyInv'
<1>1. modules' = modules /\ lru' = lru /\ routed' = routed /\ todo' = todo /\ computed' = computed
      /\ layer' = layer
  OBVIOUS
<1>2. ModulesSound'
  BY <1>1 DEF IInv, ModulesSound
<1>3. RecencyInv'
  BY <1>1 DEF IInv, RecencyInv, Module
<1>4. ForwardInv'
  BY <1>1 DEF IInv, ForwardInv, Computing, Module
<1> QED
  BY <1>2, <1>3, <1>4

LEMMA SteadyKept ==
    ASSUME IInv, modules' = modules, lru' = lru, routed' = routed, todo' = todo,
           computed' = computed, layer' = layer, pc' = pc
    PROVE  ModulesSound' /\ ForwardInv' /\ RecencyInv'
BY CacheKept

\* What is kept while no expert is being computed.
LEMMA IdleKept ==
    ASSUME IInv, UNCHANGED <<modules, lru>>, ~Computing', computed' = <<>>
    PROVE  ModulesSound' /\ ForwardInv' /\ RecencyInv'
<1>1. ModulesSound'
  BY DEF IInv, ModulesSound
<1>2. RecencyInv'
  BY DEF IInv, RecencyInv
<1>3. ForwardInv'
  BY DEF ForwardInv, Computing
<1> QED
  BY <1>1, <1>2, <1>3

LEMMA AdmitNat == ASSUME NEW n \in Nat PROVE Admit(n) \in Nat
BY ExpertAssumption DEF Admit, MaxStaged

\* Prefetches leave the queue in order, whatever they name.
PrefetchOK ==
    /\ inflight' \subseteq Keys /\ jobs' \in Seq(Keys)
    /\ IsInjective(jobs') /\ Range(jobs') \cap running' = {}
    /\ inflight' = Range(jobs') \cup running' /\ inflight' \cap staging' = {}
    /\ staging' = staging /\ stagingOrder' = stagingOrder /\ running' = running

LEMMA PredictedOK ==
    ASSUME TypeOK, PoolInv, pc \notin {"closing", "closed"}, NEW l \in Layers, NEW n \in Nat,
           PrefetchPredicted(l, n)
    PROVE  PrefetchOK
<1>1. Predict(l, Admit(n)) \in Seq(Experts) /\ IsInjective(Predict(l, Admit(n)))
  BY AdmitNat, PredictLemma DEF TypeOK
<1>2. PrefetchAll(l, Predict(l, Admit(n)))
  BY DEF PrefetchPredicted
<1> QED
  BY <1>1, <1>2, PrefetchLemma DEF PrefetchOK

LEMMA PoolUnchanged ==
    ASSUME TypeOK, PoolInv, pc \notin {"closing", "closed"}, UNCHANGED poolVars
    PROVE  PrefetchOK
BY DEF PrefetchOK, poolVars, TypeOK, PoolInv

LEMMA StagedNat == MaxStaged \in Nat /\ MaxStaged >= 1
<1>1. Workers \in Nat /\ Workers >= 1
  BY ExpertAssumption
<1> QED
  BY <1>1 DEF MaxStaged

LEMMA LayerZero == 0 \in Layers
BY ExpertAssumption DEF Layers

LEMMA PrepareLayerStep == ASSUME IInv, PrepareLayer PROVE IInv'
<1>1. /\ pc = "idle" /\ pc' = "prepared" /\ layer \in Layers /\ forwards' \in 0..MaxForwards
      /\ UNCHANGED <<cacheVars, layer, faults, routed, todo, computed, notified>>
  <2>1. /\ pc = "idle" /\ forwards < MaxForwards /\ pc' = "prepared" /\ forwards' = forwards + 1
        /\ UNCHANGED <<cacheVars, layer, faults, routed, todo, computed, notified>>
    BY DEF PrepareLayer
  <2>2. TypeOK
    BY DEF IInv
  <2>3. layer \in Layers /\ forwards \in 0..MaxForwards
    BY <2>2 DEF TypeOK
  <2>4. MaxForwards \in Nat
    BY ExpertAssumption
  <2>5. forwards' \in 0..MaxForwards
    BY <2>1, <2>3, <2>4
  <2> QED
    BY <2>1, <2>3, <2>5
<1>2. PrefetchOK
  BY <1>1, PredictedOK, PoolUnchanged DEF PrepareLayer, IInv
<1>3. computed' = <<>>
  BY <1>1 DEF IInv, ForwardInv, Computing
<1>4. ModulesSound' /\ ForwardInv' /\ RecencyInv'
  BY <1>1, <1>3, IdleKept DEF cacheVars, Computing
<1>5. TypeOK'
  BY <1>1, <1>2 DEF IInv, TypeOK, PrefetchOK, cacheVars
<1>6. StagingInv' /\ PoolInv'
  BY <1>1, <1>2 DEF IInv, StagingInv, PoolInv, PrefetchOK
<1> QED
  BY <1>4, <1>5, <1>6 DEF IInv

LEMMA RouteStep ==
    ASSUME IInv, NEW eids \in SUBSET Experts, Route(eids) PROVE IInv'
<1>1. /\ pc = "prepared" /\ pc' = "consume" /\ layer \in Layers
      /\ routed' = Ascending(eids) /\ todo' = routed' /\ computed' = <<>>
      /\ UNCHANGED <<cacheVars, bounds, layer, notified>>
  BY DEF Route, IInv, TypeOK
<1>2. routed' \in Seq(Experts) /\ IsInjective(routed')
  <2>1. eids \in SUBSET Nat /\ IsFiniteSet(eids)
    BY ExpertsFinite, FS_Subset
  <2>2. Ascending(eids) \in Seq(eids) /\ IsInjective(Ascending(eids))
    BY <2>1, AscendingLemma
  <2> QED
    BY <1>1, <2>2
<1>3. PrefetchOK
  BY <1>1, <1>2, PrefetchLemma, PoolUnchanged DEF Route, IInv, PrefetchOK
<1>4. ModulesSound' /\ RecencyInv'
  BY <1>1 DEF IInv, ModulesSound, RecencyInv, cacheVars
<1>5. ForwardInv'
  <2>1. /\ Len(computed') = 0 /\ DOMAIN computed' = {} /\ Len(routed') \in Nat
        /\ DOMAIN todo' = 1..Len(routed')
    BY <1>1, <1>2
  <2>2. \A i \in DOMAIN todo' : todo'[i] = routed'[Len(computed') + i]
    BY <1>1, <2>1
  <2> QED
    BY <1>1, <1>2, <2>1, <2>2 DEF ForwardInv, Computing
<1>6. TypeOK'
  BY <1>1, <1>2, <1>3 DEF IInv, TypeOK, PrefetchOK, cacheVars, bounds
<1>7. StagingInv' /\ PoolInv'
  BY <1>1, <1>3 DEF IInv, StagingInv, PoolInv, PrefetchOK
<1> QED
  BY <1>4, <1>5, <1>6, <1>7 DEF IInv

LEMMA UsedStep ==
    ASSUME IInv, Used, Computing,
           staging' \subseteq staging,
           UNCHANGED <<stagingOrder, inflight, jobs, running>>, notified' \in BOOLEAN
    PROVE  IInv'
<1>1. TypeOK'
  BY DEF IInv, TypeOK, Used, bounds
<1>2. StagingInv'
  BY DEF IInv, StagingInv
<1>3. PoolInv'
  BY DEF IInv, PoolInv, Used, Computing
<1> QED
  BY <1>1, <1>2, <1>3 DEF IInv, Used

FaultCounted == faults < MaxFaults /\ faults' = faults + 1

LEMMA FaultsBounded == ASSUME TypeOK, FaultCounted PROVE faults' \in 0..MaxFaults
<1>1. MaxFaults \in Nat
  BY ExpertAssumption
<1>2. faults \in 0..MaxFaults /\ faults < MaxFaults /\ faults' = faults + 1
  BY DEF FaultCounted, TypeOK
<1> QED
  BY <1>1, <1>2

LEMMA ForwardStep ==
    ASSUME IInv, Hit \/ Miss \/ Wake \/ TimeOut \/ Read \/ ReadFails PROVE IInv'
<1>1. CASE Hit
  <2>1. Used /\ Computing
    BY <1>1, HitUses DEF Hit, ConsumeNext, Computing
  <2> QED
    BY <1>1, <2>1, UsedStep DEF Hit, poolVars, IInv, TypeOK
<1>2. CASE Miss
  <2>1. /\ pc = "consume" /\ todo # <<>> /\ ~Has(Module, Head(todo)) /\ pc' \in {"waiting", "reading"}
        /\ UNCHANGED <<cacheVars, poolVars, bounds, layer, routed, todo, computed, notified>>
    BY <1>2 DEF Miss, ConsumeNext
  <2>2. ModulesSound' /\ RecencyInv'
    BY <2>1 DEF IInv, ModulesSound, RecencyInv, Module, cacheVars
  <2>3. ForwardInv'
    BY <2>1 DEF IInv, ForwardInv, Computing, Module, cacheVars
  <2>4. TypeOK' /\ StagingInv' /\ PoolInv'
    BY <2>1 DEF IInv, TypeOK, StagingInv, PoolInv, cacheVars, poolVars, bounds
  <2> QED
    BY <2>2, <2>3, <2>4 DEF IInv
<1>3. ASSUME pc = "waiting", TakeStaged PROVE IInv'
  <2>1. Used
    BY <1>3, InstallUses DEF TakeStaged
  <2> QED
    BY <1>3, <2>1, UsedStep DEF TakeStaged, Computing
<1>4. ASSUME pc = "waiting", pc' \in {"waiting", "reading"}, notified' = FALSE,
             UNCHANGED <<cacheVars, poolVars, bounds, layer, routed, todo, computed>>
      PROVE  IInv'
  <2>1. ModulesSound' /\ ForwardInv' /\ RecencyInv'
    BY <1>4, CacheKept DEF cacheVars
  <2>2. TypeOK' /\ StagingInv' /\ PoolInv'
    BY <1>4 DEF IInv, TypeOK, StagingInv, PoolInv, cacheVars, poolVars, bounds
  <2> QED
    BY <2>1, <2>2 DEF IInv
<1>5. CASE Wake
  BY <1>3, <1>4, <1>5 DEF Wake, GiveUp
<1>6. CASE TimeOut
  BY <1>3, <1>4, <1>6 DEF TimeOut, GiveUp
<1>7. CASE Read
  <2>1. Used /\ Computing
    BY <1>7, InstallUses DEF Read, Computing
  <2> QED
    BY <1>7, <2>1, UsedStep DEF Read, poolVars, IInv, TypeOK
<1>8. CASE ReadFails
  <2>1. /\ pc = "reading" /\ pc' = "failed" /\ FaultCounted
        /\ routed' = <<>> /\ todo' = <<>> /\ computed' = <<>>
        /\ UNCHANGED <<cacheVars, poolVars, layer, forwards, notified>>
    BY <1>8 DEF ReadFails, FaultCounted
  <2>2. ModulesSound' /\ ForwardInv' /\ RecencyInv'
    BY <2>1, IdleKept DEF cacheVars, Computing
  <2>3. faults' \in 0..MaxFaults
    BY <2>1, FaultsBounded DEF IInv
  <2>4. StagingInv' /\ PoolInv'
    BY <2>1 DEF IInv, StagingInv, PoolInv, poolVars
  <2>5. TypeOK'
    BY <2>1, <2>3 DEF IInv, TypeOK, cacheVars, poolVars
  <2> QED
    BY <2>2, <2>4, <2>5 DEF IInv
<1> QED
  BY <1>1, <1>2, <1>5, <1>6, <1>7, <1>8

\* record_routing() appends a set of experts and keeps the window.
LEMMA RecordedOK ==
    ASSUME NEW h \in Seq(SUBSET Experts), NEW s \in Seq(Experts)
    PROVE  /\ Append(h, Range(s)) \in Seq(SUBSET Experts)
           /\ Len(Append(h, Range(s))) > Window
                  => Tail(Append(h, Range(s))) \in Seq(SUBSET Experts)
<1>1. Range(s) \in SUBSET Experts
  BY ElementType DEF Range
<1>2. Append(h, Range(s)) \in Seq(SUBSET Experts)
  BY <1>1
<1>3. Append(h, Range(s)) # <<>>
  OBVIOUS
<1> QED
  BY <1>2, <1>3

LEMMA EndForwardStep == ASSUME IInv, EndForward PROVE IInv'
<1>1. /\ pc = "consume" /\ pc' = "idle" /\ todo' = todo /\ layer' = (layer + 1) % NumLayers
      /\ routed' = <<>> /\ computed' = <<>>
      /\ UNCHANGED <<bounds, modules, lru, notified>>
  BY DEF EndForward
<1>2. layer' \in Layers
  <2>1. NumLayers \in Nat /\ NumLayers > 0
    BY ExpertAssumption
  <2>2. layer \in 0..(NumLayers - 1)
    BY DEF IInv, TypeOK, Layers
  <2>3. (layer + 1) % NumLayers \in 0..(NumLayers - 1)
    BY <2>1, <2>2
  <2> QED
    BY <1>1, <2>3 DEF Layers
<1>3. PrefetchOK
  <2>1. Len(routed) \in Nat
    BY DEF IInv, TypeOK
  <2>2. CASE Mode = "predictive" /\ layer + 1 \in Layers
    BY <1>1, <2>1, <2>2, PredictedOK DEF EndForward, IInv
  <2>3. CASE ~(Mode = "predictive" /\ layer + 1 \in Layers)
    BY <1>1, <2>3, PoolUnchanged DEF EndForward, IInv
  <2> QED
    BY <2>2, <2>3
<1>4. history' \in [Layers -> Seq(SUBSET Experts)]
  <2> DEFINE h == Append(history[layer], Range(routed))
  <2>1. history \in [Layers -> Seq(SUBSET Experts)] /\ layer \in Layers /\ routed \in Seq(Experts)
    BY DEF IInv, TypeOK
  <2>2. h \in Seq(SUBSET Experts) /\ (Len(h) > Window => Tail(h) \in Seq(SUBSET Experts))
    BY <2>1, RecordedOK
  <2>3. \/ history' = history
        \/ history' = [history EXCEPT ![layer] = IF Len(h) > Window THEN Tail(h) ELSE h]
    BY DEF EndForward
  <2> HIDE DEF h
  <2> QED
    BY <2>1, <2>2, <2>3
<1>5. ModulesSound' /\ ForwardInv' /\ RecencyInv'
  BY <1>1, IdleKept DEF Computing
<1>6. TypeOK'
  <2>1. /\ staging' \subseteq Keys /\ stagingOrder' \in Seq(Keys)
        /\ inflight' \subseteq Keys /\ jobs' \in Seq(Keys) /\ running' \subseteq Keys
    BY <1>3 DEF IInv, TypeOK, PrefetchOK
  <2>2. /\ modules' = [l \in Layers |-> modules'[l]]
        /\ \A l \in Layers : ModuleOK(modules'[l])
        /\ lru' \in Seq(Keys)
    BY <1>1 DEF IInv, TypeOK
  <2>3. /\ pc' = "idle" /\ layer' \in Layers /\ forwards' \in 0..MaxForwards
        /\ routed' \in Seq(Experts) /\ todo' \in Seq(Experts)
        /\ computed' \in Seq(Keys \cup {None})
        /\ notified' \in BOOLEAN /\ faults' \in 0..MaxFaults
    BY <1>1, <1>2 DEF IInv, TypeOK, bounds
  <2> QED
    BY <1>4, <2>1, <2>2, <2>3 DEF TypeOK
<1>7. StagingInv' /\ PoolInv'
  BY <1>1, <1>3 DEF IInv, StagingInv, PoolInv, PrefetchOK
<1> QED
  BY <1>5, <1>6, <1>7 DEF IInv

LEMMA SetBudgetStep == ASSUME IInv, NEW cap \in Capacities, SetBudget(cap) PROVE IInv'
<1>1. /\ pc = "idle" /\ modules' = [l \in Layers |-> Resize(modules[l], cap)]
      /\ UNCHANGED <<lru, history, poolVars, computeVars, bounds>>
  BY DEF SetBudget
<1>2. \A l \in Layers : /\ ModuleOK(modules'[l]) /\ Sound(l, modules'[l])
                        /\ Held(modules'[l]) \subseteq Held(modules[l])
  BY <1>1, ResizeLemma DEF IInv, TypeOK, ModulesSound
<1>3. modules' = [l \in Layers |-> modules'[l]]
  BY <1>1
<1>4. TypeOK'
  BY <1>1, <1>2, <1>3 DEF IInv, TypeOK, poolVars, computeVars, bounds
<1>5. computed = <<>>
  BY <1>1 DEF IInv, ForwardInv, Computing
<1>6. ModulesSound' /\ ForwardInv'
  BY <1>1, <1>2, <1>5 DEF ModulesSound, ForwardInv, Computing, computeVars
<1>7. RecencyInv'
  BY <1>1, <1>2, <1>5 DEF IInv, RecencyInv, computeVars
<1>8. StagingInv' /\ PoolInv'
  BY <1>1 DEF IInv, StagingInv, PoolInv, poolVars, computeVars
<1> QED
  BY <1>4, <1>6, <1>7, <1>8 DEF IInv

LEMMA ShutdownStep == ASSUME IInv, Shutdown PROVE IInv'
<1>1. /\ pc \in {"idle", "prepared", "failed"} /\ pc' = "closing" /\ jobs' = <<>>
      /\ UNCHANGED <<cacheVars, bounds, staging, stagingOrder, inflight, running, layer, routed,
                     todo, computed, notified>>
  BY DEF Shutdown
<1>2. computed' = <<>>
  BY <1>1 DEF IInv, ForwardInv, Computing
<1>3. ModulesSound' /\ ForwardInv' /\ RecencyInv'
  BY <1>1, <1>2, IdleKept DEF cacheVars, Computing
<1>4. TypeOK'
  BY <1>1 DEF IInv, TypeOK, cacheVars, bounds
<1>5. StagingInv' /\ PoolInv'
  BY <1>1 DEF IInv, StagingInv, PoolInv, IsInjective, Range
<1> QED
  BY <1>3, <1>4, <1>5 DEF IInv

LEMMA CloseStep == ASSUME IInv, Close PROVE IInv'
<1>1. /\ pc = "closing" /\ pc' = "closed" /\ running = {}
      /\ staging' = {} /\ stagingOrder' = <<>> /\ lru' = <<>>
      /\ history' = [l \in Layers |-> <<>>]
      /\ modules' = [l \in Layers |-> EmptyModule(Capacity(modules[l]))]
      /\ UNCHANGED <<bounds, inflight, jobs, running, layer, routed, todo, computed, notified>>
  BY DEF Close
<1>2. \A l \in Layers : Capacity(modules[l]) \in Capacities
  BY DEF IInv, TypeOK, ModuleOK, Capacity
<1>3. \A l \in Layers : /\ ModuleOK(modules'[l]) /\ Sound(l, modules'[l])
                        /\ Held(modules'[l]) = {} /\ modules'[l].slotOf = <<>>
  BY <1>1, <1>2, EmptyLemma
<1>4. computed' = <<>> /\ DOMAIN computed' = {}
  BY <1>1 DEF IInv, ForwardInv, Computing
<1>5. ModulesSound' /\ ForwardInv'
  BY <1>1, <1>3, <1>4 DEF ModulesSound, ForwardInv, Computing
<1>6. RecencyInv'
  BY <1>1, <1>3, <1>4 DEF RecencyInv, IsInjective
<1>7. modules' = [l \in Layers |-> modules'[l]]
  BY <1>1
<1>8. TypeOK'
  BY <1>1, <1>3, <1>7 DEF IInv, TypeOK, bounds
<1>9. StagingInv'
  BY <1>1, ExpertAssumption DEF StagingInv, MaxStaged, Range
<1>10. PoolInv'
  BY <1>1, <1>3 DEF IInv, PoolInv
<1> QED
  BY <1>5, <1>6, <1>8, <1>9, <1>10 DEF IInv

-----------------------------------------------------------------------------
(* The pool's steps.                                                       *)

\* The head of a queue whose entries differ is not in its tail.
LEMMA HeadLeaves ==
    ASSUME NEW V, NEW s \in Seq(V), s # <<>>
    PROVE  /\ Head(s) \in V /\ Tail(s) \in Seq(V) /\ Len(Tail(s)) = Len(s) - 1
           /\ Range(s) = {Head(s)} \cup Range(Tail(s))
           /\ IsInjective(s) => IsInjective(Tail(s)) /\ Head(s) \notin Range(Tail(s))
<1> DEFINE n == Len(s)
           x == Head(s)
           t == Tail(s)
<1>1. /\ n \in Nat /\ n >= 1 /\ DOMAIN s = 1..n /\ x = s[1] /\ x \in V
      /\ t \in Seq(V) /\ Len(t) = n - 1 /\ DOMAIN t = 1..(n - 1)
      /\ \A i \in 1..(n - 1) : t[i] = s[i + 1]
  OBVIOUS
<1> HIDE DEF n, x, t
<1>2. \A i \in 1..n : i = 1 \/ (i - 1 \in 1..(n - 1) /\ s[i] = t[i - 1])
  <2> SUFFICES ASSUME NEW i \in 1..n, i # 1 PROVE i - 1 \in 1..(n - 1) /\ s[i] = t[i - 1]
    OBVIOUS
  <2>1. i - 1 \in 1..(n - 1) /\ (i - 1) + 1 = i
    BY <1>1
  <2> QED
    BY <1>1, <2>1
<1>3. Range(s) = {x} \cup Range(t)
  <2>1. 1 \in 1..n /\ \A i \in 1..(n - 1) : i + 1 \in 1..n
    BY <1>1
  <2>2. Range(s) = {s[i] : i \in 1..n} /\ Range(t) = {t[i] : i \in 1..(n - 1)}
    BY <1>1 DEF Range
  <2>3. \A i \in 1..n : s[i] \in {x} \cup Range(t)
    BY <1>1, <1>2, <2>2
  <2>4. \A i \in 1..(n - 1) : t[i] \in Range(s)
    BY <1>1, <2>1, <2>2
  <2> QED
    BY <1>1, <2>1, <2>2, <2>3, <2>4
<1>4. ASSUME IsInjective(s) PROVE IsInjective(t) /\ x \notin Range(t)
  <2>1. ASSUME NEW i \in 1..(n - 1), NEW j \in 1..(n - 1), t[i] = t[j] PROVE i = j
    <3>1. i + 1 \in DOMAIN s /\ j + 1 \in DOMAIN s /\ s[i + 1] = s[j + 1]
      BY <1>1, <2>1
    <3>2. i + 1 = j + 1
      BY <1>4, <3>1 DEF IsInjective
    <3> QED
      BY <3>2
  <2>2. ASSUME NEW i \in 1..(n - 1) PROVE t[i] # x
    <3>1. i + 1 \in DOMAIN s /\ 1 \in DOMAIN s /\ i + 1 # 1
      BY <1>1
    <3> QED
      BY <1>1, <1>4, <3>1 DEF IsInjective
  <2> QED
    BY <1>1, <2>1, <2>2 DEF IsInjective, Range
<1> QED
  BY <1>1, <1>3, <1>4 DEF n, x, t

LEMMA JobBeginStep == ASSUME IInv, JobBegin PROVE IInv'
<1>1. /\ jobs # <<>> /\ running' = running \cup {Head(jobs)} /\ jobs' = Tail(jobs)
      /\ UNCHANGED <<cacheVars, staging, stagingOrder, inflight, computeVars, bounds>>
  BY DEF JobBegin
<1>2. /\ Head(jobs) \in Keys /\ jobs' \in Seq(Keys) /\ Range(jobs) = {Head(jobs)} \cup Range(jobs')
      /\ IsInjective(jobs') /\ Head(jobs) \notin Range(jobs')
  BY <1>1, HeadLeaves DEF IInv, TypeOK, PoolInv
<1>3. ModulesSound' /\ ForwardInv' /\ RecencyInv'
  BY <1>1, SteadyKept DEF cacheVars, computeVars
<1>4. TypeOK'
  BY <1>1, <1>2 DEF IInv, TypeOK, cacheVars, computeVars, bounds
<1>5. StagingInv'
  BY <1>1 DEF IInv, StagingInv
<1>6. PoolInv'
  BY <1>1, <1>2 DEF IInv, PoolInv, cacheVars, computeVars
<1> QED
  BY <1>3, <1>4, <1>5, <1>6 DEF IInv

LEMMA AppendRange ==
    ASSUME NEW V, NEW s \in Seq(V), NEW x \in V
    PROVE  /\ Append(s, x) \in Seq(V) /\ Append(s, x) # <<>> /\ Len(Append(s, x)) = Len(s) + 1
           /\ Range(Append(s, x)) = Range(s) \cup {x}
<1>1. /\ Append(s, x) \in Seq(V) /\ Append(s, x) # <<>> /\ Len(Append(s, x)) = Len(s) + 1
      /\ DOMAIN Append(s, x) = 1..(Len(s) + 1) /\ DOMAIN s = 1..Len(s) /\ Len(s) \in Nat
      /\ \A i \in 1..Len(s) : Append(s, x)[i] = s[i]
      /\ Append(s, x)[Len(s) + 1] = x
  OBVIOUS
<1>2. \A i \in 1..(Len(s) + 1) : i = Len(s) + 1 \/ i \in 1..Len(s)
  BY <1>1
<1> QED
  BY <1>1, <1>2 DEF Range

LEMMA StageStep == ASSUME IInv, NEW k \in Keys, Stage(k) PROVE IInv'
<1> DEFINE order == Append(stagingOrder, k)
<1>1. /\ k \in running /\ running' = running \ {k} /\ inflight' = inflight \ {k}
      /\ notified' \in BOOLEAN
      /\ UNCHANGED <<cacheVars, bounds, jobs, pc, layer, routed, todo, computed>>
  BY DEF Stage
<1>2. /\ stagingOrder \in Seq(Keys) /\ Len(stagingOrder) <= MaxStaged
      /\ Len(stagingOrder) \in Nat /\ MaxStaged \in Nat
      /\ staging \subseteq Keys /\ staging \subseteq Range(stagingOrder)
  BY StagedNat DEF IInv, TypeOK, StagingInv
<1>3. /\ order \in Seq(Keys) /\ order # <<>> /\ Len(order) = Len(stagingOrder) + 1
      /\ Range(order) = Range(stagingOrder) \cup {k}
  BY <1>2, AppendRange
<1>4. /\ Head(order) \in Keys /\ Tail(order) \in Seq(Keys) /\ Len(Tail(order)) = Len(order) - 1
      /\ Range(order) = {Head(order)} \cup Range(Tail(order))
  BY <1>3, HeadLeaves
<1>5. \/ /\ Len(order) > MaxStaged /\ stagingOrder' = Tail(order)
         /\ staging' = (staging \cup {k}) \ {Head(order)}
      \/ Len(order) <= MaxStaged /\ stagingOrder' = order /\ staging' = staging \cup {k}
  BY <1>2, <1>3 DEF Stage
<1> HIDE DEF order
<1>6. stagingOrder' \in Seq(Keys) /\ staging' \subseteq staging \cup {k} /\ StagingInv'
  <2>1. stagingOrder' \in Seq(Keys) /\ staging' \subseteq staging \cup {k}
    BY <1>3, <1>4, <1>5
  <2>2. staging' \subseteq Range(stagingOrder')
    BY <1>2, <1>3, <1>4, <1>5
  <2>3. Len(stagingOrder') <= MaxStaged
    BY <1>2, <1>3, <1>4, <1>5
  <2> QED
    BY <2>1, <2>2, <2>3 DEF StagingInv, MaxStaged
<1>7. ModulesSound' /\ ForwardInv' /\ RecencyInv'
  BY <1>1, SteadyKept DEF cacheVars
<1>8. TypeOK'
  BY <1>1, <1>6 DEF IInv, TypeOK, cacheVars, bounds
<1>9. PoolInv'
  BY <1>1, <1>6 DEF IInv, PoolInv, cacheVars
<1> QED
  BY <1>6, <1>7, <1>8, <1>9 DEF IInv

LEMMA JobFailsStep == ASSUME IInv, NEW k \in Keys, JobFails(k) PROVE IInv'
<1>1. /\ k \in running /\ running' = running \ {k} /\ inflight' = inflight \ {k} /\ FaultCounted
      /\ UNCHANGED <<cacheVars, staging, stagingOrder, jobs, computeVars, forwards>>
  BY DEF JobFails, FaultCounted
<1>2. faults' \in 0..MaxFaults
  BY <1>1, FaultsBounded DEF IInv
<1>3. ModulesSound' /\ ForwardInv' /\ RecencyInv'
  BY <1>1, SteadyKept DEF cacheVars, computeVars
<1>4. TypeOK'
  BY <1>1, <1>2 DEF IInv, TypeOK, cacheVars, computeVars
<1>5. StagingInv' /\ PoolInv'
  BY <1>1 DEF IInv, StagingInv, PoolInv, cacheVars, computeVars
<1> QED
  BY <1>3, <1>4, <1>5 DEF IInv

-----------------------------------------------------------------------------
(* The invariant.                                                          *)

LEMMA InitIInv == Init => IInv
<1> SUFFICES ASSUME Init PROVE IInv
  OBVIOUS
<1>1. PICK cap \in Capacities : modules = [l \in Layers |-> EmptyModule(cap)]
  BY DEF Init
<1>2. \A l \in Layers : /\ ModuleOK(modules[l]) /\ Sound(l, modules[l])
                        /\ Held(modules[l]) = {} /\ modules[l].slotOf = <<>>
  BY <1>1, EmptyLemma
<1>3. modules = [l \in Layers |-> modules[l]]
  BY <1>1
<1>4. TypeOK
  <2>1. MaxForwards \in Nat /\ MaxFaults \in Nat
    BY ExpertAssumption
  <2>2. history \in [Layers -> Seq(SUBSET Experts)]
    BY DEF Init
  <2>3. 0 \in 0..MaxForwards /\ 0 \in 0..MaxFaults
    BY <2>1
  <2> QED
    BY <1>2, <1>3, <2>2, <2>3, LayerZero DEF Init, TypeOK
<1>5. ModulesSound
  BY <1>2 DEF ModulesSound
<1>6. StagingInv
  BY ExpertAssumption DEF Init, StagingInv, MaxStaged, Range
<1>7. PoolInv
  BY DEF Init, PoolInv, Range, IsInjective
<1>8. ForwardInv
  BY DEF Init, ForwardInv, Computing
<1>9. RecencyInv
  BY <1>2 DEF Init, RecencyInv, IsInjective
<1> QED
  BY <1>4, <1>5, <1>6, <1>7, <1>8, <1>9 DEF IInv

LEMMA NextIInv == IInv /\ [Next]_vars => IInv'
<1> SUFFICES ASSUME IInv, [Next]_vars PROVE IInv'
  OBVIOUS
<1>1. CASE UNCHANGED vars
  <2>1. /\ UNCHANGED <<modules, lru, history, staging, stagingOrder, inflight, jobs, running>>
        /\ UNCHANGED <<pc, layer, forwards, routed, todo, computed, notified, faults>>
    BY <1>1 DEF vars, cacheVars, poolVars, computeVars, bounds
  <2>2. ModulesSound' /\ ForwardInv' /\ RecencyInv'
    BY <2>1, SteadyKept
  <2>3. TypeOK' /\ StagingInv' /\ PoolInv'
    BY <2>1 DEF IInv, TypeOK, StagingInv, PoolInv
  <2> QED
    BY <2>2, <2>3 DEF IInv
<1>2. CASE PrepareLayer
  BY <1>2, PrepareLayerStep
<1>3. CASE Forward
  BY <1>3, ForwardStep, EndForwardStep DEF Forward
<1>4. CASE \E eids \in SUBSET Experts : Cardinality(eids) \in 1..TopK /\ Route(eids)
  BY <1>4, RouteStep
<1>5. CASE JobBegin
  BY <1>5, JobBeginStep
<1>6. CASE \E k \in Keys : Stage(k) \/ JobFails(k)
  BY <1>6, StageStep, JobFailsStep
<1>7. CASE \E cap \in Capacities : SetBudget(cap)
  BY <1>7, SetBudgetStep
<1>8. CASE Shutdown
  BY <1>8, ShutdownStep
<1>9. CASE Close
  BY <1>9, CloseStep
<1> QED
  BY <1>1, <1>2, <1>3, <1>4, <1>5, <1>6, <1>7, <1>8, <1>9 DEF Next, ComputeThread, Pool

\* The invariant holds in every state, for any number of layers, experts,
\* workers and slots.
THEOREM Invariant == Spec => []IInv
BY InitIInv, NextIInv, PTL DEF Spec

\* Every variable of the expert scheduler keeps its type.
THEOREM TypeCorrect == Spec => []TypeOK
<1>1. IInv => TypeOK
  BY DEF IInv
<1> QED
  BY <1>1, Invariant, PTL

\* expert_scheduler.py, SwlpCachedExperts: through fills, evictions and
\* resizes, _slot_of and _id_of stay inverse and a slot holds the weights of
\* the expert it is listed under.
THEOREM SlotsStayConsistent == Spec => []SlotsConsistent
<1>1. ASSUME IInv, NEW l \in Layers
      PROVE  LET m == modules[l]
                 occupied == {i \in DOMAIN m.idOf : m.idOf[i] # None}
             IN  /\ {<<item.eid, item.slot>> : item \in Range(m.slotOf)}
                         = {<<m.idOf[i], i>> : i \in occupied}
                 /\ Len(m.slotOf) = Cardinality(occupied)
                 /\ \A i \in occupied : m.data[i] = <<l, m.idOf[i]>>
  <2> DEFINE m == modules[l]
  <2>1. ModuleOK(m) /\ Sound(l, m)
    BY <1>1 DEF IInv, TypeOK, ModulesSound
  <2> HIDE DEF m
  <2>2. /\ DOMAIN m.slotOf = 1..Len(m.slotOf) /\ DOMAIN m.idOf = 1..Len(m.idOf)
        /\ \A i \in 1..Len(m.slotOf) : /\ m.slotOf[i].eid \in Experts
                                       /\ m.slotOf[i].slot \in 1..Len(m.idOf)
    BY <2>1, ModuleFields
  <2>3. /\ \A i \in 1..Len(m.slotOf) : m.idOf[m.slotOf[i].slot] = m.slotOf[i].eid
        /\ \A j \in 1..Len(m.idOf) :
               m.idOf[j] # None => /\ \E i \in 1..Len(m.slotOf) : m.slotOf[i].slot = j
                                   /\ m.data[j] = <<l, m.idOf[j]>>
    BY <2>1 DEF Sound, Linked
  <2>4. Len(m.slotOf) = Cardinality(Occupied(m))
    BY <2>1, CountSlots
  <2>5. ASSUME NEW i \in DOMAIN m.slotOf
        PROVE  m.slotOf[i].slot \in Occupied(m)
               /\ <<m.slotOf[i].eid, m.slotOf[i].slot>>
                      = <<m.idOf[m.slotOf[i].slot], m.slotOf[i].slot>>
    BY <2>2, <2>3, NoneIsNoExpert DEF Occupied
  <2>6. ASSUME NEW j \in Occupied(m)
        PROVE  \E i \in DOMAIN m.slotOf : <<m.idOf[j], j>> = <<m.slotOf[i].eid, m.slotOf[i].slot>>
    BY <2>2, <2>3 DEF Occupied
  <2>7. {<<item.eid, item.slot>> : item \in Range(m.slotOf)} = {<<m.idOf[j], j>> : j \in Occupied(m)}
    BY <2>5, <2>6 DEF Range
  <2>8. \A j \in Occupied(m) : m.data[j] = <<l, m.idOf[j]>>
    BY <2>2, <2>3 DEF Occupied
  <2> QED
    BY <2>4, <2>7, <2>8 DEF Occupied, m
<1>2. IInv => SlotsConsistent
  BY <1>1 DEF SlotsConsistent
<1> QED
  BY <1>2, Invariant, PTL

LEMMA ConcatIs ==
    ASSUME NEW V, NEW W, NEW a \in Seq(V), NEW b \in Seq(W)
    PROVE  /\ DOMAIN (a \o b) = 1..(Len(a) + Len(b)) /\ a \o b = [i \in DOMAIN (a \o b) |-> (a \o b)[i]]
           /\ \A i \in 1..(Len(a) + Len(b)) : (a \o b)[i] = IF i <= Len(a) THEN a[i] ELSE b[i - Len(a)]
<1> DEFINE c == a \o b
<1>1. a \in Seq(V \cup W) /\ b \in Seq(V \cup W)
  OBVIOUS
<1>2. c \in Seq(V \cup W) /\ Len(c) = Len(a) + Len(b)
  BY <1>1
<1>3. \A i \in 1..(Len(a) + Len(b)) : c[i] = IF i <= Len(a) THEN a[i] ELSE b[i - Len(a)]
  BY <1>1
<1> HIDE DEF c
<1>4. DOMAIN c = 1..Len(c) /\ c = [i \in DOMAIN c |-> c[i]]
  BY <1>2
<1> QED
  BY <1>2, <1>3, <1>4 DEF c

\* experts.py: forward() computes the routed experts in order, each with the
\* weights of that expert of that layer, whatever is evicted, staged, read or
\* failed meanwhile.
THEOREM ForwardBitIdentical == Spec => []BitIdentical
<1>1. ASSUME IInv, Computing
      PROVE  computed \o [i \in DOMAIN todo |-> <<layer, todo[i]>>]
                 = [i \in DOMAIN routed |-> <<layer, routed[i]>>]
  <2> DEFINE n == Len(computed)
             rest == [i \in DOMAIN todo |-> <<layer, todo[i]>>]
             all == [i \in DOMAIN routed |-> <<layer, routed[i]>>]
             c == computed \o rest
  <2>1. /\ routed \in Seq(Experts) /\ todo \in Seq(Experts) /\ computed \in Seq(Keys \cup {None})
        /\ layer \in Layers
    BY <1>1 DEF IInv, TypeOK
  <2>2. /\ n + Len(todo) = Len(routed)
        /\ \A i \in DOMAIN computed : computed[i] = <<layer, routed[i]>>
        /\ \A i \in DOMAIN todo : todo[i] = routed[n + i]
    BY <1>1 DEF IInv, ForwardInv
  <2>3. /\ n \in Nat /\ Len(todo) \in Nat /\ Len(routed) \in Nat
        /\ DOMAIN computed = 1..n /\ DOMAIN todo = 1..Len(todo) /\ DOMAIN routed = 1..Len(routed)
    BY <2>1
  <2>4. rest \in Seq(Layers \X Experts) /\ Len(rest) = Len(todo)
    BY <2>1, <2>3, ElementType
  <2> HIDE DEF rest
  <2>5. c = [i \in 1..(n + Len(todo)) |-> IF i <= n THEN computed[i] ELSE rest[i - n]]
    <3>1. /\ DOMAIN c = 1..(n + Len(rest)) /\ c = [i \in DOMAIN c |-> c[i]]
          /\ \A i \in 1..(n + Len(rest)) : c[i] = IF i <= n THEN computed[i] ELSE rest[i - n]
      <4>1. computed \in Seq(Keys \cup {None}) /\ rest \in Seq(Layers \X Experts) /\ n = Len(computed)
        BY <2>1, <2>4
      <4> QED
        BY <4>1, ConcatIs
    <3> HIDE DEF c, n
    <3>2. DOMAIN c = 1..(n + Len(todo))
      BY <2>4, <3>1
    <3>3. \A i \in 1..(n + Len(todo)) : c[i] = IF i <= n THEN computed[i] ELSE rest[i - n]
      BY <2>4, <3>1
    <3> QED
      BY <3>1, <3>2, <3>3
  <2>6. \A i \in 1..(n + Len(todo)) :
            (IF i <= n THEN computed[i] ELSE rest[i - n]) = <<layer, routed[i]>>
    <3> SUFFICES ASSUME NEW i \in 1..(n + Len(todo))
                 PROVE  (IF i <= n THEN computed[i] ELSE rest[i - n]) = <<layer, routed[i]>>
      OBVIOUS
    <3>1. CASE i <= n
      BY <2>2, <2>3, <3>1
    <3>2. CASE ~(i <= n)
      <4>1. i - n \in DOMAIN todo /\ n + (i - n) = i
        BY <2>3, <3>2
      <4> QED
        BY <2>2, <3>2, <4>1 DEF rest
    <3> QED
      BY <3>1, <3>2
  <2> QED
    BY <2>2, <2>3, <2>5, <2>6 DEF rest
<1>2. IInv => BitIdentical
  BY <1>1 DEF BitIdentical, Computing
<1> QED
  BY <1>2, Invariant, PTL

\* expert_scheduler.py, _touch() and _evict_least_recent_in_layer(): as many of
\* the experts used last as there are slots are resident.
THEOREM LastUsedStay == Spec => []RecentlyUsedStay
<1>1. IInv => RecentlyUsedStay
  <2> SUFFICES ASSUME IInv PROVE RecentlyUsedStay
    OBVIOUS
  <2>1. DOMAIN computed = 1..Len(computed)
    BY DEF IInv, TypeOK
  <2> QED
    BY <2>1 DEF IInv, RecencyInv, RecentlyUsedStay
<1> QED
  BY <1>1, Invariant, PTL

\* A sequence of n different elements has a range of size n.
LEMMA RangeSize ==
    ASSUME NEW V, NEW s \in Seq(V)
    PROVE  /\ IsFiniteSet(Range(s)) /\ Cardinality(Range(s)) <= Len(s)
           /\ IsInjective(s) => Cardinality(Range(s)) = Len(s)
<1>1. Len(s) \in Nat /\ DOMAIN s = 1..Len(s) /\ s \in [1..Len(s) -> V]
  OBVIOUS
<1>2. IsFiniteSet(1..Len(s)) /\ Cardinality(1..Len(s)) = Len(s)
  BY <1>1, IntervalSize
<1>3. s \in Surjection(1..Len(s), Range(s))
  BY <1>1 DEF Surjection, Range
<1>4. IsFiniteSet(Range(s)) /\ Cardinality(Range(s)) <= Len(s)
  BY <1>2, <1>3, FS_Surjection
<1>5. ASSUME IsInjective(s) PROVE s \in Bijection(1..Len(s), Range(s))
  BY <1>1, <1>3, <1>5 DEF Bijection, Injection, Surjection, IsInjective, Range
<1>6. IsInjective(s) => Cardinality(Range(s)) = Len(s)
  BY <1>2, <1>5, FS_Bijection DEF ExistsBijection
<1> QED
  BY <1>4, <1>6

LEMMA KeysFinite == IsFiniteSet(Keys)
<1>1. IsFiniteSet(Layers)
  BY ExpertAssumption, FS_Interval DEF Layers
<1> QED
  BY <1>1, ExpertsFinite, FS_Product DEF Keys

\* expert_scheduler.py, prefetch(), _stage() and cleanup(): staged weights stay
\* within their bound, whatever ensure() may wait for is queued or being read
\* exactly once, and cleanup() leaves nothing behind that could arrive later.
THEOREM StagingStaysSound == Spec => []StagingSound
<1>1. ASSUME IInv PROVE StagingBounded
  <2>1. /\ stagingOrder \in Seq(Keys) /\ Len(stagingOrder) \in Nat /\ MaxStaged \in Nat
        /\ Len(stagingOrder) <= MaxStaged /\ staging \in SUBSET Range(stagingOrder)
    BY <1>1, StagedNat DEF IInv, TypeOK, StagingInv
  <2>2. IsFiniteSet(Range(stagingOrder)) /\ Cardinality(Range(stagingOrder)) <= Len(stagingOrder)
    BY <2>1, RangeSize
  <2>3. IsFiniteSet(staging) /\ Cardinality(staging) <= Cardinality(Range(stagingOrder))
    BY <2>1, <2>2, FS_Subset
  <2>4. Cardinality(staging) \in Nat /\ Cardinality(Range(stagingOrder)) \in Nat
    BY <2>2, <2>3, FS_CardinalityType
  <2> HIDE DEF MaxStaged
  <2> QED
    BY <2>1, <2>2, <2>3, <2>4 DEF StagingBounded
<1>2. ASSUME IInv PROVE InflightBacked
  <2>1. /\ jobs \in Seq(Keys) /\ running \in SUBSET Keys /\ IsInjective(jobs)
        /\ Range(jobs) \cap running = {}
        /\ pc \notin {"closing", "closed"} =>
               inflight = Range(jobs) \cup running /\ inflight \cap staging = {}
    BY <1>2 DEF IInv, TypeOK, PoolInv
  <2>2. IsFiniteSet(Range(jobs)) /\ Cardinality(Range(jobs)) = Len(jobs)
    BY <2>1, RangeSize
  <2>3. IsFiniteSet(running)
    BY <2>1, KeysFinite, FS_Subset
  <2>4. Cardinality(Range(jobs) \cup running) = Len(jobs) + Cardinality(running)
    <3>1. Cardinality(Range(jobs) \cup running)
              = Cardinality(Range(jobs)) + Cardinality(running)
                    - Cardinality(Range(jobs) \cap running)
      BY <2>2, <2>3, FS_Union
    <3>2. Cardinality(Range(jobs) \cap running) = 0
      BY <2>1, FS_EmptySet
    <3>3. Cardinality(running) \in Nat /\ Len(jobs) \in Nat
      BY <2>1, <2>3, FS_CardinalityType
    <3> QED
      BY <2>2, <3>1, <3>2, <3>3
  <2> QED
    BY <2>1, <2>4 DEF InflightBacked
<1>3. ASSUME IInv PROVE CleanClose
  BY <1>3 DEF IInv, PoolInv, CleanClose, Held
<1>4. IInv => StagingSound
  BY <1>1, <1>2, <1>3 DEF StagingSound
<1> QED
  BY <1>4, Invariant, PTL

=============================================================================
