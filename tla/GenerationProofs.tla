---------------------------- MODULE GenerationProofs ---------------------------
(***************************************************************************)
(* What generation keeps: the KV cache manager returns exactly what a      *)
(* layer appended, within its budget and with every spill file tracked; a  *)
(* conversation resends the prompt it sent before; a row of a batch is the *)
(* run of its prompt alone.  Each part has its inductive invariant: KVInv, *)
(* ChatInv and BatchInv.                                                   *)
(***************************************************************************)
EXTENDS KVCache, Batch, Conversation, ListsProofs

-----------------------------------------------------------------------------
(* Sizes and counters.                                                     *)

LEMMA KVConstants ==
    /\ NumLayers \in Nat /\ NumLayers > 0 /\ MaxFed \in Nat /\ MaxFed > 0
    /\ MaxPos \in Nat /\ MaxPos > 0 /\ MaxFed <= MaxPos
    /\ RawBytes \in Nat /\ PackedBytes \in Nat /\ QuantBytes \in Nat /\ MaxDiskFaults \in Nat
BY KVAssumption

\* Sums and products of numbers.
LEMMA NatPlus == \A a, b \in Nat : a + b \in Nat
OBVIOUS

LEMMA NatTimes ==
    /\ \A a, b \in Nat : a * b \in Nat
    /\ \A a, b, c \in Nat : a <= b => a * c <= b * c
OBVIOUS

\* The layers are finitely many, and a set of positions of at most n has at most n.
LEMMA LayersFinite == IsFiniteSet(Layers) /\ Cardinality(Layers) = NumLayers
<1>1. 0 \in Int /\ NumLayers - 1 \in Int
  BY KVConstants
<1>2. IsFiniteSet(0..(NumLayers - 1)) /\ Cardinality(0..(NumLayers - 1)) = NumLayers
  BY <1>1, FS_Interval, KVConstants
<1> QED
  BY <1>2 DEF Layers

LEMMA TokensCount ==
    \A n \in Nat : \A K \in SUBSET (1..n) :
        /\ IsFiniteSet(K) /\ Cardinality(K) \in Nat /\ Cardinality(K) <= n
        /\ Cardinality(1..n) = n
<1>1. ASSUME NEW n \in Nat, NEW K \in SUBSET (1..n)
      PROVE  /\ IsFiniteSet(K) /\ Cardinality(K) \in Nat /\ Cardinality(K) <= n
             /\ Cardinality(1..n) = n
  <2>1. IsFiniteSet(1..n) /\ Cardinality(1..n) = n
    BY FS_Interval
  <2>2. IsFiniteSet(K) /\ Cardinality(K) <= n
    BY <2>1, FS_Subset
  <2> QED
    BY <2>1, <2>2, FS_CardinalityType
<1> QED
  BY <1>1

Stores == [entries : [Layers -> Entries], bytes : [Tiers -> Int], files : [Layers -> FileStates]]

\* What an entry takes.
LEMMA SizeNat ==
    ASSUME NEW e \in Entries
    PROVE  /\ Size(e) \in Nat
           /\ e.loc \in {"compressed", "disk"} => Size(e) = Cardinality(e.kv) * PackedBytes
<1>1. Cardinality(e.kv) \in Nat
  <2>1. e.kv \in SUBSET (1..MaxPos)
    BY DEF Entries, Positions
  <2> QED
    BY <2>1, TokensCount, KVConstants
<1>2. BytesPerToken(e.loc) \in Nat
  BY KVConstants DEF BytesPerToken
<1>3. Size(e) = Cardinality(e.kv) * BytesPerToken(e.loc)
  BY DEF Size
<1>4. e.loc \in {"compressed", "disk"} => BytesPerToken(e.loc) = PackedBytes
  BY DEF BytesPerToken
<1> HIDE DEF Size
<1> QED
  BY <1>1, <1>2, <1>3, <1>4, NatTimes

\* What an entry takes of a tier.
Share(e, t) == IF e.loc = t THEN Size(e) ELSE 0

LEMMA ShareNat == \A e \in Entries, t \in Tiers : Share(e, t) \in Nat
BY SizeNat DEF Share

LEMMA HeldSum ==
    ASSUME NEW s \in Stores, NEW t \in Tiers
    PROVE  /\ Held(s, t) = SumFunction([l \in Layers |-> Share(s.entries[l], t)])
           /\ [l \in Layers |-> Share(s.entries[l], t)] \in [Layers -> Int]
           /\ Held(s, t) \in Int
<1> DEFINE f == [l \in Layers |-> Share(s.entries[l], t)]
<1>1. \A l \in Layers : s.entries[l] \in Entries
  BY DEF Stores
<1>2. f \in [Layers -> Int]
  BY <1>1, ShareNat
<1>3. f = [l \in Layers |-> IF s.entries[l].loc = t THEN Size(s.entries[l]) ELSE 0]
  BY DEF Share
<1>4. Held(s, t) = SumFunction(f)
  BY <1>3 DEF Held
<1> HIDE DEF f
<1>5. SumFunction(f) \in Int
  BY <1>2, SumInt, LayersFinite
<1> QED
  BY <1>2, <1>4, <1>5 DEF f

\* What is held of a tier and not counted.
Gap(s, t) == Held(s, t) - s.bytes[t]

\* A new entry for a layer changes what is held as the counters would.
LEMMA HeldChange ==
    ASSUME NEW s \in Stores, NEW u \in Stores, NEW l \in Layers, NEW t \in Tiers,
           \A k \in Layers \ {l} : u.entries[k] = s.entries[k]
    PROVE  Held(u, t) - Share(u.entries[l], t) = Held(s, t) - Share(s.entries[l], t)
<1> DEFINE f == [k \in Layers |-> Share(s.entries[k], t)]
           g == [k \in Layers |-> Share(u.entries[k], t)]
<1>1. f \in [Layers -> Int] /\ g \in [Layers -> Int]
  BY HeldSum
<1>2. f[l] = Share(s.entries[l], t) /\ g[l] = Share(u.entries[l], t)
  OBVIOUS
<1>3. \A k \in Layers \ {l} : f[k] = g[k]
  OBVIOUS
<1>4. Held(s, t) = SumFunction(f) /\ Held(u, t) = SumFunction(g)
  BY HeldSum
<1> HIDE DEF f, g
<1>5. SumFunction(g) - g[l] = SumFunction(f) - f[l]
  BY <1>1, <1>3, SumChange, LayersFinite
<1> QED
  BY <1>2, <1>4, <1>5

LEMMA GapKept ==
    ASSUME NEW s \in Stores, NEW u \in Stores, NEW l \in Layers, NEW t \in Tiers,
           \A k \in Layers \ {l} : u.entries[k] = s.entries[k],
           u.bytes[t] = s.bytes[t] - Share(s.entries[l], t) + Share(u.entries[l], t)
    PROVE  Gap(u, t) = Gap(s, t)
<1>1. Held(u, t) - Share(u.entries[l], t) = Held(s, t) - Share(s.entries[l], t)
  BY HeldChange
<1>2. Held(u, t) \in Int /\ Held(s, t) \in Int
  BY HeldSum
<1>3. s.entries[l] \in Entries /\ u.entries[l] \in Entries /\ s.bytes[t] \in Int
  BY DEF Stores
<1>4. Share(u.entries[l], t) \in Nat /\ Share(s.entries[l], t) \in Nat
  BY <1>3, ShareNat
<1> QED
  BY <1>1, <1>2, <1>3, <1>4 DEF Gap

\* Charge adds an entry to its tier's counter, or takes it off.
LEMMA ChargeOK ==
    ASSUME NEW b \in [Tiers -> Int], NEW e \in Entries, NEW c \in {1, -1}
    PROVE  /\ Charge(b, e, c) \in [Tiers -> Int]
           /\ \A t \in Tiers : Charge(b, e, c)[t] = b[t] + c * Share(e, t)
<1>1. Size(e) \in Nat
  BY SizeNat
<1>2. \A t \in Tiers : Charge(b, e, c)[t] = IF t = e.loc THEN b[t] + c * Size(e) ELSE b[t]
  BY DEF Charge
<1>3. Charge(b, e, c) = [t \in Tiers |-> Charge(b, e, c)[t]]
  BY DEF Charge
<1>4. ASSUME NEW t \in Tiers PROVE b[t] + c * Share(e, t) \in Int /\ Charge(b, e, c)[t] = b[t] + c * Share(e, t)
  <2>1. CASE t = e.loc
    BY <1>1, <1>2, <2>1 DEF Share
  <2>2. CASE t # e.loc
    BY <1>1, <1>2, <2>2 DEF Share
  <2> QED
    BY <2>1, <2>2
<1> QED
  BY <1>3, <1>4

\* One entry replaced by another, and the counters with it.
Replaced(s, u, l, e) ==
    /\ u \in Stores
    /\ u.entries = [s.entries EXCEPT ![l] = e]
    /\ \A t \in Tiers : Gap(u, t) = Gap(s, t)

LEMMA ReplaceOK ==
    ASSUME NEW s \in Stores, NEW u, NEW l \in Layers, NEW e \in Entries,
           NEW F \in [Layers -> FileStates],
           u = [entries |-> [s.entries EXCEPT ![l] = e],
                bytes |-> Charge(Charge(s.bytes, s.entries[l], -1), e, 1),
                files |-> F]
    PROVE  Replaced(s, u, l, e)
<1>1. s.entries \in [Layers -> Entries] /\ s.bytes \in [Tiers -> Int] /\ s.entries[l] \in Entries
  BY DEF Stores
<1> DEFINE a == Charge(s.bytes, s.entries[l], -1)
           b == Charge(a, e, 1)
<1>2. a \in [Tiers -> Int] /\ \A t \in Tiers : a[t] = s.bytes[t] + (-1) * Share(s.entries[l], t)
  BY <1>1, ChargeOK
<1> HIDE DEF a
<1>3. b \in [Tiers -> Int] /\ \A t \in Tiers : b[t] = a[t] + 1 * Share(e, t)
  BY <1>2, ChargeOK
<1> HIDE DEF b
<1>4. u.entries = [s.entries EXCEPT ![l] = e] /\ u.bytes = b /\ u.files = F
  BY DEF a, b
<1>5. u \in Stores
  BY <1>1, <1>3, <1>4 DEF Stores, a, b
<1>6. u.entries[l] = e /\ \A k \in Layers \ {l} : u.entries[k] = s.entries[k]
  BY <1>1, <1>4
<1>7. ASSUME NEW t \in Tiers PROVE Gap(u, t) = Gap(s, t)
  <2>1. Share(e, t) \in Nat /\ Share(s.entries[l], t) \in Nat
    BY <1>1, ShareNat
  <2>2. s.bytes[t] \in Int /\ a[t] \in Int
    BY <1>1, <1>2
  <2>3. u.bytes[t] = s.bytes[t] - Share(s.entries[l], t) + Share(u.entries[l], t)
    BY <1>2, <1>3, <1>4, <1>6, <2>1, <2>2
  <2> QED
    BY <1>5, <1>6, <2>3, GapKept
<1> QED
  BY <1>4, <1>5, <1>7 DEF Replaced

\* An entry that changes tier.
LEMMA RelocateOK ==
    ASSUME NEW s \in Stores, NEW l \in Layers, NEW t \in Tiers
    PROVE  /\ Replaced(s, Relocate(s, l, t), l, [s.entries[l] EXCEPT !.loc = t])
           /\ Relocate(s, l, t).files = s.files
<1> DEFINE e == [s.entries[l] EXCEPT !.loc = t]
           u == [entries |-> [s.entries EXCEPT ![l] = e],
                 bytes |-> Charge(Charge(s.bytes, s.entries[l], -1), e, 1),
                 files |-> s.files]
<1>1. s.entries[l] \in Entries /\ s.files \in [Layers -> FileStates]
  BY DEF Stores
<1>2. e \in Entries
  BY <1>1 DEF Entries
<1>3. Relocate(s, l, t) = u
  <2>1. DOMAIN s = {"entries", "bytes", "files"}
    BY DEF Stores
  <2>2. Relocate(s, l, t) = [s EXCEPT !.entries = [s.entries EXCEPT ![l] = e],
                                      !.bytes = Charge(Charge(s.bytes, s.entries[l], -1), e, 1)]
    BY Zenon DEF Relocate
  <2> HIDE DEF e
  <2> QED
    BY <2>2 DEF Stores
<1> HIDE DEF e
<1>4. Replaced(s, u, l, e)
  BY <1>1, <1>2, ReplaceOK
<1>5. u.files = s.files
  OBVIOUS
<1> HIDE DEF u
<1> QED
  BY <1>3, <1>4, <1>5 DEF e

-----------------------------------------------------------------------------
(* The steps of budget enforcement.                                        *)

FilesRight(s) == \A l \in Layers : s.files[l] = "whole" <=> s.entries[l].loc = "disk"

StoreOK(s, n) ==
    /\ s \in Stores
    /\ FilesRight(s)
    /\ \A l \in Layers : s.entries[l].kv \subseteq 1..n
    /\ \A l \in Layers : s.entries[l].loc = "none" => s.entries[l].kv = {}
    /\ settings.int4 => \A l \in Layers : s.entries[l].loc \in {"none", "host"}

\* The same tensors, none of them unpacked, and the counters as right as before
\* but for that of the packed entries.
Quiet(s, u, n) ==
    /\ StoreOK(u, n)
    /\ \A k \in Layers : u.entries[k].kv = s.entries[k].kv
    /\ \A k \in Layers : HasTensors(u, k) => HasTensors(s, k)
    /\ \A t \in Tiers : t # "compressed" => Gap(u, t) = Gap(s, t)

LEMMA GapInt == \A s \in Stores, t \in Tiers : Gap(s, t) \in Int
<1>1. ASSUME NEW s \in Stores, NEW t \in Tiers PROVE Gap(s, t) \in Int
  <2>1. Held(s, t) \in Int
    BY HeldSum
  <2>2. s.bytes[t] \in Int
    BY DEF Stores
  <2> QED
    BY <2>1, <2>2 DEF Gap
<1> QED
  BY <1>1

LEMMA RelocateEntries ==
    ASSUME NEW s \in Stores, NEW l \in Layers, NEW t \in Tiers
    PROVE  /\ Relocate(s, l, t) \in Stores
           /\ Relocate(s, l, t).files = s.files
           /\ Relocate(s, l, t).entries[l].loc = t
           /\ \A k \in Layers : Relocate(s, l, t).entries[k].kv = s.entries[k].kv
           /\ \A k \in Layers \ {l} : Relocate(s, l, t).entries[k] = s.entries[k]
           /\ \A x \in Tiers : Gap(Relocate(s, l, t), x) = Gap(s, x)
<1> DEFINE u == Relocate(s, l, t)
           e == [s.entries[l] EXCEPT !.loc = t]
<1>1. Replaced(s, u, l, e) /\ u.files = s.files
  BY RelocateOK
<1>2. s.entries \in [Layers -> Entries] /\ s.entries[l] \in Entries
  BY DEF Stores
<1>3. e.loc = t /\ e.kv = s.entries[l].kv
  BY <1>2 DEF Entries
<1> HIDE DEF u, e
<1>4. u.entries[l] = e /\ \A k \in Layers \ {l} : u.entries[k] = s.entries[k]
  BY <1>1, <1>2 DEF Replaced
<1>5. \A k \in Layers : u.entries[k].kv = s.entries[k].kv
  BY <1>3, <1>4
<1>6. u.entries[l].loc = t
  BY <1>3, <1>4
<1> QED
  BY <1>1, <1>4, <1>5, <1>6 DEF Replaced, u

\* Within memory: between the device, the host and the packed form.
LEMMA RelocateQuiet ==
    ASSUME NEW n \in Nat, NEW s, StoreOK(s, n), NEW l \in Layers, NEW t \in Tiers \ {"disk"},
           s.entries[l].loc # "disk", ~settings.int4
    PROVE  /\ StoreOK(Relocate(s, l, t), n)
           /\ \A x \in Tiers : Gap(Relocate(s, l, t), x) = Gap(s, x)
<1> DEFINE u == Relocate(s, l, t)
<1>1. /\ u \in Stores /\ u.files = s.files /\ u.entries[l].loc = t
      /\ \A k \in Layers : u.entries[k].kv = s.entries[k].kv
      /\ \A k \in Layers \ {l} : u.entries[k] = s.entries[k]
      /\ \A x \in Tiers : Gap(u, x) = Gap(s, x)
  BY RelocateEntries DEF StoreOK
<1> HIDE DEF u
<1>2. FilesRight(u)
  BY <1>1 DEF StoreOK, FilesRight
<1>3. StoreOK(u, n)
  BY <1>1, <1>2 DEF StoreOK, Tiers
<1> QED
  BY <1>1, <1>3 DEF u

LEMMA OffloadQuiet ==
    ASSUME NEW n \in Nat, NEW s, StoreOK(s, n), NEW l \in Layers
    PROVE  /\ Quiet(s, Offload(s, l), n)
           /\ \A x \in Tiers : Gap(Offload(s, l), x) = Gap(s, x)
           /\ Offload(s, l).files = s.files
<1>1. CASE s.entries[l].loc = "device"
  <2> DEFINE u == Relocate(s, l, "host")
  <2>1. s \in Stores /\ "host" \in Tiers
    BY DEF StoreOK, Tiers
  <2>2. ~settings.int4
    BY <1>1 DEF StoreOK
  <2>3. StoreOK(u, n) /\ \A x \in Tiers : Gap(u, x) = Gap(s, x)
    BY <1>1, <2>1, <2>2, RelocateQuiet
  <2>4. /\ u.files = s.files /\ \A k \in Layers : u.entries[k].kv = s.entries[k].kv
        /\ \A k \in Layers \ {l} : u.entries[k] = s.entries[k]
    BY <2>1, RelocateEntries
  <2>5. HasTensors(s, l)
    BY <1>1, <2>2 DEF HasTensors
  <2>6. Offload(s, l) = u
    BY <1>1 DEF Offload
  <2> HIDE DEF u
  <2>7. \A k \in Layers : HasTensors(u, k) => HasTensors(s, k)
    BY <2>4, <2>5 DEF HasTensors
  <2> QED
    BY <2>3, <2>4, <2>6, <2>7 DEF Quiet
<1>2. CASE s.entries[l].loc # "device"
  BY <1>2 DEF Offload, Quiet
<1> QED
  BY <1>1, <1>2

LEMMA CompressQuiet ==
    ASSUME NEW n \in Nat, NEW s, StoreOK(s, n), NEW l \in Layers
    PROVE  /\ Quiet(s, Compress(s, l), n)
           /\ \A x \in Tiers : Gap(Compress(s, l), x) = Gap(s, x)
           /\ ~HasTensors(Compress(s, l), l) /\ Compress(s, l).files = s.files
<1>1. CASE HasTensors(s, l)
  <2> DEFINE u == Relocate(s, l, "compressed")
  <2>1. s \in Stores /\ "compressed" \in Tiers \ {"disk"}
    BY DEF StoreOK, Tiers
  <2>2. ~settings.int4 /\ s.entries[l].loc # "disk"
    BY <1>1 DEF HasTensors
  <2>3. StoreOK(u, n) /\ \A x \in Tiers : Gap(u, x) = Gap(s, x)
    BY <2>1, <2>2, RelocateQuiet
  <2>4. /\ \A k \in Layers : u.entries[k].kv = s.entries[k].kv
        /\ \A k \in Layers \ {l} : u.entries[k] = s.entries[k]
        /\ u.entries[l].loc = "compressed" /\ u.files = s.files
    BY <2>1, RelocateEntries
  <2>5. Compress(s, l) = u
    BY <1>1 DEF Compress
  <2> HIDE DEF u
  <2>6. ~HasTensors(u, l) /\ \A k \in Layers : HasTensors(u, k) => HasTensors(s, k)
    BY <2>4 DEF HasTensors
  <2> QED
    BY <2>3, <2>4, <2>5, <2>6 DEF Quiet
<1>2. CASE ~HasTensors(s, l)
  BY <1>2 DEF Compress, Quiet
<1> QED
  BY <1>1, <1>2

\* What a failing spill forgets.
Forgotten(fails, n) == IF fails THEN n * PackedBytes ELSE 0

LEMMA SpillQuiet ==
    ASSUME NEW n \in Nat, NEW s, StoreOK(s, n), NEW l \in Layers, NEW fails \in BOOLEAN,
           s.entries[l].loc = "compressed"
    PROVE  /\ Quiet(s, SpillToDisk(s, l, fails), n)
           /\ Gap(SpillToDisk(s, l, fails), "compressed") - Gap(s, "compressed") \in 0..Forgotten(fails, n)
           /\ HasTensors(SpillToDisk(s, l, fails), l) => HasTensors(s, l)
           /\ \A k \in Layers : SpillToDisk(s, l, fails).files[k] = "torn" =>
                  s.files[k] = "torn" \/ (fails /\ k = l)
<1>1. s \in Stores /\ {"compressed", "disk"} \subseteq Tiers /\ ~settings.int4
  BY DEF StoreOK, Tiers
<1>2. CASE fails
  <2> DEFINE e == s.entries[l]
             b == Charge(s.bytes, e, -1)
             F == [s.files EXCEPT ![l] = "torn"]
             u == [s EXCEPT !.bytes = b, !.files = F]
  <2>1. SpillToDisk(s, l, fails) = u
    BY Zenon, <1>2 DEF SpillToDisk
  <2>2. e \in Entries /\ s.bytes \in [Tiers -> Int]
    BY <1>1 DEF Stores
  <2>3. b \in [Tiers -> Int] /\ \A t \in Tiers : b[t] = s.bytes[t] + (-1) * Share(e, t)
    BY <2>2, ChargeOK
  <2> HIDE DEF b
  <2>14. F \in [Layers -> FileStates] /\ F[l] = "torn" /\ \A k \in Layers \ {l} : F[k] = s.files[k]
    BY <1>1 DEF Stores, FileStates
  <2> HIDE DEF F
  <2>4. u \in Stores /\ u.entries = s.entries /\ u.files = F /\ u.bytes = b
    BY <1>1, <2>3, <2>14 DEF Stores
  <2> HIDE DEF u
  <2>5. \A t \in Tiers : Held(u, t) = Held(s, t) /\ Held(s, t) \in Int
    BY <1>1, <2>4, HeldSum DEF Held
  <2>6. \A t \in Tiers : Gap(u, t) = Gap(s, t) + Share(e, t)
    <3>1. \A t \in Tiers : s.bytes[t] \in Int /\ Share(e, t) \in Nat
      BY <2>2, ShareNat
    <3> QED
      BY <2>3, <2>4, <2>5, <3>1 DEF Gap
  <2>7. \A t \in Tiers : t # "compressed" => Share(e, t) = 0
    BY DEF Share
  <2>8. Share(e, "compressed") \in 0..(n * PackedBytes)
    <3>1. e.kv \in SUBSET (1..n)
      BY DEF StoreOK
    <3>2. Cardinality(e.kv) \in Nat /\ Cardinality(e.kv) <= n
      BY <3>1, TokensCount
    <3>3. Share(e, "compressed") = Cardinality(e.kv) * PackedBytes
      BY <2>2, SizeNat DEF Share
    <3>4. PackedBytes \in Nat
      BY KVConstants
    <3> QED
      BY <3>2, <3>3, <3>4, NatTimes
  <2>9. FilesRight(u) /\ \A k \in Layers : HasTensors(u, k) = HasTensors(s, k)
    BY <2>4, <2>14 DEF StoreOK, FilesRight, HasTensors
  <2>10. StoreOK(u, n)
    BY <2>4, <2>9 DEF StoreOK
  <2>11. \A t \in Tiers : Gap(s, t) \in Int
    BY <1>1, GapInt
  <2>12. Quiet(s, u, n)
    BY <2>4, <2>6, <2>7, <2>9, <2>10, <2>11 DEF Quiet
  <2>13. Gap(u, "compressed") - Gap(s, "compressed") = Share(e, "compressed")
    BY <1>1, <2>2, <2>6, <2>11, ShareNat
  <2> QED
    BY <1>2, <2>1, <2>4, <2>8, <2>9, <2>12, <2>13, <2>14 DEF Forgotten
<1>3. CASE ~fails
  <2> DEFINE v == Relocate(s, l, "disk")
             u == [v EXCEPT !.files[l] = "whole"]
  <2>1. SpillToDisk(s, l, fails) = u
    BY Zenon, <1>3 DEF SpillToDisk
  <2>2. /\ v \in Stores /\ v.files = s.files /\ v.entries[l].loc = "disk"
        /\ \A k \in Layers : v.entries[k].kv = s.entries[k].kv
        /\ \A k \in Layers \ {l} : v.entries[k] = s.entries[k]
        /\ \A x \in Tiers : Gap(v, x) = Gap(s, x)
    BY <1>1, RelocateEntries
  <2> HIDE DEF v
  <2>3. /\ u \in Stores /\ u.entries = v.entries /\ u.bytes = v.bytes
        /\ u.files = [s.files EXCEPT ![l] = "whole"] /\ s.files \in [Layers -> FileStates]
    BY <1>1, <2>2 DEF Stores, FileStates
  <2> HIDE DEF u
  <2>4. FilesRight(u)
    BY <2>2, <2>3 DEF StoreOK, FilesRight
  <2>5. StoreOK(u, n)
    BY <1>1, <2>2, <2>3, <2>4 DEF StoreOK
  <2>6. ~HasTensors(u, l) /\ \A k \in Layers : HasTensors(u, k) => HasTensors(s, k)
    BY <2>2, <2>3 DEF HasTensors
  <2>7. \A t \in Tiers : Gap(u, t) = Gap(s, t) /\ Gap(s, t) \in Int
    <3>1. u.entries = v.entries /\ u.bytes = v.bytes
      BY <2>3
    <3>2. \A t \in Tiers : Gap(u, t) = Gap(v, t)
      BY <3>1 DEF Gap, Held
    <3> QED
      BY <1>1, <2>2, <3>2, GapInt
  <2>8. Quiet(s, u, n)
    BY <2>2, <2>3, <2>5, <2>6, <2>7 DEF Quiet
  <2>9. Gap(u, "compressed") - Gap(s, "compressed") \in 0..0
    BY <1>1, <2>7
  <2> QED
    BY <1>3, <2>1, <2>3, <2>6, <2>8, <2>9 DEF Forgotten
<1> QED
  BY <1>2, <1>3

LEMMA QuietTwice ==
    ASSUME NEW n \in Nat, NEW s, NEW u, NEW w, Quiet(s, u, n), Quiet(u, w, n)
    PROVE  Quiet(s, w, n)
BY DEF Quiet

\* maybe_evict(): packed, and nothing else.
LEMMA EvictQuiet ==
    ASSUME NEW n \in Nat, NEW s, StoreOK(s, n), NEW l \in Layers
    PROVE  /\ Quiet(s, MaybeEvict(s, l), n)
           /\ \A x \in Tiers : Gap(MaybeEvict(s, l), x) = Gap(s, x)
           /\ ~HasTensors(MaybeEvict(s, l), l) /\ MaybeEvict(s, l).files = s.files
<1> DEFINE u == IF settings.tiering THEN Offload(s, l) ELSE s
           w == Compress(u, l)
<1>1. Quiet(s, u, n) /\ u.files = s.files /\ \A x \in Tiers : Gap(u, x) = Gap(s, x)
  <2>1. CASE settings.tiering
    BY <2>1, OffloadQuiet
  <2>2. CASE ~settings.tiering
    BY <2>2 DEF Quiet
  <2> QED
    BY <2>1, <2>2
<1> HIDE DEF u
<1>2. StoreOK(u, n)
  BY <1>1 DEF Quiet
<1>3. /\ Quiet(u, w, n) /\ (\A x \in Tiers : Gap(w, x) = Gap(u, x))
      /\ ~HasTensors(w, l) /\ w.files = u.files
  BY <1>2, CompressQuiet
<1> HIDE DEF w
<1>4. MaybeEvict(s, l) = w
  BY DEF MaybeEvict, w, u
<1>5. Quiet(s, w, n)
  BY <1>1, <1>3, QuietTwice
<1> QED
  BY <1>1, <1>3, <1>4, <1>5

\* A failed write leaves a torn file, and nothing else does.
TornBy(s, u, bad) == \A k \in Layers : u.files[k] = "torn" => s.files[k] = "torn" \/ k \in bad

LEMMA DemoteQuiet ==
    ASSUME NEW n \in Nat, NEW s, StoreOK(s, n), NEW l \in Layers, NEW bad
    PROVE  /\ Quiet(s, Demote(s, l, bad), n)
           /\ Gap(Demote(s, l, bad), "compressed") - Gap(s, "compressed")
                   \in 0..Forgotten(l \in bad, n)
           /\ ~HasTensors(Demote(s, l, bad), l) /\ TornBy(s, Demote(s, l, bad), bad)
<1> DEFINE u == MaybeEvict(s, l)
<1>1. /\ Quiet(s, u, n) /\ (\A x \in Tiers : Gap(u, x) = Gap(s, x))
      /\ ~HasTensors(u, l) /\ u.files = s.files
  BY EvictQuiet
<1>2. Demote(s, l, bad) = IF settings.disk /\ u.entries[l].loc = "compressed"
                          THEN SpillToDisk(u, l, l \in bad) ELSE u
  BY DEF Demote, MaybeEvict
<1> HIDE DEF u
<1>3. /\ StoreOK(u, n) /\ "compressed" \in Tiers
      /\ Gap(s, "compressed") \in Int /\ Gap(u, "compressed") = Gap(s, "compressed")
  BY <1>1, GapInt DEF Quiet, StoreOK, Tiers
<1>4. Forgotten(l \in bad, n) \in Nat
  BY KVConstants, NatTimes DEF Forgotten
<1>5. CASE settings.disk /\ u.entries[l].loc = "compressed"
  <2> DEFINE w == SpillToDisk(u, l, l \in bad)
  <2>1. /\ Quiet(u, w, n)
        /\ Gap(w, "compressed") - Gap(u, "compressed") \in 0..Forgotten(l \in bad, n)
        /\ (HasTensors(w, l) => HasTensors(u, l))
        /\ \A k \in Layers : w.files[k] = "torn" => u.files[k] = "torn" \/ (l \in bad /\ k = l)
    <3> DEFINE fails == l \in bad
    <3>1. fails \in BOOLEAN
      OBVIOUS
    <3> HIDE DEF fails
    <3>2. /\ Quiet(u, SpillToDisk(u, l, fails), n)
          /\ Gap(SpillToDisk(u, l, fails), "compressed") - Gap(u, "compressed") \in 0..Forgotten(fails, n)
          /\ (HasTensors(SpillToDisk(u, l, fails), l) => HasTensors(u, l))
          /\ \A k \in Layers : SpillToDisk(u, l, fails).files[k] = "torn" =>
                 u.files[k] = "torn" \/ (fails /\ k = l)
      BY <1>3, <1>5, <3>1, SpillQuiet
    <3> QED
      BY <3>2 DEF fails
  <2>2. Demote(s, l, bad) = w
    BY <1>2, <1>5
  <2> HIDE DEF w
  <2>3. Quiet(s, w, n)
    BY <1>1, <2>1, QuietTwice
  <2> QED
    BY <1>1, <1>3, <2>1, <2>2, <2>3 DEF TornBy
<1>6. CASE ~(settings.disk /\ u.entries[l].loc = "compressed")
  <2>1. Demote(s, l, bad) = u
    BY <1>2, <1>6
  <2> QED
    BY <1>1, <1>3, <1>4, <2>1 DEF TornBy
<1> QED
  BY <1>5, <1>6

-----------------------------------------------------------------------------
(* The two folds, entry by entry.                                          *)

DeviceStep(u, l) == IF u.bytes["device"] <= settings.budget THEN u ELSE Offload(u, l)

BudgetStep(u, l, bad) ==
    IF Usage(u) <= settings.budget \/ u.entries[l].loc = "disk" THEN u ELSE Demote(u, l, bad)

LEMMA DeviceFold ==
    ASSUME NEW V, NEW s \in V, NEW lru \in Seq(Layers), settings.tiering,
           \A u \in V, l \in Layers : DeviceStep(u, l) \in V
    PROVE  EnforceDeviceBudget(s, lru) \in V
<1> DEFINE n == Len(lru)
           g == [x \in (1..n) \X V |-> DeviceStep(x[2], lru[x[1]])]
           Iter(f) == f = [x \in SUBSET DOMAIN lru |->
                              IF x = {} THEN s
                              ELSE IF f[x \ {Max(x)}].bytes["device"] <= settings.budget
                                   THEN f[x \ {Max(x)}]
                                   ELSE Offload(f[x \ {Max(x)}], lru[Max(x)])]
           iter == CHOOSE f : Iter(f)
<1>1. EnforceDeviceBudget(s, lru) = iter[DOMAIN lru]
  BY Zenon DEF EnforceDeviceBudget, FoldLeft, MapThenFoldSet
<1>2. DOMAIN lru = 1..n /\ n \in Nat /\ \A i \in 1..n : lru[i] \in Layers
  OBVIOUS
<1>3. g \in [(1..n) \X V -> V]
  BY <1>2
<1>4. ASSUME NEW x \in SUBSET (1..n), x # {} PROVE Max(x) \in 1..n
  BY <1>2, <1>4, MaxIn
<1> HIDE DEF n
<1>5. PICK f \in [SUBSET (1..n) -> V] : FoldsBy(f, V, n, s, g)
  BY <1>2, <1>3, FoldExists
<1>6. Iter(f)
  <2>1. ASSUME NEW x \in SUBSET (1..n), x # {}
        PROVE  f[x] = DeviceStep(f[x \ {Max(x)}], lru[Max(x)])
    <3>1. <<Max(x), f[x \ {Max(x)}]>> \in (1..n) \X V
      BY <1>4, <2>1
    <3>2. f[x] = g[<<Max(x), f[x \ {Max(x)}]>>]
      BY <1>5, <2>1, <3>1 DEF FoldsBy
    <3> QED
      BY <3>1, <3>2
  <2>2. f = [x \in SUBSET DOMAIN lru |-> IF x = {} THEN s ELSE DeviceStep(f[x \ {Max(x)}], lru[Max(x)])]
    BY <1>2, <1>5, <2>1 DEF FoldsBy
  <2> HIDE DEF g
  <2> QED
    BY <2>2 DEF DeviceStep
<1> HIDE DEF g
<1>7. Iter(iter)
  <2> HIDE DEF Iter
  <2> QED
    BY <1>6
<1> HIDE DEF iter
<1>8. \A x \in SUBSET (1..n) :
          iter[x] = IF x = {} THEN s ELSE DeviceStep(iter[x \ {Max(x)}], lru[Max(x)])
  BY <1>2, <1>7 DEF DeviceStep
<1> HIDE DEF Iter
<1>9. ASSUME NEW x \in SUBSET (1..n), x # {}, iter[x \ {Max(x)}] \in V
      PROVE  iter[x] = g[<<Max(x), iter[x \ {Max(x)}]>>]
  <2>1. <<Max(x), iter[x \ {Max(x)}]>> \in (1..n) \X V
    BY <1>4, <1>9
  <2> QED
    BY <1>8, <1>9, <2>1 DEF g
<1>10. FoldsBy(iter, V, n, s, g)
  BY <1>8, <1>9 DEF FoldsBy
<1>11. PICK h \in [0..n -> V] : StepsTo(iter[1..n], h, n, s, g)
  BY <1>2, <1>3, <1>10, FoldSteps
<1> QED
  BY <1>1, <1>2, <1>11 DEF StepsTo

\* Its steps, up to its result.
BudgetSteps(h, s, lru, bad) ==
    /\ h[0] = s /\ \A i \in 1..Len(lru) : h[i] = BudgetStep(h[i - 1], lru[i], bad)
    /\ EnforceBudget(s, lru, bad) = h[Len(lru)]

LEMMA BudgetFold ==
    ASSUME NEW V, NEW s \in V, NEW lru \in Seq(Layers), NEW bad,
           \A u \in V, l \in Layers : BudgetStep(u, l, bad) \in V
    PROVE  \E h \in [0..Len(lru) -> V] : BudgetSteps(h, s, lru, bad)
<1> DEFINE n == Len(lru)
           g == [x \in (1..n) \X V |-> BudgetStep(x[2], lru[x[1]], bad)]
           Iter(f) == f = [x \in SUBSET DOMAIN lru |->
                              IF x = {} THEN s
                              ELSE IF Usage(f[x \ {Max(x)}]) <= settings.budget
                                      \/ f[x \ {Max(x)}].entries[lru[Max(x)]].loc = "disk"
                                   THEN f[x \ {Max(x)}]
                                   ELSE Demote(f[x \ {Max(x)}], lru[Max(x)], bad)]
           iter == CHOOSE f : Iter(f)
<1>1. EnforceBudget(s, lru, bad) = iter[DOMAIN lru]
  BY Zenon DEF EnforceBudget, FoldLeft, MapThenFoldSet
<1>2. DOMAIN lru = 1..n /\ n \in Nat /\ \A i \in 1..n : lru[i] \in Layers
  OBVIOUS
<1>3. g \in [(1..n) \X V -> V]
  BY <1>2
<1>4. ASSUME NEW x \in SUBSET (1..n), x # {} PROVE Max(x) \in 1..n
  BY <1>2, <1>4, MaxIn
<1> HIDE DEF n
<1>5. PICK f \in [SUBSET (1..n) -> V] : FoldsBy(f, V, n, s, g)
  BY <1>2, <1>3, FoldExists
<1>6. Iter(f)
  <2>1. ASSUME NEW x \in SUBSET (1..n), x # {}
        PROVE  f[x] = BudgetStep(f[x \ {Max(x)}], lru[Max(x)], bad)
    <3>1. <<Max(x), f[x \ {Max(x)}]>> \in (1..n) \X V
      BY <1>4, <2>1
    <3>2. f[x] = g[<<Max(x), f[x \ {Max(x)}]>>]
      BY <1>5, <2>1, <3>1 DEF FoldsBy
    <3> QED
      BY <3>1, <3>2
  <2>2. f = [x \in SUBSET DOMAIN lru |->
                IF x = {} THEN s ELSE BudgetStep(f[x \ {Max(x)}], lru[Max(x)], bad)]
    BY <1>2, <1>5, <2>1 DEF FoldsBy
  <2> HIDE DEF g
  <2> QED
    BY <2>2 DEF BudgetStep
<1> HIDE DEF g
<1>7. Iter(iter)
  <2> HIDE DEF Iter
  <2> QED
    BY <1>6
<1> HIDE DEF iter
<1>8. \A x \in SUBSET (1..n) :
          iter[x] = IF x = {} THEN s ELSE BudgetStep(iter[x \ {Max(x)}], lru[Max(x)], bad)
  BY <1>2, <1>7 DEF BudgetStep
<1> HIDE DEF Iter
<1>9. ASSUME NEW x \in SUBSET (1..n), x # {}, iter[x \ {Max(x)}] \in V
      PROVE  iter[x] = g[<<Max(x), iter[x \ {Max(x)}]>>]
  <2>1. <<Max(x), iter[x \ {Max(x)}]>> \in (1..n) \X V
    BY <1>4, <1>9
  <2> QED
    BY <1>8, <1>9, <2>1 DEF g
<1>10. FoldsBy(iter, V, n, s, g)
  BY <1>8, <1>9 DEF FoldsBy
<1>11. PICK h \in [0..n -> V] : StepsTo(iter[1..n], h, n, s, g)
  BY <1>2, <1>3, <1>10, FoldSteps
<1>12. ASSUME NEW i \in 1..n PROVE h[i] = BudgetStep(h[i - 1], lru[i], bad)
  <2>1. i - 1 \in 0..n
    BY <1>2
  <2>2. h[i] = g[<<i, h[i - 1]>>] /\ <<i, h[i - 1]>> \in (1..n) \X V
    BY <1>11, <2>1 DEF StepsTo
  <2> QED
    BY <2>2 DEF g
<1>13. h[0] = s /\ EnforceBudget(s, lru, bad) = h[n]
  BY <1>1, <1>2, <1>11 DEF StepsTo
<1> QED
  BY <1>12, <1>13 DEF n, BudgetSteps

\* Within the budget nothing is done.
LEMMA DeviceSame ==
    ASSUME NEW s, NEW lru \in Seq(Layers), s.bytes["device"] <= settings.budget
    PROVE  EnforceDeviceBudget(s, lru) = s
<1>1. CASE settings.tiering
  <2>1. \A u \in {s}, l \in Layers : DeviceStep(u, l) \in {s}
    BY DEF DeviceStep
  <2>2. s \in {s}
    OBVIOUS
  <2>3. EnforceDeviceBudget(s, lru) \in {s}
    BY <1>1, <2>1, <2>2, DeviceFold
  <2> QED
    BY <2>3
<1>2. CASE ~settings.tiering
  BY <1>2 DEF EnforceDeviceBudget
<1> QED
  BY <1>1, <1>2

LEMMA BudgetSame ==
    ASSUME NEW s, NEW lru \in Seq(Layers), NEW bad, Usage(s) <= settings.budget
    PROVE  EnforceBudget(s, lru, bad) = s
<1> DEFINE V == {s}
<1>1. s \in V /\ \A u \in V, l \in Layers : BudgetStep(u, l, bad) \in V
  BY DEF BudgetStep
<1> HIDE DEF V
<1>2. PICK h \in [0..Len(lru) -> V] : BudgetSteps(h, s, lru, bad)
  BY <1>1, BudgetFold
<1>3. Len(lru) \in 0..Len(lru)
  OBVIOUS
<1>4. EnforceBudget(s, lru, bad) \in V
  BY <1>2, <1>3 DEF BudgetSteps
<1> QED
  BY <1>4 DEF V

LEMMA DeviceQuiet ==
    ASSUME NEW n \in Nat, NEW s, StoreOK(s, n), NEW lru \in Seq(Layers)
    PROVE  /\ Quiet(s, EnforceDeviceBudget(s, lru), n)
           /\ \A x \in Tiers : Gap(EnforceDeviceBudget(s, lru), x) = Gap(s, x)
           /\ EnforceDeviceBudget(s, lru).files = s.files
<1> DEFINE Even(u) == Quiet(s, u, n) /\ u.files = s.files /\ \A x \in Tiers : Gap(u, x) = Gap(s, x)
           V == {u \in Stores : Even(u)}
<1>1. s \in V
  BY DEF Quiet, StoreOK
<1>2. CASE settings.tiering
  <2>1. ASSUME NEW u \in V, NEW l \in Layers PROVE DeviceStep(u, l) \in V
    <3>1. CASE u.bytes["device"] <= settings.budget
      BY <3>1 DEF DeviceStep
    <3>2. CASE ~(u.bytes["device"] <= settings.budget)
      <4> DEFINE w == Offload(u, l)
      <4>1. StoreOK(u, n)
        BY DEF Quiet
      <4>2. Quiet(u, w, n) /\ w.files = u.files /\ \A x \in Tiers : Gap(w, x) = Gap(u, x)
        BY <4>1, OffloadQuiet
      <4> HIDE DEF w
      <4>3. Quiet(s, w, n)
        BY <4>2, QuietTwice
      <4>4. w \in Stores
        BY <4>3 DEF Quiet, StoreOK
      <4>5. DeviceStep(u, l) = w
        BY <3>2 DEF DeviceStep, w
      <4> QED
        BY <4>2, <4>3, <4>4, <4>5
    <3> QED
      BY <3>1, <3>2
  <2> HIDE DEF V
  <2>2. EnforceDeviceBudget(s, lru) \in V
    BY <1>1, <1>2, <2>1, DeviceFold
  <2> QED
    BY <2>2 DEF V
<1>3. CASE ~settings.tiering
  BY <1>1, <1>3 DEF EnforceDeviceBudget
<1> QED
  BY <1>2, <1>3

\* After the entry just used had its turn, it is the only one that may be left as
\* tensors, and only within the budget.
LEMMA BudgetQuiet ==
    ASSUME NEW n \in Nat, NEW s, StoreOK(s, n), NEW lru \in Seq(Layers), IsInjective(lru),
           NEW bad, \A x, y \in bad : x = y,
           NEW l \in Layers, Len(lru) > 0, lru[Len(lru)] = l,
           \A k \in Layers \ {l} : ~HasTensors(s, k)
    PROVE  /\ Quiet(s, EnforceBudget(s, lru, bad), n)
           /\ Gap(EnforceBudget(s, lru, bad), "compressed") - Gap(s, "compressed")
                   \in 0..Forgotten(bad # {}, n)
           /\ \A k \in Layers : HasTensors(EnforceBudget(s, lru, bad), k) =>
                  k = l /\ Usage(EnforceBudget(s, lru, bad)) <= settings.budget
           /\ TornBy(s, EnforceBudget(s, lru, bad), bad)
<1> DEFINE V == {u \in Stores : Quiet(s, u, n) /\ TornBy(s, u, bad)}
           m == Len(lru)
<1>1. s \in V /\ m \in Nat /\ \A i \in 1..m : lru[i] \in Layers
  BY DEF Quiet, StoreOK, TornBy
<1>2. ASSUME NEW u \in V, NEW k \in Layers
      PROVE  /\ BudgetStep(u, k, bad) \in V
             /\ Gap(BudgetStep(u, k, bad), "compressed") - Gap(u, "compressed")
                     \in 0..Forgotten(k \in bad, n)
             /\ HasTensors(BudgetStep(u, k, bad), k) =>
                    BudgetStep(u, k, bad) = u /\ Usage(u) <= settings.budget
  <2> DEFINE w == BudgetStep(u, k, bad)
  <2>1. StoreOK(u, n) /\ Gap(u, "compressed") \in Int
    BY GapInt DEF Quiet, Tiers
  <2>2. CASE Usage(u) <= settings.budget \/ u.entries[k].loc = "disk"
    <3>1. w = u
      BY <2>2 DEF BudgetStep
    <3>2. Forgotten(k \in bad, n) \in Nat
      BY KVConstants, NatTimes DEF Forgotten
    <3>3. u.entries[k].loc = "disk" => ~HasTensors(u, k)
      BY DEF HasTensors
    <3> HIDE DEF w
    <3> QED
      BY <2>1, <2>2, <3>1, <3>2, <3>3 DEF w
  <2>3. CASE ~(Usage(u) <= settings.budget \/ u.entries[k].loc = "disk")
    <3>1. w = Demote(u, k, bad)
      BY <2>3 DEF BudgetStep
    <3> HIDE DEF w
    <3>2. /\ Quiet(u, w, n) /\ ~HasTensors(w, k) /\ TornBy(u, w, bad)
          /\ Gap(w, "compressed") - Gap(u, "compressed") \in 0..Forgotten(k \in bad, n)
      BY <2>1, <3>1, DemoteQuiet
    <3>3. Quiet(s, w, n) /\ TornBy(s, w, bad)
      BY <3>2, QuietTwice DEF TornBy
    <3>4. w \in Stores
      BY <3>3 DEF Quiet, StoreOK
    <3> QED
      BY <3>2, <3>3, <3>4 DEF w
  <2> QED
    BY <2>2, <2>3
<1> HIDE DEF V
<1>3. PICK h \in [0..m -> V] :
          /\ h[0] = s /\ \A i \in 1..m : h[i] = BudgetStep(h[i - 1], lru[i], bad)
          /\ EnforceBudget(s, lru, bad) = h[m]
  <2>1. \A u \in V, k \in Layers : BudgetStep(u, k, bad) \in V
    BY <1>2
  <2>2. \E h \in [0..Len(lru) -> V] : BudgetSteps(h, s, lru, bad)
    BY <1>1, <2>1, BudgetFold
  <2> QED
    BY <2>2 DEF BudgetSteps
<1> DEFINE Hit(i) == \E j \in 1..i : lru[j] \in bad
           G(i) == Gap(h[i], "compressed")
           M == {i \in Nat : i <= m => G(i) - G(0) \in 0..Forgotten(Hit(i), n)}
<1>4. \A i \in 0..m : G(i) \in Int
  <2>1. \A i \in 0..m : h[i] \in Stores
    BY <1>3 DEF V
  <2> QED
    BY <2>1, GapInt DEF Tiers
<1>5. \A B \in BOOLEAN : Forgotten(B, n) \in Nat
  BY KVConstants, NatTimes DEF Forgotten
<1>6. 0 \in M
  <2>1. G(0) \in Int /\ ~Hit(0)
    BY <1>1, <1>4
  <2>2. Forgotten(Hit(0), n) = 0
    BY <2>1 DEF Forgotten
  <2> HIDE DEF G, Hit
  <2> QED
    BY <2>1, <2>2
<1>7. ASSUME NEW i \in M PROVE i + 1 \in M
  <2>1. SUFFICES ASSUME i + 1 <= m PROVE G(i + 1) - G(0) \in 0..Forgotten(Hit(i + 1), n)
    OBVIOUS
  <2>2. i \in 0..m /\ i + 1 \in 1..m /\ i + 1 \in 0..m /\ (i + 1) - 1 = i /\ 0 \in 0..m
    BY <1>1, <2>1
  <2>3. h[i] \in V /\ lru[i + 1] \in Layers /\ h[i + 1] = BudgetStep(h[i], lru[i + 1], bad)
    BY <1>1, <1>3, <2>2
  <2>4. G(i + 1) - G(i) \in 0..Forgotten(lru[i + 1] \in bad, n)
    BY <1>2, <2>3
  <2>5. G(i) - G(0) \in 0..Forgotten(Hit(i), n)
    BY <2>1
  <2>6. G(i) \in Int /\ G(i + 1) \in Int /\ G(0) \in Int
    BY <1>4, <2>2
  <2> HIDE DEF G
  <2>7. CASE lru[i + 1] \in bad
    <3>1. ~Hit(i)
      <4>1. \A j \in 1..i : lru[j] # lru[i + 1]
        BY <1>1, <2>2 DEF IsInjective
      <4> QED
        BY <2>7, <4>1
    <3>2. Hit(i + 1)
      BY <2>2, <2>7
    <3>3. Forgotten(Hit(i), n) = 0 /\ Forgotten(Hit(i + 1), n) = Forgotten(lru[i + 1] \in bad, n)
      BY <2>7, <3>1, <3>2 DEF Forgotten
    <3> HIDE DEF Hit
    <3> QED
      BY <2>4, <2>5, <2>6, <3>3
  <2>8. CASE lru[i + 1] \notin bad
    <3>1. Hit(i + 1) <=> Hit(i)
      <4>1. \A j \in 1..(i + 1) : j \in 1..i \/ j = i + 1
        BY <2>2
      <4>2. \A j \in 1..i : j \in 1..(i + 1)
        BY <2>2
      <4> QED
        BY <2>8, <4>1, <4>2
    <3>2. Forgotten(lru[i + 1] \in bad, n) = 0 /\ Forgotten(Hit(i + 1), n) = Forgotten(Hit(i), n)
      BY <2>8, <3>1 DEF Forgotten
    <3> HIDE DEF Hit
    <3> QED
      BY <2>4, <2>5, <2>6, <3>2
  <2> QED
    BY <2>7, <2>8
<1>8. G(m) - G(0) \in 0..Forgotten(Hit(m), n)
  <2> HIDE DEF M
  <2>1. m \in M
    BY <1>1, <1>6, <1>7, NatSet
  <2> QED
    BY <1>1, <2>1 DEF M
<1>9. G(m) - G(0) \in 0..Forgotten(bad # {}, n)
  <2>1. Hit(m) => bad # {}
    OBVIOUS
  <2>2. n * PackedBytes \in Nat
    BY KVConstants, NatTimes
  <2>3. Forgotten(Hit(m), n) <= Forgotten(bad # {}, n) /\ Forgotten(Hit(m), n) \in Nat
    BY <2>1, <2>2 DEF Forgotten
  <2>4. G(m) \in Int /\ G(0) \in Int
    BY <1>1, <1>4
  <2>5. Forgotten(bad # {}, n) \in Nat
    BY <2>2 DEF Forgotten
  <2> HIDE DEF G, Hit
  <2> QED
    BY <1>8, <2>3, <2>4, <2>5
<1>10. m \in 1..m /\ m - 1 \in 0..m /\ m \in 0..m
  BY <1>1
<1>11. h[m] = BudgetStep(h[m - 1], l, bad) /\ h[m] \in V /\ h[m - 1] \in V
  BY <1>3, <1>10
<1>12. Quiet(s, h[m], n) /\ TornBy(s, h[m], bad)
  BY <1>11 DEF V
<1>13. ASSUME NEW k \in Layers, HasTensors(h[m], k)
       PROVE  k = l /\ Usage(h[m]) <= settings.budget
  <2>1. HasTensors(s, k)
    BY <1>12, <1>13 DEF Quiet
  <2>2. k = l
    BY <2>1
  <2>3. h[m] = h[m - 1] /\ Usage(h[m - 1]) <= settings.budget
    BY <1>2, <1>11, <1>13, <2>2
  <2> QED
    BY <2>2, <2>3
<1> QED
  BY <1>3, <1>9, <1>12, <1>13

-----------------------------------------------------------------------------
(* The manager's operations.                                               *)

\* What a sequence lists from some position on.
Listed(at, a, n) == {at[j] : j \in a..n}

LEMMA TailSize ==
    ASSUME NEW S, NEW n \in Nat, NEW at \in [1..n -> S], IsInjective(at), NEW a \in 1..(n + 1)
    PROVE  Cardinality(Listed(at, a, n)) = n - a + 1
<1> DEFINE T == {at[j] : j \in a..n}
           b == [j \in a..n |-> at[j]]
<1>1. IsFiniteSet(a..n) /\ Cardinality(a..n) = n - a + 1
  <2>1. a \in Int /\ n \in Int
    OBVIOUS
  <2>2. IsFiniteSet(a..n) /\ Cardinality(a..n) = IF a > n THEN 0 ELSE n - a + 1
    BY <2>1, FS_Interval
  <2> QED
    BY <2>2
<1>2. \A j \in a..n : j \in 1..n
  OBVIOUS
<1>3. b \in Bijection(a..n, T)
  <2>1. b \in [a..n -> T]
    OBVIOUS
  <2>2. IsInjective(b)
    BY <1>2 DEF IsInjective
  <2>3. \A t \in T : \E j \in a..n : b[j] = t
    OBVIOUS
  <2> QED
    BY <2>1, <2>2, <2>3 DEF Bijection, Injection, Surjection
<1>4. ExistsBijection(a..n, T)
  BY <1>3 DEF ExistsBijection
<1> QED
  BY <1>1, <1>4, FS_Bijection DEF Listed

\* What a window keeps: the newest positions, as many as compress() records.
LEMMA TrimSize ==
    ASSUME NEW K \in SUBSET Positions, settings.window \in Nat
    PROVE  Trim(K) \subseteq K /\ Cardinality(Trim(K)) = ColdLength(Cardinality(K))
<1> DEFINE n == Cardinality(K)
           w == settings.window
           at == Ascending(K)
<1>1. K \in SUBSET Nat /\ IsFiniteSet(K) /\ n \in Nat
  BY TokensCount, KVConstants DEF Positions
<1>2. CASE w = 0
  BY <1>2 DEF Trim, ColdLength
<1>3. CASE w # 0
  <2>1. /\ at \in Seq(K) /\ Len(at) = n /\ IsInjective(at) /\ Range(at) = K
        /\ \A i, j \in 1..n : i < j => at[i] < at[j]
    BY <1>1, AscendingLemma
  <2> HIDE DEF at
  <2>2. at \in [1..n -> K] /\ K = {at[j] : j \in 1..n}
    BY <1>1, <2>1 DEF Range
  <2> DEFINE Above(q) == {x \in K : x > q}
  <2> HIDE DEF n, w
  <2>10. ASSUME NEW a \in 1..(n + 1) PROVE Cardinality(Listed(at, a, n)) = n - a + 1
    <3>1. at \in [1..n -> K] /\ IsInjective(at) /\ n \in Nat
      BY <1>1, <2>1, <2>2
    <3> QED
      BY <3>1, TailSize
  <2>3. ASSUME NEW i \in 1..n PROVE Cardinality(Above(at[i])) = n - i
    <3>1. Above(at[i]) = Listed(at, i + 1, n)
      <4>1. \A j \in 1..n : at[j] \in Nat
        BY <1>1, <2>2
      <4>2. ASSUME NEW j \in 1..n PROVE at[j] > at[i] <=> j \in (i + 1)..n
        <5>1. at[j] \in Nat /\ at[i] \in Nat /\ n \in Nat
          BY <1>1, <4>1
        <5>2. (j < i => at[j] < at[i]) /\ (i < j => at[i] < at[j])
          BY <2>1
        <5>3. j < i \/ j = i \/ i < j
          OBVIOUS
        <5> QED
          BY <5>1, <5>2, <5>3
      <4>3. \A j \in (i + 1)..n : j \in 1..n
        BY <1>1
      <4> QED
        BY <2>2, <4>2, <4>3 DEF Listed
    <3>2. i + 1 \in 1..(n + 1) /\ n - (i + 1) + 1 = n - i
      BY <1>1
    <3> HIDE DEF Above
    <3> QED
      BY <2>10, <3>1, <3>2
  <2>4. Trim(K) = {x \in K : Cardinality(Above(x)) < w}
    BY <1>3 DEF Trim, w
  <2> HIDE DEF Above
  <2> DEFINE a == IF w < n THEN n - w + 1 ELSE 1
  <2>5. w \in Nat /\ w > 0
    BY <1>3 DEF w
  <2>6. a \in 1..(n + 1) /\ \A i \in 1..n : n - i < w <=> i \in a..n
    BY <1>1, <2>5
  <2>7. Trim(K) = Listed(at, a, n)
    <3>1. \A j \in a..n : j \in 1..n
      BY <1>1, <2>6
    <3> HIDE DEF a
    <3>2. \A j \in 1..n : at[j] \in Trim(K) <=> j \in a..n
      BY <2>2, <2>3, <2>4, <2>6
    <3>3. \A x \in Trim(K) : x \in K
      BY <2>4
    <3> QED
      BY <2>2, <3>1, <3>2, <3>3 DEF Listed
  <2>8. Cardinality(Trim(K)) = n - a + 1
    <3> HIDE DEF a
    <3> QED
      BY <2>6, <2>7, <2>10
  <2>9. n - a + 1 = ColdLength(n)
    BY <1>1, <2>5 DEF ColdLength, w
  <2> QED
    BY <2>4, <2>8, <2>9 DEF n
<1> QED
  BY <1>2, <1>3

\* The layer just used comes last.
LEMMA TouchOK ==
    ASSUME order \in Seq(Layers), IsInjective(order), NEW l \in Layers
    PROVE  /\ Touch(l) \in Seq(Layers) /\ IsInjective(Touch(l))
           /\ Len(Touch(l)) > 0 /\ Touch(l)[Len(Touch(l))] = l
<1> DEFINE a == Kept(order, Layers \ {l})
<1>1. a \in Seq(Layers) /\ Range(a) = Range(order) \cap (Layers \ {l}) /\ IsInjective(a)
  BY KeptLemma
<1>2. Touch(l) = Append(a, l)
  BY DEF Touch
<1> HIDE DEF a
<1>3. /\ Append(a, l) \in Seq(Layers) /\ Len(Append(a, l)) = Len(a) + 1
      /\ Append(a, l)[Len(a) + 1] = l /\ \A i \in 1..Len(a) : Append(a, l)[i] = a[i]
  BY <1>1
<1>4. \A i \in 1..Len(a) : a[i] # l
  BY <1>1 DEF Range
<1>5. \A i, j \in 1..Len(a) : a[i] = a[j] => i = j
  BY <1>1 DEF IsInjective
<1>6. Len(a) \in Nat /\ DOMAIN Append(a, l) = 1..(Len(a) + 1)
  BY <1>1
<1>7. ASSUME NEW i \in 1..(Len(a) + 1), NEW j \in 1..(Len(a) + 1),
             Append(a, l)[i] = Append(a, l)[j]
      PROVE  i = j
  <2>1. /\ i \in 1..Len(a) \/ i = Len(a) + 1
        /\ j \in 1..Len(a) \/ j = Len(a) + 1
    BY <1>6
  <2> QED
    BY <1>3, <1>4, <1>5, <1>7, <2>1
<1>8. IsInjective(Append(a, l))
  BY <1>6, <1>7 DEF IsInjective
<1> QED
  BY <1>2, <1>3, <1>6, <1>8

\* A new entry.
LEMMA StoredOK ==
    ASSUME NEW n \in Nat, n <= MaxPos, StoreOK(manager, n), NEW l \in Layers,
           NEW K \in SUBSET (1..n)
    PROVE  /\ StoreOK(Stored(l, K), n)
           /\ Stored(l, K).entries[l].kv = K
           /\ \A k \in Layers \ {l} : Stored(l, K).entries[k] = manager.entries[k]
           /\ \A t \in Tiers : Gap(Stored(l, K), t) = Gap(manager, t)
           /\ TornBy(manager, Stored(l, K), {})
<1> DEFINE e == [loc |-> IF Accelerator /\ ~settings.int4 THEN "device" ELSE "host", kv |-> K]
           F == Unlinked(manager, {l})
           u == [entries |-> [manager.entries EXCEPT ![l] = e],
                 bytes |-> Charge(Charge(manager.bytes, manager.entries[l], -1), e, 1),
                 files |-> F]
<1>1. manager \in Stores /\ manager.files \in [Layers -> FileStates]
  BY DEF StoreOK, Stores
<1>2. /\ e \in Entries /\ e.kv = K /\ e.loc \in {"device", "host"}
      /\ (settings.int4 => e.loc = "host")
  BY KVConstants DEF Entries, Tiers, Positions
<1>3. Stored(l, K) = u
  <2>1. Stored(l, K) = [manager EXCEPT
                            !.entries = [manager.entries EXCEPT ![l] = e],
                            !.bytes = Charge(Charge(manager.bytes, manager.entries[l], -1), e, 1),
                            !.files = F]
    BY Zenon DEF Stored
  <2> HIDE DEF e, F
  <2> QED
    BY <1>1, <2>1 DEF Stores
<1> HIDE DEF e
<1>4. /\ F \in [Layers -> FileStates] /\ F[l] # "whole"
      /\ \A k \in Layers \ {l} : F[k] = manager.files[k]
      /\ \A k \in Layers : F[k] = "torn" => manager.files[k] = "torn"
  BY <1>1 DEF Unlinked, FileStates, StoreOK, FilesRight
<1>5. Replaced(manager, u, l, e)
  <2> HIDE DEF F
  <2> QED
    BY <1>1, <1>2, <1>4, ReplaceOK
<1>6. u.files = F
  OBVIOUS
<1> HIDE DEF u, F
<1>7. manager.entries \in [Layers -> Entries]
  BY <1>1 DEF Stores
<1>8. /\ u \in Stores /\ u.entries[l] = e
      /\ \A k \in Layers \ {l} : u.entries[k] = manager.entries[k]
      /\ \A t \in Tiers : Gap(u, t) = Gap(manager, t)
  BY <1>5, <1>7 DEF Replaced
<1>9. FilesRight(u)
  BY <1>2, <1>4, <1>6, <1>8 DEF StoreOK, FilesRight
<1>10. StoreOK(u, n)
  BY <1>2, <1>6, <1>8, <1>9 DEF StoreOK
<1> QED
  BY <1>2, <1>3, <1>4, <1>6, <1>8, <1>10 DEF TornBy

\* At most one failure, and what it leaves: uncounted, and on the disk.
OneAtMost(bad) == \A x, y \in bad : x = y
Grown(s, u, bad, n) ==
    /\ \A t \in Tiers : Gap(u, t) - Gap(s, t) \in 0..Forgotten(bad # {}, n)
    /\ TornBy(s, u, bad)

LEMMA EnforceBoth ==
    ASSUME NEW n \in Nat, NEW s, StoreOK(s, n), order \in Seq(Layers), IsInjective(order),
           NEW bad, OneAtMost(bad), NEW l \in Layers, \A k \in Layers \ {l} : ~HasTensors(s, k),
           NEW u, u = s \/ u = EnforceDeviceBudget(s, Touch(l))
    PROVE  /\ Quiet(s, EnforceBudget(u, Touch(l), bad), n)
           /\ Grown(s, EnforceBudget(u, Touch(l), bad), bad, n)
           /\ \A k \in Layers : HasTensors(EnforceBudget(u, Touch(l), bad), k) =>
                  k = l /\ Usage(EnforceBudget(u, Touch(l), bad)) <= settings.budget
<1> DEFINE lru == Touch(l)
           w == EnforceBudget(u, lru, bad)
<1>1. lru \in Seq(Layers) /\ IsInjective(lru) /\ Len(lru) > 0 /\ lru[Len(lru)] = l
  BY TouchOK
<1>2. Quiet(s, u, n) /\ u.files = s.files /\ \A x \in Tiers : Gap(u, x) = Gap(s, x)
  <2>1. CASE u = s
    BY <2>1 DEF Quiet
  <2>2. CASE u = EnforceDeviceBudget(s, Touch(l))
    BY <1>1, <2>2, DeviceQuiet
  <2> QED
    BY <2>1, <2>2
<1> HIDE DEF lru
<1>3. StoreOK(u, n) /\ \A k \in Layers \ {l} : ~HasTensors(u, k)
  BY <1>2 DEF Quiet
<1>4. /\ Quiet(u, w, n)
      /\ Gap(w, "compressed") - Gap(u, "compressed") \in 0..Forgotten(bad # {}, n)
      /\ \A k \in Layers : HasTensors(w, k) => k = l /\ Usage(w) <= settings.budget
      /\ TornBy(u, w, bad)
  <2>1. \A x, y \in bad : x = y
    BY DEF OneAtMost
  <2> QED
    BY <1>1, <1>3, <2>1, BudgetQuiet
<1> HIDE DEF w
<1>5. Quiet(s, w, n)
  BY <1>2, <1>4, QuietTwice
<1>6. Forgotten(bad # {}, n) \in Nat
  BY KVConstants, NatTimes DEF Forgotten
<1>7. Grown(s, w, bad, n)
  <2>1. \A t \in Tiers : Gap(s, t) \in Int
    BY GapInt DEF StoreOK
  <2>2. \A t \in Tiers : t # "compressed" => Gap(w, t) = Gap(u, t)
    BY <1>4 DEF Quiet
  <2> QED
    BY <1>2, <1>4, <1>6, <2>1, <2>2 DEF Grown, TornBy
<1> QED
  BY <1>4, <1>5, <1>7 DEF w, lru

\* compress_layer()'s calls of the manager.
LEMMA PutOK ==
    ASSUME NEW n \in Nat, n <= MaxPos, StoreOK(manager, n), order \in Seq(Layers), IsInjective(order),
           settings.window \in Nat, NEW l \in Layers, NEW K \in SUBSET (1..n), NEW bad, OneAtMost(bad),
           \A k \in Layers \ {l} : ~HasTensors(manager, k)
    PROVE  /\ StoreOK(MaybeEvict(Put(l, K, bad), l), n)
           /\ \A k \in Layers : ~HasTensors(MaybeEvict(Put(l, K, bad), l), k)
           /\ MaybeEvict(Put(l, K, bad), l).entries[l].kv = Trim(K)
           /\ \A k \in Layers \ {l} :
                  MaybeEvict(Put(l, K, bad), l).entries[k].kv = manager.entries[k].kv
           /\ Grown(manager, MaybeEvict(Put(l, K, bad), l), bad, n)
<1> DEFINE s == Stored(l, Trim(K))
           a == IF settings.int4 THEN s ELSE EnforceDeviceBudget(s, Touch(l))
           u == EnforceBudget(a, Touch(l), bad)
           w == MaybeEvict(u, l)
<1>1. Trim(K) \in SUBSET (1..n)
  <2>1. K \in SUBSET Positions
    BY KVConstants DEF Positions
  <2> QED
    BY <2>1, TrimSize
<1>2. /\ StoreOK(s, n) /\ s.entries[l].kv = Trim(K)
      /\ \A k \in Layers \ {l} : s.entries[k] = manager.entries[k]
      /\ \A t \in Tiers : Gap(s, t) = Gap(manager, t)
      /\ TornBy(manager, s, {})
  BY <1>1, StoredOK
<1>3. Put(l, K, bad) = u
  BY DEF Put
<1> HIDE DEF s
<1>4. a = s \/ a = EnforceDeviceBudget(s, Touch(l))
  OBVIOUS
<1> HIDE DEF a
<1>5. \A k \in Layers \ {l} : ~HasTensors(s, k)
  BY <1>2 DEF HasTensors
<1>6. Quiet(s, u, n) /\ Grown(s, u, bad, n) /\ \A k \in Layers : HasTensors(u, k) => k = l
  BY <1>2, <1>4, <1>5, EnforceBoth
<1> HIDE DEF u
<1>7. /\ Quiet(u, w, n) /\ (\A x \in Tiers : Gap(w, x) = Gap(u, x))
      /\ ~HasTensors(w, l) /\ w.files = u.files
  BY <1>6, EvictQuiet DEF Quiet
<1> HIDE DEF w
<1>8. StoreOK(w, n) /\ \A k \in Layers : ~HasTensors(w, k)
  BY <1>6, <1>7 DEF Quiet
<1>9. \A k \in Layers : w.entries[k].kv = s.entries[k].kv
  BY <1>6, <1>7 DEF Quiet
<1>10. Grown(manager, w, bad, n)
  BY <1>2, <1>6, <1>7 DEF Grown, TornBy
<1>11. MaybeEvict(Put(l, K, bad), l) = w
  BY <1>3 DEF w
<1> QED
  BY <1>2, <1>8, <1>9, <1>10, <1>11

\* get()'s entry on its way up, before the budgets.
Lifted(l, loadFails) ==
    LET loaded == IF manager.entries[l].loc = "disk" /\ ~loadFails
                  THEN LoadFromDisk(manager, l) ELSE manager
    IN  IF loaded.entries[l].loc = "compressed" THEN Relocate(loaded, l, "host") ELSE loaded

LEMMA LiftedOK ==
    ASSUME NEW n \in Nat, StoreOK(manager, n), NEW l \in Layers, NEW loadFails \in BOOLEAN,
           ~settings.int4, ~HasTensors(manager, l)
    PROVE  /\ StoreOK(Lifted(l, loadFails), n)
           /\ \A k \in Layers : Lifted(l, loadFails).entries[k].kv = manager.entries[k].kv
           /\ \A k \in Layers \ {l} : Lifted(l, loadFails).entries[k] = manager.entries[k]
           /\ \A t \in Tiers : Gap(Lifted(l, loadFails), t) = Gap(manager, t)
           /\ TornBy(manager, Lifted(l, loadFails), {})
           /\ \/ Lifted(l, loadFails).entries[l].loc = "host"
              \/ Lifted(l, loadFails).entries[l].loc = "disk" /\ loadFails
              \/ Lifted(l, loadFails).entries[l].loc = "none"
<1> DEFINE loaded == IF manager.entries[l].loc = "disk" /\ ~loadFails
                     THEN LoadFromDisk(manager, l) ELSE manager
           u == IF loaded.entries[l].loc = "compressed" THEN Relocate(loaded, l, "host") ELSE loaded
<1>1. manager \in Stores /\ manager.entries[l].loc \in {"none", "compressed", "disk"}
  BY DEF StoreOK, Stores, Entries, Tiers, HasTensors
<1>2. /\ StoreOK(loaded, n)
      /\ \A k \in Layers : loaded.entries[k].kv = manager.entries[k].kv
      /\ \A k \in Layers \ {l} : loaded.entries[k] = manager.entries[k]
      /\ \A t \in Tiers : Gap(loaded, t) = Gap(manager, t)
      /\ TornBy(manager, loaded, {})
      /\ loaded.entries[l].loc \in {"none", "compressed"} \/ (loaded.entries[l].loc = "disk" /\ loadFails)
  <2>1. CASE manager.entries[l].loc = "disk" /\ ~loadFails
    <3> DEFINE v == Relocate(manager, l, "compressed")
               x == [v EXCEPT !.files[l] = "none"]
    <3>1. loaded = x
      BY Zenon, <2>1 DEF LoadFromDisk
    <3>2. /\ v \in Stores /\ v.files = manager.files /\ v.entries[l].loc = "compressed"
          /\ \A k \in Layers : v.entries[k].kv = manager.entries[k].kv
          /\ \A k \in Layers \ {l} : v.entries[k] = manager.entries[k]
          /\ \A t \in Tiers : Gap(v, t) = Gap(manager, t)
      BY <1>1, RelocateEntries DEF Tiers
    <3> HIDE DEF v
    <3>3. /\ x \in Stores /\ x.entries = v.entries /\ x.bytes = v.bytes
          /\ x.files = [manager.files EXCEPT ![l] = "none"] /\ manager.files \in [Layers -> FileStates]
      BY <1>1, <3>2 DEF Stores, FileStates
    <3> HIDE DEF x
    <3>4. FilesRight(x)
      BY <3>2, <3>3 DEF StoreOK, FilesRight
    <3>5. StoreOK(x, n)
      BY <3>2, <3>3, <3>4 DEF StoreOK
    <3>6. \A t \in Tiers : Gap(x, t) = Gap(manager, t)
      <4>1. x.entries = v.entries /\ x.bytes = v.bytes
        BY <3>3
      <4>2. \A t \in Tiers : Gap(x, t) = Gap(v, t)
        BY <4>1 DEF Gap, Held
      <4> QED
        BY <3>2, <4>2
    <3> HIDE DEF loaded
    <3> QED
      BY <3>1, <3>2, <3>3, <3>5, <3>6 DEF TornBy
  <2>2. CASE ~(manager.entries[l].loc = "disk" /\ ~loadFails)
    BY <1>1, <2>2 DEF TornBy
  <2> QED
    BY <2>1, <2>2
<1> HIDE DEF loaded
<1>3. CASE loaded.entries[l].loc = "compressed"
  <2> DEFINE v == Relocate(loaded, l, "host")
  <2>1. loaded \in Stores /\ "host" \in Tiers \ {"disk"}
    BY <1>2 DEF StoreOK, Tiers
  <2>2. StoreOK(v, n) /\ \A x \in Tiers : Gap(v, x) = Gap(loaded, x)
    BY <1>2, <1>3, <2>1, RelocateQuiet
  <2>3. /\ v.files = loaded.files /\ v.entries[l].loc = "host"
        /\ \A k \in Layers : v.entries[k].kv = loaded.entries[k].kv
        /\ \A k \in Layers \ {l} : v.entries[k] = loaded.entries[k]
    BY <2>1, RelocateEntries
  <2>4. Lifted(l, loadFails) = v
    BY <1>3 DEF Lifted, loaded
  <2> HIDE DEF v
  <2> QED
    BY <1>2, <2>2, <2>3, <2>4 DEF TornBy
<1>4. CASE loaded.entries[l].loc # "compressed"
  <2>1. Lifted(l, loadFails) = loaded
    BY <1>4 DEF Lifted, loaded
  <2> QED
    BY <1>2, <1>4, <2>1
<1> QED
  BY <1>3, <1>4

Room(p, n) == RawBytes * p + (NumLayers - 1) * PackedBytes * n

\* What is counted of one unpacked layer and the others packed.
LEMMA UsageBound ==
    ASSUME NEW n \in Nat, NEW p \in Nat, NEW s, StoreOK(s, n), ~settings.int4, NEW l \in Layers,
           s.entries[l].loc = "device", s.entries[l].kv \subseteq 1..p,
           \A k \in Layers \ {l} : ~HasTensors(s, k),
           \A t \in Tiers : Gap(s, t) = 0
    PROVE  /\ Usage(s) <= Room(p, n)
           /\ s.bytes["device"] <= Usage(s)
<1> DEFINE f(t) == [k \in Layers |-> Share(s.entries[k], t)]
           ab == [k \in Layers |-> f("device")[k] + f("host")[k]]
           abc == [k \in Layers |-> ab[k] + f("compressed")[k]]
           c == n * PackedBytes
           most == [k \in Layers |-> IF k = l THEN p * RawBytes ELSE c]
           even == [k \in Layers |-> c]
           zero == [k \in Layers |-> 0]
<1>1. s \in Stores /\ \A k \in Layers : s.entries[k] \in Entries
  BY DEF StoreOK, Stores
<1>2. \A t \in Tiers : f(t) \in [Layers -> Int] /\ \A k \in Layers : f(t)[k] \in Nat
  BY <1>1, ShareNat
<1>3. \A t \in Tiers : s.bytes[t] = SumFunction(f(t)) /\ SumFunction(f(t)) \in Int
  <2>1. ASSUME NEW t \in Tiers PROVE s.bytes[t] = SumFunction(f(t)) /\ SumFunction(f(t)) \in Int
    <3>1. Held(s, t) = SumFunction(f(t)) /\ Held(s, t) \in Int
      BY <1>1, HeldSum
    <3>2. s.bytes[t] \in Int
      BY <1>1 DEF Stores
    <3> HIDE DEF f
    <3> QED
      BY <3>1, <3>2 DEF Gap
  <2> QED
    BY <2>1
<1>4. {"device", "host", "compressed", "disk"} = Tiers
  BY DEF Tiers
<1>5. IsFiniteSet(Layers) /\ Cardinality(Layers) = NumLayers
  BY LayersFinite
<1>6. c \in Nat /\ p * RawBytes \in Nat
  BY KVConstants, NatTimes
<1>7. ASSUME NEW k \in Layers
      PROVE  /\ f("device")[k] + f("host")[k] + f("compressed")[k] + f("disk")[k] <= most[k]
             /\ f("device")[k] >= 0
  <2>1. s.entries[k].kv \in SUBSET (1..n) /\ s.entries[k] \in Entries
    BY <1>1 DEF StoreOK
  <2>2. CASE k = l
    <3>1. Cardinality(s.entries[k].kv) \in Nat /\ Cardinality(s.entries[k].kv) <= p
      BY <2>2, TokensCount
    <3>2. Size(s.entries[k]) = Cardinality(s.entries[k].kv) * RawBytes
      BY <2>2 DEF Size, BytesPerToken
    <3>3. Size(s.entries[k]) <= p * RawBytes /\ Size(s.entries[k]) \in Nat
      BY <2>1, <3>1, <3>2, KVConstants, NatTimes, SizeNat
    <3>4. /\ f("device")[k] = Size(s.entries[k]) /\ f("host")[k] = 0
          /\ f("compressed")[k] = 0 /\ f("disk")[k] = 0
      BY <2>2 DEF Share
    <3>5. most[k] = p * RawBytes
      BY <2>2
    <3> HIDE DEF f, most
    <3> QED
      BY <1>6, <3>3, <3>4, <3>5
  <2>3. CASE k # l
    <3>1. s.entries[k].loc \notin {"device", "host"}
      BY <2>3 DEF HasTensors
    <3>2. Cardinality(s.entries[k].kv) \in Nat /\ Cardinality(s.entries[k].kv) <= n
      BY <2>1, TokensCount
    <3>3. s.entries[k].loc \in {"compressed", "disk"} => Size(s.entries[k]) \in 0..c
      BY <2>1, <3>2, KVConstants, NatTimes, SizeNat
    <3>4. most[k] = c
      BY <2>3
    <3>5. /\ f("device")[k] = 0 /\ f("host")[k] = 0
          /\ f("compressed")[k] = IF s.entries[k].loc = "compressed" THEN Size(s.entries[k]) ELSE 0
          /\ f("disk")[k] = IF s.entries[k].loc = "disk" THEN Size(s.entries[k]) ELSE 0
      BY <3>1 DEF Share
    <3> HIDE DEF f, most, c
    <3> QED
      BY <1>6, <3>3, <3>4, <3>5
  <2> QED
    BY <2>2, <2>3
<1>8. /\ ab \in [Layers -> Int] /\ abc \in [Layers -> Int] /\ most \in [Layers -> Int]
      /\ even \in [Layers -> Int] /\ zero \in [Layers -> Int]
  <2> HIDE DEF f, c
  <2> QED
    BY <1>2, <1>4, <1>6
<1>9. SumFunction(most) - p * RawBytes = NumLayers * c - c
  <2>1. SumFunction(even) = NumLayers * c
    <3>1. \A k \in Layers : even[k] = c
      OBVIOUS
    <3> HIDE DEF c, even
    <3>2. SumFunction(even) = Cardinality(Layers) * c
      BY <1>5, <1>6, <1>8, <3>1, SumConstant
    <3> QED
      BY <1>5, <3>2
  <2>2. \A k \in Layers \ {l} : even[k] = most[k]
    OBVIOUS
  <2>3. even[l] = c /\ most[l] = p * RawBytes
    OBVIOUS
  <2> HIDE DEF even, most, c
  <2>4. SumFunction(most) - most[l] = SumFunction(even) - even[l]
    BY <1>5, <1>8, <2>2, SumChange
  <2> QED
    BY <2>1, <2>3, <2>4
<1> HIDE DEF c
<1>10. SumFunction(f("device")) + SumFunction(f("host")) <= SumFunction(ab)
  <2>1. \A k \in Layers : f("device")[k] + f("host")[k] <= ab[k]
    <3> HIDE DEF f
    <3> QED
      BY <1>2, <1>4
  <2> HIDE DEF f, ab
  <2> QED
    BY <1>2, <1>4, <1>5, <1>8, <2>1, SumRelate
<1>11. SumFunction(ab) + SumFunction(f("compressed")) <= SumFunction(abc)
  <2>1. \A k \in Layers : ab[k] + f("compressed")[k] <= abc[k]
    <3> HIDE DEF f
    <3> QED
      BY <1>2, <1>4
  <2> HIDE DEF f, ab, abc
  <2> QED
    BY <1>2, <1>4, <1>5, <1>8, <2>1, SumRelate
<1>12. SumFunction(abc) + SumFunction(f("disk")) <= SumFunction(most)
  <2>1. \A k \in Layers : abc[k] = f("device")[k] + f("host")[k] + f("compressed")[k]
    OBVIOUS
  <2> HIDE DEF f, ab, abc, most
  <2>2. \A k \in Layers : abc[k] + f("disk")[k] <= most[k]
    BY <1>7, <2>1
  <2> QED
    BY <1>2, <1>4, <1>5, <1>8, <2>2, SumRelate
<1>13. \A t \in Tiers : SumFunction(f(t)) >= 0
  <2>1. SumFunction(zero) = 0
    <3>1. \A k \in Layers : zero[k] = 0
      OBVIOUS
    <3> HIDE DEF zero
    <3>2. SumFunction(zero) = Cardinality(Layers) * 0
      BY <1>5, <1>8, <3>1, SumConstant
    <3> QED
      BY <1>5, <3>2, KVConstants
  <2>2. \A k \in Layers : zero[k] = 0
    OBVIOUS
  <2> HIDE DEF f, zero
  <2>3. ASSUME NEW t \in Tiers PROVE SumFunction(f(t)) >= 0
    <3>1. \A k \in Layers : zero[k] + zero[k] <= f(t)[k]
      BY <1>2, <2>2
    <3>2. SumFunction(zero) + SumFunction(zero) <= SumFunction(f(t))
      BY <1>2, <1>5, <1>8, <3>1, SumRelate
    <3> QED
      BY <2>1, <3>2
  <2> QED
    BY <2>3
<1>14. SumFunction(ab) \in Int /\ SumFunction(abc) \in Int /\ SumFunction(most) \in Int
  <2> HIDE DEF ab, abc, most
  <2> QED
    BY <1>5, <1>8, SumInt
<1> HIDE DEF f, ab, abc, most, even, zero
<1>15. Usage(s) <= SumFunction(most)
  BY <1>3, <1>4, <1>10, <1>11, <1>12, <1>14 DEF Usage
<1>16. Room(p, n) = p * RawBytes + (NumLayers * c - c)
  <2>1. (NumLayers - 1) * PackedBytes * n = NumLayers * c - c
    BY KVConstants DEF c
  <2>2. RawBytes * p = p * RawBytes
    BY KVConstants
  <2> QED
    BY <2>1, <2>2 DEF Room
<1>17. NumLayers * c - c \in Int
  BY <1>6, KVConstants
<1>18. SumFunction(most) = Room(p, n)
  BY <1>6, <1>9, <1>14, <1>16, <1>17
<1> QED
  BY <1>3, <1>4, <1>13, <1>15, <1>18 DEF Usage

\* get(), seen from what it leaves.
LEMMA FetchCases ==
    ASSUME NEW l \in Layers, NEW loadFails, NEW bad, ~settings.int4
    PROVE  LET u == Lifted(l, loadFails)
               w == Relocate(u, l, "device")
           IN  Fetch(l, loadFails, bad) =
                   IF u.entries[l].loc # "host" THEN u
                   ELSE EnforceBudget(EnforceDeviceBudget(w, Touch(l)), Touch(l), bad)
BY DEF Fetch, Lifted

LEMMA FetchOK ==
    ASSUME NEW n \in Nat, StoreOK(manager, n), order \in Seq(Layers), IsInjective(order),
           NEW l \in Layers, NEW loadFails \in BOOLEAN, NEW bad, OneAtMost(bad),
           \A k \in Layers : ~HasTensors(manager, k)
    PROVE  /\ StoreOK(Fetch(l, loadFails, bad), n)
           /\ \A k \in Layers : Fetch(l, loadFails, bad).entries[k].kv = manager.entries[k].kv
           /\ Grown(manager, Fetch(l, loadFails, bad), bad, n)
           /\ \A k \in Layers : HasTensors(Fetch(l, loadFails, bad), k) =>
                  k = l /\ Usage(Fetch(l, loadFails, bad)) <= settings.budget
<1> DEFINE u == Lifted(l, loadFails)
           w == Relocate(u, l, "device")
           z == EnforceBudget(EnforceDeviceBudget(w, Touch(l)), Touch(l), bad)
<1>1. Forgotten(bad # {}, n) \in Nat /\ \A t \in Tiers : Gap(manager, t) \in Int
  BY KVConstants, NatTimes, GapInt DEF Forgotten, StoreOK
<1>2. CASE settings.int4
  <2>1. Fetch(l, loadFails, bad) = manager
    BY <1>2 DEF Fetch
  <2>2. Grown(manager, manager, bad, n)
    BY <1>1 DEF Grown, TornBy
  <2> QED
    BY <2>1, <2>2
<1>3. CASE ~settings.int4
  <2>1. /\ StoreOK(u, n)
        /\ \A k \in Layers : u.entries[k].kv = manager.entries[k].kv
        /\ \A k \in Layers \ {l} : u.entries[k] = manager.entries[k]
        /\ \A t \in Tiers : Gap(u, t) = Gap(manager, t)
        /\ u.entries[l].loc = "host" \/ u.entries[l].loc = "disk" \/ u.entries[l].loc = "none"
    BY <1>3, LiftedOK
  <2>6. TornBy(manager, u, {})
    BY <1>3, LiftedOK
  <2>2. Fetch(l, loadFails, bad) = IF u.entries[l].loc # "host" THEN u ELSE z
    BY <1>3, FetchCases
  <2> HIDE DEF u
  <2>3. \A k \in Layers \ {l} : ~HasTensors(u, k)
    BY <2>1 DEF HasTensors
  <2>4. CASE u.entries[l].loc # "host"
    <3>1. \A k \in Layers : ~HasTensors(u, k)
      BY <2>1, <2>3, <2>4 DEF HasTensors
    <3>2. Grown(manager, u, bad, n)
      BY <1>1, <2>1, <2>6 DEF Grown, TornBy
    <3> QED
      BY <2>1, <2>2, <2>4, <3>1, <3>2
  <2>5. CASE u.entries[l].loc = "host"
    <3>1. u \in Stores /\ "device" \in Tiers \ {"disk"}
      BY <2>1 DEF StoreOK, Tiers
    <3>2. StoreOK(w, n) /\ \A x \in Tiers : Gap(w, x) = Gap(u, x)
      BY <1>3, <2>1, <2>5, <3>1, RelocateQuiet
    <3>3. /\ w.files = u.files /\ \A k \in Layers : w.entries[k].kv = u.entries[k].kv
          /\ \A k \in Layers \ {l} : w.entries[k] = u.entries[k]
      BY <3>1, RelocateEntries
    <3> HIDE DEF w
    <3>4. \A k \in Layers \ {l} : ~HasTensors(w, k)
      BY <2>3, <3>3 DEF HasTensors
    <3>5. /\ Quiet(w, z, n) /\ Grown(w, z, bad, n)
          /\ \A k \in Layers : HasTensors(z, k) => k = l /\ Usage(z) <= settings.budget
      BY <3>2, <3>4, EnforceBoth
    <3> HIDE DEF z
    <3>6. Grown(manager, z, bad, n)
      BY <2>1, <2>6, <3>2, <3>3, <3>5 DEF Grown, TornBy
    <3>7. StoreOK(z, n) /\ \A k \in Layers : z.entries[k].kv = manager.entries[k].kv
      BY <2>1, <3>3, <3>5 DEF Quiet
    <3> QED
      BY <2>2, <2>5, <3>5, <3>6, <3>7
  <2> QED
    BY <2>4, <2>5
<1> QED
  BY <1>2, <1>3

Whole(p, n) == settings.int4 \/ (Room(p, n) <= settings.budget /\ settings.budget \in Nat)

\* Where one layer's tensors fit beside the others packed, get() returns them.
LEMMA FetchWhole ==
    ASSUME NEW n \in Nat, NEW p \in Nat, StoreOK(manager, n),
           order \in Seq(Layers), IsInjective(order), NEW l \in Layers, NEW bad,
           \A k \in Layers : ~HasTensors(manager, k),
           Whole(p, n),
           manager.entries[l].kv \subseteq 1..p,
           \A t \in Tiers : Gap(manager, t) = 0
    PROVE  Fetched(Fetch(l, FALSE, bad), l) = manager.entries[l].kv
<1> DEFINE u == Lifted(l, FALSE)
           w == Relocate(u, l, "device")
           z == EnforceBudget(EnforceDeviceBudget(w, Touch(l)), Touch(l), bad)
<1>1. CASE settings.int4
  BY <1>1 DEF Fetch, Fetched
<1>2. CASE ~settings.int4
  <2>1. /\ StoreOK(u, n)
        /\ \A k \in Layers : u.entries[k].kv = manager.entries[k].kv
        /\ \A k \in Layers \ {l} : u.entries[k] = manager.entries[k]
        /\ \A t \in Tiers : Gap(u, t) = Gap(manager, t)
        /\ u.entries[l].loc = "host" \/ u.entries[l].loc = "none"
    BY <1>2, LiftedOK
  <2>2. Fetch(l, FALSE, bad) = IF u.entries[l].loc # "host" THEN u ELSE z
    BY <1>2, FetchCases
  <2> HIDE DEF u
  <2>3. CASE u.entries[l].loc = "none"
    <3>1. u.entries[l].kv = {}
      BY <2>1, <2>3 DEF StoreOK
    <3>2. Fetch(l, FALSE, bad) = u /\ ~HasTensors(u, l)
      BY <2>2, <2>3 DEF HasTensors
    <3> QED
      BY <1>2, <2>1, <3>1, <3>2 DEF Fetched
  <2>4. CASE u.entries[l].loc = "host"
    <3>1. u \in Stores /\ "device" \in Tiers \ {"disk"}
      BY <2>1 DEF StoreOK, Tiers
    <3>2. StoreOK(w, n) /\ \A x \in Tiers : Gap(w, x) = Gap(u, x)
      BY <1>2, <2>1, <2>4, <3>1, RelocateQuiet
    <3>3. /\ \A k \in Layers : w.entries[k].kv = u.entries[k].kv
          /\ \A k \in Layers \ {l} : w.entries[k] = u.entries[k]
          /\ w.entries[l].loc = "device"
      BY <3>1, RelocateEntries
    <3> HIDE DEF w
    <3>4. \A k \in Layers \ {l} : ~HasTensors(w, k)
      BY <2>1, <3>3 DEF HasTensors
    <3>5. w.entries[l].kv \subseteq 1..p /\ \A t \in Tiers : Gap(w, t) = 0
      BY <2>1, <3>2, <3>3
    <3>6. Usage(w) <= Room(p, n) /\ w.bytes["device"] <= Usage(w)
      BY <1>2, <3>2, <3>3, <3>4, <3>5, UsageBound
    <3>7. Room(p, n) \in Int /\ Usage(w) \in Int /\ w.bytes["device"] \in Int
      <4>1. w.bytes \in [Tiers -> Int]
        BY <3>2 DEF StoreOK, Stores
      <4>2. RawBytes * p \in Nat /\ (NumLayers - 1) * PackedBytes \in Nat
        <5>1. NumLayers - 1 \in Nat /\ PackedBytes \in Nat /\ RawBytes \in Nat
          BY KVConstants
        <5> QED
          BY <5>1, NatTimes
      <4>3. Room(p, n) \in Nat
        BY <4>2, NatTimes DEF Room
      <4> QED
        BY <4>1, <4>3 DEF Usage, Tiers
    <3>8. Usage(w) <= settings.budget /\ w.bytes["device"] <= settings.budget
      BY <1>2, <3>6, <3>7 DEF Whole
    <3>9. Touch(l) \in Seq(Layers)
      BY TouchOK
    <3>10. EnforceDeviceBudget(w, Touch(l)) = w
      BY <3>8, <3>9, DeviceSame
    <3>11. z = w
      BY <3>8, <3>9, <3>10, BudgetSame
    <3> HIDE DEF z
    <3>12. HasTensors(w, l) /\ w.entries[l].kv = manager.entries[l].kv
      BY <1>2, <2>1, <3>3 DEF HasTensors
    <3> QED
      BY <2>2, <2>4, <3>11, <3>12 DEF Fetched
  <2> QED
    BY <2>1, <2>3, <2>4
<1> QED
  BY <1>1, <1>2

-----------------------------------------------------------------------------
(* The invariant: between two blocks nothing is left as tensors, and what  *)
(* the counters miss is what failed spills forgot.                         *)

Lost(f, n) == f * PackedBytes * n

KVShape ==
    /\ KVTypeOK
    /\ stage \in {"update", "compress"} => pos + new <= MaxPos
    /\ stage = "compress" => ~cold[layer]
    /\ IsInjective(order)
    /\ StoreOK(manager, pos + new)
    /\ \A l \in Layers : keys[l] \subseteq 1..(pos + new)

KVCounters ==
    /\ \A l \in Layers : HasTensors(manager, l) =>
           stage = "compress" /\ l = layer /\ Usage(manager) <= settings.budget
    /\ \A t \in Tiers : Gap(manager, t) \in 0..Lost(diskFaults, pos + new)

FewTorn == Cardinality(Torn(manager)) <= diskFaults

KVInv == KVShape /\ KVCounters /\ FewTorn /\ LengthTruthful /\ CacheLossless

LEMMA SettingsOK ==
    ASSUME settings \in CacheConfigs
    PROVE  settings.window \in Nat /\ settings.budget \in Nat /\ settings.int4 \in BOOLEAN
BY KVAssumption

\* What is lost does not become less.
LEMMA LostGrows ==
    ASSUME NEW a \in Nat, NEW b \in Nat, a <= b, NEW n \in Nat, NEW m \in Nat, n <= m
    PROVE  Lost(a, n) \in Nat /\ Lost(b, m) \in Nat /\ Lost(a, n) <= Lost(b, m)
<1>1. PackedBytes \in Nat
  BY KVConstants
<1>2. a * PackedBytes \in Nat /\ b * PackedBytes \in Nat /\ a * PackedBytes <= b * PackedBytes
  BY <1>1, NatTimes
<1>3. (a * PackedBytes) * n <= (b * PackedBytes) * n
  BY <1>2, NatTimes
<1>4. n * (b * PackedBytes) <= m * (b * PackedBytes)
  BY <1>2, NatTimes
<1>5. (b * PackedBytes) * n = n * (b * PackedBytes) /\ (b * PackedBytes) * m = m * (b * PackedBytes)
  BY <1>2
<1>6. (a * PackedBytes) * n \in Nat /\ (b * PackedBytes) * n \in Nat /\ (b * PackedBytes) * m \in Nat
  BY <1>2, NatTimes
<1> QED
  BY <1>3, <1>4, <1>5, <1>6 DEF Lost

LEMMA LostNat == \A a, n \in Nat : Lost(a, n) \in Nat
<1>1. ASSUME NEW a \in Nat, NEW n \in Nat PROVE Lost(a, n) \in Nat
  <2>1. a <= a /\ n <= n
    OBVIOUS
  <2> QED
    BY <2>1, LostGrows
<1> QED
  BY <1>1

LEMMA LostStep ==
    ASSUME NEW a \in Nat, NEW n \in Nat
    PROVE  Lost(a, n) + n * PackedBytes = Lost(a + 1, n)
<1>1. PackedBytes \in Nat
  BY KVConstants
<1>2. (a + 1) * PackedBytes = a * PackedBytes + PackedBytes
  BY <1>1
<1>3. (a * PackedBytes + PackedBytes) * n = (a * PackedBytes) * n + PackedBytes * n
  <2>1. a * PackedBytes \in Nat
    BY <1>1, NatTimes
  <2> QED
    BY <1>1, <2>1
<1>4. PackedBytes * n = n * PackedBytes
  BY <1>1
<1> QED
  BY <1>2, <1>3, <1>4 DEF Lost

\* The failures a call meets.
LEMMA FaultsOK ==
    ASSUME diskFaults \in 0..MaxDiskFaults, NEW f \in DiskFaults, Count(f)
    PROVE  /\ f.load \in BOOLEAN /\ OneAtMost(f.bad)
           /\ diskFaults' \in 0..MaxDiskFaults /\ diskFaults <= diskFaults'
           /\ \A n \in Nat : Lost(diskFaults, n) + Forgotten(f.bad # {}, n) <= Lost(diskFaults', n)
           /\ diskFaults' = 0 => diskFaults = 0 /\ ~f.load /\ f.bad = {}
<1>1. /\ f.load \in BOOLEAN /\ OneAtMost(f.bad)
      /\ (f.load \/ f.bad # {}) => diskFaults # MaxDiskFaults
  <2> DEFINE A == [load |-> FALSE, bad |-> {}]
             B == [load |-> TRUE, bad |-> {}]
  <2>1. f = A \/ f = B \/ \E l \in Layers : f = [load |-> FALSE, bad |-> {l}]
    BY DEF DiskFaults
  <2>2. f = A \/ diskFaults # MaxDiskFaults
    <3>1. SUFFICES ASSUME diskFaults = MaxDiskFaults PROVE f = A
      OBVIOUS
    <3>2. DiskFaults = {A} \cup {}
      BY Zenon, <3>1 DEF DiskFaults
    <3> HIDE DEF A
    <3>3. f \in {A} \cup {}
      BY <3>2
    <3> QED
      BY <3>3
  <2>3. f.load \in BOOLEAN /\ OneAtMost(f.bad)
    <3>1. CASE f = A \/ f = B
      <4>1. f.bad = {}
        BY <3>1
      <4>2. f.load = TRUE \/ f.load = FALSE
        BY <3>1
      <4> QED
        BY <4>1, <4>2 DEF OneAtMost
    <3>2. ASSUME NEW l \in Layers, f = [load |-> FALSE, bad |-> {l}]
          PROVE  f.load \in BOOLEAN /\ OneAtMost(f.bad)
      BY <3>2 DEF OneAtMost
    <3> HIDE DEF A, B
    <3> QED
      BY <2>1, <3>1, <3>2
  <2>4. f = A => ~f.load /\ f.bad = {}
    OBVIOUS
  <2> QED
    BY <2>2, <2>3, <2>4
<1>2. diskFaults' = IF f.load \/ f.bad # {} THEN diskFaults + 1 ELSE diskFaults
  BY DEF Count
<1>3. diskFaults \in Nat /\ diskFaults' \in 0..MaxDiskFaults /\ diskFaults <= diskFaults'
  BY <1>1, <1>2, KVConstants
<1>4. ASSUME NEW n \in Nat
      PROVE  Lost(diskFaults, n) + Forgotten(f.bad # {}, n) <= Lost(diskFaults', n)
  <2>1. CASE f.bad # {}
    <3>1. diskFaults' = diskFaults + 1 /\ Forgotten(f.bad # {}, n) = n * PackedBytes
      BY <1>2, <2>1 DEF Forgotten
    <3>2. Lost(diskFaults, n) + n * PackedBytes = Lost(diskFaults + 1, n)
      BY <1>3, LostStep
    <3>3. Lost(diskFaults + 1, n) \in Nat
      <4>1. diskFaults + 1 \in Nat
        BY <1>3
      <4> QED
        BY <4>1, LostNat
    <3> QED
      BY <3>1, <3>2, <3>3
  <2>2. CASE f.bad = {}
    <3>1. Forgotten(f.bad # {}, n) = 0
      BY <2>2 DEF Forgotten
    <3>2. Lost(diskFaults, n) <= Lost(diskFaults', n) /\ Lost(diskFaults, n) \in Nat
      <4>1. diskFaults \in Nat /\ diskFaults' \in Nat /\ diskFaults <= diskFaults' /\ n <= n
        BY <1>3, KVConstants
      <4> QED
        BY <4>1, LostGrows
    <3> QED
      BY <3>1, <3>2
  <2> QED
    BY <2>1, <2>2
<1> QED
  BY <1>1, <1>2, <1>3, <1>4

\* The settings do not change what an entry takes.
LEMMA GapPrime ==
    ASSUME settings' = settings
    PROVE  \A t \in Tiers : Gap(manager, t)' = Gap(manager', t)
<1> DEFINE f(t) == [l \in Layers |-> IF manager'.entries[l].loc = t THEN Size(manager'.entries[l]) ELSE 0]
           g(t) == [l \in Layers |-> IF manager'.entries[l].loc = t THEN Size(manager.entries[l])' ELSE 0]
<1>1. \A l \in Layers : Size(manager'.entries[l]) = Size(manager.entries[l])'
  BY DEF Size, BytesPerToken
<1>2. ASSUME NEW t \in Tiers PROVE f(t) = g(t)
  BY <1>1
<1>3. ASSUME NEW t \in Tiers PROVE Held(manager', t) = SumFunction(f(t))
  BY DEF Held
<1>4. ASSUME NEW t \in Tiers PROVE Held(manager, t)' = SumFunction(g(t))
  BY DEF Held
<1>5. ASSUME NEW t \in Tiers PROVE Gap(manager, t)' = Gap(manager', t)
  <2>1. Held(manager', t) = Held(manager, t)'
    BY <1>2, <1>3, <1>4
  <2> QED
    BY <2>1 DEF Gap
<1> QED
  BY <1>5

\* What a step of the manager does to the counters.
LEMMA CountersGrow ==
    ASSUME settings' = settings, NEW f \in DiskFaults, Count(f), diskFaults \in 0..MaxDiskFaults,
           NEW n \in Nat, NEW m \in Nat, n <= m, manager \in Stores, manager' \in Stores,
           \A t \in Tiers : Gap(manager, t) \in 0..Lost(diskFaults, n),
           Grown(manager, manager', f.bad, n)
    PROVE  \A t \in Tiers : Gap(manager, t)' \in 0..Lost(diskFaults', m)
<1>1. /\ diskFaults' \in 0..MaxDiskFaults
      /\ Lost(diskFaults, n) + Forgotten(f.bad # {}, n) <= Lost(diskFaults', n)
  BY FaultsOK
<1>2. diskFaults \in Nat /\ diskFaults' \in Nat
  BY <1>1, KVConstants
<1>3. /\ Lost(diskFaults', n) <= Lost(diskFaults', m) /\ Lost(diskFaults', n) \in Nat
      /\ Lost(diskFaults', m) \in Nat /\ Lost(diskFaults, n) \in Nat
  <2>1. diskFaults' <= diskFaults'
    BY <1>2
  <2> QED
    BY <1>2, <2>1, LostGrows, LostNat
<1>4. Forgotten(f.bad # {}, n) \in Nat
  BY KVConstants, NatTimes DEF Forgotten
<1>5. ASSUME NEW t \in Tiers PROVE Gap(manager, t)' \in 0..Lost(diskFaults', m)
  <2>1. Gap(manager, t)' = Gap(manager', t)
    BY GapPrime
  <2>2. Gap(manager, t) \in Int /\ Gap(manager', t) \in Int
    BY GapInt
  <2>3. Gap(manager', t) - Gap(manager, t) \in 0..Forgotten(f.bad # {}, n)
    BY DEF Grown
  <2> QED
    BY <1>1, <1>3, <1>4, <2>1, <2>2, <2>3
<1> QED
  BY <1>5

\* What failed writes have left on the disk.
LEMMA TornGrows ==
    ASSUME FewTorn, NEW f \in DiskFaults, Count(f), diskFaults \in 0..MaxDiskFaults,
           TornBy(manager, manager', f.bad)
    PROVE  FewTorn'
<1> DEFINE a == Torn(manager)
           b == Torn(manager')
<1>1. IsFiniteSet(a) /\ Cardinality(a) \in Nat /\ IsFiniteSet(b) /\ Cardinality(b) \in Nat
  <2>1. a \subseteq Layers /\ b \subseteq Layers
    BY DEF Torn
  <2> HIDE DEF a, b
  <2> QED
    BY <2>1, LayersFinite, FS_Subset, FS_CardinalityType
<1>2. b \subseteq a \cup f.bad
  BY DEF Torn, TornBy
<1>3. Cardinality(a) <= diskFaults
  BY DEF FewTorn
<1> HIDE DEF a, b
<1>4. /\ diskFaults' \in 0..MaxDiskFaults /\ diskFaults <= diskFaults' /\ OneAtMost(f.bad)
      /\ diskFaults \in Nat /\ diskFaults' \in Nat
  <2>1. diskFaults' \in 0..MaxDiskFaults /\ diskFaults <= diskFaults' /\ OneAtMost(f.bad)
    BY FaultsOK
  <2> QED
    BY <2>1, KVConstants
<1>5. CASE f.bad = {}
  <2>1. Cardinality(b) <= Cardinality(a)
    BY <1>1, <1>2, <1>5, FS_Subset
  <2> QED
    BY <1>1, <1>3, <1>4, <2>1 DEF FewTorn, b
<1>6. CASE f.bad # {}
  <2>1. PICK l : l \in f.bad
    BY <1>6
  <2>2. f.bad = {l}
    BY <1>4, <2>1 DEF OneAtMost
  <2>3. IsFiniteSet(a \cup {l}) /\ Cardinality(a \cup {l}) <= Cardinality(a) + 1
    <3>1. /\ IsFiniteSet(a \cup {l})
          /\ Cardinality(a \cup {l}) = IF l \in a THEN Cardinality(a) ELSE Cardinality(a) + 1
      BY <1>1, FS_AddElement
    <3> QED
      BY <1>1, <3>1
  <2>4. Cardinality(b) <= Cardinality(a \cup {l}) /\ Cardinality(a \cup {l}) \in Nat
    BY <1>2, <2>2, <2>3, FS_Subset, FS_CardinalityType
  <2>5. diskFaults' = diskFaults + 1
    BY <1>6 DEF Count
  <2> QED
    BY <1>1, <1>3, <1>4, <2>3, <2>4, <2>5 DEF FewTorn, b
<1> QED
  BY <1>5, <1>6

\* An empty store holds nothing and counts nothing.
LEMMA EmptyGap == \A t \in Tiers : Gap(EmptyStore, t) = 0
<1>1. ASSUME NEW t \in Tiers PROVE Gap(EmptyStore, t) = 0
  <2> DEFINE f == [l \in Layers |-> Share(EmptyStore.entries[l], t)]
  <2>1. EmptyStore \in Stores /\ EmptyStore.bytes[t] = 0
    BY DEF EmptyStore, Stores, Entries, NoEntry, FileStates
  <2>2. \A l \in Layers : f[l] = 0
    BY DEF EmptyStore, NoEntry, Share, Tiers
  <2>3. Held(EmptyStore, t) = SumFunction(f) /\ f \in [Layers -> Int]
    BY <2>1, HeldSum
  <2> HIDE DEF f
  <2>4. SumFunction(f) = Cardinality(Layers) * 0
    BY <2>2, <2>3, LayersFinite, SumConstant
  <2> QED
    BY <2>1, <2>3, <2>4, LayersFinite, KVConstants DEF Gap
<1> QED
  BY <1>1

-----------------------------------------------------------------------------
(* The steps.                                                              *)

LEMMA KVInitially == ASSUME KVInit PROVE KVInv
<1> USE DEF KVInit
<1>1. settings.window \in Nat
  BY SettingsOK
<1>2. /\ pos = 0 /\ new \in 1..MaxFed /\ pos + new = new /\ new <= MaxPos /\ new \in Nat
      /\ diskFaults = 0 /\ layer \in Layers
  BY KVConstants DEF Layers
<1>3. /\ EmptyStore \in Stores /\ \A t \in Tiers : EmptyStore.bytes[t] = 0
      /\ \A l \in Layers : EmptyStore.entries[l] = NoEntry /\ EmptyStore.files[l] = "none"
  BY DEF EmptyStore, Stores, Entries, NoEntry, FileStates
<1>4. NoEntry.loc = "none" /\ NoEntry.kv = {}
  BY DEF NoEntry
<1>5. FilesRight(EmptyStore) /\ \A l \in Layers : ~HasTensors(EmptyStore, l)
  BY <1>3, <1>4 DEF FilesRight, HasTensors
<1>6. StoreOK(manager, pos + new)
  BY <1>2, <1>3, <1>4, <1>5 DEF StoreOK
<1>7. KVTypeOK
  <2>1. order \in Seq(Layers) /\ manager \in Stores /\ keys \in [Layers -> SUBSET Positions]
    BY <1>3
  <2>2. coldLen \in [Layers -> 0..MaxPos] /\ cold \in [Layers -> BOOLEAN]
    BY KVConstants
  <2> QED
    BY <1>2, <2>1, <2>2, KVConstants DEF KVTypeOK, Stores
<1>8. IsInjective(order)
  BY DEF IsInjective
<1>9. KVShape
  BY <1>2, <1>6, <1>7, <1>8 DEF KVShape
<1>10. \A t \in Tiers : Gap(manager, t) = 0
  BY <1>3, EmptyGap
<1>11. KVCounters
  <2>1. Lost(diskFaults, pos + new) \in Nat
    BY <1>2, LostNat
  <2> QED
    BY <1>5, <1>10, <2>1 DEF KVCounters
<1>15. FewTorn
  <2>1. Torn(manager) = {}
    BY <1>3 DEF Torn
  <2> QED
    BY <1>2, <2>1, FS_EmptySet DEF FewTorn
<1>12. LengthTruthful
  BY DEF LengthTruthful
<1>13. ASSUME NEW l \in Layers PROVE Present(l) = Seen(l)
  BY <1>2 DEF Present, Seen
<1>14. CacheLossless
  BY <1>13 DEF CacheLossless, KVBitIdentical
<1> QED
  BY <1>9, <1>11, <1>12, <1>14, <1>15 DEF KVInv

\* update(): the tensors come back whole, or the layer starts from none.
LEMMA UpdateKV == ASSUME KVInv, Update PROVE KVInv'
<1> DEFINE n == pos + new
<1>1. /\ stage = "update" /\ stage' = "compress"
      /\ cold' = [cold EXCEPT ![layer] = FALSE]
      /\ UNCHANGED <<settings, coldLen, layer, pos, new>>
  BY DEF Update
<1>2. PICK f \in DiskFaults :
          LET s == IF cold[layer] THEN Fetch(layer, f.load, f.bad) ELSE manager
          IN  /\ manager' = s
              /\ order' = IF cold[layer] THEN Touch(layer) ELSE order
              /\ keys' = [keys EXCEPT ![layer] = Restored(s) \cup (pos + 1)..(pos + new)]
              /\ Count(f)
  BY DEF Update
<1>3. /\ manager' = IF cold[layer] THEN Fetch(layer, f.load, f.bad) ELSE manager
      /\ order' = IF cold[layer] THEN Touch(layer) ELSE order
      /\ keys' = [keys EXCEPT ![layer] = Restored(manager') \cup (pos + 1)..(pos + new)]
      /\ Count(f)
  BY <1>2
<1>4. /\ settings \in CacheConfigs /\ settings.window \in Nat /\ settings.budget \in Nat
      /\ order \in Seq(Layers) /\ IsInjective(order) /\ layer \in Layers
      /\ pos \in Nat /\ new \in Nat /\ new > 0 /\ n \in Nat /\ n <= MaxPos
      /\ diskFaults \in 0..MaxDiskFaults /\ diskFaults \in Nat
      /\ keys \in [Layers -> SUBSET Positions] /\ cold \in [Layers -> BOOLEAN]
  BY <1>1, KVConstants, SettingsOK DEF KVInv, KVShape, KVTypeOK
<1>5. /\ StoreOK(manager, n) /\ manager \in Stores /\ \A k \in Layers : keys[k] \subseteq 1..n
  BY DEF KVInv, KVShape, StoreOK
<1>6. /\ \A k \in Layers : ~HasTensors(manager, k)
      /\ \A t \in Tiers : Gap(manager, t) \in 0..Lost(diskFaults, n)
  BY <1>1 DEF KVInv, KVCounters
<1> HIDE DEF n
<1>7. /\ f.load \in BOOLEAN /\ OneAtMost(f.bad) /\ diskFaults' \in 0..MaxDiskFaults
      /\ diskFaults' = 0 => diskFaults = 0 /\ ~f.load /\ f.bad = {}
  BY <1>3, <1>4, FaultsOK
<1>8. /\ StoreOK(manager', n)
      /\ \A k \in Layers : manager'.entries[k].kv = manager.entries[k].kv
      /\ Grown(manager, manager', f.bad, n)
      /\ \A k \in Layers : HasTensors(manager', k) => k = layer /\ Usage(manager') <= settings.budget
  <2>1. CASE cold[layer]
    BY <1>3, <1>4, <1>5, <1>6, <1>7, <2>1, FetchOK
  <2>2. CASE ~cold[layer]
    <3>1. manager' = manager
      BY <1>3, <2>2
    <3>2. Forgotten(f.bad # {}, n) \in Nat /\ \A t \in Tiers : Gap(manager, t) \in Int
      BY <1>4, <1>5, KVConstants, NatTimes, GapInt DEF Forgotten
    <3>3. Grown(manager, manager, f.bad, n)
      BY <3>2 DEF Grown, TornBy
    <3> QED
      BY <1>5, <1>6, <3>1, <3>3
  <2> QED
    BY <2>1, <2>2
<1>9. order' \in Seq(Layers) /\ IsInjective(order')
  BY <1>3, <1>4, TouchOK
<1>10. Restored(manager') \subseteq 1..n
  <2>1. manager'.entries[layer].kv \subseteq 1..n /\ keys[layer] \subseteq 1..n
    BY <1>4, <1>5, <1>8 DEF StoreOK
  <2> QED
    BY <2>1 DEF Restored, Fetched
<1>11. \A k \in Layers : keys'[k] \subseteq 1..n
  <2>1. (pos + 1)..(pos + new) \subseteq 1..n
    BY <1>4 DEF n
  <2> QED
    BY <1>3, <1>4, <1>5, <1>10, <2>1
<1>12. keys' \in [Layers -> SUBSET Positions]
  <2>1. 1..n \subseteq Positions
    BY <1>4, KVConstants DEF Positions
  <2>2. DOMAIN keys' = Layers /\ keys' = [k \in Layers |-> keys'[k]]
    BY <1>3, <1>4
  <2>3. \A k \in Layers : keys'[k] \in SUBSET Positions
    BY <1>11, <2>1
  <2> QED
    BY <2>2, <2>3
<1>13. manager' \in Stores /\ StoreOK(manager', n)
  BY <1>8 DEF StoreOK
<1>14. KVShape'
  <2>1. KVTypeOK'
    <3>1. cold' \in [Layers -> BOOLEAN]
      BY <1>1, <1>4
    <3>2. /\ coldLen' \in [Layers -> 0..MaxPos] /\ layer' \in Layers
          /\ pos' \in 0..MaxPos /\ new' \in 1..MaxFed /\ settings' \in CacheConfigs
      BY <1>1 DEF KVInv, KVShape, KVTypeOK
    <3>3. manager' \in [entries : [Layers -> Entries], bytes : [Tiers -> Int], files : [Layers -> FileStates]]
      BY <1>13 DEF Stores
    <3> QED
      BY <1>1, <1>7, <1>9, <1>12, <3>1, <3>2, <3>3 DEF KVTypeOK
  <2>2. pos' + new' = n /\ n <= MaxPos /\ ~cold'[layer']
    BY <1>1, <1>4 DEF n
  <2>3. StoreOK(manager, pos + new)'
    BY <1>1, <1>13, <2>2 DEF StoreOK, FilesRight
  <2> QED
    BY <1>9, <1>11, <2>1, <2>2, <2>3 DEF KVShape
<1>15. KVCounters'
  <2>1. \A t \in Tiers : Gap(manager, t)' \in 0..Lost(diskFaults', n)
    <3>1. n <= n
      BY <1>4
    <3> QED
      BY <1>1, <1>3, <1>4, <1>5, <1>6, <1>8, <1>13, <3>1, CountersGrow
  <2>2. \A k \in Layers : HasTensors(manager, k)' =>
            stage' = "compress" /\ k = layer' /\ Usage(manager') <= settings'.budget
    BY <1>1, <1>8 DEF HasTensors
  <2>3. Lost(diskFaults', n) = Lost(diskFaults, pos + new)'
    BY <1>1 DEF Lost, n
  <2> QED
    BY <2>1, <2>2, <2>3 DEF KVCounters, Usage
<1>16. LengthTruthful'
  <2>1. ASSUME NEW k \in Layers, cold'[k] PROVE coldLen'[k] = Cardinality(manager'.entries[k].kv)
    <3>1. cold[k] /\ stage # "cleared"
      BY <1>1, <1>4, <2>1
    <3>2. coldLen[k] = Cardinality(manager.entries[k].kv)
      BY <3>1 DEF KVInv, LengthTruthful
    <3> QED
      BY <1>1, <1>8, <3>2
  <2> QED
    BY <2>1 DEF LengthTruthful
<1>17. CacheLossless'
  <2>1. SUFFICES ASSUME settings.int4 \/ Fits, settings.window = 0, diskFaults' = 0, NEW k \in Layers
                 PROVE  Present(k)' = Seen(k)'
    BY <1>1 DEF CacheLossless, KVBitIdentical, Fits
  <2>2. diskFaults = 0 /\ ~f.load /\ f.bad = {}
    BY <1>7, <2>1
  <2>3. \A l \in Layers : Present(l) = Seen(l)
    BY <1>1, <2>1, <2>2 DEF KVInv, CacheLossless, KVBitIdentical
  <2>4. CASE k # layer
    <3>1. Present(k)' = Present(k)
      BY <1>1, <1>3, <1>4, <1>8, <2>4 DEF Present
    <3>2. Seen(k)' = Seen(k)
      BY <1>1, <1>4, <2>4 DEF Seen
    <3> QED
      BY <2>3, <3>1, <3>2
  <2>5. CASE k = layer
    <3>1. Seen(layer) = 1..pos /\ Seen(k)' = 1..(pos + new)
      BY <1>1, <1>4, <2>5 DEF Seen, Layers
    <3>2. Restored(manager') = 1..pos
      <4>1. CASE cold[layer]
        <5>1. manager.entries[layer].kv = 1..pos
          BY <1>4, <2>3, <3>1, <4>1 DEF Present
        <5>2. \A t \in Tiers : Gap(manager, t) = 0
          <6>1. Lost(diskFaults, n) = 0
            BY <1>4, <2>2, KVConstants DEF Lost
          <6> QED
            BY <1>6, <6>1
        <5>3. Whole(pos, n)
          BY <1>4, <2>1 DEF Whole, Fits, Room, n
        <5>4. manager' = Fetch(layer, FALSE, f.bad)
          BY <1>3, <1>7, <2>2, <4>1
        <5>5. Fetched(manager', layer) = manager.entries[layer].kv
          <6>1. manager.entries[layer].kv \subseteq 1..pos
            BY <5>1
          <6>2. Fetched(Fetch(layer, FALSE, f.bad), layer) = manager.entries[layer].kv
            <7>1. /\ n \in Nat /\ pos \in Nat /\ StoreOK(manager, n) /\ order \in Seq(Layers)
                  /\ IsInjective(order) /\ layer \in Layers /\ Whole(pos, n)
                  /\ manager.entries[layer].kv \subseteq 1..pos
              BY <1>4, <1>5, <5>3, <6>1
            <7>2. (\A x \in Layers : ~HasTensors(manager, x)) /\ (\A t \in Tiers : Gap(manager, t) = 0)
              BY <1>6, <5>2
            <7> QED
              BY <7>1, <7>2, FetchWhole
          <6> QED
            BY <5>4, <6>2
        <5> QED
          BY <4>1, <5>1, <5>5 DEF Restored
      <4>2. CASE ~cold[layer]
        BY <1>4, <2>3, <3>1, <4>2 DEF Present, Restored
      <4> QED
        BY <4>1, <4>2
    <3>3. keys'[layer] = 1..pos \cup (pos + 1)..(pos + new)
      BY <1>3, <1>4, <3>2
    <3>4. 1..pos \cup (pos + 1)..(pos + new) = 1..(pos + new)
      BY <1>4
    <3>5. Present(k)' = keys'[layer]
      BY <1>1, <1>4, <2>5 DEF Present
    <3> QED
      BY <3>1, <3>3, <3>4, <3>5
  <2> QED
    BY <2>4, <2>5
<1>19. FewTorn'
  BY <1>3, <1>4, <1>8, TornGrows DEF KVInv, Grown
<1> QED
  BY <1>14, <1>15, <1>16, <1>17, <1>19 DEF KVInv

\* To the next layer or the next sweep: what every layer has seen.
LEMMA AdvanceOK ==
    ASSUME Advance, stage = "compress", layer \in Layers, pos \in 0..MaxPos, new \in 1..MaxFed,
           pos + new <= MaxPos
    PROVE  /\ layer' \in Layers /\ pos' \in 0..MaxPos /\ new' \in 1..MaxFed
           /\ stage' \in {"update", "finished"} /\ (stage' = "update" => pos' + new' <= MaxPos)
           /\ pos <= pos' /\ pos + new <= pos' + new'
           /\ \A l \in Layers : Seen(l)' = IF l = layer THEN 1..(pos + new) ELSE Seen(l)
<1>1. layer \in Nat /\ pos \in Nat /\ new \in Nat /\ layer <= NumLayers - 1
  BY KVConstants DEF Layers
<1>2. CASE layer + 1 < NumLayers
  <2>1. layer' = layer + 1 /\ stage' = "update" /\ pos' = pos /\ new' = new
    BY <1>2 DEF Advance
  <2>2. layer' \in Layers
    BY <1>1, <1>2, <2>1, KVConstants DEF Layers
  <2>3. ASSUME NEW l \in Layers PROVE Seen(l)' = IF l = layer THEN 1..(pos + new) ELSE Seen(l)
    <3>1. l \in Nat
      BY KVConstants DEF Layers
    <3>2. l = layer \/ (l < layer <=> l < layer')
      BY <1>1, <2>1, <3>1
    <3>3. l = layer => l < layer'
      BY <1>1, <2>1
    <3> QED
      BY <2>1, <3>2, <3>3 DEF Seen
  <2> QED
    BY <1>1, <2>1, <2>2, <2>3
<1>3. CASE ~(layer + 1 < NumLayers)
  <2>1. /\ layer' = 0 /\ pos' = pos + new
        /\ \/ stage' = "update" /\ new' \in 1..MaxFed /\ pos' + new' <= MaxPos
           \/ stage' = "finished" /\ new' = new
    BY <1>3 DEF Advance
  <2>2. layer' \in Layers
    BY <2>1, KVConstants DEF Layers
  <2>3. ASSUME NEW l \in Layers PROVE Seen(l)' = IF l = layer THEN 1..(pos + new) ELSE Seen(l)
    <3>1. l \in Nat /\ l <= layer
      BY <1>1, <1>3, KVConstants DEF Layers
    <3>2. ~(l < layer') /\ stage' # "compress"
      BY <2>1, <3>1
    <3>3. Seen(l)' = 1..(pos + new)
      BY <2>1, <3>2 DEF Seen
    <3>4. l # layer => Seen(l) = 1..(pos + new)
      BY <1>1, <3>1 DEF Seen
    <3> QED
      BY <3>3, <3>4
  <2>4. pos <= pos' /\ pos + new <= pos' + new' /\ new' \in 1..MaxFed
    BY <1>1, <2>1, KVConstants
  <2>5. pos' \in 0..MaxPos /\ stage' \in {"update", "finished"}
    BY <1>1, <2>1, KVConstants
  <2>6. stage' = "update" => pos' + new' <= MaxPos
    BY <2>1
  <2> QED
    BY <2>2, <2>3, <2>4, <2>5, <2>6
<1> QED
  BY <1>2, <1>3

\* A cache that has room for a longer sequence has room for a shorter one.
LEMMA RoomGrows ==
    ASSUME NEW p \in Nat, NEW q \in Nat, p <= q, NEW n \in Nat, NEW m \in Nat, n <= m
    PROVE  /\ Room(p, n) \in Nat /\ Room(q, m) \in Nat
           /\ Room(p, n) <= Room(q, m)
<1> DEFINE c == (NumLayers - 1) * PackedBytes
<1>1. c \in Nat /\ RawBytes \in Nat
  <2>1. NumLayers - 1 \in Nat /\ PackedBytes \in Nat /\ RawBytes \in Nat
    BY KVConstants
  <2> QED
    BY <2>1, NatTimes
<1> HIDE DEF c
<1>2. p * RawBytes <= q * RawBytes /\ n * c <= m * c
  BY <1>1, NatTimes
<1>3. RawBytes * p = p * RawBytes /\ RawBytes * q = q * RawBytes /\ c * n = n * c /\ c * m = m * c
  BY <1>1
<1>4. p * RawBytes \in Nat /\ q * RawBytes \in Nat /\ n * c \in Nat /\ m * c \in Nat
  BY <1>1, NatTimes
<1>5. Room(p, n) = RawBytes * p + c * n /\ Room(q, m) = RawBytes * q + c * m
  BY DEF Room, c
<1> QED
  BY <1>2, <1>3, <1>4, <1>5

\* compress_layer(): what the layer held is what the manager now holds of it.
LEMMA CompressKV == ASSUME KVInv, CompressLayer PROVE KVInv'
<1> DEFINE n == pos + new
           m == pos' + new'
           K == keys[layer]
<1>1. /\ stage = "compress" /\ order' = Touch(layer) /\ Advance
      /\ coldLen' = [coldLen EXCEPT ![layer] = ColdLength(Cardinality(K))]
      /\ keys' = [keys EXCEPT ![layer] = {}]
      /\ cold' = [cold EXCEPT ![layer] = TRUE]
      /\ settings' = settings
  BY DEF CompressLayer
<1>2. PICK f \in DiskFaults :
          manager' = MaybeEvict(Put(layer, K, f.bad), layer) /\ Count(f)
  BY DEF CompressLayer
<1>3. /\ settings \in CacheConfigs /\ settings.window \in Nat /\ settings.budget \in Nat
      /\ order \in Seq(Layers) /\ IsInjective(order) /\ layer \in Layers
      /\ pos \in Nat /\ new \in Nat /\ new > 0 /\ n \in Nat /\ n <= MaxPos
      /\ pos \in 0..MaxPos /\ new \in 1..MaxFed
      /\ diskFaults \in 0..MaxDiskFaults /\ diskFaults \in Nat
      /\ keys \in [Layers -> SUBSET Positions] /\ cold \in [Layers -> BOOLEAN]
      /\ coldLen \in [Layers -> 0..MaxPos] /\ ~cold[layer]
  BY <1>1, KVConstants, SettingsOK DEF KVInv, KVShape, KVTypeOK
<1>4. /\ StoreOK(manager, n) /\ manager \in Stores /\ \A k \in Layers : keys[k] \subseteq 1..n
  BY DEF KVInv, KVShape, StoreOK
<1>5. /\ \A k \in Layers \ {layer} : ~HasTensors(manager, k)
      /\ \A t \in Tiers : Gap(manager, t) \in 0..Lost(diskFaults, n)
  BY <1>1 DEF KVInv, KVCounters
<1>6. /\ layer' \in Layers /\ pos' \in 0..MaxPos /\ new' \in 1..MaxFed
      /\ stage' \in {"update", "finished"} /\ (stage' = "update" => m <= MaxPos)
      /\ pos <= pos' /\ n <= m
      /\ \A l \in Layers : Seen(l)' = IF l = layer THEN 1..n ELSE Seen(l)
  BY <1>1, <1>3, AdvanceOK
<1> HIDE DEF n, m
<1>7. /\ OneAtMost(f.bad) /\ diskFaults' \in 0..MaxDiskFaults
      /\ diskFaults' = 0 => diskFaults = 0
  BY <1>2, <1>3, FaultsOK
<1>8. pos' \in Nat /\ new' \in Nat /\ m \in Nat
  <2>1. pos' \in Nat /\ new' \in Nat
    BY <1>6, KVConstants
  <2>2. pos' + new' \in Nat
    BY <2>1, NatPlus
  <2>3. m = pos' + new'
    BY DEF m
  <2> QED
    BY <2>1, <2>2, <2>3
<1>9. K \in SUBSET (1..n) /\ K \in SUBSET Positions
  <2>1. K \subseteq 1..n
    BY <1>3, <1>4
  <2>2. 1..n \subseteq Positions
    BY <1>3, KVConstants DEF Positions
  <2> QED
    BY <2>1, <2>2
<1> HIDE DEF K
<1>10. /\ StoreOK(manager', n)
       /\ \A k \in Layers : ~HasTensors(manager', k)
       /\ manager'.entries[layer].kv = Trim(K)
       /\ \A k \in Layers \ {layer} : manager'.entries[k].kv = manager.entries[k].kv
       /\ Grown(manager, manager', f.bad, n)
  <2>1. /\ n \in Nat /\ n <= MaxPos /\ StoreOK(manager, n) /\ order \in Seq(Layers)
        /\ IsInjective(order) /\ settings.window \in Nat /\ layer \in Layers
        /\ K \in SUBSET (1..n) /\ OneAtMost(f.bad)
    BY <1>3, <1>4, <1>7, <1>9
  <2>2. \A k \in Layers \ {layer} : ~HasTensors(manager, k)
    BY <1>5
  <2>3. manager' = MaybeEvict(Put(layer, K, f.bad), layer)
    BY <1>2
  <2> QED
    BY <2>1, <2>2, <2>3, PutOK
<1>11. manager' \in Stores /\ StoreOK(manager', m)
  <2>1. 1..n \subseteq 1..m
    BY <1>3, <1>6, <1>8
  <2> QED
    BY <1>10, <2>1 DEF StoreOK
<1>12. order' \in Seq(Layers) /\ IsInjective(order')
  BY <1>1, <1>3, TouchOK
<1>13. Trim(K) \subseteq K /\ Cardinality(Trim(K)) = ColdLength(Cardinality(K))
  BY <1>3, <1>9, TrimSize
<1>14. ColdLength(Cardinality(K)) \in 0..MaxPos
  <2>1. Cardinality(K) \in Nat /\ Cardinality(K) <= n
    BY <1>3, <1>9, TokensCount
  <2> QED
    BY <1>3, <2>1, KVConstants DEF ColdLength
<1>15. KVShape'
  <2>1. \A k \in Layers : keys'[k] \subseteq 1..m
    <3>1. 1..n \subseteq 1..m
      BY <1>3, <1>6, <1>8
    <3> QED
      BY <1>1, <1>3, <1>4, <3>1
  <2>2. KVTypeOK'
    <3>1. cold' \in [Layers -> BOOLEAN] /\ keys' \in [Layers -> SUBSET Positions]
      BY <1>1, <1>3
    <3>2. coldLen' \in [Layers -> 0..MaxPos]
      BY <1>1, <1>3, <1>14
    <3>3. manager' \in [entries : [Layers -> Entries], bytes : [Tiers -> Int], files : [Layers -> FileStates]]
      BY <1>11 DEF Stores
    <3> QED
      BY <1>1, <1>3, <1>6, <1>7, <1>12, <3>1, <3>2, <3>3 DEF KVTypeOK
  <2>3. stage' \in {"update", "compress"} => m <= MaxPos
    BY <1>6
  <2>4. StoreOK(manager, pos + new)'
    BY <1>1, <1>11 DEF StoreOK, FilesRight, m
  <2> QED
    BY <1>6, <1>12, <2>1, <2>2, <2>3, <2>4 DEF KVShape, m
<1>16. KVCounters'
  <2>1. \A t \in Tiers : Gap(manager, t)' \in 0..Lost(diskFaults', m)
    BY <1>1, <1>2, <1>3, <1>4, <1>5, <1>6, <1>8, <1>10, <1>11, CountersGrow
  <2>2. \A k \in Layers : ~HasTensors(manager, k)'
    BY <1>1, <1>10 DEF HasTensors
  <2> QED
    BY <2>1, <2>2 DEF KVCounters, Lost, m
<1>17. LengthTruthful'
  <2>1. ASSUME NEW k \in Layers, cold'[k] PROVE coldLen'[k] = Cardinality(manager'.entries[k].kv)
    <3>1. CASE k = layer
      BY <1>1, <1>3, <1>10, <1>13, <3>1
    <3>2. CASE k # layer
      <4>1. cold[k] /\ stage # "cleared"
        BY <1>1, <1>3, <2>1, <3>2
      <4>2. coldLen[k] = Cardinality(manager.entries[k].kv)
        BY <4>1 DEF KVInv, LengthTruthful
      <4> QED
        BY <1>1, <1>3, <1>10, <3>2, <4>2
    <3> QED
      BY <3>1, <3>2
  <2> QED
    BY <2>1 DEF LengthTruthful
<1>18. CacheLossless'
  <2>1. SUFFICES ASSUME settings.int4 \/ Fits', settings.window = 0, diskFaults' = 0, NEW k \in Layers
                 PROVE  Present(k)' = Seen(k)'
    BY <1>1 DEF CacheLossless, KVBitIdentical
  <2>2. Fits' => Fits
    <3>1. Fits' => Room(pos', m) <= settings.budget
      BY <1>1 DEF Fits, Room, m
    <3>2. Room(pos, n) <= Room(pos', m) /\ Room(pos, n) \in Nat /\ Room(pos', m) \in Nat
      BY <1>3, <1>6, <1>8, RoomGrows
    <3>3. Room(pos, n) <= settings.budget => Fits
      BY DEF Fits, Room, n
    <3> QED
      BY <1>3, <3>1, <3>2, <3>3
  <2>3. \A l \in Layers : Present(l) = Seen(l)
    BY <1>1, <1>7, <2>1, <2>2 DEF KVInv, CacheLossless, KVBitIdentical
  <2>4. CASE k # layer
    <3>1. cold'[k] = cold[k] /\ keys'[k] = keys[k]
      BY <1>1, <1>3, <2>4
    <3>2. Present(k)' = Present(k)
      BY <1>10, <2>4, <3>1 DEF Present
    <3> QED
      BY <1>6, <2>3, <2>4, <3>2
  <2>5. CASE k = layer
    <3>1. Present(k)' = Trim(K)
      BY <1>1, <1>3, <1>10, <2>5 DEF Present
    <3>2. Trim(K) = K
      BY <2>1 DEF Trim
    <3>3. Seen(layer) = 1..n
      BY <1>1, <1>3 DEF Seen, n, Layers
    <3>4. K = Seen(layer)
      BY <1>3, <2>3 DEF Present, K
    <3> QED
      BY <1>6, <2>5, <3>1, <3>2, <3>3, <3>4
  <2> QED
    BY <2>4, <2>5
<1>19. FewTorn'
  BY <1>2, <1>3, <1>10, TornGrows DEF KVInv, Grown
<1> QED
  BY <1>15, <1>16, <1>17, <1>18, <1>19 DEF KVInv

\* clear(), and steps of the rest of the system.
LEMMA ClearKV == ASSUME KVInv, Clear PROVE KVInv'
<1> DEFINE F == Unlinked(manager, Layers)
           u == [EmptyStore EXCEPT !.files = F]
<1>1. /\ manager' = u /\ order' = <<>> /\ stage' = "cleared"
      /\ UNCHANGED <<settings, keys, cold, coldLen, layer, pos, new, diskFaults>>
  BY DEF Clear
<1>11. F \in [Layers -> FileStates] /\ \A l \in Layers : F[l] # "whole"
  BY DEF Unlinked, FileStates, KVInv, KVShape, StoreOK, Stores, FilesRight
<1> HIDE DEF F
<1>12. EmptyStore \in Stores
  BY DEF EmptyStore, Stores, Entries, NoEntry, FileStates
<1>13. u \in Stores /\ u.entries = EmptyStore.entries /\ u.bytes = EmptyStore.bytes /\ u.files = F
  BY <1>11, <1>12 DEF Stores
<1> HIDE DEF u
<1>2. \A l \in Layers : u.entries[l].loc = "none" /\ u.entries[l].kv = {}
  BY <1>13 DEF EmptyStore, NoEntry
<1>3. FilesRight(u) /\ \A l \in Layers : ~HasTensors(u, l)
  BY <1>2, <1>11, <1>13 DEF FilesRight, HasTensors
<1>4. KVTypeOK /\ KVShape
  BY DEF KVInv, KVShape
<1>5. manager' \in [entries : [Layers -> Entries], bytes : [Tiers -> Int], files : [Layers -> FileStates]]
  BY <1>1, <1>13 DEF Stores
<1>6. KVTypeOK'
  BY <1>1, <1>4, <1>5 DEF KVTypeOK
<1>7. StoreOK(manager, pos + new)'
  BY <1>1, <1>2, <1>3, <1>13 DEF StoreOK, FilesRight
<1>8. IsInjective(<<>>)
  BY DEF IsInjective
<1>9. KVShape'
  BY <1>1, <1>4, <1>6, <1>7, <1>8 DEF KVShape
<1>10. KVCounters'
  <2>1. \A t \in Tiers : Gap(manager, t)' = 0
    <3>1. \A t \in Tiers : Gap(u, t) = Gap(EmptyStore, t)
      BY <1>13 DEF Gap, Held
    <3> QED
      BY <1>1, <3>1, EmptyGap, GapPrime
  <2>2. Lost(diskFaults', pos' + new') \in Nat
    <3>1. diskFaults' \in Nat /\ pos' \in Nat /\ new' \in Nat
      BY <1>6, KVConstants DEF KVTypeOK
    <3>2. pos' + new' \in Nat
      BY <3>1, NatPlus
    <3> QED
      BY <3>1, <3>2, LostNat
  <2>3. \A l \in Layers : ~HasTensors(manager, l)'
    BY <1>1, <1>3 DEF HasTensors
  <2> QED
    BY <2>1, <2>2, <2>3 DEF KVCounters, Lost
<1>14. FewTorn'
  <2>1. Torn(u) \subseteq Torn(manager)
    BY <1>13 DEF Torn, Unlinked, F
  <2>2. IsFiniteSet(Torn(manager))
    BY LayersFinite, FS_Subset DEF Torn
  <2>3. Cardinality(Torn(u)) <= Cardinality(Torn(manager)) /\ Cardinality(Torn(u)) \in Nat
    BY <2>1, <2>2, FS_Subset, FS_CardinalityType
  <2>4. Cardinality(Torn(manager)) \in Nat /\ diskFaults \in Nat
    BY <1>4, <2>2, FS_CardinalityType, KVConstants DEF KVTypeOK
  <2>5. Torn(manager') = Torn(u)
    BY <1>1
  <2> QED
    BY <1>1, <2>3, <2>4, <2>5 DEF KVInv, FewTorn
<1> QED
  BY <1>1, <1>9, <1>10, <1>14 DEF KVInv, LengthTruthful, CacheLossless, KVBitIdentical

LEMMA IdleKV == ASSUME KVInv, UNCHANGED kvVars PROVE KVInv'
<1> USE DEF kvVars, sweepVars
<1>1. KVTypeOK' /\ StoreOK(manager, pos + new)'
  BY DEF KVInv, KVShape, KVTypeOK, StoreOK, FilesRight
<1>2. KVShape'
  BY <1>1 DEF KVInv, KVShape
<1>5. FewTorn'
  BY DEF KVInv, FewTorn, Torn
<1>3. KVCounters'
  <2>1. \A t \in Tiers : Gap(manager, t)' = Gap(manager, t)
    BY GapPrime
  <2>2. \A l \in Layers : HasTensors(manager, l)' <=> HasTensors(manager, l)
    BY DEF HasTensors
  <2> QED
    BY <2>1, <2>2 DEF KVInv, KVCounters, Lost, Usage
<1>4. LengthTruthful' /\ CacheLossless'
  BY DEF KVInv, LengthTruthful, CacheLossless, KVBitIdentical, Fits, Present, Seen
<1> QED
  BY <1>2, <1>3, <1>4, <1>5 DEF KVInv

\* The invariant of the compressed cache is one.
THEOREM KVInvariance == KVSpec => []KVInv
<1>1. KVInit => KVInv
  BY KVInitially
<1>2. KVInv /\ [KVNext]_kvVars => KVInv'
  BY UpdateKV, CompressKV, ClearKV, IdleKV DEF KVNext
<1> QED
  BY <1>1, <1>2, PTL DEF KVSpec

\* The manager's entries, counters and spill files, and what the cache layers keep
\* of them, are always of their kinds: no counter of KVCacheManager is anything
\* but a number of bytes, no length is longer than the sequence.
THEOREM KVTypeCorrect == KVSpec => []KVTypeOK
<1>1. KVInv => KVTypeOK
  BY DEF KVInv, KVShape
<1> QED
  BY <1>1, KVInvariance, PTL

\* The directory holds a spill file for the layers on disk and for no other: none
\* is left behind by set(), get() or clear(), and none is missing when get()
\* comes to read it, also when the writes and reads of others failed.
THEOREM SpillFilesAreTracked == KVSpec => []SpillFilesTracked
<1>1. KVInv => SpillFilesTracked
  BY DEF KVInv, KVShape, StoreOK, FilesRight, FewTorn, SpillFilesTracked
<1> QED
  BY <1>1, KVInvariance, PTL

\* _enforce_budget() keeps its promise for any budget, window, tiering and
\* number of layers: over budget nothing is left unpacked, and the counters it
\* decides by miss at most a packed layer for each spill that failed.
THEOREM BudgetIsEnforced == KVSpec => []BudgetEnforced
<1>1. ASSUME KVInv PROVE BudgetEnforced
  <2>1. manager \in Stores /\ settings.budget \in Nat
    BY <1>1, SettingsOK DEF KVInv, KVShape, KVTypeOK, Stores
  <2>2. Usage(manager) \in Int
    BY <2>1 DEF Stores, Usage, Tiers
  <2>3. Usage(manager) > settings.budget => \A l \in Layers : ~HasTensors(manager, l)
    BY <1>1, <2>1, <2>2 DEF KVInv, KVCounters
  <2>4. \A t \in Tiers : Held(manager, t) - manager.bytes[t]
                            \in 0..(diskFaults * PackedBytes * (pos + new))
    BY <1>1 DEF KVInv, KVCounters, Gap, Lost
  <2> QED
    BY <2>3, <2>4 DEF BudgetEnforced
<1> QED
  BY <1>1, KVInvariance, PTL

\* CompressedDynamicCache gives back what it was given as long as one unpacked
\* layer fits in the budget beside the packed others, and get_seq_length() never
\* differs from what is held.
THEOREM CacheIsFaithful == KVSpec => []KVFaithful
<1>1. KVInv => KVFaithful
  BY DEF KVInv, KVFaithful
<1> QED
  BY <1>1, KVInvariance, PTL

-----------------------------------------------------------------------------
(* The chat: what the history amounts to.                                  *)

Tokens == AnswerIds \cup {User, Assistant, Think, Stopped, Space} \cup UNION {Range(i) : i \in Inputs}
Texts == Seq(Tokens)
Messages == [role : {User, Assistant}, content : Texts]

Said(ids, m, sep) == ids \o <<m.role>> \o sep \o m.content
ToldBy(h, ms, sep) ==
    /\ h[0] = <<>> /\ h[Len(ms)] = Transcript(ms, sep)
    /\ \A i \in 1..Len(ms) : h[i] = Said(h[i - 1], ms[i], sep)

LEMMA InputTexts == Inputs \subseteq Texts
<1>1. ASSUME NEW i \in Inputs PROVE i \in Texts
  <2>1. i \in Seq(Range(i)) /\ Range(i) \subseteq Tokens
    BY ChatAssumption DEF Tokens
  <2>2. DOMAIN i = 1..Len(i) /\ Len(i) \in Nat /\ \A j \in 1..Len(i) : i[j] \in Tokens
    BY <2>1 DEF Range
  <2> QED
    BY <2>1, <2>2 DEF Texts
<1> QED
  BY <1>1

LEMMA SaidTexts ==
    ASSUME NEW ids \in Texts, NEW m \in Messages, NEW sep \in Texts
    PROVE  Said(ids, m, sep) \in Texts
<1>1. m.role \in Tokens /\ m.content \in Texts
  BY DEF Messages, Tokens
<1>2. <<m.role>> \in Texts
  BY <1>1 DEF Texts
<1>3. ids \o <<m.role>> \in Texts
  BY <1>2 DEF Texts
<1>4. ids \o <<m.role>> \o sep \in Texts
  BY <1>3 DEF Texts
<1> QED
  BY <1>1, <1>4 DEF Said, Texts

LEMMA TranscriptSteps ==
    ASSUME NEW ms \in Seq(Messages), NEW sep \in Texts
    PROVE  \E h \in [0..Len(ms) -> Texts] : ToldBy(h, ms, sep)
<1> DEFINE n == Len(ms)
           g == [x \in (1..n) \X Texts |-> Said(x[2], ms[x[1]], sep)]
           Iter(f) == f = [x \in SUBSET DOMAIN ms |->
                              IF x = {} THEN <<>>
                              ELSE f[x \ {Max(x)}] \o <<ms[Max(x)].role>> \o sep \o ms[Max(x)].content]
           iter == CHOOSE f : Iter(f)
<1>1. Transcript(ms, sep) = iter[DOMAIN ms]
  BY Zenon DEF Transcript, FoldLeft, MapThenFoldSet
<1>2. DOMAIN ms = 1..n /\ n \in Nat /\ \A i \in 1..n : ms[i] \in Messages
  OBVIOUS
<1>3. g \in [(1..n) \X Texts -> Texts]
  BY <1>2, SaidTexts
<1>4. ASSUME NEW x \in SUBSET (1..n), x # {} PROVE Max(x) \in 1..n
  BY <1>2, <1>4, MaxIn
<1> HIDE DEF n
<1>5. <<>> \in Texts
  BY DEF Texts
<1>6. PICK f \in [SUBSET (1..n) -> Texts] : FoldsBy(f, Texts, n, <<>>, g)
  BY <1>2, <1>3, <1>5, FoldExists
<1>7. Iter(f)
  <2>1. ASSUME NEW x \in SUBSET (1..n), x # {}
        PROVE  f[x] = Said(f[x \ {Max(x)}], ms[Max(x)], sep)
    <3>1. <<Max(x), f[x \ {Max(x)}]>> \in (1..n) \X Texts
      BY <1>4, <2>1
    <3>2. f[x] = g[<<Max(x), f[x \ {Max(x)}]>>]
      BY <1>6, <2>1, <3>1 DEF FoldsBy
    <3> QED
      BY <3>1, <3>2
  <2>2. f = [x \in SUBSET DOMAIN ms |-> IF x = {} THEN <<>> ELSE Said(f[x \ {Max(x)}], ms[Max(x)], sep)]
    BY <1>2, <1>6, <2>1 DEF FoldsBy
  <2> HIDE DEF g
  <2> QED
    BY <2>2 DEF Said
<1> HIDE DEF g
<1>8. Iter(iter)
  <2> HIDE DEF Iter
  <2> QED
    BY <1>7
<1> HIDE DEF iter
<1>9. \A x \in SUBSET (1..n) : iter[x] = IF x = {} THEN <<>> ELSE Said(iter[x \ {Max(x)}], ms[Max(x)], sep)
  BY <1>2, <1>8 DEF Said
<1> HIDE DEF Iter
<1>10. ASSUME NEW x \in SUBSET (1..n), x # {}, iter[x \ {Max(x)}] \in Texts
       PROVE  iter[x] = g[<<Max(x), iter[x \ {Max(x)}]>>]
  <2>1. <<Max(x), iter[x \ {Max(x)}]>> \in (1..n) \X Texts
    BY <1>4, <1>10
  <2> QED
    BY <1>9, <1>10, <2>1 DEF g
<1>11. FoldsBy(iter, Texts, n, <<>>, g)
  BY <1>9, <1>10 DEF FoldsBy
<1>12. PICK h \in [0..n -> Texts] : StepsTo(iter[1..n], h, n, <<>>, g)
  BY <1>2, <1>3, <1>5, <1>11, FoldSteps
<1>13. ASSUME NEW i \in 1..n PROVE h[i] = Said(h[i - 1], ms[i], sep)
  <2>1. <<i, h[i - 1]>> \in (1..n) \X Texts
    BY <1>2, <1>12
  <2>2. h[i] = g[<<i, h[i - 1]>>]
    BY <1>12 DEF StepsTo
  <2> QED
    BY <2>1, <2>2 DEF g
<1>14. h[0] = <<>> /\ h[n] = Transcript(ms, sep)
  BY <1>1, <1>2, <1>12 DEF StepsTo
<1>15. ToldBy(h, ms, sep)
  BY <1>13, <1>14 DEF ToldBy, n
<1> QED
  BY <1>15 DEF n

\* A history and two messages more.
LEMMA TranscriptGrows ==
    ASSUME NEW ms \in Seq(Messages), NEW a \in Messages, NEW b \in Messages,
           NEW sep \in Texts
    PROVE  /\ Transcript(ms, sep) \in Texts
           /\ ms \o <<a, b>> \in Seq(Messages)
           /\ Transcript(ms \o <<a, b>>, sep) = Said(Said(Transcript(ms, sep), a, sep), b, sep)
<1> DEFINE n == Len(ms)
           us == ms \o <<a, b>>
<1>1. /\ us \in Seq(Messages) /\ Len(us) = n + 2 /\ n \in Nat
      /\ \A i \in 1..n : us[i] = ms[i]
      /\ us[n + 1] = a /\ us[n + 2] = b
  OBVIOUS
<1>2. PICK h \in [0..n -> Texts] : ToldBy(h, ms, sep)
  BY TranscriptSteps
<1> HIDE DEF us
<1>3. PICK k \in [0..Len(us) -> Texts] : ToldBy(k, us, sep)
  BY <1>1, TranscriptSteps
<1> DEFINE Same == {i \in Nat : i <= n => h[i] = k[i]}
<1>4. h[0] = k[0]
  BY <1>2, <1>3 DEF ToldBy
<1>5. ASSUME NEW i \in Nat, i + 1 <= n, h[i] = k[i] PROVE h[i + 1] = k[i + 1]
  <2>1. i + 1 \in 1..n /\ i + 1 \in 1..Len(us) /\ (i + 1) - 1 = i
    BY <1>1, <1>5
  <2>2. h[i + 1] = Said(h[i], ms[i + 1], sep)
    BY <1>2, <2>1 DEF ToldBy
  <2>3. k[i + 1] = Said(k[i], us[i + 1], sep)
    BY <1>3, <2>1 DEF ToldBy
  <2> QED
    BY <1>1, <1>5, <2>1, <2>2, <2>3
<1>6. 0 \in Same
  BY <1>1, <1>4
<1>7. \A i \in Same : i + 1 \in Same
  BY <1>1, <1>5
<1>8. Nat \subseteq Same
  <2> HIDE DEF Same
  <2> QED
    BY <1>6, <1>7, NatSet
<1>9. h[n] = k[n]
  <2>1. n \in Same /\ n <= n
    BY <1>1, <1>8
  <2> QED
    BY <2>1
<1>10. n + 1 \in 1..Len(us) /\ n + 2 \in 1..Len(us) /\ (n + 1) - 1 = n /\ (n + 2) - 1 = n + 1
  BY <1>1
<1>11. k[n + 1] = Said(k[n], a, sep)
  BY <1>1, <1>3, <1>10 DEF ToldBy
<1>12. k[n + 2] = Said(k[n + 1], b, sep)
  BY <1>1, <1>3, <1>10 DEF ToldBy
<1>13. Transcript(us, sep) = k[n + 2] /\ Transcript(ms, sep) = h[n]
  BY <1>1, <1>2, <1>3 DEF ToldBy
<1>14. h[n] \in Texts
  BY <1>1, <1>2
<1> QED
  BY <1>1, <1>9, <1>11, <1>12, <1>13, <1>14 DEF us

-----------------------------------------------------------------------------
(* The invariant: while it answers, the prompt is that of the question;    *)
(* after a plain turn, prompt and answer are the history.                  *)

ChatTypeOK ==
    /\ session \in [messages : Seq(Messages), thinking : BOOLEAN]
    /\ line \in Texts /\ text \in Texts /\ chatPrompt \in Texts
ChatInv ==
    /\ ChatTypeOK
    /\ chatPhase = "answering" => chatPrompt = FormatChatPrompt(line)
    /\ plainly /\ chatPhase = "prompt" =>
           chatPrompt \o AfterRole \o text = Transcript(session.messages, AfterRole)

LEMMA AfterRoleText == AfterRole \in Texts
<1>1. Space \in Tokens
  BY DEF Tokens
<1>2. <<Space>> \in Seq(Tokens) /\ <<>> \in Seq(Tokens)
  BY <1>1
<1> QED
  BY <1>2 DEF AfterRole, Texts

LEMMA PromptText ==
    ASSUME ChatTypeOK, NEW input \in Texts
    PROVE  /\ FormatChatPrompt(input) \in Texts
           /\ ~session.thinking =>
                  FormatChatPrompt(input) =
                      Transcript(session.messages, AfterRole) \o <<User>> \o AfterRole \o input \o <<Assistant>>
<1> DEFINE t == Transcript(session.messages, AfterRole)
           p == t \o <<User>> \o AfterRole \o input \o <<Assistant>>
           tail == IF template /\ session.thinking THEN <<Think>> ELSE <<>>
<1>1. t \in Texts
  <2>1. session.messages \in Seq(Messages)
    BY DEF ChatTypeOK
  <2>2. PICK h \in [0..Len(session.messages) -> Texts] : ToldBy(h, session.messages, AfterRole)
    BY <2>1, AfterRoleText, TranscriptSteps
  <2>3. Len(session.messages) \in 0..Len(session.messages)
    BY <2>1
  <2> QED
    BY <2>2, <2>3 DEF ToldBy
<1>2. <<User>> \in Texts /\ <<Assistant>> \in Texts /\ tail \in Texts
  <2>1. \A x \in {User, Assistant, Think} : <<x>> \in Texts
    BY DEF Texts, Tokens
  <2>2. <<>> \in Texts
    BY DEF Texts
  <2> QED
    BY <2>1, <2>2
<1> HIDE DEF t, tail
<1>3. p \in Texts
  BY <1>1, <1>2, AfterRoleText DEF Texts
<1>4. FormatChatPrompt(input) = p \o tail
  BY DEF FormatChatPrompt, t, tail
<1>5. ~session.thinking => tail = <<>>
  BY DEF tail
<1> HIDE DEF p
<1>6. p \o tail \in Texts /\ p \o <<>> = p
  BY <1>2, <1>3 DEF Texts
<1> QED
  BY <1>4, <1>5, <1>6 DEF p, t

LEMMA AskChat == ASSUME ChatInv, NEW input \in Inputs, Ask(input) PROVE ChatInv'
<1>1. /\ chatPhase' = "answering" /\ line' = input /\ text' = <<>>
      /\ chatPrompt' = FormatChatPrompt(input)
      /\ UNCHANGED <<template, session, plainly>>
  BY DEF Ask
<1>2. ChatTypeOK /\ input \in Texts
  BY InputTexts DEF ChatInv
<1>3. FormatChatPrompt(input) \in Texts
  BY <1>2, PromptText
<1>4. ChatTypeOK'
  BY <1>1, <1>2, <1>3 DEF ChatTypeOK, Texts
<1>5. FormatChatPrompt(line)' = FormatChatPrompt(input)
  BY <1>1 DEF FormatChatPrompt, AfterRole
<1> QED
  BY <1>1, <1>4, <1>5 DEF ChatInv

LEMMA ProduceChat == ASSUME ChatInv, Produce PROVE ChatInv'
<1>1. /\ chatPhase = "answering" /\ \E id \in AnswerIds : text' = Append(text, id)
      /\ UNCHANGED <<template, session, line, plainly, chatPhase, chatPrompt>>
  BY DEF Produce, chat
<1>2. text' \in Texts
  BY <1>1 DEF ChatInv, ChatTypeOK, Texts, Tokens
<1> QED
  BY <1>1, <1>2 DEF ChatInv, ChatTypeOK, FormatChatPrompt, AfterRole

\* A turn joins the history.
LEMMA AnswerChat ==
    ASSUME ChatInv, chatPhase = "answering", NEW content \in Texts, Answered(content)
    PROVE  /\ ChatTypeOK' /\ chatPhase' = "prompt"
           /\ content = text /\ ~session.thinking =>
                  (chatPrompt \o AfterRole \o text = Transcript(session.messages, AfterRole))'
<1> DEFINE a == [role |-> User, content |-> line]
           b == [role |-> Assistant, content |-> content]
           t == Transcript(session.messages, AfterRole)
<1>1. /\ session' = [session EXCEPT !.messages = @ \o <<a, b>>]
      /\ chatPhase' = "prompt" /\ text' = content /\ UNCHANGED <<line, chatPrompt, template>>
  BY DEF Answered
<1>2. ChatTypeOK /\ session.messages \in Seq(Messages) /\ line \in Texts
  BY DEF ChatInv, ChatTypeOK
<1>3. a \in Messages /\ b \in Messages /\ a.role = User /\ b.role = Assistant
      /\ a.content = line /\ b.content = content
  BY <1>2 DEF Messages
<1> HIDE DEF a, b
<1>4. /\ session.messages \o <<a, b>> \in Seq(Messages) /\ t \in Texts
      /\ Transcript(session.messages \o <<a, b>>, AfterRole) = Said(Said(t, a, AfterRole), b, AfterRole)
  BY <1>2, <1>3, AfterRoleText, TranscriptGrows
<1>5. session' = [messages |-> session.messages \o <<a, b>>, thinking |-> session.thinking]
  BY <1>1, <1>2 DEF ChatTypeOK
<1>6. ChatTypeOK'
  BY <1>1, <1>2, <1>4, <1>5 DEF ChatTypeOK
<1>7. ASSUME ~session.thinking
      PROVE  chatPrompt \o AfterRole \o content = Transcript(session'.messages, AfterRole)
  <2>1. chatPrompt = t \o <<User>> \o AfterRole \o line \o <<Assistant>>
    BY <1>2, <1>7, PromptText DEF ChatInv
  <2>2. Said(Said(t, a, AfterRole), b, AfterRole) =
            (t \o <<User>> \o AfterRole \o line) \o <<Assistant>> \o AfterRole \o content
    BY <1>3 DEF Said
  <2> QED
    BY <1>4, <1>5, <2>1, <2>2
<1>8. AfterRole' = AfterRole
  BY <1>1 DEF AfterRole
<1> QED
  BY <1>1, <1>6, <1>7, <1>8

LEMMA ChatStep == ASSUME ChatInv, [ChatNext]_chatVars PROVE ChatInv'
<1>1. CASE \E input \in Inputs : Ask(input)
  BY <1>1, AskChat
<1>2. CASE Produce
  BY <1>2, ProduceChat
<1>3. CASE FinishAnswer
  <2>1. /\ chatPhase = "answering" /\ Answered(text) /\ plainly' = ~session.thinking /\ text \in Texts
    BY <1>3 DEF FinishAnswer, ChatInv, ChatTypeOK
  <2> QED
    BY <2>1, AnswerChat DEF ChatInv
<1>4. CASE Stop
  <2>1. /\ chatPhase = "answering" /\ Answered(Append(text, Stopped)) /\ plainly' = FALSE
        /\ Append(text, Stopped) \in Texts
    BY <1>4 DEF Stop, ChatInv, ChatTypeOK, Texts, Tokens
  <2> QED
    BY <2>1, AnswerChat DEF ChatInv
<1>5. CASE Fail
  <2>1. chatPhase' = "left" /\ UNCHANGED <<session, line, text, chatPrompt>>
    BY <1>5 DEF Fail, chat
  <2> QED
    BY <2>1 DEF ChatInv, ChatTypeOK
<1>6. CASE Slash
  <2>1. chatPhase = "prompt" /\ plainly' = FALSE /\ UNCHANGED <<line, text, chatPrompt, chatPhase>>
    BY <1>6 DEF Slash
  <2>2. session' \in [messages : Seq(Messages), thinking : BOOLEAN]
    <3>1. session \in [messages : Seq(Messages), thinking : BOOLEAN]
      BY DEF ChatInv, ChatTypeOK
    <3>2. CASE session' = [session EXCEPT !.messages = <<>>]
      <4>1. <<>> \in Seq(Messages)
        OBVIOUS
      <4>2. session' = [messages |-> <<>>, thinking |-> session.thinking]
        BY <3>1, <3>2
      <4>3. session.thinking \in BOOLEAN
        BY <3>1
      <4> QED
        BY <4>1, <4>2, <4>3
    <3>3. CASE session' = [session EXCEPT !.thinking = ~@]
      BY <3>1, <3>3
    <3> QED
      BY <1>6, <3>2, <3>3 DEF Slash
  <2> QED
    BY <2>1, <2>2 DEF ChatInv, ChatTypeOK
<1>7. CASE Exit
  <2>1. chatPhase' = "left" /\ UNCHANGED <<session, line, text, chatPrompt>>
    BY <1>7 DEF Exit, chat
  <2> QED
    BY <2>1 DEF ChatInv, ChatTypeOK
<1>8. CASE UNCHANGED chatVars
  BY <1>8 DEF chatVars, chat, ChatInv, ChatTypeOK, FormatChatPrompt, AfterRole
<1> QED
  BY <1>1, <1>2, <1>3, <1>4, <1>5, <1>6, <1>7, <1>8 DEF ChatNext

THEOREM ChatInvariance == ChatSpec => []ChatInv
<1>1. ChatInit => ChatInv
  BY DEF ChatInit, ChatInv, ChatTypeOK, Texts, Messages
<1> QED
  BY <1>1, ChatStep, PTL DEF ChatSpec

\* chat.py's prompts: the next one begins with the prompt and the answer of the
\* last turn, in the plain script with its space between the two, whatever is typed
\* and answered, with any template and any history.
THEOREM PromptsResendTheirPrefix == ChatSpec => ResendsPrefix
<1> DEFINE Resent == \A input \in Inputs :
               Ask(input) /\ plainly /\ ~session.thinking =>
                   IsPrefix(chatPrompt \o AfterRole \o text, chatPrompt')
<1>1. ASSUME ChatInv PROVE Resent
  <2>1. SUFFICES ASSUME NEW input \in Inputs, Ask(input), plainly, ~session.thinking
                 PROVE  IsPrefix(chatPrompt \o AfterRole \o text, chatPrompt')
    OBVIOUS
  <2> DEFINE p == chatPrompt \o AfterRole \o text
  <2>2. chatPhase = "prompt" /\ chatPrompt' = FormatChatPrompt(input)
    BY <2>1 DEF Ask
  <2>3. p = Transcript(session.messages, AfterRole)
    BY <1>1, <2>1, <2>2 DEF ChatInv
  <2>4. input \in Texts /\ p \in Texts
    BY <1>1, InputTexts, AfterRoleText DEF ChatInv, ChatTypeOK, Texts
  <2> HIDE DEF p
  <2>5. chatPrompt' = p \o <<User>> \o AfterRole \o input \o <<Assistant>>
    BY <1>1, <2>1, <2>2, <2>3, <2>4, PromptText DEF ChatInv
  <2>6. <<User>> \in Texts /\ <<Assistant>> \in Texts
    BY DEF Texts, Tokens
  <2> DEFINE rest == <<User>> \o AfterRole \o input \o <<Assistant>>
  <2>8. rest \in Texts /\ chatPrompt' = p \o rest
    BY <2>4, <2>5, <2>6, AfterRoleText DEF Texts
  <2> HIDE DEF rest
  <2>7. IsPrefix(p, p \o rest)
    BY <2>4, <2>8 DEF IsPrefix, Texts
  <2> QED
    BY <2>7, <2>8 DEF p
<1>2. ChatInv /\ [ChatNext]_chatVars => [Resent]_chatVars
  BY <1>1
<1> QED
  BY <1>2, ChatInvariance, PTL DEF ChatSpec, ResendsPrefix

-----------------------------------------------------------------------------
(* The batch: the hash of a row, position by position.                     *)

RowCells == [id : Nat, pos : Nat]
NextId(ids) == Pick(Numbered(ids), Fill(Len(ids), 1))

HashBy(h, row, m) ==
    /\ h[0] = 0 /\ h[Len(row)] = Hash(row, m)
    /\ \A i \in 1..Len(row) : h[i] = IF m[i] = 1 THEN Mixed(h[i - 1], row[i]) ELSE h[i - 1]

LEMMA MixedSmall == \A h \in 0..6, x \in RowCells : Mixed(h, x) \in 0..6
<1>1. ASSUME NEW h \in 0..6, NEW x \in RowCells PROVE Mixed(h, x) \in 0..6
  <2> DEFINE y == x.id * (x.pos + 1)
  <2>1. x.id \in Nat /\ x.pos + 1 \in Nat
    BY DEF RowCells
  <2>2. \A a, b \in Nat : a * b \in Nat
    OBVIOUS
  <2>3. y \in Nat
    BY <2>1, <2>2
  <2>4. \A z \in Nat : z % 7 \in 0..6
    OBVIOUS
  <2>5. Mixed(h, x) = (3 * h + y + 1) % 7
    BY DEF Mixed
  <2> HIDE DEF y
  <2>6. 3 * h + y + 1 \in Nat
    BY <2>3
  <2> QED
    BY <2>4, <2>5, <2>6
<1> QED
  BY <1>1

LEMMA HashSteps ==
    ASSUME NEW row \in Seq(RowCells), NEW m
    PROVE  \E h \in [0..Len(row) -> 0..6] : HashBy(h, row, m)
<1> DEFINE n == Len(row)
           V == 0..6
           q == [i \in DOMAIN row |-> i]
           To(x, i) == IF m[i] = 1 THEN Mixed(x, row[i]) ELSE x
           g == [x \in (1..n) \X V |-> To(x[2], x[1])]
           Iter(f) == f = [x \in SUBSET DOMAIN q |->
                              IF x = {} THEN 0
                              ELSE IF m[q[Max(x)]] = 1 THEN Mixed(f[x \ {Max(x)}], row[q[Max(x)]])
                                   ELSE f[x \ {Max(x)}]]
           iter == CHOOSE f : Iter(f)
<1>1. Hash(row, m) = iter[DOMAIN q]
  BY Zenon DEF Hash, FoldLeft, MapThenFoldSet
<1>2. DOMAIN q = 1..n /\ n \in Nat /\ \A i \in 1..n : row[i] \in RowCells /\ q[i] = i
  OBVIOUS
<1>3. g \in [(1..n) \X V -> V]
  BY <1>2, MixedSmall
<1>4. ASSUME NEW x \in SUBSET (1..n), x # {} PROVE Max(x) \in 1..n
  BY <1>2, <1>4, MaxIn
<1>5. 0 \in V
  OBVIOUS
<1> HIDE DEF n, V, q
<1>6. PICK f \in [SUBSET (1..n) -> V] : FoldsBy(f, V, n, 0, g)
  BY <1>2, <1>3, <1>5, FoldExists
<1>7. Iter(f)
  <2>1. ASSUME NEW x \in SUBSET (1..n), x # {}
        PROVE  f[x] = To(f[x \ {Max(x)}], q[Max(x)])
    <3>1. <<Max(x), f[x \ {Max(x)}]>> \in (1..n) \X V /\ q[Max(x)] = Max(x)
      BY <1>2, <1>4, <2>1
    <3>2. f[x] = g[<<Max(x), f[x \ {Max(x)}]>>]
      BY <1>6, <2>1, <3>1 DEF FoldsBy
    <3> QED
      BY <3>1, <3>2
  <2>2. f = [x \in SUBSET DOMAIN q |-> IF x = {} THEN 0 ELSE To(f[x \ {Max(x)}], q[Max(x)])]
    <3> HIDE DEF g, To
    <3>1. f = [x \in SUBSET (1..n) |-> f[x]] /\ f[{}] = 0
      BY <1>6 DEF FoldsBy
    <3>2. \A x \in SUBSET (1..n) : f[x] = IF x = {} THEN 0 ELSE To(f[x \ {Max(x)}], q[Max(x)])
      BY <2>1, <3>1
    <3> QED
      BY <1>2, <3>1, <3>2
  <2> HIDE DEF g
  <2> QED
    BY <2>2
<1> HIDE DEF g
<1>8. Iter(iter)
  <2> HIDE DEF Iter
  <2> QED
    BY <1>7
<1> HIDE DEF iter
<1>9. \A x \in SUBSET (1..n) :
          iter[x] = IF x = {} THEN 0 ELSE To(iter[x \ {Max(x)}], q[Max(x)])
  BY <1>2, <1>8
<1> HIDE DEF Iter
<1>10. ASSUME NEW x \in SUBSET (1..n), x # {}, iter[x \ {Max(x)}] \in V
       PROVE  iter[x] = g[<<Max(x), iter[x \ {Max(x)}]>>]
  <2>1. <<Max(x), iter[x \ {Max(x)}]>> \in (1..n) \X V /\ q[Max(x)] = Max(x)
    BY <1>2, <1>4, <1>10
  <2> QED
    BY <1>9, <1>10, <2>1 DEF g
<1>11. FoldsBy(iter, V, n, 0, g)
  BY <1>9, <1>10 DEF FoldsBy
<1>12. PICK h \in [0..n -> V] : StepsTo(iter[1..n], h, n, 0, g)
  BY <1>2, <1>3, <1>5, <1>11, FoldSteps
<1>13. ASSUME NEW i \in 1..n PROVE h[i] = To(h[i - 1], i)
  <2>1. <<i, h[i - 1]>> \in (1..n) \X V
    BY <1>2, <1>12
  <2>2. h[i] = g[<<i, h[i - 1]>>]
    BY <1>12 DEF StepsTo
  <2> QED
    BY <2>1, <2>2 DEF g
<1>14. h[0] = 0 /\ h[n] = Hash(row, m)
  BY <1>1, <1>2, <1>12 DEF StepsTo
<1>15. HashBy(h, row, m)
  BY <1>13, <1>14 DEF HashBy, n
<1> QED
  BY <1>15 DEF n, V

\* What is masked does not count: a padded row has the hash of what it pads.
PadsBy(row, m, p, cells, ones) ==
    /\ Len(row) = p + Len(cells)
    /\ \A i \in 1..p : m[i] # 1
    /\ \A i \in 1..Len(cells) : m[p + i] = 1 /\ row[p + i] = cells[i] /\ ones[i] = 1

LEMMA HashPadded ==
    ASSUME NEW row \in Seq(RowCells), NEW m, NEW p \in Nat, NEW cells \in Seq(RowCells), NEW ones,
           PadsBy(row, m, p, cells, ones)
    PROVE  Hash(row, m) = Hash(cells, ones)
<1> USE DEF PadsBy
<1> DEFINE n == Len(cells)
<1>1. n \in Nat /\ Len(row) = p + n
  OBVIOUS
<1>2. PICK h \in [0..Len(row) -> 0..6] : HashBy(h, row, m)
  BY HashSteps
<1>3. PICK k \in [0..n -> 0..6] : HashBy(k, cells, ones)
  BY HashSteps
<1> DEFINE A == {i \in Nat : i <= p => h[i] = 0}
           B == {i \in Nat : i <= n => h[p + i] = k[i]}
<1>4. Nat \subseteq A
  <2>1. 0 \in A
    BY <1>2 DEF HashBy
  <2>2. ASSUME NEW i \in A PROVE i + 1 \in A
    <3>1. SUFFICES ASSUME i + 1 <= p PROVE h[i + 1] = 0
      OBVIOUS
    <3>2. i + 1 \in 1..Len(row) /\ i + 1 \in 1..p /\ (i + 1) - 1 = i /\ h[i] = 0
      BY <1>1, <3>1
    <3>3. m[i + 1] # 1
      BY <3>2
    <3>4. h[i + 1] = IF m[i + 1] = 1 THEN Mixed(h[i], row[i + 1]) ELSE h[i]
      BY <1>2, <3>2 DEF HashBy
    <3> QED
      BY <3>2, <3>3, <3>4
  <2> HIDE DEF A
  <2> QED
    BY <2>1, <2>2, NatSet
<1>5. Nat \subseteq B
  <2>1. 0 \in B
    <3>1. h[p] = 0 /\ k[0] = 0 /\ p + 0 = p
      BY <1>3, <1>4 DEF HashBy
    <3> QED
      BY <3>1
  <2>2. ASSUME NEW i \in B PROVE i + 1 \in B
    <3>1. SUFFICES ASSUME i + 1 <= n PROVE h[p + (i + 1)] = k[i + 1]
      OBVIOUS
    <3>2. /\ p + (i + 1) \in 1..Len(row) /\ i + 1 \in 1..n /\ (p + (i + 1)) - 1 = p + i
          /\ (i + 1) - 1 = i /\ h[p + i] = k[i]
      BY <1>1, <3>1
    <3>3. h[p + (i + 1)] = Mixed(h[p + i], cells[i + 1])
      BY <1>2, <3>2 DEF HashBy
    <3>4. k[i + 1] = Mixed(k[i], cells[i + 1])
      BY <1>3, <3>2 DEF HashBy
    <3> QED
      BY <3>2, <3>3, <3>4
  <2> HIDE DEF B
  <2> QED
    BY <2>1, <2>2, NatSet
<1>6. h[p + n] = k[n]
  BY <1>1, <1>5
<1>7. p + n \in 0..Len(row)
  BY <1>1
<1> QED
  BY <1>1, <1>2, <1>3, <1>6, <1>7 DEF HashBy

\* The single run, id by id.
Longer(ids, n, asked) ==
    IF n > 2 /\ Last(ids) = EosId THEN ids ELSE Append(ids, NextId(asked \o ids))
SingleBy(g, asked) ==
    /\ g[0] = <<>> /\ g[batchNew] = Single(asked)
    /\ \A n \in 1..batchNew : g[n] = Longer(g[n - 1], n, asked)

CallOK == target \in [0..6 -> Nat] /\ pad \in Nat /\ batchNew \in Nat /\ prompts \in Seq(Seq(Nat))

LEMMA NextIdNat ==
    ASSUME CallOK, NEW ids \in Seq(Nat)
    PROVE  NextId(ids) \in Nat /\ Numbered(ids) \in Seq(RowCells) /\ Len(Numbered(ids)) = Len(ids)
<1> DEFINE row == Numbered(ids)
           m == Fill(Len(ids), 1)
<1>1. row \in Seq(RowCells) /\ Len(row) = Len(ids)
  <2>1. /\ DOMAIN row = 1..Len(ids) /\ Len(ids) \in Nat
        /\ row = [i \in 1..Len(ids) |-> [id |-> ids[i], pos |-> i - 1]]
    BY DEF Numbered
  <2>2. \A i \in 1..Len(ids) : [id |-> ids[i], pos |-> i - 1] \in RowCells
    BY DEF RowCells
  <2> QED
    BY <2>1, <2>2
<1> HIDE DEF row, m
<1>2. PICK h \in [0..Len(row) -> 0..6] : HashBy(h, row, m)
  BY <1>1, HashSteps
<1>3. Len(row) \in 0..Len(row)
  BY <1>1
<1>4. Hash(row, m) \in 0..6
  BY <1>2, <1>3 DEF HashBy
<1>5. NextId(ids) = target[Hash(row, m)]
  BY DEF NextId, Pick, row, m
<1> QED
  BY <1>1, <1>4, <1>5 DEF CallOK, row

LEMMA SingleSteps ==
    ASSUME CallOK, NEW asked \in Seq(Nat)
    PROVE  \E g \in [0..batchNew -> Seq(Nat)] : SingleBy(g, asked)
<1> DEFINE n == batchNew
           V == Seq(Nat)
           q == [i \in 1..batchNew |-> i]
           g == [x \in (1..n) \X V |-> Longer(x[2], x[1], asked)]
           Iter(f) == f = [x \in SUBSET DOMAIN q |->
                              IF x = {} THEN <<>>
                              ELSE IF q[Max(x)] > 2 /\ Last(f[x \ {Max(x)}]) = EosId
                                   THEN f[x \ {Max(x)}]
                                   ELSE Append(f[x \ {Max(x)}],
                                               Pick(Numbered(asked \o f[x \ {Max(x)}]),
                                                    Fill(Len(asked \o f[x \ {Max(x)}]), 1)))]
           iter == CHOOSE f : Iter(f)
<1>1. Single(asked) = iter[DOMAIN q]
  BY Zenon DEF Single, FoldLeft, MapThenFoldSet
<1>2. DOMAIN q = 1..n /\ n \in Nat /\ \A i \in 1..n : q[i] = i
  BY DEF CallOK
<1>3. g \in [(1..n) \X V -> V]
  <2>1. ASSUME NEW ids \in V, NEW i PROVE Longer(ids, i, asked) \in V
    <3>1. asked \o ids \in Seq(Nat)
      OBVIOUS
    <3>2. NextId(asked \o ids) \in Nat
      BY <3>1, NextIdNat
    <3> QED
      BY <3>2 DEF Longer
  <2> QED
    BY <2>1
<1>4. ASSUME NEW x \in SUBSET (1..n), x # {} PROVE Max(x) \in 1..n
  BY <1>2, <1>4, MaxIn
<1>5. <<>> \in V
  OBVIOUS
<1> HIDE DEF n, V, q
<1>6. PICK f \in [SUBSET (1..n) -> V] : FoldsBy(f, V, n, <<>>, g)
  BY <1>2, <1>3, <1>5, FoldExists
<1>7. Iter(f)
  <2>1. ASSUME NEW x \in SUBSET (1..n), x # {}
        PROVE  f[x] = Longer(f[x \ {Max(x)}], q[Max(x)], asked)
    <3>1. <<Max(x), f[x \ {Max(x)}]>> \in (1..n) \X V /\ q[Max(x)] = Max(x)
      BY <1>2, <1>4, <2>1
    <3>2. f[x] = g[<<Max(x), f[x \ {Max(x)}]>>]
      BY <1>6, <2>1, <3>1 DEF FoldsBy
    <3> QED
      BY <3>1, <3>2
  <2>2. f = [x \in SUBSET DOMAIN q |-> IF x = {} THEN <<>> ELSE Longer(f[x \ {Max(x)}], q[Max(x)], asked)]
    BY <1>2, <1>6, <2>1 DEF FoldsBy
  <2> HIDE DEF g
  <2> QED
    BY <2>2 DEF Longer, NextId
<1> HIDE DEF g
<1>8. Iter(iter)
  <2> HIDE DEF Iter
  <2> QED
    BY <1>7
<1> HIDE DEF iter
<1>9. \A x \in SUBSET (1..n) :
          iter[x] = IF x = {} THEN <<>> ELSE Longer(iter[x \ {Max(x)}], q[Max(x)], asked)
  BY <1>2, <1>8 DEF Longer, NextId
<1> HIDE DEF Iter
<1>10. ASSUME NEW x \in SUBSET (1..n), x # {}, iter[x \ {Max(x)}] \in V
       PROVE  iter[x] = g[<<Max(x), iter[x \ {Max(x)}]>>]
  <2>1. <<Max(x), iter[x \ {Max(x)}]>> \in (1..n) \X V /\ q[Max(x)] = Max(x)
    BY <1>2, <1>4, <1>10
  <2> QED
    BY <1>9, <1>10, <2>1 DEF g
<1>11. FoldsBy(iter, V, n, <<>>, g)
  BY <1>9, <1>10 DEF FoldsBy
<1>12. PICK h \in [0..n -> V] : StepsTo(iter[1..n], h, n, <<>>, g)
  BY <1>2, <1>3, <1>5, <1>11, FoldSteps
<1>13. ASSUME NEW i \in 1..n PROVE h[i] = Longer(h[i - 1], i, asked)
  <2>1. <<i, h[i - 1]>> \in (1..n) \X V
    BY <1>2, <1>12
  <2>2. h[i] = g[<<i, h[i - 1]>>]
    BY <1>12 DEF StepsTo
  <2> QED
    BY <2>1, <2>2 DEF g
<1>14. h[0] = <<>> /\ h[n] = Single(asked)
  BY <1>1, <1>2, <1>12 DEF StepsTo
<1>15. SingleBy(h, asked)
  BY <1>13, <1>14 DEF SingleBy, n
<1> QED
  BY <1>15 DEF n, V

-----------------------------------------------------------------------------
(* The rows of a batch, c columns after the prompts.                       *)

Text(ids, r, n) == [i \in 1..(Len(prompts[r]) + n) |-> ids[r][Padding(r) + i]]
Over(ids, r, n) == \E k \in 1..n : ids[r][Width + k] = EosId
NextOf(ids, r, n) == IF Over(ids, r, n) THEN pad ELSE NextId(Text(ids, r, n))

\* What a row consists of: padding, prompt, and one pick after the other.
RowOK(ids, m, r, c) ==
    /\ ids[r] \in Seq(Nat) /\ Len(ids[r]) = Width + c
    /\ \A i \in 1..Len(prompts[r]) : ids[r][Padding(r) + i] = prompts[r][i]
    /\ m[r] \in Seq({0, 1}) /\ Len(m[r]) = Width + c
    /\ \A i \in 1..(Width + c) : m[r][i] = 1 <=> i > Padding(r)
    /\ \A j \in 1..c : ids[r][Width + j] = NextOf(ids, r, j - 1)

CellsOK(row, ids, r, n) ==
    /\ row \in Seq(RowCells) /\ Len(row) = n
    /\ \A i \in 1..n : i > Padding(r) => row[i] = [id |-> ids[r][i], pos |-> i - Padding(r) - 1]

LEMMA WidthOK ==
    ASSUME CallOK, prompts # <<>>
    PROVE  /\ Width \in Nat /\ 1 \in RowsOf
           /\ \A r \in RowsOf : /\ prompts[r] \in Seq(Nat) /\ Len(prompts[r]) \in Nat
                                /\ Padding(r) \in Nat /\ Padding(r) + Len(prompts[r]) = Width
<1> DEFINE L == {Len(prompts[r]) : r \in RowsOf}
<1>1. /\ RowsOf = 1..Len(prompts) /\ Len(prompts) \in Nat /\ Len(prompts) > 0
      /\ \A r \in RowsOf : prompts[r] \in Seq(Nat)
  BY DEF CallOK, RowsOf
<1>2. \A r \in RowsOf : Len(prompts[r]) \in Nat
  BY <1>1
<1>3. 1 \in RowsOf
  BY <1>1
<1>4. \E k \in RowsOf : \A i \in RowsOf : Len(prompts[k]) >= Len(prompts[i])
  <2> DEFINE T(n) == \E k \in 1..n : \A i \in 1..n : Len(prompts[k]) >= Len(prompts[i])
             S == {n \in Nat : 0 < n /\ n <= Len(prompts) => T(n)}
  <2>1. 0 \in S
    OBVIOUS
  <2>2. ASSUME NEW n \in S PROVE n + 1 \in S
    <3>1. SUFFICES ASSUME n + 1 <= Len(prompts) PROVE T(n + 1)
      OBVIOUS
    <3>2. n \in Nat /\ \A i \in 1..(n + 1) : Len(prompts[i]) \in Nat /\ (i \in 1..n \/ i = n + 1)
      BY <1>1, <1>2, <3>1
    <3>3. CASE n = 0
      BY <3>2, <3>3
    <3>4. CASE n > 0
      <4>1. PICK k \in 1..n : \A i \in 1..n : Len(prompts[k]) >= Len(prompts[i])
        BY <1>1, <3>1, <3>2, <3>4
      <4>2. CASE Len(prompts[k]) >= Len(prompts[n + 1])
        <5>1. k \in 1..(n + 1) /\ \A i \in 1..(n + 1) : Len(prompts[k]) >= Len(prompts[i])
          BY <3>2, <4>1, <4>2
        <5> QED
          BY <5>1
      <4>3. CASE ~(Len(prompts[k]) >= Len(prompts[n + 1]))
        <5>1. n + 1 \in 1..(n + 1) /\ k \in 1..(n + 1)
          BY <3>2
        <5>2. \A i \in 1..(n + 1) : Len(prompts[n + 1]) >= Len(prompts[i])
          BY <3>2, <4>1, <4>3, <5>1
        <5> QED
          BY <5>1, <5>2
      <4> QED
        BY <4>2, <4>3
    <3> QED
      BY <3>2, <3>3, <3>4
  <2> HIDE DEF S
  <2>3. Nat \subseteq S
    BY <2>1, <2>2, NatSet
  <2>4. Len(prompts) \in S
    BY <1>1, <2>3
  <2>5. T(Len(prompts))
    <3> HIDE DEF T
    <3> QED
      BY <1>1, <2>4 DEF S
  <2> QED
    BY <1>1, <2>5
<1>5. L \in SUBSET Int
  BY <1>2
<1>6. PICK k \in RowsOf : \A i \in RowsOf : Len(prompts[k]) >= Len(prompts[i])
  BY <1>4
<1>7. PICK m \in L : m \in Nat /\ \A y \in L : m >= y
  BY <1>2, <1>6
<1>8. Max(L) = m
  BY <1>5, <1>7, MaxOf
<1>9. Width = m /\ m \in Nat
  BY <1>5, <1>7, <1>8 DEF Width
<1>10. ASSUME NEW r \in RowsOf PROVE Padding(r) \in Nat /\ Padding(r) + Len(prompts[r]) = Width
  BY <1>2, <1>7, <1>9 DEF Padding
<1> QED
  BY <1>1, <1>2, <1>3, <1>9, <1>10

\* position_ids of what is attended to count from 0.
LEMMA PositionOK ==
    ASSUME NEW m, NEW p \in Nat, NEW n \in Nat, \A j \in 1..n : m[j] = 1 <=> j > p, NEW i \in 1..n
    PROVE  Position(m, i) \in Nat /\ (i > p => Position(m, i) = i - p - 1)
<1> DEFINE A == {j \in 1..i : m[j] = 1}
<1>1. CASE i > p
  <2>1. A = (p + 1)..i
    BY <1>1
  <2>2. Cardinality((p + 1)..i) = i - p
    <3>1. p + 1 \in Int /\ i \in Int /\ p + 1 <= i
      BY <1>1
    <3>2. Cardinality((p + 1)..i) = IF p + 1 > i THEN 0 ELSE i - (p + 1) + 1
      BY <3>1, FS_Interval
    <3> QED
      BY <1>1, <3>1, <3>2
  <2>3. Cardinality(A) = i - p
    BY <2>1, <2>2
  <2> HIDE DEF A
  <2>4. Position(m, i) = IF Cardinality(A) - 1 < 0 THEN 0 ELSE Cardinality(A) - 1
    BY DEF Position, A
  <2> QED
    BY <1>1, <2>3, <2>4
<1>2. CASE ~(i > p)
  <2>1. A = {}
    BY <1>2
  <2>2. Cardinality(A) = 0
    BY <2>1, FS_EmptySet
  <2> HIDE DEF A
  <2>3. Position(m, i) = IF Cardinality(A) - 1 < 0 THEN 0 ELSE Cardinality(A) - 1
    BY DEF Position, A
  <2> QED
    BY <1>2, <2>2, <2>3
<1> QED
  BY <1>1, <1>2

\* What the sweep feeds completes the cells of a row.
LEMMA FeedOK ==
    ASSUME CallOK, prompts # <<>>, NEW r \in RowsOf, NEW c \in Nat, NEW ids, NEW m, RowOK(ids, m, r, c),
           NEW n \in Nat, n <= Width + c, NEW row, CellsOK(row, ids, r, n)
    PROVE  CellsOK(FeedRow(row, ids[r], m[r], n + 1), ids, r, Width + c)
<1> DEFINE w == Width + c
           d == w - n
           fed == [i \in 1..d |-> [id |-> ids[r][n + i], pos |-> Position(m[r], n + i)]]
           p == Padding(r)
<1>1. w \in Nat /\ d \in Nat /\ p \in Nat
  BY WidthOK
<1>2. Len(ids[r]) = w /\ \A i \in 1..w : ids[r][i] \in Nat
  <2>1. ids[r] \in Seq(Nat) /\ Len(ids[r]) = w
    BY DEF RowOK
  <2> HIDE DEF w
  <2> QED
    BY <1>1, <2>1
<1>3. \A i \in 1..w : Position(m[r], i) \in Nat /\ (i > p => Position(m[r], i) = i - p - 1)
  <2>1. \A j \in 1..w : m[r][j] = 1 <=> j > p
    BY DEF RowOK
  <2> HIDE DEF w, p
  <2> QED
    BY <1>1, <2>1, PositionOK
<1>4. FeedRow(row, ids[r], m[r], n + 1) = row \o fed
  <2>1. Len(ids[r]) - (n + 1) + 1 = d
    BY <1>1, <1>2
  <2>2. \A i \in 1..d : n + 1 + i - 1 = n + i
    BY <1>1
  <2>3. FeedRow(row, ids[r], m[r], n + 1) =
            row \o [i \in 1..d |-> [id |-> ids[r][n + 1 + i - 1], pos |-> Position(m[r], n + 1 + i - 1)]]
    BY <2>1 DEF FeedRow
  <2> QED
    BY <2>2, <2>3
<1> HIDE DEF w, p
<1>5. fed \in Seq(RowCells) /\ Len(fed) = d
  <2>1. \A i \in 1..d : n + i \in 1..w
    BY <1>1
  <2> DEFINE At(i) == [id |-> ids[r][n + i], pos |-> Position(m[r], n + i)]
  <2>2. \A i \in 1..d : At(i) \in RowCells
    BY <1>2, <1>3, <2>1 DEF RowCells
  <2>3. fed = [i \in 1..d |-> At(i)] /\ d \in Nat
    BY <1>1
  <2> HIDE DEF d, At, fed
  <2> QED
    BY <2>2, <2>3
<1>6. \A i \in 1..d : fed[i] = [id |-> ids[r][n + i], pos |-> Position(m[r], n + i)]
  OBVIOUS
<1>7. row \in Seq(RowCells) /\ Len(row) = n
  BY DEF CellsOK
<1> HIDE DEF fed
<1>8. /\ row \o fed \in Seq(RowCells) /\ Len(row \o fed) = n + d
      /\ \A i \in 1..n : (row \o fed)[i] = row[i]
      /\ \A i \in 1..d : (row \o fed)[n + i] = fed[i]
  <2>1. /\ row \o fed \in Seq(RowCells) /\ Len(row \o fed) = Len(row) + Len(fed)
        /\ \A i \in 1..Len(row) : (row \o fed)[i] = row[i]
        /\ \A i \in 1..Len(fed) : (row \o fed)[Len(row) + i] = fed[i]
    <3>1. row \in Seq(RowCells) /\ fed \in Seq(RowCells)
      BY <1>5, <1>7
    <3> QED
      BY <3>1, CatOf
  <2> QED
    BY <1>5, <1>7, <2>1
<1>9. ASSUME NEW i \in 1..w, i > p
      PROVE  (row \o fed)[i] = [id |-> ids[r][i], pos |-> i - p - 1]
  <2>1. CASE i <= n
    <3>1. i \in 1..n
      BY <1>1, <2>1
    <3> QED
      BY <1>8, <1>9, <3>1 DEF CellsOK, p
  <2>2. CASE i > n
    <3>1. i - n \in 1..d /\ n + (i - n) = i
      BY <1>1, <2>2
    <3>2. (row \o fed)[i] = [id |-> ids[r][i], pos |-> Position(m[r], i)]
      BY <1>6, <1>8, <3>1
    <3> QED
      BY <1>3, <1>9, <3>2
  <2>3. i <= n \/ i > n
    BY <1>1
  <2> QED
    BY <2>1, <2>2, <2>3
<1>10. n + d = w
  BY <1>1
<1> QED
  BY <1>4, <1>8, <1>9, <1>10 DEF CellsOK, w, p

\* What a row is given next is the single run's pick after the same ids.
LEMMA PickOK ==
    ASSUME CallOK, prompts # <<>>, NEW r \in RowsOf, NEW c \in Nat, NEW ids, NEW m, RowOK(ids, m, r, c),
           NEW row, CellsOK(row, ids, r, Width + c)
    PROVE  /\ Pick(row, m[r]) = NextId(Text(ids, r, c))
           /\ Text(ids, r, c) \in Seq(Nat) /\ NextId(Text(ids, r, c)) \in Nat
<1> DEFINE p == Padding(r)
           n == Len(prompts[r]) + c
           t == Text(ids, r, c)
           cells == Numbered(t)
           ones == Fill(Len(t), 1)
<1>1. p \in Nat /\ n \in Nat /\ Width + c = p + n
  BY WidthOK
<1>2. ids[r] \in Seq(Nat) /\ Len(ids[r]) = p + n /\ \A i \in 1..n : p + i \in 1..(p + n)
  BY <1>1 DEF RowOK
<1>3. t \in Seq(Nat) /\ Len(t) = n /\ \A i \in 1..n : t[i] = ids[r][p + i]
  <2>1. t = [i \in 1..n |-> ids[r][p + i]]
    BY DEF Text
  <2>2. \A i \in 1..n : ids[r][p + i] \in Nat
    BY <1>2
  <2> HIDE DEF n, p, t
  <2> QED
    BY <1>1, <2>1, <2>2
<1>4. m[r] \in Seq({0, 1}) /\ \A i \in 1..(p + n) : m[r][i] = 1 <=> i > p
  BY <1>1 DEF RowOK
<1>5. row \in Seq(RowCells) /\ Len(row) = p + n
      /\ \A i \in 1..(p + n) : i > p => row[i] = [id |-> ids[r][i], pos |-> i - p - 1]
  BY <1>1 DEF CellsOK
<1> HIDE DEF p, n, t
<1>6. cells \in Seq(RowCells) /\ Len(cells) = n /\ NextId(t) \in Nat
  BY <1>3, NextIdNat
<1>7. \A i \in 1..n : cells[i] = [id |-> t[i], pos |-> i - 1] /\ ones[i] = 1
  BY <1>3 DEF Numbered, Fill
<1>8. NextId(t) = target[Hash(cells, ones)] /\ Pick(row, m[r]) = target[Hash(row, m[r])]
  BY DEF NextId, Pick
<1> HIDE DEF cells, ones
<1>9. \A i \in 1..p : m[r][i] # 1
  BY <1>1, <1>4
<1>10. ASSUME NEW i \in 1..n PROVE m[r][p + i] = 1 /\ row[p + i] = cells[i] /\ ones[i] = 1
  <2>1. p + i \in 1..(p + n) /\ p + i > p /\ (p + i) - p - 1 = i - 1
    BY <1>1
  <2>2. row[p + i] = [id |-> ids[r][p + i], pos |-> i - 1]
    BY <1>5, <2>1
  <2>3. cells[i] = [id |-> ids[r][p + i], pos |-> i - 1]
    BY <1>3, <1>7
  <2> QED
    BY <1>4, <1>7, <2>1, <2>2, <2>3
<1>11. Hash(row, m[r]) = Hash(cells, ones)
  <2>1. Len(row) = p + Len(cells)
    BY <1>5, <1>6
  <2>2. \A i \in 1..Len(cells) : m[r][p + i] = 1 /\ row[p + i] = cells[i] /\ ones[i] = 1
    BY <1>6, <1>10
  <2>3. row \in Seq(RowCells) /\ cells \in Seq(RowCells) /\ p \in Nat
    BY <1>1, <1>5, <1>6
  <2> QED
    <3>1. PadsBy(row, m[r], p, cells, ones)
      BY <1>9, <2>1, <2>2 DEF PadsBy
    <3> QED
      BY <2>3, <3>1, HashPadded
<1> QED
  BY <1>3, <1>6, <1>8, <1>11 DEF t

\* A row with its next id.
LEMMA RowGrows ==
    ASSUME CallOK, prompts # <<>>, NEW r \in RowsOf, NEW c \in Nat, NEW ids, NEW m, RowOK(ids, m, r, c),
           NEW row, CellsOK(row, ids, r, Width + c),
           NEW ids2, ids2[r] = Append(ids[r], NextOf(ids, r, c)),
           NEW m2, m2[r] = Append(m[r], 1)
    PROVE  /\ RowOK(ids2, m2, r, c + 1)
           /\ CellsOK(row, ids2, r, Width + c)
           /\ Over(ids2, r, c + 1) <=> Over(ids, r, c) \/ NextOf(ids, r, c) = EosId
<1> DEFINE w == Width + c
           x == NextOf(ids, r, c)
           p == Padding(r)
           k == Len(prompts[r])
<1>1. Width \in Nat /\ w \in Nat /\ p \in Nat /\ k \in Nat /\ p + k = Width
  BY WidthOK
<1>2. x \in Nat
  BY PickOK DEF NextOf, CallOK
<1>3. ids[r] \in Seq(Nat) /\ Len(ids[r]) = w /\ m[r] \in Seq({0, 1}) /\ Len(m[r]) = w
  BY DEF RowOK
<1>4. \A i \in 1..w : m[r][i] = 1 <=> i > p
  BY DEF RowOK
<1> HIDE DEF w, x, p, k
<1>5. /\ ids2[r] \in Seq(Nat) /\ Len(ids2[r]) = w + 1 /\ ids2[r][w + 1] = x
      /\ \A i \in 1..w : ids2[r][i] = ids[r][i]
  <2>1. ids2[r] = Append(ids[r], x)
    BY DEF x
  <2>2. ids[r] \in Seq(Nat) /\ Len(ids[r]) = w
    BY <1>3
  <2> QED
    BY <1>1, <1>2, <2>1, <2>2
<1>6. /\ m2[r] \in Seq({0, 1}) /\ Len(m2[r]) = w + 1 /\ m2[r][w + 1] = 1
      /\ \A i \in 1..w : m2[r][i] = m[r][i]
  <2>1. 1 \in {0, 1} /\ m2[r] = Append(m[r], 1) /\ m[r] \in Seq({0, 1}) /\ Len(m[r]) = w
    BY <1>3
  <2> QED
    BY <1>1, <2>1
<1>7. w = Width + c /\ p = Padding(r) /\ k = Len(prompts[r])
  BY DEF w, p, k
<1>8. \A j \in 1..c : ids2[r][Width + j] = ids[r][Width + j]
  <2>1. \A j \in 1..c : Width + j \in 1..w
    BY <1>1, <1>7
  <2> QED
    BY <1>5, <2>1
<1>9. ASSUME NEW n \in 0..c PROVE NextOf(ids2, r, n) = NextOf(ids, r, n)
  <2>1. Over(ids2, r, n) <=> Over(ids, r, n)
    <3>1. \A j \in 1..n : j \in 1..c
      OBVIOUS
    <3> QED
      BY <1>8, <3>1 DEF Over
  <2>2. ASSUME NEW i \in 1..(k + n) PROVE p + i \in 1..w
    <3>1. p + k = Width /\ w = Width + c /\ n <= c /\ n \in Nat
      BY <1>1, <1>7
    <3> QED
      BY <1>1, <3>1
  <2>3. \A i \in 1..(k + n) : ids2[r][p + i] = ids[r][p + i]
    BY <1>5, <2>2
  <2>4. Text(ids2, r, n) = Text(ids, r, n)
    BY <1>7, <2>3 DEF Text
  <2> QED
    BY <2>1, <2>4 DEF NextOf
<1>10. ASSUME NEW j \in 1..(c + 1) PROVE ids2[r][Width + j] = NextOf(ids2, r, j - 1)
  <2>1. CASE j = c + 1
    <3>1. Width + j = w + 1 /\ j - 1 = c /\ c \in 0..c
      BY <1>1, <1>7, <2>1
    <3> QED
      BY <1>5, <1>9, <3>1 DEF x
  <2>2. CASE j # c + 1
    <3>1. j \in 1..c /\ j - 1 \in 0..c
      BY <2>2
    <3>2. ids[r][Width + j] = NextOf(ids, r, j - 1)
      BY <3>1 DEF RowOK
    <3> QED
      BY <1>8, <1>9, <3>1, <3>2
  <2> QED
    BY <2>1, <2>2
<1>11. \A i \in 1..k : ids2[r][p + i] = prompts[r][i]
  <2>1. \A i \in 1..k : p + i \in 1..w
    BY <1>1, <1>7
  <2>2. \A i \in 1..k : ids[r][p + i] = prompts[r][i]
    BY <1>7 DEF RowOK
  <2> QED
    BY <1>5, <2>1, <2>2
<1>12. \A i \in 1..(w + 1) : m2[r][i] = 1 <=> i > p
  <2>1. \A i \in 1..(w + 1) : i \in 1..w \/ i = w + 1
    BY <1>1
  <2>2. w + 1 > p
    BY <1>1, <1>7
  <2> QED
    BY <1>4, <1>6, <2>1, <2>2
<1>13. w + 1 = Width + (c + 1)
  BY <1>1, <1>7
<1>14. RowOK(ids2, m2, r, c + 1)
  BY <1>5, <1>6, <1>7, <1>10, <1>11, <1>12, <1>13 DEF RowOK
<1>15. CellsOK(row, ids2, r, Width + c)
  BY <1>5, <1>7 DEF CellsOK
<1>16. Over(ids2, r, c + 1) <=> Over(ids, r, c) \/ x = EosId
  <2>1. ids2[r][Width + (c + 1)] = x
    BY <1>5, <1>13
  <2>2. \A j \in 1..(c + 1) : j \in 1..c \/ j = c + 1
    OBVIOUS
  <2>3. c + 1 \in 1..(c + 1) /\ \A j \in 1..c : j \in 1..(c + 1)
    OBVIOUS
  <2> QED
    BY <1>8, <2>1, <2>2, <2>3 DEF Over
<1> QED
  BY <1>14, <1>15, <1>16 DEF x

\* The first n of a sequence.
LEMMA FirstOf ==
    ASSUME NEW S, NEW s \in Seq(S), NEW n \in 0..Len(s)
    PROVE  /\ SubSeq(s, 1, n) \in Seq(S) /\ Len(SubSeq(s, 1, n)) = n
           /\ \A k \in 1..n : SubSeq(s, 1, n)[k] = s[k]
OBVIOUS

\* A row of enough columns, or that is over, is the single run.
SameAsSingle(r, out) ==
    \/ out = Single(prompts[r])
    \/ out = <<EosId>> /\ Head(Single(prompts[r])) = EosId
CutAtEos(s) == IF EosId \in Range(s) THEN SubSeq(s, 1, Before(s, EosId)) ELSE s

LEMMA RowResult ==
    ASSUME CallOK, prompts # <<>>, NEW r \in RowsOf, NEW c \in Nat, NEW ids, NEW m, RowOK(ids, m, r, c),
           c <= batchNew, c = batchNew \/ Over(ids, r, c)
    PROVE  SameAsSingle(r, CutAtEos(SubSeq(ids[r], Width + 1, Width + c)))
<1> DEFINE out == SubSeq(ids[r], Width + 1, Width + c)
           N == batchNew
<1>1. Width \in Nat /\ prompts[r] \in Seq(Nat) /\ N \in Nat /\ c <= N
  BY WidthOK DEF CallOK
<1>2. /\ out \in Seq(Nat) /\ Len(out) = c
      /\ \A j \in 1..c : out[j] = ids[r][Width + j]
  BY <1>1 DEF RowOK
<1> HIDE DEF N
<1>3. PICK g \in [0..N -> Seq(Nat)] : SingleBy(g, prompts[r])
  BY <1>1, SingleSteps DEF N
<1> HIDE DEF out
<1>4. g[0] = <<>> /\ g[N] = Single(prompts[r])
  BY <1>3 DEF SingleBy, N
<1>5. ASSUME NEW n \in 0..(N - 1)
      PROVE  /\ g[n + 1] = Longer(g[n], n + 1, prompts[r])
             /\ g[n] \in Seq(Nat) /\ g[n + 1] \in Seq(Nat)
  <2>1. n + 1 \in 1..N /\ (n + 1) - 1 = n /\ n \in 0..N /\ n + 1 \in 0..N
    BY <1>1
  <2> QED
    BY <1>3, <2>1 DEF SingleBy, N
\* As long as nothing ended, the single run has produced the same.
<1> DEFINE A == {n \in Nat : n <= c /\ ~Over(ids, r, n - 1) => g[n] = SubSeq(out, 1, n)}
<1>6. Nat \subseteq A
  <2>1. 0 \in A
    <3>1. SubSeq(out, 1, 0) = <<>>
      BY <1>2
    <3> QED
      BY <1>4, <3>1
  <2>2. ASSUME NEW n \in A PROVE n + 1 \in A
    <3>1. SUFFICES ASSUME n + 1 <= c, ~Over(ids, r, (n + 1) - 1) PROVE g[n + 1] = SubSeq(out, 1, n + 1)
      OBVIOUS
    <3>2. n \in 0..(N - 1) /\ n \in Nat /\ (n + 1) - 1 = n /\ n + 1 \in 1..c
      BY <1>1, <3>1
    <3>3. ~Over(ids, r, n) /\ \A k \in 1..n : out[k] # EosId
      BY <1>2, <3>1, <3>2 DEF Over
    <3>4. ~Over(ids, r, n - 1)
      BY <3>2, <3>3 DEF Over
    <3>5. g[n] = SubSeq(out, 1, n)
      BY <3>1, <3>2, <3>4
    <3>6. /\ SubSeq(out, 1, n) \in Seq(Nat) /\ Len(SubSeq(out, 1, n)) = n
          /\ \A k \in 1..n : SubSeq(out, 1, n)[k] = out[k]
      BY <1>2, <3>2
    <3>7. n + 1 > 2 => Last(g[n]) # EosId
      <4>1. SUFFICES ASSUME n + 1 > 2 PROVE Last(g[n]) # EosId
        OBVIOUS
      <4>2. n \in 1..n
        BY <3>2, <4>1
      <4> QED
        BY <3>3, <3>5, <3>6, <4>2 DEF Last
    <3>8. g[n + 1] = Append(g[n], NextId(prompts[r] \o g[n]))
      BY <1>5, <3>2, <3>7 DEF Longer
    <3>9. Text(ids, r, n) = prompts[r] \o g[n]
      <4> DEFINE k == Len(prompts[r])
                 u == prompts[r] \o g[n]
      <4>1. k \in Nat /\ Padding(r) \in Nat /\ Padding(r) + k = Width
        BY WidthOK
      <4>2. g[n] \in Seq(Nat) /\ Len(g[n]) = n
        BY <3>5, <3>6
      <4>3. /\ u \in Seq(Nat) /\ Len(u) = k + n
            /\ \A i \in 1..k : u[i] = prompts[r][i]
            /\ \A i \in 1..n : u[k + i] = g[n][i]
        <5>1. prompts[r] \in Seq(Nat) /\ g[n] \in Seq(Nat)
          BY <1>1, <4>2
        <5>2. \A x, y \in Seq(Nat) :
                  /\ x \o y \in Seq(Nat) /\ Len(x \o y) = Len(x) + Len(y)
                  /\ \A i \in 1..Len(x) : (x \o y)[i] = x[i]
                  /\ \A i \in 1..Len(y) : (x \o y)[Len(x) + i] = y[i]
          BY CatOf
        <5>3. /\ u \in Seq(Nat) /\ Len(u) = Len(prompts[r]) + Len(g[n])
              /\ \A i \in 1..Len(prompts[r]) : u[i] = prompts[r][i]
              /\ \A i \in 1..Len(g[n]) : u[Len(prompts[r]) + i] = g[n][i]
          BY Zenon, <5>1, <5>2
        <5> HIDE DEF u
        <5> QED
          BY <4>2, <5>3
      <4>4. Text(ids, r, n) = [i \in 1..(k + n) |-> ids[r][Padding(r) + i]]
        BY DEF Text
      <4> HIDE DEF u
      <4>5. \A i \in 1..k : ids[r][Padding(r) + i] = prompts[r][i]
        BY DEF RowOK
      <4> HIDE DEF k
      <4>6. ASSUME NEW i \in 1..(k + n) PROVE ids[r][Padding(r) + i] = u[i]
        <5>1. CASE i <= k
          <6>1. i \in 1..k
            BY <4>1, <5>1
          <6> QED
            BY <4>3, <4>5, <6>1
        <5>2. CASE i > k
          <6>1. i - k \in 1..n /\ i - k \in 1..c /\ k + (i - k) = i /\ Width + (i - k) = Padding(r) + i
            BY <3>2, <4>1, <5>2
          <6>2. u[i] = out[i - k]
            BY <3>5, <3>6, <4>3, <6>1
          <6>3. out[i - k] = ids[r][Width + (i - k)]
            BY <1>2, <6>1
          <6> QED
            BY <6>1, <6>2, <6>3
        <5>3. i <= k \/ i > k
          BY <4>1
        <5> QED
          BY <5>1, <5>2, <5>3
      <4>7. u = [i \in 1..(k + n) |-> u[i]]
        BY <4>3
      <4> QED
        BY <4>4, <4>6, <4>7 DEF u
    <3>10. out[n + 1] = NextId(prompts[r] \o g[n])
      <4>1. ids[r][Width + (n + 1)] = NextOf(ids, r, (n + 1) - 1)
        BY <3>2 DEF RowOK
      <4> QED
        BY <1>2, <3>2, <3>3, <3>9, <4>1 DEF NextOf
    <3>11. SubSeq(out, 1, n + 1) = Append(SubSeq(out, 1, n), out[n + 1])
      BY <1>2, <3>2
    <3> QED
      BY <3>5, <3>8, <3>10, <3>11
  <2> HIDE DEF A
  <2> QED
    BY <2>1, <2>2, NatSet
<1>7. CASE ~Over(ids, r, c)
  <2>1. c = N /\ ~Over(ids, r, c - 1)
    <3>1. \A k \in 1..(c - 1) : k \in 1..c
      OBVIOUS
    <3> QED
      BY <1>7, <3>1 DEF Over, N
  <2>2. g[c] = SubSeq(out, 1, c)
    BY <1>6, <2>1
  <2>3. SubSeq(out, 1, c) = out
    BY <1>2
  <2>4. EosId \notin Range(out)
    BY <1>2, <1>7 DEF Over, Range
  <2>5. CutAtEos(out) = out
    BY <2>4 DEF CutAtEos
  <2> QED
    BY <1>4, <2>1, <2>2, <2>3, <2>5 DEF SameAsSingle, out
<1>8. CASE Over(ids, r, c)
  <2> DEFINE E == {k \in 1..c : out[k] = EosId}
  <2>1. E \subseteq Nat /\ E # {}
    BY <1>2, <1>8 DEF Over
  <2>2. PICK e \in E : \A k \in E : e <= k
    BY <2>1, LeastOf
  <2>3. e \in 1..c /\ e \in Nat /\ out[e] = EosId /\ \A k \in 1..(e - 1) : out[k] # EosId
    BY <2>2
  <2>4. Before(out, EosId) = e
    <3>1. \A n \in 1..Len(out) : out[n] = EosId /\ (\A k \in 1..(n - 1) : out[k] # EosId) => n = e
      <4>1. ASSUME NEW n \in 1..Len(out), out[n] = EosId, \A k \in 1..(n - 1) : out[k] # EosId
            PROVE  n = e
        <5>1. n < e => n \in 1..(e - 1)
          BY <1>2, <2>3
        <5>2. e < n => e \in 1..(n - 1)
          BY <1>2, <2>3
        <5> QED
          BY <1>2, <2>3, <4>1, <5>1, <5>2
      <4> QED
        BY <4>1
    <3>2. e \in 1..Len(out)
      BY <1>2, <2>3
    <3> QED
      BY <2>3, <3>1, <3>2 DEF Before
  <2>5. CutAtEos(out) = SubSeq(out, 1, e)
    <3>1. EosId \in Range(out)
      BY <1>2, <2>3 DEF Range
    <3> QED
      BY <2>4, <3>1 DEF CutAtEos
  <2>6. g[e] = SubSeq(out, 1, e)
    <3>1. ~Over(ids, r, e - 1) /\ e <= c
      BY <1>2, <2>3 DEF Over
    <3> QED
      BY <1>6, <2>3, <3>1
  <2>7. /\ SubSeq(out, 1, e) \in Seq(Nat) /\ Len(SubSeq(out, 1, e)) = e
        /\ SubSeq(out, 1, e)[e] = EosId /\ e <= N
    <3>1. e \in 0..Len(out) /\ e \in 1..e /\ e <= N
      BY <1>1, <1>2, <2>3
    <3> QED
      BY <1>2, <2>3, <3>1, FirstOf
  <2>8. CASE e = 1
    <3>1. SubSeq(out, 1, e) = <<EosId>>
      <4>1. EosId \in Nat /\ <<EosId>> \in Seq(Nat) /\ Len(<<EosId>>) = 1 /\ <<EosId>>[1] = EosId
        BY BatchAssumption
      <4>2. \A i \in 1..1 : i = 1
        OBVIOUS
      <4> QED
        BY <2>7, <2>8, <4>1, <4>2, SameSeq
    \* An EOS that comes first does not end the single run, but begins it.
    <3> DEFINE B == {n \in Nat : n + 1 <= N => Len(g[n + 1]) > 0 /\ Head(g[n + 1]) = EosId}
    <3>2. 0 \in B
      BY <2>6, <2>8, <3>1
    <3>3. ASSUME NEW n \in B PROVE n + 1 \in B
      <4>1. SUFFICES ASSUME (n + 1) + 1 <= N PROVE Len(g[n + 1 + 1]) > 0 /\ Head(g[n + 1 + 1]) = EosId
        OBVIOUS
      <4>2. n + 1 \in 0..(N - 1) /\ n + 1 <= N
        BY <1>1, <4>1
      <4>3. Len(g[n + 1]) > 0 /\ Head(g[n + 1]) = EosId /\ g[n + 1] \in Seq(Nat)
        BY <1>5, <4>2
      <4>4. g[n + 1 + 1] = g[n + 1] \/ g[n + 1 + 1] = Append(g[n + 1], NextId(prompts[r] \o g[n + 1]))
        BY <1>5, <4>2 DEF Longer
      <4>5. NextId(prompts[r] \o g[n + 1]) \in Nat
        <5>1. prompts[r] \o g[n + 1] \in Seq(Nat)
          BY <1>1, <4>3
        <5> QED
          BY <5>1, NextIdNat
      <4>6. /\ Len(Append(g[n + 1], NextId(prompts[r] \o g[n + 1]))) > 0
            /\ Head(Append(g[n + 1], NextId(prompts[r] \o g[n + 1]))) = EosId
        BY <4>3, <4>5
      <4> QED
        BY <4>3, <4>4, <4>6
    <3>4. Nat \subseteq B
      <4> HIDE DEF B
      <4> QED
        BY <3>2, <3>3, NatSet
    <3>5. N - 1 \in Nat /\ (N - 1) + 1 = N
      BY <1>1, <2>7, <2>8
    <3>6. Head(g[N]) = EosId
      BY <3>4, <3>5
    <3> QED
      BY <1>4, <2>5, <3>1, <3>6 DEF SameAsSingle, out
  <2>9. CASE e # 1
    <3> DEFINE C == {n \in Nat : e + n <= N => g[e + n] = SubSeq(out, 1, e)}
    <3>1. 0 \in C
      BY <2>3, <2>6
    <3>2. ASSUME NEW n \in C PROVE n + 1 \in C
      <4>1. SUFFICES ASSUME e + (n + 1) <= N PROVE g[e + (n + 1)] = SubSeq(out, 1, e)
        OBVIOUS
      <4>2. e + n \in 0..(N - 1) /\ e + n <= N /\ e + (n + 1) = (e + n) + 1 /\ (e + n) + 1 > 2
        BY <1>1, <2>3, <2>9, <4>1
      <4>3. g[e + n] = SubSeq(out, 1, e)
        BY <4>2
      <4>4. Last(g[e + n]) = EosId
        BY <2>7, <4>3 DEF Last
      <4> QED
        BY <1>5, <4>2, <4>3, <4>4 DEF Longer
    <3>3. Nat \subseteq C
      <4> HIDE DEF C
      <4> QED
        BY <3>1, <3>2, NatSet
    <3>4. N - e \in Nat /\ e + (N - e) = N
      <4>1. e <= N
        BY <1>1, <2>3
      <4> QED
        BY <1>1, <2>3, <4>1
    <3>5. g[N] = SubSeq(out, 1, e)
      <4>1. PICK d \in Nat : e + d = N
        BY <3>4
      <4>2. d \in C
        BY <3>3
      <4>3. e + d <= N
        BY <1>1, <4>1
      <4> QED
        BY <4>1, <4>2, <4>3
    <3> QED
      BY <1>4, <2>5, <3>5 DEF SameAsSingle, out
  <2> QED
    BY <2>8, <2>9
<1> QED
  BY <1>7, <1>8

-----------------------------------------------------------------------------
(* The batch, state by state.                                              *)

\* All rows after c sweeps that picked an id.
DecodedBy(ids, m, row, done, c) ==
    /\ c <= batchNew /\ (batchNew > 0 => c > 0)
    /\ \A r \in RowsOf :
          RowOK(ids, m, r, c) /\ CellsOK(row[r], ids, r, IF c = 0 THEN Width ELSE Width + c - 1)
    /\ done = {r \in RowsOf : Over(ids, r, c)}

BatchInv ==
    /\ CallOK
    /\ batch \in {"idle", "prefill", "decode", "returned", "raised"}
    /\ batch = "idle" => finished = {} /\ prompts = <<>>
    /\ batch = "prefill" => finished = {} /\ prompts # <<>>
    /\ batch = "decode" => prompts # <<>> /\ \E c \in Nat : DecodedBy(generated, mask, kv, finished, c)
    /\ RowsIndependent

\* A pick for every row that is not over, the pad id for the others.
LEMMA ColumnOK ==
    ASSUME CallOK, prompts # <<>>, NEW c \in Nat, c < batchNew, NEW ids, NEW m, NEW row, NEW done,
           NEW ids2, NEW m2, NEW done2, NEW next,
           \A r \in RowsOf : RowOK(ids, m, r, c) /\ CellsOK(row[r], ids, r, Width + c),
           done = {r \in RowsOf : Over(ids, r, c)}, next = Chosen(row, m, done),
           ids2 = [r \in RowsOf |-> Append(ids[r], next[r])], m2 = ExtendMask(m, done),
           done2 = done \cup {r \in RowsOf : next[r] = EosId}
    PROVE  DecodedBy(ids2, m2, row, done2, c + 1)
<1>1. ASSUME NEW r \in RowsOf PROVE next[r] = NextOf(ids, r, c)
  <2>1. next[r] = IF r \in done THEN pad ELSE Pick(row[r], m[r])
    BY DEF Chosen
  <2>2. RowOK(ids, m, r, c) /\ CellsOK(row[r], ids, r, Width + c)
    OBVIOUS
  <2>3. Pick(row[r], m[r]) = NextId(Text(ids, r, c))
    BY <2>2, PickOK
  <2>4. r \in done <=> Over(ids, r, c)
    OBVIOUS
  <2> QED
    BY <2>1, <2>3, <2>4 DEF NextOf
<1>2. ASSUME NEW r \in RowsOf
      PROVE  /\ RowOK(ids2, m2, r, c + 1) /\ CellsOK(row[r], ids2, r, Width + c)
             /\ Over(ids2, r, c + 1) <=> r \in done \/ next[r] = EosId
  <2>1. ids2[r] = Append(ids[r], NextOf(ids, r, c)) /\ m2[r] = Append(m[r], 1)
    BY <1>1 DEF ExtendMask
  <2>2. RowOK(ids, m, r, c) /\ CellsOK(row[r], ids, r, Width + c)
    OBVIOUS
  <2>3. /\ RowOK(ids2, m2, r, c + 1)
        /\ CellsOK(row[r], ids2, r, Width + c)
        /\ Over(ids2, r, c + 1) <=> Over(ids, r, c) \/ NextOf(ids, r, c) = EosId
    BY <2>1, <2>2, RowGrows
  <2>4. r \in done <=> Over(ids, r, c)
    OBVIOUS
  <2> QED
    BY <1>1, <2>3, <2>4
<1>3. done2 = {r \in RowsOf : Over(ids2, r, c + 1)}
  <2>1. done \subseteq RowsOf
    OBVIOUS
  <2> QED
    BY <1>2, <2>1
<1>4. c + 1 <= batchNew /\ c + 1 # 0 /\ c + 1 > 0 /\ Width \in Nat /\ Width + (c + 1) - 1 = Width + c
  BY WidthOK DEF CallOK
<1> QED
  BY <1>2, <1>3, <1>4 DEF DecodedBy

LEMMA FillOf ==
    ASSUME NEW n \in Nat, NEW S, NEW x \in S
    PROVE  Fill(n, x) \in Seq(S) /\ Len(Fill(n, x)) = n /\ \A i \in 1..n : Fill(n, x)[i] = x
BY DEF Fill

\* What the tokenizer returns, fed from the first column on.
LEMMA EncodedOK ==
    ASSUME CallOK, prompts # <<>>, NEW r \in RowsOf
    PROVE  /\ RowOK(Encoded.ids, Encoded.mask, r, 0)
           /\ CellsOK(FeedRow(<<>>, Encoded.ids[r], Encoded.mask[r], 1), Encoded.ids, r, Width)
           /\ ~Over(Encoded.ids, r, 0)
<1> DEFINE ids == Encoded.ids
           m == Encoded.mask
           p == Padding(r)
           k == Len(prompts[r])
           s == Fill(p, pad)
           z == Fill(p, 0)
           o == Fill(k, 1)
<1>1. Width \in Nat /\ prompts[r] \in Seq(Nat) /\ p \in Nat /\ k \in Nat /\ p + k = Width
  BY WidthOK
<1>2. ids[r] = s \o prompts[r] /\ m[r] = z \o o
  BY DEF Encoded
<1>3. /\ s \in Seq(Nat) /\ Len(s) = p
      /\ z \in Seq({0, 1}) /\ Len(z) = p /\ \A i \in 1..p : z[i] = 0
      /\ o \in Seq({0, 1}) /\ Len(o) = k /\ \A i \in 1..k : o[i] = 1
  <2>1. pad \in Nat /\ 0 \in {0, 1} /\ 1 \in {0, 1}
    BY DEF CallOK
  <2> QED
    BY <1>1, <2>1, FillOf
<1> HIDE DEF ids, m, p, k, s, z, o
<1>4. /\ ids[r] \in Seq(Nat) /\ Len(ids[r]) = Width
      /\ \A i \in 1..k : ids[r][p + i] = prompts[r][i]
  <2>1. /\ s \o prompts[r] \in Seq(Nat) /\ Len(s \o prompts[r]) = Len(s) + Len(prompts[r])
        /\ \A i \in 1..Len(prompts[r]) : (s \o prompts[r])[Len(s) + i] = prompts[r][i]
    <3>1. \A x, y \in Seq(Nat) :
              /\ x \o y \in Seq(Nat) /\ Len(x \o y) = Len(x) + Len(y)
              /\ \A i \in 1..Len(x) : (x \o y)[i] = x[i]
              /\ \A i \in 1..Len(y) : (x \o y)[Len(x) + i] = y[i]
      BY CatOf
    <3>2. s \in Seq(Nat) /\ prompts[r] \in Seq(Nat)
      BY <1>1, <1>3
    <3> QED
      BY Zenon, <3>1, <3>2
  <2> QED
    BY <1>1, <1>2, <1>3, <2>1 DEF k
<1>5. /\ m[r] \in Seq({0, 1}) /\ Len(m[r]) = Width
      /\ \A i \in 1..Width : m[r][i] = 1 <=> i > p
  <2>1. /\ z \o o \in Seq({0, 1}) /\ Len(z \o o) = Len(z) + Len(o)
        /\ \A i \in 1..Len(z) : (z \o o)[i] = z[i]
        /\ \A i \in 1..Len(o) : (z \o o)[Len(z) + i] = o[i]
    <3>1. \A x, y \in Seq({0, 1}) :
              /\ x \o y \in Seq({0, 1}) /\ Len(x \o y) = Len(x) + Len(y)
              /\ \A i \in 1..Len(x) : (x \o y)[i] = x[i]
              /\ \A i \in 1..Len(y) : (x \o y)[Len(x) + i] = y[i]
      BY CatOf
    <3>2. z \in Seq({0, 1}) /\ o \in Seq({0, 1})
      BY <1>1, <1>3
    <3> QED
      BY Zenon, <3>1, <3>2
  <2>2. ASSUME NEW i \in 1..Width PROVE m[r][i] = 1 <=> i > p
    <3>1. CASE i <= p
      <4>1. i \in 1..p
        BY <1>1, <3>1
      <4> QED
        BY <1>1, <1>2, <1>3, <2>1, <3>1, <4>1
    <3>2. CASE i > p
      <4>1. i - p \in 1..k /\ p + (i - p) = i
        BY <1>1, <3>2
      <4> QED
        BY <1>2, <1>3, <2>1, <3>2, <4>1
    <3> QED
      BY <1>1, <3>1, <3>2
  <2> QED
    BY <1>1, <1>2, <1>3, <2>1, <2>2
<1>6. RowOK(ids, m, r, 0)
  <2>1. Width + 0 = Width
    BY <1>1
  <2>2. \A j \in 1..0 : FALSE
    OBVIOUS
  <2> QED
    BY <1>4, <1>5, <2>1, <2>2 DEF RowOK, p, k
<1>7. CellsOK(FeedRow(<<>>, ids[r], m[r], 0 + 1), ids, r, Width + 0)
  <2>1. CellsOK(<<>>, ids, r, 0)
    <3>1. <<>> \in Seq(RowCells) /\ Len(<<>>) = 0
      OBVIOUS
    <3>2. \A i \in 1..0 : FALSE
      OBVIOUS
    <3> QED
      BY <3>1, <3>2 DEF CellsOK
  <2>2. 0 <= Width + 0
    BY <1>1
  <2> QED
    BY <1>6, <2>1, <2>2, FeedOK
<1>8. ~Over(ids, r, 0)
  BY DEF Over
<1>9. 0 + 1 = 1 /\ Width + 0 = Width
  BY <1>1
<1> QED
  BY <1>6, <1>7, <1>8, <1>9 DEF ids, m

LEMMA SingleSame ==
    ASSUME UNCHANGED <<target, batchNew>>, NEW CONSTANT asked
    PROVE  Single(asked)' = Single(asked)
BY SMT DEF Single, Pick, FoldLeft, MapThenFoldSet

\* While a call runs its arguments stay, and with them what is said of a row.
LEMMA SameCall ==
    ASSUME UNCHANGED call
    PROVE  /\ CallOK' <=> CallOK
           /\ RowsOf' = RowsOf
           /\ \A r : prompts'[r] = prompts[r] /\ Single(prompts[r])' = Single(prompts[r])
           /\ (\E c \in Nat : DecodedBy(generated, mask, kv, finished, c))'
                <=> \E c \in Nat : DecodedBy(generated', mask', kv', finished', c)
<1>1. target' = target /\ prompts' = prompts /\ pad' = pad /\ batchNew' = batchNew
  BY DEF call
<1>2. (CallOK' <=> CallOK) /\ RowsOf' = RowsOf
  BY <1>1 DEF CallOK, RowsOf
<1>3. \A r : prompts'[r] = prompts[r]
  BY <1>1
<1>4. \A r : Single(prompts[r])' = Single(prompts[r])
  BY <1>1 DEF Single, Pick, FoldLeft, MapThenFoldSet
<1>5. (\E c \in Nat : DecodedBy(generated, mask, kv, finished, c))'
         <=> \E c \in Nat : DecodedBy(generated', mask', kv', finished', c)
  BY <1>1 DEF DecodedBy, RowOK, CellsOK, NextOf, Over, Text, NextId, Pick, Padding, Width, RowsOf
<1> QED
  BY <1>2, <1>3, <1>4, <1>5

LEMMA BatchStart == BatchInit => BatchInv
<1> SUFFICES ASSUME BatchInit PROVE BatchInv
  OBVIOUS
<1>1. target \in [0..6 -> Nat] /\ pad \in Nat /\ batchNew \in Nat
  BY BatchAssumption DEF BatchInit
<1>2. prompts = <<>> /\ <<>> \in Seq(Seq(Nat))
  BY DEF BatchInit
<1> QED
  BY <1>1, <1>2 DEF BatchInit, BatchInv, CallOK, RowsIndependent

\* The state a step from a running call reaches.
LEMMA Running ==
    ASSUME BatchInv, UNCHANGED call, prompts # <<>>, batch' = "decode",
           NEW c \in Nat, DecodedBy(generated', mask', kv', finished', c)
    PROVE  BatchInv'
<1>1. CallOK' /\ prompts' # <<>>
  BY SameCall DEF BatchInv, call
<1>2. (\E n \in Nat : DecodedBy(generated, mask, kv, finished, n))'
  BY SameCall
<1>3. RowsIndependent'
  BY DEF RowsIndependent
<1> QED
  BY <1>1, <1>2, <1>3 DEF BatchInv

LEMMA BatchPreserved == BatchInv /\ [BatchNext]_batchVars => BatchInv'
<1> SUFFICES ASSUME BatchInv, [BatchNext]_batchVars PROVE BatchInv'
  OBVIOUS
<1>1. CallOK
  BY DEF BatchInv
<1>2. CASE Call
  <2>1. prompts' \in Seq(Seq(Nat))
    BY <1>2, BatchAssumption DEF Call
  <2>2. CallOK'
    BY <1>1, <1>2, <2>1 DEF CallOK, Call
  <2>3. finished' = {}
    BY <1>2 DEF Call, BatchInv, tensors
  <2>4. (batch' = "returned" /\ prompts' = <<>>) \/ (batch' = "prefill" /\ prompts' # <<>>)
    <3>1. batch' = IF prompts' = <<>> THEN "returned" ELSE "prefill"
      BY <1>2 DEF Call
    <3> QED
      BY Zenon, <3>1
  <2>5. RowsIndependent'
    BY <2>4 DEF RowsIndependent, RowsOf
  <2> QED
    BY <2>2, <2>3, <2>4, <2>5 DEF BatchInv
<1>3. CASE BatchPrefill
  <2> DEFINE e == Encoded
             row == [r \in RowsOf |-> FeedRow(<<>>, e.ids[r], e.mask[r], 1)]
  <2>1. prompts # <<>> /\ finished = {} /\ Width \in Nat /\ Width + 0 = Width /\ UNCHANGED call
    BY <1>1, <1>3, WidthOK DEF BatchInv, BatchPrefill
  <2>2. /\ kv' = row /\ batch' = "decode"
        /\ IF batchNew = 0 THEN generated' = e.ids /\ mask' = e.mask /\ finished' = finished
           ELSE AppendColumn(e.ids, e.mask, row)
    BY <1>3 DEF BatchPrefill
  <2>3. \A r \in RowsOf : row[r] = FeedRow(<<>>, e.ids[r], e.mask[r], 1)
    OBVIOUS
  <2> HIDE DEF row, e
  <2>4. ASSUME NEW r \in RowsOf
        PROVE  RowOK(e.ids, e.mask, r, 0) /\ CellsOK(row[r], e.ids, r, Width) /\ ~Over(e.ids, r, 0)
    BY <1>1, <2>1, <2>3, EncodedOK DEF e
  <2>5. finished = {r \in RowsOf : Over(e.ids, r, 0)}
    BY <2>1, <2>4
  <2>6. CASE batchNew = 0
    <3>1. DecodedBy(generated', mask', kv', finished', 0)
      BY <2>2, <2>4, <2>5, <2>6 DEF DecodedBy
    <3> QED
      BY <2>1, <2>2, <3>1, Running
  <2>7. CASE batchNew # 0
    <3> DEFINE next == Chosen(row, e.mask, finished)
    <3>1. /\ generated' = [r \in RowsOf |-> Append(e.ids[r], next[r])]
          /\ mask' = ExtendMask(e.mask, finished)
          /\ finished' = finished \cup {r \in RowsOf : next[r] = EosId}
      BY <2>2, <2>7 DEF AppendColumn
    <3>2. 0 < batchNew /\ 0 \in Nat /\ 0 + 1 = 1
      BY <1>1, <2>7 DEF CallOK
    <3>3. \A r \in RowsOf : RowOK(e.ids, e.mask, r, 0) /\ CellsOK(row[r], e.ids, r, Width + 0)
      BY <2>1, <2>4
    <3> HIDE DEF next
    <3>4. next = Chosen(row, e.mask, finished)
      BY DEF next
    <3>5. PICK c \in Nat : c = 0
      OBVIOUS
    <3>6. c < batchNew /\ finished = {r \in RowsOf : Over(e.ids, r, c)}
      BY <2>5, <3>2, <3>5
    <3>7. \A r \in RowsOf : RowOK(e.ids, e.mask, r, c) /\ CellsOK(row[r], e.ids, r, Width + c)
      BY <3>3, <3>5
    <3> DEFINE ids == e.ids
               m == e.mask
    <3>8. /\ finished = {r \in RowsOf : Over(ids, r, c)} /\ next = Chosen(row, m, finished)
          /\ generated' = [r \in RowsOf |-> Append(ids[r], next[r])] /\ mask' = ExtendMask(m, finished)
      BY <3>1, <3>4, <3>6
    <3>9. ASSUME NEW r \in RowsOf PROVE RowOK(ids, m, r, c) /\ CellsOK(row[r], ids, r, Width + c)
      BY <3>7
    <3> HIDE DEF ids, m
    <3>10. DecodedBy(generated', mask', row, finished', c + 1)
      <4>1. CallOK /\ prompts # <<>> /\ c < batchNew
        BY <1>1, <2>1, <3>6
      <4>2. finished' = finished \cup {r \in RowsOf : next[r] = EosId}
        BY <3>1
      <4> QED
        BY <3>8, <3>9, <4>1, <4>2, ColumnOK
    <3> QED
      BY <2>1, <2>2, <3>10, Running
  <2> QED
    BY <2>6, <2>7
<1>4. CASE Step
  <2> DEFINE row == [r \in RowsOf |-> FeedRow(kv[r], generated[r], mask[r], Len(generated[r]))]
             next == Chosen(row, mask, finished)
  <2>1. batch = "decode" /\ prompts # <<>> /\ More /\ UNCHANGED call /\ batch' = "decode"
    BY <1>4 DEF BatchInv, Step
  <2>2. Width \in Nat /\ 1 \in RowsOf /\ batchNew \in Nat
    BY <1>1, <2>1, WidthOK DEF CallOK
  <2>3. PICK c \in Nat : DecodedBy(generated, mask, kv, finished, c)
    BY <2>1 DEF BatchInv
  <2>4. c < batchNew /\ c > 0
    <3>1. Len(generated[1]) = Width + c
      BY <2>2, <2>3 DEF DecodedBy, RowOK
    <3> QED
      BY <2>1, <2>2, <2>3, <3>1 DEF More, DecodedBy
  <2>5. /\ kv' = row
        /\ generated' = [r \in RowsOf |-> Append(generated[r], next[r])]
        /\ mask' = ExtendMask(mask, finished)
        /\ finished' = finished \cup {r \in RowsOf : next[r] = EosId}
    BY <1>4 DEF Step, AppendColumn
  <2>6. ASSUME NEW r \in RowsOf
        PROVE  RowOK(generated, mask, r, c) /\ CellsOK(row[r], generated, r, Width + c)
    <3> DEFINE n == Width + c - 1
    <3>1. RowOK(generated, mask, r, c) /\ CellsOK(kv[r], generated, r, n)
      BY <2>3, <2>4 DEF DecodedBy
    <3>2. n \in Nat /\ n <= Width + c /\ n + 1 = Width + c
      BY <2>2, <2>4
    <3>3. Len(generated[r]) = n + 1
      BY <3>1, <3>2 DEF RowOK
    <3> HIDE DEF n
    <3>4. CellsOK(FeedRow(kv[r], generated[r], mask[r], n + 1), generated, r, Width + c)
      BY <1>1, <2>1, <3>1, <3>2, FeedOK
    <3> QED
      BY <3>1, <3>3, <3>4
  <2>7. finished = {r \in RowsOf : Over(generated, r, c)}
    BY <2>3 DEF DecodedBy
  <2> HIDE DEF row, next
  <2>8. next = Chosen(row, mask, finished)
    BY DEF next
  <2>9. DecodedBy(generated', mask', row, finished', c + 1)
    BY <1>1, <2>1, <2>4, <2>5, <2>6, <2>7, <2>8, ColumnOK
  <2> QED
    BY <2>1, <2>5, <2>9, Running
<1>5. CASE Return
  <2>1. batch = "decode" /\ prompts # <<>> /\ ~More /\ UNCHANGED call /\ batch' = "returned"
    BY <1>5 DEF BatchInv, Return
  <2>2. Width \in Nat /\ 1 \in RowsOf /\ batchNew \in Nat
    BY <1>1, <2>1, WidthOK DEF CallOK
  <2>3. PICK c \in Nat : DecodedBy(generated, mask, kv, finished, c)
    BY <2>1 DEF BatchInv
  <2>4. ASSUME NEW r \in RowsOf PROVE SameAsSingle(r, results'[r])
    <3>1. results'[r] = CutAtEos(SubSeq(generated[r], Width + 1, Len(generated[r])))
      BY <1>5 DEF Return, Completion, CutAtEos
    <3>2. RowOK(generated, mask, r, c) /\ RowOK(generated, mask, 1, c) /\ c <= batchNew
      BY <2>2, <2>3 DEF DecodedBy
    <3>3. Len(generated[r]) = Width + c /\ Len(generated[1]) = Width + c
      BY <3>2 DEF RowOK
    <3>4. c = batchNew \/ Over(generated, r, c)
      <4>1. ~(Len(generated[1]) - Width < batchNew) \/ batchNew = 0 \/ finished = RowsOf
        BY <2>1, <2>2 DEF More
      <4>2. r \in finished => Over(generated, r, c)
        BY <2>3 DEF DecodedBy
      <4> QED
        BY <2>2, <3>2, <3>3, <4>1, <4>2
    <3> QED
      BY <1>1, <2>1, <3>1, <3>2, <3>3, <3>4, RowResult
  <2>5. RowsIndependent'
    <3>1. ASSUME NEW r \in RowsOf'
          PROVE  \/ results'[r] = Single(prompts[r])'
                 \/ results'[r] = <<EosId>> /\ Head(Single(prompts[r])') = EosId
      <4>1. r \in RowsOf /\ Single(prompts[r])' = Single(prompts[r])
        BY <2>1, <3>1, SameCall
      <4> QED
        BY <2>4, <4>1 DEF SameAsSingle
    <3> QED
      BY <3>1 DEF RowsIndependent
  <2>6. CallOK'
    BY <1>1, <2>1, SameCall
  <2> QED
    BY <2>1, <2>5, <2>6 DEF BatchInv
<1>6. CASE BatchRaises
  <2>1. UNCHANGED call /\ batch' = "raised"
    BY <1>6 DEF BatchRaises
  <2>2. CallOK'
    BY <1>1, <2>1, SameCall
  <2> QED
    BY <2>1, <2>2 DEF BatchInv, RowsIndependent
<1>7. CASE UNCHANGED batchVars
  <2>1. UNCHANGED <<call, tensors, batch, results>>
    BY <1>7 DEF batchVars
  <2>2. UNCHANGED <<generated, mask, kv, finished, prompts>>
    BY <2>1 DEF call, tensors
  <2>3. CallOK' /\ RowsOf' = RowsOf /\ \A r : Single(prompts[r])' = Single(prompts[r])
    BY <1>1, <2>1, SameCall
  <2>4. batch = "decode" => (\E c \in Nat : DecodedBy(generated, mask, kv, finished, c))'
    BY <2>1, <2>2, SameCall DEF BatchInv
  <2>5. RowsIndependent'
    <3>1. ASSUME batch = "returned", NEW r \in RowsOf'
          PROVE  \/ results'[r] = Single(prompts[r])'
                 \/ results'[r] = <<EosId>> /\ Head(Single(prompts[r])') = EosId
      <4>1. r \in RowsOf /\ results'[r] = results[r] /\ Single(prompts[r])' = Single(prompts[r])
        BY <2>1, <2>3, <3>1
      <4> QED
        BY <3>1, <4>1 DEF BatchInv, RowsIndependent
    <3> QED
      BY <2>1, <3>1 DEF RowsIndependent
  <2> QED
    BY <2>1, <2>2, <2>3, <2>4, <2>5 DEF BatchInv
<1> QED
  BY <1>2, <1>3, <1>4, <1>5, <1>6, <1>7 DEF BatchNext

\* The inductive invariant of a batch: each row is its padding, its prompt and one
\* pick of the single run after the other, the cache holds the cells of that text,
\* and the finished rows are those with an EOS among their picks.
THEOREM BatchInvariance == BatchSpec => []BatchInv
BY BatchStart, BatchPreserved, PTL DEF BatchSpec

\* For every target, every list of prompts and every limit: what a row of a batch
\* returns is what a run of its prompt alone returns (batch.py, run_batch and
\* SWLPRunner.run).
THEOREM RowsAreIndependent == BatchSpec => []RowsIndependent
<1>1. BatchInv => RowsIndependent
  BY DEF BatchInv
<1> QED
  BY <1>1, BatchInvariance, PTL
=============================================================================
