--------------------------- MODULE StorageProofs ---------------------------
(***************************************************************************)
(* What holds of a shard directory, of a package, of the MLX expert cache, *)
(* of the readers of shard files and of expert banks for every value of    *)
(* their constants: readers are served whatever a conversion does, a       *)
(* package that validates is its checkpoint, the expert cache keeps its    *)
(* budget, a layer's state is cut out of its own file, and an expert out   *)
(* of its own bytes.                                                       *)
(***************************************************************************)
EXTENDS ShardStore, Packages, MlxExpertCache, ShardReader, ExpertBank, ListsProofs

\* What the program counter says of itself.
StepInv ==
    /\ op = "idle" => step = "next"
    /\ op # "pull" => at <= NumLayers
    /\ step = "writing" => op = "pull"
    /\ step = "replaced" => op \in {"compress", "decompress"} /\ at \in Layers
    /\ step = "writing_manifest" => op # "idle" /\ LastFile

\* A pull has written what comes before the place it is at.
PullInv ==
    op = "pull" =>
        /\ ~complete /\ pulls > 0
        /\ \A i \in Layers : i < at => plain[i] = pulls
        /\ at > NumLayers => heads = pulls

\* The weights of layer i are there, where loading looks first or alone.
Held(i) == plain[i] = pulls \/ (plain[i] = NoFile /\ swz[i] = pulls)

\* In a complete directory every layer is there, and the conversion under way has
\* converted those before the place it is at.
CompleteInv ==
    complete =>
        /\ pulls > 0 /\ heads = pulls
        /\ \A i \in Layers : Held(i)
        /\ op = "compress" =>
               /\ \A i \in Layers : i < at => plain[i] = NoFile /\ swz[i] = pulls
               /\ step = "replaced" => swz[at] = pulls
        /\ op = "decompress" =>
               /\ \A i \in Layers : i < at => plain[i] = pulls /\ swz[i] = NoFile
               /\ step = "replaced" => plain[at] = pulls

\* Before the first manifest there is nothing to convert.
FirstPullInv ==
    pulls <= 1 /\ ~complete =>
        /\ manifest \in {NoFile, Empty}
        /\ op \in {"idle", "pull"}
        /\ pulls = 0 => op = "idle"

StoreInv == TypeOK /\ StepInv /\ PullInv /\ CompleteInv /\ FirstPullInv

\* The number of a pull is no damage and no missing file.
LEMMA PullsAreContents ==
    \A n \in Nat : n \notin {NoFile, Empty, CutHeader, CutPayload}
BY ShardAssumption

LEMMA InitStore == Init => StoreInv
<1> SUFFICES ASSUME Init PROVE StoreInv
  OBVIOUS
<1> USE DEF Init
<1>1. NoFile \in Content \ {Empty}
  BY ShardAssumption DEF Content
<1>2. TypeOK
  <2>1. complete \in BOOLEAN
    OBVIOUS
  <2>2. plain \in [Layers -> Content] /\ swz \in [Layers -> Content \ {Empty}]
    BY <1>1
  <2> QED
    BY <1>1, <2>1, <2>2, ShardAssumption DEF TypeOK
<1>3. StepInv /\ PullInv /\ CompleteInv /\ FirstPullInv
  BY ShardAssumption DEF StepInv, PullInv, CompleteInv, FirstPullInv
<1> QED
  BY <1>2, <1>3 DEF StoreInv

-----------------------------------------------------------------------------
(* One lemma per operation.                                                *)

USE DEF StoreInv

LEMMA PullKeeps == StoreInv /\ Pull => StoreInv'
<1> SUFFICES ASSUME StoreInv, Pull PROVE StoreInv'
  OBVIOUS
<1> USE DEF Pull, files
<1>1. TypeOK'
  <2>1. new' \in Manifest
    BY ShardAssumption DEF TypeOK, Pulls, Manifest
  <2>2. complete' \in BOOLEAN
    OBVIOUS
  <2> QED
    BY <2>1, <2>2, ShardAssumption DEF TypeOK
<1>2. StepInv' /\ CompleteInv'
  BY ShardAssumption DEF TypeOK, StepInv, CompleteInv, LastFile, Layers
<1>3. PullInv'
  BY ShardAssumption DEF TypeOK, PullInv, Layers
<1>4. FirstPullInv'
  BY ShardAssumption DEF TypeOK, CompleteInv, FirstPullInv
<1> QED
  BY <1>1, <1>2, <1>3, <1>4

LEMMA SaveLayerKeeps == StoreInv /\ SaveLayer => StoreInv'
<1> SUFFICES ASSUME StoreInv, SaveLayer PROVE StoreInv'
  OBVIOUS
<1> USE DEF SaveLayer, AtLayer, counts
<1>1. TypeOK'
  BY DEF TypeOK, Content, Damage
<1>2. StepInv'
  BY ShardAssumption DEF TypeOK, StepInv, LastFile, Layers
<1>3. PullInv' /\ CompleteInv' /\ FirstPullInv'
  BY ShardAssumption DEF TypeOK, PullInv, CompleteInv, FirstPullInv, Layers
<1> QED
  BY <1>1, <1>2, <1>3

LEMMA LayerSavedKeeps == StoreInv /\ LayerSaved => StoreInv'
<1> SUFFICES ASSUME StoreInv, LayerSaved PROVE StoreInv'
  OBVIOUS
<1> USE DEF LayerSaved, counts
<1>1. TypeOK'
  BY ShardAssumption DEF TypeOK, PullInv, Content, Pulls, Layers
<1>2. StepInv'
  BY ShardAssumption DEF TypeOK, StepInv, LastFile, Layers
<1>3. PullInv' /\ CompleteInv' /\ FirstPullInv'
  BY ShardAssumption DEF TypeOK, PullInv, CompleteInv, FirstPullInv, Layers
<1> QED
  BY <1>1, <1>2, <1>3

LEMMA HeadsKeep == StoreInv /\ (SaveHeads \/ HeadsSaved) => StoreInv'
<1> SUFFICES ASSUME StoreInv, SaveHeads \/ HeadsSaved PROVE StoreInv'
  OBVIOUS
<1> USE DEF SaveHeads, HeadsSaved, counts
<1>1. TypeOK'
  BY ShardAssumption DEF TypeOK, PullInv, Content, Pulls, Damage
<1>2. StepInv'
  BY ShardAssumption DEF TypeOK, StepInv, LastFile, Layers
<1>3. PullInv' /\ CompleteInv' /\ FirstPullInv'
  BY ShardAssumption DEF TypeOK, PullInv, CompleteInv, FirstPullInv, Layers
<1> QED
  BY <1>1, <1>2, <1>3

LEMMA WriteManifestKeeps == StoreInv /\ WriteManifest => StoreInv'
<1> SUFFICES ASSUME StoreInv, WriteManifest PROVE StoreInv'
  OBVIOUS
<1> USE DEF WriteManifest, counts
<1>1. TypeOK'
  BY DEF TypeOK
<1>2. StepInv'
  BY ShardAssumption DEF TypeOK, StepInv, LastFile, Layers
<1>3. PullInv' /\ CompleteInv' /\ FirstPullInv'
  BY ShardAssumption DEF TypeOK, PullInv, CompleteInv, FirstPullInv, Held, Layers
<1> QED
  BY <1>1, <1>2, <1>3

LEMMA ManifestWrittenKeeps == StoreInv /\ ManifestWritten => StoreInv'
<1> SUFFICES ASSUME StoreInv, ManifestWritten PROVE StoreInv'
  OBVIOUS
<1> USE DEF ManifestWritten, counts
<1>1. TypeOK'
  BY ShardAssumption DEF TypeOK
<1>2. StepInv' /\ PullInv'
  BY ShardAssumption DEF TypeOK, StepInv, PullInv, LastFile, Layers
<1>3. CompleteInv'
  BY ShardAssumption DEF TypeOK, StepInv, PullInv, CompleteInv, Held, LastFile, Layers
<1>4. FirstPullInv'
  BY ShardAssumption DEF TypeOK, StepInv, FirstPullInv
<1> QED
  BY <1>1, <1>2, <1>3, <1>4

LEMMA BeginKeeps == StoreInv /\ (Compress \/ Decompress) => StoreInv'
<1> SUFFICES ASSUME StoreInv, Compress \/ Decompress PROVE StoreInv'
  OBVIOUS
<1> USE DEF Compress, Decompress, Convert, Readable, files
<1>1. TypeOK'
  BY ShardAssumption DEF TypeOK, Manifest
<1>2. StepInv' /\ PullInv'
  BY ShardAssumption DEF TypeOK, StepInv, PullInv, LastFile, Layers
<1>3. CompleteInv'
  <2>1. step = "next" /\ at' = 0 /\ UNCHANGED <<pulls, heads, plain, swz, step, complete>>
    BY DEF StepInv
  <2>2. \A i \in Layers : ~(i < 0)
    BY ShardAssumption DEF Layers
  <2> QED
    BY <2>1, <2>2 DEF CompleteInv, Held
<1>4. FirstPullInv'
  BY DEF FirstPullInv
<1> QED
  BY <1>1, <1>2, <1>3, <1>4

LEMMA CompressionKeeps == StoreInv /\ (CompressSkip \/ CompressLayer \/ CompressDrop) => StoreInv'
<1> SUFFICES ASSUME StoreInv, CompressSkip \/ CompressLayer \/ CompressDrop PROVE StoreInv'
  OBVIOUS
<1> USE DEF CompressSkip, CompressLayer, CompressDrop, AtLayer, counts, files
<1>1. TypeOK'
  BY ShardAssumption DEF TypeOK, StepInv, Content, Layers
<1>2. StepInv' /\ PullInv'
  BY ShardAssumption DEF TypeOK, StepInv, PullInv, LastFile, Layers
<1>3. CompleteInv'
  <2> SUFFICES ASSUME complete PROVE CompleteInv'
    BY DEF CompleteInv
  <2>1. pulls \in Nat /\ pulls # NoFile /\ \A i, j \in Layers : i < j + 1 <=> i < j \/ i = j
    BY ShardAssumption, PullsAreContents DEF TypeOK, Layers
  <2>2. CASE CompressSkip
    BY <2>1, <2>2 DEF TypeOK, CompleteInv, Held
  <2>3. CASE CompressLayer
    BY <2>1, <2>3 DEF TypeOK, CompleteInv, Held
  <2>4. CASE CompressDrop
    BY <2>1, <2>4 DEF TypeOK, StepInv, CompleteInv, Held
  <2> QED
    BY <2>2, <2>3, <2>4
<1>4. FirstPullInv'
  BY DEF StepInv, FirstPullInv
<1> QED
  BY <1>1, <1>2, <1>3, <1>4

LEMMA DecompressionKeeps == StoreInv /\ (DecompressSkip \/ DecompressLayer \/ DecompressDrop) => StoreInv'
<1> SUFFICES ASSUME StoreInv, DecompressSkip \/ DecompressLayer \/ DecompressDrop PROVE StoreInv'
  OBVIOUS
<1> USE DEF DecompressSkip, DecompressLayer, DecompressDrop, AtLayer, counts, files
<1>1. TypeOK'
  BY ShardAssumption DEF TypeOK, StepInv, Content, Layers
<1>2. StepInv' /\ PullInv'
  BY ShardAssumption DEF TypeOK, StepInv, PullInv, LastFile, Layers
<1>3. CompleteInv'
  <2> SUFFICES ASSUME complete PROVE CompleteInv'
    BY DEF CompleteInv
  <2>1. /\ pulls \in Nat /\ pulls \notin {NoFile, Empty, CutHeader}
        /\ \A i, j \in Layers : i < j + 1 <=> i < j \/ i = j
    BY ShardAssumption, PullsAreContents DEF TypeOK, Layers
  <2>2. CASE DecompressSkip
    BY <2>1, <2>2 DEF TypeOK, CompleteInv, Held, PlainOK
  <2>3. CASE DecompressLayer
    BY <2>1, <2>3 DEF TypeOK, CompleteInv, Held, PlainOK
  <2>4. CASE DecompressDrop
    BY <2>1, <2>4 DEF TypeOK, StepInv, CompleteInv, Held
  <2> QED
    BY <2>2, <2>3, <2>4
<1>4. FirstPullInv'
  BY DEF StepInv, FirstPullInv
<1> QED
  BY <1>1, <1>2, <1>3, <1>4

LEMMA FailKeeps == StoreInv /\ (ConvertFails \/ Interrupt) => StoreInv'
<1> SUFFICES ASSUME StoreInv, ConvertFails \/ Interrupt PROVE StoreInv'
  OBVIOUS
<1> USE DEF ConvertFails, Interrupt, AtLayer, counts, files
<1>1. TypeOK'
  <2> 0 \in 0..(NumLayers + 1)
    BY ShardAssumption
  <2>1. CASE ConvertFails
    BY <2>1 DEF TypeOK
  <2>2. CASE Interrupt
    <3>1. PICK content \in Damage \cup {pulls} :
              /\ plain' = IF step = "writing" /\ at \in Layers
                          THEN [plain EXCEPT ![at] = content] ELSE plain
              /\ heads' = IF step = "writing" /\ at = NumLayers THEN content ELSE heads
      BY <2>2
    <3>2. step = "writing" => content \in Content
      BY <3>1 DEF TypeOK, StepInv, PullInv, Content, Pulls
    <3>3. plain' \in [Layers -> Content] /\ heads' \in Content
      BY <3>1, <3>2 DEF TypeOK
    <3>4. crashes' \in 0..MaxCrashes
      BY <2>2, ShardAssumption DEF TypeOK
    <3> QED
      BY <2>2, <3>3, <3>4 DEF TypeOK
  <2> QED
    BY <2>1, <2>2
<1>2. StepInv' /\ PullInv'
  BY ShardAssumption DEF TypeOK, StepInv, PullInv, LastFile, Layers
<1>3. CompleteInv'
  BY ShardAssumption DEF TypeOK, StepInv, PullInv, CompleteInv, Held, Layers
<1>4. FirstPullInv'
  BY DEF TypeOK, StepInv, FirstPullInv
<1> QED
  BY <1>1, <1>2, <1>3, <1>4

-----------------------------------------------------------------------------
\* The invariant behind the others.
THEOREM Invariance == Spec => []StoreInv
<1>1. StoreInv /\ [Next]_vars => StoreInv'
  <2> SUFFICES ASSUME StoreInv, [Next]_vars PROVE StoreInv'
    OBVIOUS
  <2>1. CASE UNCHANGED vars
    BY <2>1 DEF vars, files, process, counts, TypeOK, StepInv, PullInv, CompleteInv, FirstPullInv,
       Held, LastFile
  <2>2. CASE Conversion
    BY <2>2, BeginKeeps, CompressionKeeps, DecompressionKeeps, FailKeeps DEF Conversion
  <2> QED
    BY <2>1, <2>2, PullKeeps, SaveLayerKeeps, LayerSavedKeeps, HeadsKeep, WriteManifestKeeps,
       ManifestWrittenKeeps, FailKeeps DEF Next
<1> QED
  BY <1>1, InitStore, PTL DEF Spec

\* Every variable keeps its type.
THEOREM TypeCorrect == Spec => []TypeOK
BY Invariance, PTL

\* No interruption of a conversion, and no file left by an earlier pull, takes a
\* layer's weights away or brings old ones back.
THEOREM LayersKept == Spec => []ReadersServed
<1>1. StoreInv => ReadersServed
  BY PullsAreContents DEF TypeOK, CompleteInv, Held, ReadersServed, Loaded
<1> QED
  BY <1>1, Invariance, PTL

\* verify_shards() accepts what can be loaded and refuses an unfinished first pull.
THEOREM VerificationTruthful == Spec => []VerifyTruthful
<1>1. StoreInv => VerifyTruthful
  <2> SUFFICES ASSUME StoreInv PROVE VerifyTruthful
    OBVIOUS
  <2>1. ASSUME complete, Readable PROVE VerifyOK
    BY <2>1, PullsAreContents DEF TypeOK, CompleteInv, Held, VerifyOK, LayerOK, PlainOK
  <2>2. ASSUME pulls = 1, ~complete PROVE ~VerifyOK
    BY <2>2 DEF FirstPullInv, VerifyOK, Readable
  <2> QED
    BY <2>1, <2>2 DEF VerifyTruthful
<1> QED
  BY <1>1, Invariance, PTL

\* A conversion that ends, interrupted before or not, has converted every layer.
THEOREM ConversionsEnd == Spec => Converted
<1>1. StoreInv /\ complete /\ ManifestWritten =>
          \/ op = "compress" /\ \A i \in Layers : plain[i] = NoFile /\ swz[i] = pulls
          \/ op = "decompress" /\ \A i \in Layers : plain[i] = pulls /\ swz[i] = NoFile
  BY ShardAssumption DEF ManifestWritten, TypeOK, StepInv, PullInv, CompleteInv, LastFile, Layers
<1> QED
  BY <1>1, Invariance, PTL DEF Spec, Converted

-----------------------------------------------------------------------------
(* Packages: the records of a checkpoint.                                  *)

\* Records by position: one per layer name, one file each.
Laid(records, tensors) ==
    /\ records \in Seq(Range(records))
    /\ \A i \in 1..Len(records) :
          /\ records[i].index = i - 1
          /\ records[i].file = FileName(i - 1, records[i].name)
          /\ records[i].sha = Restrict(tensors, {t \in DOMAIN tensors : t[1] = records[i].name})
          /\ records[i].tensors = {t \in DOMAIN tensors : t[1] = records[i].name}
    /\ \A i, j \in 1..Len(records) : records[i].name = records[j].name => i = j
    /\ \A t \in DOMAIN tensors : \E i \in 1..Len(records) : records[i].name = t[1]

LEMMA SourcesAreFiles ==
    ASSUME NEW c \in Checkpoints
    PROVE  /\ Sources(c) \subseteq DOMAIN c.files /\ IsFiniteSet(Sources(c))
           /\ Len(c.files) \in Nat /\ DOMAIN c.files = 1..Len(c.files)
<1>1. Sources(c) \subseteq DOMAIN c.files
  BY DEF Sources
<1>2. Len(c.files) \in Nat /\ DOMAIN c.files = 1..Len(c.files)
  BY PackageAssumption
<1>3. IsFiniteSet(DOMAIN c.files)
  BY <1>2, FS_Interval
<1> QED
  BY <1>1, <1>2, <1>3, FS_Subset

LEMMA TensorsAreFinite ==
    ASSUME NEW c \in Checkpoints
    PROVE  /\ IsFiniteSet(DOMAIN StateDict(c))
           /\ \A t \in DOMAIN StateDict(c) : t[1] \in Nat
<1> DEFINE named == {DOMAIN c.files[f].tensors : f \in Sources(c)}
<1>1. DOMAIN StateDict(c) = UNION named
  BY DEF StateDict
<1>2. IsFiniteSet(named)
  <2> DEFINE g == [f \in Sources(c) |-> DOMAIN c.files[f].tensors]
  <2>1. IsFiniteSet({g[f] : f \in Sources(c)})
    BY SourcesAreFiles, FiniteImage
  <2>2. named = {g[f] : f \in Sources(c)}
    OBVIOUS
  <2> QED
    BY <2>1, <2>2
<1>3. \A S \in named : IsFiniteSet(S) /\ \A t \in S : t[1] \in Nat
  BY SourcesAreFiles, PackageAssumption
<1> HIDE DEF named
<1>4. IsFiniteSet(UNION named)
  BY <1>2, <1>3, FS_UNION
<1> QED
  BY <1>1, <1>3, <1>4

LEMMA RecordsLaid ==
    ASSUME NEW c \in Checkpoints
    PROVE  Laid(LayerRecords(c), StateDict(c))
<1> DEFINE dict == StateDict(c)
           S == {t[1] : t \in DOMAIN dict}
           names == Ascending(S)
           of(n) == {t \in DOMAIN dict : t[1] = n}
           records == LayerRecords(c)
<1>1. S \in SUBSET Nat /\ IsFiniteSet(S)
  <2> DEFINE g == [t \in DOMAIN dict |-> t[1]]
  <2>1. IsFiniteSet({g[t] : t \in DOMAIN dict})
    BY TensorsAreFinite, FiniteImage
  <2>2. S = {g[t] : t \in DOMAIN dict}
    OBVIOUS
  <2> QED
    BY <2>1, <2>2, TensorsAreFinite
<1>2. names \in Seq(S) /\ IsInjective(names) /\ Range(names) = S
  BY <1>1, AscendingLemma
<1>3. Len(names) \in Nat /\ DOMAIN names = 1..Len(names)
  BY <1>2
<1>4. records = [i \in DOMAIN names |->
                    [index |-> i - 1, name |-> names[i], file |-> FileName(i - 1, names[i]),
                     sha |-> Restrict(dict, of(names[i])),
                     tensors |-> DOMAIN Restrict(dict, of(names[i]))]]
  BY DEF LayerRecords
<1>5. \A n : DOMAIN Restrict(dict, of(n)) = of(n)
  BY DEF Restrict
<1> HIDE DEF dict, S, names, of, records
<1>6. /\ DOMAIN records = 1..Len(names)
      /\ \A i \in 1..Len(names) :
            /\ records[i].index = i - 1 /\ records[i].name = names[i]
            /\ records[i].file = FileName(i - 1, names[i])
            /\ records[i].sha = Restrict(dict, of(names[i]))
            /\ records[i].tensors = of(names[i])
  BY <1>3, <1>4, <1>5
<1>7. records \in Seq(Range(records)) /\ Len(records) = Len(names)
  <2>1. records = [i \in 1..Len(names) |-> records[i]]
    BY <1>3, <1>4
  <2>2. \A i \in 1..Len(names) : records[i] \in Range(records)
    BY <1>6 DEF Range
  <2> QED
    BY <1>3, <2>1, <2>2
<1>8. \A i, j \in 1..Len(names) : names[i] = names[j] => i = j
  BY <1>2, <1>3 DEF IsInjective
<1>9. \A t \in DOMAIN dict : \E i \in 1..Len(names) : names[i] = t[1]
  BY <1>2, <1>3 DEF Range, S
<1> DEFINE n == Len(names)
<1>10. n = Len(records)
  BY <1>7
<1> HIDE DEF n
<1>11. \A i \in 1..n :
            /\ records[i].index = i - 1
            /\ records[i].file = FileName(i - 1, records[i].name)
            /\ records[i].sha = Restrict(dict, of(records[i].name))
            /\ records[i].tensors = of(records[i].name)
  BY <1>6 DEF n
<1>12. \A i, j \in 1..n : records[i].name = records[j].name => i = j
  BY <1>6, <1>8 DEF n
<1>13. \A t \in DOMAIN dict : \E i \in 1..n : records[i].name = t[1]
  BY <1>6, <1>9 DEF n
<1>14. Laid(records, dict)
  BY <1>7, <1>10, <1>11, <1>12, <1>13 DEF Laid, of
<1> QED
  BY <1>14 DEF records, dict

LEMMA LaidSize ==
    ASSUME NEW records, NEW tensors, Laid(records, tensors)
    PROVE  Len(records) \in Nat /\ DOMAIN records = 1..Len(records)
<1>1. records \in Seq(Range(records))
  BY DEF Laid
<1> QED
  BY <1>1

LEMMA LaidRecord ==
    ASSUME NEW records, NEW tensors, Laid(records, tensors), NEW i \in 1..Len(records)
    PROVE  /\ DOMAIN records[i].sha = records[i].tensors
           /\ \A t \in DOMAIN tensors : t \in records[i].tensors <=> t[1] = records[i].name
           /\ \A t \in records[i].tensors : records[i].sha[t] = tensors[t]
<1> DEFINE own == {t \in DOMAIN tensors : t[1] = records[i].name}
<1>1. records[i].sha = Restrict(tensors, own) /\ records[i].tensors = own
  BY DEF Laid
<1>2. Restrict(tensors, own) = [t \in own |-> tensors[t]]
  BY DEF Restrict
<1> QED
  BY <1>1, <1>2

LEMMA FilesDiffer ==
    ASSUME NEW records, NEW tensors, Laid(records, tensors),
           NEW i \in 1..Len(records), NEW j \in 1..Len(records)
    PROVE  /\ records[i].file = records[j].file => i = j
           /\ records[i].file # <<records[j].name>>
           /\ Len(records) \in Nat
<1>1. /\ records[i].file = <<i - 1, Sanitized(records[i].name)>>
      /\ records[j].file = <<j - 1, Sanitized(records[j].name)>>
      /\ Len(records) \in Nat
  BY LaidSize DEF Laid, FileName
<1>2. records[i].file[1] = i - 1 /\ records[j].file[1] = j - 1
  BY <1>1
<1>3. Len(records[i].file) = 2 /\ Len(<<records[j].name>>) = 1
  BY <1>1
<1> QED
  BY <1>1, <1>2, <1>3

-----------------------------------------------------------------------------
(* Packages: what is written.                                              *)

Holds(written, records, n) ==
    \A i \in 1..n : records[i].file \in DOMAIN written /\ written[records[i].file] = records[i].sha

Written(p, c) ==
    /\ p.index = LayerRecords(c) /\ p.manifest = PackageManifest(c, LayerRecords(c))
    /\ Holds(p.files, LayerRecords(c), Len(LayerRecords(c)))

PackageShape(p) ==
    /\ p = [files |-> p.files, manifest |-> p.manifest, index |-> p.index]
    /\ p.manifest \in {Absent, Torn} \cup {PackageManifest(c, LayerRecords(c)) : c \in Checkpoints}
    /\ p.index \in {Absent, Torn} \cup {LayerRecords(c) : c \in Checkpoints}

JobAt(j, p, c, pos) ==
    /\ j = [pc |-> j.pc, layers |-> LayerRecords(c), at |-> pos, checkpoint |-> c]
    /\ c \in Checkpoints /\ pos \in 1..(Len(LayerRecords(c)) + 1)
    /\ Holds(p.files, LayerRecords(c), pos - 1)
    /\ \/ j.pc = "layers"
       \/ /\ j.pc = "index" /\ pos = Len(LayerRecords(c)) + 1
          /\ p.manifest = PackageManifest(c, LayerRecords(c))

\* The files of the records written so far hold them, whatever was there before.
PackageInv ==
    /\ PackageShape(package)
    /\ job # NoJob => packed = Absent /\ \E c, pos : JobAt(job, package, c, pos)
    /\ packed # Absent => packed \in Checkpoints /\ Written(package, packed)

LEMMA PackageStart == PackageInit => PackageInv
  BY DEF PackageInit, PackageInv, PackageShape

LEMMA PackageBegins ==
    ASSUME PackageInv, NEW c \in Checkpoints, Package(c) PROVE PackageInv'
<1> DEFINE R == LayerRecords(c)
<1>1. package' = package /\ job = NoJob
  BY DEF Package
<1>2. CASE Sources(c) = {}
  BY <1>1, <1>2 DEF Package, PackageInv, PackageShape, Written, Holds
<1>3. CASE Sources(c) # {}
  <2>1. job' = [pc |-> "layers", layers |-> R, at |-> 1, checkpoint |-> c] /\ packed' = Absent
    BY <1>3 DEF Package
  <2>2. Len(R) \in Nat
    BY RecordsLaid, LaidSize
  <2> HIDE DEF R
  <2>3. PackageShape(package')
    BY <1>1 DEF PackageInv
  <2>4. Holds(package'.files, R, 0)
    BY DEF Holds
  <2>5. JobAt(job', package', c, 1)
    BY <2>1, <2>2, <2>4 DEF JobAt, R
  <2> QED
    BY <2>1, <2>3, <2>5 DEF PackageInv
<1> QED
  BY <1>2, <1>3

LEMMA LayerWritten ==
    ASSUME PackageInv, WriteLayer PROVE PackageInv'
<1>1. job.pc = "layers" /\ job # NoJob /\ packed = Absent /\ packed' = Absent
  BY DEF WriteLayer, NoJob, PackageInv
<1>2. PICK c, pos : JobAt(job, package, c, pos)
  BY <1>1 DEF PackageInv
<1> DEFINE R == LayerRecords(c)
           written == WithFile(package.files, R[pos].file, R[pos].sha)
<1>3. /\ job.layers = R /\ job.at = pos /\ pos \in 1..(Len(R) + 1) /\ c \in Checkpoints
      /\ job = [pc |-> "layers", layers |-> R, at |-> pos, checkpoint |-> c]
  BY <1>1, <1>2 DEF JobAt
<1>4. Laid(R, StateDict(c)) /\ Len(R) \in Nat
  BY <1>3, RecordsLaid, LaidSize DEF R
<1>5. /\ package' = [package EXCEPT !.files = written] /\ pos \in 1..Len(R)
      /\ job' = [pc |-> "layers", layers |-> R, at |-> pos + 1, checkpoint |-> c]
  BY <1>3, <1>4 DEF WriteLayer
<1> HIDE DEF R
<1>6. /\ package = [files |-> package.files, manifest |-> package.manifest, index |-> package.index]
      /\ PackageShape(package)
  BY DEF PackageInv, PackageShape
<1>7. /\ package'.files = written /\ package'.manifest = package.manifest
      /\ package'.index = package.index
      /\ package' = [files |-> written, manifest |-> package.manifest, index |-> package.index]
  BY <1>5, <1>6
<1>8. PackageShape(package')
  BY <1>6, <1>7 DEF PackageShape
<1>9. Holds(written, R, pos)
  <2>1. \A i \in 1..(pos - 1) : R[i].file \in DOMAIN package.files /\ package.files[R[i].file] = R[i].sha
    BY <1>2 DEF JobAt, Holds, R
  <2>2. ASSUME NEW i \in 1..(pos - 1) PROVE R[i].file # R[pos].file
    <3>1. i \in 1..Len(R) /\ i # pos
      BY <1>4, <1>5
    <3> QED
      BY <1>4, <1>5, <3>1, FilesDiffer
  <2>3. ASSUME NEW i \in 1..(pos - 1)
        PROVE  R[i].file \in DOMAIN written /\ written[R[i].file] = R[i].sha
    <3>1. R[i].file \in DOMAIN package.files \ {R[pos].file} /\ package.files[R[i].file] = R[i].sha
      BY <2>1, <2>2
    <3> QED
      BY <3>1 DEF WithFile
  <2>4. R[pos].file \in DOMAIN written /\ written[R[pos].file] = R[pos].sha
    BY DEF WithFile
  <2>5. \A i \in 1..pos : i = pos \/ i \in 1..(pos - 1)
    BY <1>5
  <2> HIDE DEF written
  <2> QED
    BY <2>3, <2>4, <2>5 DEF Holds
<1> HIDE DEF written
<1>10. JobAt(job', package', c, pos + 1)
  <2>1. pos + 1 - 1 = pos /\ pos + 1 \in 1..(Len(R) + 1)
    BY <1>4, <1>5
  <2> QED
    BY <1>3, <1>5, <1>7, <1>9, <2>1 DEF JobAt, R
<1> QED
  BY <1>1, <1>8, <1>10 DEF PackageInv

LEMMA PackageManifestWritten ==
    ASSUME PackageInv, WritePackageManifest PROVE PackageInv'
<1>1. job.pc = "layers" /\ job # NoJob /\ packed = Absent /\ packed' = Absent
  BY DEF WritePackageManifest, NoJob, PackageInv
<1>2. PICK c, pos : JobAt(job, package, c, pos)
  BY <1>1 DEF PackageInv
<1> DEFINE R == LayerRecords(c)
           M == PackageManifest(c, R)
<1>3. /\ job.layers = R /\ job.at = pos /\ pos \in 1..(Len(R) + 1) /\ c \in Checkpoints
      /\ job = [pc |-> "layers", layers |-> R, at |-> pos, checkpoint |-> c]
      /\ Holds(package.files, R, pos - 1)
  BY <1>1, <1>2 DEF JobAt
<1>4. Len(R) \in Nat
  BY <1>3, RecordsLaid, LaidSize DEF R
<1>5. /\ package' = [package EXCEPT !.manifest = M] /\ pos = Len(R) + 1
      /\ job' = [pc |-> "index", layers |-> R, at |-> pos, checkpoint |-> c]
  BY <1>3, <1>4 DEF WritePackageManifest
<1> HIDE DEF R, M
<1>6. /\ package = [files |-> package.files, manifest |-> package.manifest, index |-> package.index]
      /\ package.index \in {Absent, Torn} \cup {LayerRecords(d) : d \in Checkpoints}
  BY DEF PackageInv, PackageShape
<1>7. package' = [files |-> package.files, manifest |-> M, index |-> package.index]
  BY <1>5, <1>6
<1>8. M \in {PackageManifest(d, LayerRecords(d)) : d \in Checkpoints}
  BY <1>3 DEF M, R
<1>9. PackageShape(package')
  BY <1>6, <1>7, <1>8 DEF PackageShape
<1>10. JobAt(job', package', c, pos)
  BY <1>3, <1>5, <1>7 DEF JobAt, R, M
<1> QED
  BY <1>1, <1>9, <1>10 DEF PackageInv

LEMMA IndexWritten ==
    ASSUME PackageInv, WriteIndex PROVE PackageInv'
<1>1. job.pc = "index" /\ job # NoJob /\ job' = NoJob /\ packed' = job.checkpoint
  BY DEF WriteIndex, NoJob
<1>2. PICK c, pos : JobAt(job, package, c, pos)
  BY <1>1 DEF PackageInv
<1> DEFINE R == LayerRecords(c)
<1>3. /\ job.layers = R /\ job.checkpoint = c /\ c \in Checkpoints /\ pos = Len(R) + 1
      /\ Holds(package.files, R, pos - 1) /\ package.manifest = PackageManifest(c, R)
  BY <1>1, <1>2 DEF JobAt
<1>4. Len(R) \in Nat
  BY <1>3, RecordsLaid, LaidSize DEF R
<1>5. pos - 1 = Len(R)
  BY <1>3, <1>4
<1>6. package' = [package EXCEPT !.index = R]
  BY <1>3 DEF WriteIndex
<1> HIDE DEF R
<1>7. /\ package = [files |-> package.files, manifest |-> package.manifest, index |-> package.index]
      /\ package.manifest \in {Absent, Torn} \cup {PackageManifest(d, LayerRecords(d)) : d \in Checkpoints}
  BY DEF PackageInv, PackageShape
<1>8. package' = [files |-> package.files, manifest |-> package.manifest, index |-> R]
  BY <1>6, <1>7
<1>9. R \in {LayerRecords(d) : d \in Checkpoints}
  BY <1>3 DEF R
<1>10. PackageShape(package')
  BY <1>7, <1>8, <1>9 DEF PackageShape
<1>11. Written(package', c)
  BY <1>3, <1>5, <1>8 DEF Written, R
<1> QED
  BY <1>1, <1>3, <1>10, <1>11 DEF PackageInv

LEMMA PackagingInterrupted ==
    ASSUME PackageInv, Interrupted PROVE PackageInv'
<1>1. job # NoJob /\ job' = NoJob /\ packed = Absent /\ packed' = Absent
  BY DEF Interrupted, PackageInv
<1>2. package = [files |-> package.files, manifest |-> package.manifest, index |-> package.index]
  BY DEF PackageInv, PackageShape
<1>3. PackageShape(package')
  <2>1. CASE UNCHANGED package
    BY <2>1 DEF PackageInv
  <2>2. CASE package' = [package EXCEPT !.index = Torn]
    <3>1. package' = [files |-> package.files, manifest |-> package.manifest, index |-> Torn]
      BY <1>2, <2>2
    <3> QED
      BY <3>1 DEF PackageInv, PackageShape
  <2>3. CASE package' = [package EXCEPT !.manifest = Torn]
    <3>1. package' = [files |-> package.files, manifest |-> Torn, index |-> package.index]
      BY <1>2, <2>3
    <3> QED
      BY <3>1 DEF PackageInv, PackageShape
  <2>4. CASE \E written : package' = [package EXCEPT !.files = written]
    <3>1. PICK written : package' = [files |-> written, manifest |-> package.manifest, index |-> package.index]
      BY <1>2, <2>4
    <3> QED
      BY <3>1 DEF PackageInv, PackageShape
  <2> QED
    BY <2>1, <2>2, <2>3, <2>4 DEF Interrupted
<1> QED
  BY <1>1, <1>3 DEF PackageInv

LEMMA FileDamaged ==
    ASSUME PackageInv, NEW f, DamageFile(f) PROVE PackageInv'
<1>1. job = NoJob /\ job' = NoJob /\ packed' = Absent
  BY DEF DamageFile
<1>2. package = [files |-> package.files, manifest |-> package.manifest, index |-> package.index]
  BY DEF PackageInv, PackageShape
<1>3. PICK written : package' = [files |-> written, manifest |-> package.manifest, index |-> package.index]
  BY <1>2 DEF DamageFile
<1>4. PackageShape(package')
  BY <1>3 DEF PackageInv, PackageShape
<1> QED
  BY <1>1, <1>4 DEF PackageInv

LEMMA PackageStep ==
    ASSUME PackageInv, [PackageNext]_packageVars PROVE PackageInv'
<1>1. ASSUME UNCHANGED packageVars PROVE PackageInv'
  BY <1>1 DEF packageVars, PackageInv, PackageShape, JobAt, Written, Holds
<1>2. ASSUME NEW c \in Checkpoints, Package(c) PROVE PackageInv'
  BY <1>2, PackageBegins
<1>3. ASSUME NEW f, DamageFile(f) PROVE PackageInv'
  BY <1>3, FileDamaged
<1> QED
  BY <1>1, <1>2, <1>3, LayerWritten, PackageManifestWritten, IndexWritten, PackagingInterrupted
     DEF PackageNext

-----------------------------------------------------------------------------
(* Packages: what is read.                                                 *)

\* The index that is read.
Indexed(R, n) ==
    R = package.index /\ ReadableJson(R) /\ n \in Nat /\ Len(R) = n /\ DOMAIN R = 1..n

Names(R, n, i, x) ==
    /\ x \in {<<R[i].name>>, R[i].file}
    /\ \A j \in 1..n : x \in {<<R[j].name>>, R[j].file} => j = i

Entry(R, i) == {[record |-> R[i], tensors |-> package.files[R[i].file]]}

\* A record by its position, from either end.
LEMMA LoadedAt ==
    ASSUME NEW R, NEW n, Indexed(R, n), NEW i \in 1..n, Intact(R[i])
    PROVE  /\ LoadLayer(<<"at", i - 1>>) = Entry(R, i)
           /\ LoadLayer(<<"at", i - 1 - n>>) = Entry(R, i)
<1>1. ASSUME NEW k \in {i - 1, i - 1 - n} PROVE LoadLayer(<<"at", k>>) = Entry(R, i)
  <2>1. {j \in 1..n : j - 1 = k \/ j - 1 = k + n} = {i}
    BY DEF Indexed
  <2>2. Resolve(R, <<"at", k>>) = {R[h] : h \in {j \in 1..n : j - 1 = k \/ j - 1 = k + n}}
    BY DEF Resolve, Indexed
  <2>3. Resolve(R, <<"at", k>>) = {R[i]}
    BY <2>1, <2>2
  <2> QED
    BY <2>3 DEF LoadLayer, Indexed, Entry
<1> QED
  BY <1>1

\* A record by its name or its file: no other record has either.
LEMMA LoadedNamed ==
    ASSUME NEW R, NEW n, Indexed(R, n), NEW i \in 1..n, Intact(R[i]), NEW x, Names(R, n, i, x)
    PROVE  LoadLayer(<<"name", x>>) = Entry(R, i) /\ LoadLayer(<<"file", x>>) = Entry(R, i)
<1> DEFINE named == {j \in 1..n : x \in {<<R[j].name>>, R[j].file}}
<1>1. named = {i}
  BY DEF Names
<1>2. ASSUME NEW how \in {"name", "file"} PROVE LoadLayer(<<how, x>>) = Entry(R, i)
  <2>1. Resolve(R, <<how, x>>) = {R[h] : h \in {j \in named : \A k \in named : j <= k}}
    BY DEF Resolve, Indexed
  <2> HIDE DEF named
  <2>2. Resolve(R, <<how, x>>) = {R[i]}
    BY <1>1, <2>1
  <2> QED
    BY <2>2 DEF LoadLayer, Indexed, Entry
<1> QED
  BY <1>2

LEMMA MarksAreNoJson ==
    ASSUME NEW c \in Checkpoints
    PROVE  /\ ReadableJson(LayerRecords(c))
           /\ ReadableJson(PackageManifest(c, LayerRecords(c)))
  BY PackageAssumption DEF ReadableJson

LEMMA ManifestOfRecords ==
    ASSUME NEW c, NEW R, NEW n \in Nat, Len(R) = n, DOMAIN R = 1..n
    PROVE  /\ PackageManifest(c, R).source = c /\ PackageManifest(c, R).count = n
           /\ Len(PackageManifest(c, R).layers) = n /\ DOMAIN PackageManifest(c, R).layers = 1..n
           /\ \A i \in 1..n : PackageManifest(c, R).layers[i] = Summary(R[i])
<1>1. PackageManifest(c, R).layers = [i \in 1..n |-> Summary(R[i])]
  BY DEF PackageManifest
<1>2. [i \in 1..n |-> Summary(R[i])] \in Seq({Summary(R[i]) : i \in 1..n})
  OBVIOUS
<1> QED
  BY <1>1, <1>2 DEF PackageManifest

\* A tensor's value is that of the last file it is in.
LEMMA LastHolder ==
    ASSUME NEW c \in Checkpoints, NEW f \in Sources(c), NEW t \in DOMAIN c.files[f].tensors
    PROVE  /\ t \in DOMAIN StateDict(c)
           /\ \/ StateDict(c)[t] = c.files[f].tensors[t]
              \/ \E g \in Sources(c) : g > f /\ t \in DOMAIN c.files[g].tensors
<1> DEFINE n == Len(c.files)
           holders == {h \in Sources(c) : t \in DOMAIN c.files[h].tensors}
<1>1. n \in Nat /\ Sources(c) \subseteq 1..n
  BY SourcesAreFiles
<1>2. holders \in SUBSET (0..n) /\ holders \in SUBSET Int /\ f \in holders
  BY <1>1
<1>3. PICK g \in holders : \A h \in holders : g >= h
  <2> HIDE DEF holders, n
  <2> QED
    BY <1>1, <1>2, GreatestOf
<1>4. Max(holders) = g
  <2> HIDE DEF holders, n
  <2> QED
    BY <1>2, <1>3, MaxOf
<1>5. t \in DOMAIN StateDict(c) /\ StateDict(c)[t] = c.files[Max(holders)].tensors[t]
  BY DEF StateDict
<1>6. g = f \/ g > f
  BY <1>1, <1>2, <1>3
<1> QED
  BY <1>3, <1>4, <1>5, <1>6

LEMMA WrittenIsValid ==
    ASSUME NEW c \in Checkpoints, Written(package, c)
    PROVE  ValidatePackage
<1> DEFINE R == LayerRecords(c)
           n == Len(R)
           dict == StateDict(c)
<1>1. Laid(R, dict) /\ n \in Nat /\ DOMAIN R = 1..n
  BY RecordsLaid, LaidSize
<1>2. /\ package.index = R /\ package.manifest = PackageManifest(c, R)
      /\ Holds(package.files, R, n) /\ ReadableJson(R) /\ ReadableJson(PackageManifest(c, R))
  BY MarksAreNoJson DEF Written
<1> HIDE DEF R, dict
<1>3. /\ package.manifest.count = n /\ Len(package.manifest.layers) = n
      /\ \A i \in 1..n : package.manifest.layers[i] = Summary(R[i])
  BY <1>1, <1>2, ManifestOfRecords
<1>4. \A i \in 1..n : Intact(R[i])
  BY <1>2 DEF Holds, Intact
<1>5. ASSUME NEW i \in 1..n PROVE DOMAIN package.files[R[i].file] = R[i].tensors
  <2>1. package.files[R[i].file] = R[i].sha
    BY <1>2 DEF Holds
  <2> QED
    BY <1>1, <2>1, LaidRecord
<1> HIDE DEF n
<1> QED
  BY <1>1, <1>2, <1>3, <1>4, <1>5 DEF ValidatePackage, n

LEMMA WrittenIsComplete ==
    ASSUME NEW c \in Checkpoints, Written(package, c),
           NEW f \in Sources(c), NEW t \in DOMAIN c.files[f].tensors
    PROVE  LET found == {l \in UNION {LoadLayer(<<"at", i - 1>>) : i \in DOMAIN package.index} :
                              t \in DOMAIN l.tensors}
           IN  /\ Cardinality(found) = 1
               /\ \A l \in found :
                     /\ l.record.name = t[1]
                     /\ \/ l.tensors[t] = c.files[f].tensors[t]
                        \/ \E g \in Sources(c) : g > f /\ t \in DOMAIN c.files[g].tensors
<1> DEFINE found == {l \in UNION {LoadLayer(<<"at", i - 1>>) : i \in DOMAIN package.index} :
                         t \in DOMAIN l.tensors}
           R == LayerRecords(c)
           n == Len(R)
           dict == StateDict(c)
           entry(i) == [record |-> R[i], tensors |-> R[i].sha]
<1>1. Laid(R, dict) /\ n \in Nat /\ DOMAIN R = 1..n
  BY RecordsLaid, LaidSize
<1>2. /\ package.index = R /\ Holds(package.files, R, n) /\ ReadableJson(R)
  BY MarksAreNoJson DEF Written
<1> HIDE DEF R, dict
<1>3. \A i \in 1..n : LoadLayer(<<"at", i - 1>>) = {entry(i)}
  <2> SUFFICES ASSUME NEW i \in 1..n PROVE LoadLayer(<<"at", i - 1>>) = {entry(i)}
    OBVIOUS
  <2>1. Intact(R[i]) /\ package.files[R[i].file] = R[i].sha
    BY <1>2 DEF Holds, Intact
  <2>2. Indexed(R, n)
    BY <1>1, <1>2 DEF Indexed
  <2>3. LoadLayer(<<"at", i - 1>>) = Entry(R, i)
    BY <2>1, <2>2, LoadedAt
  <2> QED
    BY <2>1, <2>3 DEF Entry
<1>4. t \in DOMAIN dict
  BY LastHolder DEF dict
<1>5. PICK i \in 1..n : R[i].name = t[1]
  BY <1>1, <1>4 DEF Laid
<1>6. \A j \in 1..n : t \in DOMAIN R[j].sha <=> j = i
  <2>1. \A j \in 1..n : t \in DOMAIN R[j].sha <=> t[1] = R[j].name
    BY <1>1, <1>4, LaidRecord
  <2>2. \A j \in 1..n : t[1] = R[j].name <=> j = i
    BY <1>1, <1>5 DEF Laid
  <2> QED
    BY <2>1, <2>2
<1>7. found = {entry(i)}
  <2> HIDE DEF n
  <2>1. UNION {LoadLayer(<<"at", j - 1>>) : j \in 1..n} = {entry(j) : j \in 1..n}
    <3> DEFINE pos(j) == LoadLayer(<<"at", j - 1>>)
    <3>1. \A j \in 1..n : pos(j) = {entry(j)}
      BY <1>3
    <3> HIDE DEF pos, entry
    <3>2. UNION {pos(j) : j \in 1..n} = {entry(j) : j \in 1..n}
      BY <3>1
    <3> QED
      BY <3>2 DEF pos
  <2>2. found = {l \in {entry(j) : j \in 1..n} : t \in DOMAIN l.tensors}
    BY <1>1, <1>2, <2>1
  <2>3. \A j \in 1..n : t \in DOMAIN entry(j).tensors <=> j = i
    BY <1>6
  <2> HIDE DEF entry, found
  <2> QED
    BY <2>2, <2>3
<1>8. Cardinality(found) = 1
  BY <1>7, FS_Singleton
<1>9. R[i].sha[t] = dict[t]
  BY <1>1, <1>4, <1>5, LaidRecord
<1> QED
  BY <1>5, <1>7, <1>8, <1>9, LastHolder DEF dict

LEMMA ValidIsWhole ==
    ASSUME PackageShape(package), ValidatePackage,
           NEW i \in DOMAIN LayerRecords(package.manifest.source)
    PROVE  LET records == LayerRecords(package.manifest.source)
           IN  \A id \in {<<"at", i - 1>>, <<"at", i - 1 - Len(records)>>, <<"name", <<records[i].name>>>>,
                           <<"file", records[i].file>>} :
                    {[name |-> l.record.name, tensors |-> l.tensors] : l \in LoadLayer(id)}
                        = {[name |-> records[i].name, tensors |-> records[i].sha]}
<1>1. PICK c \in Checkpoints : package.manifest = PackageManifest(c, LayerRecords(c))
  BY DEF PackageShape, ValidatePackage, ReadableJson
<1>2. PICK d \in Checkpoints : package.index = LayerRecords(d)
  BY DEF PackageShape, ValidatePackage, ReadableJson
<1> DEFINE R == LayerRecords(c)
           Q == LayerRecords(d)
           n == Len(R)
<1>3. /\ Laid(R, StateDict(c)) /\ n \in Nat /\ DOMAIN R = 1..n
      /\ Laid(Q, StateDict(d)) /\ Len(Q) \in Nat /\ DOMAIN Q = 1..Len(Q)
  BY RecordsLaid, LaidSize
<1>4. package.manifest = PackageManifest(c, R) /\ package.index = Q /\ ReadableJson(Q)
  BY <1>1, <1>2 DEF ValidatePackage
<1> HIDE DEF R, Q
<1>5. /\ package.manifest.source = c /\ Len(package.manifest.layers) = n
      /\ \A j \in 1..n : package.manifest.layers[j] = Summary(R[j])
  BY <1>3, <1>4, ManifestOfRecords
<1>6. Len(Q) = n /\ DOMAIN Q = 1..n
  BY <1>3, <1>4, <1>5 DEF ValidatePackage
<1>7. i \in 1..n /\ LayerRecords(package.manifest.source) = R
  BY <1>3, <1>5 DEF R
<1>8. \A j \in 1..n : /\ Q[j].name = R[j].name /\ Q[j].file = R[j].file /\ Q[j].sha = R[j].sha
                      /\ Intact(Q[j])
  <2> SUFFICES ASSUME NEW j \in 1..n
               PROVE  /\ Q[j].name = R[j].name /\ Q[j].file = R[j].file /\ Q[j].sha = R[j].sha
                      /\ Intact(Q[j])
    OBVIOUS
  <2>1. Summary(R[j]) = Summary(Q[j]) /\ Intact(Q[j])
    BY <1>4, <1>5, <1>6 DEF ValidatePackage
  <2>2. /\ Summary(R[j]).name = R[j].name /\ Summary(Q[j]).name = Q[j].name
        /\ Summary(R[j]).file = R[j].file /\ Summary(Q[j]).file = Q[j].file
        /\ Summary(R[j]).sha = R[j].sha /\ Summary(Q[j]).sha = Q[j].sha
    BY DEF Summary
  <2> QED
    BY <2>1, <2>2
<1>9. package.files[Q[i].file] = R[i].sha /\ Intact(Q[i])
  BY <1>7, <1>8 DEF Intact
<1> DEFINE given == {[record |-> Q[i], tensors |-> R[i].sha]}
<1>10. Indexed(Q, n) /\ Entry(Q, i) = given
  BY <1>3, <1>4, <1>6, <1>9 DEF Indexed, Entry
<1>11. \A j \in 1..n : /\ <<R[i].name>> \in {<<Q[j].name>>, Q[j].file} => j = i
                       /\ R[i].file \in {<<Q[j].name>>, Q[j].file} => j = i
  <2>1. ASSUME NEW j \in 1..n
        PROVE  /\ R[i].file # <<Q[j].name>> /\ Q[j].file # <<R[i].name>>
               /\ R[i].file = Q[j].file => j = i
    BY <1>3, <1>7, <1>8, FilesDiffer
  <2>2. \A j \in 1..n : <<R[i].name>> = <<Q[j].name>> => j = i
    BY <1>3, <1>7, <1>8 DEF Laid
  <2> QED
    BY <2>1, <2>2
<1>12. Names(Q, n, i, <<R[i].name>>) /\ Names(Q, n, i, R[i].file)
  BY <1>7, <1>8, <1>11 DEF Names
<1>13. /\ LoadLayer(<<"at", i - 1>>) = given /\ LoadLayer(<<"at", i - 1 - n>>) = given
       /\ LoadLayer(<<"name", <<R[i].name>>>>) = given /\ LoadLayer(<<"file", R[i].file>>) = given
  <2> HIDE DEF given, n
  <2>1. Intact(Q[i]) /\ i \in 1..n /\ Indexed(Q, n)
    BY <1>7, <1>9, <1>10
  <2>2. LoadLayer(<<"at", i - 1>>) = Entry(Q, i) /\ LoadLayer(<<"at", i - 1 - n>>) = Entry(Q, i)
    BY <2>1, LoadedAt
  <2>3. LoadLayer(<<"name", <<R[i].name>>>>) = Entry(Q, i)
    BY <1>12, <2>1, LoadedNamed
  <2>4. LoadLayer(<<"file", R[i].file>>) = Entry(Q, i)
    BY <1>12, <2>1, LoadedNamed
  <2> QED
    BY <1>10, <2>2, <2>3, <2>4
<1>14. {[name |-> l.record.name, tensors |-> l.tensors] : l \in given}
          = {[name |-> R[i].name, tensors |-> R[i].sha]}
  BY <1>7, <1>8
<1> HIDE DEF given, n
<1> QED
  BY <1>7, <1>13, <1>14 DEF n

LEMMA PackageMeans == PackageInv => PackageSound
<1> SUFFICES ASSUME PackageInv PROVE PackageSound
  OBVIOUS
<1>1. PackageComplete
  <2> SUFFICES ASSUME packed # Absent, job = NoJob
               PROVE  /\ ValidatePackage
                      /\ \A f \in Sources(packed) : \A t \in DOMAIN packed.files[f].tensors :
                            LET found == {l \in UNION {LoadLayer(<<"at", i - 1>>) : i \in DOMAIN package.index} :
                                              t \in DOMAIN l.tensors}
                            IN  /\ Cardinality(found) = 1
                                /\ \A l \in found :
                                      /\ l.record.name = t[1]
                                      /\ \/ l.tensors[t] = packed.files[f].tensors[t]
                                         \/ \E g \in Sources(packed) : g > f /\ t \in DOMAIN packed.files[g].tensors
    BY DEF PackageComplete
  <2>1. packed \in Checkpoints /\ Written(package, packed)
    BY DEF PackageInv
  <2>2. ValidatePackage
    BY <2>1, WrittenIsValid
  <2> QED
    BY <2>1, <2>2, WrittenIsComplete
<1>2. ValidTruthful
  <2>1. PackageShape(package)
    BY DEF PackageInv
  <2> QED
    BY <2>1, ValidIsWhole DEF ValidTruthful
<1> QED
  BY <1>1, <1>2 DEF PackageSound

\* The inductive invariant of a package: index and manifest are those of checkpoints or
\* torn, a packaging under way has written the layers before the one it is at, and what
\* it left undamaged is whole.
THEOREM PackageInvariance == PackageSpec => []PackageInv
<1>1. PackageInit => PackageInv
  BY PackageStart
<1>2. PackageInv /\ [PackageNext]_packageVars => PackageInv'
  BY PackageStep
<1> QED
  BY <1>1, <1>2, PTL DEF PackageSpec

\* For any checkpoints and any packagings, interrupted and damaged anywhere: what one left
\* is complete, and what validates is the whole of its manifest's checkpoint (package.py).
THEOREM PackagesAreSound == PackageSpec => []PackageSound
  BY PackageInvariance, PackageMeans, PTL

-----------------------------------------------------------------------------
(* The MLX expert cache: the bytes of a set of keys.                       *)

Term(ks) == [k \in Keys |-> IF k \in ks THEN Nbytes[k] ELSE 0]

\* The keys are finitely many.
LEMMA KeysAreFinite == IsFiniteSet(Keys)
<1>1. NumSwitchLayers \in Nat /\ NumExperts \in Nat
  BY MlxCacheAssumption
<1>2. IsFiniteSet(SwitchLayers) /\ IsFiniteSet(Experts)
  BY <1>1, FS_Interval DEF SwitchLayers, Experts
<1> QED
  BY <1>2, FS_Product DEF Keys

LEMMA ExpertsAreFinite == Experts \subseteq Nat /\ IsFiniteSet(Experts)
<1>1. NumExperts \in Nat
  BY MlxCacheAssumption
<1> QED
  BY <1>1, FS_Interval DEF Experts

\* What is taken out of a set of keys is taken off its bytes, and they are never
\* negative.
LEMMA TotalOf ==
    ASSUME NEW ks \in SUBSET Keys
    PROVE  /\ Total[ks] \in Nat
           /\ \A vs \in SUBSET ks : Total[ks \ vs] = Total[ks] - Total[vs]
           /\ \A k \in Keys \ ks : Total[ks \cup {k}] = Total[ks] + Nbytes[k]
<1> DEFINE Zero == [k \in Keys |-> 0]
<1>1. /\ \A vs \in SUBSET Keys : Term(vs) \in [Keys -> Int] /\ Total[vs] = SumFunction(Term(vs))
      /\ Zero \in [Keys -> Int] /\ Nbytes \in [Keys -> Nat \ {0}]
  BY MlxCacheAssumption DEF Term, Total
<1>2. SumFunction(Zero) = 0
  <2>1. SumFunction(Zero) = Cardinality(Keys) * 0
    BY <1>1, KeysAreFinite, SumConstant
  <2> QED
    BY <2>1, KeysAreFinite, FS_CardinalityType
<1>3. \A vs \in SUBSET Keys : Total[vs] \in Int /\ 0 <= Total[vs]
  <2>1. TAKE vs \in SUBSET Keys
  <2>2. \A k \in Keys : Zero[k] + Zero[k] <= Term(vs)[k]
    BY <1>1 DEF Term
  <2>3. SumFunction(Zero) + SumFunction(Zero) <= SumFunction(Term(vs))
    BY <1>1, <2>2, KeysAreFinite, SumRelate
  <2>4. SumFunction(Term(vs)) \in Int
    BY <1>1, KeysAreFinite, SumInt
  <2> QED
    BY <1>1, <1>2, <2>3, <2>4
<1>4. ASSUME NEW vs \in SUBSET ks PROVE Total[ks \ vs] = Total[ks] - Total[vs]
  <2>1. vs \in SUBSET Keys /\ ks \ vs \in SUBSET Keys
    OBVIOUS
  <2> DEFINE f == Term(vs)
             g == Term(ks \ vs)
             h == Term(ks)
  <2>2. \A k \in Keys : f[k] + g[k] = h[k]
    BY <1>1 DEF Term
  <2>3. f \in [Keys -> Int] /\ g \in [Keys -> Int] /\ h \in [Keys -> Int]
    BY <1>1, <2>1
  <2>4. Total[vs] = SumFunction(f) /\ Total[ks \ vs] = SumFunction(g) /\ Total[ks] = SumFunction(h)
    BY <1>1, <2>1
  <2> HIDE DEF f, g, h
  <2>5. SumFunction(f) + SumFunction(g) = SumFunction(h)
    BY <2>2, <2>3, KeysAreFinite, SumAdd
  <2> QED
    BY <1>3, <2>1, <2>4, <2>5
<1>5. ASSUME NEW k \in Keys \ ks PROVE Total[ks \cup {k}] = Total[ks] + Nbytes[k]
  <2>1. ks \cup {k} \in SUBSET Keys /\ k \in Keys
    OBVIOUS
  <2> DEFINE f == Term(ks)
             g == Term(ks \cup {k})
  <2>2. \A y \in Keys \ {k} : f[y] = g[y]
    BY DEF Term
  <2>3. f \in [Keys -> Int] /\ g \in [Keys -> Int] /\ g[k] = Nbytes[k] /\ f[k] = 0 /\ Nbytes[k] \in Int
    BY <1>1, <2>1 DEF Term
  <2>4. Total[ks] = SumFunction(f) /\ Total[ks \cup {k}] = SumFunction(g)
    BY <1>1, <2>1
  <2> HIDE DEF f, g
  <2>5. SumFunction(g) - g[k] = SumFunction(f) - f[k]
    BY <2>1, <2>2, <2>3, KeysAreFinite, SumChange
  <2> QED
    BY <1>3, <2>1, <2>3, <2>4, <2>5
<1> QED
  BY <1>3, <1>4, <1>5

-----------------------------------------------------------------------------
(* The order of eviction.                                                  *)

LiveEntry(c, k) == [freq |-> c.freq[k], tick |-> c.last[k], key |-> k]

CacheStates ==
    [keys : SUBSET Keys, nbytes : Nat, freq : [Keys -> Nat], last : [Keys -> Nat],
     tick : Nat, heap : SUBSET [freq : Nat, tick : Nat, key : Keys]]

\* The parts of the LFU state that hold but for the keys of fresh, whose entry is
\* still to be pushed: nothing is ahead of the clock, a live entry has its key's
\* count, a cached key has one, and no two of them have one tick.
Timely(c, fresh) ==
    /\ \A h \in c.heap : h.tick <= c.tick
    /\ \A k \in Keys : c.last[k] <= c.tick
    /\ \A h \in c.heap : h.key \notin fresh /\ h.tick = c.last[h.key] => h.freq = c.freq[h.key]
    /\ \A k \in c.keys \ fresh : LiveEntry(c, k) \in c.heap
    /\ \A k, l \in c.keys \ fresh : c.last[k] = c.last[l] => k = l

Counted(c) == c.nbytes = Total[c.keys]

LfuSound(c) == c \in CacheStates /\ Timely(c, {}) /\ Counted(c)

\* A rebuilt heap has the live entries and no others.
LEMMA RebuiltLemma ==
    ASSUME NEW c, LfuSound(c)
    PROVE  /\ LfuSound(Rebuilt(c))
           /\ Rebuilt(c) = [c EXCEPT !.heap = {LiveEntry(c, k) : k \in c.keys}]
           /\ Rebuilt(c).keys = c.keys /\ Rebuilt(c).nbytes = c.nbytes
<1> DEFINE d == Rebuilt(c)
<1>1. d = [c EXCEPT !.heap = {LiveEntry(c, k) : k \in c.keys}]
  BY DEF Rebuilt, LiveEntry
<1>2. /\ c \in CacheStates /\ c.keys \subseteq Keys /\ c.last \in [Keys -> Nat] /\ c.freq \in [Keys -> Nat]
      /\ \A k \in c.keys : LiveEntry(c, k) \in [freq : Nat, tick : Nat, key : Keys]
  BY DEF LfuSound, CacheStates, LiveEntry
<1> HIDE DEF d
<1>3. /\ d \in CacheStates /\ d.keys = c.keys /\ d.nbytes = c.nbytes /\ d.freq = c.freq
      /\ d.last = c.last /\ d.tick = c.tick /\ d.heap = {LiveEntry(c, k) : k \in c.keys}
  BY <1>1, <1>2 DEF CacheStates
<1>4. \A k \in Keys : LiveEntry(d, k) = LiveEntry(c, k)
  BY <1>3 DEF LiveEntry
<1>5. \A h \in d.heap : h.key \in c.keys /\ h = LiveEntry(c, h.key) /\ h.tick = c.last[h.key] /\ h.freq = c.freq[h.key]
  BY <1>3 DEF LiveEntry
<1>6. Timely(d, {})
  <2>1. \A h \in d.heap : h.tick <= d.tick
    BY <1>2, <1>3, <1>5 DEF LfuSound, Timely
  <2>2. \A l \in Keys : d.last[l] <= d.tick
    BY <1>3 DEF LfuSound, Timely
  <2>3. \A h \in d.heap : h.freq = d.freq[h.key]
    BY <1>3, <1>5
  <2>4. \A l \in d.keys : LiveEntry(d, l) \in d.heap
    BY <1>2, <1>3, <1>4
  <2>5. \A k, l \in d.keys : d.last[k] = d.last[l] => k = l
    BY <1>3 DEF LfuSound, Timely
  <2> QED
    BY <2>1, <2>2, <2>3, <2>4, <2>5 DEF Timely
<1> QED
  BY <1>1, <1>3, <1>6 DEF LfuSound, Counted, d

\* A push gives the one key that lacks it its live entry.
LEMMA PushLemma ==
    ASSUME NEW c \in CacheStates, NEW k \in Keys, Timely(c, {k}), Counted(c)
    PROVE  /\ LfuSound(Push(c, k))
           /\ Push(c, k).keys = c.keys /\ Push(c, k).nbytes = c.nbytes
<1> DEFINE now == c.tick + 1
           e == [freq |-> c.freq[k], tick |-> now, key |-> k]
           stamps == [c.last EXCEPT ![k] = now]
           entries == c.heap \cup {e}
           d == [c EXCEPT !.tick = now, !.last = stamps, !.heap = entries]
<1>1. /\ d \in CacheStates /\ d.keys = c.keys /\ d.nbytes = c.nbytes /\ d.freq = c.freq
      /\ d.tick = c.tick + 1 /\ d.heap = c.heap \cup {e}
      /\ d.last = [c.last EXCEPT ![k] = c.tick + 1]
  <2>1. now \in Nat
    BY DEF CacheStates
  <2>2. stamps \in [Keys -> Nat]
    BY <2>1 DEF CacheStates
  <2>3. entries \in SUBSET [freq : Nat, tick : Nat, key : Keys]
    BY <2>1 DEF CacheStates
  <2>4. now = c.tick + 1 /\ stamps = [c.last EXCEPT ![k] = c.tick + 1] /\ entries = c.heap \cup {e}
    OBVIOUS
  <2> HIDE DEF now, stamps, entries, e
  <2>5. d \in CacheStates
    BY <2>1, <2>2, <2>3 DEF CacheStates
  <2>6. /\ d.keys = c.keys /\ d.nbytes = c.nbytes /\ d.freq = c.freq
        /\ d.tick = now /\ d.heap = entries /\ d.last = stamps
    BY DEF CacheStates
  <2> HIDE DEF d
  <2> QED
    BY <2>4, <2>5, <2>6
<1>2. c.tick \in Nat /\ c.last \in [Keys -> Nat] /\ c.keys \subseteq Keys /\ c.freq \in [Keys -> Nat]
      /\ c.heap \subseteq [freq : Nat, tick : Nat, key : Keys]
  BY DEF CacheStates
<1> HIDE DEF d
<1>3. /\ d.last[k] = c.tick + 1 /\ \A l \in Keys \ {k} : d.last[l] = c.last[l]
  BY <1>1, <1>2
<1>4. Timely(d, {})
  <2>1. \A h \in d.heap : h.tick <= d.tick
    BY <1>1, <1>2 DEF Timely
  <2>2. \A l \in Keys : d.last[l] <= d.tick
    BY <1>1, <1>2, <1>3 DEF Timely
  <2>3. ASSUME NEW h \in d.heap, h.tick = d.last[h.key] PROVE h.freq = d.freq[h.key]
    <3>1. CASE h = e
      BY <1>1, <3>1
    <3>2. CASE h \in c.heap
      <4>1. h.tick <= c.tick /\ h.tick \in Nat /\ h.key \in Keys
        BY <1>2, <3>2 DEF Timely
      <4>2. h.key # k
        BY <1>2, <1>3, <2>3, <4>1
      <4> QED
        BY <1>1, <1>3, <2>3, <3>2, <4>1, <4>2 DEF Timely
    <3> QED
      BY <1>1, <3>1, <3>2
  <2>4. ASSUME NEW l \in d.keys PROVE LiveEntry(d, l) \in d.heap
    <3>1. CASE l = k
      BY <1>1, <1>3, <3>1 DEF LiveEntry
    <3>2. CASE l # k
      <4>1. l \in Keys /\ LiveEntry(c, l) \in c.heap
        BY <1>1, <1>2, <3>2 DEF Timely
      <4>2. LiveEntry(d, l) = LiveEntry(c, l)
        BY <1>1, <1>3, <3>2, <4>1 DEF LiveEntry
      <4> QED
        BY <1>1, <4>1, <4>2
    <3> QED
      BY <3>1, <3>2
  <2>5. ASSUME NEW l \in d.keys, NEW m \in d.keys, d.last[l] = d.last[m] PROVE l = m
    <3>1. l \in Keys /\ m \in Keys /\ l \in c.keys /\ m \in c.keys
      BY <1>1, <1>2
    <3>2. c.last[l] <= c.tick /\ c.last[m] <= c.tick /\ c.last[l] \in Nat /\ c.last[m] \in Nat
      BY <1>2, <3>1 DEF Timely
    <3>3. l # k /\ m # k => c.last[l] = c.last[m] /\ l \in c.keys \ {k} /\ m \in c.keys \ {k}
      BY <1>3, <2>5, <3>1
    <3>4. l = k /\ m # k => d.last[l] = c.tick + 1 /\ d.last[m] = c.last[m]
      BY <1>3, <3>1
    <3>5. m = k /\ l # k => d.last[m] = c.tick + 1 /\ d.last[l] = c.last[l]
      BY <1>3, <3>1
    <3> QED
      BY <1>2, <2>5, <3>2, <3>3, <3>4, <3>5 DEF Timely
  <2> QED
    BY <2>1, <2>2, <2>3, <2>4, <2>5 DEF Timely
<1>5. LfuSound(d)
  BY <1>1, <1>4 DEF LfuSound, Counted
<1>6. LfuSound(Rebuilt(d)) /\ Rebuilt(d).keys = c.keys /\ Rebuilt(d).nbytes = c.nbytes
  BY <1>1, <1>5, RebuiltLemma
<1>7. Push(c, k) = d \/ Push(c, k) = Rebuilt(d)
  BY DEF Push, d
<1> QED
  BY <1>1, <1>5, <1>6, <1>7

\* An access: a higher count, and the entry that goes with it.
LEMMA TouchFresh ==
    ASSUME NEW c \in CacheStates, NEW k \in Keys, Timely(c, {k}), Counted(c)
    PROVE  /\ LfuSound(Touch(c, k))
           /\ Touch(c, k).keys = c.keys /\ Touch(c, k).nbytes = c.nbytes
<1> DEFINE raised == [c.freq EXCEPT ![k] = @ + 1]
           d == [c EXCEPT !.freq = raised]
<1>1. Touch(c, k) = Push(d, k)
  BY DEF Touch
<1>2. c \in CacheStates /\ c.freq \in [Keys -> Nat] /\ c.keys \subseteq Keys
      /\ c.heap \subseteq [freq : Nat, tick : Nat, key : Keys]
  BY DEF CacheStates
<1>3. raised \in [Keys -> Nat] /\ \A l \in Keys \ {k} : raised[l] = c.freq[l]
  BY <1>2
<1> HIDE DEF raised
<1>4. /\ d \in CacheStates /\ d.keys = c.keys /\ d.nbytes = c.nbytes /\ d.freq = raised
      /\ d.tick = c.tick /\ d.last = c.last /\ d.heap = c.heap
  BY <1>2, <1>3 DEF CacheStates
<1> HIDE DEF d
<1>5. \A l \in Keys \ {k} : LiveEntry(d, l) = LiveEntry(c, l)
  BY <1>3, <1>4 DEF LiveEntry
<1>6. Timely(d, {k})
  <2>1. Timely(c, {k})
    OBVIOUS
  <2>2. \A h \in d.heap : h.key \notin {k} /\ h.tick = d.last[h.key] => h.freq = d.freq[h.key]
    BY <1>2, <1>3, <1>4, <2>1 DEF Timely
  <2>3. \A l \in d.keys \ {k} : LiveEntry(d, l) \in d.heap
    BY <1>2, <1>4, <1>5, <2>1 DEF Timely
  <2> QED
    BY <1>4, <2>1, <2>2, <2>3 DEF Timely
<1>7. Counted(d)
  BY <1>4 DEF Counted
<1> QED
  BY <1>1, <1>4, <1>6, <1>7, PushLemma

LEMMA TouchLemma ==
    ASSUME NEW c, LfuSound(c), NEW k \in Keys
    PROVE  /\ LfuSound(Touch(c, k))
           /\ Touch(c, k).keys = c.keys /\ Touch(c, k).nbytes = c.nbytes
<1>1. c \in CacheStates /\ Counted(c)
  BY DEF LfuSound
<1>2. Timely(c, {k})
  BY DEF LfuSound, Timely
<1> QED
  BY <1>1, <1>2, TouchFresh

Less(c, k, l) ==
    \/ c.freq[k] < c.freq[l]
    \/ c.freq[k] = c.freq[l] /\ c.last[k] < c.last[l]

\* The cached keys are found in the order of their counts, then of their ticks.
LEMMA ColderLemma ==
    ASSUME NEW c, LfuSound(c), NEW k \in c.keys, NEW l \in c.keys
    PROVE  Colder(c, k, l) <=> Less(c, k, l)
<1> DEFINE live == {h \in c.heap : Live(c, h)}
           Holding(x) == \E h \in live : h.key = x
<1>1. c.keys \subseteq Keys /\ c.heap \subseteq [freq : Nat, tick : Nat, key : Keys]
  BY DEF LfuSound, CacheStates
<1>2. ASSUME NEW m \in c.keys
      PROVE  /\ LiveEntry(c, m) \in live /\ LiveEntry(c, m).key = m
             /\ LiveEntry(c, m).freq = c.freq[m] /\ LiveEntry(c, m).tick = c.last[m]
  BY <1>1 DEF LfuSound, Timely, LiveEntry, Live
<1>3. \A h \in live : h.tick = c.last[h.key] /\ h.freq = c.freq[h.key]
  BY <1>1 DEF LfuSound, Timely, Live
<1>4. Holding(k) /\ Holding(l)
  BY <1>2
<1>5. Colder(c, k, l) <=> \E g, h \in live : g.key = k /\ h.key = l /\ Before(g, h)
  <2> HIDE DEF live
  <2> QED
    BY <1>4 DEF Colder, live
<1> HIDE DEF live
<1>6. (\E g, h \in live : g.key = k /\ h.key = l /\ Before(g, h)) => Less(c, k, l)
  BY <1>3 DEF Before, Less
<1>7. Less(c, k, l) => Before(LiveEntry(c, k), LiveEntry(c, l))
  BY <1>2 DEF Before, Less
<1> QED
  BY <1>2, <1>5, <1>6, <1>7

\* It is a strict order of them.
LEMMA LessOrders ==
    ASSUME NEW c, LfuSound(c)
    PROVE  Orders({p \in c.keys \X c.keys : Less(c, p[1], p[2])}, c.keys)
<1> DEFINE R == {p \in c.keys \X c.keys : Less(c, p[1], p[2])}
<1>1. \A x, y \in c.keys : <<x, y>> \in R <=> Less(c, x, y)
  OBVIOUS
<1>2. \A x \in c.keys : c.freq[x] \in Nat /\ c.last[x] \in Nat
  BY DEF LfuSound, CacheStates
<1>3. \A x, y \in c.keys : c.last[x] = c.last[y] => x = y
  BY DEF LfuSound, Timely
<1> HIDE DEF R
<1>4. \A x \in c.keys : ~Less(c, x, x)
  BY <1>2 DEF Less
<1>5. \A x, y, z \in c.keys : Less(c, x, y) /\ Less(c, y, z) => Less(c, x, z)
  BY <1>2 DEF Less
<1>6. \A x, y \in c.keys : x # y => Less(c, x, y) \/ Less(c, y, x)
  BY <1>2, <1>3 DEF Less
<1>7. Orders(R, c.keys)
  BY <1>1, <1>4, <1>5, <1>6 DEF Orders
<1> QED
  BY <1>7 DEF R

\* A set of cached keys has one that none of them goes before.
LEMMA ColdestExists ==
    ASSUME NEW c, LfuSound(c), NEW S \in SUBSET c.keys, S # {}
    PROVE  \E m \in S : \A l \in S : ~Less(c, l, m)
<1> DEFINE R == {p \in c.keys \X c.keys : Less(c, p[1], p[2])}
           s == InOrder(S, R)
<1>1. c.keys \subseteq Keys
  BY DEF LfuSound, CacheStates
<1>2. IsFiniteSet(S)
  BY <1>1, KeysAreFinite, FS_Subset
<1>3. Orders(R, S)
  BY LessOrders DEF Orders
<1>4. \A x, y \in S : Less(c, x, y) => <<x, y>> \in R
  OBVIOUS
<1> HIDE DEF R
<1>5. /\ s \in Seq(S) /\ Len(s) = Cardinality(S) /\ Range(s) = S
      /\ \A i, j \in 1..Cardinality(S) : i < j => <<s[i], s[j]>> \in R
  BY <1>2, <1>3, InOrderLemma
<1>6. Cardinality(S) \in Nat /\ Cardinality(S) # 0
  BY <1>2, FS_CardinalityType, FS_EmptySet
<1> HIDE DEF s
<1>7. 1 \in 1..Cardinality(S) /\ s[1] \in S
  BY <1>5, <1>6
<1>8. ASSUME NEW l \in S, Less(c, l, s[1]) PROVE FALSE
  <2>1. PICK i \in 1..Cardinality(S) : s[i] = l
    BY <1>5 DEF Range
  <2>2. i = 1 \/ <<s[1], l>> \in R
    <3>1. \A j \in 1..Cardinality(S) : 1 < j => <<s[1], s[j]>> \in R
      BY <1>5, <1>7
    <3>2. i = 1 \/ 1 < i
      BY <1>6
    <3> QED
      BY <2>1, <3>1, <3>2
  <2>3. <<l, s[1]>> \in R
    BY <1>4, <1>7, <1>8
  <2> QED
    BY <1>3, <1>7, <2>1, <2>2, <2>3 DEF Orders
<1> QED
  BY <1>7, <1>8

-----------------------------------------------------------------------------
(* Eviction.                                                               *)

Ahead(c, k) == {l \in c.keys : Colder(c, l, k)}
Victims(c) == {k \in c.keys : c.nbytes - Total[Ahead(c, k)] > Budget}

\* Nothing that is kept goes before what is evicted.
FromTheFront(c, vs) == vs \subseteq c.keys /\ \A k \in c.keys, v \in vs : Less(c, k, v) => k \in vs

LEMMA VictimsInFront ==
    ASSUME NEW c, LfuSound(c)
    PROVE  FromTheFront(c, Victims(c))
<1>1. SUFFICES ASSUME NEW k \in c.keys, NEW v \in Victims(c), Less(c, k, v)
               PROVE  k \in Victims(c)
  BY DEF FromTheFront, Victims
<1>2. v \in c.keys /\ c.keys \subseteq Keys /\ c.nbytes \in Nat /\ Budget \in Nat
  BY MlxCacheAssumption DEF LfuSound, CacheStates, Victims
<1>3. \A x, y \in c.keys : Colder(c, x, y) <=> Less(c, x, y)
  BY ColderLemma
<1>4. ASSUME NEW l \in c.keys, Less(c, l, k) PROVE Less(c, l, v)
  <2>1. c.freq[l] \in Nat /\ c.freq[k] \in Nat /\ c.freq[v] \in Nat
        /\ c.last[l] \in Nat /\ c.last[k] \in Nat /\ c.last[v] \in Nat
    BY <1>2 DEF LfuSound, CacheStates
  <2> QED
    BY <1>1, <1>4, <2>1 DEF Less
<1>5. Ahead(c, k) \in SUBSET Ahead(c, v) /\ Ahead(c, v) \in SUBSET Keys /\ Ahead(c, k) \in SUBSET Keys
  BY <1>2, <1>3, <1>4 DEF Ahead
<1>6. Total[Ahead(c, v) \ Ahead(c, k)] = Total[Ahead(c, v)] - Total[Ahead(c, k)]
  BY <1>5, TotalOf
<1>7. Total[Ahead(c, v) \ Ahead(c, k)] \in Nat /\ Total[Ahead(c, v)] \in Nat /\ Total[Ahead(c, k)] \in Nat
  BY <1>5, TotalOf
<1> QED
  BY <1>2, <1>6, <1>7 DEF Victims

\* Then what is kept has its entries still, and the bytes are those of what is kept.
LEMMA EvictedLemma ==
    ASSUME NEW c, LfuSound(c), NEW vs, FromTheFront(c, vs)
    PROVE  /\ LfuSound(Evicted(c, vs))
           /\ Evicted(c, vs).keys = c.keys \ vs /\ Evicted(c, vs).nbytes = c.nbytes - Total[vs]
<1> DEFINE popped == {h \in c.heap : Live(c, h) /\ h.key \in vs}
           heap == IF vs \subseteq {h.key : h \in popped} THEN c.heap ELSE Rebuilt(c).heap
           kept == {g \in heap : g.key \notin vs /\ \A h \in popped : ~Before(g, h)}
           keys == c.keys \ vs
           bytes == c.nbytes - Total[vs]
           d == [c EXCEPT !.keys = keys, !.nbytes = bytes, !.heap = kept]
<1>1. Evicted(c, vs) = d
  BY DEF Evicted
<1>2. /\ c \in CacheStates /\ c.keys \subseteq Keys /\ c.freq \in [Keys -> Nat] /\ c.last \in [Keys -> Nat]
      /\ c.heap \subseteq [freq : Nat, tick : Nat, key : Keys] /\ vs \in SUBSET c.keys
      /\ c.tick \in Nat
  BY DEF LfuSound, CacheStates, FromTheFront
<1>3. /\ heap \subseteq [freq : Nat, tick : Nat, key : Keys]
      /\ \A h \in heap : h.tick <= c.tick /\ (h.tick = c.last[h.key] => h.freq = c.freq[h.key])
      /\ \A k \in c.keys : LiveEntry(c, k) \in heap
  <2>1. /\ \A h \in c.heap : h.tick <= c.tick /\ (h.tick = c.last[h.key] => h.freq = c.freq[h.key])
        /\ \A k \in c.keys : LiveEntry(c, k) \in c.heap
    BY DEF LfuSound, Timely
  <2>2. Rebuilt(c).heap = {LiveEntry(c, k) : k \in c.keys}
    BY <1>2 DEF Rebuilt, CacheStates, LiveEntry
  <2>3. /\ \A k \in c.keys : LiveEntry(c, k) \in [freq : Nat, tick : Nat, key : Keys]
        /\ \A k \in c.keys : LiveEntry(c, k).tick = c.last[k] /\ LiveEntry(c, k).freq = c.freq[k] /\ LiveEntry(c, k).key = k
    BY <1>2 DEF LiveEntry
  <2>4. \A k \in c.keys : c.last[k] <= c.tick
    BY <1>2 DEF LfuSound, Timely
  <2>5. /\ Rebuilt(c).heap \subseteq [freq : Nat, tick : Nat, key : Keys]
        /\ \A h \in Rebuilt(c).heap : h.tick <= c.tick /\ (h.tick = c.last[h.key] => h.freq = c.freq[h.key])
        /\ \A k \in c.keys : LiveEntry(c, k) \in Rebuilt(c).heap
    BY <2>2, <2>3, <2>4
  <2> HIDE DEF popped
  <2> QED
    BY <1>2, <2>1, <2>5
<1>4. \A h \in popped : h.key \in vs /\ h.freq = c.freq[h.key] /\ h.tick = c.last[h.key]
  BY <1>2 DEF LfuSound, Timely, Live
<1> HIDE DEF popped, heap
<1>5. ASSUME NEW k \in c.keys \ vs PROVE LiveEntry(c, k) \in kept
  <2>1. LiveEntry(c, k).key = k /\ LiveEntry(c, k).freq = c.freq[k] /\ LiveEntry(c, k).tick = c.last[k]
    BY DEF LiveEntry
  <2>2. ASSUME NEW h \in popped, Before(LiveEntry(c, k), h) PROVE FALSE
    <3>1. Less(c, k, h.key)
      BY <1>4, <2>1, <2>2 DEF Before, Less
    <3> QED
      BY <1>2, <1>4, <3>1 DEF FromTheFront
  <2> QED
    BY <1>3, <2>1, <2>2
<1>6. kept \subseteq heap
  OBVIOUS
<1> HIDE DEF kept
<1>7. bytes \in Nat /\ bytes = Total[keys]
  <2>1. Total[c.keys \ vs] = Total[c.keys] - Total[vs]
    BY <1>2, TotalOf
  <2>2. Total[c.keys \ vs] \in Nat
    BY <1>2, TotalOf
  <2> QED
    BY <2>1, <2>2 DEF LfuSound, Counted
<1>8. keys \in SUBSET Keys /\ kept \in SUBSET [freq : Nat, tick : Nat, key : Keys]
  BY <1>2, <1>3, <1>6
<1>9. keys \subseteq c.keys /\ \A k \in keys : LiveEntry(c, k) \in kept
  BY <1>5
<1> HIDE DEF keys, bytes
<1>10. d \in CacheStates
  BY <1>2, <1>7, <1>8 DEF CacheStates
<1>11. /\ d.keys = keys /\ d.nbytes = bytes /\ d.heap = kept /\ d.freq = c.freq
       /\ d.last = c.last /\ d.tick = c.tick
  BY <1>2 DEF CacheStates
<1> HIDE DEF d
<1>12. Timely(d, {})
  <2>1. \A h \in d.heap : h.tick <= d.tick /\ (h.tick = d.last[h.key] => h.freq = d.freq[h.key])
    BY <1>3, <1>6, <1>11
  <2>2. \A k \in Keys : d.last[k] <= d.tick
    BY <1>11 DEF LfuSound, Timely
  <2>3. \A k \in Keys : LiveEntry(d, k) = LiveEntry(c, k)
    BY <1>11 DEF LiveEntry
  <2>4. \A k \in d.keys : LiveEntry(d, k) \in d.heap
    BY <1>2, <1>9, <1>11, <2>3
  <2>5. \A k, l \in d.keys : d.last[k] = d.last[l] => k = l
    BY <1>9, <1>11 DEF LfuSound, Timely
  <2> QED
    BY <2>1, <2>2, <2>4, <2>5 DEF Timely
<1>13. LfuSound(d)
  BY <1>7, <1>10, <1>11, <1>12 DEF LfuSound, Counted
<1> QED
  BY <1>1, <1>11, <1>13 DEF keys, bytes

\* Evicting makes the cache fit.
LEMMA FitLemma ==
    ASSUME NEW c, LfuSound(c)
    PROVE  /\ LfuSound(Fitted(c))
           /\ Fitted(c).keys \subseteq c.keys /\ Fitted(c).nbytes <= Budget
<1> DEFINE vs == Victims(c)
<1>1. /\ c.keys \subseteq Keys /\ c.nbytes \in Nat /\ c.nbytes = Total[c.keys] /\ Budget \in Nat
      /\ vs \in SUBSET c.keys
  BY MlxCacheAssumption DEF LfuSound, CacheStates, Counted, Victims
<1>2. CASE c.nbytes <= Budget
  <2>1. Fitted(c) = c
    BY <1>2 DEF Fitted
  <2> QED
    BY <1>2, <2>1
<1>3. CASE ~(c.nbytes <= Budget)
  <2>1. Fitted(c) = Evicted(c, vs)
    BY <1>1, <1>3 DEF Fitted, Victims, Ahead
  <2>2. FromTheFront(c, vs)
    BY VictimsInFront
  <2>3. /\ LfuSound(Evicted(c, vs)) /\ Evicted(c, vs).keys = c.keys \ vs
        /\ Evicted(c, vs).nbytes = c.nbytes - Total[vs]
    BY <2>2, EvictedLemma
  <2>4. c.nbytes - Total[vs] <= Budget
    <3>1. CASE c.keys \ vs = {}
      <4>1. vs = c.keys
        BY <1>1, <3>1
      <4> QED
        BY <1>1, <4>1
    <3>2. CASE c.keys \ vs # {}
      <4> DEFINE S == c.keys \ vs
      <4>1. S \in SUBSET c.keys /\ S # {}
        BY <3>2
      <4>2. PICK m \in S : \A l \in S : ~Less(c, l, m)
        <5> HIDE DEF S
        <5> QED
          BY <4>1, ColdestExists
      <4>3. ASSUME NEW l \in Ahead(c, m) PROVE l \in vs
        <5>1. l \in c.keys /\ Colder(c, l, m) /\ m \in c.keys
          BY <4>2 DEF Ahead
        <5>2. Less(c, l, m)
          BY <5>1, ColderLemma
        <5> QED
          BY <4>2, <5>1, <5>2
      <4>4. Ahead(c, m) \in SUBSET vs /\ vs \in SUBSET Keys /\ Ahead(c, m) \in SUBSET Keys
        BY <1>1, <4>3
      <4>5. c.nbytes - Total[Ahead(c, m)] <= Budget
        <5>1. ~(c.nbytes - Total[Ahead(c, m)] > Budget)
          BY <4>2 DEF Victims
        <5>2. Total[Ahead(c, m)] \in Nat
          BY <4>4, TotalOf
        <5> QED
          BY <1>1, <5>1, <5>2
      <4>6. Total[vs \ Ahead(c, m)] = Total[vs] - Total[Ahead(c, m)]
        BY <4>4, TotalOf
      <4>7. Total[vs \ Ahead(c, m)] \in Nat /\ Total[vs] \in Nat /\ Total[Ahead(c, m)] \in Nat
        BY <4>4, TotalOf
      <4> QED
        BY <1>1, <4>5, <4>6, <4>7
    <3> QED
      BY <3>1, <3>2
  <2> QED
    BY <2>1, <2>3, <2>4
<1> QED
  BY <1>2, <1>3

\* Whatever is inserted, accessed or not, the cache is sound and fits.
LEMMA MaterializeLemma ==
    ASSUME NEW c, LfuSound(c), c.nbytes <= Budget, NEW k \in Keys, NEW access
    PROVE  /\ LfuSound(Materialize(c, k, access))
           /\ Materialize(c, k, access).nbytes <= Budget
           /\ Materialize(c, k, access).keys \subseteq c.keys \cup {k}
<1>1. CASE k \in c.keys
  BY <1>1 DEF Materialize
<1>2. CASE k \notin c.keys
  <2> DEFINE keys == c.keys \cup {k}
             bytes == c.nbytes + Nbytes[k]
             d == [c EXCEPT !.keys = keys, !.nbytes = bytes]
  <2>1. Materialize(c, k, access) = Fitted(IF access THEN Touch(d, k) ELSE Push(d, k))
    BY <1>2 DEF Materialize
  <2>2. /\ c \in CacheStates /\ c.keys \in SUBSET Keys /\ c.freq \in [Keys -> Nat] /\ c.nbytes \in Nat
        /\ c.heap \subseteq [freq : Nat, tick : Nat, key : Keys] /\ Nbytes[k] \in Nat
    BY MlxCacheAssumption DEF LfuSound, CacheStates
  <2>3. keys \in SUBSET Keys /\ bytes \in Nat /\ bytes = Total[keys] /\ keys \ {k} = c.keys
    <3>1. k \in Keys \ c.keys
      BY <1>2
    <3>2. Total[c.keys \cup {k}] = Total[c.keys] + Nbytes[k]
      BY <2>2, <3>1, TotalOf
    <3> QED
      BY <1>2, <2>2, <3>2 DEF LfuSound, Counted
  <2>4. keys = c.keys \cup {k}
    OBVIOUS
  <2> HIDE DEF keys, bytes
  <2>5. d \in CacheStates
    BY <2>2, <2>3 DEF CacheStates
  <2>6. /\ d.keys = keys /\ d.nbytes = bytes /\ d.heap = c.heap /\ d.freq = c.freq
        /\ d.last = c.last /\ d.tick = c.tick
    BY <2>2 DEF CacheStates
  <2> HIDE DEF d
  <2>7. Counted(d)
    BY <2>3, <2>6 DEF Counted
  <2>8. Timely(d, {k})
    <3>1. \A l \in Keys : LiveEntry(d, l) = LiveEntry(c, l)
      BY <2>6 DEF LiveEntry
    <3>2. d.keys \ {k} = c.keys
      BY <2>3, <2>6
    <3>3. \A l \in d.keys \ {k} : LiveEntry(d, l) \in d.heap
      BY <2>2, <2>6, <3>1, <3>2 DEF LfuSound, Timely
    <3> QED
      BY <2>6, <3>2, <3>3 DEF LfuSound, Timely
  <2>9. LfuSound(Push(d, k)) /\ Push(d, k).keys = keys
    BY <2>5, <2>6, <2>7, <2>8, PushLemma
  <2>10. LfuSound(Touch(d, k)) /\ Touch(d, k).keys = keys
    BY <2>5, <2>6, <2>7, <2>8, TouchFresh
  <2> QED
    BY <2>1, <2>4, <2>9, <2>10, FitLemma
<1> QED
  BY <1>1, <1>2

\* The hits of a call, one access after the other.
LEMMA TouchedLemma ==
    ASSUME NEW c, LfuSound(c), NEW l \in SwitchLayers, NEW es \in SUBSET Experts
    PROVE  /\ LfuSound(Touched(c, l, es))
           /\ Touched(c, l, es).keys = c.keys /\ Touched(c, l, es).nbytes = c.nbytes
<1> DEFINE s == Ascending(es)
           n == Len(s)
           V == {d \in CacheStates : LfuSound(d) /\ d.keys = c.keys /\ d.nbytes = c.nbytes}
           g == [x \in (1..n) \X V |-> Touch(x[2], <<l, s[x[1]]>>)]
           Iter(f) == f = [x \in SUBSET DOMAIN s |->
                              IF x = {} THEN c ELSE Touch(f[x \ {Max(x)}], <<l, s[Max(x)]>>)]
           iter == CHOOSE f : Iter(f)
<1>1. Touched(c, l, es) = iter[DOMAIN s]
  BY Zenon DEF Touched, FoldLeft, MapThenFoldSet
<1>2. DOMAIN s = 1..n /\ n \in Nat /\ \A i \in 1..n : <<l, s[i]>> \in Keys
  <2>1. es \in SUBSET Nat /\ IsFiniteSet(es)
    BY ExpertsAreFinite, FS_Subset
  <2>2. s \in Seq(es)
    BY <2>1, AscendingLemma
  <2> HIDE DEF s
  <2>3. DOMAIN s = 1..n /\ n \in Nat /\ \A i \in 1..n : s[i] \in es
    BY <2>2
  <2> QED
    BY <2>3 DEF Keys
<1>3. c \in V
  BY DEF LfuSound
<1>4. \A d \in V, k \in Keys : Touch(d, k) \in V
  <2>1. TAKE d \in V, k \in Keys
  <2>2. LfuSound(Touch(d, k)) /\ Touch(d, k).keys = c.keys /\ Touch(d, k).nbytes = c.nbytes
    BY TouchLemma
  <2> QED
    BY <2>2 DEF LfuSound
<1> HIDE DEF V, s
<1>5. g \in [(1..n) \X V -> V]
  BY <1>2, <1>4
<1>6. ASSUME NEW x \in SUBSET (1..n), x # {} PROVE Max(x) \in 1..n
  BY <1>2, <1>6, MaxIn
<1> HIDE DEF n
<1>7. PICK f \in [SUBSET (1..n) -> V] : FoldsBy(f, V, n, c, g)
  BY <1>2, <1>3, <1>5, FoldExists
<1>8. Iter(f)
  <2>1. ASSUME NEW x \in SUBSET (1..n), x # {}
        PROVE  f[x] = Touch(f[x \ {Max(x)}], <<l, s[Max(x)]>>)
    <3>1. <<Max(x), f[x \ {Max(x)}]>> \in (1..n) \X V
      BY <1>6, <2>1
    <3>2. f[x] = g[<<Max(x), f[x \ {Max(x)}]>>]
      BY <1>7, <2>1, <3>1 DEF FoldsBy
    <3> QED
      BY <3>1, <3>2
  <2> HIDE DEF g
  <2> QED
    BY <1>2, <1>7, <2>1 DEF FoldsBy
<1> HIDE DEF g
<1>9. Iter(iter)
  <2> HIDE DEF Iter
  <2> QED
    BY <1>8
<1> HIDE DEF iter
<1>10. \A x \in SUBSET (1..n) :
           iter[x] = IF x = {} THEN c ELSE Touch(iter[x \ {Max(x)}], <<l, s[Max(x)]>>)
  BY <1>2, <1>9
<1> HIDE DEF Iter
<1>11. ASSUME NEW x \in SUBSET (1..n), x # {}, iter[x \ {Max(x)}] \in V
       PROVE  iter[x] = g[<<Max(x), iter[x \ {Max(x)}]>>]
  <2>1. <<Max(x), iter[x \ {Max(x)}]>> \in (1..n) \X V
    BY <1>6, <1>11
  <2> QED
    BY <1>10, <1>11, <2>1 DEF g
<1>12. FoldsBy(iter, V, n, c, g)
  BY <1>10, <1>11 DEF FoldsBy
<1>13. PICK h \in [0..n -> V] : StepsTo(iter[1..n], h, n, c, g)
  BY <1>2, <1>3, <1>5, <1>12, FoldSteps
<1>14. iter[1..n] \in V
  BY <1>2, <1>13 DEF StepsTo
<1> QED
  BY <1>1, <1>2, <1>14 DEF V

-----------------------------------------------------------------------------
(* Reads in flight.                                                        *)

Future == [key : Keys, state : {"reading", "done", "failed"}]
KeysOf(fs) == {f.key : f \in Range(fs)}

\* At most one read of a key.
OneEach(fs) ==
    /\ fs \in Seq(Future) /\ IsInjective(fs)
    /\ \A f, g \in Range(fs) : f.key = g.key => f = g

LEMMA KeptFutures ==
    ASSUME NEW fs, OneEach(fs), NEW T
    PROVE  OneEach(Kept(fs, T)) /\ Range(Kept(fs, T)) = Range(fs) \cap T
<1>1. fs \in Seq(Future) /\ IsInjective(fs)
  BY DEF OneEach
<1>2. /\ Kept(fs, T) \in Seq(Future) /\ Range(Kept(fs, T)) = Range(fs) \cap T
      /\ IsInjective(Kept(fs, T))
  BY <1>1, KeptLemma
<1> QED
  BY <1>2 DEF OneEach

LEMMA JoinedFutures ==
    ASSUME NEW a, OneEach(a), NEW b, OneEach(b), KeysOf(a) \cap KeysOf(b) = {}
    PROVE  OneEach(a \o b) /\ Range(a \o b) = Range(a) \cup Range(b)
<1>1. a \in Seq(Future) /\ IsInjective(a) /\ b \in Seq(Future) /\ IsInjective(b)
  BY DEF OneEach
<1>2. Range(a) \cap Range(b) = {}
  BY DEF KeysOf
<1>3. a \o b \in Seq(Future) /\ Range(a \o b) = Range(a) \cup Range(b) /\ IsInjective(a \o b)
  BY <1>1, <1>2, ConcatLemma
<1>4. \A f, g \in Range(a) \cup Range(b) : f.key = g.key => f = g
  BY DEF OneEach, KeysOf
<1> QED
  BY <1>3, <1>4 DEF OneEach

LEMMA KeyedLemma ==
    ASSUME NEW fs, OneEach(fs)
    PROVE  /\ Keyed(fs) \in Seq(Keys) /\ IsInjective(Keyed(fs))
           /\ Range(Keyed(fs)) = KeysOf(fs)
<1>1. fs \in Seq(Future) /\ Len(fs) \in Nat /\ DOMAIN fs = 1..Len(fs)
  BY DEF OneEach
<1>2. \A i \in 1..Len(fs) : fs[i].key \in Keys /\ fs[i] \in Range(fs)
  <2>1. \A i \in 1..Len(fs) : fs[i] \in Future /\ fs[i] \in Range(fs)
    BY <1>1 DEF Range
  <2> QED
    BY <2>1 DEF Future
<1>3. Keyed(fs) = [i \in 1..Len(fs) |-> fs[i].key]
  BY <1>1 DEF Keyed
<1>4. Keyed(fs) \in Seq(Keys)
  BY <1>1, <1>2, <1>3
<1>5. IsInjective(Keyed(fs))
  <2>1. ASSUME NEW i \in 1..Len(fs), NEW j \in 1..Len(fs), fs[i].key = fs[j].key PROVE i = j
    <3>1. fs[i] = fs[j]
      BY <1>2, <2>1 DEF OneEach
    <3> QED
      BY <1>1, <3>1 DEF OneEach, IsInjective
  <2> QED
    BY <1>3, <2>1 DEF IsInjective
<1>6. Range(Keyed(fs)) = KeysOf(fs)
  BY <1>1, <1>3 DEF Range, KeysOf
<1> QED
  BY <1>4, <1>5, <1>6

\* A key has a state other than none if somebody was told to read it.
LEMMA StateLemma ==
    ASSUME OneEach(futures), NEW k
    PROVE  /\ State(k) = "none" <=> k \notin KeysOf(futures)
           /\ \A f \in Range(futures) : f.key = k => State(k) = f.state
<1> DEFINE found == {f \in Range(futures) : f.key = k}
<1>1. \A f \in Range(futures) : f \in Future
  BY DEF OneEach, Range
<1>2. \A f \in found : found = {f} /\ f.state # "none"
  BY <1>1 DEF OneEach, Future
<1>3. State(k) = IF found = {} THEN "none" ELSE (CHOOSE f \in found : TRUE).state
  BY DEF State
<1>4. found = {} <=> k \notin KeysOf(futures)
  BY DEF KeysOf
<1>5. found # {} => (CHOOSE f \in found : TRUE) \in found
  OBVIOUS
<1> HIDE DEF found
<1>6. \A f \in found : State(k) = f.state
  BY <1>2, <1>3, <1>5
<1>7. \A f \in Range(futures) : f.key = k => f \in found
  BY DEF found
<1> QED
  BY <1>2, <1>3, <1>4, <1>5, <1>6, <1>7

\* Nothing is submitted that is cached or being read already.
LEMMA SubmittedLemma ==
    ASSUME OneEach(futures), NEW l, NEW es \in SUBSET Experts, l \in SwitchLayers \/ es = {}
    PROVE  /\ OneEach(Submitted(l, es))
           /\ KeysOf(Submitted(l, es)) =
                  {<<l, e>> : e \in {x \in es : <<l, x>> \notin cache.keys /\ <<l, x>> \notin KeysOf(futures)}}
<1> DEFINE missing == {e \in es : <<l, e>> \notin cache.keys /\ State(<<l, e>>) = "none"}
           order == Ascending(missing)
           fs == [i \in DOMAIN order |-> [key |-> <<l, order[i]>>, state |-> "reading"]]
<1>1. missing = {x \in es : <<l, x>> \notin cache.keys /\ <<l, x>> \notin KeysOf(futures)}
  BY StateLemma
<1>2. missing \in SUBSET Nat /\ IsFiniteSet(missing) /\ missing \subseteq es
  BY ExpertsAreFinite, FS_Subset
<1>3. Submitted(l, es) = fs
  BY DEF Submitted
<1> HIDE DEF missing
<1>4. /\ order \in Seq(missing) /\ Range(order) = missing /\ IsInjective(order)
  BY <1>2, AscendingLemma
<1> HIDE DEF order
<1>5. Len(order) \in Nat /\ DOMAIN order = 1..Len(order)
  BY <1>4
<1>6. \A i \in 1..Len(order) : order[i] \in missing /\ order[i] \in Experts /\ l \in SwitchLayers
  <2>1. \A i \in 1..Len(order) : order[i] \in missing
    BY <1>4, <1>5
  <2>2. missing # {} => l \in SwitchLayers
    BY <1>2
  <2> QED
    BY <1>2, <2>1, <2>2
<1>7. \A i \in 1..Len(order) : fs[i] \in Future /\ fs[i].key = <<l, order[i]>> /\ fs[i].state = "reading"
  BY <1>5, <1>6 DEF Future, Keys
<1>8. fs \in Seq(Future) /\ DOMAIN fs = 1..Len(order)
  BY <1>5, <1>7
<1>9. \A i, j \in 1..Len(order) : order[i] = order[j] => i = j
  BY <1>4, <1>5 DEF IsInjective
<1>10. \A f \in Range(fs) : \E i \in 1..Len(order) : f = fs[i]
  BY <1>8 DEF Range
<1>11. \A i \in 1..Len(order) : fs[i] \in Range(fs)
  BY <1>8 DEF Range
<1>12. \A e \in missing : \E i \in 1..Len(order) : order[i] = e
  BY <1>4, <1>5 DEF Range
<1> HIDE DEF fs
<1>13. OneEach(fs)
  <2>1. IsInjective(fs)
    BY <1>7, <1>8, <1>9 DEF IsInjective
  <2>2. \A f, g \in Range(fs) : f.key = g.key => f = g
    BY <1>7, <1>9, <1>10
  <2> QED
    BY <1>8, <2>1, <2>2 DEF OneEach
<1>14. KeysOf(fs) = {<<l, e>> : e \in missing}
  <2>1. \A k \in KeysOf(fs) : \E e \in missing : k = <<l, e>>
    <3>1. TAKE k \in KeysOf(fs)
    <3>2. PICK f \in Range(fs) : k = f.key
      BY DEF KeysOf
    <3>3. PICK i \in 1..Len(order) : f = fs[i]
      BY <1>10
    <3> QED
      BY <1>6, <1>7, <3>2, <3>3
  <2>2. \A e \in missing : <<l, e>> \in KeysOf(fs)
    BY <1>7, <1>11, <1>12 DEF KeysOf
  <2> QED
    BY <2>1, <2>2
<1> QED
  BY <1>1, <1>3, <1>13, <1>14

-----------------------------------------------------------------------------
(* The inductive invariant of the MLX expert cache.                        *)

CallTypes ==
    /\ pc \in {"idle", "called", "absorb", "collect", "closing", "closed"}
    /\ layer \in SwitchLayers /\ eids \in SUBSET Experts /\ out \in SUBSET Experts
    /\ pending \in Seq(Keys)
    /\ calls \in 0..MaxCalls /\ failures \in 0..MaxFailures

CacheSound == LfuSound(cache) /\ cache.nbytes <= Budget

ReadOnce == OneEach(futures) /\ KeysOf(futures) \cap cache.keys = {}

Awaited ==
    pc = "collect" =>
        /\ IsInjective(pending) /\ Range(pending) \subseteq KeysOf(futures)
        /\ out \cup {k[2] : k \in Range(pending)} = eids

CacheInv == CallTypes /\ CacheSound /\ ReadOnce /\ Awaited

LEMMA NatConstants ==
    /\ NumSwitchLayers \in Nat \ {0} /\ Budget \in Nat /\ MaxCalls \in Nat /\ MaxFailures \in Nat
BY MlxCacheAssumption

LEMMA NothingWeighsNothing == Total[{}] = 0
<1> DEFINE E == {}
<1>1. E \in SUBSET Keys /\ E \in SUBSET E /\ E \ E = E
  OBVIOUS
<1> HIDE DEF E
<1>2. Total[E] \in Nat /\ Total[E \ E] = Total[E] - Total[E]
  BY <1>1, TotalOf
<1>3. Total[E] = 0
  BY <1>1, <1>2
<1> QED
  BY <1>3 DEF E

LEMMA CacheStart == CacheInit => CacheInv
<1> SUFFICES ASSUME CacheInit PROVE CacheInv
  OBVIOUS
<1>1. CallTypes
  BY NatConstants DEF CacheInit, CallTypes, SwitchLayers
<1>2. CacheSound
  <2>1. EmptyCache \in CacheStates
    BY DEF EmptyCache, CacheStates
  <2>2. Timely(EmptyCache, {})
    BY DEF EmptyCache, Timely
  <2> QED
    BY <2>1, <2>2, NothingWeighsNothing, NatConstants DEF CacheInit, CacheSound, LfuSound, Counted, EmptyCache
<1>3. ReadOnce
  BY DEF CacheInit, ReadOnce, OneEach, KeysOf, Range, IsInjective
<1>4. Awaited
  BY DEF CacheInit, Awaited
<1> QED
  BY <1>1, <1>2, <1>3, <1>4 DEF CacheInv

\* What waits in line is one read of a key each.
LEMMA RunningLemma ==
    ASSUME OneEach(futures)
    PROVE  OneEach(Running) /\ Range(Running) \subseteq {f \in Range(futures) : f.state = "reading"}
<1> DEFINE u == Unfinished
           n == IF Len(u) < Workers THEN Len(u) ELSE Workers
           w == SubSeq(u, 1, n)
<1>1. OneEach(u) /\ Range(u) = {f \in Range(futures) : f.state = "reading"}
  <2> DEFINE T == {f \in Range(futures) : f.state = "reading"}
  <2>1. T \cap Range(futures) = T /\ Unfinished = Kept(futures, T)
    BY DEF Unfinished
  <2> HIDE DEF T
  <2>2. OneEach(Kept(futures, T)) /\ Range(Kept(futures, T)) = Range(futures) \cap T
    BY KeptFutures
  <2> QED
    BY <2>1, <2>2 DEF T
<1>2. Running = w
  BY DEF Running
<1> HIDE DEF u
<1>3. u \in Seq(Future) /\ Len(u) \in Nat /\ DOMAIN u = 1..Len(u) /\ IsInjective(u)
  BY <1>1 DEF OneEach
<1>4. n \in Nat /\ n <= Len(u)
  BY <1>3, MlxCacheAssumption
<1> HIDE DEF n
<1>5. w \in Seq(Future) /\ DOMAIN w = 1..n /\ \A i \in 1..n : w[i] = u[i]
  BY <1>3, <1>4
<1>6. Range(w) \subseteq Range(u)
  BY <1>3, <1>4, <1>5 DEF Range
<1>7. IsInjective(w)
  BY <1>3, <1>4, <1>5 DEF IsInjective
<1> QED
  BY <1>1, <1>2, <1>5, <1>6, <1>7 DEF OneEach

\* The end of a read changes no key.
LEMMA ReadEnds == CacheInv /\ Read => CacheInv'
<1> SUFFICES ASSUME CacheInv, Read PROVE CacheInv'
  OBVIOUS
<1>1. PICK f \in Range(Running), result \in {"done", "failed"} :
          /\ futures' = [i \in DOMAIN futures |->
                            IF futures[i] = f THEN [f EXCEPT !.state = result] ELSE futures[i]]
          /\ IF result = "failed" THEN failures < MaxFailures /\ failures' = failures + 1
             ELSE UNCHANGED failures
          /\ UNCHANGED <<cache, pc, args, pending, out, calls>>
  BY DEF Read
<1>2. OneEach(futures)
  BY DEF CacheInv, ReadOnce
<1>3. f \in Range(futures) /\ f \in Future
  <2>1. f \in Range(futures)
    BY <1>2, RunningLemma
  <2> QED
    BY <1>2, <2>1 DEF OneEach, Range
<1> DEFINE n == Len(futures)
           g == [f EXCEPT !.state = result]
           fs == [i \in 1..n |-> IF futures[i] = f THEN g ELSE futures[i]]
<1>4. n \in Nat /\ DOMAIN futures = 1..n /\ \A i \in 1..n : futures[i] \in Future /\ futures[i] \in Range(futures)
  BY <1>2 DEF OneEach, Range
<1>5. g \in Future /\ g.key = f.key
  BY <1>3 DEF Future
<1>6. futures' = fs
  BY <1>1, <1>4
<1> HIDE DEF g, n
<1>7. fs \in Seq(Future) /\ DOMAIN fs = 1..n /\ \A i \in 1..n : fs[i].key = futures[i].key
  BY <1>4, <1>5
<1> HIDE DEF fs
<1>8. \A i, j \in 1..n : futures[i].key = futures[j].key => i = j
  BY <1>2, <1>4 DEF OneEach, IsInjective
<1>9. IsInjective(fs)
  BY <1>7, <1>8 DEF IsInjective
<1>10. \A a, b \in Range(fs) : a.key = b.key => a = b
  BY <1>7, <1>8 DEF Range
<1>11. OneEach(fs)
  BY <1>7, <1>9, <1>10 DEF OneEach
<1>12. KeysOf(fs) = KeysOf(futures)
  <2>1. KeysOf(fs) = {fs[i].key : i \in 1..n}
    BY <1>7 DEF KeysOf, Range
  <2>2. KeysOf(futures) = {futures[i].key : i \in 1..n}
    BY <1>4 DEF KeysOf, Range
  <2> QED
    BY <1>7, <2>1, <2>2
<1>13. CallTypes'
  <2>1. failures' \in 0..MaxFailures
    BY <1>1, NatConstants DEF CacheInv, CallTypes
  <2> QED
    BY <1>1, <2>1 DEF CacheInv, CallTypes, args
<1>14. CacheSound'
  BY <1>1 DEF CacheInv, CacheSound
<1>15. ReadOnce'
  BY <1>1, <1>6, <1>11, <1>12 DEF CacheInv, ReadOnce
<1>16. Awaited'
  BY <1>1, <1>6, <1>12 DEF CacheInv, Awaited, args
<1> QED
  BY <1>13, <1>14, <1>15, <1>16 DEF CacheInv

\* Reads submitted keep one of a key.
LEMMA SubmittedKeepsOne ==
    ASSUME ReadOnce, NEW l, NEW es \in SUBSET Experts, l \in SwitchLayers \/ es = {}
    PROVE  /\ OneEach(futures \o Submitted(l, es))
           /\ KeysOf(futures \o Submitted(l, es)) \cap cache.keys = {}
           /\ KeysOf(futures) \subseteq KeysOf(futures \o Submitted(l, es))
           /\ \A e \in es : <<l, e>> \in cache.keys \/ <<l, e>> \in KeysOf(futures \o Submitted(l, es))
<1>1. OneEach(futures) /\ KeysOf(futures) \cap cache.keys = {}
  BY DEF ReadOnce
<1>2. /\ OneEach(Submitted(l, es))
      /\ KeysOf(Submitted(l, es)) =
             {<<l, e>> : e \in {x \in es : <<l, x>> \notin cache.keys /\ <<l, x>> \notin KeysOf(futures)}}
  BY <1>1, SubmittedLemma
<1>3. KeysOf(futures) \cap KeysOf(Submitted(l, es)) = {} /\ KeysOf(Submitted(l, es)) \cap cache.keys = {}
  BY <1>2
<1>4. /\ OneEach(futures \o Submitted(l, es))
      /\ Range(futures \o Submitted(l, es)) = Range(futures) \cup Range(Submitted(l, es))
  BY <1>1, <1>2, <1>3, JoinedFutures
<1>5. KeysOf(futures \o Submitted(l, es)) = KeysOf(futures) \cup KeysOf(Submitted(l, es))
  BY <1>4 DEF KeysOf
<1> QED
  BY <1>1, <1>2, <1>3, <1>4, <1>5

LEMMA CallStarts == CacheInv /\ Call => CacheInv'
<1> SUFFICES ASSUME CacheInv, Call PROVE CacheInv'
  OBVIOUS
<1>1. PICK pred \in {s \in SUBSET Experts : Cardinality(s) <= TopK} :
          /\ layer' = NumSwitchLayers - 1 => pred = {}
          /\ futures' = futures \o Submitted(layer' + 1, pred)
  BY DEF Call
<1>2. layer' \in SwitchLayers
  <2>1. calls \in Nat /\ NumSwitchLayers \in Nat /\ NumSwitchLayers > 0
    BY NatConstants DEF CacheInv, CallTypes
  <2>2. calls % NumSwitchLayers \in 0..(NumSwitchLayers - 1)
    BY <2>1
  <2> QED
    BY <2>2 DEF Call, LayerOf, SwitchLayers
<1>3. layer' + 1 \in SwitchLayers \/ pred = {}
  <2>1. CASE layer' = NumSwitchLayers - 1
    BY <1>1, <2>1
  <2>2. CASE layer' # NumSwitchLayers - 1
    <3>1. NumSwitchLayers \in Nat /\ layer' \in 0..(NumSwitchLayers - 1)
      BY <1>2, NatConstants DEF SwitchLayers
    <3>2. \A n \in Nat : \A l \in 0..(n - 1) : l # n - 1 => l + 1 \in 0..(n - 1)
      OBVIOUS
    <3>3. layer' + 1 \in 0..(NumSwitchLayers - 1)
      BY Zenon, <2>2, <3>1, <3>2
    <3> QED
      BY <3>3 DEF SwitchLayers
  <2> QED
    BY <2>1, <2>2
<1>4. pred \in SUBSET Experts /\ ReadOnce
  BY <1>1 DEF CacheInv
<1>5. /\ OneEach(futures') /\ KeysOf(futures') \cap cache.keys = {}
  BY <1>1, <1>3, <1>4, SubmittedKeepsOne
<1>6. cache' = cache /\ pc' = "called" /\ pending' = pending /\ failures' = failures
      /\ out' = {} /\ calls' = calls + 1 /\ calls < MaxCalls /\ eids' \in SUBSET Experts
  BY DEF Call
<1>7. CallTypes'
  BY <1>2, <1>6, NatConstants DEF CacheInv, CallTypes
<1>8. CacheSound' /\ ReadOnce' /\ Awaited'
  BY <1>5, <1>6 DEF CacheInv, CacheSound, ReadOnce, Awaited
<1> QED
  BY <1>7, <1>8 DEF CacheInv

LEMMA SnapshotTaken == CacheInv /\ Snapshot => CacheInv'
<1> SUFFICES ASSUME CacheInv, Snapshot PROVE CacheInv'
  OBVIOUS
<1> DEFINE D == {f \in Range(futures) : f.state = "done"}
           N == {f \in Range(futures) : f.state # "failed"}
<1>1. pending' = Keyed(Kept(futures, D)) /\ futures' = Kept(futures, N) /\ pc' = "absorb"
      /\ UNCHANGED <<cache, args, out, calls, failures>>
  BY DEF Snapshot
<1> HIDE DEF D, N
<1>2. OneEach(futures)
  BY DEF CacheInv, ReadOnce
<1>3. OneEach(Kept(futures, D))
  BY <1>2, KeptFutures
<1>4. pending' \in Seq(Keys)
  BY <1>1, <1>3, KeyedLemma
<1>5. OneEach(futures') /\ KeysOf(futures') \subseteq KeysOf(futures)
  <2>1. OneEach(Kept(futures, N)) /\ Range(Kept(futures, N)) = Range(futures) \cap N
    BY <1>2, KeptFutures
  <2> QED
    BY <1>1, <2>1 DEF KeysOf
<1>6. CallTypes'
  BY <1>1, <1>4 DEF CacheInv, CallTypes, args
<1>7. CacheSound' /\ ReadOnce' /\ Awaited'
  BY <1>1, <1>5 DEF CacheInv, CacheSound, ReadOnce, Awaited
<1> QED
  BY <1>6, <1>7 DEF CacheInv

\* What becomes of a read that is cached.
LEMMA ReadCached ==
    ASSUME CacheSound, ReadOnce, NEW k \in Keys, NEW access
    PROVE  /\ LfuSound(Materialize(cache, k, access)) /\ Materialize(cache, k, access).nbytes <= Budget
           /\ OneEach(Without(k)) /\ KeysOf(Without(k)) = KeysOf(futures) \ {k}
           /\ KeysOf(Without(k)) \cap Materialize(cache, k, access).keys = {}
<1> DEFINE T == {f \in Range(futures) : f.key # k}
<1>1. OneEach(futures) /\ KeysOf(futures) \cap cache.keys = {} /\ LfuSound(cache) /\ cache.nbytes <= Budget
  BY DEF CacheSound, ReadOnce
<1>2. /\ LfuSound(Materialize(cache, k, access)) /\ Materialize(cache, k, access).nbytes <= Budget
      /\ Materialize(cache, k, access).keys \subseteq cache.keys \cup {k}
  BY <1>1, MaterializeLemma
<1>3. Without(k) = Kept(futures, T) /\ T \cap Range(futures) = T
  BY DEF Without
<1>4. KeysOf(futures) \ {k} = {f.key : f \in T}
  BY DEF KeysOf
<1> HIDE DEF T
<1>5. OneEach(Kept(futures, T)) /\ Range(Kept(futures, T)) = Range(futures) \cap T
  BY <1>1, KeptFutures
<1>6. KeysOf(Without(k)) = KeysOf(futures) \ {k}
  BY <1>3, <1>4, <1>5 DEF KeysOf
<1> QED
  BY <1>1, <1>2, <1>3, <1>5, <1>6

LEMMA ReadAbsorbed == CacheInv /\ Absorb => CacheInv'
<1> SUFFICES ASSUME CacheInv, Absorb PROVE CacheInv'
  OBVIOUS
<1> DEFINE k == Head(pending)
<1>1. k \in Keys /\ Tail(pending) \in Seq(Keys)
  BY DEF CacheInv, CallTypes, Absorb
<1>2. cache' = Materialize(cache, k, FALSE) /\ futures' = Without(k) /\ pending' = Tail(pending)
      /\ pc = "absorb" /\ UNCHANGED <<pc, args, out, calls, failures>>
  BY DEF Absorb
<1> HIDE DEF k
<1>3. /\ LfuSound(cache') /\ cache'.nbytes <= Budget
      /\ OneEach(futures') /\ KeysOf(futures') \cap cache'.keys = {}
  BY <1>1, <1>2, ReadCached DEF CacheInv
<1>4. CallTypes'
  BY <1>1, <1>2 DEF CacheInv, CallTypes, args
<1>5. CacheSound' /\ ReadOnce' /\ Awaited'
  BY <1>2, <1>3 DEF CacheSound, ReadOnce, Awaited
<1> QED
  BY <1>4, <1>5 DEF CacheInv

LEMMA CallRouted == CacheInv /\ Route => CacheInv'
<1> SUFFICES ASSUME CacheInv, Route PROVE CacheInv'
  OBVIOUS
<1> DEFINE hits == {e \in eids : <<layer, e>> \in cache.keys}
           misses == eids \ hits
           order == Ascending(misses)
           keys == [i \in DOMAIN order |-> <<layer, order[i]>>]
<1>1. /\ cache' = Touched(cache, layer, hits) /\ out' = hits /\ pending' = keys
      /\ futures' = futures \o Submitted(layer, eids) /\ pc' = "collect"
      /\ UNCHANGED <<args, calls, failures>>
  BY DEF Route
<1>2. /\ layer \in SwitchLayers /\ eids \in SUBSET Experts /\ hits \in SUBSET Experts
      /\ misses \in SUBSET Experts /\ hits \cup misses = eids
      /\ \A e \in misses : <<layer, e>> \notin cache.keys
  BY DEF CacheInv, CallTypes
<1>3. misses \in SUBSET Nat /\ IsFiniteSet(misses)
  BY <1>2, ExpertsAreFinite, FS_Subset
<1> HIDE DEF hits, misses
<1>4. order \in Seq(misses) /\ Range(order) = misses /\ IsInjective(order)
  BY <1>3, AscendingLemma
<1> HIDE DEF order
<1>5. Len(order) \in Nat /\ DOMAIN order = 1..Len(order) /\ \A i \in 1..Len(order) : order[i] \in misses
  BY <1>4
<1>6. keys \in Seq(Keys) /\ IsInjective(keys)
  <2>1. \A i \in 1..Len(order) : <<layer, order[i]>> \in Keys
    BY <1>2, <1>5 DEF Keys
  <2>2. keys \in Seq(Keys)
    BY <1>5, <2>1
  <2>3. \A i, j \in 1..Len(order) : keys[i] = keys[j] => i = j
    BY <1>4, <1>5 DEF IsInjective
  <2> QED
    BY <1>5, <2>2, <2>3 DEF IsInjective
<1>7. Range(keys) = {<<layer, e>> : e \in misses}
  <2>1. \A k \in Range(keys) : \E e \in misses : k = <<layer, e>>
    BY <1>5 DEF Range
  <2>2. \A e \in misses : \E i \in 1..Len(order) : order[i] = e
    BY <1>4, <1>5 DEF Range
  <2>3. \A e \in misses : <<layer, e>> \in Range(keys)
    BY <1>5, <2>2 DEF Range
  <2> QED
    BY <2>1, <2>3
<1> HIDE DEF keys
<1>8. LfuSound(cache') /\ cache'.keys = cache.keys /\ cache'.nbytes = cache.nbytes
  BY <1>1, <1>2, TouchedLemma DEF CacheInv, CacheSound
<1>9. /\ OneEach(futures') /\ KeysOf(futures') \cap cache.keys = {}
      /\ \A e \in eids : <<layer, e>> \in cache.keys \/ <<layer, e>> \in KeysOf(futures')
  BY <1>1, <1>2, SubmittedKeepsOne DEF CacheInv
<1>10. CallTypes'
  BY <1>1, <1>2, <1>6 DEF CacheInv, CallTypes, args
<1>11. CacheSound' /\ ReadOnce'
  BY <1>8, <1>9 DEF CacheInv, CacheSound, ReadOnce
<1>12. Awaited'
  <2>1. Range(pending') \subseteq KeysOf(futures')
    BY <1>1, <1>2, <1>7, <1>9
  <2>2. {k[2] : k \in Range(pending')} = misses
    <3> DEFINE P == {<<layer, e>> : e \in misses}
    <3>1. \A k \in P : k[2] \in misses
      OBVIOUS
    <3>2. \A e \in misses : <<layer, e>> \in P /\ <<layer, e>>[2] = e
      OBVIOUS
    <3>3. Range(pending') = P
      BY <1>1, <1>7
    <3> HIDE DEF P
    <3> QED
      BY <3>1, <3>2, <3>3
  <2> QED
    BY <1>1, <1>2, <1>6, <2>1, <2>2 DEF Awaited, args
<1> QED
  BY <1>10, <1>11, <1>12 DEF CacheInv

LEMMA ReadCollected == CacheInv /\ Collect => CacheInv'
<1> SUFFICES ASSUME CacheInv, Collect PROVE CacheInv'
  OBVIOUS
<1> DEFINE k == Head(pending)
           rest == Tail(pending)
<1>1. k \in Keys /\ rest \in Seq(Keys) /\ pc = "collect" /\ UNCHANGED <<args, calls, failures>>
      /\ pending \in Seq(Keys) /\ pending # <<>>
  BY DEF CacheInv, CallTypes, Collect
<1>2. CASE /\ cache' = Materialize(cache, k, TRUE) /\ futures' = Without(k)
           /\ out' = out \cup {k[2]} /\ pending' = rest /\ pc' = pc
  <2>1. Range(pending) = {k} \cup Range(rest) /\ (IsInjective(pending) => IsInjective(rest) /\ k \notin Range(rest))
    <3>1. /\ Len(rest) = Len(pending) - 1 /\ Len(pending) \in Nat /\ Len(pending) >= 1
          /\ k = pending[1] /\ \A i \in 1..Len(rest) : rest[i] = pending[i + 1]
          /\ DOMAIN pending = 1..Len(pending) /\ DOMAIN rest = 1..Len(rest)
      BY <1>1
    <3> HIDE DEF k, rest
    <3>2. \A i \in 1..Len(pending) : i = 1 \/ (i - 1 \in 1..Len(rest) /\ pending[i] = rest[i - 1])
      BY <3>1
    <3>3. \A i \in 1..Len(rest) : i + 1 \in 1..Len(pending)
      BY <3>1
    <3>4. Range(pending) = {k} \cup Range(rest)
      <4>1. Range(pending) = {pending[i] : i \in 1..Len(pending)} /\ Range(rest) = {rest[i] : i \in 1..Len(rest)}
        BY <3>1 DEF Range
      <4>2. \A i \in 1..Len(pending) : pending[i] = k \/ pending[i] \in Range(rest)
        BY <3>1, <3>2, <4>1
      <4>3. \A i \in 1..Len(rest) : rest[i] \in Range(pending)
        BY <3>1, <3>3, <4>1
      <4>4. k \in Range(pending)
        BY <3>1, <4>1
      <4> QED
        BY <4>1, <4>2, <4>3, <4>4
    <3>5. ASSUME IsInjective(pending) PROVE IsInjective(rest) /\ k \notin Range(rest)
      <4>1. \A i, j \in 1..Len(pending) : pending[i] = pending[j] => i = j
        BY <3>1, <3>5 DEF IsInjective
      <4>2. \A i, j \in 1..Len(rest) : rest[i] = rest[j] => i = j
        <5>1. TAKE i, j \in 1..Len(rest)
        <5>2. rest[i] = rest[j] => i + 1 = j + 1
          BY <3>1, <3>3, <4>1
        <5> QED
          BY <3>1, <5>2
      <4>3. \A i \in 1..Len(rest) : rest[i] # k
        <5>1. TAKE i \in 1..Len(rest)
        <5>2. rest[i] = pending[i + 1] /\ i + 1 \in 1..Len(pending) /\ 1 \in 1..Len(pending) /\ i + 1 # 1
          BY <3>1, <3>3
        <5> QED
          BY <3>1, <4>1, <5>2
      <4> QED
        BY <3>1, <4>2, <4>3 DEF IsInjective, Range
    <3> QED
      BY <3>4, <3>5
  <2> HIDE DEF k, rest
  <2>2. /\ LfuSound(cache') /\ cache'.nbytes <= Budget
        /\ OneEach(futures') /\ KeysOf(futures') \cap cache'.keys = {}
        /\ KeysOf(futures') = KeysOf(futures) \ {k}
    BY <1>1, <1>2, ReadCached DEF CacheInv
  <2>3. k[2] \in Experts
    BY <1>1 DEF Keys
  <2>4. CallTypes'
    BY <1>1, <1>2, <2>3 DEF CacheInv, CallTypes, args
  <2>5. Awaited'
    <3>1. /\ IsInjective(pending) /\ Range(pending) \subseteq KeysOf(futures)
          /\ out \cup {x[2] : x \in Range(pending)} = eids
      BY <1>1 DEF CacheInv, Awaited
    <3>2. {x[2] : x \in Range(pending)} = {k[2]} \cup {x[2] : x \in Range(rest)}
      BY <2>1
    <3>3. Range(rest) \subseteq KeysOf(futures')
      BY <2>1, <2>2, <3>1
    <3> QED
      BY <1>1, <1>2, <2>1, <3>1, <3>2, <3>3 DEF Awaited, args
  <2>6. CacheSound' /\ ReadOnce'
    BY <2>2 DEF CacheSound, ReadOnce
  <2> QED
    BY <2>4, <2>5, <2>6 DEF CacheInv
<1>3. CASE pc' = "idle" /\ pending' = <<>> /\ out' = {} /\ UNCHANGED <<cache, futures>>
  BY <1>1, <1>3 DEF CacheInv, CallTypes, CacheSound, ReadOnce, Awaited, args
<1> QED
  BY <1>2, <1>3 DEF Collect

LEMMA CacheCloses == CacheInv /\ (Return \/ Close \/ Closed) => CacheInv'
<1> SUFFICES ASSUME CacheInv, Return \/ Close \/ Closed PROVE CacheInv'
  OBVIOUS
<1>1. CASE Return
  BY <1>1 DEF Return, CacheInv, CallTypes, CacheSound, ReadOnce, Awaited, args
<1>2. CASE Close
  <2> DEFINE T == {f \in Range(futures) : f.state # "reading"}
  <2>1. OneEach(futures) /\ futures' = Kept(futures, T) \o Running /\ pc' = "closing"
        /\ UNCHANGED <<cache, args, pending, out, calls, failures>>
    BY <1>2 DEF CacheInv, ReadOnce, Close, Finished
  <2>2. \A f \in T : f.state # "reading"
    OBVIOUS
  <2> HIDE DEF T
  <2>3. OneEach(Kept(futures, T)) /\ Range(Kept(futures, T)) = Range(futures) \cap T
    BY <2>1, KeptFutures
  <2>4. OneEach(Running) /\ Range(Running) \subseteq {f \in Range(futures) : f.state = "reading"}
    BY <2>1, RunningLemma
  <2>5. KeysOf(Kept(futures, T)) \cap KeysOf(Running) = {}
    BY <2>1, <2>2, <2>3, <2>4 DEF KeysOf, OneEach
  <2>6. OneEach(futures') /\ Range(futures') \subseteq Range(futures)
    BY <2>1, <2>3, <2>4, <2>5, JoinedFutures
  <2>7. KeysOf(futures') \subseteq KeysOf(futures)
    BY <2>6 DEF KeysOf
  <2> QED
    BY <2>1, <2>6, <2>7 DEF CacheInv, CallTypes, CacheSound, ReadOnce, Awaited, args
<1>3. CASE Closed
  <2> DEFINE d == [cache EXCEPT !.keys = {}, !.heap = {}, !.nbytes = 0]
  <2>1. cache' = d /\ futures' = <<>> /\ pc' = "closed" /\ UNCHANGED <<args, pending, out, calls, failures>>
    BY <1>3 DEF Closed
  <2>2. cache \in CacheStates /\ Timely(cache, {})
    BY DEF CacheInv, CacheSound, LfuSound
  <2>3. d \in CacheStates
    BY <2>2 DEF CacheStates
  <2>4. d.keys = {} /\ d.heap = {} /\ d.nbytes = 0 /\ d.last = cache.last /\ d.tick = cache.tick
    BY <2>2 DEF CacheStates
  <2> HIDE DEF d
  <2>5. Timely(d, {})
    BY <2>2, <2>4 DEF Timely
  <2>6. Counted(d)
    BY <2>4, NothingWeighsNothing DEF Counted
  <2>7. CacheSound'
    BY <2>1, <2>3, <2>4, <2>5, <2>6, NatConstants DEF CacheSound, LfuSound
  <2>8. ReadOnce'
    BY <2>1 DEF ReadOnce, OneEach, KeysOf, Range, IsInjective
  <2> QED
    BY <2>1, <2>7, <2>8 DEF CacheInv, CallTypes, Awaited, args
<1> QED
  BY <1>1, <1>2, <1>3

\* Every step keeps the invariant.
LEMMA CacheStep == CacheInv /\ [CacheNext]_cacheVars => CacheInv'
<1> SUFFICES ASSUME CacheInv, [CacheNext]_cacheVars PROVE CacheInv'
  OBVIOUS
<1>1. CASE Read
  BY <1>1, ReadEnds
<1>2. CASE Call
  BY <1>2, CallStarts
<1>3. CASE Snapshot
  BY <1>3, SnapshotTaken
<1>4. CASE Absorb
  BY <1>4, ReadAbsorbed
<1>5. CASE Route
  BY <1>5, CallRouted
<1>6. CASE Collect
  BY <1>6, ReadCollected
<1>7. CASE Return \/ Close \/ Closed
  BY <1>7, CacheCloses
<1>8. CASE UNCHANGED cacheVars
  BY <1>8 DEF cacheVars, args, CacheInv, CallTypes, CacheSound, ReadOnce, Awaited
<1> QED
  BY <1>1, <1>2, <1>3, <1>4, <1>5, <1>6, <1>7, <1>8 DEF CacheNext, GetMany

\* What the invariant says of the cache and of a call.
LEMMA CacheMeans == CacheInv => CacheTypeOK /\ WithinBudget /\ CallComplete
<1> SUFFICES ASSUME CacheInv PROVE CacheTypeOK /\ WithinBudget /\ CallComplete
  OBVIOUS
<1>1. cache \in CacheStates /\ Timely(cache, {}) /\ Counted(cache) /\ cache.nbytes <= Budget
  BY DEF CacheInv, CacheSound, LfuSound
<1>2. OneEach(futures) /\ KeysOf(futures) \cap cache.keys = {}
  BY DEF CacheInv, ReadOnce
<1>3. IsInjective(Keyed(futures)) /\ Range(Keyed(futures)) = KeysOf(futures)
  BY <1>2, KeyedLemma
<1>4. CacheTypeOK
  BY <1>1, <1>2 DEF CacheInv, CallTypes, CacheStates, OneEach, Future, CacheTypeOK
<1>5. ASSUME NEW k \in cache.keys PROVE \E h \in cache.heap : Live(cache, h) /\ h.key = k
  <2>1. LiveEntry(cache, k) \in cache.heap
    BY <1>1 DEF Timely
  <2>2. Live(cache, LiveEntry(cache, k)) /\ LiveEntry(cache, k).key = k
    BY DEF Live, LiveEntry
  <2> QED
    BY <2>1, <2>2
<1>6. WithinBudget
  BY <1>1, <1>2, <1>3, <1>5 DEF WithinBudget, Counted
<1>7. CallComplete
  BY <1>3 DEF CallComplete, CacheInv, Awaited
<1> QED
  BY <1>4, <1>6, <1>7

\* The invariant of the MLX expert cache, for any layers, experts, sizes, budget,
\* number of threads and heap slack.
THEOREM CacheInvariance == CacheSpec => []CacheInv
<1>1. CacheInit => CacheInv
  BY CacheStart
<1>2. CacheInv /\ [CacheNext]_cacheVars => CacheInv'
  BY CacheStep
<1> QED
  BY <1>1, <1>2, PTL DEF CacheSpec

\* The byte counter is what is cached and the budget is kept, every cached expert
\* can be evicted, and none is read twice or while it is cached.
THEOREM CacheFits == CacheSpec => []WithinBudget
<1>1. CacheInv => WithinBudget
  BY CacheMeans
<1> QED
  BY <1>1, CacheInvariance, PTL

\* get_many() waits only for reads that have been submitted, and comes back with
\* every expert it was asked for.
THEOREM CallsComplete == CacheSpec => []CallComplete
<1>1. CacheInv => CallComplete
  BY CacheMeans
<1> QED
  BY <1>1, CacheInvariance, PTL

-----------------------------------------------------------------------------
(* Shard files: their images and what is parsed from them.                 *)

Size(l) == Header + SumFunction(Widths[l])

\* The cells of an image.
LEMMA ImageCells ==
    ASSUME NEW l \in Shards
    PROVE  /\ Size(l) \in Nat \ {0} /\ Header \in 1..Size(l)
           /\ Image(l) \in Seq(Cells) /\ Len(Image(l)) = Size(l)
           /\ \A i \in 1..Size(l) : Image(l)[i] = <<l, i>>
<1> DEFINE w == Widths[l]
           D == DOMAIN w
           Zero == [j \in D |-> 0]
<1>1. w \in Seq(Nat \ {0}) /\ Header \in Nat \ {0}
  BY ReaderAssumption
<1>2. Len(w) \in Nat /\ D = 1..Len(w) /\ w \in [1..Len(w) -> Nat \ {0}]
  BY <1>1
<1> HIDE DEF w
<1>3. IsFiniteSet(D) /\ Cardinality(D) \in Nat
  BY <1>2, IntervalSize
<1>4. w \in [D -> Int] /\ Zero \in [D -> Int] /\ \A j \in D : Zero[j] = 0 /\ Zero[j] + Zero[j] <= w[j]
  BY <1>2
<1> HIDE DEF D, Zero
<1>5. SumFunction(w) \in Int
  BY <1>3, <1>4, SumInt
<1>6. SumFunction(Zero) = Cardinality(D) * 0
  <2>1. \A j \in D : Zero[j] = 0
    BY <1>4
  <2>2. IsFiniteSet(D) /\ Zero \in [D -> Int] /\ 0 \in Int
    BY <1>3, <1>4
  <2> QED
    BY <2>1, <2>2, SumConstant
<1>7. SumFunction(Zero) + SumFunction(Zero) <= SumFunction(w)
  BY <1>3, <1>4, SumRelate
<1>8. SumFunction(w) \in Nat
  BY <1>3, <1>5, <1>6, <1>7
<1>9. Size(l) \in Nat \ {0} /\ Header \in 1..Size(l)
  BY <1>1, <1>8 DEF Size, w
<1>10. Image(l) = [i \in 1..Size(l) |-> <<l, i>>]
  BY DEF Image, Size
<1>11. \A i \in 1..Size(l) : <<l, i>> \in Cells
  BY <1>9 DEF Cells
<1> HIDE DEF Size
<1> QED
  BY <1>9, <1>10, <1>11

\* A tensor's cells are those of its file.
LEMMA OffsetLemma ==
    ASSUME NEW l \in Shards, NEW k \in DOMAIN Widths[l]
    PROVE  /\ Offset(l, k) \in Nat /\ Widths[l][k] \in Nat
           /\ Offset(l, k) + Widths[l][k] <= Size(l)
<1> DEFINE w == Widths[l]
           D == DOMAIN w
           Zero == [j \in D |-> 0]
           f == [j \in D |-> IF j < k THEN w[j] ELSE 0]
           g == [j \in D |-> IF j <= k THEN w[j] ELSE 0]
<1>1. w \in Seq(Nat \ {0}) /\ Header \in Nat \ {0}
  BY ReaderAssumption
<1>2. Len(w) \in Nat /\ D = 1..Len(w) /\ w \in [1..Len(w) -> Nat \ {0}]
  BY <1>1
<1>3. Offset(l, k) = Header + SumFunction(f) /\ Size(l) = Header + SumFunction(w) /\ k \in D
  BY DEF Offset, Size
<1> HIDE DEF w
<1>4. IsFiniteSet(D) /\ Cardinality(D) \in Nat
  BY <1>2, IntervalSize
<1>5. w \in [D -> Int] /\ Zero \in [D -> Int] /\ f \in [D -> Int] /\ g \in [D -> Int]
  BY <1>2
<1>6. /\ \A j \in D : Zero[j] = 0 /\ Zero[j] + Zero[j] <= f[j] /\ Zero[j] + g[j] <= w[j]
      /\ \A j \in D \ {k} : f[j] = g[j]
      /\ f[k] = 0 /\ g[k] = w[k] /\ w[k] \in Nat
  BY <1>2, <1>3
<1> HIDE DEF D, Zero, f, g
<1>7. SumFunction(Zero) = 0
  <2>1. \A j \in D : Zero[j] = 0
    BY <1>6
  <2>2. SumFunction(Zero) = Cardinality(D) * 0
    BY <1>4, <1>5, <2>1, SumConstant
  <2> QED
    BY <1>4, <2>2
<1>8. SumFunction(w) \in Int /\ SumFunction(f) \in Int /\ SumFunction(g) \in Int
  BY <1>4, <1>5, SumInt
<1>9. SumFunction(Zero) + SumFunction(Zero) <= SumFunction(f)
  BY <1>4, <1>5, <1>6, SumRelate
<1>10. SumFunction(Zero) + SumFunction(g) <= SumFunction(w)
  BY <1>4, <1>5, <1>6, SumRelate
<1>11. SumFunction(g) - g[k] = SumFunction(f) - f[k]
  BY <1>3, <1>4, <1>5, <1>6, SumChange
<1>12. SumFunction(f) >= 0
  BY <1>7, <1>8, <1>9
<1>13. SumFunction(f) + w[k] <= SumFunction(w)
  <2>1. SumFunction(g) - w[k] = SumFunction(f) - 0
    BY <1>6, <1>11
  <2> QED
    BY <1>6, <1>7, <1>8, <1>10, <2>1
<1>14. Offset(l, k) \in Nat /\ w[k] \in Nat /\ Offset(l, k) + w[k] <= Size(l)
  <2>1. Header + SumFunction(f) \in Nat
    BY <1>1, <1>8, <1>12
  <2>2. Header + SumFunction(f) + w[k] <= Header + SumFunction(w)
    BY <1>1, <1>6, <1>8, <1>13
  <2> QED
    BY <1>3, <1>6, <2>1, <2>2
<1> QED
  BY <1>14 DEF w

\* The tensors of a file.
Tensors(l) == Views(Image(l), Len(Image(l)))

\* A buffer that begins with an image holds that file's tensors, whatever is
\* behind it.
LEMMA ViewsLemma ==
    ASSUME NEW l \in Shards, NEW payload \in Seq(Cells), Len(payload) >= Size(l),
           \A i \in 1..Size(l) : payload[i] = <<l, i>>
    PROVE  Views(payload, Size(l)) = [k \in DOMAIN Widths[l] |->
               SubSeq(payload, Offset(l, k) + 1, Offset(l, k) + Widths[l][k])]
<1>1. Size(l) \in Nat \ {0} /\ Header \in 1..Size(l) /\ Size(l) = Header + SumFunction(Widths[l])
  BY ImageCells DEF Size
<1>2. payload[1] = <<l, 1>> /\ payload[1][1] = l
  BY <1>1
<1>3. DataStart(payload, Size(l)) = Header
  BY <1>2 DEF DataStart
<1>4. \A i \in 1..Header : payload[i] = <<l, i>>
  BY <1>1
<1>5. ~(Len(payload) < Header + SumFunction(Widths[l]))
  BY <1>1
<1> QED
  BY <1>1, <1>2, <1>3, <1>4, <1>5 DEF Views

LEMMA SameTensors ==
    ASSUME NEW l \in Shards, NEW payload \in Seq(Cells), Len(payload) >= Size(l),
           \A i \in 1..Size(l) : payload[i] = <<l, i>>
    PROVE  Views(payload, Size(l)) = Tensors(l)
<1> DEFINE V(p) == [k \in DOMAIN Widths[l] |-> SubSeq(p, Offset(l, k) + 1, Offset(l, k) + Widths[l][k])]
<1>1. Views(payload, Size(l)) = V(payload)
  BY ViewsLemma
<1>2. /\ Image(l) \in Seq(Cells) /\ Len(Image(l)) = Size(l) /\ Size(l) \in Nat
      /\ \A i \in 1..Size(l) : Image(l)[i] = <<l, i>>
  BY ImageCells
<1>3. Len(Image(l)) >= Size(l)
  BY <1>2
<1>4. Tensors(l) = V(Image(l))
  BY <1>2, <1>3, ViewsLemma DEF Tensors
<1>5. ASSUME NEW k \in DOMAIN Widths[l]
      PROVE  SubSeq(payload, Offset(l, k) + 1, Offset(l, k) + Widths[l][k]) =
                 SubSeq(Image(l), Offset(l, k) + 1, Offset(l, k) + Widths[l][k])
  <2> DEFINE a == Offset(l, k)
             b == Offset(l, k) + Widths[l][k]
             p == SubSeq(payload, a + 1, b)
             q == SubSeq(Image(l), a + 1, b)
  <2>1. a \in Nat /\ b \in Nat /\ a <= b /\ b <= Size(l)
    BY OffsetLemma
  <2> HIDE DEF a, b
  <2>2. \A i \in 1..(b - a) : a + i \in 1..Size(l)
    BY <1>2, <2>1
  <2>3. p \in Seq(Cells) /\ Len(p) = b - a /\ \A i \in 1..(b - a) : p[i] = payload[a + i]
    BY <1>2, <2>1
  <2>4. q \in Seq(Cells) /\ Len(q) = b - a /\ \A i \in 1..(b - a) : q[i] = Image(l)[a + i]
    BY <1>2, <2>1
  <2> HIDE DEF p, q
  <2>5. Len(p) = Len(q) /\ \A i \in 1..Len(p) : p[i] = q[i]
    BY <1>2, <2>1, <2>2, <2>3, <2>4
  <2>6. p = q
    BY <2>3, <2>4, <2>5, SameSeq
  <2> QED
    BY <2>6 DEF p, q, a, b
<1>6. V(payload) = V(Image(l))
  BY <1>5
<1> QED
  BY <1>1, <1>4, <1>6

-----------------------------------------------------------------------------
(* Compressed files.                                                       *)

\* The cells of one.
LEMMA CompressedCells ==
    ASSUME NEW l \in Shards
    PROVE  /\ Compressed(Image(l)) \in Seq(Cells) /\ Len(Compressed(Image(l))) = Size(l) + 2
           /\ Compressed(Image(l))[1] = <<l, 0>>
           /\ \A i \in 1..Size(l) : Compressed(Image(l))[i + 2] = <<l, i>>
<1> DEFINE h == <<<<l, 0>>, <<l, -1>>>>
           m == Image(l)
<1>1. m \in Seq(Cells) /\ Len(m) = Size(l) /\ Size(l) \in Nat \ {0} /\ \A i \in 1..Size(l) : m[i] = <<l, i>>
  BY ImageCells
<1>2. h \in Seq(Cells) /\ Len(h) = 2 /\ h[1] = <<l, 0>>
  BY DEF Cells
<1>3. Compressed(m) = h \o m
  <2>1. m[1][1] = l
    BY <1>1
  <2> HIDE DEF m
  <2> QED
    BY <2>1 DEF Compressed
<1> HIDE DEF h, m
<1>4. /\ h \o m \in Seq(Cells) /\ Len(h \o m) = Len(h) + Len(m)
      /\ \A i \in 1..Len(h) : (h \o m)[i] = h[i]
      /\ \A i \in 1..Len(m) : (h \o m)[Len(h) + i] = m[i]
  <2>1. h \in Seq(Cells) /\ m \in Seq(Cells)
    BY <1>1, <1>2
  <2>2. h \o m \in Seq(Cells) /\ Len(h \o m) = Len(h) + Len(m)
    BY <2>1, CatOf
  <2>3. \A i \in 1..Len(h) : (h \o m)[i] = h[i]
    BY <2>1, CatOf
  <2>4. \A i \in 1..Len(m) : (h \o m)[Len(h) + i] = m[i]
    BY <2>1, CatOf
  <2> QED
    BY <2>2, <2>3, <2>4
<1>5. \A i \in 1..Len(m) : 2 + i = i + 2
  BY <1>1
<1>6. 1 \in 1..Len(h)
  BY <1>2
<1> QED
  BY <1>1, <1>2, <1>3, <1>4, <1>5, <1>6 DEF m

\* Decompression gives the image of the file, or raises; of a whole file it does
\* not raise.
LEMMA DecompressedLemma ==
    ASSUME NEW l \in Shards, NEW f \in Files(l) \cup DamagedFiles(l), f.swz
    PROVE  /\ f.cells \in Seq(Cells)
           /\ Decompressed(f.cells) \in {Failed, Image(l)}
           /\ f \in Files(l) => Decompressed(f.cells) = Image(l)
<1> DEFINE c == Compressed(Image(l))
           n == Size(l)
           b == f.cells
           rest == SubSeq(b, 3, Len(b))
<1>1. /\ c \in Seq(Cells) /\ Len(c) = n + 2 /\ c[1] = <<l, 0>> /\ n \in Nat \ {0}
      /\ \A i \in 1..n : c[i + 2] = <<l, i>>
  BY CompressedCells, ImageCells
<1>2. /\ Image(l) \in Seq(Cells) /\ Len(Image(l)) = n /\ \A i \in 1..n : Image(l)[i] = <<l, i>>
  BY ImageCells
<1>3. f \in Files(l) => b = c
  BY DEF Files
<1>4. f \in DamagedFiles(l) =>
          \/ \E m \in 0..(Len(c) - 1) : b = SubSeq(c, 1, m)
          \/ \E i \in DOMAIN c : b = [c EXCEPT ![i] = Flipped]
  <2>1. SUFFICES ASSUME f \in DamagedFiles(l)
                 PROVE  \/ \E m \in 0..(Len(c) - 1) : b = SubSeq(c, 1, m)
                        \/ \E i \in DOMAIN c : b = [c EXCEPT ![i] = Flipped]
    OBVIOUS
  <2>2. b \in Damaged(c)
    BY <2>1 DEF DamagedFiles
  <2> HIDE DEF b, c
  <2> QED
    BY <2>2 DEF Damaged
<1> HIDE DEF c, n, b
<1>5. ASSUME b \in Seq(Cells), NEW k \in Shards, Len(b) >= 2, b[1] = <<k, 0>>, rest = Image(k), b[1] = c[1]
      PROVE  rest = Image(l)
  BY <1>1, <1>5
<1>6. CASE b = c
  <2>1. rest \in Seq(Cells) /\ Len(rest) = n /\ \A i \in 1..n : rest[i] = b[i + 2]
    BY <1>1, <1>6
  <2> HIDE DEF rest
  <2>2. rest = Image(l)
    <3>1. \A i \in 1..Len(rest) : rest[i] = Image(l)[i]
      BY <1>1, <1>2, <1>6, <2>1
    <3> QED
      BY <1>2, <2>1, <3>1, SameSeq
  <2>3. Decompressed(b) = rest
    BY <1>1, <1>6, <2>2 DEF Decompressed, rest
  <2> QED
    BY <1>1, <1>6, <2>2, <2>3 DEF b
<1>7. ASSUME NEW m \in 0..(Len(c) - 1), b = SubSeq(c, 1, m)
      PROVE  b \in Seq(Cells) /\ Decompressed(b) = Failed
  <2>1. b \in Seq(Cells) /\ Len(b) = m /\ m \in Nat /\ m < n + 2
    BY <1>1, <1>7
  <2>2. ASSUME NEW k \in Shards, Len(b) >= 2, b[1] = <<k, 0>>, rest = Image(k) PROVE FALSE
    <3>1. b[1] = c[1] /\ k = l
      BY <1>1, <1>7, <2>1, <2>2
    <3>2. Len(rest) = m - 2
      BY <2>1, <2>2
    <3> QED
      BY <1>1, <1>2, <2>1, <2>2, <3>1, <3>2
  <2> QED
    BY <2>1, <2>2 DEF Decompressed, rest
<1>8. ASSUME NEW i \in DOMAIN c, b = [c EXCEPT ![i] = Flipped]
      PROVE  b \in Seq(Cells) /\ Decompressed(b) \in {Failed, Image(l)}
  <2>1. /\ b \in Seq(Cells) /\ Len(b) = n + 2 /\ b[i] = Flipped /\ i \in 1..(n + 2)
        /\ \A j \in 1..(n + 2) : j # i => b[j] = c[j]
    <3>1. Flipped \in Cells
      BY DEF Cells
    <3> QED
      BY <1>1, <1>8, <3>1
  <2>2. Flipped \notin Shards \X Int
    BY ReaderAssumption
  <2>3. ASSUME NEW k \in Shards, b[1] = <<k, 0>>, rest = Image(k) PROVE rest = Image(l)
    <3>1. i # 1
      <4>1. <<k, 0>> \in Shards \X Int
        OBVIOUS
      <4> QED
        BY <2>1, <2>2, <2>3, <4>1
    <3>2. b[1] = c[1]
      BY <1>1, <2>1, <3>1
    <3> QED
      BY <1>1, <2>3, <3>2
  <2> QED
    BY <2>1, <2>3 DEF Decompressed, rest
<1> QED
  <2>1. ASSUME f \in Files(l) PROVE b \in Seq(Cells) /\ Decompressed(b) = Image(l)
    BY <1>3, <1>6, <2>1 DEF b
  <2>2. ASSUME f \in DamagedFiles(l) PROVE b \in Seq(Cells) /\ Decompressed(b) \in {Failed, Image(l)}
    BY <1>4, <1>7, <1>8, <2>2
  <2> QED
    BY <2>1, <2>2 DEF b

-----------------------------------------------------------------------------
(* The inductive invariant of the readers.                                 *)

Buffers == Seq(Cells)

DiskOK ==
    \A l \in Shards :
        /\ disk[l] \in Files(l) \cup DamagedFiles(l)
        /\ ~directIO => disk[l] = [swz |-> FALSE, cells |-> Image(l)]

ReadRecords ==
    [at : {"read"}, layer : Shards, old : Buffers, size : Nat, got : Nat,
     grown : BOOLEAN, buffer : Buffers]

\* What is read so far is what the file begins with.
Reads(r) ==
    /\ r \in ReadRecords
    /\ r.size = Len(disk[r.layer].cells) /\ r.got <= r.size /\ r.size <= Len(r.buffer)
    /\ \A i \in 1..r.got : r.buffer[i] = disk[r.layer].cells[i]

Uploads(r) ==
    /\ r.at = "upload" /\ r.layer \in Shards /\ r.recycle \in Buffers
    /\ r.views = Tensors(r.layer)

WorkerOK(r) == r = Idle \/ Reads(r) \/ Uploads(r)

WorkersOK ==
    /\ worker = [w \in Readers |-> worker[w]]
    /\ \A w \in Readers : WorkerOK(worker[w])

LoadedOK == loaded = [l \in Shards |-> loaded[l]] /\ OwnTensors

ReaderInv == DiskOK /\ pool \in Seq(Buffers) /\ WorkersOK /\ LoadedOK

\* A file's cells: a plain file is its image.
LEMMA FileCells ==
    ASSUME NEW l \in Shards, NEW f \in Files(l) \cup DamagedFiles(l)
    PROVE  /\ f.cells \in Seq(Cells) /\ Len(f.cells) \in Nat
           /\ ~f.swz => f \in Files(l) /\ f.cells = Image(l)
           /\ f.swz => f = [swz |-> TRUE, cells |-> f.cells]
<1>1. Image(l) \in Seq(Cells)
  BY ImageCells
<1>2. f \in Files(l) => f = [swz |-> f.swz, cells |-> f.cells] /\ (~f.swz => f.cells = Image(l)) /\ f.swz \in BOOLEAN
  <2>1. CASE f = [swz |-> FALSE, cells |-> Image(l)]
    BY <2>1
  <2>2. CASE f = [swz |-> TRUE, cells |-> Compressed(Image(l))]
    BY <2>2
  <2> QED
    BY <2>1, <2>2 DEF Files
<1>3. f \in DamagedFiles(l) => f.swz = TRUE /\ f = [swz |-> TRUE, cells |-> f.cells]
  BY DEF DamagedFiles
<1>4. f.swz => f.cells \in Seq(Cells)
  BY DecompressedLemma
<1>5. f.swz \in BOOLEAN
  BY <1>2, <1>3
<1>6. ~f.swz => f \in Files(l) /\ f.cells = Image(l)
  BY <1>2, <1>3
<1>7. f.swz => f = [swz |-> TRUE, cells |-> f.cells]
  BY <1>2, <1>3, <1>5
<1>8. f.cells \in Seq(Cells)
  BY <1>1, <1>4, <1>6
<1> QED
  BY <1>6, <1>7, <1>8

\* A file that was read gives its own tensors, or none; and none only if damaged.
LEMMA ParsedLemma ==
    ASSUME DiskOK, NEW r, Reads(r), Complete(r)
    PROVE  /\ Parsed(r) \in {Failed, Tensors(r.layer)}
           /\ Parsed(r) = Failed => disk[r.layer] \notin Files(r.layer)
<1> DEFINE l == r.layer
           f == disk[l]
           n == Size(l)
<1>1. /\ l \in Shards /\ r.buffer \in Seq(Cells) /\ r.size \in Nat /\ r.got = r.size
      /\ r.size = Len(f.cells) /\ r.size <= Len(r.buffer)
      /\ \A i \in 1..r.size : r.buffer[i] = f.cells[i]
  BY DEF Reads, ReadRecords, Complete, Buffers
<1>2. f \in Files(l) \cup DamagedFiles(l)
  BY <1>1 DEF DiskOK
<1>3. /\ Image(l) \in Seq(Cells) /\ Len(Image(l)) = n /\ n \in Nat
      /\ \A i \in 1..n : Image(l)[i] = <<l, i>>
  BY <1>1, ImageCells
<1>4. Failed # Tensors(l) /\ Failed \notin Seq(Cells)
  BY <1>1, ReaderAssumption DEF Tensors
<1>5. Parsed(r) = IF Payload(r) = Failed THEN Failed
                  ELSE Views(Payload(r), IF f.swz THEN Len(Payload(r)) ELSE r.got)
  BY DEF Parsed
<1>6. Payload(r) = IF f.swz THEN Decompressed(SubSeq(r.buffer, 1, r.got)) ELSE r.buffer
  BY DEF Payload
<1> HIDE DEF l, f, n
<1>7. CASE ~f.swz
  <2>1. f.cells = Image(l)
    BY <1>1, <1>2, <1>7, FileCells
  <2>2. r.got = n /\ Len(r.buffer) >= n /\ \A i \in 1..n : r.buffer[i] = <<l, i>>
    BY <1>1, <1>3, <2>1
  <2>3. Payload(r) = r.buffer /\ Payload(r) # Failed
    BY <1>1, <1>4, <1>6, <1>7
  <2>4. Parsed(r) = Views(r.buffer, n)
    BY <1>5, <1>7, <2>2, <2>3
  <2>5. Views(r.buffer, n) = Tensors(l)
    BY <1>1, <2>2, SameTensors DEF n
  <2> QED
    BY <1>4, <2>4, <2>5 DEF l
<1>8. CASE f.swz
  <2> DEFINE b == SubSeq(r.buffer, 1, r.got)
  <2>1. b = f.cells
    <3>1. f.cells \in Seq(Cells)
      BY <1>1, <1>2, FileCells
    <3>2. b \in Seq(Cells) /\ Len(b) = r.size /\ \A i \in 1..r.size : b[i] = r.buffer[i]
      BY <1>1
    <3> HIDE DEF b
    <3> QED
      BY <1>1, <3>1, <3>2, SameSeq
  <2>2. Decompressed(b) \in {Failed, Image(l)} /\ (f \in Files(l) => Decompressed(b) = Image(l))
    BY <1>1, <1>2, <1>8, <2>1, DecompressedLemma
  <2>3. Payload(r) = Decompressed(b)
    BY <1>6, <1>8
  <2>4. ASSUME Payload(r) = Image(l) PROVE Parsed(r) = Tensors(l)
    <3>1. Image(l) # Failed
      BY <1>3, <1>4
    <3> QED
      BY <1>5, <1>8, <2>4, <3>1 DEF Tensors
  <2>5. ASSUME Payload(r) = Failed PROVE Parsed(r) = Failed
    BY <1>5, <2>5
  <2> QED
    BY <1>4, <2>2, <2>3, <2>4, <2>5 DEF l, f
<1> QED
  BY <1>7, <1>8

LEMMA ReaderStart == ~MapCompressed /\ ReaderInit => ReaderInv
<1> SUFFICES ASSUME ~MapCompressed, ReaderInit PROVE ReaderInv
  OBVIOUS
<1>1. DiskOK
  <2>1. \A l \in Shards : disk[l] \in Files(l) \cup DamagedFiles(l) /\ (~directIO => ~disk[l].swz)
    BY DEF ReaderInit
  <2>2. ASSUME NEW l \in Shards, ~directIO PROVE disk[l] = [swz |-> FALSE, cells |-> Image(l)]
    <3>1. disk[l] \in Files(l) /\ ~disk[l].swz
      BY <2>1, <2>2, FileCells
    <3>2. CASE disk[l] = [swz |-> FALSE, cells |-> Image(l)]
      BY <3>2
    <3>3. CASE disk[l] = [swz |-> TRUE, cells |-> Compressed(Image(l))]
      BY <3>1, <3>3
    <3> QED
      BY <3>1, <3>2, <3>3 DEF Files
  <2> QED
    BY <2>1, <2>2 DEF DiskOK
<1>2. pool \in Seq(Buffers) /\ WorkersOK /\ LoadedOK
  BY ReaderAssumption DEF ReaderInit, WorkersOK, WorkerOK, LoadedOK, OwnTensors
<1> QED
  BY <1>1, <1>2 DEF ReaderInv

\* Another thread's step leaves a read as it is; so the disk stays.
LEMMA WorkerStep ==
    ASSUME WorkersOK, NEW w \in Readers, NEW r, WorkerOK(r),
           worker' = [worker EXCEPT ![w] = r], disk' = disk
    PROVE  WorkersOK'
<1>1. worker' = [x \in Readers |-> IF x = w THEN r ELSE worker[x]]
  BY DEF WorkersOK
<1>2. worker' = [x \in Readers |-> worker'[x]]
  BY <1>1
<1>3. ASSUME NEW x, WorkerOK(x) PROVE WorkerOK(x)'
  BY <1>3 DEF WorkerOK, Reads, Uploads, Tensors
<1>4. ASSUME NEW x \in Readers PROVE WorkerOK(worker[x])'
  <2>1. worker'[x] = IF x = w THEN r ELSE worker[x]
    BY <1>1
  <2>2. WorkerOK(worker'[x])
    BY <2>1 DEF WorkersOK
  <2> QED
    BY <2>2 DEF WorkerOK, Reads, Uploads, Tensors
<1> QED
  BY <1>2, <1>4 DEF WorkersOK

LEMMA BufferOpened == ReaderInv /\ (\E w \in Readers, l \in Shards : OpenBuffered(w, l)) => ReaderInv'
<1> SUFFICES ASSUME ReaderInv, NEW w \in Readers, NEW l \in Shards, OpenBuffered(w, l) PROVE ReaderInv'
  OBVIOUS
<1> DEFINE size == Len(disk[l].cells)
           taken == IF pool = <<>> THEN <<>> ELSE Head(pool)
           fresh == [i \in 1..size |-> Junk]
           grown == Len(taken) < size
           r == [at |-> "read", layer |-> l, old |-> taken, size |-> size, got |-> 0,
                 grown |-> grown, buffer |-> IF grown THEN fresh ELSE taken]
<1>1. worker' = [worker EXCEPT ![w] = r] /\ pool' = (IF pool = <<>> THEN <<>> ELSE Tail(pool))
      /\ disk' = disk /\ directIO' = directIO /\ loaded' = loaded
  BY DEF OpenBuffered, Reading
<1>2. size \in Nat
  BY FileCells DEF ReaderInv, DiskOK
<1>3. taken \in Buffers /\ Len(taken) \in Nat /\ pool' \in Seq(Buffers)
  BY <1>1 DEF ReaderInv, Buffers
<1>4. fresh \in Buffers /\ Len(fresh) = size
  BY <1>2 DEF Buffers, Cells
<1>5. size = Len(disk[l].cells)
  OBVIOUS
<1> HIDE DEF size, taken, fresh
<1>6. r \in ReadRecords /\ r.got = 0 /\ r.size = size /\ r.layer = l /\ r.size <= Len(r.buffer)
  BY <1>2, <1>3, <1>4 DEF ReadRecords
<1> HIDE DEF r
<1>7. WorkerOK(r)
  BY <1>2, <1>5, <1>6 DEF WorkerOK, Reads
<1>8. WorkersOK'
  BY <1>1, <1>7, WorkerStep DEF ReaderInv
<1>9. DiskOK' /\ LoadedOK'
  BY <1>1 DEF ReaderInv, DiskOK, LoadedOK, OwnTensors
<1> QED
  BY <1>3, <1>8, <1>9 DEF ReaderInv

\* A layer has got its tensors, or a damaged file none.
LEMMA LoadedStep ==
    ASSUME LoadedOK, NEW l \in Shards, NEW v, v \in {Failed, Tensors(l)},
           v = Failed => disk[l] \notin Files(l), loaded' = [loaded EXCEPT ![l] = v], disk' = disk
    PROVE  LoadedOK'
<1>1. loaded' = [x \in Shards |-> IF x = l THEN v ELSE loaded[x]]
  BY DEF LoadedOK
<1>2. \A x \in Shards : loaded'[x] = IF x = l THEN v ELSE loaded[x]
  BY <1>1
<1> QED
  BY <1>1, <1>2 DEF LoadedOK, OwnTensors, Tensors

LEMMA FileMapped == ReaderInv /\ (\E w \in Readers, l \in Shards : OpenMapped(w, l)) => ReaderInv'
<1> SUFFICES ASSUME ReaderInv, NEW w \in Readers, NEW l \in Shards, OpenMapped(w, l) PROVE ReaderInv'
  OBVIOUS
<1> DEFINE r == [at |-> "upload", layer |-> l, recycle |-> <<>>, views |-> Tensors(l)]
<1>1. disk[l].cells = Image(l)
  <2>1. ~directIO
    BY DEF OpenMapped
  <2>2. disk[l] = [swz |-> FALSE, cells |-> Image(l)]
    BY <2>1 DEF ReaderInv, DiskOK
  <2> QED
    BY <2>2
<1>2. Image(l) \in Seq(Cells) /\ Len(Image(l)) \in Nat \ {0} /\ Tensors(l) # Failed
  BY ImageCells, ReaderAssumption DEF Tensors
<1>3. Image(l) # <<>>
  BY <1>2
<1>4. worker' = [worker EXCEPT ![w] = r] /\ loaded' = loaded /\ pool' = pool
      /\ disk' = disk /\ directIO' = directIO
  BY <1>1, <1>2, <1>3 DEF OpenMapped, Tensors
<1>5. WorkerOK(r)
  BY DEF WorkerOK, Uploads, Buffers
<1> HIDE DEF r
<1>6. WorkersOK'
  BY <1>4, <1>5, WorkerStep DEF ReaderInv
<1>7. DiskOK' /\ LoadedOK'
  BY <1>4 DEF ReaderInv, DiskOK, LoadedOK, OwnTensors
<1> QED
  BY <1>4, <1>6, <1>7 DEF ReaderInv

LEMMA CellsRead == ReaderInv /\ (\E w \in Readers : ReadInto(w)) => ReaderInv'
<1> SUFFICES ASSUME ReaderInv, NEW w \in Readers, ReadInto(w) PROVE ReaderInv'
  OBVIOUS
<1> DEFINE r == worker[w]
           cells == disk[r.layer].cells
<1>1. PICK n \in 1..(r.size - r.got) : worker' = [worker EXCEPT ![w] = Filled(r, n)]
  BY DEF ReadInto
<1>2. r.at = "read" /\ disk' = disk /\ directIO' = directIO /\ pool' = pool /\ loaded' = loaded
  BY DEF ReadInto
<1>3. Reads(r)
  BY <1>2 DEF ReaderInv, WorkersOK, WorkerOK, Uploads, Idle
<1> HIDE DEF r
<1> DEFINE m == r.got + n
           buffer == [i \in DOMAIN r.buffer |-> IF i \in (r.got + 1)..(r.got + n) THEN cells[i] ELSE r.buffer[i]]
           s == [r EXCEPT !.got = m, !.buffer = buffer]
<1>4. Filled(r, n) = s
  BY DEF Filled
<1>5. /\ r \in ReadRecords /\ r.layer \in Shards /\ r.buffer \in Seq(Cells) /\ r.size \in Nat /\ r.got \in Nat
      /\ r.size = Len(cells) /\ r.size <= Len(r.buffer) /\ r.got <= r.size
      /\ \A i \in 1..r.got : r.buffer[i] = cells[i]
  BY <1>3 DEF Reads, ReadRecords, Buffers
<1>6. cells \in Seq(Cells)
  BY <1>5, FileCells DEF ReaderInv, DiskOK
<1>7. cells = disk[r.layer].cells
  OBVIOUS
<1> HIDE DEF cells
<1>8. m \in Nat /\ m <= r.size /\ Len(r.buffer) \in Nat /\ DOMAIN r.buffer = 1..Len(r.buffer)
  BY <1>1, <1>5
<1>9. \A i \in 1..Len(r.buffer) : i \in (r.got + 1)..(r.got + n) => cells[i] \in Cells
  BY <1>1, <1>5, <1>6
<1>10. /\ buffer \in Seq(Cells) /\ Len(buffer) = Len(r.buffer)
       /\ \A i \in 1..m : buffer[i] = cells[i]
  <2>1. \A i \in 1..Len(r.buffer) : r.buffer[i] \in Cells
    BY <1>5
  <2>2. buffer \in [1..Len(r.buffer) -> Cells]
    BY <1>8, <1>9, <2>1
  <2>3. \A i \in 1..m : i \in 1..Len(r.buffer) /\ (i \in 1..r.got \/ i \in (r.got + 1)..(r.got + n))
    BY <1>1, <1>5, <1>8
  <2>4. \A i \in 1..m : buffer[i] = cells[i]
    BY <1>5, <1>8, <2>3
  <2> HIDE DEF buffer
  <2> QED
    BY <1>8, <2>2, <2>4
<1> HIDE DEF m, buffer
<1>11. s \in ReadRecords
  BY <1>5, <1>8, <1>10 DEF ReadRecords, Buffers
<1>12. s.got = m /\ s.buffer = buffer /\ s.size = r.size /\ s.layer = r.layer
  BY <1>5 DEF ReadRecords
<1> HIDE DEF s
<1>13. Reads(s)
  BY <1>5, <1>7, <1>8, <1>10, <1>11, <1>12 DEF Reads
<1>14. WorkersOK'
  BY <1>1, <1>2, <1>4, <1>13, WorkerStep DEF ReaderInv, WorkerOK, r
<1>15. DiskOK' /\ LoadedOK'
  BY <1>2 DEF ReaderInv, DiskOK, LoadedOK, OwnTensors
<1> QED
  BY <1>2, <1>14, <1>15 DEF ReaderInv

\* A buffer given back.
LEMMA PutLemma ==
    ASSUME NEW free \in Seq(Buffers), NEW b \in Buffers
    PROVE  Put(free, b) \in Seq(Buffers)
BY DEF Put

LEMMA FileParsed == ReaderInv /\ (\E w \in Readers : Deserialize(w)) => ReaderInv'
<1> SUFFICES ASSUME ReaderInv, NEW w \in Readers, Deserialize(w) PROVE ReaderInv'
  OBVIOUS
<1> DEFINE r == worker[w]
           s == [at |-> "upload", layer |-> r.layer, recycle |-> r.buffer, views |-> Parsed(r)]
<1>1. r.at = "read" /\ Complete(r) /\ disk' = disk /\ directIO' = directIO
  BY DEF Deserialize
<1>2. Reads(r)
  BY <1>1 DEF ReaderInv, WorkersOK, WorkerOK, Uploads, Idle
<1>3. r.layer \in Shards /\ r.buffer \in Buffers /\ r.old \in Buffers
  BY <1>2 DEF Reads, ReadRecords
<1>4. /\ Parsed(r) \in {Failed, Tensors(r.layer)}
      /\ Parsed(r) = Failed => disk[r.layer] \notin Files(r.layer)
  BY <1>1, <1>2, ParsedLemma DEF ReaderInv
<1>5. CASE Parsed(r) = Failed
  <2>1. /\ pool' = Put(pool, GivenBack(r)) /\ worker' = [worker EXCEPT ![w] = Idle]
        /\ loaded' = [loaded EXCEPT ![r.layer] = Failed]
    BY <1>5 DEF Deserialize
  <2>2. pool' \in Seq(Buffers)
    <3>1. GivenBack(r) \in Buffers
      BY <1>3 DEF GivenBack
    <3> QED
      BY <2>1, <3>1, PutLemma DEF ReaderInv
  <2>3. WorkersOK'
    <3>1. WorkerOK(Idle)
      BY DEF WorkerOK
    <3> QED
      BY <1>1, <2>1, <3>1, WorkerStep DEF ReaderInv
  <2>4. LoadedOK'
    <3>1. Failed \in {Failed, Tensors(r.layer)}
      OBVIOUS
    <3> HIDE DEF r
    <3> QED
      BY <1>1, <1>3, <1>4, <1>5, <2>1, <3>1, LoadedStep DEF ReaderInv
  <2> QED
    BY <1>1, <2>2, <2>3, <2>4 DEF ReaderInv, DiskOK
<1>6. CASE Parsed(r) # Failed
  <2>1. worker' = [worker EXCEPT ![w] = s] /\ pool' = pool /\ loaded' = loaded
    BY <1>6 DEF Deserialize
  <2>2. WorkerOK(s)
    BY <1>3, <1>4, <1>6 DEF WorkerOK, Uploads
  <2> HIDE DEF s
  <2>3. WorkersOK'
    BY <1>1, <2>1, <2>2, WorkerStep DEF ReaderInv
  <2> QED
    BY <1>1, <2>1, <2>3 DEF ReaderInv, DiskOK, LoadedOK, OwnTensors
<1> QED
  BY <1>5, <1>6

LEMMA LayerUploaded == ReaderInv /\ (\E w \in Readers : Upload(w)) => ReaderInv'
<1> SUFFICES ASSUME ReaderInv, NEW w \in Readers, Upload(w) PROVE ReaderInv'
  OBVIOUS
<1> DEFINE r == worker[w]
<1>1. /\ r.at = "upload" /\ loaded' = [loaded EXCEPT ![r.layer] = r.views]
      /\ pool' = Put(pool, r.recycle) /\ worker' = [worker EXCEPT ![w] = Idle]
      /\ disk' = disk /\ directIO' = directIO
  BY DEF Upload
<1>2. r.layer \in Shards /\ r.recycle \in Buffers /\ r.views = Tensors(r.layer)
  BY <1>1 DEF ReaderInv, WorkersOK, WorkerOK, Reads, ReadRecords, Uploads, Idle
<1>3. pool' \in Seq(Buffers)
  BY <1>1, <1>2, PutLemma DEF ReaderInv
<1>4. WorkersOK'
  <2>1. WorkerOK(Idle)
    BY DEF WorkerOK
  <2> QED
    BY <1>1, <2>1, WorkerStep DEF ReaderInv
<1>5. LoadedOK'
  <2>1. r.views \in {Failed, Tensors(r.layer)} /\ r.views # Failed
    BY <1>2, ReaderAssumption DEF Tensors
  <2> HIDE DEF r
  <2> QED
    BY <1>1, <1>2, <2>1, LoadedStep DEF ReaderInv
<1> QED
  BY <1>1, <1>3, <1>4, <1>5 DEF ReaderInv, DiskOK

LEMMA ReaderStep == ReaderInv /\ [ReaderNext]_readerVars => ReaderInv'
<1> SUFFICES ASSUME ReaderInv, [ReaderNext]_readerVars PROVE ReaderInv'
  OBVIOUS
<1>1. CASE ReaderNext
  BY <1>1, BufferOpened, FileMapped, CellsRead, FileParsed, LayerUploaded DEF ReaderNext
<1>2. CASE UNCHANGED readerVars
  BY <1>2 DEF readerVars, ReaderInv, DiskOK, WorkersOK, WorkerOK, Reads, Uploads, LoadedOK, OwnTensors
<1> QED
  BY <1>1, <1>2

\* The invariant of the readers, of a directory that is mapped only when its files
\* are plain.
THEOREM ReaderInvariance == ~MapCompressed => (ReaderSpec => []ReaderInv)
<1>1. ~MapCompressed /\ ReaderInit => ReaderInv
  BY ReaderStart
<1>2. ReaderInv /\ [ReaderNext]_readerVars => ReaderInv'
  BY ReaderStep
<1> QED
  BY <1>1, <1>2, PTL DEF ReaderSpec

\* Then a layer's state is its own tensors, whatever the buffer it was read into
\* held before.
THEOREM ReadersGetTheirTensors == ~MapCompressed => (ReaderSpec => []OwnTensors)
<1>1. ReaderInv => OwnTensors
  BY DEF ReaderInv, LoadedOK
<1> QED
  BY <1>1, ReaderInvariance, PTL

-----------------------------------------------------------------------------
(* Expert banks: blocks of one size, one after the other.                  *)

\* Facts of products that the solvers find alone and not amid other arithmetic.
LEMMA Products ==
    \A a, b, c \in Int : /\ a * b \in Int /\ a * b = b * a
                         /\ (a * b) * c = a * (b * c) /\ (a + b) * c = a * c + b * c
                         /\ (a - b) * c = a * c - b * c
OBVIOUS

\* A product grows with a factor.
LEMMA ProductsGrow == \A a, b, c \in Nat : a <= b => a * c <= b * c
OBVIOUS

\* A product of naturals is one.
LEMMA ProductsNat == \A a, b \in Nat : a * b \in Nat
OBVIOUS

\* What a division and its rest are.
LEMMA Quotient ==
    \A x \in Nat, s \in Nat \ {0} :
        /\ x \div s \in Nat /\ (x \div s) * s <= x /\ x < (x \div s) * s + s
OBVIOUS

\* A whole shared by n.
LEMMA Share == \A n \in Nat \ {0}, x \in Nat : (n * x) \div n = x
OBVIOUS

\* A multiple leaves no rest.
LEMMA NoRest == \A n \in Nat \ {0}, x \in Nat : (n * x) % n = 0
OBVIOUS

\* An even number is two halves.
LEMMA Halved == \A x \in Nat : x % 2 = 0 => x = 2 * (x \div 2) /\ x \div 2 \in Nat
OBVIOUS

\* Of n blocks of s bytes, one after the other: they are within n * s, no two meet,
\* and every byte is in one.
LEMMA Blocks ==
    ASSUME NEW n \in Nat, NEW s \in Nat
    PROVE  /\ \A j \in Int : 1 <= j /\ j <= n => (j - 1) * s \in Nat /\ (j - 1) * s + s <= n * s
           /\ \A i, j \in Int : 1 <= i /\ i < j => (i - 1) * s + s <= (j - 1) * s
           /\ \A x \in Nat : x < n * s =>
                 \E j \in Int : 1 <= j /\ j <= n /\ (j - 1) * s <= x /\ x < (j - 1) * s + s
<1>1. \A j \in Nat : j * s \in Nat /\ (j - 1) * s = j * s - s
  BY Products, ProductsNat
<1>2. ASSUME NEW j \in Int, 1 <= j, j <= n PROVE (j - 1) * s \in Nat /\ (j - 1) * s + s <= n * s
  BY <1>1, <1>2, ProductsGrow, ProductsNat
<1>3. ASSUME NEW i \in Int, NEW j \in Int, 1 <= i, i < j PROVE (i - 1) * s + s <= (j - 1) * s
  <2>1. i \in Nat /\ j - 1 \in Nat /\ i <= j - 1
    BY <1>3
  <2>2. i * s <= (j - 1) * s
    BY <2>1, ProductsGrow
  <2> QED
    BY <1>1, <2>1, <2>2
<1>4. ASSUME NEW x \in Nat, x < n * s
      PROVE  \E j \in Int : 1 <= j /\ j <= n /\ (j - 1) * s <= x /\ x < (j - 1) * s + s
  <2>1. s # 0
    BY <1>4, Products
  <2>2. x \div s \in Nat /\ (x \div s) * s <= x /\ x < (x \div s) * s + s
    BY <2>1, Quotient
  <2> DEFINE q == x \div s
  <2> HIDE DEF q
  <2>3. q \in Nat /\ q * s <= x /\ x < q * s + s
    BY <2>2 DEF q
  <2>4. q < n
    <3>1. SUFFICES ASSUME n <= q PROVE FALSE
      BY <2>3
    <3>2. n * s <= q * s
      BY <2>3, <3>1, ProductsGrow
    <3> QED
      BY <1>1, <1>4, <2>3, <3>2
  <2>5. (q + 1) - 1 = q /\ q + 1 \in Int /\ 1 <= q + 1 /\ q + 1 <= n
    BY <2>3, <2>4
  <2> QED
    BY <2>3, <2>5
<1> QED
  BY <1>2, <1>3, <1>4

-----------------------------------------------------------------------------
(* Tensors and files.                                                      *)

\* A tensor of experts is so many matrices, one after the other.
Step(t) == NumRows(t) * NumCols(t) * t.item

\* The elements of a sequence.
LEMMA Elements == \A V : \A s \in Seq(V) : Len(s) \in Nat /\ DOMAIN s = 1..Len(s) /\ \A i \in 1..Len(s) : s[i] \in V
OBVIOUS

\* A tensor has as many bytes as its matrices.
LEMMA TensorSize ==
    ASSUME NEW t, IsTensor(t)
    PROVE  /\ NBytes(t) \in Nat
           /\ Len(t.shape) = 3 => /\ NumRows(t) = t.shape[2] /\ NumCols(t) = t.shape[3]
                                  /\ t.shape[1] \in Nat \ {0}
                                  /\ NBytes(t) = t.shape[1] * Step(t)
           /\ Len(t.shape) = 2 => NBytes(t) = Step(t)
           /\ Len(t.shape) # 1 => /\ NumRows(t) \in Nat \ {0} /\ NumCols(t) \in Nat \ {0}
                                  /\ Step(t) \in Nat
<1>1. t.item \in Nat /\ t.shape \in Seq(Nat \ {0}) /\ Len(t.shape) \in 1..3
  BY DEF IsTensor
<1>2. /\ NumCols(t) \in Nat \ {0}
      /\ Len(t.shape) # 1 => NumRows(t) \in Nat \ {0}
      /\ Len(t.shape) = 3 => /\ t.shape[1] \in Nat \ {0}
                             /\ NumRows(t) = t.shape[2] /\ NumCols(t) = t.shape[3]
  <2>1. \A i \in 1..Len(t.shape) : t.shape[i] \in Nat \ {0}
    BY <1>1, Elements
  <2> DEFINE n == Len(t.shape)
  <2>2. n \in 1..n /\ (n # 1 => n - 1 \in 1..n)
    <3>1. n \in 1..3
      BY <1>1
    <3> HIDE DEF n
    <3> QED
      BY <3>1
  <2>3. NumCols(t) = t.shape[n]
    BY DEF NumCols
  <2>4. NumRows(t) = t.shape[Len(t.shape) - 1]
    BY DEF NumRows
  <2>5. Len(t.shape) = 3 => 1 \in 1..Len(t.shape) /\ Len(t.shape) - 1 = 2
    BY <1>1
  <2> QED
    BY <2>1, <2>2, <2>3, <2>4, <2>5
<1>3. Len(t.shape) # 1 => Step(t) \in Nat
  BY <1>1, <1>2, ProductsNat DEF Step
<1>4. CASE Len(t.shape) = 1
  <2>1. NBytes(t) = t.item * NumCols(t)
    BY <1>4 DEF NBytes
  <2> QED
    BY <1>1, <1>2, <1>4, <2>1, ProductsNat
<1>5. CASE Len(t.shape) = 2
  <2>1. NBytes(t) = t.item * (1 * NumRows(t) * NumCols(t))
    BY <1>5 DEF NBytes, Matrices
  <2>2. NBytes(t) = Step(t)
    BY <1>1, <1>2, <1>5, <2>1, Products DEF Step
  <2> QED
    BY <1>2, <1>3, <1>5, <2>2
<1>6. CASE Len(t.shape) = 3
  <2> DEFINE e == t.shape[1]  r == NumRows(t)  c == NumCols(t)  b == t.item
  <2>1. NBytes(t) = b * (e * r * c)
    BY <1>6 DEF NBytes, Matrices
  <2>2. e \in Nat \ {0} /\ r \in Nat \ {0} /\ c \in Nat \ {0} /\ b \in Nat
    BY <1>1, <1>2, <1>6
  <2>3. Step(t) = (r * c) * b
    BY DEF Step
  <2> HIDE DEF e, r, c, b
  <2>4. b * (e * r * c) = e * ((r * c) * b)
    BY <2>2, Products
  <2>5. NBytes(t) = e * Step(t)
    BY <2>1, <2>3, <2>4
  <2>6. e * Step(t) \in Nat
    BY <1>3, <1>6, <2>2, ProductsNat
  <2> QED
    BY <1>2, <1>3, <1>6, <2>5, <2>6 DEF e
<1> QED
  BY <1>1, <1>4, <1>5, <1>6

\* A file that is there: the shape of its record and what its tensors are.
IsFile(f) ==
    /\ f = [header |-> f.header, tensors |-> f.tensors, quant |-> f.quant, length |-> f.length]
    /\ f.header \in Nat
    /\ TensorsOnce(f.tensors)

\* A tensor starts where the one before it ends.
LEMMA StartLemma ==
    ASSUME NEW f, IsFile(f)
    PROVE  /\ \A k \in DOMAIN f.tensors :
                 /\ k \in Int /\ Start(f, k) \in Nat /\ NBytes(f.tensors[k]) \in Nat
                 /\ Start(f, k + 1) = Start(f, k) + NBytes(f.tensors[k])
           /\ \A i, k \in DOMAIN f.tensors :
                 i < k => Start(f, i) + NBytes(f.tensors[i]) <= Start(f, k)
<1> DEFINE D == DOMAIN f.tensors
           N(i) == NBytes(f.tensors[i])
           g(k) == [i \in D |-> IF i < k THEN N(i) ELSE 0]
           Zero == [i \in D |-> 0]
<1>1. IsFiniteSet(D) /\ D \subseteq Int /\ Cardinality(D) \in Nat
  BY IntervalSize DEF IsFile, TensorsOnce
<1>2. \A i \in D : N(i) \in Nat
  BY TensorSize DEF IsFile, TensorsOnce, Range
<1>3. \A k : Start(f, k) = f.header + SumFunction(g(k))
  BY DEF Start
<1>4. \A k \in Int : g(k) \in [D -> Int] /\ SumFunction(g(k)) \in Int
  <2>1. \A k \in Int : g(k) \in [D -> Int]
    BY <1>2
  <2> QED
    BY <1>1, <2>1, SumInt
<1>5. Zero \in [D -> Int] /\ SumFunction(Zero) = 0
  <2>1. Zero \in [D -> Int] /\ \A i \in D : Zero[i] = 0
    OBVIOUS
  <2>2. SumFunction(Zero) = Cardinality(D) * 0
    BY <1>1, <2>1, SumConstant
  <2> QED
    BY <1>1, <2>1, <2>2
<1>6. f.header \in Nat
  BY DEF IsFile
<1>7. \A i \in D, k \in Int : g(k)[i] = IF i < k THEN N(i) ELSE 0
  OBVIOUS
<1>8. \A i \in D : Zero[i] = 0
  OBVIOUS
<1> HIDE DEF D, N, g, Zero
<1>9. ASSUME NEW a \in Int, NEW b \in Int, a <= b
      PROVE  SumFunction(g(a)) <= SumFunction(g(b))
  <2>1. \A i \in D : g(a)[i] + Zero[i] <= g(b)[i]
    BY <1>1, <1>2, <1>7, <1>8, <1>9
  <2>2. SumFunction(g(a)) + SumFunction(Zero) <= SumFunction(g(b))
    BY <1>1, <1>4, <1>5, <2>1, SumRelate
  <2> QED
    BY <1>4, <1>5, <2>2
<1>10. \A k \in Int : SumFunction(g(k)) >= 0
  <2>1. TAKE k \in Int
  <2>2. \A i \in D : Zero[i] + Zero[i] <= g(k)[i]
    BY <1>1, <1>2, <1>7, <1>8
  <2>3. SumFunction(Zero) + SumFunction(Zero) <= SumFunction(g(k))
    BY <1>1, <1>4, <1>5, <2>2, SumRelate
  <2> QED
    BY <1>4, <1>5, <2>3
<1>11. \A k \in D : SumFunction(g(k + 1)) = SumFunction(g(k)) + N(k)
  <2>1. TAKE k \in D
  <2>2. k \in Int /\ k + 1 \in Int
    BY <1>1
  <2>3. \A i \in D \ {k} : g(k)[i] = g(k + 1)[i]
    BY <1>1, <1>7, <2>2
  <2>4. g(k)[k] = 0 /\ g(k + 1)[k] = N(k)
    BY <1>7, <2>2
  <2> DEFINE u == g(k)  v == g(k + 1)
  <2>5. SumFunction(g(k + 1)) - g(k + 1)[k] = SumFunction(g(k)) - g(k)[k]
    <3>1. u \in [D -> Int] /\ v \in [D -> Int] /\ \A i \in D \ {k} : u[i] = v[i]
      BY <1>4, <2>2, <2>3
    <3>2. SumFunction(v) - v[k] = SumFunction(u) - u[k]
      <4> HIDE DEF u, v
      <4> QED
        BY <1>1, <3>1, SumChange
    <3> QED
      BY <3>2
  <2>6. N(k) \in Nat /\ SumFunction(g(k)) \in Int /\ SumFunction(g(k + 1)) \in Int
    BY <1>2, <1>4, <2>2
  <2> QED
    BY <2>4, <2>5, <2>6
<1>12. ASSUME NEW k \in D
       PROVE  /\ Start(f, k) \in Nat /\ N(k) \in Nat /\ k \in Int
              /\ Start(f, k + 1) = Start(f, k) + N(k)
  <2>1. k \in Int
    BY <1>1
  <2>2. SumFunction(g(k)) \in Int /\ SumFunction(g(k)) >= 0
    BY <1>4, <1>10, <2>1
  <2>3. SumFunction(g(k + 1)) = SumFunction(g(k)) + N(k)
    BY <1>11
  <2> QED
    BY <1>2, <1>3, <1>6, <2>1, <2>2, <2>3
<1>13. ASSUME NEW i \in D, NEW k \in D, i < k PROVE Start(f, i) + N(i) <= Start(f, k)
  <2>1. i + 1 \in Int /\ k \in Int /\ i + 1 <= k
    BY <1>1, <1>13
  <2>2. SumFunction(g(i + 1)) <= SumFunction(g(k))
    BY <1>9, <2>1
  <2>3. Start(f, i + 1) = Start(f, i) + N(i)
    BY <1>12
  <2> QED
    BY <1>3, <1>4, <1>6, <2>1, <2>2, <2>3
<1> QED
  BY <1>12, <1>13 DEF D, N

-----------------------------------------------------------------------------
(* What makes an index cover its tensors once.                             *)

\* Slice p is bytes at[p] on of tensor[p].
Lies(fs, slices, where, from) ==
    \A p \in Places(slices) :
        LET s == slices[p[1]][p[2]]  ts == fs[s.file].tensors
        IN  /\ where[p] \in DOMAIN ts /\ IsExpert(ts[where[p]])
            /\ from[p] \in Nat /\ s.nbytes \in Nat /\ from[p] + s.nbytes <= NBytes(ts[where[p]])
            /\ s.offset = Start(fs[s.file], where[p]) + from[p]

\* Two slices of one tensor do not meet.
Apart(slices, where, from) ==
    \A p, q \in Places(slices) :
        LET s == slices[p[1]][p[2]]  r == slices[q[1]][q[2]]
        IN  p # q /\ s.file = r.file /\ where[p] = where[q] =>
                from[p] + s.nbytes <= from[q] \/ from[q] + r.nbytes <= from[p]

\* Every byte of an expert tensor is in a slice.
FilledUp(fs, slices, where, from) ==
    \A n \in FilesOf(slices) : \A k \in DOMAIN fs[n].tensors :
        IsExpert(fs[n].tensors[k]) =>
            \A x \in Nat : x < NBytes(fs[n].tensors[k]) =>
                \E p \in Places(slices) :
                    LET s == slices[p[1]][p[2]]
                    IN  s.file = n /\ where[p] = k /\ from[p] <= x /\ x < from[p] + s.nbytes

\* Then the slices partition the bytes of the expert tensors.
LEMMA Tiles ==
    ASSUME NEW fs, NEW slices, NEW where, NEW from,
           \A n \in FilesOf(slices) : IsFile(fs[n]),
           Lies(fs, slices, where, from), Apart(slices, where, from), FilledUp(fs, slices, where, from)
    PROVE  Partitioned(fs, slices)
<1> DEFINE s(p) == slices[p[1]][p[2]]
           f(p) == fs[s(p).file]
           N(p) == NBytes(f(p).tensors[where[p]])
<1>1. ASSUME NEW p \in Places(slices)
      PROVE  /\ s(p).file \in FilesOf(slices) /\ IsFile(f(p))
             /\ where[p] \in DOMAIN f(p).tensors /\ IsExpert(f(p).tensors[where[p]])
             /\ from[p] \in Nat /\ s(p).nbytes \in Nat /\ N(p) \in Nat
             /\ from[p] + s(p).nbytes <= N(p)
             /\ s(p).offset = Start(f(p), where[p]) + from[p]
             /\ where[p] \in Int /\ Start(f(p), where[p]) \in Nat
             /\ Start(f(p), where[p] + 1) = Start(f(p), where[p]) + N(p)
  <2>1. s(p).file \in FilesOf(slices)
    BY DEF FilesOf
  <2>2. IsFile(f(p))
    BY <2>1
  <2>3. /\ where[p] \in DOMAIN f(p).tensors /\ IsExpert(f(p).tensors[where[p]])
        /\ from[p] \in Nat /\ s(p).nbytes \in Nat /\ from[p] + s(p).nbytes <= N(p)
        /\ s(p).offset = Start(f(p), where[p]) + from[p]
    BY DEF Lies
  <2> QED
    BY <2>1, <2>2, <2>3, StartLemma
<1>2. ASSUME NEW p \in Places(slices), NEW q \in Places(slices), p # q, s(p).file = s(q).file
      PROVE  s(p).offset + s(p).nbytes <= s(q).offset \/ s(q).offset + s(q).nbytes <= s(p).offset
  <2>1. /\ IsFile(f(p)) /\ where[p] \in DOMAIN f(p).tensors
        /\ from[p] \in Nat /\ s(p).nbytes \in Nat /\ N(p) \in Nat
        /\ from[p] + s(p).nbytes <= N(p) /\ s(p).offset = Start(f(p), where[p]) + from[p]
        /\ where[p] \in Int /\ Start(f(p), where[p]) \in Nat
    BY <1>1
  <2>2. /\ where[q] \in DOMAIN f(q).tensors
        /\ from[q] \in Nat /\ s(q).nbytes \in Nat /\ N(q) \in Nat
        /\ from[q] + s(q).nbytes <= N(q) /\ s(q).offset = Start(f(q), where[q]) + from[q]
        /\ where[q] \in Int /\ Start(f(q), where[q]) \in Nat
    BY <1>1
  <2>3. f(p) = f(q)
    BY <1>2
  <2>4. where[p] = where[q] => from[p] + s(p).nbytes <= from[q] \/ from[q] + s(q).nbytes <= from[p]
    BY <1>2 DEF Apart
  <2>5. /\ where[p] < where[q] => Start(f(p), where[p]) + N(p) <= Start(f(p), where[q])
        /\ where[q] < where[p] => Start(f(p), where[q]) + N(q) <= Start(f(p), where[p])
    BY <2>1, <2>2, <2>3, StartLemma
  <2> HIDE DEF s, f, N
  <2>6. s(q).offset = Start(f(p), where[q]) + from[q] /\ Start(f(p), where[q]) \in Nat
    BY <2>2, <2>3
  <2>7. CASE where[p] = where[q]
    BY <2>1, <2>2, <2>4, <2>6, <2>7
  <2>8. CASE where[p] < where[q]
    <3>1. Start(f(p), where[p]) + N(p) <= Start(f(p), where[q])
      BY <2>5, <2>8
    <3> QED
      BY <2>1, <2>2, <2>6, <3>1
  <2>9. CASE where[q] < where[p]
    <3>1. Start(f(p), where[q]) + N(q) <= Start(f(p), where[p])
      BY <2>5, <2>9
    <3> QED
      BY <2>1, <2>2, <2>6, <3>1
  <2>10. where[p] \in Int /\ where[q] \in Int
    BY <2>1, <2>2
  <2>11. where[p] = where[q] \/ where[p] < where[q] \/ where[q] < where[p]
    BY <2>10
  <2> QED
    BY <2>7, <2>8, <2>9, <2>11
<1>3. ASSUME NEW p \in Places(slices) PROVE s(p).offset \in Nat /\ s(p).nbytes \in Nat
  <2>1. /\ from[p] \in Nat /\ s(p).nbytes \in Nat /\ Start(f(p), where[p]) \in Nat
        /\ s(p).offset = Start(f(p), where[p]) + from[p]
    BY <1>1
  <2> HIDE DEF s, f, N
  <2> QED
    BY <2>1
<1>4. \A p, q \in Places(slices) :
         p # q => SliceBytes(s(p)) \cap SliceBytes(s(q)) = {}
  <2>1. SUFFICES ASSUME NEW p \in Places(slices), NEW q \in Places(slices), p # q,
                        NEW n, NEW x, <<n, x>> \in SliceBytes(s(p)), <<n, x>> \in SliceBytes(s(q))
                 PROVE  FALSE
    BY DEF SliceBytes
  <2>2. /\ n = s(p).file /\ x \in s(p).offset .. (s(p).offset + s(p).nbytes - 1)
        /\ n = s(q).file /\ x \in s(q).offset .. (s(q).offset + s(q).nbytes - 1)
    BY <2>1 DEF SliceBytes
  <2>3. s(p).offset + s(p).nbytes <= s(q).offset \/ s(q).offset + s(q).nbytes <= s(p).offset
    BY <1>2, <2>1, <2>2
  <2>4. /\ s(p).offset \in Nat /\ s(p).nbytes \in Nat
        /\ s(q).offset \in Nat /\ s(q).nbytes \in Nat
    BY <1>3
  <2> HIDE DEF s
  <2> QED
    BY <2>2, <2>3, <2>4
<1> DEFINE ExpertsIn(n) == {m \in DOMAIN fs[n].tensors : IsExpert(fs[n].tensors[m])}
<1>5. ASSUME NEW p \in Places(slices), NEW z \in SliceBytes(s(p))
      PROVE  \E n \in FilesOf(slices) : \E k \in ExpertsIn(n) : z \in TensorBytes(fs, n, k)
  <2>1. PICK x \in s(p).offset .. (s(p).offset + s(p).nbytes - 1) : z = <<s(p).file, x>>
    BY <1>5 DEF SliceBytes
  <2>2. x \in Start(f(p), where[p]) .. (Start(f(p), where[p] + 1) - 1)
    <3>1. /\ from[p] \in Nat /\ s(p).nbytes \in Nat /\ N(p) \in Nat
          /\ from[p] + s(p).nbytes <= N(p) /\ s(p).offset = Start(f(p), where[p]) + from[p]
          /\ Start(f(p), where[p]) \in Nat
          /\ Start(f(p), where[p] + 1) = Start(f(p), where[p]) + N(p)
      BY <1>1
    <3> HIDE DEF s, f, N
    <3> QED
      BY <2>1, <3>1
  <2>3. z \in TensorBytes(fs, s(p).file, where[p])
    BY <2>1, <2>2 DEF TensorBytes
  <2>4. s(p).file \in FilesOf(slices) /\ where[p] \in ExpertsIn(s(p).file)
    BY <1>1
  <2> QED
    BY <2>3, <2>4
<1>6. ASSUME NEW n \in FilesOf(slices), NEW k \in ExpertsIn(n), NEW z \in TensorBytes(fs, n, k)
      PROVE  \E p \in Places(slices) : z \in SliceBytes(s(p))
  <2>1. PICK y \in Start(fs[n], k) .. (Start(fs[n], k + 1) - 1) : z = <<n, y>>
    BY <1>6 DEF TensorBytes
  <2>2. /\ k \in DOMAIN fs[n].tensors /\ IsExpert(fs[n].tensors[k]) /\ IsFile(fs[n])
        /\ Start(fs[n], k) \in Nat /\ NBytes(fs[n].tensors[k]) \in Nat
        /\ Start(fs[n], k + 1) = Start(fs[n], k) + NBytes(fs[n].tensors[k])
    BY StartLemma
  <2> DEFINE x == y - Start(fs[n], k)
  <2>3. x \in Nat /\ x < NBytes(fs[n].tensors[k]) /\ y = Start(fs[n], k) + x
    BY <2>1, <2>2
  <2> HIDE DEF x
  <2>4. PICK p \in Places(slices) :
            s(p).file = n /\ where[p] = k /\ from[p] <= x /\ x < from[p] + s(p).nbytes
    BY <2>2, <2>3 DEF FilledUp
  <2>5. s(p).offset = Start(fs[n], k) + from[p] /\ from[p] \in Nat /\ s(p).nbytes \in Nat
    BY <1>1, <2>4
  <2>6. y \in s(p).offset .. (s(p).offset + s(p).nbytes - 1)
    BY <2>2, <2>3, <2>4, <2>5
  <2> QED
    BY <2>1, <2>4, <2>6 DEF SliceBytes
<1>7. UNION {SliceBytes(s(p)) : p \in Places(slices)} =
      UNION {UNION {TensorBytes(fs, n, k) : k \in ExpertsIn(n)} : n \in FilesOf(slices)}
  BY <1>5, <1>6
<1> QED
  BY <1>4, <1>7 DEF Partitioned

\* The rows of a matrix are its step's bytes.
LEMMA OwnRows ==
    ASSUME NEW f, IsFile(f), NEW k \in DOMAIN f.tensors, NEW j \in Int,
           IsExpert(f.tensors[k]), f.tensors[k].expert < 0, NEW first \in Nat, NEW count \in Nat
    PROVE  LET t == f.tensors[k]  row == NumCols(t) * t.item
           IN  Rows(f, k, j, first, first + count - 1) =
                   [i \in 1..(count * row) |-> Start(f, k) + (j - 1) * Step(t) + first * row + i - 1]
<1> DEFINE t == f.tensors[k]  row == NumCols(t) * t.item  r == NumRows(t)
<1>1. IsTensor(t) /\ t.expert < 0 /\ IsExpert(t)
  BY DEF IsFile, TensorsOnce, Range
<1>2. r \in Nat /\ NumCols(t) \in Nat /\ t.item \in Nat
  <2>1. Len(t.shape) = 3 /\ t.item \in Nat
    BY <1>1 DEF IsTensor
  <2> QED
    BY <1>1, <2>1, TensorSize
<1>3. Start(f, k) \in Int
  BY StartLemma
<1>4. Step(t) = r * row /\ row \in Nat
  <2> DEFINE c == NumCols(t)  b == t.item
  <2>1. Step(t) = (r * c) * b
    BY DEF Step
  <2> HIDE DEF c, b, r
  <2>2. c \in Nat /\ b \in Nat /\ r \in Nat
    BY <1>2 DEF c, b, r
  <2>3. (r * c) * b = r * (c * b) /\ c * b \in Nat
    BY <2>2, Products, ProductsNat
  <2> QED
    BY <2>1, <2>3 DEF c, b
<1>5. Rows(f, k, j, first, first + count - 1) =
          [i \in 1..((first + count - 1 - first + 1) * row) |->
              Start(f, k) + ((j - 1) * r + first) * row + i - 1]
  BY <1>1 DEF Rows
<1> HIDE DEF row, r, t
<1>6. first + count - 1 - first + 1 = count
  OBVIOUS
<1>7. ((j - 1) * r + first) * row = (j - 1) * Step(t) + first * row /\ first * row \in Int
      /\ (j - 1) * Step(t) \in Int /\ ((j - 1) * r + first) * row \in Int
  BY <1>2, <1>4, Products
<1>8. Start(f, k) + ((j - 1) * r + first) * row = Start(f, k) + (j - 1) * Step(t) + first * row
  BY <1>3, <1>7
<1> QED
  BY <1>5, <1>6, <1>8 DEF row, t

-----------------------------------------------------------------------------
(* An index of each layout.                                                *)

\* What the slices of the files fs may be.
BankSlots == {"gate", "up", "down"} \cup MlxSlots
SlicesIn(fs) == [file : DOMAIN fs, slot : BankSlots, offset : Nat, nbytes : Nat, rows : Nat, cols : Nat]

\* A slice is the matrix of expert j in its slot.
Own(f, j, s) ==
    /\ [i \in 1..s.nbytes |-> s.offset + i - 1] = Reference(f, j, s.slot)
    /\ s.nbytes % (s.rows * s.cols) = 0

\* What an index of a layer is that has just been built.
RightIndex(fs, slices) ==
    /\ \A j \in DOMAIN slices :
          /\ slices[j] \in Seq(SlicesIn(fs)) /\ slices[j] # <<>>
          /\ \A i, m \in DOMAIN slices[j] : slices[j][i].slot = slices[j][m].slot => i = m
          /\ \A i \in DOMAIN slices[j] : Own(fs[slices[j][i].file], j, slices[j][i])
    /\ Partitioned(fs, slices)

\* The places of an index whose experts have slices of one number.
LEMMA PlacesOf ==
    ASSUME NEW slices, NEW D, \A j \in DOMAIN slices : DOMAIN slices[j] = D
    PROVE  Places(slices) = (DOMAIN slices) \X D
BY DEF Places

\* A matrix has at least one element.
LEMMA Positive == \A a, b \in Nat \ {0} : a * b \in Nat \ {0}
OBVIOUS

\* A tensor that is part of an expert is found by its stem.
LEMMA AtLemma ==
    ASSUME NEW f, IsFile(f), NEW stem \in ExpertStems, Has(f, stem),
           \A k \in DOMAIN f.tensors : IsExpert(f.tensors[k]) => f.tensors[k].expert < 0
    PROVE  /\ At(f, stem) \in DOMAIN f.tensors /\ f.tensors[At(f, stem)].stem = stem
           /\ IsExpert(f.tensors[At(f, stem)]) /\ IsTensor(f.tensors[At(f, stem)])
           /\ f.tensors[At(f, stem)].expert = -1
           /\ \A k \in DOMAIN f.tensors : f.tensors[k].stem = stem => k = At(f, stem)
<1> DEFINE a == At(f, stem)
<1>1. a \in DOMAIN f.tensors /\ f.tensors[a].stem = stem
  BY DEF At, Has
<1>2. \A k \in DOMAIN f.tensors : f.tensors[k] \in Range(f.tensors) /\ IsTensor(f.tensors[k])
  BY DEF IsFile, TensorsOnce, Range
<1>3. ASSUME NEW k \in DOMAIN f.tensors, f.tensors[k].stem = stem
      PROVE  IsExpert(f.tensors[k]) /\ f.tensors[k].expert = -1
  <2>1. IsExpert(f.tensors[k])
    BY <1>2, <1>3 DEF IsTensor
  <2>2. f.tensors[k].expert < 0 /\ f.tensors[k].expert \in Int /\ f.tensors[k].expert >= -1
    BY <1>2, <2>1 DEF IsTensor
  <2> QED
    BY <2>1, <2>2
<1>4. ASSUME NEW k \in DOMAIN f.tensors, f.tensors[k].stem = stem PROVE k = a
  <2>1. IsExpert(f.tensors[k]) /\ IsExpert(f.tensors[a]) /\ f.tensors[k].expert = f.tensors[a].expert
    BY <1>1, <1>3, <1>4
  <2>2. SlotName(f.tensors[k]) = SlotName(f.tensors[a])
    BY <1>1, <1>4 DEF SlotName
  <2>3. f.tensors[k] = f.tensors[a]
    BY <1>1, <1>2, <2>1, <2>2 DEF IsFile, TensorsOnce
  <2> QED
    BY <1>1, <2>3 DEF IsFile, TensorsOnce, IsInjective
<1> QED
  BY <1>1, <1>2, <1>3, <1>4

\* The matrix of expert j in a tensor that is one for each of its steps.
LEMMA OwnStep ==
    ASSUME NEW f, IsFile(f), NEW k \in DOMAIN f.tensors, NEW j \in Int,
           IsExpert(f.tensors[k]), f.tensors[k].expert < 0
    PROVE  Rows(f, k, j, 0, NumRows(f.tensors[k]) - 1) =
               [i \in 1..Step(f.tensors[k]) |-> Start(f, k) + (j - 1) * Step(f.tensors[k]) + i - 1]
<1> DEFINE t == f.tensors[k]  row == NumCols(t) * t.item  r == NumRows(t)
<1>1. IsTensor(t) /\ Len(t.shape) = 3 /\ t.item \in Nat
  <2>1. IsTensor(t)
    BY DEF IsFile, TensorsOnce, Range
  <2> QED
    BY <2>1 DEF IsTensor
<1>2. r \in Nat /\ NumCols(t) \in Nat /\ t.item \in Nat /\ Step(t) \in Nat
  BY <1>1, TensorSize
<1>3. Step(t) = r * row /\ row \in Nat
  <2> DEFINE c == NumCols(t)  b == t.item
  <2>1. Step(t) = (r * c) * b
    BY DEF Step
  <2> HIDE DEF c, b, r
  <2>2. c \in Nat /\ b \in Nat /\ r \in Nat
    BY <1>2 DEF c, b, r
  <2>3. (r * c) * b = r * (c * b) /\ c * b \in Nat
    BY <2>2, Products, ProductsNat
  <2> QED
    BY <2>1, <2>3 DEF c, b
<1>4. Rows(f, k, j, 0, 0 + r - 1) =
          [i \in 1..(r * row) |-> Start(f, k) + (j - 1) * Step(t) + 0 * row + i - 1]
  BY <1>2, OwnRows
<1>5. 0 + r - 1 = r - 1 /\ 0 * row = 0 /\ Start(f, k) \in Int /\ (j - 1) * Step(t) \in Int
  BY <1>2, <1>3, StartLemma
<1> HIDE DEF r, row, t
<1>6. Rows(f, k, j, 0, r - 1) =
          [i \in 1..Step(t) |-> Start(f, k) + (j - 1) * Step(t) + 0 * row + i - 1]
  BY <1>3, <1>4, <1>5
<1>7. Start(f, k) + (j - 1) * Step(t) + 0 * row = Start(f, k) + (j - 1) * Step(t)
  BY <1>5
<1> QED
  BY <1>6, <1>7 DEF r, t

\* _stacked_slices() of gate_up_proj and down_proj: the halves of a block of the one,
\* and the block of the other.
LEMMA RightPair ==
    ASSUME NEW fs, NEW name \in DOMAIN fs, IsFile(fs[name]), OneLayout(fs[name].tensors),
           \A k \in DOMAIN fs[name].tensors :
               IsExpert(fs[name].tensors[k]) => fs[name].tensors[k].expert < 0,
           Has(fs[name], "gate_up_proj"), Has(fs[name], "down_proj")
    PROVE  RightIndex(fs, FusedPair(fs[name], name))
<1> DEFINE f == fs[name]
           g == At(f, "gate_up_proj")  d == At(f, "down_proj")
           gu == f.tensors[g]  dn == f.tensors[d]
           n == gu.shape[1]  H == gu.shape[3]  I == gu.shape[2] \div 2
           row == H * gu.item
           half == I * row
           ix == FusedPair(f, name)
<1>1. /\ g \in DOMAIN f.tensors /\ gu.stem = "gate_up_proj" /\ IsExpert(gu) /\ IsTensor(gu) /\ gu.expert = -1
      /\ d \in DOMAIN f.tensors /\ dn.stem = "down_proj" /\ IsExpert(dn) /\ IsTensor(dn) /\ dn.expert = -1
  <2>1. "gate_up_proj" \in ExpertStems /\ "down_proj" \in ExpertStems
    BY DEF ExpertStems, StackedStems
  <2> QED
    BY <2>1, AtLemma
<1>2. gu \in Range(f.tensors) /\ dn \in Range(f.tensors)
  BY <1>1 DEF Range
<1>3. /\ \A t \in Range(f.tensors) : IsExpert(t) => t.stem \in {"gate_up_proj", "down_proj"}
      /\ gu.shape[2] % 2 = 0 /\ dn.item = gu.item /\ dn.shape = <<n, H, I>>
  <2>1. ~(gu.expert >= 0) /\ gu.stem \notin {"w1", "w2", "w3"}
    BY <1>1
  <2> HIDE DEF f, g, d
  <2> QED
    BY <1>1, <1>2, <2>1 DEF OneLayout, f
<1>4. Len(gu.shape) = 3 /\ Len(dn.shape) = 3
  BY <1>1 DEF IsTensor
<1>5. /\ n \in Nat \ {0} /\ H \in Nat \ {0} /\ I \in Nat /\ gu.item \in Nat
      /\ gu.shape[2] \in Nat \ {0} /\ gu.shape[2] = 2 * I
      /\ NumRows(gu) = gu.shape[2] /\ NumCols(gu) = H /\ NBytes(gu) = n * Step(gu)
      /\ NBytes(dn) = dn.shape[1] * Step(dn) /\ NumRows(dn) = dn.shape[2] /\ NumCols(dn) = dn.shape[3]
  <2>1. /\ gu.shape[1] \in Nat \ {0} /\ NumRows(gu) = gu.shape[2] /\ NumCols(gu) = gu.shape[3]
        /\ NumRows(gu) \in Nat \ {0} /\ NumCols(gu) \in Nat \ {0}
        /\ NBytes(gu) = gu.shape[1] * Step(gu)
    BY <1>1, <1>4, TensorSize
  <2>2. NBytes(dn) = dn.shape[1] * Step(dn) /\ NumRows(dn) = dn.shape[2] /\ NumCols(dn) = dn.shape[3]
    BY <1>1, <1>4, TensorSize
  <2>3. gu.shape[2] = 2 * I /\ I \in Nat
    BY <1>3, <2>1, Halved
  <2>4. gu.item \in Nat
    BY <1>1 DEF IsTensor
  <2> QED
    BY <2>1, <2>2, <2>3, <2>4
<1>6. dn.shape[1] = n /\ dn.shape[2] = H /\ dn.shape[3] = I
  BY <1>3
<1>7. row \in Nat /\ half \in Nat /\ I \in Nat \ {0}
  <2>1. row \in Nat
    BY <1>5, ProductsNat
  <2>2. half \in Nat
    <3> HIDE DEF row, I
    <3> QED
      BY <1>5, <2>1, ProductsNat
  <2>3. I # 0
    <3>1. gu.shape[2] = 2 * I /\ gu.shape[2] # 0
      BY <1>5
    <3> HIDE DEF I
    <3> QED
      BY <3>1
  <2> QED
    BY <1>5, <2>1, <2>2, <2>3
<1>8. /\ Step(gu) = half + half /\ Step(gu) \div 2 = half /\ Step(gu) \in Nat
      /\ gu.shape[2] * H * gu.item = half + half /\ H * I * gu.item = half
      /\ Step(dn) = half /\ H * (I * gu.item) = half
  <2> DEFINE b == gu.item
  <2>1. Step(gu) = (2 * I) * H * b /\ Step(dn) = (H * I) * b
    BY <1>3, <1>5, <1>6 DEF Step
  <2> HIDE DEF I, H, b
  <2>2. I \in Nat /\ H \in Nat /\ b \in Nat
    BY <1>5 DEF b
  <2>3. (2 * I) * H * b = I * (H * b) + I * (H * b) /\ (H * I) * b = I * (H * b) /\ H * (I * b) = I * (H * b)
    BY <2>2, Products
  <2>4. row = H * b /\ half = I * (H * b)
    BY DEF b
  <2>5. (half + half) \div 2 = half
    BY <1>7
  <2>6. gu.shape[2] * H * b = Step(gu) /\ H * I * b = Step(dn)
    BY <1>5, <2>1
  <2>7. Step(gu) = half + half /\ Step(dn) = half /\ H * (I * b) = half
    BY <2>1, <2>3, <2>4
  <2> HIDE DEF row, half
  <2>8. half + half \in Nat /\ Step(gu) \in Nat /\ Step(gu) \div 2 = half
    BY <1>7, <2>5, <2>7
  <2> QED
    BY <2>6, <2>7, <2>8 DEF b
<1>9. Start(f, g) \in Nat /\ Start(f, d) \in Nat
  BY <1>1, StartLemma
<1>10. ix = [j \in 1..n |->
               <<Slice(name, "gate", Start(f, g) + (j - 1) * (half + half), half, I, H),
                 Slice(name, "up", Start(f, g) + (j - 1) * (half + half) + half, half, I, H),
                 Slice(name, "down", Start(f, d) + (j - 1) * half, half, H, I)>>]
  <2> DEFINE block == gu.shape[2] * H * gu.item
  <2>1. ix = [j \in 1..n |->
               <<Slice(name, "gate", Start(f, g) + (j - 1) * block, block \div 2, I, H),
                 Slice(name, "up", Start(f, g) + (j - 1) * block + block \div 2, block \div 2, I, H),
                 Slice(name, "down", Start(f, d) + (j - 1) * (H * I * gu.item), H * I * gu.item, H, I)>>]
    BY DEF FusedPair
  <2>2. (half + half) \div 2 = half
    BY <1>8, <1>7
  <2> HIDE DEF half, I, H, n, gu, ix, f, g, d
  <2> QED
    BY <1>8, <2>1, <2>2
<1>11. /\ \A j \in Int : Rows(f, g, j, 0, I - 1) =
              [i \in 1..half |-> Start(f, g) + (j - 1) * (half + half) + i - 1]
       /\ \A j \in Int : Rows(f, g, j, I, 2 * I - 1) =
              [i \in 1..half |-> Start(f, g) + (j - 1) * (half + half) + half + i - 1]
       /\ \A j \in Int : Rows(f, d, j, 0, H - 1) =
              [i \in 1..half |-> Start(f, d) + (j - 1) * half + i - 1]
  <2>1. SUFFICES ASSUME NEW j \in Int
                 PROVE  /\ Rows(f, g, j, 0, I - 1) =
                               [i \in 1..half |-> Start(f, g) + (j - 1) * (half + half) + i - 1]
                        /\ Rows(f, g, j, I, 2 * I - 1) =
                               [i \in 1..half |-> Start(f, g) + (j - 1) * (half + half) + half + i - 1]
                        /\ Rows(f, d, j, 0, H - 1) =
                               [i \in 1..half |-> Start(f, d) + (j - 1) * half + i - 1]
    OBVIOUS
  <2>2. IsFile(f)
    OBVIOUS
  <2>3. gu.expert < 0 /\ dn.expert < 0
    BY <1>1
  <2>4. ASSUME NEW a \in Nat
        PROVE  Rows(f, g, j, a, a + I - 1) =
                   [i \in 1..(I * (NumCols(gu) * gu.item)) |->
                       Start(f, g) + (j - 1) * Step(gu) + a * (NumCols(gu) * gu.item) + i - 1]
    <3>1. I \in Nat
      BY <1>5
    <3>2. g \in DOMAIN f.tensors /\ IsExpert(f.tensors[g]) /\ f.tensors[g].expert < 0
      BY <1>1, <2>3
    <3> HIDE DEF f, g, d, I, H, row, half, n, ix
    <3> QED
      BY <2>2, <3>1, <3>2, OwnRows
  <2>5. /\ Rows(f, g, j, 0, 0 + I - 1) =
                [i \in 1..(I * (NumCols(gu) * gu.item)) |->
                    Start(f, g) + (j - 1) * Step(gu) + 0 * (NumCols(gu) * gu.item) + i - 1]
        /\ Rows(f, g, j, I, I + I - 1) =
                [i \in 1..(I * (NumCols(gu) * gu.item)) |->
                    Start(f, g) + (j - 1) * Step(gu) + I * (NumCols(gu) * gu.item) + i - 1]
    <3>1. I \in Nat /\ 0 \in Nat
      BY <1>5
    <3> HIDE DEF f, g, d, I, H, row, half, n, ix, gu
    <3> QED
      BY <2>4, <3>1
  <2>6. Rows(f, d, j, 0, NumRows(dn) - 1) =
            [i \in 1..Step(dn) |-> Start(f, d) + (j - 1) * Step(dn) + i - 1]
    BY <1>1, <2>3, OwnStep
  <2>7. /\ NumCols(gu) * gu.item = row /\ I * row = half /\ 0 * row = 0
        /\ 0 + I - 1 = I - 1 /\ I + I - 1 = 2 * I - 1 /\ NumRows(dn) = H
        /\ Step(gu) = half + half /\ Step(dn) = half
    <3>1. NumCols(gu) * gu.item = row /\ NumRows(dn) = H
      BY <1>5, <1>6
    <3>2. I * row = half /\ Step(gu) = half + half /\ Step(dn) = half
      BY <1>8
    <3>3. row \in Nat /\ I \in Nat
      BY <1>7
    <3> HIDE DEF half, row, I, H, gu, dn, f, g, d
    <3> QED
      BY <3>1, <3>2, <3>3
  <2>8. (j - 1) * (half + half) \in Int
    BY <1>7, Products
  <2> HIDE DEF half, row, I, H, gu, dn, f, g, d
  <2>9. Start(f, g) + (j - 1) * (half + half) + 0 = Start(f, g) + (j - 1) * (half + half)
    BY <1>9, <2>8
  <2>10. Rows(f, g, j, 0, I - 1) = [i \in 1..half |-> Start(f, g) + (j - 1) * (half + half) + i - 1]
    BY <2>5, <2>7, <2>9
  <2> QED
    BY <2>5, <2>6, <2>7, <2>10
<1>12. Has(f, "gate_up_proj")
  OBVIOUS
<1>13. IsFile(f) /\ NBytes(gu) = n * (half + half) /\ NBytes(dn) = n * half /\ g # d
  BY <1>1, <1>5, <1>6, <1>8
<1>14. \A k \in DOMAIN f.tensors : IsExpert(f.tensors[k]) => k = g \/ k = d
  <2>1. \A k \in DOMAIN f.tensors : f.tensors[k] \in Range(f.tensors)
    BY DEF Range
  <2>2. "gate_up_proj" \in ExpertStems /\ "down_proj" \in ExpertStems
    BY DEF ExpertStems, StackedStems
  <2> QED
    BY <1>3, <2>1, <2>2, AtLemma
<1>15. \A j \in Int : /\ Reference(f, j, "gate") = Rows(f, g, j, 0, I - 1)
                      /\ Reference(f, j, "up") = Rows(f, g, j, I, 2 * I - 1)
                      /\ Reference(f, j, "down") = Rows(f, d, j, 0, H - 1)
  BY <1>12 DEF Reference
<1>16. half = I * H * gu.item /\ half = H * I * gu.item
  <2> DEFINE b == gu.item
  <2>1. I \in Nat /\ H \in Nat /\ b \in Nat
    BY <1>5
  <2> HIDE DEF I, H, b
  <2>2. I * (H * b) = I * H * b /\ I * (H * b) = H * I * b
    BY <2>1, Products
  <2> QED
    BY <2>2 DEF b
<1>17. half % (I * H) = 0 /\ half % (H * I) = 0
  <2>1. I * H \in Nat \ {0} /\ H * I \in Nat \ {0} /\ gu.item \in Nat
    BY <1>5, <1>7, Positive
  <2> HIDE DEF half, I, H, gu
  <2> QED
    BY <1>16, <2>1, NoRest
<1> HIDE DEF half, row, I, H, gu, dn, ix, g, d, n
<1> DEFINE S1(j) == Slice(name, "gate", Start(f, g) + (j - 1) * (half + half), half, I, H)
           S2(j) == Slice(name, "up", Start(f, g) + (j - 1) * (half + half) + half, half, I, H)
           S3(j) == Slice(name, "down", Start(f, d) + (j - 1) * half, half, H, I)
<1>18. /\ half + half \in Nat
       /\ \A j \in 1..n : (j - 1) * (half + half) \in Nat /\ (j - 1) * half \in Nat
  <2>1. half + half \in Nat
    BY <1>7
  <2>2. \A j \in 1..n : j - 1 \in Nat
    BY <1>5
  <2> QED
    BY <1>7, <2>1, <2>2, ProductsNat
<1>19. ASSUME NEW j \in 1..n
       PROVE  /\ S1(j) \in SlicesIn(fs) /\ S1(j).file = name /\ S1(j).slot = "gate" /\ S1(j).nbytes = half
              /\ S1(j).offset = Start(f, g) + (j - 1) * (half + half) /\ S1(j).rows = I /\ S1(j).cols = H
              /\ S2(j) \in SlicesIn(fs) /\ S2(j).file = name /\ S2(j).slot = "up" /\ S2(j).nbytes = half
              /\ S2(j).offset = Start(f, g) + (j - 1) * (half + half) + half /\ S2(j).rows = I /\ S2(j).cols = H
              /\ S3(j) \in SlicesIn(fs) /\ S3(j).file = name /\ S3(j).slot = "down" /\ S3(j).nbytes = half
              /\ S3(j).offset = Start(f, d) + (j - 1) * half /\ S3(j).rows = H /\ S3(j).cols = I
  <2>1. /\ Start(f, g) + (j - 1) * (half + half) \in Nat
        /\ Start(f, g) + (j - 1) * (half + half) + half \in Nat
        /\ Start(f, d) + (j - 1) * half \in Nat
    BY <1>7, <1>9, <1>18
  <2>2. I \in Nat /\ H \in Nat /\ half \in Nat
    BY <1>5, <1>7
  <2>3. "gate" \in BankSlots /\ "up" \in BankSlots /\ "down" \in BankSlots
    BY DEF BankSlots
  <2> HIDE DEF f
  <2>4. /\ S1(j) \in SlicesIn(fs) /\ S1(j).file = name /\ S1(j).slot = "gate" /\ S1(j).nbytes = half
        /\ S1(j).offset = Start(f, g) + (j - 1) * (half + half) /\ S1(j).rows = I /\ S1(j).cols = H
    BY <2>1, <2>2, <2>3 DEF Slice, SlicesIn
  <2>5. /\ S2(j) \in SlicesIn(fs) /\ S2(j).file = name /\ S2(j).slot = "up" /\ S2(j).nbytes = half
        /\ S2(j).offset = Start(f, g) + (j - 1) * (half + half) + half /\ S2(j).rows = I /\ S2(j).cols = H
    BY <2>1, <2>2, <2>3 DEF Slice, SlicesIn
  <2>6. /\ S3(j) \in SlicesIn(fs) /\ S3(j).file = name /\ S3(j).slot = "down" /\ S3(j).nbytes = half
        /\ S3(j).offset = Start(f, d) + (j - 1) * half /\ S3(j).rows = H /\ S3(j).cols = I
    BY <2>1, <2>2, <2>3 DEF Slice, SlicesIn
  <2> QED
    BY <2>4, <2>5, <2>6
<1>20. DOMAIN ix = 1..n /\ \A j \in 1..n : ix[j] = <<S1(j), S2(j), S3(j)>>
  BY <1>10
<1> HIDE DEF S1, S2, S3, f
<1>21. ASSUME NEW j \in 1..n
       PROVE  /\ DOMAIN ix[j] = 1..3 /\ ix[j] \in Seq(SlicesIn(fs)) /\ ix[j] # <<>>
              /\ ix[j][1] = S1(j) /\ ix[j][2] = S2(j) /\ ix[j][3] = S3(j)
  <2>1. S1(j) \in SlicesIn(fs) /\ S2(j) \in SlicesIn(fs) /\ S3(j) \in SlicesIn(fs)
    BY <1>19
  <2>2. ix[j] = <<S1(j), S2(j), S3(j)>>
    BY <1>20
  <2> QED
    BY <2>1, <2>2
<1>22. ASSUME NEW j \in 1..n, NEW i \in 1..3, NEW m \in 1..3, ix[j][i].slot = ix[j][m].slot PROVE i = m
  BY <1>19, <1>21, <1>22
<1>23. ASSUME NEW j \in 1..n, NEW i \in 1..3 PROVE Own(fs[ix[j][i].file], j, ix[j][i])
  <2>1. fs[name] = f
    BY DEF f
  <2>2. j \in Int
    BY <1>5
  <2>3. /\ Reference(f, j, "gate") = [x \in 1..half |-> Start(f, g) + (j - 1) * (half + half) + x - 1]
        /\ Reference(f, j, "up") = [x \in 1..half |-> Start(f, g) + (j - 1) * (half + half) + half + x - 1]
        /\ Reference(f, j, "down") = [x \in 1..half |-> Start(f, d) + (j - 1) * half + x - 1]
    BY <1>11, <1>15, <2>2
  <2>4. Own(f, j, S1(j))
    BY <1>17, <1>19, <2>3 DEF Own
  <2>5. Own(f, j, S2(j))
    BY <1>17, <1>19, <2>3 DEF Own
  <2>6. Own(f, j, S3(j))
    BY <1>17, <1>19, <2>3 DEF Own
  <2> QED
    BY <1>19, <1>21, <2>1, <2>4, <2>5, <2>6
<1>24. Places(ix) = (1..n) \X (1..3)
  <2>1. DOMAIN ix = 1..n
    BY <1>20
  <2>2. \A j \in 1..n : DOMAIN ix[j] = 1..3
    BY <1>21
  <2> QED
    BY <2>1, <2>2, PlacesOf
<1>25. FilesOf(ix) \subseteq {name}
  BY <1>19, <1>21, <1>24 DEF FilesOf
<1> DEFINE where == [p \in Places(ix) |-> IF p[2] = 3 THEN d ELSE g]
           from == [p \in Places(ix) |-> IF p[2] = 1 THEN (p[1] - 1) * (half + half)
                                       ELSE IF p[2] = 2 THEN (p[1] - 1) * (half + half) + half
                                       ELSE (p[1] - 1) * half]
<1>26. ASSUME NEW j \in 1..n
       PROVE  /\ where[<<j, 1>>] = g /\ where[<<j, 2>>] = g /\ where[<<j, 3>>] = d
              /\ from[<<j, 1>>] = (j - 1) * (half + half) /\ from[<<j, 2>>] = (j - 1) * (half + half) + half
              /\ from[<<j, 3>>] = (j - 1) * half
              /\ <<j, 1>> \in Places(ix) /\ <<j, 2>> \in Places(ix) /\ <<j, 3>> \in Places(ix)
  <2>1. <<j, 1>> \in Places(ix) /\ <<j, 2>> \in Places(ix) /\ <<j, 3>> \in Places(ix)
    BY <1>24
  <2> QED
    BY <2>1
<1> HIDE DEF where, from
<1>27. n \in Nat /\ half \in Nat /\ half + half \in Nat
  BY <1>5, <1>7
<1>28. /\ \A j \in Int : 1 <= j /\ j <= n => /\ (j - 1) * (half + half) \in Nat
                                            /\ (j - 1) * (half + half) + (half + half) <= n * (half + half)
                                            /\ (j - 1) * half \in Nat /\ (j - 1) * half + half <= n * half
       /\ \A i, j \in Int : 1 <= i /\ i < j =>
             /\ (i - 1) * (half + half) + (half + half) <= (j - 1) * (half + half)
             /\ (i - 1) * half + half <= (j - 1) * half
       /\ \A x \in Nat : x < n * (half + half) =>
             \E j \in Int : /\ 1 <= j /\ j <= n /\ (j - 1) * (half + half) <= x
                            /\ x < (j - 1) * (half + half) + (half + half)
       /\ \A x \in Nat : x < n * half =>
             \E j \in Int : 1 <= j /\ j <= n /\ (j - 1) * half <= x /\ x < (j - 1) * half + half
  <2> DEFINE w == half + half
  <2> HIDE DEF w
  <2>1. w \in Nat
    BY <1>27 DEF w
  <2>2. /\ \A j \in Int : 1 <= j /\ j <= n => (j - 1) * w \in Nat /\ (j - 1) * w + w <= n * w
        /\ \A i, j \in Int : 1 <= i /\ i < j => (i - 1) * w + w <= (j - 1) * w
        /\ \A x \in Nat : x < n * w => \E j \in Int : 1 <= j /\ j <= n /\ (j - 1) * w <= x /\ x < (j - 1) * w + w
    BY <1>27, <2>1, Blocks
  <2>3. /\ \A j \in Int : 1 <= j /\ j <= n => (j - 1) * half \in Nat /\ (j - 1) * half + half <= n * half
        /\ \A i, j \in Int : 1 <= i /\ i < j => (i - 1) * half + half <= (j - 1) * half
        /\ \A x \in Nat : x < n * half => \E j \in Int : 1 <= j /\ j <= n /\ (j - 1) * half <= x /\ x < (j - 1) * half + half
    BY <1>27, Blocks
  <2> QED
    BY <2>2, <2>3 DEF w
<1>29. \A p \in Places(ix) : \E j \in 1..n : p = <<j, 1>> \/ p = <<j, 2>> \/ p = <<j, 3>>
  BY <1>24
<1>30. Lies(fs, ix, where, from)
  <2>1. SUFFICES ASSUME NEW p \in Places(ix)
                 PROVE  LET s == ix[p[1]][p[2]]  ts == fs[s.file].tensors
                        IN  /\ where[p] \in DOMAIN ts /\ IsExpert(ts[where[p]])
                            /\ from[p] \in Nat /\ s.nbytes \in Nat /\ from[p] + s.nbytes <= NBytes(ts[where[p]])
                            /\ s.offset = Start(fs[s.file], where[p]) + from[p]
    BY DEF Lies
  <2>2. PICK j \in 1..n : p = <<j, 1>> \/ p = <<j, 2>> \/ p = <<j, 3>>
    BY <1>29
  <2>3. fs[name] = f /\ g \in DOMAIN f.tensors /\ d \in DOMAIN f.tensors
        /\ IsExpert(f.tensors[g]) /\ IsExpert(f.tensors[d])
    BY <1>1 DEF f, gu, dn
  <2>4. NBytes(f.tensors[g]) = n * (half + half) /\ NBytes(f.tensors[d]) = n * half
    BY <1>13 DEF gu, dn
  <2>5. /\ (j - 1) * (half + half) \in Nat /\ (j - 1) * (half + half) + half \in Nat
        /\ (j - 1) * half \in Nat
        /\ (j - 1) * (half + half) + half <= n * (half + half)
        /\ (j - 1) * (half + half) + half + half <= n * (half + half)
        /\ (j - 1) * half + half <= n * half
    <3>1. j \in Int /\ 1 <= j /\ j <= n
      BY <1>27
    <3>2. n * (half + half) \in Int /\ n * half \in Int
      BY <1>27, Products
    <3> QED
      BY <1>27, <1>28, <3>1, <3>2
  <2>6. CASE p = <<j, 1>>
    <3>1. ix[p[1]][p[2]] = S1(j) /\ where[p] = g /\ from[p] = (j - 1) * (half + half)
      BY <1>21, <1>26, <2>6
    <3> QED
      BY <1>19, <1>27, <2>3, <2>4, <2>5, <3>1
  <2>7. CASE p = <<j, 2>>
    <3>1. ix[p[1]][p[2]] = S2(j) /\ where[p] = g /\ from[p] = (j - 1) * (half + half) + half
      BY <1>21, <1>26, <2>7
    <3>2. Start(f, g) + (j - 1) * (half + half) + half = Start(f, g) + ((j - 1) * (half + half) + half)
      BY <1>9, <1>27, <2>5
    <3> QED
      BY <1>19, <1>27, <2>3, <2>4, <2>5, <3>1, <3>2
  <2>8. CASE p = <<j, 3>>
    <3>1. ix[p[1]][p[2]] = S3(j) /\ where[p] = d /\ from[p] = (j - 1) * half
      BY <1>21, <1>26, <2>8
    <3> QED
      BY <1>19, <1>27, <2>3, <2>4, <2>5, <3>1
  <2> QED
    BY <2>2, <2>6, <2>7, <2>8
<1> DEFINE w == half + half
<1>31. ASSUME NEW j \in 1..n
       PROVE  /\ (j - 1) * w <= from[<<j, 1>>] /\ from[<<j, 1>>] + half <= from[<<j, 2>>]
              /\ from[<<j, 2>>] + half <= (j - 1) * w + w
              /\ from[<<j, 1>>] \in Int /\ from[<<j, 2>>] \in Int /\ from[<<j, 3>>] \in Int
  <2>1. (j - 1) * w \in Int /\ (j - 1) * half \in Int
    BY <1>18
  <2>2. /\ from[<<j, 1>>] = (j - 1) * w /\ from[<<j, 2>>] = (j - 1) * w + half
        /\ from[<<j, 3>>] = (j - 1) * half
    BY <1>26
  <2>3. w = half + half /\ half \in Int
    BY <1>27
  <2> HIDE DEF w
  <2> QED
    BY <2>1, <2>2, <2>3
<1>32. ASSUME NEW i \in 1..n, NEW j \in 1..n, i < j
       PROVE  /\ (i - 1) * w + w <= (j - 1) * w /\ (i - 1) * w + w \in Int /\ (j - 1) * w \in Int
              /\ (i - 1) * half + half <= (j - 1) * half
  <2>1. i \in Int /\ j \in Int /\ 1 <= i
    BY <1>27
  <2>2. (i - 1) * w \in Int /\ (j - 1) * w \in Int /\ w \in Int
    BY <1>18
  <2> QED
    BY <1>28, <1>32, <2>1, <2>2
<1> HIDE DEF w
<1>33. \A j \in 1..n : where[<<j, 1>>] = g /\ where[<<j, 2>>] = g /\ where[<<j, 3>>] = d
  BY <1>26
<1>34. Apart(ix, where, from)
  <2>1. SUFFICES ASSUME NEW p \in Places(ix), NEW q \in Places(ix), p # q, where[p] = where[q]
                 PROVE  from[p] + half <= from[q] \/ from[q] + half <= from[p]
    <3>1. \A p \in Places(ix) : ix[p[1]][p[2]].nbytes = half
      <4>1. SUFFICES ASSUME NEW p \in Places(ix) PROVE ix[p[1]][p[2]].nbytes = half
        OBVIOUS
      <4>2. PICK j \in 1..n : p = <<j, 1>> \/ p = <<j, 2>> \/ p = <<j, 3>>
        BY <1>29
      <4> QED
        BY <1>19, <1>21, <4>2
    <3> QED
      BY <3>1 DEF Apart
  <2>2. PICK i \in 1..n : p = <<i, 1>> \/ p = <<i, 2>> \/ p = <<i, 3>>
    BY <1>29
  <2>3. PICK j \in 1..n : q = <<j, 1>> \/ q = <<j, 2>> \/ q = <<j, 3>>
    BY <1>29
  <2>4. p = <<i, 3>> <=> q = <<j, 3>>
    <3>1. g # d
      BY <1>13
    <3>2. where[p] = d <=> p = <<i, 3>>
      <4>1. where[<<i, 1>>] = g /\ where[<<i, 2>>] = g /\ where[<<i, 3>>] = d
        BY <1>33
      <4>2. p = <<i, 1>> \/ p = <<i, 2>> => p # <<i, 3>>
        OBVIOUS
      <4> QED
        BY <2>2, <3>1, <4>1, <4>2
    <3>3. where[q] = d <=> q = <<j, 3>>
      <4>1. where[<<j, 1>>] = g /\ where[<<j, 2>>] = g /\ where[<<j, 3>>] = d
        BY <1>33
      <4>2. q = <<j, 1>> \/ q = <<j, 2>> => q # <<j, 3>>
        OBVIOUS
      <4> QED
        BY <2>3, <3>1, <4>1, <4>2
    <3> QED
      BY <2>1, <3>2, <3>3
  <2>5. half \in Nat /\ i \in Int /\ j \in Int
    BY <1>27
  <2>6. CASE p = <<i, 3>>
    <3>1. from[p] = (i - 1) * half /\ from[q] = (j - 1) * half /\ i # j
      BY <1>26, <2>1, <2>4, <2>6
    <3>2. i < j \/ j < i
      BY <2>5, <3>1
    <3> QED
      BY <1>32, <3>1, <3>2
  <2>7. CASE p # <<i, 3>> /\ i = j
    BY <1>31, <2>1, <2>2, <2>3, <2>4, <2>7
  <2>8. CASE p # <<i, 3>> /\ i # j
    <3>1. /\ (i - 1) * w <= from[p] /\ from[p] + half <= (i - 1) * w + w /\ from[p] \in Int
          /\ (j - 1) * w <= from[q] /\ from[q] + half <= (j - 1) * w + w /\ from[q] \in Int
      <4>1. \A k \in 1..n : (k - 1) * w \in Int /\ (k - 1) * w + w \in Int
        <5>1. w \in Int
          BY <1>27 DEF w
        <5> QED
          BY <1>18, <5>1 DEF w
      <4>2. \A k \in 1..n : /\ (k - 1) * w <= from[<<k, 1>>] /\ from[<<k, 1>>] + half <= (k - 1) * w + w
                            /\ (k - 1) * w <= from[<<k, 2>>] /\ from[<<k, 2>>] + half <= (k - 1) * w + w
                            /\ from[<<k, 1>>] \in Int /\ from[<<k, 2>>] \in Int
        <5>1. SUFFICES ASSUME NEW k \in 1..n
                       PROVE  /\ (k - 1) * w <= from[<<k, 1>>] /\ from[<<k, 1>>] + half <= (k - 1) * w + w
                              /\ (k - 1) * w <= from[<<k, 2>>] /\ from[<<k, 2>>] + half <= (k - 1) * w + w
                              /\ from[<<k, 1>>] \in Int /\ from[<<k, 2>>] \in Int
          OBVIOUS
        <5>2. (k - 1) * w \in Int /\ (k - 1) * w + w \in Int
          BY <4>1
        <5>3. /\ (k - 1) * w <= from[<<k, 1>>] /\ from[<<k, 1>>] + half <= from[<<k, 2>>]
              /\ from[<<k, 2>>] + half <= (k - 1) * w + w
              /\ from[<<k, 1>>] \in Int /\ from[<<k, 2>>] \in Int
          BY <1>31
        <5> QED
          BY <2>5, <5>2, <5>3
      <4> QED
        BY <2>2, <2>3, <2>4, <2>8, <4>2
    <3>2. CASE i < j
      BY <1>32, <2>5, <3>1, <3>2
    <3>3. CASE j < i
      BY <1>32, <2>5, <3>1, <3>3
    <3> QED
      BY <2>5, <2>8, <3>2, <3>3
  <2> QED
    BY <2>6, <2>7, <2>8
<1>35. FilledUp(fs, ix, where, from)
  <2>1. SUFFICES ASSUME NEW k \in DOMAIN f.tensors, IsExpert(f.tensors[k]),
                        NEW x \in Nat, x < NBytes(f.tensors[k])
                 PROVE  \E p \in Places(ix) :
                            LET s == ix[p[1]][p[2]]
                            IN  s.file = name /\ where[p] = k /\ from[p] <= x /\ x < from[p] + s.nbytes
    BY <1>25 DEF FilledUp, f
  <2>2. k = g \/ k = d
    BY <1>14, <2>1
  <2>3. NBytes(f.tensors[g]) = n * w /\ NBytes(f.tensors[d]) = n * half
    BY <1>13 DEF gu, dn, w
  <2>4. CASE k = d
    <3>1. PICK j \in Int : 1 <= j /\ j <= n /\ (j - 1) * half <= x /\ x < (j - 1) * half + half
      BY <1>28, <2>1, <2>3, <2>4
    <3>2. j \in 1..n
      BY <3>1
    <3>3. /\ <<j, 3>> \in Places(ix) /\ where[<<j, 3>>] = k /\ from[<<j, 3>>] = (j - 1) * half
          /\ ix[j][3].file = name /\ ix[j][3].nbytes = half
      <4>1. ix[j][3] = S3(j)
        BY <1>21, <3>2
      <4>2. S3(j).file = name /\ S3(j).nbytes = half
        BY <1>19, <3>2
      <4> QED
        BY <1>26, <2>4, <3>2, <4>1, <4>2
    <3> QED
      BY <3>1, <3>3
  <2>5. CASE k = g
    <3>1. PICK j \in Int : 1 <= j /\ j <= n /\ (j - 1) * w <= x /\ x < (j - 1) * w + w
      BY <1>28, <2>1, <2>3, <2>5 DEF w
    <3>2. j \in 1..n
      BY <3>1
    <3>3. /\ <<j, 1>> \in Places(ix) /\ where[<<j, 1>>] = k /\ from[<<j, 1>>] = (j - 1) * w
          /\ ix[j][1].file = name /\ ix[j][1].nbytes = half
          /\ <<j, 2>> \in Places(ix) /\ where[<<j, 2>>] = k /\ from[<<j, 2>>] = (j - 1) * w + half
          /\ ix[j][2].file = name /\ ix[j][2].nbytes = half
      <4>1. ix[j][1] = S1(j) /\ ix[j][2] = S2(j)
        BY <1>21, <3>2
      <4>2. S1(j).file = name /\ S1(j).nbytes = half /\ S2(j).file = name /\ S2(j).nbytes = half
        BY <1>19, <3>2
      <4> QED
        BY <1>26, <2>5, <3>2, <4>1, <4>2 DEF w
    <3>4. w = half + half /\ half \in Nat /\ (j - 1) * w \in Int
      BY <1>18, <1>27, <3>2 DEF w
    <3>5. CASE x < (j - 1) * w + half
      <4> QED
        BY <3>1, <3>3, <3>5
    <3>6. CASE (j - 1) * w + half <= x
      <4>1. x < (j - 1) * w + half + half
        <5> DEFINE u == (j - 1) * w
        <5>1. x < u + w /\ u \in Int /\ w = half + half /\ half \in Nat
          BY <3>1, <3>4
        <5>2. x < u + half + half
          <6> HIDE DEF u
          <6> QED
            BY <5>1
        <5> QED
          BY <5>2
      <4> QED
        BY <3>3, <3>6, <4>1
    <3> QED
      BY <3>4, <3>5, <3>6
  <2> QED
    BY <2>2, <2>4, <2>5
<1>36. Partitioned(fs, ix)
  <2>1. \A m \in FilesOf(ix) : IsFile(fs[m])
    BY <1>13, <1>25 DEF f
  <2> QED
    BY <1>30, <1>34, <1>35, <2>1, Tiles
<1>37. RightIndex(fs, ix)
  <2>1. \A j \in DOMAIN ix : DOMAIN ix[j] = 1..3
    BY <1>20, <1>21
  <2> QED
    BY <1>20, <1>21, <1>22, <1>23, <1>36, <2>1 DEF RightIndex
<1> QED
  BY <1>37 DEF ix, f

\* A projection that is a tensor of its own is found by expert and slot.
LEMMA ReferenceLemma ==
    ASSUME NEW f, IsFile(f), NEW k \in DOMAIN f.tensors, NEW j \in Int,
           IsExpert(f.tensors[k]), f.tensors[k].expert \in {-1, j - 1}, ~Has(f, "gate_up_proj"),
           \A m \in DOMAIN f.tensors : IsExpert(f.tensors[m]) =>
               (f.tensors[m].expert < 0 <=> f.tensors[k].expert < 0)
    PROVE  Reference(f, j, SlotName(f.tensors[k])) = Rows(f, k, j, 0, NumRows(f.tensors[k]) - 1)
<1> DEFINE Fits(m) == /\ IsExpert(f.tensors[m]) /\ f.tensors[m].expert \in {-1, j - 1}
                      /\ SlotName(f.tensors[k]) = SlotName(f.tensors[m])
           c == CHOOSE m \in DOMAIN f.tensors : Fits(m)
<1>1. Fits(k)
  OBVIOUS
<1>2. c \in DOMAIN f.tensors /\ Fits(c)
  BY <1>1
<1>3. \A m \in DOMAIN f.tensors : f.tensors[m] \in Range(f.tensors) /\ IsTensor(f.tensors[m])
  BY DEF IsFile, TensorsOnce, Range
<1>4. f.tensors[c].expert \in Int /\ f.tensors[c].expert >= -1
  BY <1>2, <1>3 DEF IsTensor
<1>5. f.tensors[k].expert \in Int /\ f.tensors[k].expert >= -1
  BY <1>3 DEF IsTensor
<1>6. f.tensors[c].expert = f.tensors[k].expert
  <2>1. f.tensors[c].expert < 0 <=> f.tensors[k].expert < 0
    BY <1>2
  <2>2. f.tensors[c].expert \in {-1, j - 1} /\ f.tensors[k].expert \in {-1, j - 1}
    BY <1>2
  <2> HIDE DEF c
  <2> QED
    BY <1>4, <1>5, <2>1, <2>2
<1>7. f.tensors[c] = f.tensors[k]
  BY <1>2, <1>3, <1>6 DEF IsFile, TensorsOnce
<1>8. c = k
  BY <1>2, <1>7 DEF IsFile, TensorsOnce, IsInjective
<1>9. Reference(f, j, SlotName(f.tensors[k])) = Rows(f, c, j, 0, NumRows(f.tensors[c]) - 1)
  BY DEF Reference
<1> QED
  BY <1>8, <1>9

\* An index of tensors that are each one matrix for each of n experts: tensor i is
\* number w[i][2] of file w[i][1].
StackIndex(fs, w, n, rows, cols) ==
    [j \in 1..n |-> [i \in DOMAIN w |->
        LET f == fs[w[i][1]]  t == f.tensors[w[i][2]]
        IN  Slice(w[i][1], SlotName(t), Start(f, w[i][2]) + (j - 1) * Step(t), Step(t), rows[i], cols[i])]]

\* They are all the expert tensors of their files, and no two are one projection.
Stack(fs, w, m, n, rows, cols) ==
    /\ n \in Nat \ {0} /\ m \in Nat \ {0} /\ DOMAIN w = 1..m
    /\ \A i \in 1..m :
          LET f == fs[w[i][1]]  t == f.tensors[w[i][2]]
          IN  /\ w[i] = <<w[i][1], w[i][2]>> /\ w[i][1] \in DOMAIN fs
              /\ IsFile(f) /\ ~Has(f, "gate_up_proj") /\ w[i][2] \in DOMAIN f.tensors
              /\ IsExpert(t) /\ t.expert < 0 /\ SlotName(t) \in BankSlots /\ t.shape[1] = n
              /\ rows[i] \in Nat \ {0} /\ cols[i] \in Nat \ {0}
              /\ Step(t) = rows[i] * cols[i] * t.item
              /\ \A k \in DOMAIN f.tensors :
                    IsExpert(f.tensors[k]) => \E h \in 1..m : w[h] = <<w[i][1], k>>
    /\ \A h, i \in 1..m :
          h # i => /\ w[h] # w[i]
                   /\ SlotName(fs[w[h][1]].tensors[w[h][2]]) # SlotName(fs[w[i][1]].tensors[w[i][2]])

\* A tensor of a file.
LEMMA FileTensor ==
    ASSUME NEW f, IsFile(f), NEW k \in DOMAIN f.tensors
    PROVE  f.tensors[k] \in Range(f.tensors) /\ IsTensor(f.tensors[k]) /\ k \in Int
BY DEF IsFile, TensorsOnce, Range

\* Such an index is right: block j of each tensor is the matrix of expert j.
LEMMA RightStack ==
    ASSUME NEW fs, NEW m, NEW n, NEW w, NEW rows, NEW cols, Stack(fs, w, m, n, rows, cols)
    PROVE  RightIndex(fs, StackIndex(fs, w, n, rows, cols))
<1> DEFINE ix == StackIndex(fs, w, n, rows, cols)
           f(i) == fs[w[i][1]]
           t(i) == f(i).tensors[w[i][2]]
           N(i) == Step(t(i))
           S(j, i) == Slice(w[i][1], SlotName(t(i)), Start(f(i), w[i][2]) + (j - 1) * N(i), N(i), rows[i], cols[i])
<1>1. n \in Nat \ {0} /\ m \in Nat \ {0} /\ DOMAIN w = 1..m
  BY DEF Stack
<1>2. ASSUME NEW i \in 1..m
      PROVE  /\ IsFile(f(i)) /\ w[i][2] \in DOMAIN f(i).tensors /\ w[i][1] \in DOMAIN fs
             /\ IsExpert(t(i)) /\ t(i).expert = -1 /\ SlotName(t(i)) \in BankSlots
             /\ Start(f(i), w[i][2]) \in Nat /\ N(i) \in Nat /\ NBytes(t(i)) = n * N(i)
             /\ rows[i] \in Nat \ {0} /\ cols[i] \in Nat \ {0} /\ N(i) % (rows[i] * cols[i]) = 0
  <2>1. /\ IsFile(f(i)) /\ w[i][2] \in DOMAIN f(i).tensors /\ w[i][1] \in DOMAIN fs
        /\ IsExpert(t(i)) /\ t(i).expert < 0 /\ SlotName(t(i)) \in BankSlots
        /\ t(i).shape[1] = n /\ N(i) = rows[i] * cols[i] * t(i).item
        /\ rows[i] \in Nat \ {0} /\ cols[i] \in Nat \ {0}
    BY DEF Stack
  <2>2. IsTensor(t(i))
    BY <2>1, FileTensor
  <2>3. Start(f(i), w[i][2]) \in Nat
    BY <2>1, StartLemma
  <2> HIDE DEF f, t
  <2>4. Len(t(i).shape) = 3 /\ t(i).expert \in Int /\ t(i).expert >= -1 /\ t(i).item \in Nat
    BY <2>1, <2>2 DEF IsTensor
  <2>5. NBytes(t(i)) = t(i).shape[1] * Step(t(i)) /\ Step(t(i)) \in Nat
    BY <2>2, <2>4, TensorSize
  <2>6. t(i).expert = -1
    BY <2>1, <2>4
  <2>7. N(i) % (rows[i] * cols[i]) = 0
    <3>1. rows[i] * cols[i] \in Nat \ {0} /\ t(i).item \in Nat
      BY <2>1, <2>4, Positive
    <3>2. (rows[i] * cols[i] * t(i).item) % (rows[i] * cols[i]) = 0
      BY <3>1, NoRest
    <3> QED
      BY <2>1, <3>2
  <2> QED
    BY <2>1, <2>3, <2>5, <2>6, <2>7
<1>3. /\ DOMAIN ix = 1..n /\ \A j \in 1..n : DOMAIN ix[j] = 1..m
      /\ \A j \in 1..n, i \in 1..m : ix[j][i] = S(j, i)
  BY <1>1 DEF StackIndex
<1>4. \A j \in 1..n, i \in 1..m : (j - 1) * N(i) \in Nat /\ j \in Int
  <2>1. \A j \in 1..n : j - 1 \in Nat /\ j \in Int
    BY <1>1
  <2>2. \A i \in 1..m : N(i) \in Nat
    BY <1>2
  <2> HIDE DEF N
  <2> QED
    BY <2>1, <2>2, ProductsNat
<1>5. ASSUME NEW j \in 1..n, NEW i \in 1..m
      PROVE  /\ S(j, i) \in SlicesIn(fs) /\ S(j, i).file = w[i][1] /\ S(j, i).slot = SlotName(t(i))
             /\ S(j, i).offset = Start(f(i), w[i][2]) + (j - 1) * N(i) /\ S(j, i).nbytes = N(i)
             /\ S(j, i).rows = rows[i] /\ S(j, i).cols = cols[i]
  <2>1. /\ w[i][1] \in DOMAIN fs /\ SlotName(t(i)) \in BankSlots /\ N(i) \in Nat
        /\ rows[i] \in Nat /\ cols[i] \in Nat
    BY <1>2
  <2>2. Start(f(i), w[i][2]) + (j - 1) * N(i) \in Nat
    <3>1. Start(f(i), w[i][2]) \in Nat /\ (j - 1) * N(i) \in Nat
      BY <1>2, <1>4
    <3> HIDE DEF f, N
    <3> QED
      BY <3>1
  <2> HIDE DEF f, t, N
  <2> QED
    BY <2>1, <2>2 DEF Slice, SlicesIn
<1> HIDE DEF S, f, t, N
<1>6. ASSUME NEW j \in 1..n
      PROVE  ix[j] \in Seq(SlicesIn(fs)) /\ ix[j] # <<>> /\ DOMAIN ix[j] = 1..m
  <2>1. ix[j] = [i \in 1..m |-> S(j, i)]
    BY <1>1 DEF StackIndex, S, f, t, N
  <2>2. \A i \in 1..m : S(j, i) \in SlicesIn(fs)
    BY <1>5
  <2>3. DOMAIN ix[j] = 1..m /\ \A i \in 1..m : ix[j][i] \in SlicesIn(fs)
    BY <2>1, <2>2
  <2>4. ix[j] \in [1..m -> SlicesIn(fs)]
    BY <2>1, <2>2
  <2>5. ix[j] \in Seq(SlicesIn(fs))
    BY <1>1, <2>4
  <2>6. ix[j] # <<>>
    BY <1>1, <2>3
  <2> QED
    BY <2>3, <2>5, <2>6
<1> HIDE DEF ix
<1>7. ASSUME NEW j \in 1..n, NEW h \in 1..m, NEW i \in 1..m, ix[j][h].slot = ix[j][i].slot PROVE h = i
  <2>1. SlotName(t(h)) = SlotName(t(i))
    BY <1>3, <1>5, <1>7
  <2> QED
    BY <2>1 DEF Stack, t, f
<1>8. ASSUME NEW j \in 1..n, NEW i \in 1..m PROVE Own(fs[ix[j][i].file], j, ix[j][i])
  <2>1. \A k \in DOMAIN f(i).tensors : IsExpert(f(i).tensors[k]) => f(i).tensors[k].expert < 0
    <3>1. SUFFICES ASSUME NEW k \in DOMAIN f(i).tensors, IsExpert(f(i).tensors[k])
                   PROVE  f(i).tensors[k].expert < 0
      OBVIOUS
    <3>2. PICK h \in 1..m : w[h] = <<w[i][1], k>>
      BY <3>1 DEF Stack, f
    <3>3. t(h) = f(i).tensors[k]
      BY <3>2 DEF t, f
    <3>4. t(h).expert = -1
      BY <1>2
    <3> QED
      BY <3>3, <3>4
  <2>2. ~Has(f(i), "gate_up_proj") /\ j \in Int
    BY <1>4 DEF Stack, f
  <2>3. /\ IsFile(f(i)) /\ w[i][2] \in DOMAIN f(i).tensors /\ IsExpert(t(i)) /\ t(i).expert = -1
        /\ N(i) % (rows[i] * cols[i]) = 0
    BY <1>2
  <2>4. Reference(f(i), j, SlotName(t(i))) = Rows(f(i), w[i][2], j, 0, NumRows(t(i)) - 1)
    <3>1. t(i) = f(i).tensors[w[i][2]] /\ t(i).expert \in {-1, j - 1}
      BY <2>3 DEF t
    <3>2. \A x \in DOMAIN f(i).tensors : IsExpert(f(i).tensors[x]) =>
              (f(i).tensors[x].expert < 0 <=> f(i).tensors[w[i][2]].expert < 0)
      BY <2>1, <2>3, <3>1
    <3> QED
      BY <2>2, <2>3, <3>1, <3>2, ReferenceLemma
  <2>5. Rows(f(i), w[i][2], j, 0, NumRows(t(i)) - 1) =
            [x \in 1..N(i) |-> Start(f(i), w[i][2]) + (j - 1) * N(i) + x - 1]
    <3>1. t(i).expert < 0 /\ t(i) = f(i).tensors[w[i][2]] /\ N(i) = Step(t(i))
      BY <2>3 DEF t, N
    <3> QED
      BY <2>2, <2>3, <3>1, OwnStep
  <2>6. /\ ix[j][i] = S(j, i) /\ S(j, i).slot = SlotName(t(i)) /\ S(j, i).nbytes = N(i)
        /\ S(j, i).offset = Start(f(i), w[i][2]) + (j - 1) * N(i)
        /\ S(j, i).rows = rows[i] /\ S(j, i).cols = cols[i]
    BY <1>3, <1>5
  <2>7. fs[ix[j][i].file] = f(i)
    BY <1>3, <1>5 DEF f
  <2>8. Own(f(i), j, S(j, i))
    BY <2>3, <2>4, <2>5, <2>6 DEF Own
  <2> QED
    BY <2>6, <2>7, <2>8
<1>9. Places(ix) = (1..n) \X (1..m)
  BY <1>3, PlacesOf
<1> DEFINE where == [p \in Places(ix) |-> w[p[2]][2]]
           from == [p \in Places(ix) |-> (p[1] - 1) * N(p[2])]
<1>10. ASSUME NEW p \in Places(ix)
      PROVE  /\ p = <<p[1], p[2]>> /\ p[1] \in 1..n /\ p[2] \in 1..m
             /\ where[p] = w[p[2]][2] /\ from[p] = (p[1] - 1) * N(p[2])
             /\ ix[p[1]][p[2]] = S(p[1], p[2])
  BY <1>3, <1>9
<1> HIDE DEF where, from
<1>11. Lies(fs, ix, where, from)
  <2>1. SUFFICES ASSUME NEW p \in Places(ix)
                 PROVE  LET s == ix[p[1]][p[2]]  ts == fs[s.file].tensors
                        IN  /\ where[p] \in DOMAIN ts /\ IsExpert(ts[where[p]])
                            /\ from[p] \in Nat /\ s.nbytes \in Nat /\ from[p] + s.nbytes <= NBytes(ts[where[p]])
                            /\ s.offset = Start(fs[s.file], where[p]) + from[p]
    BY DEF Lies
  <2> DEFINE j == p[1]  i == p[2]
  <2>2. /\ j \in 1..n /\ i \in 1..m /\ where[p] = w[i][2] /\ from[p] = (j - 1) * N(i)
        /\ ix[p[1]][p[2]] = S(j, i)
    BY <1>10
  <2> HIDE DEF j, i
  <2>3. /\ S(j, i).file = w[i][1] /\ S(j, i).offset = Start(f(i), w[i][2]) + (j - 1) * N(i)
        /\ S(j, i).nbytes = N(i)
    BY <1>5, <2>2
  <2>4. /\ w[i][2] \in DOMAIN f(i).tensors /\ IsExpert(t(i)) /\ N(i) \in Nat /\ NBytes(t(i)) = n * N(i)
    BY <1>2, <2>2
  <2>5. (j - 1) * N(i) \in Nat /\ (j - 1) * N(i) + N(i) <= n * N(i)
    <3>1. j \in Int /\ 1 <= j /\ j <= n /\ n \in Nat
      BY <1>1, <2>2
    <3> QED
      BY <2>4, <3>1, Blocks
  <2>6. fs[S(j, i).file] = f(i) /\ fs[S(j, i).file].tensors[w[i][2]] = t(i)
    BY <2>3 DEF f, t
  <2> QED
    BY <2>2, <2>3, <2>4, <2>5, <2>6
<1>12. Apart(ix, where, from)
  <2>1. SUFFICES ASSUME NEW p \in Places(ix), NEW q \in Places(ix), p # q,
                        ix[p[1]][p[2]].file = ix[q[1]][q[2]].file, where[p] = where[q]
                 PROVE  \/ from[p] + ix[p[1]][p[2]].nbytes <= from[q]
                        \/ from[q] + ix[q[1]][q[2]].nbytes <= from[p]
    BY DEF Apart
  <2>2. /\ p[1] \in 1..n /\ p[2] \in 1..m /\ q[1] \in 1..n /\ q[2] \in 1..m
        /\ w[p[2]][2] = w[q[2]][2] /\ from[p] = (p[1] - 1) * N(p[2]) /\ from[q] = (q[1] - 1) * N(q[2])
        /\ p = <<p[1], p[2]>> /\ q = <<q[1], q[2]>>
    BY <1>10, <2>1
  <2>3. /\ ix[p[1]][p[2]].nbytes = N(p[2]) /\ ix[q[1]][q[2]].nbytes = N(q[2])
        /\ ix[p[1]][p[2]].file = w[p[2]][1] /\ ix[q[1]][q[2]].file = w[q[2]][1]
    <3>1. ix[p[1]][p[2]] = S(p[1], p[2]) /\ ix[q[1]][q[2]] = S(q[1], q[2])
      BY <1>10, <2>1
    <3> QED
      BY <1>5, <2>2, <3>1
  <2>4. w[p[2]] = w[q[2]]
    <3>1. \A i \in 1..m : w[i] = <<w[i][1], w[i][2]>>
      BY DEF Stack
    <3>2. w[p[2]][1] = w[q[2]][1]
      BY <2>1, <2>3
    <3> QED
      BY <2>2, <3>1, <3>2
  <2>5. p[2] = q[2]
    BY <2>2, <2>4 DEF Stack
  <2>6. p[1] # q[1] /\ p[1] \in Int /\ q[1] \in Int /\ 1 <= p[1] /\ 1 <= q[1]
    BY <1>1, <2>1, <2>2, <2>5
  <2>7. N(p[2]) \in Nat
    BY <1>2, <2>2
  <2>8. p[1] < q[1] => (p[1] - 1) * N(p[2]) + N(p[2]) <= (q[1] - 1) * N(p[2])
    BY <2>6, <2>7, Blocks
  <2>9. q[1] < p[1] => (q[1] - 1) * N(p[2]) + N(p[2]) <= (p[1] - 1) * N(p[2])
    BY <2>6, <2>7, Blocks
  <2>10. p[1] < q[1] \/ q[1] < p[1]
    BY <2>6
  <2> QED
    BY <2>2, <2>3, <2>5, <2>8, <2>9, <2>10
<1>13. \A i \in FilesOf(ix) : \E h \in 1..m : i = w[h][1]
  BY <1>5, <1>10 DEF FilesOf
<1>14. FilledUp(fs, ix, where, from)
  <2>1. SUFFICES ASSUME NEW name \in FilesOf(ix), NEW k \in DOMAIN fs[name].tensors,
                        IsExpert(fs[name].tensors[k]), NEW x \in Nat, x < NBytes(fs[name].tensors[k])
                 PROVE  \E p \in Places(ix) :
                            LET s == ix[p[1]][p[2]]
                            IN  s.file = name /\ where[p] = k /\ from[p] <= x /\ x < from[p] + s.nbytes
    BY DEF FilledUp
  <2>2. PICK h \in 1..m : name = w[h][1]
    BY <1>13
  <2>3. PICK i \in 1..m : w[i] = <<name, k>>
    <3>1. k \in DOMAIN fs[w[h][1]].tensors /\ IsExpert(fs[w[h][1]].tensors[k])
      BY <2>1, <2>2
    <3>2. \E i \in 1..m : w[i] = <<w[h][1], k>>
      BY <3>1 DEF Stack
    <3> QED
      BY <2>2, <3>2
  <2>4. w[i][1] = name /\ w[i][2] = k /\ t(i) = fs[name].tensors[k]
    BY <2>3 DEF t, f
  <2>5. N(i) \in Nat /\ x < n * N(i)
    BY <1>2, <2>1, <2>4
  <2>6. PICK j \in Int : 1 <= j /\ j <= n /\ (j - 1) * N(i) <= x /\ x < (j - 1) * N(i) + N(i)
    BY <1>1, <2>5, Blocks
  <2>7. j \in 1..n /\ <<j, i>> \in Places(ix)
    BY <1>1, <1>9, <2>6
  <2>8. /\ where[<<j, i>>] = w[i][2] /\ from[<<j, i>>] = (j - 1) * N(i) /\ ix[j][i] = S(j, i)
    BY <1>10, <2>7
  <2>9. S(j, i).file = name /\ S(j, i).nbytes = N(i)
    BY <1>5, <2>4, <2>7
  <2> QED
    BY <2>4, <2>6, <2>7, <2>8, <2>9
<1>15. Partitioned(fs, ix)
  <2>1. \A i \in FilesOf(ix) : IsFile(fs[i])
    BY <1>2, <1>13 DEF f
  <2> QED
    BY <1>11, <1>12, <1>14, <2>1, Tiles
<1>16. RightIndex(fs, ix)
  <2>1. \A j \in DOMAIN ix : j \in 1..n /\ DOMAIN ix[j] = 1..m
    BY <1>3
  <2> QED
    BY <1>6, <1>7, <1>8, <1>15, <2>1 DEF RightIndex
<1> QED
  BY <1>16 DEF ix

\* _stacked_slices() of w1, w3 and w2 is such an index.
LEMMA RightTriple ==
    ASSUME NEW fs, NEW name \in DOMAIN fs, IsFile(fs[name]), OneLayout(fs[name].tensors),
           \A k \in DOMAIN fs[name].tensors :
               IsExpert(fs[name].tensors[k]) => fs[name].tensors[k].expert < 0,
           ~Has(fs[name], "gate_up_proj"), \A stem \in {"w1", "w2", "w3"} : Has(fs[name], stem)
    PROVE  RightIndex(fs, FusedTriple(fs[name], name))
<1> DEFINE f == fs[name]
           stems == <<"w1", "w3", "w2">>
           a(i) == At(f, stems[i])
           t(i) == f.tensors[a(i)]
           n == t(1).shape[1]  R == t(1).shape[2]  C == t(1).shape[3]
           w == <<<<name, a(1)>>, <<name, a(2)>>, <<name, a(3)>>>>
           rows == <<R, R, R>>
           cols == <<C, C, C>>
<1>1. ASSUME NEW i \in 1..3
      PROVE  /\ a(i) \in DOMAIN f.tensors /\ t(i).stem = stems[i] /\ IsExpert(t(i)) /\ IsTensor(t(i))
             /\ t(i).expert = -1 /\ t(i) \in Range(f.tensors)
             /\ \A k \in DOMAIN f.tensors : f.tensors[k].stem = stems[i] => k = a(i)
  <2>1. stems[i] \in ExpertStems /\ Has(f, stems[i])
    BY DEF ExpertStems, StackedStems
  <2> QED
    BY <2>1, AtLemma, FileTensor
<1>2. stems[1] = "w1" /\ stems[2] = "w3" /\ stems[3] = "w2" /\ IsFile(f) /\ OneLayout(f.tensors)
      /\ ~Has(f, "gate_up_proj") /\ Has(f, "w1") /\ Has(f, "w2") /\ Has(f, "w3")
  OBVIOUS
<1> HIDE DEF f
<1>3. /\ t(1).stem = "w1" /\ t(2).stem = "w3" /\ t(3).stem = "w2"
      /\ a(1) = At(f, "w1") /\ a(2) = At(f, "w3") /\ a(3) = At(f, "w2")
  BY <1>1, <1>2
<1> HIDE DEF a
<1>4. /\ \A u \in Range(f.tensors) : IsExpert(u) => u.stem \in {"w1", "w2", "w3"}
      /\ \A i \in 1..3 : t(i).item = t(1).item /\ t(i).shape \in {t(1).shape, <<n, C, R>>}
  <2>1. ~(t(1).expert >= 0) /\ t(1).stem \notin {"gate_up_proj", "down_proj"}
    BY <1>1, <1>3
  <2>2. 1 \in 1..3
    OBVIOUS
  <2> QED
    BY <1>1, <1>2, <2>1, <2>2 DEF OneLayout
<1>5. ASSUME NEW i \in 1..3
      PROVE  /\ t(i).item \in Nat /\ t(i).shape[1] \in Nat \ {0}
             /\ t(i).shape[2] \in Nat \ {0} /\ t(i).shape[3] \in Nat \ {0}
             /\ Step(t(i)) = t(i).shape[2] * t(i).shape[3] * t(i).item
             /\ Len(t(i).shape) = 3 /\ t(i).shape \in Seq(Nat \ {0})
  <2>1. IsTensor(t(i)) /\ IsExpert(t(i)) /\ t(i).expert < 0
    BY <1>1
  <2> HIDE DEF t
  <2>2. Len(t(i).shape) = 3 /\ t(i).item \in Nat /\ t(i).shape \in Seq(Nat \ {0})
    BY <2>1 DEF IsTensor
  <2>3. /\ NumRows(t(i)) = t(i).shape[2] /\ NumCols(t(i)) = t(i).shape[3] /\ t(i).shape[1] \in Nat \ {0}
        /\ NumRows(t(i)) \in Nat \ {0} /\ NumCols(t(i)) \in Nat \ {0}
    BY <2>1, <2>2, TensorSize
  <2> QED
    BY <2>2, <2>3 DEF Step
<1>6. n \in Nat \ {0} /\ R \in Nat \ {0} /\ C \in Nat \ {0} /\ t(1).item \in Nat
  <2>1. 1 \in 1..3
    OBVIOUS
  <2> QED
    BY <1>5, <2>1
<1> HIDE DEF t
<1>7. ASSUME NEW i \in 1..3 PROVE t(i).shape[1] = n /\ Step(t(i)) = R * C * t(1).item
  <2>1. t(i).item = t(1).item
    BY <1>4
  <2>2. CASE t(i).shape = t(1).shape
    BY <1>5, <2>1, <2>2
  <2>3. CASE t(i).shape = <<n, C, R>>
    <3>1. Step(t(i)) = C * R * t(1).item /\ t(i).shape[1] = n
      <4>1. t(i).shape[1] = n /\ t(i).shape[2] = C /\ t(i).shape[3] = R
        <5> HIDE DEF n, R, C
        <5> QED
          BY <2>3
      <4>2. Step(t(i)) = t(i).shape[2] * t(i).shape[3] * t(i).item
        BY <1>5
      <4> QED
        BY <2>1, <4>1, <4>2
    <3> DEFINE b == t(1).item
    <3> HIDE DEF R, C, b
    <3>2. C * R * b = R * C * b
      BY <1>6, Products DEF b
    <3> QED
      BY <3>1, <3>2 DEF b
  <2> QED
    BY <1>4, <2>2, <2>3
<1>8. /\ SlotOf["w1"] = "gate" /\ SlotOf["w3"] = "up" /\ SlotOf["w2"] = "down"
      /\ SlotName(t(1)) = "gate" /\ SlotName(t(2)) = "up" /\ SlotName(t(3)) = "down"
  BY <1>3 DEF SlotOf, SlotName
<1> HIDE DEF n, R, C
<1>9. \A i \in 1..3 : /\ w[i] = <<name, a(i)>> /\ w[i][1] = name /\ w[i][2] = a(i)
                      /\ rows[i] = R /\ cols[i] = C
  OBVIOUS
<1>10. \A i \in 1..3 : fs[w[i][1]] = f /\ f.tensors[w[i][2]] = t(i)
  BY <1>9 DEF f, t
<1>11. \A k \in DOMAIN f.tensors : IsExpert(f.tensors[k]) => \E h \in 1..3 : w[h] = <<name, k>>
  <2>1. SUFFICES ASSUME NEW k \in DOMAIN f.tensors, IsExpert(f.tensors[k])
                 PROVE  \E h \in 1..3 : k = a(h)
    BY <1>9
  <2>2. f.tensors[k].stem \in {"w1", "w2", "w3"}
    BY <1>2, <1>4, <2>1, FileTensor
  <2>3. \E h \in 1..3 : f.tensors[k].stem = stems[h]
    <3>1. 1 \in 1..3 /\ 2 \in 1..3 /\ 3 \in 1..3
      OBVIOUS
    <3> HIDE DEF stems
    <3> QED
      BY <1>2, <2>2, <3>1
  <2> QED
    BY <1>1, <2>3
<1>12. \A h, i \in 1..3 : h # i => a(h) # a(i) /\ SlotName(t(h)) # SlotName(t(i))
  <2>1. \A h, i \in 1..3 : h # i => SlotName(t(h)) # SlotName(t(i))
    BY <1>8
  <2>2. \A h, i \in 1..3 : a(h) = a(i) => t(h) = t(i)
    BY DEF t
  <2> QED
    BY <2>1, <2>2
<1>13. \A i \in 1..3 : SlotName(t(i)) \in BankSlots
  BY <1>8 DEF BankSlots
<1>14. Stack(fs, w, 3, n, rows, cols)
  <2>1. DOMAIN w = 1..3 /\ 3 \in Nat \ {0}
    OBVIOUS
  <2> HIDE DEF w, rows, cols
  <2>2. ASSUME NEW i \in 1..3
        PROVE  LET ff == fs[w[i][1]]  tt == ff.tensors[w[i][2]]
               IN  /\ w[i] = <<w[i][1], w[i][2]>> /\ w[i][1] \in DOMAIN fs
                   /\ IsFile(ff) /\ ~Has(ff, "gate_up_proj") /\ w[i][2] \in DOMAIN ff.tensors
                   /\ IsExpert(tt) /\ tt.expert < 0 /\ SlotName(tt) \in BankSlots /\ tt.shape[1] = n
                   /\ rows[i] \in Nat \ {0} /\ cols[i] \in Nat \ {0}
                   /\ Step(tt) = rows[i] * cols[i] * tt.item
                   /\ \A k \in DOMAIN ff.tensors :
                         IsExpert(ff.tensors[k]) => \E h \in 1..3 : w[h] = <<w[i][1], k>>
    <3>1. /\ w[i] = <<w[i][1], w[i][2]>> /\ w[i][1] = name /\ w[i][2] = a(i)
          /\ rows[i] = R /\ cols[i] = C /\ fs[w[i][1]] = f /\ f.tensors[w[i][2]] = t(i)
      BY <1>9, <1>10
    <3>2. a(i) \in DOMAIN f.tensors /\ IsExpert(t(i)) /\ t(i).expert < 0
      <4>1. a(i) \in DOMAIN f.tensors /\ IsExpert(f.tensors[a(i)]) /\ f.tensors[a(i)].expert = -1
        BY <1>1 DEF t
      <4> QED
        BY <4>1 DEF t
    <3>3. Step(t(i)) = R * C * t(i).item /\ t(i).shape[1] = n
      BY <1>4, <1>7
    <3> QED
      BY <1>2, <1>6, <1>11, <1>13, <3>1, <3>2, <3>3
  <2>3. \A h, i \in 1..3 :
          h # i => /\ w[h] # w[i]
                   /\ SlotName(fs[w[h][1]].tensors[w[h][2]]) # SlotName(fs[w[i][1]].tensors[w[i][2]])
    BY <1>9, <1>10, <1>12
  <2> QED
    BY <1>6, <2>1, <2>2, <2>3 DEF Stack
<1>15. FusedTriple(f, name) = StackIndex(fs, w, n, rows, cols)
  <2>1. FusedTriple(f, name) =
            [j \in 1..n |-> <<Slice(name, "gate", Start(f, a(1)) + (j - 1) * (R * C * t(1).item), R * C * t(1).item, R, C),
                              Slice(name, "up", Start(f, a(2)) + (j - 1) * (R * C * t(1).item), R * C * t(1).item, R, C),
                              Slice(name, "down", Start(f, a(3)) + (j - 1) * (R * C * t(1).item), R * C * t(1).item, R, C)>>]
    BY <1>3, <1>8 DEF FusedTriple, n, R, C, t
  <2>2. /\ Step(t(1)) = R * C * t(1).item /\ Step(t(2)) = R * C * t(1).item /\ Step(t(3)) = R * C * t(1).item
    BY <1>7
  <2> DEFINE s == R * C * t(1).item
             e(j, i) == Slice(name, SlotName(t(i)), Start(f, a(i)) + (j - 1) * s, s, R, C)
  <2>3. StackIndex(fs, w, n, rows, cols) = [j \in 1..n |-> [i \in 1..3 |-> e(j, i)]]
    <3>1. DOMAIN w = 1..3
      OBVIOUS
    <3>2. \A i \in 1..3 : Step(t(i)) = s
      BY <1>7
    <3> HIDE DEF w, rows, cols, s
    <3> QED
      BY <1>9, <1>10, <3>1, <3>2 DEF StackIndex
  <2>4. FusedTriple(f, name) = [j \in 1..n |-> <<e(j, 1), e(j, 2), e(j, 3)>>]
    BY <1>8, <2>1
  <2> HIDE DEF e
  <2>5. \A j \in 1..n : <<e(j, 1), e(j, 2), e(j, 3)>> = [i \in 1..3 |-> e(j, i)]
    OBVIOUS
  <2> QED
    BY <2>3, <2>4, <2>5
<1> QED
  BY <1>14, <1>15, RightStack DEF f

\* The matrix that is a tensor of its own.
LEMMA OwnWhole ==
    ASSUME NEW f, IsFile(f), NEW k \in DOMAIN f.tensors, NEW j \in Int,
           IsExpert(f.tensors[k]), f.tensors[k].expert >= 0
    PROVE  /\ Rows(f, k, j, 0, NumRows(f.tensors[k]) - 1) =
                 [i \in 1..NBytes(f.tensors[k]) |-> Start(f, k) + i - 1]
           /\ NumRows(f.tensors[k]) \in Nat \ {0} /\ NumCols(f.tensors[k]) \in Nat \ {0}
           /\ NBytes(f.tensors[k]) % (NumRows(f.tensors[k]) * NumCols(f.tensors[k])) = 0
<1> DEFINE t == f.tensors[k]  row == NumCols(t) * t.item  r == NumRows(t)  c == NumCols(t)  b == t.item
<1>1. IsTensor(t) /\ Len(t.shape) = 2 /\ t.item \in Nat /\ ~(t.expert < 0)
  <2>1. IsTensor(t) /\ IsExpert(t) /\ t.expert >= 0
    BY FileTensor
  <2> HIDE DEF t
  <2>2. t.expert \in Int
    BY <2>1 DEF IsTensor
  <2>3. ~(t.expert < 0)
    BY <2>1, <2>2
  <2> QED
    BY <2>1, <2>3 DEF IsTensor
<1>2. r \in Nat \ {0} /\ c \in Nat \ {0} /\ b \in Nat /\ NBytes(t) = Step(t) /\ Step(t) \in Nat
  BY <1>1, TensorSize
<1>3. Step(t) = r * c * b /\ row = c * b
  BY DEF Step
<1>4. Start(f, k) \in Int
  BY StartLemma
<1>5. Rows(f, k, j, 0, r - 1) =
          [i \in 1..((r - 1 - 0 + 1) * row) |-> Start(f, k) + (0 + 0) * row + i - 1]
  BY <1>1 DEF Rows
<1> HIDE DEF t, r, c, b, row
<1>6. r * c * b = r * (c * b) /\ c * b \in Nat
  BY <1>2, Products, ProductsNat
<1>7. (r - 1 - 0 + 1) * row = NBytes(t) /\ Start(f, k) + (0 + 0) * row = Start(f, k)
  <2>1. r - 1 - 0 + 1 = r /\ 0 + 0 = 0 /\ 0 * row = 0
    BY <1>2, <1>3, <1>6
  <2> QED
    BY <1>2, <1>3, <1>4, <1>6, <2>1
<1>8. NBytes(t) % (r * c) = 0
  <2>1. r * c \in Nat \ {0}
    BY <1>2, Positive
  <2>2. ((r * c) * b) % (r * c) = 0
    BY <1>2, <2>1, NoRest
  <2> QED
    BY <1>2, <1>3, <2>2
<1> QED
  BY <1>2, <1>5, <1>7, <1>8 DEF t, r, c

\* _index_safetensors() of a tensor for each expert and projection: each is a slice,
\* whole.
LEMMA RightSingle ==
    ASSUME NEW fs, NEW name \in DOMAIN fs, IsFile(fs[name]), ~Has(fs[name], "gate_up_proj"),
           \A k \in DOMAIN fs[name].tensors :
               IsExpert(fs[name].tensors[k]) => fs[name].tensors[k].expert >= 0,
           \E k \in DOMAIN fs[name].tensors : IsExpert(fs[name].tensors[k]),
           PerExpert(fs[name], name) # Error
    PROVE  RightIndex(fs, PerExpert(fs[name], name))
<1> DEFINE f == fs[name]
           K(j) == {k \in DOMAIN f.tensors : f.tensors[k].expert = j}
           of(j) == Ascending(K(j))
           X == {f.tensors[k].expert : k \in DOMAIN f.tensors}
           count == Max(X) + 1
           t(k) == f.tensors[k]
           S(k) == Slice(name, SlotOf[t(k).stem], Start(f, k), NBytes(t(k)), NumRows(t(k)), NumCols(t(k)))
           ix == PerExpert(f, name)
<1>1. IsFile(f) /\ ~Has(f, "gate_up_proj") /\ ix # Error
      /\ (\A k \in DOMAIN f.tensors : IsExpert(t(k)) => t(k).expert >= 0)
      /\ \E k \in DOMAIN f.tensors : IsExpert(t(k))
  OBVIOUS
<1>2. ix = IF \E j \in 0..(count - 1) : Len(of(j)) < 3 THEN Error
           ELSE [j \in 1..count |-> [i \in DOMAIN of(j - 1) |-> S(of(j - 1)[i])]]
  BY DEF PerExpert
<1> HIDE DEF f, ix, S
<1>3. /\ ix = [j \in 1..count |-> [i \in DOMAIN of(j - 1) |-> S(of(j - 1)[i])]]
      /\ \A j \in 0..(count - 1) : ~(Len(of(j)) < 3)
  BY <1>1, <1>2
<1>4. IsFiniteSet(DOMAIN f.tensors) /\ DOMAIN f.tensors \subseteq Nat
  <2>1. f.tensors \in Seq(Range(f.tensors))
    BY <1>1 DEF IsFile, TensorsOnce
  <2>2. Len(f.tensors) \in Nat /\ DOMAIN f.tensors = 1..Len(f.tensors)
    BY <2>1
  <2> QED
    BY <2>2, IntervalSize
<1>5. ASSUME NEW k \in DOMAIN f.tensors
      PROVE  /\ t(k) \in Range(f.tensors) /\ IsTensor(t(k)) /\ t(k).expert \in Int /\ t(k).expert >= -1
             /\ IsExpert(t(k)) <=> t(k).expert >= 0
  <2>1. t(k) \in Range(f.tensors) /\ IsTensor(t(k))
    BY <1>1, FileTensor
  <2>2. IsExpert(t(k)) => t(k).expert >= 0
    BY <1>1
  <2> HIDE DEF t
  <2>3. t(k).expert \in Int /\ t(k).expert >= -1 /\ (~IsExpert(t(k)) => t(k).expert < 0)
    BY <2>1 DEF IsTensor
  <2> QED
    BY <2>1, <2>2, <2>3
<1>6. X \subseteq Int /\ Max(X) \in Nat /\ \A x \in X : x <= Max(X)
  <2> DEFINE Y == {x + 1 : x \in X}
             e == [k \in DOMAIN f.tensors |-> t(k).expert + 1]
  <2>1. \A k \in DOMAIN f.tensors : t(k).expert \in Int /\ t(k).expert >= -1
    BY <1>5
  <2>2. X \subseteq Int /\ \A x \in X : x >= -1
    BY <2>1
  <2>3. Y = {e[k] : k \in DOMAIN f.tensors}
    OBVIOUS
  <2>4. IsFiniteSet({e[k] : k \in DOMAIN f.tensors})
    <3>1. DOMAIN e = DOMAIN f.tensors
      OBVIOUS
    <3> HIDE DEF e
    <3> QED
      BY <1>4, <3>1, FiniteImage
  <2>5. Y \in SUBSET Nat
    <3> HIDE DEF X
    <3>1. \A x \in X : x + 1 \in Nat
      BY <2>2
    <3> QED
      BY <3>1
  <2>6. PICK k \in DOMAIN f.tensors : IsExpert(t(k))
    BY <1>1
  <2>7. t(k).expert \in X /\ t(k).expert >= 0 /\ t(k).expert \in Int
    BY <1>5, <2>6
  <2>8. Y # {}
    BY <2>7
  <2>9. \E y \in Y : \A z \in Y : z <= y
    <3> HIDE DEF Y
    <3> QED
      BY <2>3, <2>4, <2>5, <2>8, GreatestLemma
  <2>10. PICK m \in X : \A z \in X : z + 1 <= m + 1
    BY <2>9
  <2>11. \A z \in X : m >= z
    <3> HIDE DEF X
    <3> QED
      BY <2>2, <2>10
  <2>12. Max(X) = m
    <3> HIDE DEF X
    <3> QED
      BY <2>2, <2>11, MaxOf
  <2> HIDE DEF X
  <2> QED
    BY <2>2, <2>7, <2>11, <2>12
<1>7. count \in Nat \ {0} /\ \A k \in DOMAIN f.tensors : IsExpert(t(k)) => t(k).expert + 1 \in 1..count
  <2>1. \A k \in DOMAIN f.tensors : t(k).expert \in X
    OBVIOUS
  <2> HIDE DEF X
  <2>2. Max(X) \in Nat /\ count = Max(X) + 1
    BY <1>6
  <2>3. SUFFICES ASSUME NEW k \in DOMAIN f.tensors, IsExpert(t(k)) PROVE t(k).expert + 1 \in 1..count
    BY <2>2
  <2>4. t(k).expert \in Int /\ t(k).expert >= 0 /\ t(k).expert <= Max(X)
    BY <1>5, <1>6, <2>1, <2>3
  <2> QED
    BY <2>2, <2>4
<1> HIDE DEF count, X
<1>8. \A j \in Int : /\ of(j) \in Seq(K(j)) /\ IsInjective(of(j)) /\ Range(of(j)) = K(j)
  <2>1. \A j \in Int : K(j) \in SUBSET Nat /\ IsFiniteSet(K(j))
    BY <1>4, FS_Subset
  <2> HIDE DEF K
  <2> QED
    BY <2>1, AscendingLemma
<1>9. ASSUME NEW j \in 1..count
      PROVE  /\ DOMAIN ix[j] = DOMAIN of(j - 1) /\ Len(of(j - 1)) \in Nat /\ Len(of(j - 1)) >= 3
             /\ DOMAIN of(j - 1) = 1..Len(of(j - 1)) /\ j - 1 \in Nat
             /\ \A i \in DOMAIN of(j - 1) :
                   ix[j][i] = S(of(j - 1)[i]) /\ of(j - 1)[i] \in DOMAIN f.tensors
                   /\ t(of(j - 1)[i]).expert = j - 1
             /\ \A h, i \in DOMAIN of(j - 1) : of(j - 1)[h] = of(j - 1)[i] => h = i
             /\ \A k \in DOMAIN f.tensors : t(k).expert = j - 1 => \E i \in DOMAIN of(j - 1) : of(j - 1)[i] = k
  <2>1. j - 1 \in 0..(count - 1) /\ j - 1 \in Int /\ j - 1 \in Nat
    BY <1>7
  <2>2. of(j - 1) \in Seq(K(j - 1)) /\ IsInjective(of(j - 1)) /\ Range(of(j - 1)) = K(j - 1)
    BY <1>8, <2>1
  <2>3. DOMAIN ix[j] = DOMAIN of(j - 1) /\ \A i \in DOMAIN of(j - 1) : ix[j][i] = S(of(j - 1)[i])
    BY <1>3
  <2>4. ~(Len(of(j - 1)) < 3)
    BY <1>3, <2>1
  <2> DEFINE o == of(j - 1)
  <2>5. o \in Seq(K(j - 1)) /\ IsInjective(o) /\ Range(o) = K(j - 1) /\ ~(Len(o) < 3)
    BY <2>2, <2>4
  <2> HIDE DEF o
  <2>6. Len(o) \in Nat /\ DOMAIN o = 1..Len(o) /\ \A i \in DOMAIN o : o[i] \in K(j - 1)
    BY <2>5
  <2>7. \A h, i \in DOMAIN o : o[h] = o[i] => h = i
    BY <2>5 DEF IsInjective
  <2>8. \A k \in K(j - 1) : \E i \in DOMAIN o : o[i] = k
    BY <2>5 DEF Range
  <2>9. Len(o) >= 3
    BY <2>5, <2>6
  <2> QED
    BY <2>1, <2>3, <2>6, <2>7, <2>8, <2>9 DEF o
<1>10. DOMAIN ix = 1..count
  BY <1>3
<1> HIDE DEF of, K
<1>11. ASSUME NEW k \in DOMAIN f.tensors, IsExpert(t(k))
       PROVE  /\ S(k) \in SlicesIn(fs) /\ S(k).file = name /\ S(k).slot = SlotName(t(k))
              /\ S(k).offset = Start(f, k) /\ S(k).nbytes = NBytes(t(k))
              /\ Start(f, k) \in Nat /\ NBytes(t(k)) \in Nat
              /\ S(k).rows = NumRows(t(k)) /\ S(k).cols = NumCols(t(k))
  <2>1. t(k).stem \in DOMAIN SlotOf
    <3>1. t(k).expert \in Int /\ t(k).expert >= 0
      BY <1>5, <1>11
    <3> HIDE DEF t
    <3> QED
      BY <1>11, <3>1 DEF IsExpert
  <2>2. SlotName(t(k)) = SlotOf[t(k).stem] /\ SlotName(t(k)) \in BankSlots
    <3> HIDE DEF t
    <3> QED
      BY <2>1 DEF SlotName, SlotOf, BankSlots
  <2>3. Start(f, k) \in Nat /\ NBytes(t(k)) \in Nat
    BY <1>1, StartLemma
  <2>4. NumRows(t(k)) \in Nat /\ NumCols(t(k)) \in Nat
    BY <1>1, <1>5, <1>11, OwnWhole
  <2> HIDE DEF t
  <2> QED
    BY <2>2, <2>3, <2>4 DEF S, Slice, SlicesIn
<1>12. ASSUME NEW j \in 1..count
       PROVE  ix[j] \in Seq(SlicesIn(fs)) /\ ix[j] # <<>>
  <2> DEFINE o == of(j - 1)
  <2>1. ix[j] = [i \in DOMAIN o |-> S(o[i])]
    BY <1>3
  <2>2. \A i \in DOMAIN o : S(o[i]) \in SlicesIn(fs)
    <3>1. \A i \in DOMAIN o : o[i] \in DOMAIN f.tensors /\ t(o[i]).expert = j - 1 /\ j - 1 \in Nat
      BY <1>9
    <3> HIDE DEF o
    <3>2. \A i \in DOMAIN o : IsExpert(t(o[i]))
      BY <1>5, <3>1
    <3> QED
      BY <1>11, <3>1, <3>2
  <2>3. DOMAIN o = 1..Len(o) /\ Len(o) \in Nat /\ Len(o) >= 3
    BY <1>9
  <2> HIDE DEF o
  <2>4. ix[j] \in [1..Len(o) -> SlicesIn(fs)]
    BY <2>1, <2>2, <2>3
  <2>5. ix[j] \in Seq(SlicesIn(fs))
    BY <2>3, <2>4
  <2>6. 1 \in DOMAIN ix[j]
    BY <2>3, <2>4
  <2> QED
    BY <2>5, <2>6
<1> DEFINE kk(j, i) == of(j - 1)[i]
<1>13. ASSUME NEW j \in 1..count, NEW i \in DOMAIN ix[j]
       PROVE  /\ kk(j, i) \in DOMAIN f.tensors /\ IsExpert(t(kk(j, i))) /\ t(kk(j, i)).expert = j - 1
              /\ t(kk(j, i)).expert >= 0 /\ ix[j][i] = S(kk(j, i))
  <2>1. /\ kk(j, i) \in DOMAIN f.tensors /\ t(kk(j, i)).expert = j - 1 /\ j - 1 \in Nat
        /\ ix[j][i] = S(kk(j, i))
    BY <1>9
  <2> HIDE DEF kk
  <2>2. t(kk(j, i)).expert >= 0
    BY <2>1
  <2> QED
    BY <1>5, <2>1, <2>2
<1>14. ASSUME NEW j \in 1..count, NEW h \in DOMAIN ix[j], NEW i \in DOMAIN ix[j], kk(j, h) = kk(j, i)
       PROVE  h = i
  BY <1>9, <1>14
<1> HIDE DEF kk
<1>15. ASSUME NEW j \in 1..count, NEW h \in DOMAIN ix[j], NEW i \in DOMAIN ix[j], ix[j][h].slot = ix[j][i].slot
       PROVE  h = i
  <2>1. /\ SlotName(t(kk(j, h))) = SlotName(t(kk(j, i))) /\ t(kk(j, h)).expert = t(kk(j, i)).expert
        /\ IsExpert(t(kk(j, h))) /\ IsExpert(t(kk(j, i)))
    BY <1>11, <1>13, <1>15
  <2>2. t(kk(j, h)) \in Range(f.tensors) /\ t(kk(j, i)) \in Range(f.tensors)
    BY <1>5, <1>13
  <2>3. t(kk(j, h)) = t(kk(j, i))
    <3> HIDE DEF t
    <3> QED
      BY <1>1, <2>1, <2>2 DEF IsFile, TensorsOnce
  <2>4. kk(j, h) = kk(j, i)
    BY <1>1, <1>13, <2>3 DEF IsFile, TensorsOnce, IsInjective
  <2> QED
    BY <1>14, <2>4
<1>16. ASSUME NEW j \in 1..count, NEW i \in DOMAIN ix[j] PROVE Own(fs[ix[j][i].file], j, ix[j][i])
  <2> DEFINE k == kk(j, i)
  <2>1. k \in DOMAIN f.tensors /\ IsExpert(t(k)) /\ t(k).expert = j - 1 /\ t(k).expert >= 0 /\ ix[j][i] = S(k)
    BY <1>13
  <2> HIDE DEF k
  <2>2. j \in Int
    BY <1>7
  <2>3. Reference(f, j, SlotName(t(k))) = Rows(f, k, j, 0, NumRows(t(k)) - 1)
    <3>1. \A m \in DOMAIN f.tensors : IsExpert(f.tensors[m]) =>
              (f.tensors[m].expert < 0 <=> f.tensors[k].expert < 0)
      <4>1. \A m \in DOMAIN f.tensors : IsExpert(t(m)) => ~(t(m).expert < 0)
        <5>1. \A m \in DOMAIN f.tensors : IsExpert(t(m)) => t(m).expert \in Int /\ t(m).expert >= 0
          BY <1>5
        <5> QED
          BY <5>1
      <4> QED
        BY <2>1, <4>1
    <3> QED
      BY <1>1, <2>1, <2>2, <3>1, ReferenceLemma
  <2>4. /\ Rows(f, k, j, 0, NumRows(t(k)) - 1) = [x \in 1..NBytes(t(k)) |-> Start(f, k) + x - 1]
        /\ NBytes(t(k)) % (NumRows(t(k)) * NumCols(t(k))) = 0
    BY <1>1, <2>1, <2>2, OwnWhole
  <2>5. /\ S(k).file = name /\ S(k).slot = SlotName(t(k)) /\ S(k).offset = Start(f, k)
        /\ S(k).nbytes = NBytes(t(k)) /\ S(k).rows = NumRows(t(k)) /\ S(k).cols = NumCols(t(k))
    BY <1>11, <2>1
  <2>6. fs[ix[j][i].file] = f
    BY <2>1, <2>5 DEF f
  <2> HIDE DEF t
  <2>7. Own(f, j, S(k))
    BY <2>3, <2>4, <2>5 DEF Own
  <2> QED
    BY <2>1, <2>6, <2>7
<1> DEFINE where == [p \in Places(ix) |-> kk(p[1], p[2])]
           from == [p \in Places(ix) |-> 0]
<1>17. \A j \in 1..count : \A i \in DOMAIN ix[j] : <<j, i>> \in Places(ix)
  BY <1>10 DEF Places
<1>18. ASSUME NEW p \in Places(ix)
       PROVE  /\ p = <<p[1], p[2]>> /\ p[1] \in 1..count /\ p[2] \in DOMAIN ix[p[1]]
              /\ where[p] = kk(p[1], p[2]) /\ from[p] = 0
  BY <1>10 DEF Places
<1> HIDE DEF where, from
<1>19. ASSUME NEW p \in Places(ix)
       PROVE  /\ ix[p[1]][p[2]].file = name /\ where[p] \in DOMAIN f.tensors /\ IsExpert(t(where[p]))
              /\ ix[p[1]][p[2]].offset = Start(f, where[p])
              /\ ix[p[1]][p[2]].nbytes = NBytes(t(where[p])) /\ NBytes(t(where[p])) \in Nat
              /\ Start(f, where[p]) \in Nat
  <2> DEFINE k == kk(p[1], p[2])
  <2>1. k \in DOMAIN f.tensors /\ IsExpert(t(k)) /\ ix[p[1]][p[2]] = S(k) /\ where[p] = k
    BY <1>13, <1>18
  <2> HIDE DEF k
  <2> QED
    BY <1>11, <2>1
<1>20. Lies(fs, ix, where, from)
  <2>1. SUFFICES ASSUME NEW p \in Places(ix)
                 PROVE  LET s == ix[p[1]][p[2]]  ts == fs[s.file].tensors
                        IN  /\ where[p] \in DOMAIN ts /\ IsExpert(ts[where[p]])
                            /\ from[p] \in Nat /\ s.nbytes \in Nat /\ from[p] + s.nbytes <= NBytes(ts[where[p]])
                            /\ s.offset = Start(fs[s.file], where[p]) + from[p]
    BY DEF Lies
  <2>2. fs[name] = f /\ from[p] = 0
    BY <1>18 DEF f
  <2>3. /\ ix[p[1]][p[2]].file = name /\ where[p] \in DOMAIN f.tensors /\ IsExpert(f.tensors[where[p]])
        /\ ix[p[1]][p[2]].offset = Start(f, where[p]) /\ Start(f, where[p]) \in Nat
        /\ ix[p[1]][p[2]].nbytes = NBytes(f.tensors[where[p]]) /\ NBytes(f.tensors[where[p]]) \in Nat
    BY <1>19
  <2> HIDE DEF ix, f, t
  <2> QED
    BY <2>2, <2>3
<1>21. Apart(ix, where, from)
  <2>1. SUFFICES ASSUME NEW p \in Places(ix), NEW q \in Places(ix), where[p] = where[q]
                 PROVE  p = q
    BY DEF Apart
  <2>2. /\ p = <<p[1], p[2]>> /\ p[1] \in 1..count /\ p[2] \in DOMAIN ix[p[1]]
        /\ q = <<q[1], q[2]>> /\ q[1] \in 1..count /\ q[2] \in DOMAIN ix[q[1]]
        /\ kk(p[1], p[2]) = kk(q[1], q[2])
    BY <1>18, <2>1
  <2>3. p[1] - 1 = q[1] - 1 /\ p[1] \in Int /\ q[1] \in Int
    BY <1>7, <1>13, <2>2
  <2>4. p[1] = q[1]
    BY <2>3
  <2>5. p[2] = q[2]
    BY <1>14, <2>2, <2>4
  <2> QED
    BY <2>2, <2>4, <2>5
<1>22. \A x \in FilesOf(ix) : x = name
  BY <1>19 DEF FilesOf
<1>23. FilledUp(fs, ix, where, from)
  <2>1. SUFFICES ASSUME NEW k \in DOMAIN f.tensors, IsExpert(t(k)), NEW x \in Nat, x < NBytes(t(k))
                 PROVE  \E p \in Places(ix) :
                            LET s == ix[p[1]][p[2]]
                            IN  s.file = name /\ where[p] = k /\ from[p] <= x /\ x < from[p] + s.nbytes
    BY <1>22 DEF FilledUp, f
  <2> DEFINE j == t(k).expert + 1
  <2>2. j \in 1..count /\ t(k).expert = j - 1
    <3>1. t(k).expert \in Int
      BY <1>5
    <3> HIDE DEF t
    <3> QED
      BY <1>7, <2>1, <3>1
  <2> HIDE DEF j
  <2>3. PICK i \in DOMAIN ix[j] : kk(j, i) = k
    BY <1>9, <2>2 DEF kk
  <2> DEFINE p == <<j, i>>
  <2>4. p \in Places(ix)
    BY <1>17, <2>2
  <2>5. p[1] = j /\ p[2] = i
    OBVIOUS
  <2> HIDE DEF p
  <2>6. where[p] = k /\ from[p] = 0
    BY <1>18, <2>3, <2>4, <2>5
  <2>7. ix[p[1]][p[2]].file = name /\ ix[p[1]][p[2]].nbytes = NBytes(t(k)) /\ NBytes(t(k)) \in Nat
    BY <1>19, <2>4, <2>6
  <2> HIDE DEF t
  <2>8. from[p] <= x /\ x < from[p] + ix[p[1]][p[2]].nbytes
    BY <2>1, <2>6, <2>7
  <2> QED
    BY <2>4, <2>6, <2>7, <2>8
<1>24. Partitioned(fs, ix)
  <2>1. \A x \in FilesOf(ix) : IsFile(fs[x])
    BY <1>1, <1>22 DEF f
  <2> QED
    BY <1>20, <1>21, <1>23, <2>1, Tiles
<1>25. RightIndex(fs, ix)
  BY <1>10, <1>12, <1>15, <1>16, <1>24 DEF RightIndex
<1> QED
  BY <1>25 DEF ix, f

\* A finite set, its elements in some order.
LEMMA SetToSeqLemma ==
    ASSUME NEW S, IsFiniteSet(S)
    PROVE  /\ Cardinality(S) \in Nat /\ DOMAIN SetToSeq(S) = 1..Cardinality(S)
           /\ \A i \in 1..Cardinality(S) : SetToSeq(S)[i] \in S
           /\ \A h, i \in 1..Cardinality(S) : SetToSeq(S)[h] = SetToSeq(S)[i] => h = i
           /\ \A x \in S : \E i \in 1..Cardinality(S) : SetToSeq(S)[i] = x
<1> DEFINE n == Cardinality(S)  w == SetToSeq(S)
<1>1. n \in Nat /\ ExistsBijection(1..n, S)
  BY FS_CardinalityType
<1>2. PICK f \in Bijection(1..n, S) : TRUE
  BY <1>1 DEF ExistsBijection
<1>3. f \in [1..n -> S] /\ IsInjective(f)
  BY <1>2 DEF Bijection, Injection, IsInjective
<1>4. w \in [1..n -> S] /\ IsInjective(w)
  <2>1. w = CHOOSE g \in [1..n -> S] : IsInjective(g)
    BY DEF SetToSeq
  <2> HIDE DEF w, n
  <2> QED
    BY <1>3, <2>1
<1> HIDE DEF w
<1>5. Range(w) = S
  BY <1>1, <1>4, OntoBySize
<1>6. DOMAIN w = 1..n /\ \A i \in 1..n : w[i] \in S
  BY <1>4
<1>7. \A h, i \in 1..n : w[h] = w[i] => h = i
  BY <1>4, <1>6 DEF IsInjective
<1>8. \A x \in S : \E i \in 1..n : w[i] = x
  BY <1>5, <1>6 DEF Range
<1> QED
  BY <1>1, <1>6, <1>7, <1>8 DEF w

\* No expert, no slice.
LEMMA RightNone == \A fs : RightIndex(fs, <<>>)
<1>1. SUFFICES ASSUME NEW fs PROVE RightIndex(fs, <<>>)
  OBVIOUS
<1>2. DOMAIN <<>> = {}
  OBVIOUS
<1>3. Places(<<>>) = {}
  BY <1>2 DEF Places
<1>4. FilesOf(<<>>) = {}
  BY <1>3 DEF FilesOf
<1>5. Partitioned(fs, <<>>)
  BY <1>3, <1>4 DEF Partitioned
<1> QED
  BY <1>2, <1>5 DEF RightIndex

\* A file that is there and can be read.
CanRead(f) == f \notin {Lost, Unreadable}

\* The files of a layer of a checkpoint.
MlxFiles(fs) ==
    /\ IsFiniteSet(DOMAIN fs) /\ "bank" \notin DOMAIN fs
    /\ \A n \in DOMAIN fs : CanRead(fs[n]) =>
          /\ IsFile(fs[n])
          /\ \A t \in Range(fs[n].tensors) : IsExpert(t) => t.stem \in MlxSlots /\ t.expert < 0
    /\ \A n, m \in DOMAIN fs : n # m /\ CanRead(fs[n]) /\ CanRead(fs[m]) =>
          \A t \in Range(fs[n].tensors), u \in Range(fs[m].tensors) :
              IsExpert(t) /\ IsExpert(u) => t.stem # u.stem

\* index_mlx_checkpoint() is an index of stacks, of all files of the checkpoint.
LEMMA RightMlx ==
    ASSUME NEW fs, MlxFiles(fs), IndexMlx(fs) # Error
    PROVE  RightIndex(fs, IndexMlx(fs))
<1> DEFINE there == {name \in DOMAIN fs : fs[name] # Lost}
           places == UNION {{<<name, k>> : k \in DOMAIN fs[name].tensors} : name \in there}
           found == {p \in places : fs[p[1]].tensors[p[2]].stem \in MlxSlots}
           t(p) == fs[p[1]].tensors[p[2]]
           sizes == {t(p).shape[1] : p \in found}
           slice(p, n, j) == Slice(p[1], t(p).stem, Start(fs[p[1]], p[2]) + (j - 1) * (NBytes(t(p)) \div n),
                                   NBytes(t(p)) \div n, NumRows(t(p)), NumCols(t(p)))
           n == CHOOSE c \in sizes : TRUE
           m == Cardinality(found)
           w == SetToSeq(found)
           ix == IndexMlx(fs)
<1>1. ix = IF \E name \in there : fs[name] = Unreadable THEN Error
           ELSE IF found = {} THEN <<>>
           ELSE IF Cardinality(sizes) # 1 \/ ~\E p \in found : t(p).stem = "gate.weight" THEN Error
           ELSE [j \in 1..n |-> [i \in 1..m |-> slice(w[i], n, j)]]
  BY DEF IndexMlx
<1>2. ix # Error
  OBVIOUS
<1>3. \A name \in there : /\ CanRead(fs[name]) /\ IsFile(fs[name]) /\ name \in DOMAIN fs
                          /\ \A u \in Range(fs[name].tensors) : IsExpert(u) => u.stem \in MlxSlots /\ u.expert < 0
  <2>1. \A name \in there : fs[name] # Unreadable
    BY <1>1, <1>2
  <2> QED
    BY <2>1 DEF MlxFiles, CanRead
<1>4. IsFiniteSet(there)
  BY FS_Subset DEF MlxFiles
<1>5. \A name \in there : IsFiniteSet(DOMAIN fs[name].tensors)
  <2>1. SUFFICES ASSUME NEW name \in there PROVE IsFiniteSet(DOMAIN fs[name].tensors)
    OBVIOUS
  <2>2. fs[name].tensors \in Seq(Range(fs[name].tensors))
    BY <1>3 DEF IsFile, TensorsOnce
  <2>3. Len(fs[name].tensors) \in Nat /\ DOMAIN fs[name].tensors = 1..Len(fs[name].tensors)
    BY <2>2
  <2> QED
    BY <2>3, IntervalSize
<1>6. \A p \in found : /\ p = <<p[1], p[2]>> /\ p[1] \in there /\ p[2] \in DOMAIN fs[p[1]].tensors
                       /\ t(p).stem \in MlxSlots
  OBVIOUS
<1>7. \A name \in there : \A k \in DOMAIN fs[name].tensors :
         fs[name].tensors[k].stem \in MlxSlots => <<name, k>> \in found
  OBVIOUS
<1>8. IsFiniteSet(found)
  <2> DEFINE of(name) == {<<name, k>> : k \in DOMAIN fs[name].tensors}
             ofs == {of(name) : name \in there}
  <2>1. ASSUME NEW name \in there PROVE IsFiniteSet(of(name))
    <3> DEFINE D == DOMAIN fs[name].tensors
               g == [k \in D |-> <<name, k>>]
    <3>1. of(name) = {g[k] : k \in D} /\ DOMAIN g = D
      OBVIOUS
    <3>2. IsFiniteSet(D)
      BY <1>5
    <3> HIDE DEF g, D, of
    <3> QED
      BY <3>1, <3>2, FiniteImage
  <2>2. IsFiniteSet(ofs)
    <3> DEFINE g == [name \in there |-> of(name)]
    <3>1. ofs = {g[name] : name \in there} /\ DOMAIN g = there
      OBVIOUS
    <3> HIDE DEF g, ofs, of, there
    <3> QED
      BY <1>4, <3>1, FiniteImage
  <2>3. \A s \in ofs : IsFiniteSet(s)
    BY <2>1
  <2>4. places = UNION ofs
    OBVIOUS
  <2> HIDE DEF ofs, of, places
  <2>5. IsFiniteSet(places)
    BY <2>2, <2>3, <2>4, FS_UNION
  <2>6. found \in SUBSET places
    OBVIOUS
  <2> HIDE DEF found
  <2> QED
    BY <2>5, <2>6, FS_Subset
<1>9. IsFiniteSet(sizes)
  <2> DEFINE g == [p \in found |-> t(p).shape[1]]
  <2>1. sizes = {g[p] : p \in found} /\ DOMAIN g = found
    OBVIOUS
  <2> HIDE DEF g, found, sizes
  <2> QED
    BY <1>8, <2>1, FiniteImage
<1> HIDE DEF slice, ix, w, m
<1>10. CASE found = {}
  <2>1. ix = <<>>
    BY <1>1, <1>2, <1>10
  <2> QED
    BY <2>1, RightNone DEF ix
<1>11. CASE found # {}
  <2>1. Cardinality(sizes) = 1 /\ ix = [j \in 1..n |-> [i \in 1..m |-> slice(w[i], n, j)]]
    BY <1>1, <1>2, <1>11
  <2>2. \A p \in found : t(p).shape[1] = n
    <3>1. \E x : sizes = {x}
      <4> HIDE DEF sizes
      <4> QED
        BY <1>9, <2>1, FS_Singleton
    <3>2. \A p \in found : t(p).shape[1] \in sizes
      OBVIOUS
    <3> HIDE DEF sizes, t, found
    <3> QED
      BY <3>1, <3>2
  <2> HIDE DEF sizes, n, found, there
  <2>3. ASSUME NEW p \in found
        PROVE  /\ IsFile(fs[p[1]]) /\ t(p) = fs[p[1]].tensors[p[2]] /\ p[2] \in DOMAIN fs[p[1]].tensors
               /\ IsTensor(t(p)) /\ IsExpert(t(p)) /\ t(p).expert < 0 /\ t(p).stem \in MlxSlots
               /\ t(p) \in Range(fs[p[1]].tensors)
    <3>1. /\ p[1] \in there /\ p[2] \in DOMAIN fs[p[1]].tensors /\ t(p).stem \in MlxSlots
          /\ t(p) = fs[p[1]].tensors[p[2]]
      BY <1>6
    <3>2. IsFile(fs[p[1]]) /\ \A u \in Range(fs[p[1]].tensors) : IsExpert(u) => u.expert < 0
      BY <1>3, <3>1
    <3>3. t(p) \in Range(fs[p[1]].tensors) /\ IsTensor(t(p))
      BY <3>1, <3>2, FileTensor
    <3> HIDE DEF t
    <3>4. IsExpert(t(p))
      BY <3>1, <3>3 DEF IsTensor, ExpertStems
    <3> QED
      BY <3>1, <3>2, <3>3, <3>4
  <2>4. ASSUME NEW p \in found
        PROVE  /\ n \in Nat \ {0} /\ NBytes(t(p)) \div n = Step(t(p)) /\ SlotName(t(p)) = t(p).stem
               /\ NumRows(t(p)) \in Nat \ {0} /\ NumCols(t(p)) \in Nat \ {0}
               /\ Step(t(p)) = NumRows(t(p)) * NumCols(t(p)) * t(p).item
    <3>1. IsTensor(t(p)) /\ IsExpert(t(p)) /\ t(p).expert < 0 /\ t(p).shape[1] = n /\ t(p).stem \in MlxSlots
      BY <2>2, <2>3
    <3> HIDE DEF t
    <3>2. Len(t(p).shape) = 3
      BY <3>1 DEF IsTensor
    <3>3. /\ n \in Nat \ {0} /\ NBytes(t(p)) = n * Step(t(p)) /\ Step(t(p)) \in Nat
          /\ NumRows(t(p)) \in Nat \ {0} /\ NumCols(t(p)) \in Nat \ {0}
      BY <3>1, <3>2, TensorSize
    <3>4. NBytes(t(p)) \div n = Step(t(p))
      BY <3>3, Share
    <3>5. SlotName(t(p)) = t(p).stem
      BY <3>1 DEF SlotName, SlotOf, MlxSlots
    <3> QED
      BY <3>3, <3>4, <3>5 DEF Step
  <2>5. /\ m \in Nat /\ DOMAIN w = 1..m /\ (\A i \in 1..m : w[i] \in found)
        /\ (\A h, i \in 1..m : w[h] = w[i] => h = i)
        /\ \A p \in found : \E i \in 1..m : w[i] = p
    BY <1>8, SetToSeqLemma DEF w, m
  <2> DEFINE rows == [i \in 1..m |-> NumRows(t(w[i]))]
             cols == [i \in 1..m |-> NumCols(t(w[i]))]
  <2>6. n \in Nat \ {0} /\ m \in Nat \ {0}
    <3>1. PICK p \in found : TRUE
      BY <1>11
    <3>2. \E i \in 1..m : w[i] = p
      BY <2>5, <3>1
    <3>3. m # 0
      BY <2>5, <3>2
    <3> QED
      BY <2>4, <2>5, <3>1, <3>3
  <2>7. ASSUME NEW h \in 1..m, NEW i \in 1..m, h # i
        PROVE  w[h] # w[i] /\ SlotName(t(w[h])) # SlotName(t(w[i]))
    <3>1. w[h] \in found /\ w[i] \in found /\ w[h] # w[i]
      BY <2>5, <2>7
    <3>2. SUFFICES ASSUME SlotName(t(w[h])) = SlotName(t(w[i])) PROVE FALSE
      BY <3>1
    <3> DEFINE p == w[h]  q == w[i]
    <3>3. p \in found /\ q \in found /\ p # q /\ SlotName(t(p)) = SlotName(t(q))
      BY <3>1, <3>2
    <3> HIDE DEF p, q
    <3>4. t(p).stem = t(q).stem
      BY <2>4, <3>3
    <3>5. /\ p = <<p[1], p[2]>> /\ q = <<q[1], q[2]>> /\ p[1] \in there /\ q[1] \in there
          /\ t(p) \in Range(fs[p[1]].tensors) /\ t(q) \in Range(fs[q[1]].tensors)
          /\ IsExpert(t(p)) /\ IsExpert(t(q)) /\ IsTensor(t(p)) /\ IsTensor(t(q))
          /\ t(p).expert < 0 /\ t(q).expert < 0
      BY <1>6, <2>3, <3>3
    <3> HIDE DEF t
    <3>6. p[1] = q[1]
      <4>1. p[1] \in DOMAIN fs /\ q[1] \in DOMAIN fs /\ CanRead(fs[p[1]]) /\ CanRead(fs[q[1]])
        BY <1>3, <3>5 DEF there
      <4> QED
        BY <3>4, <3>5, <4>1 DEF MlxFiles
    <3>7. t(p).expert = t(q).expert
      BY <3>5 DEF IsTensor
    <3>8. t(p) = t(q)
      <4>1. TensorsOnce(fs[p[1]].tensors)
        BY <2>3, <3>3 DEF IsFile
      <4> QED
        BY <3>3, <3>5, <3>6, <3>7, <4>1 DEF TensorsOnce
    <3>9. p[2] = q[2]
      <4>1. /\ p[2] \in DOMAIN fs[p[1]].tensors /\ q[2] \in DOMAIN fs[p[1]].tensors
            /\ fs[p[1]].tensors[p[2]] = fs[p[1]].tensors[q[2]] /\ IsInjective(fs[p[1]].tensors)
        BY <2>3, <3>3, <3>6, <3>8 DEF IsFile, TensorsOnce, t
      <4> QED
        BY <4>1 DEF IsInjective
    <3> QED
      BY <3>3, <3>5, <3>6, <3>9
  <2>8. ASSUME NEW i \in 1..m
        PROVE  LET f == fs[w[i][1]]  u == f.tensors[w[i][2]]
               IN  /\ w[i] = <<w[i][1], w[i][2]>> /\ w[i][1] \in DOMAIN fs
                   /\ IsFile(f) /\ ~Has(f, "gate_up_proj") /\ w[i][2] \in DOMAIN f.tensors
                   /\ IsExpert(u) /\ u.expert < 0 /\ SlotName(u) \in BankSlots /\ u.shape[1] = n
                   /\ rows[i] \in Nat \ {0} /\ cols[i] \in Nat \ {0}
                   /\ Step(u) = rows[i] * cols[i] * u.item
                   /\ \A k \in DOMAIN f.tensors :
                         IsExpert(f.tensors[k]) => \E h \in 1..m : w[h] = <<w[i][1], k>>
    <3> DEFINE p == w[i]  f == fs[p[1]]
    <3>1. p \in found /\ rows[i] = NumRows(t(p)) /\ cols[i] = NumCols(t(p)) /\ t(p) = f.tensors[p[2]]
      BY <2>5
    <3> HIDE DEF rows, cols
    <3>2. p = <<p[1], p[2]>> /\ p[1] \in there
      BY <1>6, <3>1
    <3>3. /\ IsFile(f) /\ p[2] \in DOMAIN f.tensors /\ IsExpert(t(p)) /\ t(p).expert < 0 /\ t(p).shape[1] = n
          /\ SlotName(t(p)) \in BankSlots
          /\ rows[i] \in Nat \ {0} /\ cols[i] \in Nat \ {0} /\ Step(t(p)) = rows[i] * cols[i] * t(p).item
      BY <2>2, <2>3, <2>4, <3>1 DEF BankSlots
    <3>4. p[1] \in DOMAIN fs /\ \A u \in Range(f.tensors) : IsExpert(u) => u.stem \in MlxSlots
      BY <1>3, <3>2
    <3>5. \A k \in DOMAIN f.tensors : f.tensors[k] \in Range(f.tensors) /\ IsTensor(f.tensors[k])
      BY <3>3, FileTensor
    <3>6. \A k \in DOMAIN f.tensors : IsExpert(f.tensors[k]) => \E h \in 1..m : w[h] = <<p[1], k>>
      <4>1. SUFFICES ASSUME NEW k \in DOMAIN f.tensors, IsExpert(f.tensors[k])
                     PROVE  \E h \in 1..m : w[h] = <<p[1], k>>
        OBVIOUS
      <4>2. f.tensors[k].stem \in MlxSlots
        BY <3>4, <3>5, <4>1
      <4>3. <<p[1], k>> \in found
        BY <1>7, <3>2, <4>2
      <4> QED
        BY <2>5, <4>3
    <3>7. ~Has(f, "gate_up_proj")
      <4>1. SUFFICES ASSUME NEW k \in DOMAIN f.tensors, f.tensors[k].stem = "gate_up_proj" PROVE FALSE
        BY DEF Has
      <4>2. IsExpert(f.tensors[k])
        BY <3>5, <4>1 DEF IsTensor, ExpertStems, StackedStems
      <4>3. "gate_up_proj" \in MlxSlots
        BY <3>4, <3>5, <4>1, <4>2
      <4> QED
        BY <4>3 DEF MlxSlots
    <3> HIDE DEF t
    <3> QED
      BY <3>1, <3>2, <3>3, <3>4, <3>6, <3>7
  <2>9. Stack(fs, w, m, n, rows, cols)
    <3> HIDE DEF rows, cols
    <3>1. \A h, i \in 1..m : h # i =>
              /\ w[h] # w[i]
              /\ SlotName(fs[w[h][1]].tensors[w[h][2]]) # SlotName(fs[w[i][1]].tensors[w[i][2]])
      BY <2>7
    <3> QED
      BY <2>5, <2>6, <2>8, <3>1 DEF Stack
  <2>10. ix = StackIndex(fs, w, n, rows, cols)
    <3> DEFINE st == StackIndex(fs, w, n, rows, cols)
               E(j, i) == Slice(w[i][1], SlotName(t(w[i])), Start(fs[w[i][1]], w[i][2]) + (j - 1) * Step(t(w[i])),
                                Step(t(w[i])), rows[i], cols[i])
    <3>1. st = [j \in 1..n |-> [i \in 1..m |-> E(j, i)]]
      BY <2>5 DEF StackIndex
    <3>2. \A j \in 1..n, i \in 1..m : slice(w[i], n, j) = E(j, i)
      BY <2>4, <2>5 DEF slice
    <3> HIDE DEF E, st
    <3> QED
      BY <2>1, <3>1, <3>2 DEF st
  <2>11. RightIndex(fs, StackIndex(fs, w, n, rows, cols))
    <3> HIDE DEF rows, cols
    <3> QED
      BY <2>9, RightStack
  <2> QED
    BY <2>10, <2>11 DEF ix
<1> QED
  BY <1>10, <1>11

\* The files of a layer that a pull or the v1 format wrote.
ShardFiles(fs) ==
    /\ DOMAIN fs = {"bank", "fused"}
    /\ \A n \in DOMAIN fs : CanRead(fs[n]) => IsFile(fs[n]) /\ OneLayout(fs[n].tensors)

\* The index of one file is right.
LEMMA RightFile ==
    ASSUME NEW fs, NEW name \in DOMAIN fs, IsFile(fs[name]), OneLayout(fs[name].tensors),
           IndexFile(fs[name], name) # Error
    PROVE  RightIndex(fs, IndexFile(fs[name], name))
<1> DEFINE f == fs[name]
           t(k) == f.tensors[k]
           stacked == {k \in DOMAIN f.tensors : IsExpert(t(k)) /\ t(k).expert < 0}
           single == {k \in DOMAIN f.tensors : IsExpert(t(k)) /\ t(k).expert >= 0}
           ix == IndexFile(f, name)
<1>1. ix = IF f.quant THEN Error
           ELSE IF stacked \cup single = {} THEN <<>>
           ELSE IF \E k \in stacked \cup single : t(k).item = 0 THEN Error
           ELSE IF stacked = {} THEN PerExpert(f, name)
           ELSE IF Has(f, "gate_up_proj") THEN IF Has(f, "down_proj") THEN FusedPair(f, name) ELSE Error
           ELSE IF \A stem \in {"w1", "w2", "w3"} : Has(f, stem) THEN FusedTriple(f, name) ELSE Error
  BY DEF IndexFile
<1>2. ix # Error
  OBVIOUS
<1>3. IsFile(f) /\ OneLayout(f.tensors)
  OBVIOUS
<1> HIDE DEF ix
<1>4. CASE stacked \cup single = {}
  <2>1. ix = <<>>
    BY <1>1, <1>2, <1>4
  <2> QED
    BY <2>1, RightNone DEF ix
<1>5. ASSUME NEW k \in DOMAIN f.tensors
      PROVE  /\ t(k) \in Range(f.tensors) /\ t(k).expert \in Int
             /\ IsExpert(t(k)) => k \in stacked \cup single
             /\ t(k).stem = "gate_up_proj" => IsExpert(t(k)) /\ t(k).expert < 0
  <2>1. t(k) \in Range(f.tensors) /\ IsTensor(t(k))
    BY <1>3, FileTensor
  <2>2. t(k).expert \in Int
    BY <2>1 DEF IsTensor
  <2>3. t(k).stem = "gate_up_proj" => IsExpert(t(k)) /\ t(k).expert < 0
    <3> HIDE DEF t
    <3>1. SUFFICES ASSUME t(k).stem = "gate_up_proj" PROVE IsExpert(t(k)) /\ t(k).expert < 0
      OBVIOUS
    <3>2. IsExpert(t(k))
      BY <2>1, <3>1 DEF IsTensor, ExpertStems, StackedStems
    <3>3. t(k).stem \notin DOMAIN SlotOf
      BY <3>1 DEF SlotOf
    <3> QED
      BY <3>2, <3>3 DEF IsExpert
  <2>4. IsExpert(t(k)) => t(k).expert < 0 \/ t(k).expert >= 0
    BY <2>2
  <2> QED
    BY <2>1, <2>2, <2>3, <2>4
<1>6. CASE stacked = {} /\ single # {}
  <2>1. ix = PerExpert(f, name)
    BY <1>1, <1>2, <1>6
  <2>2. ~Has(f, "gate_up_proj")
    BY <1>5, <1>6 DEF Has
  <2>3. \A k \in DOMAIN f.tensors : IsExpert(t(k)) => t(k).expert >= 0
    BY <1>5, <1>6
  <2>4. \E k \in DOMAIN f.tensors : IsExpert(t(k))
    BY <1>6
  <2>5. PerExpert(f, name) # Error
    BY <1>2, <2>1
  <2>6. RightIndex(fs, PerExpert(f, name))
    BY <1>3, <2>2, <2>3, <2>4, <2>5, RightSingle
  <2> QED
    BY <2>1, <2>6 DEF ix
<1>7. CASE stacked # {}
  <2>1. PICK k0 \in DOMAIN f.tensors : IsExpert(t(k0)) /\ t(k0).expert < 0
    BY <1>7
  <2>2. ~(t(k0).expert >= 0) /\ t(k0) \in Range(f.tensors)
    BY <1>5, <2>1
  <2>3. \A k \in DOMAIN f.tensors : IsExpert(f.tensors[k]) => f.tensors[k].expert < 0
    <3>1. \A u \in Range(f.tensors) : IsExpert(u) => u.expert < 0
      <4> HIDE DEF f
      <4> QED
        BY <1>3, <2>1, <2>2 DEF OneLayout
    <3> QED
      BY <1>5, <3>1
  <2>4. \/ ix = FusedPair(f, name) /\ Has(f, "gate_up_proj") /\ Has(f, "down_proj")
        \/ /\ ix = FusedTriple(f, name) /\ ~Has(f, "gate_up_proj")
           /\ \A stem \in {"w1", "w2", "w3"} : Has(f, stem)
    BY <1>1, <1>2, <1>7
  <2>5. CASE ix = FusedPair(f, name) /\ Has(f, "gate_up_proj") /\ Has(f, "down_proj")
    <3>1. RightIndex(fs, FusedPair(f, name))
      BY <1>3, <2>3, <2>5, RightPair
    <3> QED
      BY <2>5, <3>1 DEF ix
  <2>6. CASE /\ ix = FusedTriple(f, name) /\ ~Has(f, "gate_up_proj")
             /\ \A stem \in {"w1", "w2", "w3"} : Has(f, stem)
    <3>1. RightIndex(fs, FusedTriple(f, name))
      BY <1>3, <2>3, <2>6, RightTriple
    <3> QED
      BY <2>6, <3>1 DEF ix
  <2> QED
    BY <2>4, <2>5, <2>6
<1> QED
  BY <1>4, <1>6, <1>7

\* ExpertIndex.build(): what is found in a layer is right, or the build raises.
LEMMA RightIndexOf ==
    ASSUME NEW fs, ShardFiles(fs) \/ MlxFiles(fs), Index(fs) # Error
    PROVE  RightIndex(fs, Index(fs))
<1>1. CASE ShardFiles(fs)
  <2> DEFINE name == IF fs["bank"] # Lost THEN "bank" ELSE "fused"
  <2>1. Index(fs) = IF fs[name] \in {Lost, Unreadable} THEN <<>> ELSE IndexFile(fs[name], name)
    BY <1>1 DEF ShardFiles, Index, IndexShards
  <2>2. name \in DOMAIN fs
    BY <1>1 DEF ShardFiles
  <2> HIDE DEF name
  <2>3. CASE fs[name] \in {Lost, Unreadable}
    BY <2>1, <2>3, RightNone
  <2>4. CASE fs[name] \notin {Lost, Unreadable}
    <3>1. IsFile(fs[name]) /\ OneLayout(fs[name].tensors)
      BY <1>1, <2>2, <2>4 DEF ShardFiles, CanRead
    <3>2. Index(fs) = IndexFile(fs[name], name)
      BY <2>1, <2>4
    <3> QED
      BY <2>2, <3>1, <3>2, RightFile
  <2> QED
    BY <2>3, <2>4
<1>2. CASE MlxFiles(fs)
  <2>1. Index(fs) = IndexMlx(fs)
    BY <1>2 DEF MlxFiles, Index
  <2> QED
    BY <1>2, <2>1, RightMlx
<1> QED
  BY <1>1, <1>2

-----------------------------------------------------------------------------
(* What an index stays while its files are damaged.                        *)

\* A file with the header and the tensors of another has its matrices.
SameContent(f, g) == f.header = g.header /\ f.tensors = g.tensors

\* Its tensors start where they did.
LEMMA SameStart ==
    ASSUME NEW f, NEW g, SameContent(f, g)
    PROVE  \A k : Start(f, k) = Start(g, k)
<1> DEFINE S(h, ts, k) == h + SumFunction([i \in DOMAIN ts |-> IF i < k THEN NBytes(ts[i]) ELSE 0])
<1>1. \A k : Start(f, k) = S(f.header, f.tensors, k) /\ Start(g, k) = S(g.header, g.tensors, k)
  BY DEF Start
<1> HIDE DEF S
<1> QED
  BY <1>1 DEF SameContent

\* Its matrices are what they were.
LEMMA SameReference ==
    ASSUME NEW f, NEW g, SameContent(f, g), NEW j, NEW slot
    PROVE  Reference(f, j, slot) = Reference(g, j, slot)
<1> DEFINE S(h, ts, k) == h + SumFunction([i \in DOMAIN ts |-> IF i < k THEN NBytes(ts[i]) ELSE 0])
           R(h, ts, k, jj, first, last) ==
               LET row == NumCols(ts[k]) * ts[k].item
                   before == (IF ts[k].expert < 0 THEN (jj - 1) * NumRows(ts[k]) ELSE 0) + first
               IN  [i \in 1..((last - first + 1) * row) |-> S(h, ts, k) + before * row + i - 1]
           A(ts, stem) == CHOOSE k \in DOMAIN ts : ts[k].stem = stem
           H(ts, stem) == \E k \in DOMAIN ts : ts[k].stem = stem
           X(h, ts) ==
               IF H(ts, "gate_up_proj")
               THEN LET gu == A(ts, "gate_up_proj")  inter == ts[gu].shape[2] \div 2
                    IN  CASE slot = "gate" -> R(h, ts, gu, j, 0, inter - 1)
                          [] slot = "up" -> R(h, ts, gu, j, inter, 2 * inter - 1)
                          [] slot = "down" -> R(h, ts, A(ts, "down_proj"), j, 0, ts[gu].shape[3] - 1)
               ELSE LET k == CHOOSE m \in DOMAIN ts :
                                 /\ IsExpert(ts[m]) /\ ts[m].expert \in {-1, j - 1}
                                 /\ slot = SlotName(ts[m])
                    IN  R(h, ts, k, j, 0, NumRows(ts[k]) - 1)
<1>1. Reference(f, j, slot) = X(f.header, f.tensors)
  BY DEF Reference, Rows, Start, Has, At
<1>2. Reference(g, j, slot) = X(g.header, g.tensors)
  BY DEF Reference, Rows, Start, Has, At
<1> HIDE DEF X
<1> QED
  BY <1>1, <1>2 DEF SameContent

\* The matrix of a slice.
Bytes(s) == [i \in 1..s.nbytes |-> s.offset + i - 1]

\* What an index of a layer stays.
IndexOK(fs, slices) ==
    /\ \A j \in DOMAIN slices :
          /\ slices[j] \in Seq(SlicesIn(fs)) /\ slices[j] # <<>>
          /\ \A i, m \in DOMAIN slices[j] : slices[j][i].slot = slices[j][m].slot => i = m
          /\ \A i \in DOMAIN slices[j] :
                CanRead(fs[slices[j][i].file]) => Own(fs[slices[j][i].file], j, slices[j][i])
    /\ (\A n \in FilesOf(slices) : CanRead(fs[n])) => Partitioned(fs, slices)

\* What is damaged has the tensors it had, if it can be read.
Worse(fs, worse) ==
    /\ DOMAIN worse = DOMAIN fs
    /\ \A n \in DOMAIN fs : CanRead(worse[n]) =>
          /\ CanRead(fs[n]) /\ SameContent(fs[n], worse[n])
          /\ IsFile(fs[n]) => IsFile(worse[n])

\* A file that was cut has the tensors it had.
LEMMA ShorterFile ==
    ASSUME NEW f, IsFile(f), NEW g, g = [f EXCEPT !.length = @ - 1]
    PROVE  IsFile(g) /\ SameContent(f, g)
<1> DEFINE h == f.header  ts == f.tensors  q == f.quant  n == f.length
<1>1. f = [header |-> h, tensors |-> ts, quant |-> q, length |-> n]
  BY DEF IsFile
<1> HIDE DEF h, ts, q, n
<1>2. g = [header |-> h, tensors |-> ts, quant |-> q, length |-> n - 1]
  BY <1>1
<1>3. g.header = h /\ g.tensors = ts /\ g.quant = q /\ g.length = n - 1
  BY <1>2
<1>4. h \in Nat /\ TensorsOnce(ts)
  BY DEF IsFile, h, ts
<1> QED
  BY <1>2, <1>3, <1>4 DEF IsFile, SameContent, h, ts

\* Damage makes no index wrong: what it has of a file that can be read stays right.
LEMMA WorseOK ==
    ASSUME NEW fs, NEW worse, Worse(fs, worse)
    PROVE  /\ ShardFiles(fs) => ShardFiles(worse)
           /\ MlxFiles(fs) => MlxFiles(worse)
           /\ \A slices : IndexOK(fs, slices) => IndexOK(worse, slices)
<1>1. /\ DOMAIN worse = DOMAIN fs
      /\ \A n \in DOMAIN fs : CanRead(worse[n]) =>
            /\ CanRead(fs[n]) /\ worse[n].header = fs[n].header /\ worse[n].tensors = fs[n].tensors
            /\ IsFile(fs[n]) => IsFile(worse[n])
  BY DEF Worse, SameContent
<1>2. ASSUME ShardFiles(fs) PROVE ShardFiles(worse)
  BY <1>1, <1>2 DEF ShardFiles
<1>3. ASSUME MlxFiles(fs) PROVE MlxFiles(worse)
  <2>1. \A n \in DOMAIN worse : CanRead(worse[n]) =>
            /\ IsFile(worse[n])
            /\ \A t \in Range(worse[n].tensors) : IsExpert(t) => t.stem \in MlxSlots /\ t.expert < 0
    BY <1>1, <1>3 DEF MlxFiles
  <2>2. \A n, m \in DOMAIN worse : n # m /\ CanRead(worse[n]) /\ CanRead(worse[m]) =>
            \A t \in Range(worse[n].tensors), u \in Range(worse[m].tensors) :
                IsExpert(t) /\ IsExpert(u) => t.stem # u.stem
    BY <1>1, <1>3 DEF MlxFiles
  <2> QED
    BY <1>1, <1>3, <2>1, <2>2 DEF MlxFiles
<1>4. ASSUME NEW slices, IndexOK(fs, slices) PROVE IndexOK(worse, slices)
  <2>1. SlicesIn(worse) = SlicesIn(fs)
    BY <1>1 DEF SlicesIn
  <2>2. ASSUME NEW j \in DOMAIN slices, NEW i \in DOMAIN slices[j]
        PROVE  slices[j][i].file \in DOMAIN fs
    <3>1. slices[j] \in Seq(SlicesIn(fs))
      BY <1>4 DEF IndexOK
    <3>2. slices[j][i] \in SlicesIn(fs)
      BY <3>1
    <3> QED
      BY <3>2 DEF SlicesIn
  <2>3. ASSUME NEW j \in DOMAIN slices, NEW i \in DOMAIN slices[j], CanRead(worse[slices[j][i].file])
        PROVE  Own(worse[slices[j][i].file], j, slices[j][i])
    <3> DEFINE s == slices[j][i]
    <3>1. CanRead(fs[s.file]) /\ SameContent(fs[s.file], worse[s.file])
      BY <2>2, <2>3 DEF Worse
    <3>2. Own(fs[s.file], j, s)
      BY <1>4, <3>1 DEF IndexOK
    <3>3. Reference(fs[s.file], j, s.slot) = Reference(worse[s.file], j, s.slot)
      BY <3>1, SameReference
    <3> HIDE DEF s
    <3>4. Own(worse[s.file], j, s)
      BY <3>2, <3>3 DEF Own
    <3> QED
      BY <3>4 DEF s
  <2>4. ASSUME \A n \in FilesOf(slices) : CanRead(worse[n])
        PROVE  Partitioned(worse, slices)
    <3>1. \A n \in FilesOf(slices) : n \in DOMAIN fs
      <4>1. SUFFICES ASSUME NEW p \in Places(slices) PROVE slices[p[1]][p[2]].file \in DOMAIN fs
        BY DEF FilesOf
      <4>2. p[1] \in DOMAIN slices /\ p[2] \in DOMAIN slices[p[1]]
        BY DEF Places
      <4> QED
        BY <2>2, <4>2
    <3>2. \A n \in FilesOf(slices) : CanRead(fs[n]) /\ SameContent(fs[n], worse[n])
      BY <2>4, <3>1 DEF Worse
    <3>3. Partitioned(fs, slices)
      BY <1>4, <3>2 DEF IndexOK
    <3> DEFINE Part(dir, n) == UNION {TensorBytes(dir, n, k) :
                                        k \in {m \in DOMAIN dir[n].tensors : IsExpert(dir[n].tensors[m])}}
    <3>4. \A n \in FilesOf(slices) : Part(fs, n) = Part(worse, n)
      <4>1. TAKE n \in FilesOf(slices)
      <4>2. fs[n].tensors = worse[n].tensors /\ SameContent(fs[n], worse[n])
        BY <3>2 DEF SameContent
      <4>3. \A k : TensorBytes(fs, n, k) = TensorBytes(worse, n, k)
        <5>1. \A k : Start(fs[n], k) = Start(worse[n], k)
          BY <4>2, SameStart
        <5> QED
          BY <5>1 DEF TensorBytes
      <4> QED
        BY <4>2, <4>3
    <3>5. UNION {Part(fs, n) : n \in FilesOf(slices)} = UNION {Part(worse, n) : n \in FilesOf(slices)}
      <4> HIDE DEF Part
      <4> QED
        BY <3>4
    <3> QED
      BY <3>3, <3>5 DEF Partitioned
  <2> QED
    BY <1>4, <2>1, <2>3, <2>4 DEF IndexOK
<1> QED
  BY <1>2, <1>3, <1>4

-----------------------------------------------------------------------------
(* The inductive invariant of the banks.                                   *)

\* The files of every layer are well formed, as far as they can be read.
FilesOK == \A l \in BankLayers : ShardFiles(shards[l]) \/ MlxFiles(shards[l])

\* The index was built, and it did not raise.
HasIndex == index \notin {Unbuilt, Error}

\* The slices of the expert that is read.
AllSlices == index[read.layer][read.expert]

\* k bytes of slice d + 1 are in the buffer, and its file is open.
AtSlice(d) ==
    /\ d < Len(AllSlices) /\ read.offset \in Nat
    /\ \E k \in Nat : /\ k <= AllSlices[d + 1].nbytes
                      /\ read.offset = AllSlices[d + 1].offset + k
                      /\ read.buf = [i \in 1..k |-> AllSlices[d + 1].offset + i - 1]
    /\ shards[read.layer][AllSlices[d + 1].file] # Lost

\* The first d slices are read, and the others are left.
ReadUpTo(d) ==
    /\ Len(read.slices) = Len(AllSlices) - d
    /\ \A i \in 1..Len(read.slices) : read.slices[i] = AllSlices[d + i]
    /\ \A i \in 1..d :
          /\ AllSlices[i].slot \in DOMAIN read.out
          /\ read.out[AllSlices[i].slot] =
                 [rows |-> AllSlices[i].rows, cols |-> AllSlices[i].cols, bytes |-> Bytes(AllSlices[i])]
          /\ shards[read.layer][AllSlices[i].file] # Lost
    /\ read.pc = "reading" => AtSlice(d)
    /\ read.pc = "returned" => d = Len(AllSlices)

\* A read is of an expert of the index and has its first d slices.
ReadOK ==
    read # NoRead =>
        /\ HasIndex /\ read.layer \in BankLayers /\ read.expert \in DOMAIN index[read.layer]
        /\ read = [pc |-> read.pc, layer |-> read.layer, expert |-> read.expert, slices |-> read.slices,
                   out |-> read.out, offset |-> read.offset, buf |-> read.buf]
        /\ read.pc \in {"reading", "returned", "raised"}
        /\ read.slices \in Seq(SlicesIn(shards[read.layer]))
        /\ \E d \in Nat : d <= Len(AllSlices) /\ ReadUpTo(d)

\* The inductive invariant: well-formed files, an index that is right for what can be
\* read of them, and a read that has what it has read.
BankInv ==
    /\ DOMAIN shards = BankLayers /\ FilesOK
    /\ HasIndex => \A l \in BankLayers : IndexOK(shards[l], index[l])
    /\ ReadOK

\* What a state dict keeps of its experts is well formed as it is.
LEMMA KeptTensors ==
    ASSUME NEW ts, TensorsOnce(ts), OneLayout(ts), NEW T
    PROVE  TensorsOnce(Kept(ts, T)) /\ OneLayout(Kept(ts, T))
<1> DEFINE k == Kept(ts, T)
<1>1. ts \in Seq(Range(ts)) /\ IsInjective(ts)
  BY DEF TensorsOnce
<1>2. k \in Seq(Range(ts)) /\ Range(k) = Range(ts) \cap T /\ IsInjective(k)
  BY <1>1, KeptLemma
<1> HIDE DEF k
<1>3. k \in Seq(Range(k))
  <2>1. \A i \in 1..Len(k) : k[i] \in Range(k)
    BY <1>2 DEF Range
  <2>2. Len(k) \in Nat /\ k = [i \in 1..Len(k) |-> k[i]]
    BY <1>2
  <2> QED
    BY <2>1, <2>2
<1>4. Range(k) \subseteq Range(ts)
  BY <1>2
<1>5. TensorsOnce(k)
  BY <1>2, <1>3, <1>4 DEF TensorsOnce
<1>6. OneLayout(k)
  BY <1>4 DEF OneLayout
<1> QED
  BY <1>5, <1>6 DEF k

\* A file that is written has the tensors that were given.
LEMMA FileOf ==
    ASSUME NEW header \in Nat, NEW ts, TensorsOnce(ts)
    PROVE  IsFile(File(header, ts)) /\ File(header, ts).tensors = ts
<1> DEFINE g == [header |-> header, tensors |-> ts, quant |-> FALSE, length |-> 0]
           f == File(header, ts)  e == End(g)
<1>1. f = [g EXCEPT !.length = e]
  BY DEF File
<1> HIDE DEF e, f
<1>2. f = [header |-> header, tensors |-> ts, quant |-> FALSE, length |-> e]
  BY <1>1
<1>3. f.header = header /\ f.tensors = ts /\ f.quant = FALSE /\ f.length = e
  BY <1>2
<1>4. IsFile(f)
  BY <1>2, <1>3 DEF IsFile
<1> QED
  BY <1>3, <1>4 DEF f

\* A directory just made.
LEMMA BankInitOK == BankInit => BankInv
<1> SUFFICES ASSUME BankInit PROVE BankInv
  OBVIOUS
<1>1. index = Unbuilt /\ read = NoRead
  BY DEF BankInit
<1>2. PICK header \in HeaderLengths :
          \/ \E state \in [BankLayers -> States], split \in BOOLEAN :
                shards = [l \in BankLayers |->
                    IF split /\ ExpertsOf(state[l]) # <<>>
                    THEN [bank |-> File(header, ExpertsOf(state[l])), fused |-> File(header, DenseOf(state[l]))]
                    ELSE [bank |-> Lost, fused |-> File(header, state[l])]]
          \/ \E checkpoint \in [BankLayers -> MlxCheckpoints] :
                shards = [l \in BankLayers |->
                    [name \in DOMAIN checkpoint[l] |-> File(header, checkpoint[l][name])]]
  BY DEF BankInit
<1>3. header \in Nat
  BY BankAssumption
<1>4. CASE \E state \in [BankLayers -> States], split \in BOOLEAN :
              shards = [l \in BankLayers |->
                  IF split /\ ExpertsOf(state[l]) # <<>>
                  THEN [bank |-> File(header, ExpertsOf(state[l])), fused |-> File(header, DenseOf(state[l]))]
                  ELSE [bank |-> Lost, fused |-> File(header, state[l])]]
  <2>1. PICK state \in [BankLayers -> States], split \in BOOLEAN :
            shards = [l \in BankLayers |->
                  IF split /\ ExpertsOf(state[l]) # <<>>
                  THEN [bank |-> File(header, ExpertsOf(state[l])), fused |-> File(header, DenseOf(state[l]))]
                  ELSE [bank |-> Lost, fused |-> File(header, state[l])]]
    BY <1>4
  <2>2. ASSUME NEW l \in BankLayers PROVE ShardFiles(shards[l])
    <3>1. TensorsOnce(state[l]) /\ OneLayout(state[l])
      BY BankAssumption
    <3>2. /\ TensorsOnce(ExpertsOf(state[l])) /\ OneLayout(ExpertsOf(state[l]))
          /\ TensorsOnce(DenseOf(state[l])) /\ OneLayout(DenseOf(state[l]))
      BY <3>1, KeptTensors DEF ExpertsOf, DenseOf
    <3> DEFINE a == File(header, ExpertsOf(state[l]))
               b == File(header, DenseOf(state[l]))
               c == File(header, state[l])
    <3>3. /\ IsFile(a) /\ OneLayout(a.tensors) /\ IsFile(b) /\ OneLayout(b.tensors)
          /\ IsFile(c) /\ OneLayout(c.tensors)
      BY <1>3, <3>1, <3>2, FileOf
    <3>4. \/ shards[l] = [bank |-> a, fused |-> b]
          \/ shards[l] = [bank |-> Lost, fused |-> c]
      BY <2>1
    <3> HIDE DEF a, b, c
    <3>5. CASE shards[l] = [bank |-> a, fused |-> b]
      <4>1. DOMAIN shards[l] = {"bank", "fused"} /\ shards[l]["bank"] = a /\ shards[l]["fused"] = b
        BY <3>5
      <4> QED
        BY <3>3, <4>1 DEF ShardFiles
    <3>6. CASE shards[l] = [bank |-> Lost, fused |-> c]
      <4>1. DOMAIN shards[l] = {"bank", "fused"} /\ shards[l]["bank"] = Lost /\ shards[l]["fused"] = c
        BY <3>6
      <4>2. ~CanRead(Lost)
        BY DEF CanRead
      <4> QED
        BY <3>3, <4>1, <4>2 DEF ShardFiles
    <3> QED
      BY <3>4, <3>5, <3>6
  <2>3. DOMAIN shards = BankLayers
    BY <2>1
  <2> QED
    BY <1>1, <2>2, <2>3 DEF BankInv, FilesOK, HasIndex, ReadOK
<1>5. CASE \E checkpoint \in [BankLayers -> MlxCheckpoints] :
              shards = [l \in BankLayers |->
                  [name \in DOMAIN checkpoint[l] |-> File(header, checkpoint[l][name])]]
  <2>1. PICK checkpoint \in [BankLayers -> MlxCheckpoints] :
            shards = [l \in BankLayers |->
                  [name \in DOMAIN checkpoint[l] |-> File(header, checkpoint[l][name])]]
    BY <1>5
  <2>2. ASSUME NEW l \in BankLayers PROVE MlxFiles(shards[l])
    <3> DEFINE c == checkpoint[l]
    <3>1. /\ IsFiniteSet(DOMAIN c) /\ "bank" \notin DOMAIN c
          /\ \A name \in DOMAIN c :
                /\ TensorsOnce(c[name])
                /\ \A t \in Range(c[name]) :
                      IsExpert(t) => t.stem \in MlxSlots /\ t.expert < 0 /\ t.item > 0
          /\ \A n, m \in DOMAIN c : n # m =>
                \A t \in Range(c[n]), u \in Range(c[m]) : IsExpert(t) /\ IsExpert(u) => t.stem # u.stem
      BY BankAssumption
    <3>2. /\ DOMAIN shards[l] = DOMAIN c
          /\ \A name \in DOMAIN c : shards[l][name] = File(header, c[name])
      BY <2>1
    <3> HIDE DEF c
    <3>3. \A name \in DOMAIN c : IsFile(shards[l][name]) /\ shards[l][name].tensors = c[name]
      BY <1>3, <3>1, <3>2, FileOf
    <3> QED
      BY <3>1, <3>2, <3>3 DEF MlxFiles
  <2>3. DOMAIN shards = BankLayers
    BY <2>1
  <2> QED
    BY <1>1, <2>2, <2>3 DEF BankInv, FilesOK, HasIndex, ReadOK
<1> QED
  BY <1>2, <1>4, <1>5

\* ExpertIndex.build() and index_mlx_checkpoint().
LEMMA BuildOK == BankInv /\ Build => BankInv'
<1> SUFFICES ASSUME BankInv, Build PROVE BankInv'
  OBVIOUS
<1>1. /\ index = Unbuilt /\ shards' = shards /\ read' = read
      /\ index' = IF \E l \in BankLayers : Index(shards[l]) = Error THEN Error ELSE [l \in BankLayers |-> Index(shards[l])]
  BY DEF Build
<1>2. read = NoRead
  BY <1>1 DEF BankInv, ReadOK, HasIndex
<1>3. ASSUME index' \notin {Unbuilt, Error}, NEW l \in BankLayers
      PROVE  IndexOK(shards[l], index'[l])
  <2>1. index'[l] = Index(shards[l]) /\ Index(shards[l]) # Error
    BY <1>1, <1>3
  <2>2. RightIndex(shards[l], Index(shards[l]))
    BY <2>1, RightIndexOf DEF BankInv, FilesOK
  <2> QED
    BY <2>1, <2>2 DEF RightIndex, IndexOK
<1>4. (HasIndex => \A l \in BankLayers : IndexOK(shards[l], index[l]))'
  BY <1>1, <1>3 DEF HasIndex
<1> QED
  BY <1>1, <1>2, <1>4 DEF BankInv, FilesOK, ReadOK

\* A file that is lost, cut or unreadable.
LEMMA DamageOK ==
    ASSUME NEW l \in BankLayers, NEW name \in DOMAIN shards[l], BankInv, DamageBank(l, name)
    PROVE  BankInv'
<1>1. /\ read = NoRead /\ Whole(shards[l][name]) /\ index' = index /\ read' = read
  BY DEF DamageBank
<1>2. PICK bad \in {Lost, Unreadable, [shards[l][name] EXCEPT !.length = @ - 1]} :
          shards' = [shards EXCEPT ![l][name] = bad]
  BY DEF DamageBank
<1>3. DOMAIN shards = BankLayers
  BY DEF BankInv
<1> DEFINE fs == shards[l]  worse == [fs EXCEPT ![name] = bad]
<1>4. shards' = [shards EXCEPT ![l] = worse]
  BY <1>2
<1>5. DOMAIN shards' = BankLayers /\ shards'[l] = worse /\ \A x \in BankLayers : x # l => shards'[x] = shards[x]
  BY <1>3, <1>4
<1>6. Worse(fs, worse)
  <2>1. DOMAIN worse = DOMAIN fs /\ \A n \in DOMAIN fs : worse[n] = IF n = name THEN bad ELSE fs[n]
    OBVIOUS
  <2>2. CanRead(fs[name])
    BY <1>1 DEF Whole, CanRead
  <2>3. CanRead(bad) => bad = [fs[name] EXCEPT !.length = @ - 1]
    BY DEF CanRead
  <2> DEFINE f == fs[name]
  <2>4. IsFile(f)
    BY <2>2 DEF BankInv, FilesOK, ShardFiles, MlxFiles
  <2>5. CanRead(bad) => SameContent(f, bad) /\ IsFile(bad)
    <3> HIDE DEF f
    <3>1. f = fs[name]
      BY DEF f
    <3> QED
      BY <2>3, <2>4, <3>1, ShorterFile
  <2> HIDE DEF fs, worse
  <2>6. \A n : SameContent(fs[n], fs[n])
    BY DEF SameContent
  <2> QED
    BY <2>1, <2>2, <2>5, <2>6 DEF Worse
<1> HIDE DEF fs, worse
<1>7. FilesOK'
  <2>1. ASSUME NEW x \in BankLayers PROVE ShardFiles(shards'[x]) \/ MlxFiles(shards'[x])
    <3>1. ShardFiles(shards[x]) \/ MlxFiles(shards[x])
      BY DEF BankInv, FilesOK
    <3>2. CASE x = l
      BY <1>5, <1>6, <3>1, <3>2, WorseOK DEF fs
    <3>3. CASE x # l
      BY <1>5, <3>1, <3>3
    <3> QED
      BY <3>2, <3>3
  <2> QED
    BY <2>1 DEF FilesOK
<1>8. (HasIndex => \A x \in BankLayers : IndexOK(shards[x], index[x]))'
  <2>1. ASSUME HasIndex, NEW x \in BankLayers PROVE IndexOK(shards'[x], index[x])
    <3>1. IndexOK(shards[x], index[x])
      BY <2>1 DEF BankInv
    <3>2. CASE x = l
      BY <1>5, <1>6, <3>1, <3>2, WorseOK DEF fs
    <3>3. CASE x # l
      BY <1>5, <3>1, <3>3
    <3> QED
      BY <3>2, <3>3
  <2> QED
    BY <1>1, <2>1 DEF HasIndex
<1> QED
  BY <1>1, <1>5, <1>7, <1>8 DEF BankInv, ReadOK

\* What the bytes and the preads of a read leave of the invariant to show.
LEMMA ReadStep ==
    ASSUME BankInv, UNCHANGED <<shards, index>>, ReadOK'
    PROVE  BankInv'
BY DEF BankInv, FilesOK, HasIndex

\* The slices of an expert, and what is left of them after d.
LEMMA SlicesOf ==
    ASSUME BankInv, read # NoRead
    PROVE  /\ HasIndex /\ read.layer \in BankLayers /\ read.expert \in DOMAIN index[read.layer]
           /\ IndexOK(shards[read.layer], index[read.layer])
           /\ AllSlices \in Seq(SlicesIn(shards[read.layer])) /\ AllSlices # <<>>
           /\ \A i, m \in DOMAIN AllSlices : AllSlices[i].slot = AllSlices[m].slot => i = m
           /\ Len(AllSlices) \in Nat
           /\ \A i \in 1..Len(AllSlices) :
                 /\ AllSlices[i].offset \in Nat /\ AllSlices[i].nbytes \in Nat
                 /\ i \in DOMAIN AllSlices
<1>1. HasIndex /\ read.layer \in BankLayers /\ read.expert \in DOMAIN index[read.layer]
  BY DEF BankInv, ReadOK
<1>2. IndexOK(shards[read.layer], index[read.layer])
  BY <1>1 DEF BankInv
<1>3. /\ AllSlices \in Seq(SlicesIn(shards[read.layer])) /\ AllSlices # <<>>
      /\ \A i, m \in DOMAIN AllSlices : AllSlices[i].slot = AllSlices[m].slot => i = m
  BY <1>1, <1>2 DEF IndexOK, AllSlices
<1>4. /\ Len(AllSlices) \in Nat
      /\ \A i \in 1..Len(AllSlices) : AllSlices[i] \in SlicesIn(shards[read.layer]) /\ i \in DOMAIN AllSlices
  BY <1>3
<1>5. \A s \in SlicesIn(shards[read.layer]) : s.offset \in Nat /\ s.nbytes \in Nat
  BY DEF SlicesIn
<1> QED
  BY <1>1, <1>2, <1>3, <1>4, <1>5

\* A read that opens the file of slice d + 1.
LEMMA OpenedOK ==
    ASSUME NEW l \in BankLayers, NEW j \in DOMAIN index[l], NEW slices, NEW got, NEW d \in Nat,
           HasIndex, slices \in Seq(SlicesIn(shards[l])), slices # <<>>,
           index[l][j] \in Seq(SlicesIn(shards[l])), d < Len(index[l][j]),
           Len(slices) = Len(index[l][j]) - d,
           \A i \in 1..Len(slices) : slices[i] = index[l][j][d + i],
           \A i \in 1..d :
              /\ index[l][j][i].slot \in DOMAIN got
              /\ got[index[l][j][i].slot] =
                     [rows |-> index[l][j][i].rows, cols |-> index[l][j][i].cols, bytes |-> Bytes(index[l][j][i])]
              /\ shards[l][index[l][j][i].file] # Lost,
           UNCHANGED <<shards, index>>, read' = Opened(l, j, slices, got)
    PROVE  ReadOK'
<1> DEFINE all == index[l][j]
<1>1. /\ read'.layer = l /\ read'.expert = j /\ read'.slices = slices /\ read'.out = got
      /\ read'.offset = slices[1].offset /\ read'.buf = <<>>
      /\ read'.pc = IF shards[l][slices[1].file] = Lost THEN "raised" ELSE "reading"
      /\ read' = [pc |-> read'.pc, layer |-> read'.layer, expert |-> read'.expert, slices |-> read'.slices,
                  out |-> read'.out, offset |-> read'.offset, buf |-> read'.buf]
  BY DEF Opened
<1>2. AllSlices' = all
  BY <1>1 DEF AllSlices
<1>3. 1 \in 1..Len(slices) /\ slices[1] = all[d + 1] /\ all[d + 1] \in SlicesIn(shards[l])
  <2>1. 1 \in 1..Len(slices) /\ d + 1 \in 1..Len(all) /\ all \in Seq(SlicesIn(shards[l]))
    OBVIOUS
  <2> HIDE DEF all
  <2>2. all[d + 1] \in SlicesIn(shards[l])
    BY <2>1
  <2> QED
    BY <2>1, <2>2 DEF all
<1>4. all[d + 1].offset \in Nat /\ all[d + 1].nbytes \in Nat
  BY <1>3 DEF SlicesIn
<1>5. read'.pc = "reading" => AtSlice(d)'
  <2>1. SUFFICES ASSUME read'.pc = "reading" PROVE AtSlice(d)'
    OBVIOUS
  <2>2. shards[l][all[d + 1].file] # Lost
    BY <1>1, <1>3, <2>1
  <2>3. read'.offset = all[d + 1].offset + 0 /\ read'.offset \in Nat
    <3> DEFINE x == all[d + 1].offset
    <3>1. read'.offset = x /\ x \in Nat
      BY <1>1, <1>3, <1>4
    <3> HIDE DEF x
    <3>2. x + 0 = x
      BY <3>1
    <3> QED
      BY <3>1, <3>2 DEF x
  <2>4. read'.buf = [i \in 1..0 |-> all[d + 1].offset + i - 1]
    BY <1>1
  <2>5. 0 \in Nat /\ 0 <= all[d + 1].nbytes /\ d < Len(all)
    BY <1>4
  <2> QED
    BY <1>1, <1>2, <2>2, <2>3, <2>4, <2>5 DEF AtSlice
<1>6. ReadUpTo(d)'
  <2> HIDE DEF all
  <2> QED
    BY <1>1, <1>2, <1>5 DEF ReadUpTo, all
<1>7. d <= Len(all)
  OBVIOUS
<1> HIDE DEF all
<1>8. \E e \in Nat : e <= Len(AllSlices') /\ ReadUpTo(e)'
  BY <1>2, <1>6, <1>7
<1> QED
  BY <1>1, <1>8 DEF ReadOK, HasIndex

\* read_expert() opens the file of its first slice.
LEMMA OpenOK ==
    ASSUME NEW l \in BankLayers, NEW j, BankInv, OpenExpert(l, j)
    PROVE  BankInv'
<1>1. /\ HasIndex /\ j \in DOMAIN index[l] /\ read' = Opened(l, j, index[l][j], <<>>)
      /\ UNCHANGED <<shards, index>>
  BY DEF OpenExpert, HasIndex
<1>2. index[l][j] \in Seq(SlicesIn(shards[l])) /\ index[l][j] # <<>>
  BY <1>1 DEF BankInv, IndexOK
<1> DEFINE all == index[l][j]
<1>3. Len(all) \in Nat /\ 0 < Len(all) /\ Len(all) = Len(all) - 0 /\ \A i \in 1..Len(all) : all[i] = all[0 + i]
  <2> HIDE DEF all
  <2>1. all \in Seq(SlicesIn(shards[l])) /\ all # <<>>
    BY <1>2 DEF all
  <2> QED
    BY <2>1
<1>4. ReadOK'
  BY <1>1, <1>2, <1>3, OpenedOK
<1> QED
  BY <1>1, <1>4, ReadStep

\* The reads that go on with the slice they are at.
LEMMA CurrentSlice ==
    ASSUME BankInv, read.pc = "reading", read # NoRead,
           NEW d \in Nat, d <= Len(AllSlices), ReadUpTo(d)
    PROVE  /\ AtSlice(d) /\ Slot = AllSlices[d + 1] /\ d < Len(AllSlices)
           /\ Slot.offset \in Nat /\ Slot.nbytes \in Nat
           /\ Len(read.slices) = Len(AllSlices) - d /\ read.slices \in Seq(SlicesIn(shards[read.layer]))
           /\ \A i \in 1..Len(read.slices) : read.slices[i] = AllSlices[d + i]
<1>1. AtSlice(d) /\ d < Len(AllSlices) /\ Len(AllSlices) \in Nat
  BY SlicesOf DEF ReadUpTo, AtSlice
<1>2. /\ Len(read.slices) = Len(AllSlices) - d /\ read.slices \in Seq(SlicesIn(shards[read.layer]))
      /\ \A i \in 1..Len(read.slices) : read.slices[i] = AllSlices[d + i]
  BY DEF ReadUpTo, BankInv, ReadOK
<1>3. Slot = read.slices[1] /\ 1 \in 1..Len(read.slices)
  BY <1>1, <1>2 DEF Slot
<1>4. Slot = AllSlices[d + 1]
  BY <1>2, <1>3
<1>5. d + 1 \in 1..Len(AllSlices)
  BY <1>1
<1>6. Slot.offset \in Nat /\ Slot.nbytes \in Nat
  BY <1>4, <1>5, SlicesOf
<1> QED
  BY <1>1, <1>2, <1>4, <1>6

\* A pread, short or not: what it returns goes on where the buffer ends.
LEMMA PreadOK == BankInv /\ Pread => BankInv'
<1> SUFFICES ASSUME BankInv, Pread PROVE BankInv'
  OBVIOUS
<1>1. /\ read.pc = "reading" /\ Wanted > 0 /\ UNCHANGED <<shards, index>>
      /\ \E n \in {m \in {1, Wanted} : m <= Available} :
            read' = [read EXCEPT !.offset = @ + n, !.buf = @ \o [i \in 1..n |-> read.offset + i - 1]]
  BY DEF Pread
<1>2. read # NoRead
  BY <1>1 DEF NoRead
<1>3. PICK d \in Nat : d <= Len(AllSlices) /\ ReadUpTo(d)
  BY <1>2 DEF BankInv, ReadOK
<1>4. AtSlice(d) /\ Slot = AllSlices[d + 1] /\ Slot.offset \in Nat /\ Slot.nbytes \in Nat
  BY <1>1, <1>2, <1>3, CurrentSlice
<1>5. PICK k \in Nat : /\ k <= Slot.nbytes /\ read.offset = Slot.offset + k
                       /\ read.buf = [i \in 1..k |-> Slot.offset + i - 1]
  BY <1>4 DEF AtSlice
<1>6. Len(read.buf) = k /\ Wanted = Slot.nbytes - k
  BY <1>5 DEF Wanted
<1>7. PICK n \in {1, Wanted} : read' = [read EXCEPT !.offset = @ + n, !.buf = @ \o [i \in 1..n |-> read.offset + i - 1]]
  BY <1>1
<1>8. n \in Nat /\ k + n \in Nat /\ k + n <= Slot.nbytes
  BY <1>1, <1>4, <1>5, <1>6, <1>7
<1>9. read = [pc |-> read.pc, layer |-> read.layer, expert |-> read.expert, slices |-> read.slices,
              out |-> read.out, offset |-> read.offset, buf |-> read.buf]
  BY <1>2 DEF BankInv, ReadOK
<1>10. /\ read'.pc = read.pc /\ read'.layer = read.layer /\ read'.expert = read.expert
       /\ read'.slices = read.slices /\ read'.out = read.out
       /\ read'.offset = read.offset + n
       /\ read'.buf = read.buf \o [i \in 1..n |-> read.offset + i - 1]
       /\ read' = [pc |-> read'.pc, layer |-> read'.layer, expert |-> read'.expert, slices |-> read'.slices,
                   out |-> read'.out, offset |-> read'.offset, buf |-> read'.buf]
  <2> DEFINE o == read.offset + n  b == read.buf \o [i \in 1..n |-> read.offset + i - 1]
  <2>1. read' = [read EXCEPT !.offset = o, !.buf = b]
    BY <1>7
  <2> HIDE DEF o, b
  <2>2. read' = [pc |-> read.pc, layer |-> read.layer, expert |-> read.expert, slices |-> read.slices,
                 out |-> read.out, offset |-> o, buf |-> b]
    BY <1>9, <2>1
  <2> QED
    BY <2>2 DEF o, b
<1>11. read'.buf = [i \in 1..(k + n) |-> Slot.offset + i - 1]
  <2> DEFINE o == Slot.offset  a == [i \in 1..k |-> o + i - 1]  b == [i \in 1..n |-> o + k + i - 1]
             c == [i \in 1..(k + n) |-> o + i - 1]
  <2>1. read'.buf = a \o b
    BY <1>5, <1>10
  <2> HIDE DEF o
  <2>2. o \in Nat
    BY <1>4 DEF o
  <2>3. /\ a \in Seq(Int) /\ b \in Seq(Int) /\ c \in Seq(Int) /\ Len(a) = k /\ Len(b) = n /\ Len(c) = k + n
        /\ \A i \in 1..k : a[i] = o + i - 1
        /\ \A i \in 1..n : b[i] = o + k + i - 1
        /\ \A i \in 1..(k + n) : c[i] = o + i - 1
    BY <1>8, <2>2
  <2> HIDE DEF a, b, c
  <2>4. /\ a \o b \in Seq(Int) /\ Len(a \o b) = k + n
        /\ \A i \in 1..k : (a \o b)[i] = a[i]
        /\ \A i \in 1..n : (a \o b)[k + i] = b[i]
    <3>1. a \in Seq(Int) /\ b \in Seq(Int) /\ Len(a) = k /\ Len(b) = n
      BY <2>3
    <3> DEFINE S == Int
    <3>2. a \in Seq(S) /\ b \in Seq(S)
      BY <3>1
    <3> HIDE DEF S
    <3>3. a \o b \in Seq(S) /\ Len(a \o b) = Len(a) + Len(b)
      BY <3>2, CatOf
    <3>4. \A i \in 1..Len(a) : (a \o b)[i] = a[i]
      BY <3>2, CatOf
    <3>5. \A i \in 1..Len(b) : (a \o b)[Len(a) + i] = b[i]
      BY <3>2, CatOf
    <3> QED
      BY <3>1, <3>3, <3>4, <3>5 DEF S
  <2>5. \A i \in 1..(k + n) : (a \o b)[i] = c[i]
    <3>1. TAKE i \in 1..(k + n)
    <3>2. CASE i <= k
      BY <2>3, <2>4, <3>2
    <3>3. CASE i > k
      <4>1. i - k \in 1..n /\ k + (i - k) = i
        BY <1>8, <3>3
      <4>2. (a \o b)[i] = o + k + (i - k) - 1
        BY <2>3, <2>4, <4>1
      <4>3. c[i] = o + i - 1 /\ i \in Int /\ k \in Nat /\ o \in Nat
        BY <1>8, <2>2, <2>3
      <4> HIDE DEF a, b, c
      <4> QED
        BY <4>2, <4>3
    <3>4. i \in Int /\ k \in Int /\ (i <= k \/ i > k)
      <4>1. k \in Nat /\ k + n \in Nat /\ i \in Int
        BY <1>8
      <4> QED
        BY <4>1
    <3> QED
      BY <3>2, <3>3, <3>4
  <2>6. a \o b = c
    BY <2>3, <2>4, <2>5, SameSeq
  <2> QED
    BY <2>1, <2>6 DEF c, o
<1>12. AllSlices' = AllSlices /\ shards' = shards
  BY <1>1, <1>10 DEF AllSlices
<1>13. AtSlice(d)'
  <2> DEFINE x == Slot.offset  y == read'.offset
  <2>1. y = Slot.offset + (k + n) /\ y \in Nat
    <3>1. y = read.offset + n /\ read.offset = x + k
      BY <1>5, <1>10
    <3>2. x \in Nat
      BY <1>4
    <3> HIDE DEF y
    <3>3. y = x + k + n
      BY <3>1
    <3> HIDE DEF x
    <3>4. y = x + (k + n) /\ y \in Nat
      BY <1>8, <3>2, <3>3
    <3> QED
      BY <3>4 DEF x
  <2>2. /\ k + n \in Nat /\ k + n <= AllSlices[d + 1].nbytes
        /\ y = AllSlices[d + 1].offset + (k + n)
        /\ read'.buf = [i \in 1..(k + n) |-> AllSlices[d + 1].offset + i - 1]
    BY <1>4, <1>8, <1>11, <2>1
  <2>3. d < Len(AllSlices) /\ shards[read.layer][AllSlices[d + 1].file] # Lost
    BY <1>4 DEF AtSlice
  <2>4. /\ d < Len(AllSlices') /\ y \in Nat
        /\ \E e \in Nat : /\ e <= AllSlices'[d + 1].nbytes
                          /\ y = AllSlices'[d + 1].offset + e
                          /\ read'.buf = [i \in 1..e |-> AllSlices'[d + 1].offset + i - 1]
        /\ shards'[read'.layer][AllSlices'[d + 1].file] # Lost
    <3> HIDE DEF y
    <3> QED
      BY <1>10, <1>12, <2>1, <2>2, <2>3
  <2> QED
    BY <2>4 DEF AtSlice
<1>14. ReadUpTo(d)'
  BY <1>1, <1>3, <1>10, <1>12, <1>13 DEF ReadUpTo
<1>15. ReadOK'
  BY <1>1, <1>2, <1>3, <1>10, <1>12, <1>14 DEF ReadOK, BankInv, HasIndex
<1> QED
  BY <1>1, <1>15, ReadStep

\* A pread that returns nothing: the read raises.
LEMMA ShortPreadOK == BankInv /\ ShortPread => BankInv'
<1> SUFFICES ASSUME BankInv, ShortPread PROVE BankInv'
  OBVIOUS
<1>1. read.pc = "reading" /\ UNCHANGED <<shards, index>> /\ read' = [read EXCEPT !.pc = "raised"]
  BY DEF ShortPread
<1>2. read # NoRead
  BY <1>1 DEF NoRead
<1>3. PICK d \in Nat : d <= Len(AllSlices) /\ ReadUpTo(d)
  BY <1>2 DEF BankInv, ReadOK
<1>4. read = [pc |-> read.pc, layer |-> read.layer, expert |-> read.expert, slices |-> read.slices,
              out |-> read.out, offset |-> read.offset, buf |-> read.buf]
  BY <1>2 DEF BankInv, ReadOK
<1>5. /\ read'.pc = "raised" /\ read'.layer = read.layer /\ read'.expert = read.expert
      /\ read'.slices = read.slices /\ read'.out = read.out
      /\ read' = [pc |-> read'.pc, layer |-> read'.layer, expert |-> read'.expert, slices |-> read'.slices,
                  out |-> read'.out, offset |-> read'.offset, buf |-> read'.buf]
  <2>1. read' = [pc |-> "raised", layer |-> read.layer, expert |-> read.expert, slices |-> read.slices,
                 out |-> read.out, offset |-> read.offset, buf |-> read.buf]
    BY <1>1, <1>4
  <2> QED
    BY <2>1
<1>6. AllSlices' = AllSlices
  BY <1>1, <1>5 DEF AllSlices
<1>7. ReadUpTo(d)'
  BY <1>1, <1>3, <1>5, <1>6 DEF ReadUpTo
<1>8. ReadOK'
  BY <1>1, <1>2, <1>3, <1>5, <1>6, <1>7 DEF ReadOK, BankInv, HasIndex
<1> QED
  BY <1>1, <1>8, ReadStep

\* The last byte of a slice is read: it is in its slot, and the next file is opened.
LEMMA SlotReadOK == BankInv /\ SlotRead => BankInv'
<1> SUFFICES ASSUME BankInv, SlotRead PROVE BankInv'
  OBVIOUS
<1> DEFINE s == Slot
           matrix == [rows |-> s.rows, cols |-> s.cols, bytes |-> read.buf]
           got == [slot \in DOMAIN read.out \cup {s.slot} |->
                       IF slot = s.slot THEN matrix ELSE read.out[slot]]
           rest == Tail(read.slices)
           l == read.layer
           all == AllSlices
<1>1. /\ read.pc = "reading" /\ Wanted = 0 /\ UNCHANGED <<shards, index>>
      /\ read' = IF rest = <<>> THEN [read EXCEPT !.pc = "returned", !.out = got, !.slices = rest]
                 ELSE Opened(read.layer, read.expert, rest, got)
  BY DEF SlotRead
<1>2. read # NoRead
  BY <1>1 DEF NoRead
<1>3. PICK d \in Nat : d <= Len(all) /\ ReadUpTo(d)
  BY <1>2 DEF BankInv, ReadOK
<1>4. /\ AtSlice(d) /\ s = all[d + 1] /\ d < Len(all) /\ s.offset \in Nat /\ s.nbytes \in Nat
      /\ Len(read.slices) = Len(all) - d /\ read.slices \in Seq(SlicesIn(shards[l]))
      /\ \A i \in 1..Len(read.slices) : read.slices[i] = all[d + i]
  BY <1>1, <1>2, <1>3, CurrentSlice
<1>5. /\ HasIndex /\ l \in BankLayers /\ read.expert \in DOMAIN index[l]
      /\ all \in Seq(SlicesIn(shards[l])) /\ Len(all) \in Nat
      /\ \A i, m \in DOMAIN all : all[i].slot = all[m].slot => i = m
      /\ all = index[l][read.expert]
  BY <1>2, SlicesOf DEF AllSlices
<1>6. read.buf = Bytes(s)
  <2>1. PICK k \in Nat : /\ k <= s.nbytes /\ read.buf = [i \in 1..k |-> s.offset + i - 1]
    BY <1>4 DEF AtSlice
  <2>2. Len(read.buf) = k
    BY <2>1
  <2>3. k = s.nbytes
    BY <1>1, <1>4, <2>1, <2>2 DEF Wanted
  <2> QED
    BY <2>1, <2>3 DEF Bytes
<1>7. shards[l][s.file] # Lost
  BY <1>4 DEF AtSlice
<1> HIDE DEF s, l, all
<1>8. \A i \in 1..(d + 1) :
         /\ all[i].slot \in DOMAIN got
         /\ got[all[i].slot] = [rows |-> all[i].rows, cols |-> all[i].cols, bytes |-> Bytes(all[i])]
         /\ shards[l][all[i].file] # Lost
  <2>1. TAKE i \in 1..(d + 1)
  <2>2. CASE i = d + 1
    <3>1. all[i] = s
      BY <1>4, <2>2
    <3> QED
      BY <1>6, <1>7, <3>1
  <2>3. CASE i # d + 1
    <3>1. i \in 1..d /\ i \in DOMAIN all /\ d + 1 \in DOMAIN all
      BY <1>4, <1>5, <2>3
    <3>2. all[i].slot # s.slot
      BY <1>4, <1>5, <2>3, <3>1
    <3>3. /\ all[i].slot \in DOMAIN read.out
          /\ read.out[all[i].slot] = [rows |-> all[i].rows, cols |-> all[i].cols, bytes |-> Bytes(all[i])]
          /\ shards[l][all[i].file] # Lost
      BY <1>3, <3>1 DEF ReadUpTo, all, l
    <3> QED
      BY <3>2, <3>3
  <2> QED
    BY <2>2, <2>3
<1>9. /\ rest \in Seq(SlicesIn(shards[l])) /\ Len(rest) = Len(all) - (d + 1)
      /\ \A i \in 1..Len(rest) : rest[i] = all[(d + 1) + i]
  <2> DEFINE r == read.slices
  <2>1. r \in Seq(SlicesIn(shards[l])) /\ Len(r) = Len(all) - d /\ \A i \in 1..Len(r) : r[i] = all[d + i]
    BY <1>4
  <2> HIDE DEF r
  <2>2. r # <<>>
    BY <1>4, <1>5, <2>1
  <2>3. /\ Tail(r) \in Seq(SlicesIn(shards[l])) /\ Len(Tail(r)) = Len(r) - 1
        /\ \A i \in 1..Len(Tail(r)) : Tail(r)[i] = r[i + 1]
    BY <2>1, <2>2
  <2>4. \A i \in 1..Len(Tail(r)) : Tail(r)[i] = all[(d + 1) + i]
    <3>1. TAKE i \in 1..Len(Tail(r))
    <3>2. i + 1 \in 1..Len(r) /\ d + (i + 1) = (d + 1) + i
      BY <1>4, <1>5, <2>1, <2>3
    <3>3. r[i + 1] = all[d + (i + 1)]
      BY <2>1, <3>2
    <3> QED
      BY <2>3, <3>2, <3>3
  <2> QED
    BY <1>4, <1>5, <2>1, <2>3, <2>4 DEF r
<1> HIDE DEF rest, got
<1>10. CASE rest # <<>>
  <2>1. read' = Opened(l, read.expert, rest, got)
    BY <1>1, <1>10 DEF l
  <2>2. d + 1 \in Nat /\ d + 1 < Len(all)
    BY <1>4, <1>5, <1>9, <1>10
  <2> DEFINE j == read.expert
  <2>3. /\ j \in DOMAIN index[l] /\ all = index[l][j] /\ read' = Opened(l, j, rest, got)
        /\ index[l][j] \in Seq(SlicesIn(shards[l])) /\ d + 1 < Len(index[l][j])
        /\ Len(rest) = Len(index[l][j]) - (d + 1)
        /\ \A i \in 1..Len(rest) : rest[i] = index[l][j][(d + 1) + i]
        /\ \A i \in 1..(d + 1) :
              /\ index[l][j][i].slot \in DOMAIN got
              /\ got[index[l][j][i].slot] =
                     [rows |-> index[l][j][i].rows, cols |-> index[l][j][i].cols, bytes |-> Bytes(index[l][j][i])]
              /\ shards[l][index[l][j][i].file] # Lost
    BY <1>5, <1>8, <1>9, <2>1, <2>2
  <2> HIDE DEF j
  <2>4. HasIndex /\ l \in BankLayers /\ rest \in Seq(SlicesIn(shards[l])) /\ UNCHANGED <<shards, index>>
    BY <1>1, <1>5, <1>9
  <2>5. ReadOK'
    BY <1>10, <2>2, <2>3, <2>4, OpenedOK
  <2> QED
    BY <1>1, <2>5, ReadStep
<1>11. CASE rest = <<>>
  <2>1. read = [pc |-> read.pc, layer |-> read.layer, expert |-> read.expert, slices |-> read.slices,
                out |-> read.out, offset |-> read.offset, buf |-> read.buf]
    BY <1>2 DEF BankInv, ReadOK
  <2>2. read' = [pc |-> "returned", layer |-> read.layer, expert |-> read.expert, slices |-> rest,
                 out |-> got, offset |-> read.offset, buf |-> read.buf]
    BY <1>1, <1>11, <2>1
  <2>3. /\ read'.pc = "returned" /\ read'.layer = l /\ read'.expert = read.expert
        /\ read'.slices = rest /\ read'.out = got
        /\ read' = [pc |-> read'.pc, layer |-> read'.layer, expert |-> read'.expert, slices |-> read'.slices,
                    out |-> read'.out, offset |-> read'.offset, buf |-> read'.buf]
    BY <2>2 DEF l
  <2>4. AllSlices' = all
    BY <1>1, <2>3 DEF AllSlices, all, l
  <2>5. d + 1 = Len(all) /\ d + 1 \in Nat
    <3>1. Len(rest) = 0
      BY <1>11
    <3> QED
      BY <1>5, <1>9, <3>1
  <2>6. ReadUpTo(d + 1)'
    BY <1>1, <1>8, <1>9, <2>3, <2>4, <2>5 DEF ReadUpTo
  <2>7. \E e \in Nat : e <= Len(AllSlices') /\ ReadUpTo(e)'
    BY <1>5, <2>4, <2>5, <2>6
  <2>8. ReadOK'
    BY <1>1, <1>5, <1>9, <2>3, <2>7 DEF ReadOK, HasIndex
  <2> QED
    BY <1>1, <2>8, ReadStep
<1> QED
  BY <1>10, <1>11

\* The caller has the result.
LEMMA CloseOK == BankInv /\ CloseExpert => BankInv'
BY ReadStep DEF CloseExpert, ReadOK

\* Each step keeps the invariant.
LEMMA BankStepOK == BankInv /\ [BankNext]_bankVars => BankInv'
<1> SUFFICES ASSUME BankInv, [BankNext]_bankVars PROVE BankInv'
  OBVIOUS
<1>1. CASE Build
  BY <1>1, BuildOK
<1>2. CASE \E l \in BankLayers : \E name \in DOMAIN shards[l] : DamageBank(l, name)
  BY <1>2, DamageOK
<1>3. CASE \E l \in BankLayers : \E j \in 1..8 : OpenExpert(l, j)
  BY <1>3, OpenOK
<1>4. CASE Pread
  BY <1>4, PreadOK
<1>5. CASE ShortPread
  BY <1>5, ShortPreadOK
<1>6. CASE SlotRead
  BY <1>6, SlotReadOK
<1>7. CASE CloseExpert
  BY <1>7, CloseOK
<1>8. CASE UNCHANGED bankVars
  <2>1. UNCHANGED <<shards, index>> /\ read' = read
    BY <1>8 DEF bankVars
  <2>2. AllSlices' = AllSlices /\ (HasIndex <=> HasIndex')
    BY <2>1 DEF AllSlices, HasIndex
  <2>3. \A d : AtSlice(d) <=> AtSlice(d)'
    BY <2>1, <2>2 DEF AtSlice
  <2>4. \A d : ReadUpTo(d) <=> ReadUpTo(d)'
    BY <2>1, <2>2, <2>3 DEF ReadUpTo
  <2>5. ReadOK'
    BY <2>1, <2>2, <2>4 DEF ReadOK, BankInv
  <2> QED
    BY <2>1, <2>5, ReadStep
<1> QED
  BY <1>1, <1>2, <1>3, <1>4, <1>5, <1>6, <1>7, <1>8 DEF BankNext

\* The invariant says that what is returned is the expert.
LEMMA BankInvOwns == BankInv => OwnBytes
<1> SUFFICES ASSUME BankInv PROVE OwnBytes
  OBVIOUS
<1>1. OwnMatrices
  <2>1. SUFFICES ASSUME read.pc = "returned", NEW i \in DOMAIN AllSlices,
                        shards[read.layer][AllSlices[i].file] # Unreadable
                 PROVE  LET f == shards[read.layer][AllSlices[i].file]  got == read.out[AllSlices[i].slot]
                        IN  /\ got.bytes = Reference(f, read.expert, AllSlices[i].slot)
                            /\ Len(got.bytes) % (got.rows * got.cols) = 0
    BY DEF OwnMatrices, AllSlices
  <2>2. read # NoRead
    BY <2>1 DEF NoRead
  <2>3. /\ AllSlices \in Seq(SlicesIn(shards[read.layer])) /\ IndexOK(shards[read.layer], index[read.layer])
        /\ read.expert \in DOMAIN index[read.layer]
        /\ AllSlices[i].nbytes \in Nat /\ i \in 1..Len(AllSlices)
    <3>1. AllSlices \in Seq(SlicesIn(shards[read.layer]))
      BY <2>2, SlicesOf
    <3>2. i \in 1..Len(AllSlices)
      BY <3>1
    <3> QED
      BY <2>2, <3>2, SlicesOf
  <2>4. ReadUpTo(Len(AllSlices))
    BY <2>1, <2>2 DEF BankInv, ReadOK, ReadUpTo
  <2> DEFINE s == AllSlices[i]  f == shards[read.layer][s.file]
  <2>5. /\ read.out[s.slot] = [rows |-> s.rows, cols |-> s.cols, bytes |-> Bytes(s)] /\ f # Lost
    BY <2>3, <2>4 DEF ReadUpTo
  <2>6. CanRead(f)
    BY <2>1, <2>5 DEF CanRead
  <2>7. Own(f, read.expert, s)
    BY <2>3, <2>6 DEF IndexOK, AllSlices
  <2>8. s.nbytes \in Nat
    BY <2>3
  <2> HIDE DEF s, f
  <2>9. Len(Bytes(s)) = s.nbytes
    BY <2>8 DEF Bytes
  <2>10. Bytes(s) = Reference(f, read.expert, s.slot) /\ Len(Bytes(s)) % (s.rows * s.cols) = 0
    BY <2>7, <2>9 DEF Own, Bytes
  <2>11. LET got == read.out[s.slot]
         IN  /\ got.bytes = Reference(f, read.expert, s.slot)
             /\ Len(got.bytes) % (got.rows * got.cols) = 0
    BY <2>5, <2>10
  <2> QED
    BY <2>11 DEF s, f
<1>2. BankPartitioned
  <2>1. SUFFICES ASSUME HasIndex, NEW l \in BankLayers, \A n \in FilesOf(index[l]) : Whole(shards[l][n])
                 PROVE  Partitioned(shards[l], index[l])
    BY DEF BankPartitioned, HasIndex
  <2>2. \A n \in FilesOf(index[l]) : CanRead(shards[l][n])
    BY <2>1 DEF Whole, CanRead
  <2> QED
    BY <2>1, <2>2 DEF BankInv, IndexOK
<1> QED
  BY <1>1, <1>2 DEF OwnBytes

\* The invariant of the banks, for any layers, layouts, shapes, header lengths and
\* damage.
THEOREM BankInvariance == BankSpec => []BankInv
BY BankInitOK, BankStepOK, PTL DEF BankSpec

\* An expert that is read has the bytes of its own matrices, and the slices of an
\* index share no byte and leave none out (read_expert(), _stacked_slices(),
\* index_mlx_checkpoint()), for any layers, layouts, shapes and header lengths,
\* whichever file is damaged and however short the preads are.
THEOREM BankBytes == BankSpec => []OwnBytes
BY BankInvariance, BankInvOwns, PTL
=============================================================================
