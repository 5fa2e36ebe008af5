------------------------------ MODULE MCStorage ------------------------------
(* What keeps and reads weights on disk, for TLC: a shard directory, a       *)
(* package, the expert banks, the reader of shard files and the MLX expert   *)
(* cache.  They share no state; in a behaviour only the one in focus moves,  *)
(* and the variables of the others keep one value.                           *)
EXTENDS ShardStore, Packages, MlxExpertCache, ShardReader, ExpertBank

VARIABLES focus

-----------------------------------------------------------------------------
(* Checkpoints to package: a file; directories of two files, of a torch file *)
(* and another one, with and without an index.  A tensor is <<name, part>>;  *)
(* two names that differ are one file name once sanitized.                   *)

Holding(kind, tensors, value) == [kind |-> kind, tensors |-> [t \in tensors |-> value]]

TwoFiles == [single |-> FALSE, indexes |-> <<{}, {1, 2}, {1}>>,
    files |-> <<Holding("safetensors", {<<2, 1>>, <<2, 2>>, <<10, 1>>}, 1),
                Holding("safetensors", {<<3, 1>>, <<10, 1>>}, 2)>>]

Quarter(name) == name \div 4

PackageCheckpoints == {
    [single |-> TRUE, indexes |-> <<>>, files |-> <<TwoFiles.files[1]>>],
    TwoFiles,
    [TwoFiles EXCEPT !.indexes = <<>>],
    [single |-> FALSE, indexes |-> <<>>,
     files |-> <<Holding("torch", {<<2, 1>>, <<2, 2>>}, 1), Holding("other", {}, 1)>>],
    [single |-> FALSE, indexes |-> <<{1, 3}>>,
     files |-> <<Holding("torch", {<<2, 1>>, <<2, 2>>}, 1), Holding("other", {}, 1)>>]}

-----------------------------------------------------------------------------
(* Expert tensors in each layout: a fused pair, a triple, one tensor for each *)
(* expert and projection, some experts missing, and some not understood; and  *)
(* layers of an MLX checkpoint over one or two files.                         *)

Stacked(s, shape, item) == [stem |-> s, expert |-> -1, item |-> item, shape |-> shape]
OfExpert(s, e, shape) == [stem |-> s, expert |-> e, item |-> 2, shape |-> shape]
DenseTensor(s) == Stacked(s, <<3>>, 2)

ExpertStates == {
    <<DenseTensor("attn"), Stacked("down_proj", <<2, 2, 1>>, 2),
      Stacked("gate_up_proj", <<2, 2, 2>>, 2), DenseTensor("norm")>>,
    <<Stacked("w2", <<2, 2, 1>>, 1), Stacked("w1", <<2, 2, 1>>, 1), DenseTensor("x"),
      Stacked("w3", <<2, 2, 1>>, 1)>>,
    <<OfExpert("gate_proj", 0, <<1, 2>>), DenseTensor("x"), OfExpert("down_proj", 1, <<2, 1>>),
      OfExpert("up_proj", 1, <<1, 2>>), OfExpert("gate_proj", 1, <<1, 2>>),
      OfExpert("up_proj", 0, <<1, 2>>), OfExpert("down_proj", 0, <<2, 1>>)>>,
    <<OfExpert("gate_proj", 1, <<1, 2>>), OfExpert("down_proj", 1, <<2, 1>>),
      OfExpert("up_proj", 1, <<1, 2>>)>>,
    <<Stacked("gate_up_proj", <<2, 2, 2>>, 2)>>,
    <<Stacked("w2", <<2, 2, 1>>, 0), Stacked("w1", <<2, 2, 1>>, 0), Stacked("w3", <<2, 2, 1>>, 0)>>,
    <<DenseTensor("dense")>>}

MlxLayers == {
    [s1 |-> <<DenseTensor("attn"), Stacked("gate.weight", <<2, 2, 1>>, 4),
              Stacked("gate.scales", <<2, 2, 1>>, 2)>>,
     s2 |-> <<Stacked("down.weight", <<2, 1, 2>>, 4), DenseTensor("n"),
              Stacked("up.weight", <<2, 2, 1>>, 4)>>],
    [s1 |-> <<Stacked("gate.weight", <<2, 2, 1>>, 4)>>,
     s2 |-> <<Stacked("up.weight", <<3, 2, 1>>, 4)>>],
    [s1 |-> <<DenseTensor("attn")>>, s2 |-> <<Stacked("up.weight", <<2, 2, 1>>, 4)>>]}

-----------------------------------------------------------------------------
(* Two shard files, of three cells of tensors and of one; a run that maps     *)
(* its files has plain ones.                                                  *)

TwoWidths == <<<<1, 2>>, <<1>>>>

(* Two layers of two experts, one of them larger; room for two small ones.    *)

ExpertBytes == [k \in (0..1) \X (0..1) |-> IF k = <<1, 0>> THEN 2 ELSE 1]

-----------------------------------------------------------------------------
NoBank == shards = <<>> /\ index = Unbuilt /\ read = NoRead
\* Out of focus the reader has plain files.
PlainFiles == directIO /\ \A l \in Shards : ~disk[l].swz

StorageInit ==
    /\ focus \in {"shards", "package", "bank", "reader", "cache"}
    /\ Init /\ PackageInit /\ CacheInit
    /\ IF focus = "bank" THEN BankInit ELSE NoBank
    /\ ReaderInit /\ (focus # "reader" => PlainFiles)

StorageNext ==
    \/ /\ focus = "shards" /\ Next
       /\ UNCHANGED <<focus, packageVars, bankVars, readerVars, cacheVars>>
    \/ /\ focus = "package" /\ PackageNext
       /\ UNCHANGED <<focus, vars, bankVars, readerVars, cacheVars>>
    \/ /\ focus = "bank" /\ BankNext
       /\ UNCHANGED <<focus, vars, packageVars, readerVars, cacheVars>>
    \/ /\ focus = "reader" /\ ReaderNext
       /\ UNCHANGED <<focus, vars, packageVars, bankVars, cacheVars>>
    \/ /\ focus = "cache" /\ CacheNext
       /\ UNCHANGED <<focus, vars, packageVars, bankVars, readerVars>>

StorageSpec ==
    /\ StorageInit
    /\ [][StorageNext]_<<focus, vars, packageVars, bankVars, readerVars, cacheVars>>
    /\ WF_cacheVars(focus = "cache" /\ Read)
    /\ WF_cacheVars(focus = "cache" /\ (GetMany \/ Closed))

=============================================================================
