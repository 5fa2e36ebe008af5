------------------------------ MODULE ShardStore ------------------------------
(***************************************************************************)
(* model/shard.py: a shard directory, written by `swlp pull` (or by the    *)
(* first run), and converted in place to compressed layers and back.  The  *)
(* process may end between any two file operations, and in the middle of a *)
(* write.                                                                  *)
(*                                                                         *)
(* The content of a file is the pull that wrote it, or one of the damages  *)
(* that an unfinished write leaves.  A write to a temporary file changes   *)
(* nothing until its rename, and no reader takes the file for a layer.     *)
(***************************************************************************)
EXTENDS Integers, FiniteSets

CONSTANTS
    NumLayers,
    MaxPulls,           \* bound: pulls
    MaxConversions,     \* bound: conversions begun
    MaxCrashes,         \* bound: interruptions
    NoFile,
    Empty,              \* damage: no byte of the file,
    CutHeader,          \* ... a part of the safetensors header,
    CutPayload          \* ... all of it and a part of the tensors

ASSUME ShardAssumption ==
    /\ NumLayers \in Nat \ {0} /\ MaxPulls \in Nat
    /\ MaxConversions \in Nat /\ MaxCrashes \in Nat
    /\ NoFile \notin {Empty, CutHeader, CutPayload} /\ Empty \notin {CutHeader, CutPayload}
    /\ \A f \in {NoFile, Empty, CutHeader, CutPayload} : f \notin Nat

Layers == 0..(NumLayers - 1)
Pulls == 1..MaxPulls
Damage == {Empty, CutHeader, CutPayload}
Manifest == [pull : Pulls, compression : {"none", "swz"}]

VARIABLES
    plain,          \* layer_XXX.safetensors: [Layers -> content or NoFile]
    swz,            \* layer_XXX.safetensors.swz: what it decompresses to
    heads,          \* embed.pt and lm_head.pt
    manifest,       \* shard_manifest.json
    op,             \* what the process does
    at,             \* the layer it is at; heads and manifest follow
    step,           \* where in this layer
    new,            \* the manifest it will write
    pulls, conversions, crashes,    \* how many there were
    complete        \* the last pull came to its end

files == <<plain, swz, heads, manifest>>
process == <<op, at, step, new>>
counts == <<pulls, conversions, crashes>>
vars == <<files, process, counts, complete>>

Init ==
    /\ plain = [i \in Layers |-> NoFile] /\ swz = [i \in Layers |-> NoFile]
    /\ heads = NoFile /\ manifest = NoFile
    /\ op = "idle" /\ at = 0 /\ step = "next" /\ new = NoFile
    /\ pulls = 0 /\ conversions = 0 /\ crashes = 0
    /\ complete = FALSE

-----------------------------------------------------------------------------
(* Reading a directory.                                                    *)

Readable == manifest \notin {NoFile, Empty}     \* by load_manifest()

\* _safetensors_file_ok(): the header's length fits in the file.
PlainOK(i) == plain[i] \notin {NoFile, Empty, CutHeader}

\* Mutant of LayerOK: the manifest knows.
LayerOKPreferred(i) == IF manifest.compression = "swz" THEN swz[i] # NoFile ELSE PlainOK(i)

\* verify_shards(): a layer is the variant that the manifest names, or else
\* the other one.  A .swz in its place has a whole container.
LayerOK(i) ==
    IF manifest.compression = "swz" /\ swz[i] # NoFile
    THEN TRUE
    ELSE IF plain[i] # NoFile THEN PlainOK(i) ELSE swz[i] # NoFile

VerifyOK ==
    /\ Readable
    /\ heads \notin {NoFile, Empty}
    /\ \A i \in Layers : LayerOK(i)

\* Mutant of Loaded: the compressed one before the plain one.
LoadedSwzFirst(i) == IF swz[i] # NoFile THEN swz[i] ELSE plain[i]

\* What the streaming scheduler's _shard_path() leads to.
Loaded(i) == IF plain[i] # NoFile THEN plain[i] ELSE swz[i]

-----------------------------------------------------------------------------
(* shard_model_by_layer().                                                 *)

Pull ==
    /\ op = "idle" /\ pulls < MaxPulls
    /\ pulls' = pulls + 1 /\ complete' = FALSE
    /\ op' = "pull" /\ at' = 0
    /\ new' = [pull |-> pulls + 1, compression |-> "none"]
    /\ UNCHANGED <<files, step, conversions, crashes>>

AtLayer(o) == op = o /\ at \in Layers /\ step = "next"

\* _save_safetensors() writes over what is there.
SaveLayer ==
    /\ AtLayer("pull")
    /\ plain' = [plain EXCEPT ![at] = Empty]
    /\ step' = "writing"
    /\ UNCHANGED <<swz, heads, manifest, op, at, new, counts, complete>>

LayerSaved ==
    /\ op = "pull" /\ at \in Layers /\ step = "writing"
    /\ plain' = [plain EXCEPT ![at] = pulls]
    /\ at' = at + 1 /\ step' = "next"
    /\ UNCHANGED <<swz, heads, manifest, op, new, counts, complete>>

\* _stream_save_embed(), _stream_save_lm_head().
SaveHeads ==
    /\ op = "pull" /\ at = NumLayers /\ step = "next"
    /\ heads' = Empty
    /\ step' = "writing"
    /\ UNCHANGED <<plain, swz, manifest, op, at, new, counts, complete>>

HeadsSaved ==
    /\ op = "pull" /\ at = NumLayers /\ step = "writing"
    /\ heads' = pulls
    /\ at' = at + 1 /\ step' = "next"
    /\ UNCHANGED <<plain, swz, manifest, op, new, counts, complete>>

\* The manifest comes last.
LastFile == at = IF op = "pull" THEN NumLayers + 1 ELSE NumLayers

\* _write_manifest(), in place.
WriteManifest ==
    /\ op # "idle" /\ LastFile /\ step = "next"
    /\ manifest' = Empty
    /\ step' = "writing_manifest"
    /\ UNCHANGED <<plain, swz, heads, op, at, new, counts, complete>>

ManifestWritten ==
    /\ step = "writing_manifest"
    /\ manifest' = new
    /\ complete' = (complete \/ op = "pull")
    /\ op' = "idle" /\ at' = 0 /\ step' = "next" /\ new' = NoFile
    /\ UNCHANGED <<plain, swz, heads, counts>>

-----------------------------------------------------------------------------
(* compress_shards() and decompress_shards().                              *)

Convert(o, compression) ==
    /\ op = "idle" /\ Readable /\ conversions < MaxConversions
    /\ conversions' = conversions + 1
    /\ op' = o /\ at' = 0
    /\ new' = [manifest EXCEPT !.compression = compression]
    /\ UNCHANGED <<files, step, pulls, crashes, complete>>

Compress == Convert("compress", "swz")
Decompress == Convert("decompress", "none")

\* Mutant of CompressSkip: a compressed layer is done.
CompressSkipAny ==
    /\ AtLayer("compress")
    /\ swz[at] # NoFile
    /\ at' = at + 1
    /\ UNCHANGED <<files, op, step, new, counts, complete>>

\* Converted by an earlier run.
CompressSkip ==
    /\ AtLayer("compress")
    /\ swz[at] # NoFile /\ plain[at] = NoFile
    /\ at' = at + 1
    /\ UNCHANGED <<files, op, step, new, counts, complete>>

\* Read, compress, write to a temporary file, rename it ...
CompressLayer ==
    /\ AtLayer("compress")
    /\ plain[at] \notin {NoFile, Empty}
    /\ swz' = [swz EXCEPT ![at] = plain[at]]
    /\ step' = "replaced"
    /\ UNCHANGED <<plain, heads, manifest, op, at, new, counts, complete>>

\* ... and remove the original.
CompressDrop ==
    /\ op = "compress" /\ step = "replaced"
    /\ plain' = [plain EXCEPT ![at] = NoFile]
    /\ at' = at + 1 /\ step' = "next"
    /\ UNCHANGED <<swz, heads, manifest, op, new, counts, complete>>

\* Reverted by an earlier run: only the leftover goes.
DecompressSkip ==
    /\ AtLayer("decompress")
    /\ PlainOK(at)
    /\ swz' = [swz EXCEPT ![at] = NoFile]
    /\ at' = at + 1
    /\ UNCHANGED <<plain, heads, manifest, op, step, new, counts, complete>>

DecompressLayer ==
    /\ AtLayer("decompress")
    /\ ~PlainOK(at) /\ swz[at] # NoFile
    /\ plain' = [plain EXCEPT ![at] = swz[at]]
    /\ step' = "replaced"
    /\ UNCHANGED <<swz, heads, manifest, op, at, new, counts, complete>>

DecompressDrop ==
    /\ op = "decompress" /\ step = "replaced"
    /\ swz' = [swz EXCEPT ![at] = NoFile]
    /\ at' = at + 1 /\ step' = "next"
    /\ UNCHANGED <<plain, heads, manifest, op, new, counts, complete>>

\* The layer's source is not there, or has no byte to compress.
ConvertFails ==
    /\ \/ AtLayer("compress") /\ plain[at] = Empty
       \/ AtLayer("compress") /\ plain[at] = NoFile /\ swz[at] = NoFile
       \/ AtLayer("decompress") /\ ~PlainOK(at) /\ swz[at] = NoFile
    /\ op' = "idle" /\ at' = 0 /\ new' = NoFile
    /\ UNCHANGED <<files, step, counts, complete>>

-----------------------------------------------------------------------------
\* The process is killed, or a file operation raises: a write under way leaves
\* a part of its file, or all of it.
Interrupt ==
    /\ op # "idle" /\ crashes < MaxCrashes
    /\ crashes' = crashes + 1
    /\ op' = "idle" /\ at' = 0 /\ step' = "next" /\ new' = NoFile
    /\ \E content \in Damage \cup {pulls} :
        /\ plain' = IF step = "writing" /\ at \in Layers
                    THEN [plain EXCEPT ![at] = content] ELSE plain
        /\ heads' = IF step = "writing" /\ at = NumLayers THEN content ELSE heads
    /\ UNCHANGED <<swz, manifest, pulls, conversions, complete>>

Conversion ==
    \/ Compress \/ CompressSkip \/ CompressLayer \/ CompressDrop
    \/ Decompress \/ DecompressSkip \/ DecompressLayer \/ DecompressDrop
    \/ ConvertFails

Next ==
    \/ Pull \/ SaveLayer \/ LayerSaved \/ SaveHeads \/ HeadsSaved
    \/ WriteManifest \/ ManifestWritten
    \/ Conversion \/ Interrupt

Spec == Init /\ [][Next]_vars

-----------------------------------------------------------------------------
(* Properties.                                                             *)

Content == Pulls \cup Damage \cup {NoFile}

\* Every variable keeps its type; a compressed layer has something in it.
TypeOK ==
    /\ plain \in [Layers -> Content] /\ swz \in [Layers -> Content \ {Empty}]
    /\ heads \in Content
    /\ manifest \in Manifest \cup {NoFile, Empty} /\ new \in Manifest \cup {NoFile}
    /\ op \in {"idle", "pull", "compress", "decompress"} /\ at \in 0..(NumLayers + 1)
    /\ step \in {"next", "writing", "writing_manifest", "replaced"}
    /\ pulls \in 0..MaxPulls /\ conversions \in 0..MaxConversions /\ crashes \in 0..MaxCrashes
    /\ complete \in BOOLEAN

\* Once a pull has come to its end, every layer loads with the weights of that
\* pull: in the middle of any conversion, after any number of interrupted ones,
\* and whatever compressed layers of an earlier pull are still there.
ReadersServed ==
    complete => heads = pulls /\ \A i \in Layers : Loaded(i) = pulls

\* verify_shards() accepts a directory whose pull has come to its end, in the
\* middle of a conversion too, and refuses one that its first pull did not finish.
VerifyTruthful ==
    /\ complete /\ Readable => VerifyOK
    /\ pulls = 1 /\ ~complete => ~VerifyOK

\* A conversion of a complete directory that comes to its end leaves each layer in
\* the form the manifest then says, and in that form only.
Converted ==
    [][complete /\ ManifestWritten =>
          \/ op = "compress" /\ \A i \in Layers : plain[i] = NoFile /\ swz[i] = pulls
          \/ op = "decompress" /\ \A i \in Layers : plain[i] = pulls /\ swz[i] = NoFile]_vars

=============================================================================
