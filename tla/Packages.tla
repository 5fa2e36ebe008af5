------------------------------- MODULE Packages -------------------------------
(***************************************************************************)
(* model/package.py: package_checkpoint() writes a checkpoint as one file  *)
(* per layer, then manifest.json, then layer-index.json, all in place;     *)
(* load_layer() and validate_package() read what they find.                *)
(*                                                                         *)
(* A file's digest is its contents.  Layer names are numbers in the order  *)
(* of _natural_key(); a tensor is named <<layer, parameter>> and its value *)
(* stands for shape, type and size.  A packaging may be interrupted at any *)
(* write.  Readers do not run while a packaging does.                      *)
(***************************************************************************)
EXTENDS Lists, FiniteSetsExt, Functions

CONSTANTS
    Checkpoints,    \* [single, files, indexes]: a weight file or a directory
    Sanitized(_),   \* _sanitize_layer_filename(): not injective
    MaxRuns,        \* bound: packagings
    MaxDamage,      \* bound: layer files damaged
    Absent, Torn    \* of a file: not there, unreadable

VARIABLES
    package,        \* the directory: [files, manifest, index]
    job,            \* the packaging under way: [pc, layers, at, checkpoint]
    packed,         \* the checkpoint packaged last with no damage since, or Absent
    used            \* [runs, damage]

packageVars == <<package, job, packed, used>>

-----------------------------------------------------------------------------
(* The checkpoint.                                                         *)

\* _discover_checkpoint_sources(): the files of the first index with a weight
\* map, all of which must exist, or the only weight file; {} for an error.
Sources(c) ==
    LET weights == {f \in DOMAIN c.files : c.files[f].kind \in {"safetensors", "torch"}}
        maps == SelectSeq(c.indexes, LAMBDA m : m # {})
    IN  IF ~c.single /\ maps # <<>>
        THEN IF Head(maps) \subseteq DOMAIN c.files THEN Head(maps) ELSE {}
        ELSE IF Cardinality(weights) = 1 THEN weights ELSE {}

\* state_dict.update(): of a tensor in several files the last one stays.
StateDict(c) ==
    LET holders(t) == {f \in Sources(c) : t \in DOMAIN c.files[f].tensors}
        names == UNION {DOMAIN c.files[f].tensors : f \in Sources(c)}
    IN  [t \in names |-> c.files[Max(holders(t))].tensors[t]]

FileName(i, name) == <<i, Sanitized(name)>>

\* _group_tensors() and _layer_summary(): the records of a checkpoint's layers.
LayerRecords(c) ==
    LET names == Ascending({t[1] : t \in DOMAIN StateDict(c)})
        tensors(n) == Restrict(StateDict(c), {t \in DOMAIN StateDict(c) : t[1] = n})
    IN  [i \in DOMAIN names |-> [index |-> i - 1, name |-> names[i], file |-> FileName(i - 1, names[i]),
                                 sha |-> tensors(names[i]), tensors |-> DOMAIN tensors(names[i])]]

Summary(r) == [index |-> r.index, name |-> r.name, file |-> r.file,
               count |-> Cardinality(r.tensors), sha |-> r.sha]

PackageManifest(c, records) ==
    [source |-> c, count |-> Len(records), layers |-> [i \in DOMAIN records |-> Summary(records[i])]]

\* A tensor belongs to a layer of its name; a mark is no file's contents.
ASSUME PackageAssumption ==
    /\ MaxRuns \in Nat /\ MaxDamage \in Nat
    /\ \A c \in Checkpoints :
          /\ c.files \in Seq(Range(c.files))
          /\ \A f \in DOMAIN c.files :
                /\ IsFiniteSet(DOMAIN c.files[f].tensors)
                /\ \A t \in DOMAIN c.files[f].tensors : t[1] \in Nat
          /\ {c, LayerRecords(c), PackageManifest(c, LayerRecords(c))} \cap {Absent, Torn} = {}

-----------------------------------------------------------------------------
(* Packaging.                                                              *)

NoJob == [pc |-> "idle"]

PackageInit ==
    /\ package = [files |-> << >>, manifest |-> Absent, index |-> Absent]
    /\ job = NoJob /\ packed = Absent
    /\ used = [runs |-> 0, damage |-> 0]

\* Everything is read before anything is written; without sources it raises.
Package(c) ==
    /\ job = NoJob /\ used.runs < MaxRuns
    /\ used' = [used EXCEPT !.runs = @ + 1]
    /\ IF Sources(c) = {} THEN UNCHANGED <<job, packed>>
       ELSE /\ job' = [pc |-> "layers", layers |-> LayerRecords(c), at |-> 1, checkpoint |-> c]
            /\ packed' = Absent
    /\ UNCHANGED package

WithFile(files, name, content) == [f \in DOMAIN files \cup {name} |-> IF f = name THEN content ELSE files[f]]

WriteLayer ==
    /\ job.pc = "layers" /\ job.at <= Len(job.layers)
    /\ package' = [package EXCEPT !.files = WithFile(@, job.layers[job.at].file, job.layers[job.at].sha)]
    /\ job' = [job EXCEPT !.at = @ + 1]
    /\ UNCHANGED <<packed, used>>

WritePackageManifest ==
    /\ job.pc = "layers" /\ job.at > Len(job.layers)
    /\ package' = [package EXCEPT !.manifest = PackageManifest(job.checkpoint, job.layers)]
    /\ job' = [job EXCEPT !.pc = "index"]
    /\ UNCHANGED <<packed, used>>

WriteIndex ==
    /\ job.pc = "index"
    /\ package' = [package EXCEPT !.index = job.layers]
    /\ packed' = job.checkpoint
    /\ job' = NoJob
    /\ UNCHANGED used

\* The process dies, or the write fails: what was being written may be torn.
Interrupted ==
    /\ job # NoJob
    /\ job' = NoJob
    /\ \/ UNCHANGED package
       \/ package' = CASE job.pc = "index" -> [package EXCEPT !.index = Torn]
                    [] job.pc = "layers" /\ job.at > Len(job.layers) -> [package EXCEPT !.manifest = Torn]
                    [] OTHER -> [package EXCEPT !.files = WithFile(@, job.layers[job.at].file, Torn)]
    /\ UNCHANGED <<packed, used>>

\* A layer file is lost or overwritten by something else.
DamageFile(f) ==
    /\ job = NoJob /\ used.damage < MaxDamage
    /\ used' = [used EXCEPT !.damage = @ + 1]
    /\ \/ package' = [package EXCEPT !.files[f] = Torn]
       \/ package' = [package EXCEPT !.files = Restrict(@, DOMAIN @ \ {f})]
    /\ packed' = Absent
    /\ UNCHANGED job

PackageNext ==
    \/ \E c \in Checkpoints : Package(c)
    \/ WriteLayer \/ WritePackageManifest \/ WriteIndex \/ Interrupted
    \/ \E f \in DOMAIN package.files : DamageFile(f)

PackageSpec == PackageInit /\ [][PackageNext]_packageVars

-----------------------------------------------------------------------------
(* Readers.                                                                *)

ReadableJson(json) == json \notin {Absent, Torn}

Intact(r) == r.file \in DOMAIN package.files /\ package.files[r.file] = r.sha

\* _resolve_layer_identifier(): a position, from the end if negative, or the
\* first layer of that name or in that file.
Resolve(layers, id) ==
    CASE id[1] = "at" -> {layers[i] : i \in {j \in DOMAIN layers : j - 1 = id[2] \/ j - 1 = id[2] + Len(layers)}}
      [] OTHER -> LET named == {i \in DOMAIN layers : id[2] \in {<<layers[i].name>>, layers[i].file}}
                  IN  {layers[i] : i \in {j \in named : \A k \in named : j <= k}}

\* load_layer(): the record and its tensors, {} for an error.
LoadLayer(id) ==
    IF ~ReadableJson(package.index) THEN {}
    ELSE {[record |-> r, tensors |-> package.files[r.file]] : r \in {q \in Resolve(package.index, id) : Intact(q)}}

\* Mutant of ValidatePackage: layers are compared pairwise, their number is not.
ValidatePairs ==
    /\ ReadableJson(package.manifest) /\ ReadableJson(package.index)
    /\ \A i \in DOMAIN package.manifest.layers \cap DOMAIN package.index :
          /\ package.manifest.layers[i] = Summary(package.index[i])
          /\ Intact(package.index[i])

\* validate_package(): `valid`.
ValidatePackage ==
    /\ ReadableJson(package.manifest) /\ ReadableJson(package.index)
    /\ package.manifest.count = Len(package.manifest.layers)
    /\ Len(package.manifest.layers) = Len(package.index)
    /\ \A i \in DOMAIN package.index :
          /\ package.manifest.layers[i] = Summary(package.index[i])
          /\ Intact(package.index[i])
          /\ DOMAIN package.files[package.index[i].file] = package.index[i].tensors

-----------------------------------------------------------------------------
(* Properties.                                                             *)

\* A package that packaging left and nothing has damaged validates, and its layers
\* hold each tensor of the checkpoint once, with the value of the last file it is in.
PackageComplete ==
    packed # Absent /\ job = NoJob =>
        /\ ValidatePackage
        /\ \A f \in Sources(packed) : \A t \in DOMAIN packed.files[f].tensors :
              LET found == {l \in UNION {LoadLayer(<<"at", i - 1>>) : i \in DOMAIN package.index} :
                                t \in DOMAIN l.tensors}
              IN  /\ Cardinality(found) = 1
                  /\ \A l \in found : /\ l.record.name = t[1]
                                      /\ \/ l.tensors[t] = packed.files[f].tensors[t]
                                         \/ \E g \in Sources(packed) : g > f /\ t \in DOMAIN packed.files[g].tensors

\* A package that validates, whatever was interrupted or damaged before, is that of
\* the checkpoint its manifest names, whole: every layer loads under each of its names.
ValidTruthful ==
    ValidatePackage =>
        LET records == LayerRecords(package.manifest.source)
        IN  \A i \in DOMAIN records :
                \A id \in {<<"at", i - 1>>, <<"at", i - 1 - Len(records)>>, <<"name", <<records[i].name>>>>,
                           <<"file", records[i].file>>} :
                    {[name |-> l.record.name, tensors |-> l.tensors] : l \in LoadLayer(id)}
                        = {[name |-> records[i].name, tensors |-> records[i].sha]}

\* Both, whatever was packaged over what, interrupted where, and damaged since.
PackageSound == PackageComplete /\ ValidTruthful
=============================================================================
