------------------------------ MODULE Catalogue ------------------------------
(***************************************************************************)
(* The models a machine keeps, and the commands that make, use and delete  *)
(* them: pull, rm, and a run that finds out what a name stands for         *)
(* (cli.py, cli_resolve.py, cli_models.py), then loads it (runner/load.py, *)
(* runner/mlx.py, runner/mlx_moe.py).  A run of the library is given a     *)
(* directory and no model.  Any of them may be interrupted.                *)
(*                                                                         *)
(* What a file holds is the repository it was made from; ShardStore has    *)
(* the damage that an unfinished write leaves.  Repositories that share a  *)
(* directory are taken for one architecture, as fine-tunes of a model are. *)
(***************************************************************************)
EXTENDS Lists

CONSTANTS
    Repos,
    Moe, Mtp, Quantized,    \* repositories with experts, with an MTP head, in MLX format
    Slug,                   \* [Repos -> the words between the dashes of its name]
    DefaultModel,           \* config.model.model_id of the library
    Names, ModelOf,         \* what a user types, and resolve_model() of it
    Dirs, DirsOf,           \* shard directories, and where a name's are looked for
    LibraryDirs,            \* directories that the library is given
    NumLayers, Quants,
    Oversized,              \* pairs of repository and tier that exceed the GPU's memory
    Retries,                \* SWLP_RETRIES
    MaxCommands,            \* bound: commands
    None

ASSUME CatalogueAssumption ==
    /\ DefaultModel \in Repos /\ {Moe, Mtp, Quantized} \subseteq SUBSET Repos
    /\ ModelOf \in [Names -> Repos] /\ LibraryDirs \subseteq Dirs
    /\ \A n \in Names : DirsOf[n] \in Seq(Dirs) /\ DirsOf[n] # <<>>
    /\ \A r \in Repos : Slug[r] \in Seq(Range(Slug[r]))
    /\ NumLayers \in Nat \ {0} /\ {Retries, MaxCommands} \subseteq Nat
    /\ None \notin Repos \cup Dirs \cup Names \cup Quants

Layers == 1..NumLayers
Heads == <<"heads", 0>>
MtpFile == <<"mtp", 0>>
IndexFile == <<"index", 0>>
Manifest == <<"manifest", 0>>
Parts == {"weights", "config"}
Files == ({"layer", "bank"} \X Layers) \cup {Heads, MtpFile, IndexFile, Manifest}

VARIABLES
    shards,         \* [Dirs -> [Files -> Repos \cup {None}]]
    hub, own,       \* the Hugging Face cache and SWLP's own: "none", "config", "whole"
    copies,         \* [Repos \X Quants -> SUBSET Parts]: MLX conversions
    op,             \* what the process does
    commands,       \* how many there were
    pulled,         \* history: names pulled to the end and not removed since
    writers         \* history: [Dirs -> the models pulled into it since it was empty]

disk == <<shards, hub, own, copies, writers>>
vars == <<disk, op, pulled, commands>>

AtRest == [kind |-> "idle"]

Init ==
    /\ shards = [d \in Dirs |-> [f \in Files |-> None]]
    /\ hub = [r \in Repos |-> "none"] /\ own = [r \in Repos |-> "none"]
    /\ copies = [c \in Repos \X Quants |-> {}]
    /\ op = AtRest /\ pulled = {} /\ commands = 0
    /\ writers = [d \in Dirs |-> {}]

-----------------------------------------------------------------------------
(* What a name stands for (cli_resolve.py).                                *)

Has(d, f) == shards[d][f] # None
Owner(d) == shards[d][Manifest]

Target(backend, model, dir, quant) ==
    [backend |-> backend, model |-> model, dir |-> dir, quant |-> quant,
     sized |-> FALSE, needsPull |-> FALSE]

\* hub_config(): cached after the first call; None if offline.
HubQuantized(r, online) == r \in Quantized /\ (online \/ hub[r] # "none")

\* The repository's config.json is in the cache once hub_config() has read it.
ConfigRead(r, online) == [hub EXCEPT ![r] = IF online /\ @ = "none" THEN "config" ELSE @]

\* _from_dir(): by what lies beside the manifest.
FromDir(d, quant) ==
    IF Has(d, IndexFile)
    THEN Target("mlx-moe", Owner(d), d, IF quant \in {"int4", "int8"} THEN quant ELSE None)
    ELSE IF quant # None
    THEN [Target("mlx", Owner(d), None, quant) EXCEPT !.sized = TRUE]
    ELSE Target(IF Has(d, MtpFile) THEN "speculative" ELSE "swlp", Owner(d), d, None)

MlxTarget(r) ==
    IF r \in Moe THEN Target("mlx-moe", r, None, None) ELSE Target("mlx", r, None, "bf16")

\* Mutant of Pulled: only what was pulled under the repository's name.
PulledByRepo(name) == Kept(<<Last(DirsOf[name])>>, {d \in Dirs : Has(d, Manifest)})

\* Directories of this name in which a pull has come to its end.
Pulled(name) == Kept(DirsOf[name], {d \in Dirs : Has(d, Manifest)})

\* resolve_target(): the backend asked for, the shards, an MLX checkpoint, a tier.
Resolve(name, quant, backend, online) ==
    LET r == ModelOf[name] IN
    IF backend # None THEN Target(backend, r, None, quant)
    ELSE IF Pulled(name) # <<>> THEN FromDir(Head(Pulled(name)), quant)
    ELSE IF HubQuantized(r, online) THEN MlxTarget(r)
    ELSE IF quant # None THEN Target("mlx", r, None, quant)
    ELSE [Target("swlp", r, Head(DirsOf[name]), None) EXCEPT !.needsPull = TRUE]

\* It asks the hub only when neither the backend nor a directory decides.
AsksHub(name, backend) == backend = None /\ Pulled(name) = <<>>

\* _fits_resident(): the size is known from a manifest only.
FitsResident(t) == t.backend = "mlx" /\ t.sized => <<t.model, t.quant>> \notin Oversized

-----------------------------------------------------------------------------
(* swlp pull: a download, then one file after the other (shard_model_by_layer()). *)

PullOrder(r) ==
    LET layers == IF r \in Moe
                  THEN [k \in 1..(2 * NumLayers) |-> <<IF k % 2 = 1 THEN "bank" ELSE "layer", (k + 1) \div 2>>]
                  ELSE [i \in Layers |-> <<"layer", i>>]
    IN  layers \o <<Heads>>
            \o (IF r \in Mtp THEN <<MtpFile>> ELSE <<>>)
            \o (IF r \in Moe THEN <<IndexFile>> ELSE <<>>) \o <<Manifest>>

Command == op = AtRest /\ commands < MaxCommands /\ commands' = commands + 1

Goes(next) == op' = next /\ UNCHANGED <<pulled, commands>>

\* An MLX checkpoint is only downloaded; anything else is split into shards.
Pull(name, online) ==
    LET r == ModelOf[name] IN
    /\ Command
    /\ hub' = ConfigRead(r, online)
    /\ op' = [kind |-> "download", by |-> name, model |-> r, online |-> online,
              dir |-> IF HubQuantized(r, online) THEN None ELSE Head(DirsOf[name])]
    /\ UNCHANGED <<shards, writers, own, copies, pulled>>

Pulls == op.by # None

\* snapshot_download(): the library keeps its downloads in SWLP's own cache.
Download ==
    /\ op.kind = "download"
    /\ op.online \/ (IF Pulls THEN hub ELSE own)[op.model] = "whole"
    /\ IF Pulls THEN hub' = [hub EXCEPT ![op.model] = "whole"] /\ UNCHANGED own
                ELSE own' = [own EXCEPT ![op.model] = "whole"] /\ UNCHANGED hub
    /\ IF op.dir = None
       THEN op' = AtRest /\ pulled' = pulled \cup {op.by}
       ELSE /\ op' = [kind |-> "write", by |-> op.by, model |-> op.model, online |-> op.online,
                      dir |-> op.dir, left |-> PullOrder(op.model)]
            /\ UNCHANGED pulled
    /\ UNCHANGED <<shards, writers, copies, commands>>

Loading(by, target, online) ==
    [kind |-> "load", by |-> by, target |-> target, online |-> online, tries |-> 0]

\* The manifest is the last; then a pull has ended, and a run of the library loads.
WriteFile ==
    /\ op.kind = "write"
    /\ shards' = [shards EXCEPT ![op.dir][Head(op.left)] = op.model]
    /\ writers' = [writers EXCEPT ![op.dir] = @ \cup {op.model}]
    /\ IF Len(op.left) > 1
       THEN op' = [op EXCEPT !.left = Tail(@)] /\ UNCHANGED pulled
       ELSE IF Pulls
       THEN op' = AtRest /\ pulled' = pulled \cup {op.by}
       ELSE op' = Loading(None, Target("swlp", op.model, op.dir, None), op.online) /\ UNCHANGED pulled
    /\ UNCHANGED <<hub, own, copies, commands>>

-----------------------------------------------------------------------------
(* swlp rm: everything model_artifacts() finds, file by file.              *)

\* `mlx-*-<slug>`: the star stands for dashes as well.
Conversions(r) ==
    {c \in Repos \X Quants : copies[c] # {} /\ IsSuffix(Slug[r], Slug[c[1]])}

\* Mutant of Artifacts: the Hugging Face cache only.
ArtifactsHub(name) ==
    [dirs |-> Range(Pulled(name)), hub |-> hub[ModelOf[name]] # "none", own |-> FALSE,
     copies |-> Conversions(ModelOf[name])]

Artifacts(name) ==
    LET r == ModelOf[name] IN
    [dirs |-> Range(Pulled(name)), hub |-> hub[r] # "none", own |-> own[r] # "none",
     copies |-> Conversions(r)]

Rm(name) ==
    /\ Command
    /\ op' = [kind |-> "rm", by |-> name, items |-> Artifacts(name)]
    /\ pulled' = {n \in pulled : /\ ModelOf[n] # ModelOf[name]
                                /\ Range(DirsOf[n]) \cap Range(Pulled(name)) = {}}
    /\ UNCHANGED disk

Removed == Goes(op) /\ op.kind = "rm"

\* shutil.rmtree(): the files of a directory go in no particular order.
RmFile(d, f) ==
    /\ op.kind = "rm" /\ d \in op.items.dirs /\ Has(d, f)
    /\ shards' = [shards EXCEPT ![d][f] = None]
    /\ writers' = [writers EXCEPT ![d] = IF \A g \in Files \ {f} : ~Has(d, g) THEN {} ELSE @]
    /\ Removed /\ UNCHANGED <<hub, own, copies>>

\* A download without its config.json is none for every command.
RmDownload(left) ==
    /\ op.kind = "rm"
    /\ \/ op.items.hub /\ hub[ModelOf[op.by]] \notin {"none", left}
          /\ hub' = [hub EXCEPT ![ModelOf[op.by]] = left] /\ UNCHANGED own
       \/ op.items.own /\ own[ModelOf[op.by]] \notin {"none", left}
          /\ own' = [own EXCEPT ![ModelOf[op.by]] = left] /\ UNCHANGED hub
    /\ Removed /\ UNCHANGED <<shards, writers, copies>>

RmCopy(c, part) ==
    /\ op.kind = "rm" /\ c \in op.items.copies /\ part \in copies[c]
    /\ copies' = [copies EXCEPT ![c] = @ \ {part}]
    /\ Removed /\ UNCHANGED <<shards, writers, hub, own>>

\* Every item of the list is gone.
RmDone ==
    /\ \A d \in op.items.dirs, f \in Files : ~Has(d, f)
    /\ op.items.hub => hub[ModelOf[op.by]] = "none"
    /\ op.items.own => own[ModelOf[op.by]] = "none"
    /\ \A c \in op.items.copies : copies[c] = {}

RmEnds == op.kind = "rm" /\ RmDone /\ Goes(AtRest) /\ UNCHANGED disk

-----------------------------------------------------------------------------
(* swlp run, chat and serve: _prepare(), then the runner loads.            *)

Run(name, quant, backend, online) ==
    LET t == Resolve(name, quant, backend, online) IN
    /\ Command
    /\ hub' = IF AsksHub(name, backend) THEN ConfigRead(ModelOf[name], online) ELSE hub
    /\ op' = IF FitsResident(t) /\ ~t.needsPull THEN Loading(name, t, online) ELSE AtRest
    /\ UNCHANGED <<shards, writers, own, copies, pulled>>

\* A run of the library on a shard directory: _auto_shard_if_needed().
RunLibrary(d, online) ==
    /\ Command
    /\ op' = IF Has(d, Manifest)
             THEN Loading(None, Target("swlp", DefaultModel, d, None), online)
             ELSE [kind |-> "download", by |-> None, model |-> DefaultModel,
                   online |-> online, dir |-> d]
    /\ UNCHANGED <<disk, pulled>>

\* What the run computes with: the repositories its files were made from.
Runs(contents) ==
    Goes([kind |-> "running", by |-> op.by, target |-> op.target, contents |-> contents])

Loads(backends) == op.kind = "load" /\ op.target.backend \in backends

\* A repository's files are read from this cache, or fetched into it.
Fetched(cache, r, amount) == op.online \/ cache[r] \in {amount, "whole"}

WeightFiles(d) ==
    (({"layer"} \X Layers) \cup {Heads})
        \cup (IF Owner(d) \in Moe THEN {"bank"} \X Layers ELSE {})

\* Mutant of Verified: a directory with a manifest will do.
VerifiedManifest(d) == Has(d, Manifest)

\* verify_shards(): every file of the manifest's model is there.
Verified(d) == Has(d, Manifest) /\ \A f \in WeightFiles(d) : Has(d, f)

Weights(d) == {shards[d][f] : f \in WeightFiles(d)}

\* load_from_shards(); an expert index that is missing is built
\* (_wire_expert_streaming()).
LoadFromShards ==
    LET d == op.target.dir IN
    /\ Loads({"swlp", "speculative"}) /\ d # None
    /\ Verified(d) /\ Fetched(own, op.target.model, "config")
    /\ own' = [own EXCEPT ![op.target.model] = IF @ = "none" THEN "config" ELSE @]
    /\ shards' = [shards EXCEPT ![d][IndexFile] =
                    IF Owner(d) \in Moe /\ @ = None THEN shards[d][<<"bank", 1>>] ELSE @]
    /\ Runs(Weights(d)) /\ UNCHANGED <<hub, copies, writers>>

\* load_full_model(), in one of its attempts.
LoadFullModel ==
    /\ Loads({"swlp"}) /\ op.target.dir = None
    /\ Fetched(own, op.target.model, "whole")
    /\ own' = [own EXCEPT ![op.target.model] = "whole"]
    /\ Runs({op.target.model}) /\ UNCHANGED <<shards, writers, hub, copies>>

LoadAttemptFails ==
    /\ Loads({"swlp"}) /\ op.target.dir = None /\ op.tries < Retries
    /\ Goes([op EXCEPT !.tries = @ + 1]) /\ UNCHANGED disk

\* MlxMoeRunner.load() from shards, which it does not verify: a file that is
\* missing, or an expert that is not in its bank, raises.
LoadMoeShards ==
    LET d == op.target.dir IN
    /\ Loads({"mlx-moe"}) /\ d # None /\ Has(d, IndexFile)
    /\ None \notin Weights(d) \cup {shards[d][<<"bank", i>>] : i \in Layers}
    /\ Fetched(own, op.target.model, "config")
    /\ own' = [own EXCEPT ![op.target.model] = IF @ = "none" THEN "config" ELSE @]
    /\ Runs(Weights(d) \cup {shards[d][IndexFile]}) /\ UNCHANGED <<shards, writers, hub, copies>>

\* _load_mlx_checkpoint(): a snapshot in SWLP's own cache.
LoadMoeCheckpoint ==
    /\ Loads({"mlx-moe"}) /\ op.target.dir = None /\ op.target.model \in Moe \cap Quantized
    /\ Fetched(own, op.target.model, "whole")
    /\ own' = [own EXCEPT ![op.target.model] = "whole"]
    /\ Runs({op.target.model}) /\ UNCHANGED <<shards, writers, hub, copies>>

\* _resolve_model_path(): bf16 is the repository itself.  External: mlx_lm
\* keeps it in the Hugging Face cache.
LoadMlx ==
    /\ Loads({"mlx"}) /\ op.target.quant = "bf16"
    /\ Fetched(hub, op.target.model, "whole")
    /\ hub' = [hub EXCEPT ![op.target.model] = "whole"]
    /\ Runs({op.target.model}) /\ UNCHANGED <<shards, writers, own, copies>>

Copy == <<op.target.model, op.target.quant>>

\* A copy with a config.json is used again, whatever else is there.
Reusable(c) == "config" \in copies[c]

\* External: mlx_lm.load() raises when weights are missing.
LoadCopy ==
    /\ Loads({"mlx"}) /\ op.target.quant # "bf16" /\ Reusable(Copy) /\ copies[Copy] = Parts
    /\ Runs({op.target.model}) /\ UNCHANGED disk

\* External: mlx_lm.convert() writes config.json after the weights.
Convert ==
    /\ Loads({"mlx"}) /\ op.target.quant # "bf16" /\ ~Reusable(Copy)
    /\ Fetched(hub, op.target.model, "whole")
    /\ hub' = [hub EXCEPT ![op.target.model] = "whole"]
    /\ copies' = [copies EXCEPT ![Copy] = {"weights"}]
    /\ Goes([op EXCEPT !.kind = "convert"]) /\ UNCHANGED <<shards, writers, own>>

ConvertEnds ==
    /\ op.kind = "convert"
    /\ copies' = [copies EXCEPT ![Copy] = Parts]
    /\ Goes([op EXCEPT !.kind = "load"]) /\ UNCHANGED <<shards, writers, hub, own>>

\* A command raises, is interrupted or killed; a run comes to its end.
Stops == op # AtRest /\ Goes(AtRest) /\ UNCHANGED disk

Next ==
    \/ \E n \in Names, online \in BOOLEAN : Pull(n, online)
    \/ \E n \in Names, online \in BOOLEAN, q \in Quants \cup {None}, b \in {None, "swlp", "mlx-moe"} :
            Run(n, q, b, online)
    \/ \E d \in LibraryDirs, online \in BOOLEAN : RunLibrary(d, online)
    \/ \E n \in Names : Rm(n)
    \/ Download \/ WriteFile
    \/ (\E d \in Dirs, f \in Files : RmFile(d, f)) \/ RmEnds
    \/ \E left \in {"none", "config"} : RmDownload(left)
    \/ \E c \in Repos \X Quants, part \in Parts : RmCopy(c, part)
    \/ LoadFromShards \/ LoadFullModel \/ LoadAttemptFails \/ LoadMoeShards
    \/ LoadMoeCheckpoint \/ LoadMlx \/ LoadCopy \/ Convert \/ ConvertEnds
    \/ Stops

Spec == Init /\ [][Next]_vars

-----------------------------------------------------------------------------
(* Properties.                                                             *)

\* No other model was pulled into a directory of this name since it was empty.
\* The code does not see to it: shard_dir_for() keeps the last path segment only.
Alone(name) == \A d \in Range(DirsOf[name]) : writers[d] \subseteq {ModelOf[name]}

\* What a command runs is the model its name stands for, whole, whichever pulls,
\* removals and conversions were interrupted before, as long as no other model
\* was pulled into its directories (verify_shards(), the loaders).
RunsItsModel ==
    op.kind = "running" /\ op.by # None /\ Alone(op.by) => op.contents = {ModelOf[op.by]}

\* A pull that came to its end is found under the name it was given, with and
\* without a network, until a removal takes its model or its files, and is that
\* model's unless another was pulled over it (resolve_target()).
PulledRuns ==
    \A n \in pulled, online \in BOOLEAN :
        LET t == Resolve(n, None, None, online)
        IN  ~t.needsPull /\ (Alone(n) => t.model = ModelOf[n])

\* After swlp rm no later command finds anything of the model in either cache,
\* as a converted copy, or in shards, by the name that was typed or by one that
\* is looked for in no other directory (model_artifacts()).
RmForgets ==
    op.kind = "rm" /\ RmDone =>
        LET r == ModelOf[op.by] IN
        /\ \A n \in Names : ModelOf[n] = r /\ Range(DirsOf[n]) \subseteq Range(DirsOf[op.by])
                => Resolve(n, None, None, FALSE).needsPull
        /\ hub[r] = "none" /\ own[r] = "none"
        /\ \A q \in Quants : copies[<<r, q>>] = {}

\* The three together, for a run that checks other components beside this one.
CatalogueSound == RunsItsModel /\ PulledRuns /\ RmForgets
=============================================================================
