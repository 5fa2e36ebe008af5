# TLA+ verification of SWLP

SWLP runs language models that do not fit in memory by streaming them: one
transformer layer is read from an SSD shard, copied to the device, computed
with and dropped, while the next ones are on their way.  This directory holds
TLA+ models of the parts of the program where threads, budgets, caches and
failures meet, the TLC configurations that check them on small instances, and
proofs, checked by TLAPS, that hold for every size.

Paths below are relative to `src/swlp/`.

## 1. Inventory

| Component | State | Operations | What is hard |
|---|---|---|---|
| Streaming scheduler, `core/streaming.py` | `_futures`, `_loaded`, `_resident_data`, the buffer free-list, two thread pools, the blocks | `prefetch`, `ensure`, `evict`, `load_resident_layers`, `disable_prefetch`, `cleanup`; on the pools `_read_and_deserialize`, `_upload_to_device` and the callbacks that chain them | reads and copies finish in any order; buffers are reused while copies are in flight; every stage can fail; shutdown with work in flight |
| Layer loop, `runner/swlp.py::_run_blocks` and `run` | layer index, prefetch index, hidden state | warm-up, prefetch ahead, ensure with one retry, compute, evict, cleanup | memory bound of the lookahead; retry with prefetching switched off; end of run |
| Threaded scheduler, `core/scheduler.py` | `_threads`, `_loaded`, CPU masters of the blocks | `prefetch`, `ensure`, `evict`, `cleanup` | one thread per prefetch, which may die registered, and which `cleanup` never joins |
| KV cache manager, `core/kv_cache.py`, and `core/compressed_cache.py` | an entry per layer in one of four tiers, byte counters, spill files; cold flags of the cache layers | `set`, `get`, `maybe_evict`, `clear`; `compress`, `decompress`, `update` | budget enforcement moves entries between tiers, also the one just asked for; counters follow every move; spill files |
| HTTP server, `serve.py`, and `SWLPRunner.stream_tokens` | the generation lock, the shared runner and its `_token_callback`, one queue and one daemon thread per request | request, stream, disconnect | the generator ends before the thread it started |
| MoE expert scheduler, `runner/expert_scheduler.py`, `runner/experts.py`, `core/moe_policy.py` | expert slots, in-flight set, staged tensors, routing history | `prepare_layer`, `ensure`, `set_budget`, `cleanup` and the I/O workers | waiting with a deadline on jobs that can fail |
| MLX expert cache, `runner/mlx_expert_cache.py`, `runner/mlx_switch.py` | LFU heap, byte budget, futures | `get_many`, `prefetch`, eviction, `close` | stale heap entries, the budget, futures that fail or finish in between |
| Decode loops and speculative decoding, `runner/swlp.py::run`, `runner/speculative.py`, `core/speculative.py`, `runner/draft.py`, `runner/mtp.py`, `runner/hybrid_rollback.py`, `core/decode_cache.py` | generated ids, the KV cache, the drafter's state, a preallocated token buffer | prefill in slices, propose, verify, accept, roll back | the output must be that of greedy decoding; the KV cache and the drafter's are cut back after a rejection; sweeps and rollbacks fail |
| Prefix KV cache, `core/prefix_cache.py` | snapshots in LRU order, byte count | `lookup`, `store`, eviction | a snapshot must belong to the ids it is stored under, positions to the whole prompt |
| Batched runner, `runner/batch.py` | rows, mask, finished rows, KV | left padding, lockstep decode | padding and finished rows must not show in the others |
| Chat and MLX prompt cache, `chat.py`, `runner/mlx.py` | history, the prompt cache and the ids noted for it | ask, stop, `/clear`, `/think` | what the cache holds grows after its ids were noted |
| Sharding, `model/shard.py` | shard files and the manifest | write shards, compress and decompress in place, verify, load the manifest | interrupted conversions; the manifest is written last |
| Shard file readers and codec, `core/shard_io.py`, `codec.py` | read buffers | buffered and mapped reads, `.swz` decompression, safetensors views | short reads, buffers with the bytes of the file before, damaged files |
| Packages, `model/package.py` | a package directory: layer files, manifest, index | package, load a layer, validate | digests, name resolution, interrupted packaging over an older package |
| Expert banks, `model/expert_bank.py`, `model/mlx_expert_index.py` | an index of byte ranges | split, index, read one expert | offsets in every layout, short preads |
| Residency planning, `core/residency.py`, `core/resident_policy.py`, `core/confidence.py`, `core/pipeline_model.py`, `runner/swlp_setup.py`, `runner/mlx_tune.py`, `hardware/detect.py` | the measured ratio, a bandwidth cache file | plan, measure | numeric edges, measurements of failed runs carried on |
| Profiler, `core/profiler.py` | a trace per layer and token | begin and end hooks, `finalize` | stamped from three threads |
| Pipeline simulators, `scripts/research/simtools/simulator.py`, `event_simulator.py` | a heap of timed events, resource pools, layer states | one handler per event; strategies | events of the same time; an event lost or doubled |
| Model catalogue, `cli.py`, `cli_resolve.py`, `cli_models.py`, `runner/load.py`, `runner/base.py` | shard directories, two download caches, MLX conversions | `pull`, `rm`, a run that resolves a name and loads, a run of the library | files of four kinds found by name, left by earlier commands of which any was interrupted |
| Resident runners, `runner/hf.py`, `runner/mlx_moe.py`, `runner/arch.py`, `runner/mock.py` | a model | load, generate | library code does the work |
| Command line, configuration, metrics, benchmarks, research scripts | settings, reports | parse, print | none |

The layer loop calls a scheduler (streaming or threaded), which reads shards
through the shard readers; `run` calls the loop once a token, with a drafter or a prefix cache
in front, the KV cache layers inside, and the profiler stamping every
stage.  The server, the chat and the batch runner call `run`.  The MoE and MLX caches read
experts from the banks.  The planner decides before a run what stays resident, from what the
profiler measured in the last.  The command line resolves what a user typed to a backend and its
files, which earlier commands made, and hands both to the runner.

What makes each part correct is stated as the properties of section 3; the
hazards they answer are listed at their lines in `PROJECT.json`.

## 2. Modules

    ForwardPass             what the layer loop promises (abstract)
      ^ implemented by
    LayerSweep              runner/swlp.py: the layer loop and end of run()
      | EXTENDS
    StreamingScheduler      core/streaming.py: prefetch pipeline
    ThreadedScheduler       core/scheduler.py under the same loop
    Serving                 serve.py and stream_tokens()
    ExpertScheduler         runner/expert_scheduler.py, runner/experts.py, core/moe_policy.py
    Decoding                run(), the drafters, core/prefix_cache.py, core/decode_cache.py
    KVCache                 core/kv_cache.py, core/compressed_cache.py
    Batch                   runner/batch.py
    Conversation            chat.py and the prompt cache of runner/mlx.py
    Catalogue               cli.py, cli_resolve.py, cli_models.py, runner/load.py: pull, rm, resolve, load
    ShardStore              model/shard.py: pull, compress, decompress, verify
    ShardReader             core/shard_io.py, codec.py
    Packages                model/package.py
    ExpertBank              model/expert_bank.py, model/mlx_expert_index.py
    MlxExpertCache          runner/mlx_expert_cache.py, runner/mlx_switch.py
    ResidencyPlanner        core/residency.py, resident_policy.py, ... (seven files)
    Profiler                core/profiler.py
    PipelineSimulator, PolicyLab
                            scripts/research/simtools: simulator.py, event_simulator.py

    Lists                   sorted(), filters and list.remove() of Python, for the modules above

    MCStreaming, MCLayerSweep, MCExpertScheduler, MCDecoding, MCShardReader
                            instances for TLC of the module of that name
    MCServing               Serving; ThreadedScheduler
    MCStorage               ShardStore; Packages; MlxExpertCache; ShardReader; ExpertBank
    MCGeneration            MCDecoding; KVCache; Batch; Conversation
    MCTools                 ResidencyPlanner; Catalogue; Profiler; the simulators by INSTANCE

    ListsProofs             lemmas: induction, sequences, sorting, filters, folds, sums
    LayerSweepProofs        StreamingScheduler; LayerSweep; ForwardPass implemented
    ServingProofs           Serving; ThreadedScheduler
    ExpertSchedulerProofs   ExpertScheduler
    DecodingProofs          Decoding
    GenerationProofs        KVCache; Batch; Conversation
    StorageProofs           ShardStore; Packages; MlxExpertCache; ShardReader; ExpertBank
    ToolsProofs             ResidencyPlanner; Catalogue; Profiler

**StreamingScheduler.**  The compute thread, the read pool and the upload pool.
The scheduler's futures and callbacks are kept as one job per layer: `stage` says
where it is (queued, reading, upload queued, uploading, ready, empty, or in the
synchronous fallback of `ensure`), `held` which read buffer it owns, `result`
what its final future holds.  One job per layer is not an assumption: `NoOrphanJob`
says that a second one never starts, and is proved.  `readQ` and `uploadQ` are
the executors' queues, `free` is `_buf_pool`, `bytes` the content of each buffer;
`futures`, `loaded`, `residentData`, `enabled` and `block` are the attributes of
the same names.  A tensor is the number of the layer whose bytes it holds, or
`Torn`.  `Prefetch`, `PrefetchRaises`, `Ensure` with its later steps
(`EnsureWait`, `SyncRead`, `SyncReadEnd`, `SyncReadFails`, `SyncCopyEnd`,
`EnsureApply`), `Evict`, `LoadResidentLayers`, `DisablePrefetch` and `Cleanup`
are the API; `ReadBegin`, `ReadEnd`, `ReadFails`, `UploadBegin`, `UploadEnd` and
`UploadFails` are the pools, callbacks included: `ReadEnd` is the read's return
and `_chain_upload`, which runs on the same worker.  A read and a copy are each
two steps, so that anything can happen meanwhile.  `Next` lets any client call
the API in any order; `cleanup` is three steps because it waits for each pool.
The environment may make a submission, a read, a copy or an apply fail (`Faults`,
at most `MaxFaults` times).  An exception of `ensure` is `outcome`: a
`PrefetchError`, or the `TypeError` of a call the profiler does not accept.

**LayerSweep** extends it with the program counter of `_run_blocks`: `Load`,
`WarmUp`, `PrefetchAhead`, `Disable`, `CallEnsure`, `EnsureReturns` (with the one
retry), `Compute`, `EvictLayer`, `CleanUp`.  A token is one sweep.  `hidden` is the
sequence of weights that the hidden state went through.

**ForwardPass** is what the model needs from all that: each token goes through
every layer once, in order, with that layer's weights, or the run stops.
`LayerSweep!Forward` maps the loop to it.

**KVCache.**  `manager` is `KVCacheManager`: an entry per layer with its tier and the
token positions it holds, the four byte counters and, for each layer, the state of its spill file: none,
whole, or torn, which stands for whatever a raising `write_bytes` left.  `order`
is the layers by `last_access`.  `keys`, `cold` and `coldLen` are the attributes of
`CompressedDynamicLayer`.  `Update` and `CompressLayer` are the calls that the sweep
makes for each layer; each contains the whole of `get` or of `set` followed by
`maybe_evict`, budget loops included.  `EnforceDeviceBudget` and `EnforceBudget` are folds over the
layers, oldest first.  Everything happens on the compute thread, so a call is one step.

**Serving.**  Per request, the handler (`client`) and the daemon thread of
`stream_tokens` (`run`); shared, the lock, `_token_callback`,
`generation.max_new_tokens` and the model that `_cleanup_resources` drops.  A
token is the request whose generation produced it, so a mixed-up stream shows.
`Acquire` is the lock, the write of the limit and the start of the thread;
`RunStart`, `RunLoad`, `Prefill`, `Decode`, `DecodeEnds`, `RunRaises`, `Teardown`, `Reset`
and `PutSentinel` are the thread; `Deliver`, `Answer` and `Disconnect` are the
response.

**ExpertScheduler.**  `modules` is one `SwlpCachedExperts` per MoE layer: the expert
in each slot (`_id_of`), whose weights the slot holds, and `_slot_of` in its insertion
order, which decides who leaves in `resize`.  `lru` and `history` are `_lru` and the
`RoutingHistory`; `staging`, `stagingOrder` and `inflight` are the attributes the compute thread and the
I/O workers share under `_lock`; `jobs` and `running` are the pool.  The compute thread
goes through `PrepareLayer`, `Route` (the router's choice and `prepare_set`), then for each expert `Hit`,
or `Miss` and the rest of `ensure`: wait (`Wake`, `TimeOut`), take the staged
weights, or `Read`.  `EndForward` is `record_routing` with its look ahead.  The workers are
`JobBegin`, `Stage` and `JobFails`, which notifies nobody.  `SetBudget` is the elastic
resize between sweeps; `Shutdown` and `Close` are `cleanup`.  The prefetches of one set are one
step.  `computed` is the weights that the linear layers ran with.

**ShardStore.**  A shard directory: `plain` and `swz` are the two files a layer may have,
`heads` is `embed.pt` and `lm_head.pt`, `manifest` is `shard_manifest.json`.  The content of a file is the number of the
pull that wrote it, or the damage an unfinished write leaves: nothing, a cut header, a cut
payload, which the checks of `verify_shards` tell apart.  `Pull` and the four steps
after it are `shard_model_by_layer`, which writes over what is there; `CompressLayer` and
`DecompressLayer` end with the rename, `CompressDrop` and `DecompressDrop` are the
unlink; `WriteManifest` and `ManifestWritten` end all three.  `Interrupt` may come between
any two steps and in the middle of a write.  `Loaded` is what the streaming scheduler's
`_shard_path` leads to.

**ThreadedScheduler.**  A block is the set of its tensors that are on the device
(`onDevice`); `to(device)` moves one after the other, so a block may be on both sides.
`loaded` and `threads` are `_loaded` and `_threads`; `movers` is the
threads that exist, for `cleanup` forgets threads without joining them.  `MovePart`,
`MoveDone` and `MoveRaises` are `_move_block` on a thread, `MoveHere` and
`MoveHereRaises` the same on the compute thread, `Ensure` the join.  `EvictAll` is `evict` of the layer
computed, or of all in `cleanup`: an eviction that raises midway leaves some tensors on the CPU
and the layer in `_loaded`, and the history variable `torn` keeps which layers that happened to.  A run loads its blocks and
drops them (`swlp.py:127`, `:143`), so one run is all there is: a thread that outlives it
moves a block nobody uses.

**Decoding.**  The token ids of a run and what they depend on.  The layers' KV caches move
together and are one sequence of the ids fed, each with the rotary position it was fed at;
`lin` is what recurrent layers have absorbed, which cannot be cut back but only fed anew.  The target is a
function of the last two ids; its greedy pick is that function's value when the cache
holds exactly the context at its own positions, and *any* id when it does not, so whatever
corrupts the cache can show in the output.  `Prefill` takes a slice, `FirstToken` ends the prefill;
`PlainStep` is a turn of the plain loop; `SpecStep` one of `_generate_remaining`: `Proposals` (n-gram,
draft model, MTP head), `Verifications`, `Accepted`, `Rollback`.  `Store`, `Lookup` and `Evicted` are the
prefix cache.  `SweepRaises` and `FailedRollbacks` are the faults; `degraded` says that one was
recorded and decoding went on.

**Batch.**  A row is what was fed for it, and each sweep picks from a hash of what
the row's mask lets it attend to, each cell with its position (`Mixed`), so that a hidden, extra or displaced cell
can change the pick.  `Call`, `BatchPrefill`, `Step` and `Return` are `run_batch`, `BatchRaises` its refusal of an empty
list.  `Single` is the reference: the loop of `run` for one prompt.

**Conversation.**  `session` is the chat's messages, `chatPrompt` the text made of them (`Transcript`,
`FormatChatPrompt`) in pieces: the marker of a role, a space, a content.  With the tokenizer's template a content follows
its marker at once; in the plain script a space comes between, but not after the marker that ends the prompt (`AfterRole`).
A piece is one id to the prompt cache.  `promptCache` is what the prompt cache holds (`held`) and the ids `_prompt_cache_tokens` claims
(`tokens`); `plainly` says that nothing but an answer came since the last prompt.  `Ask`, `Produce`, `FinishAnswer`,
`Stop`, `Fail`, `Slash` and `Exit` are what can happen at the prompt and during an answer.

**Catalogue.**  A command after the other, on a machine with four kinds of files: `shards` are the directories, of
which a file's content is the repository it was made from; `hub` is the Hugging Face cache, `own` the one
of SWLP (`.cache/hf`), `copies` the conversions that `-q` makes.  `Resolve` is `resolve_target`, `Artifacts` is
`model_artifacts`; a copy is its weights and its `config.json`, which is all that is looked at before it is
used again (`Reusable`).  `op` is what the process is at: `Pull`, `Download` and `WriteFile`, one file a step with the manifest
last; `Rm`, and `RmFile`, `RmDownload`, `RmCopy`, part by part in any order; `Run`, then the load of the backend it chose
(`LoadFromShards`, `LoadFullModel`, `LoadMoeShards`, `LoadMoeCheckpoint`, `LoadMlx`, `Convert` and `ConvertEnds`, `LoadCopy`);
`RunLibrary`, which is given a directory and shards into it when it is empty.  `Stops` is an exception or an
interruption, at any step of any of them, and the end of a run.  A command has a network or has none.
Two history variables serve the properties: `pulled`, the names whose pull has ended and of which no removal has taken
anything since, and `writers`, the models pulled into a directory since it was empty.  `Alone(name)` says
that nobody else's was pulled where a name is looked for; the code does not ensure it (see the limits below), and
which model a name runs is stated for such a name only.

**ShardReader.**  A cell stands for a run of bytes of a layer's safetensors image.  `Reading` takes a buffer
from the free-list or a larger one, `ReadInto` is one `readinto`, which may be short,
`Deserialize` checks, decompresses and cuts the payload into views, `Upload` copies those out and
gives the buffer back; the disk (`disk`) is chosen once, each file plain or compressed, whole or damaged.
A buffer larger than its file ends with what the file before left there.

**Packages.**  `package` is the directory, `job` the packaging under way; a layer file's
digest is its content.  Every write is a step and `Interrupted` may come at each; `DamageFile` changes a layer
file afterwards.  `LoadLayer` and `ValidatePackage` are operators on what is there, `packed` is the checkpoint
that should be.

**ExpertBank.**  A file is its header length and the shapes of its tensors; a byte read is its position.
`IndexFile` (`FusedPair`, `FusedTriple`, `PerExpert`) and `IndexMlx` build the index; `Pread` and `ShortPread` read.
`Reference` says independently which bytes of which tensor are an expert's.

**MlxExpertCache.**  `cache` is the cached keys with their LFU state and the heap, stale entries
included; `futures` is `_inflight` with the state of each read.  `Call`, `Snapshot`, `Absorb`, `Route`,
`Collect` and `Return` are a `get_many` of the compute thread with the prefetch before it; `Read` is the pool.

**ResidencyPlanner.**  The planning functions in integers (MB, hundredths of a ratio), around the one
state they leave behind: the smoothed ratio and the measured bandwidth.  A behaviour is a
sequence of runs on changing machines, each measured or failed.

**Profiler.**  A trace is the time of each stage of a layer, as the compute thread and the layer's worker
(`JobStep`) stamped it; every stamp is a step and the time of a trace is the number of its stamps, on which the signs
of the durations depend and nothing else does.  The start of `ensure`, which no metric reads, is left out.

**PipelineSimulator, PolicyLab.**  The two event loops, one handler per event kind, over integer
times.  Events of one time come in any order, as `heapq` may give them.

The definitions named "Mutant of ..." are plausible bugs of the definition that follows
them: none is used by a specification.  Each property has one that breaks it.

## 3. Runs

| Run | Configuration | Shows |
|---|---|---|
| `streaming` | `MCStreaming.cfg`: 3 layers, 1 resident, depth 2, 4 buffer names, one fault of any kind | Under any order of API calls: `BufferOwnership`, `OwnWeights`, `CleanShutdown`, and the action property `NoResultLost` |
| `sweep` | `MCLayerSweep.cfg`: the runner's scheduler with its profiler, 4 streamed layers, window 1, depth 2, 2 tokens, three submit, read, copy or apply faults, fairness | `DeviceBound`, `BufferBound`, `RaisesAfterFallbacks` (no raise before prefetch, read and retry, or an apply, have failed); the loop implements `ForwardPass` (`ImplementsForwardPass`) and ends (`Terminates`) |
| `serving` | `MCServing.cfg`: 2 requests for up to 2 tokens, disconnects and failing runs; 3 blocks of 2 tensors, a run of 2 tokens, 3 faults; fairness | Until a client leaves, `SerializedWhileConnected` and `ConfigurationRestored`; always `Served`.  On the threaded scheduler, `ComputeOnDevice` and `RunEnds` |
| `experts` | `MCExpertScheduler.cfg`: 2 MoE layers of 3 experts, 1 or 2 slots each, up to 2 routed experts, 3 forward calls, one failing read, fairness | `SlotsConsistent`, `BitIdentical`, `RecentlyUsedStay`, `StagingSound`; `ForwardEnds`: a forward call ends even if the pool never answers |
| `storage` | `MCStorage.cfg` | Shard directory: `ReadersServed` (every layer of a complete directory always loads, with the weights of the last pull), `VerifyTruthful`, `Converted`.  Packages: `PackageSound`.  Banks: `OwnBytes`.  Readers: `OwnTensors`.  MLX cache: `WithinBudget`, `CallReturns` |
| `generation` | `MCGeneration.cfg` | Decoding: `Lossless`, `SnapshotsLabelled`, `DrafterHonest`, `GenerationEnds`.  KV cache: `KVFaithful`, `BudgetEnforced`, `SpillFilesTracked`.  Batch: `RowsIndependent`.  Chat: `ResendsPrefix` |
| `tools` | `MCTools.cfg` | `PlanSound`; `TracesSound`; `SimulatorsSound`; `CatalogueSound`: after three commands that pull, run and remove models, each interrupted anywhere, a name over whose directories no other model was pulled runs its own and a whole one (`RunsItsModel`), a finished pull is found again (`PulledRuns`), and a removed model is not by what the typed name is looked for in, nor in a cache or as a copy (`RmForgets`) |

`MCServing`, `MCStorage`, `MCGeneration` and `MCTools` check components that share no state side by side: the
variable `focus` is chosen in the initial state, and only the component in
focus moves.  The states are therefore those of each component by itself, not
their product, and a run with many properties stays one question: threads, weights at
rest, the ids of a generation, and what is around the pipeline.  A property ending in `Sound` is often the
conjunction of several of its module, as its comment says (`PackageSound`, `TracesSound`, `CatalogueSound`,
`SimulatorsSound`); so is `KVFaithful`.

Runs that end in a violation; each is a disagreement between the code and what a
comment, a docstring or a test says:

| Run | Refutes | What happens |
|---|---|---|
| `resident_profiler` (`MCLayerSweepProfiled.cfg`) | `FaultlessRunCompletes` | `ensure` of a resident layer calls `end_ensure` with an argument it does not take; the profiler is always attached, so a run with residency raises |
| `kv_lost` (`MCGenerationLost.cfg`) | `KVBitIdentical` | `get` moves the entry up, enforces the budget, and that packs the same entry again: it returns None and the layer goes on with its newest tokens only |
| `prefix_reuse` (`MCGenerationPrefix.cfg`) | `PrefixReuseLossless` | After a prefix hit the decode loop counts positions from the suffix only |
| `prompt_cache` (`MCGenerationReuse.cfg`) | `ReuseSound` | The ids noted for the prompt cache are the prompt's, the cache holds the answer too: the same question after `/clear` is answered on top of it |
| `page_cache` (`MCShardReader.cfg`) | `OwnTensors` | In the page-cache mode a compressed shard is parsed without decompressing it; its layer loads with no tensors |

The passing runs state what does hold beside these: `sweep` keeps no layer resident; `KVFaithful` holds while one layer's tensors fit in the budget
beside the other layers packed; `Lossless` excludes what follows the first token after a
prefix hit; `ResendsPrefix` is about a turn after which nothing but its answer happened, and has the plain
script's space between prompt and answer; in `storage`
compressed shards are not mapped; the server's invariants hold until a client leaves in the
middle of its stream; `RunsItsModel` is about commands, and names over whose directories no other model was
pulled; `RmForgets` about what later commands would find by the typed name, or another that is looked for nowhere else.

### Limits of the code the properties are worded around

*Loop and schedulers.*  `_apply_shard` marks a layer as loaded even when the apply raised, and the retry of
`_run_blocks` takes the block as it is.  `window_size` does not bound the layers on the device,
lookahead + 1 does, the lookahead being the larger of window and prefetch depth.
*Server.*  A broken pipe closes the generator and frees the lock while the daemon thread goes on
beside the next request's; an exception of a generation stays on its thread and the
client gets 200 and a short answer.
*KV cache.*  The bytes of spilled entries count against the budget, so spilling an entry never makes
room for another; a spill whose write raises has given the bytes back already, and may leave a `kv_N.pt` cut
short (`kv_cache.py:290`) that no entry names: nothing reads it, the layer's next spill writes over it, and `clear()`, which
by its docstring deletes spill files, passes over it.  `SpillFilesTracked` counts these.
*Experts.*  `ensure` looks into the staging area only while the expert is in flight: one whose
prefetch has ended is read again.  `resize` drops the longest resident experts where its
docstring says least recent.
*Decoding.*  A full token buffer drops tokens silently (`BufferSufficed`); `run` does not compare its first
token with EOS and `run_batch` does, hence the exception in `RowsIndependent`; after a prefix hit the repetition penalty
sees the suffix only, and in a batch it counts each id once and the padding as well.
*Chat.*  In the plain script a prompt ends with `Assistant:` and the history has `Assistant: {content}`
(`chat.py:58-59`), so prompt and answer are not literally the beginning of the next prompt: the space is missing,
unless the answer begins with one.  The prompt alone is, in text, which is what the cache looks for.
*Shards.*  An interruption in the middle of `_write_manifest` leaves a manifest that cannot be parsed: every
layer is intact, but no run can load, convert or verify the directory any more.  After an interrupted second
pull over a compressed directory `verify_shards` checks the old `.swz`, which the manifest
names, while `_shard_path` loads the plain file that the pull left cut.  Plain files have no
checksum, and `parse_safetensors_views` applies offsets to the whole buffer: a cut plain
file would yield the bytes of the file before it, so damage is to `.swz` files in the model.
*Banks.*  A bank whose header cannot be read counts as a layer without experts; an MLX checkpoint that lacks a slot
is indexed; an interrupted second pull leaves the old index beside new banks.
*Catalogue.*  Repositories with one last path segment share a shard directory: the second pull overwrites the first's
layers, which an interruption leaves mixed under the first's manifest, and keeps its expert index and MTP head, which decide the backend, and either name runs what is there.
`swlp rm` lists a directory only if it has a manifest, which a pull writes last: it passes over the layers of
an interrupted pull, and, when given the id, over the shards pulled under an alias (`cli_models.py:79`), which `swlp
chat <alias>` then still runs, although the docstring (`:63-66`) says that everything kept for the model is listed.  Its pattern `mlx-*-gpt2`
matches the converted copy of `sshleifer/tiny-gpt2` too.  A pulled dense model with `-q` goes to MLX, where the rules
of `docs/configuration.md:21-24` stream it.  `swlp pull` keeps an MLX checkpoint in the Hugging Face cache and the MoE runner looks
for it in `.cache/hf`, so it is downloaded twice.  The library, given a shard directory only as in `README.md:92`,
takes the model id of its configuration, whose default is tiny-gpt2, before the manifest's.
`--backend swlp` for a pulled model passes no shard directory, so the whole model is loaded.
`hub_config` takes every failure for "no config", so a pull that meets one splits an MLX
checkpoint.  `swlp rm` reads the default configuration, whatever `--config` other commands were given, and the disk
check knows ten aliases.
*Packages.*  Files of layers that the new manifest no longer has stay, unreported.
*Planner.*  The layer size of the policy is always the reference model's 416 MB; a run that fails before its first token
measures a ratio of 1.0, which is smoothed into the next plan; KV and resident budgets do not
know of each other.
*Profiler.*  An ensure of the streaming scheduler records a miss as `sync`, so the number of prefetch
misses is always 0.
*Simulators.*  Events of one time have no tie-breaker although one is kept; with window and depth 0 the
first one's heap runs dry; in the second, compute starts without waiting for its layer, and RAM may be
counted below zero.

### Bounds

*Scheduler and loop.*  Three streamed layers are the fewest with one being computed,
one being copied and one being read at once, and with a lookahead that ends inside the
model as well as past its end; the resident one comes before them, as in the code.
Two tokens make each layer's job start again after an eviction.  Three faults
are what it takes to fail a layer's prefetch, its synchronous read and the retry.  The buffer names are as many as can be live in a run
(`BufferBound`); the proofs need no bound on them.  In the runs without liveness they are
interchangeable, hence the symmetry.  `MaxFaults`, `Tokens` and the number of layers are the only
bounds of these models.

*KV cache.*  `RawBytes`, `PackedBytes` and `QuantBytes` keep the order of the real
sizes.  The configurations are one per regime: a budget with room for one unpacked layer at almost all
lengths, INT4 entries over their budget, a sliding window under a budget too small
for anything, and no disk.  `MaxPos` and `MaxNew` bound the sequence and a sweep; several
sweeps of several tokens happen, and up to `MaxFaults` spills or loads fail.

*Serving.*  Two requests are enough for each interference.  `MaxTokens` 2 and
`Default` 1 put the asked limit below, at and above the configured one, 0
included.  The theorems hold for any number of requests.

*Experts.*  Three experts in one or two slots make evictions and both kinds of resize happen, and the
least recent expert differ from the oldest one.  One worker has a staging area
of two, less than the experts of two layers, so staged experts are dropped.
`TopK` 2 makes a forward call evict what it has just used when there is one slot.
`MaxForwards` 3 comes back to the first layer with a history, a changed budget and leftovers of the
first sweep.  `MaxFaults` is a failing read, on the pool or on the compute
thread.

*Threaded scheduler.*  Three layers with a lookahead of one leave one to evict, one at work, one
ahead.  Two tensors make a half-moved block, two sweeps come back to one a failed eviction left.  Three
faults are that eviction, a thread that dies and a move that raises on the compute thread.

*Shard directory.*  Three layers give a conversion one behind, one at hand and one ahead.
The second pull leaves old compressed layers beside new ones; four conversions are
enough to go there and back twice, each with an interruption or none, up to three.  The theorems
need no bound.

*Packages, banks, readers, MLX cache.*  The five checkpoints are one file, two files under an index, the same
without one, a torch file, and an index that names a missing file; two names collide once
sanitized.  Three packagings leave an older package under an interrupted one.  The banks have each
layout, missing experts and an unsupported type, and header lengths that move every
offset.  The reader has a file that is longer than the other, so that buffers are grown and reused, two
workers, and three reads.  The MLX cache has four experts, one of twice the size, in a
budget of two: an insertion that evicts two, entries that go stale, and a heap that is rebuilt.

*Generation.*  The eight runners of `MCDecoding` are one per code path: plain, with prefix
cache, with and without buffer and slices, the n-gram and the draft-model drafters on attention-only layers, n-gram and
MTP on a hybrid model, one of them strict.  Three targets repeat, alternate, and end early; drafts of two are accepted in whole, in part and not
at all within three new tokens; two turns make a prefix hit and a snapshot of a
run that began with one.  The prefix cache holds two entries and nine tokens, so both bounds evict.
The KV cache's configurations are above.  Batches of up to three prompts of
different lengths and up to four new tokens have rows that finish first, last, together and
not at all.  Two questions in three lines repeat one after `/clear`.

*Catalogue.*  Three commands are a pull, an interrupted rm and a run, or a conversion interrupted, begun
again and removed, or two models pulled into one directory and run.  The alias and the id of one model have a directory each and share the rest; a
fourth model of another owner has that id's last path segment, hence its directory; the other
three take the three branches of the resolver.  One layer is enough, since each file of it is a step.

*Tools.*  Machines from 1 GB with no memory to spare to 64 GB, models that fit, do not fit, and have
layers of unknown size, and measurements of a failed, a slow and a fast run put the plan on both
sides of each limit and the ratio at both ends.  The four pipelines have reads slower and faster than
compute, one worker and two, residents and none; the three workloads are run under all four
strategies with read times chosen anew for each read.  Two layers and two tokens make a
trace that must not be the last token's; two failures are a layer's prefetch and its retry.

Deadlock is checked for the loop, whose end is an explicit stutter (`Done`).  It is not checked for
the scheduler under an arbitrary client, for the experts, and for the composites, which stop when
the client has nothing more to ask or the bounds are reached; that something still ends there
is what their liveness properties say.

### Fairness

`FairSweep` is weak fairness of the compute thread, of an idle worker that has
work, and of each read and copy in progress, which ends or fails.  These are
operating-system threads with nothing that starves one of them, and a disk read
or a device copy does not last forever.  There is no fairness between the
success and the failure of a read.  `FairSpec` of `Serving` is weak fairness of
each handler and each daemon thread.  Clients are not fair: they need not send,
and may leave.  The lock is not fair either; `Served` holds because only
finitely many requests come before one.  `FairSpec` of `ExpertScheduler` is weak
fairness of the compute thread within a forward call only, whose wait has a deadline of five
seconds; the pool may never run.  `ThreadedScheduler` is fair to each move, to its end and to the
compute thread in a run: a device copy ends or raises.  `MlxExpertCache` is fair to the pool's reads, because
`get_many` waits for them without a deadline, and to the compute thread once it is in a call;
nobody need call.  `Decoding` is fair to the steps of a generation, not to its start.  Batch, chat, packages,
banks, readers, the catalogue and tools have no liveness property and no fairness.

## 4. Proofs

Each proof module EXTENDS the modules it is about and, but for the schedulers' and the server's, `ListsProofs`: lemmas about
induction, sorted sequences (`Ascending`), filters (`Kept`), removal, folds and sums, which are stated once there
and cited.  The assumptions are those on the constants that the modules name (`...Assumption`), which the runs
evaluate.  An invariant is shown of the initial states and of each action by a lemma of its own.

### Scheduler and loop: `LayerSweepProofs`

`LayerSweepProofs` begins with `StreamingScheduler`.  It holds for any number of layers, resident layers, workers, buffers, and
faults, with direct I/O or mmap, with or without a profiler, and for a client
that calls the API in any order.  The only assumptions are those on the constants
(`SizeAssumption`, `FlagAssumption`, `NoneAssumption`).  `IInv` is the inductive
invariant.  `BufferOwnership` and `OwnWeights` are not inductive by themselves: that
a copy delivers its own layer's bytes needs the buffer to hold them from the end of the read on
(`PayloadInv`), which needs the buffer to be with that job only; that a
recycled buffer is not in the free-list already needs each job to be in one stage
and one queue (`QueueInv`); that a prefetch does not start a second job needs `FutureInv`, which
needs to know where the compute thread stands in `ensure` (`CallInv`) and how far
`cleanup` got (`PoolInv`).  One lemma per action shows that it keeps all parts.

| Theorem | Statement |
|---|---|
| `Invariance` | `Spec => []IInv` |
| `TypeCorrect`, `OwnershipSafe`, `WeightsSafe`, `JobsReachable`, `ShutdownClean` | `TypeOK`, `BufferOwnership`, `OwnWeights`, `NoOrphanJob`, `CleanShutdown` |
| `ResultsKept` | the action property `NoResultLost` |

Of the loop it shows first that every step of the loop is a step of the scheduler under some client
(`SweepUsesScheduler`), so that the theorems above hold in a run.  Its invariant
`SweepInv` adds to `IInv` where the loop and `ensure` are with respect to each other (`CallPlaces`)
and that everything loaded or in flight lies between the current layer and the
lookahead (`WindowInv`), from which `DeviceMemoryBounded` follows by counting.  With
`PassInv` (what `ensure` returned for computing is materialized, and the hidden state went through
the layers before this one) it gives `ComputeMaterialized` and
`SweepImplementsForwardPass`, whose simulation maps `Compute` to `ApplyLayer`, the
last `EvictLayer` to `FinishToken`, the first step of `CleanUp` to `Stop` and the rest to
stuttering.  These two assume the runner's profiler and no resident layer, or that no apply fails
(`"apply" \notin Faults`).  A layer whose apply failed counts as loaded (`streaming.py:430`); the retry
returns it without a profiler, and the block computes on the meta device.  With one,
`ensure` raises `TypeError` on its way out (`streaming.py:551`), which ends the run.  What keeps the hidden
state right there is the other bug.

| Theorem | Statement |
|---|---|
| `SweepInvariance`, `SweepTypeCorrect` | `SweepInv` and `SweepTypeOK` |
| `SweepUsesScheduler` | `SweepSpec => Spec` |
| `DeviceMemoryBounded` | `DeviceBound`: at most lookahead + 1 layers on the device |
| `ComputeMaterialized` | `MaterializedAtCompute` |
| `SweepImplementsForwardPass` | `ImplementsForwardPass` |
| `FallbacksAddUp` | `RaisesAfterFallbacks` |
| `BuffersBounded` | `BufferBound` |

`FallbacksAddUp` is about a run that prefetches (`PrefetchOn`) and, with the profiler every run of the
runner has, keeps no layer resident: without
prefetching a layer has one read less to fail, and with a resident layer the run `resident_profiler` fails without
any.  Its invariant `FaultInv` says how many faults are behind each place a run can be at: with none
nothing has failed, with the second attempt begun (`SecondChance`) there are two or the layer is loaded by an
apply that failed, and a run that raised had three or met the profiler after that one.
`BuffersBounded` counts: a buffer is in the free-list, held by a job (`Claiming`) or filled by
a read that has none yet (`Filling`), a new one is made only when the free-list is empty, so there are at
most as many as layers in flight, which `WindowInv` bounds.

### Server and threaded scheduler: `ServingProofs`

Of `Serving`, `ServingProofs` holds for any number of requests, any limits, and runs that raise anywhere,
from `ServingAssumption` alone.  `ServingInv` is: as long as nobody left
(`NoOneLeft`), the thread that runs is the lock holder's (`LockInv`), the callback is its
from `RunStart` to `Reset` (`CallbackInv`), the shared limit is what it asked for until
`Reset` and the default again after (`LimitInv`), and each stream keeps its account
(`StreamInv`).  `LimitRespected` alone is not inductive: that a response stays
within its limit needs the tokens still queued and those still to come, and these are
within the limit only because no other run wrote `maxNew` before `Prefill` read it.
`ConfigurationRestored` needs that `original` was read while the limit
was the default, hence that no run was alive at `Acquire`.  The condition `NoOneLeft` is
needed: a client that leaves frees the lock while its generation runs on.  The bookkeeping of
a stream is in lemmas of its own (`Delivering`, `Emitting`, `Ending`, ...) about one
response and one queue.

| Theorem | Statement |
|---|---|
| `Invariance`, `TypeCorrect` | `ServingInv` and `TypeOK` |
| `ServingSerialized` | `SerializedWhileConnected` |
| `StreamsCorrect` | `OwnTokens` and `LimitRespected` |
| `ConfigurationKept` | `ConfigurationRestored` |

Of `ThreadedScheduler` it holds for any number of layers, tensors, tokens and faults, from
`ThreadedAssumption` alone.  `ThreadedInv` adds to the types that what a thread has moved is on the
device (`MoversMoved`), that a loaded block is there whole or its eviction raised (`LoadedMoved`), and that no thread moves
the layer at work (`NobodyMoves`).  `ComputeOnDevice` is not inductive by itself: that an eviction does not pull tensors
from under a thread, which would later call the block loaded, needs the join of `ensure` to
have come before it.

| Theorem | Statement |
|---|---|
| `ThreadedInvariance`, `ThreadedTypeCorrect` | `ThreadedInv` and `ThreadedTypeOK` |
| `OnDeviceSafe` | `ComputeOnDevice` |

### Experts: `ExpertSchedulerProofs`

It holds for any number of MoE layers, experts, workers, slots, routed experts, forward
calls and failing reads, from the assumptions in `ExpertScheduler` alone.  `IInv` is, beside the types:
`ModulesSound`, that `_slot_of` lists the occupied slots of `_id_of`, each slot and each expert once, and an
occupied slot holds its expert's weights; `StagingInv`, that what is staged is in the order that drops it, which is bounded;
`PoolInv`, that a key is queued or being read at most once and, until `cleanup`, is in flight just then;
`ForwardInv`, where `forward` stands in the routed experts and that `ensure` misses only one that
is not resident; `RecencyInv`, that `_lru` knows every resident expert and ends with those computed last.
`SlotsConsistent` alone is not inductive: a slot that an eviction frees is found through `_slot_of`, so each resize and
each fill must keep the two lists inverse in both directions (`Linked`).  `RecentlyUsedStay` needs that the victim is
the least recent of *all* resident experts, which is known only if none of them is missing from `_lru`.

| Theorem | Statement |
|---|---|
| `Invariant`, `TypeCorrect` | `IInv` and `TypeOK` |
| `SlotsStayConsistent` | `SlotsConsistent` |
| `ForwardBitIdentical` | `BitIdentical` |
| `LastUsedStay` | `RecentlyUsedStay` |
| `StagingStaysSound` | `StagingSound` |

### Decoding: `DecodingProofs`

It holds for any vocabulary, set of targets, prompts and configurations (every drafter, hybrid or not,
chunked or not, with a prefix cache or a token buffer), any bounds of the prefix cache, any draft
lengths, turns and faults, from `DecodingAssumption` alone.  The argument has three layers.
`ShapeInv` is what holds whether or not anything failed: the types; the context is the prompt and what was emitted, or
short of it once the buffer was full (`RunInv`); how long the KV cache of the plain loop is and of which ids
(`CacheInv`); and that the prefix cache is in `Caches`: no entry of other ids than its label's, none twice, the
bytes those held, both bounds kept.  The last is why `CacheInv` is needed: a snapshot is
labelled with ids of the context, by position in the cache.  The stores, the split by ids and the sums of bytes are folds; a
lemma each turns one into a function on `0..n` defined step by step, and the rest is induction on that.
`LosslessInv` adds what holds of a run in which nothing failed and whose prefix was stored at its own positions
(`Sound`): the cache is exactly that of what was fed, at its own positions, one short of the context
in decoding (`TruthInv`); what was emitted is the target's greedy pick after all before it
(`OutputInv`); and it ends at EOS or the limit (`EndInv`).  `Lossless` is not inductive by itself, for the next pick
is greedy only if the cache is right after the rollback of this one: `RollbackTruthful` shows that for the
crop to an absolute length, for the hybrid's relative one, and for a draft that was accepted whole.
`PairsInv` adds that the pairs queued for or fed to the MTP head are consecutive positions that end one short of the last
id (`Chained`), which `extend` continues because `propose` moves pairs and drops none.

| Theorem | Statement |
|---|---|
| `ShapeInvariant`, `LosslessInvariant`, `TypeCorrect` | `ShapeInv`, `LosslessInv` and `TypeOK` |
| `GenerationLossless` | `Lossless` |
| `SnapshotsStayLabelled` | `SnapshotsLabelled` |
| `DrafterStaysHonest` | `DrafterHonest` |

### KV cache, batch and chat: `GenerationProofs`

*KV cache.*  For any number of layers and tokens, budget, window, INT4, tiering, disk and failing spills and loads, from
`KVAssumption`.  `KVInv` has five parts.  `KVShape`: the types, that `order` has each layer once, and that the entries hold
positions fed so far and the whole spill files are those of the entries on disk.  `FewTorn`: a torn file is one failed
write's.  That goes through each fold over the entries (`TornGrows`), in which a spill may fail.  `KVCounters`: the counters miss at most one packed
entry for each failed spill (`Gap`, `Lost`), and outside the block at work no entry is left as tensors, within it only
within the budget.  `LengthTruthful` and `CacheLossless` are conjuncts of `KVFaithful` itself.  `BudgetEnforced` needs the
rest: `_enforce_budget` decides by the counters, and walks the entries coldest first; a fold of demotions leaves no
tensors when it ends over budget, because each entry it passed was packed or gone.  `CacheLossless` needs that the
walk stops before it reaches the layer just asked for while one unpacked layer fits beside packed ones
(`Fits`), which is arithmetic over sums of sizes; the run `kv_lost` shows what happens beyond.

*Batch.*  For any target, prompts, pad ids and limits.  `BatchInv` says, in decoding, that there is a number of columns
`c` such that each row's ids are its padding, its prompt and `c` picks, its mask hides the padding only, its
cells are those of the text with the positions of a run of its own, and the finished rows are those with an EOS among their
picks (`DecodedBy`).  A row's hash is then that of the same text in `run`, position by position, so its next
pick is; what the pad id adds to finished rows comes after their EOS and is cut off.

*Chat.*  For any inputs and any number of turns.  `ResendsPrefix` is an action property: that a question's prompt begins with
the last prompt and its answer, with the plain script's space between them, follows from `ChatInv`, in which these are
the transcript of the history after a plain turn.

| Theorem | Statement |
|---|---|
| `KVInvariance`, `KVTypeCorrect` | `KVInv` and `KVTypeOK` |
| `SpillFilesAreTracked`, `BudgetIsEnforced`, `CacheIsFaithful` | `SpillFilesTracked`, `BudgetEnforced`, `KVFaithful` |
| `BatchInvariance`, `RowsAreIndependent` | `BatchInv` and `RowsIndependent` |
| `ChatInvariance`, `PromptsResendTheirPrefix` | `ChatInv` and `ResendsPrefix` |

### Files and the MLX cache: `StorageProofs`

Of `ShardStore`, `StorageProofs` holds for any number of layers, pulls, conversions and interruptions,
from `ShardAssumption` alone (a pull's number is none of the damages, and a missing file is
none).  `StoreInv` adds to the types what the step says of the place it is at (`StepInv`),
what a pull has written so far (`PullInv`), that nothing can be converted before
the first manifest (`FirstPullInv`), and `CompleteInv`: each layer of a complete directory is `Held`, in the
plain file, or in the compressed one with no plain file in front of it, and a
conversion has converted the layers behind it.  `ReadersServed` alone is not
inductive: that the unlink of a conversion takes nothing away needs that the renamed file
holds the same weights.

| Theorem | Statement |
|---|---|
| `Invariance`, `TypeCorrect` | `StoreInv` and `TypeOK` |
| `LayersKept` | `ReadersServed` |
| `VerificationTruthful` | `VerifyTruthful` |
| `ConversionsEnd` | `Converted` |

*Packages.*  For any checkpoints, sanitized names, packagings, interruptions and damage.  `PackageInv`: what a packaging has
written so far holds its records' digests, whatever was there before (`JobAt`, `Holds`); the manifest and the index are absent,
torn or those of one checkpoint; and what is `packed` is written whole.  `PackageSound` then is about reading: names
resolve to the first match, layer files have their index in their name, so no two records share one; a package that
validates has every file of its manifest with the digest the manifest gives, and that is the checkpoint's.

*MLX expert cache.*  For any layers, experts, sizes, budget, heap slack, workers and failing reads.  `WithinBudget` says that
the bytes counted are those of the cached experts, at most the budget, and that every cached expert can be found by the heap.
It rests on the order of eviction, of which the heap is the only record: `Timely` (a live entry has its key's
count, every cached key has a live one, no two have one tick, nothing is ahead of the clock) makes the popped entry
the coldest key, and holds through `_rebuild`, which drops the stale ones.  `Fitted` evicts by the sum of sizes;
`Total` is a function, and removing a key takes its size off.  `ReadOnce` (a key is read once at a time and not while cached) and
`Awaited` (what `get_many` still waits for was submitted, and with what it has is what was asked) give `CallComplete`.

*Readers.*  For any shards, tensor widths, workers, short reads and damage that the check of the codec sees.  `ReaderInv`
says that what a worker has read so far is the beginning of its file (`Reads`), whatever else the buffer still
holds, and that what waits for its upload are the layer's own tensors (`Uploads`).  A compressed file that was
damaged fails or is its image; the views are cut by offsets relative to the end of the header, so the rest
of a recycled buffer is in none.  The theorem is about directories whose compressed shards are not mapped
(`~MapCompressed`); the run `page_cache` shows that this is needed.

*Banks.*  For any number of experts, shapes, header lengths and checkpoints of `BankAssumption`.  `BankInv`: the files are
well formed, each tensor in them once and in one layout; the index is right for every file that can still be read, which
means that a slice that is in it lies where the reference puts that expert's bytes of that matrix (`Own`), and that the slices
of a stacked tensor fill it without a gap (`Partitioned`); and what a read has so far is the bytes of the slices
it has finished.  Where a tensor begins is a sum over those before it (`StartLemma`), how long it is a product (`TensorSize`), and
that equal blocks at multiples of their length cover it is `Tiles`.  One lemma each shows that a layout's
index is right: `RightPair`, `RightTriple`, `RightSingle` and `RightMlx`, the stacked ones through `RightStack`.
Damage to a file (`WorseOK`) takes it from those of which anything is said.

| Theorem | Statement |
|---|---|
| `PackageInvariance`, `PackagesAreSound` | `PackageInv` and `PackageSound` |
| `CacheInvariance`, `CacheFits`, `CallsComplete` | `CacheInv`, `WithinBudget` and `CallComplete` |
| `ReaderInvariance`, `ReadersGetTheirTensors` | `ReaderInv` and `OwnTensors` |
| `BankInvariance`, `BankBytes` | `BankInv` and `OwnBytes` |

### Planning, catalogue and profiler: `ToolsProofs`

Of `ResidencyPlanner`, `ToolsProofs` holds for any machines, models, settings and measurements of `PlannerAssumption`: sizes are
not negative and a machine has some memory.  `PlanInv` says that, while a run is under way, the plan in force is that of the
memory it found and the ratio kept; with it, the properties are facts about the planning functions.
That a plan is monotone goes through the interpolation of the decision grid: each lies on a segment between two
anchors (`OnSegment`), interpolation along a row keeps the order of rows, rounding down and clamping keep order.
The grid, the clamps and the constants are those of the code, in integers rounded down, as everywhere
in the module; floating-point error is not in it.

| Theorem | Statement |
|---|---|
| `RatioStaysBounded` | `PlanInv` and `RatioBounded` |
| `PlansFit`, `PlansMonotone`, `GpuBudgetsHold` | `PlanFits`, `PlanMonotone`, `GpuBudgets` |
| `PlansSound` | `PlanSound`, their conjunction |

*Catalogue.*  For any models, names, directories, shared ones included, quantizations and commands with or without a network,
interrupted anywhere.  `CatalogueInv`: a directory holds files of its `writers` only (`Owned`); what a finished pull left is
found (`Found`); and what the process is at concerns the name that was typed (`OpOK`): a download, the files left to write
with the manifest last, a load whose target is the name's model if the name is `Alone`, a removal that has listed all there is (`Listed`).
`Owned` is what makes the last premise enough: the index that a load builds, and files an earlier interrupted command
left, are a writer's, and a directory has no writer again only when it is empty.
`RmForgets` is not inductive without `Listed`: files go one by one, in any order, and nothing comes back in between.

*Profiler.*  For any number of layers and tokens, any lookahead and failures.  `ProfilerInv` relates three clocks: a job that
has stamped `k` stages has stamped them in order (`JobsOK`), the main thread has reached as many stages of its layer as
its place in the loop says (`MainOK`), and each trace's stamps are not after its own last one (`TraceOK`), so that
a stage stamped again, by a synchronous read after a failed prefetch, comes after all others.  `TracesOrdered` is
inductive only with the fact that no job is behind the main thread, and none of its layer is left once `ensure` has
waited for it: a late worker would stamp over a finished trace.

| Theorem | Statement |
|---|---|
| `CatalogueInvariance`, `CatalogueIsSound` | `CatalogueInv` and `CatalogueSound` |
| `ProfilerInvariance`, `TracesStaySound` | `ProfilerInv` and `TracesSound` |

### What is only model-checked

Some properties are proved and not run any more, since TLC agreed with them before: the types,
`NoOrphanJob`, `MaterializedAtCompute`, `OwnTokens`, `LimitRespected` and `CallComplete`.

Only model-checked: liveness (`Terminates`, `Served`, `RunEnds`, `ForwardEnds`, `CallReturns`,
`GenerationEnds`), because fairness and ENABLED are out of the prover's reach; and `SimulatorsSound` of the research simulators.  Induction over data can be proved
only in one form: a set of naturals that has 0 and is closed under successor has them all
(`NatSet` in `ListsProofs`, from the well-foundedness of the order), which serves for a function or a
fold at hand.  The library's induction rules, which take a predicate, cannot be instantiated, so a fact about every
recursive definition of a kind, such as one about all folds, is proved for one operation at a time.  No module
declares a `RECURSIVE` operator: recursion is by recursive functions and folds.

## 5. What is left out

*Of the scheduler:* the gate that limits concurrent `.swz` decompression, the
timing and overlap counters, the volume probe that picks direct I/O, an `evict` of the streaming scheduler
whose device call raises (that of the threaded one is modelled), a partially failed submit.  *Of the loop:* a block that
raises while computing, the fall-back to the baseline runner, and the second,
idempotent call of the cleanup.  *Of the KV cache:* INT4 rounding, exceptions of
zlib and torch.save, an unlink that fails, two entries with the same `last_access`, statistics.
*Of the server:* parsing and validation of requests, the shape of responses, and
`/v1/models`.  *Of the experts:* the arithmetic, layers without a module, devices and data types,
statistics; `set_budget` is called by tests only.
*Of the shard directory:* the MTP file, the legacy `.pt` layers, a loss of power
(what was written counts as being on disk, although nothing calls `fsync`); the conversions are a library
function that no command calls.
*Of decoding:* sampling with a temperature, the repetition penalty, text (ids are streamed, not characters:
`_emit_tokens` diffs decoded text by length), and the forward pass itself.
*Of the batch:* metrics and penalties.  *Of the chat:* the terminal; mlx_lm, of which only the growth of
the prompt cache is assumed; and tokenization: a piece of text is one id, where a real tokenizer may merge
across the joint of two pieces, and a template is taken to render a past message as it rendered it before.
*Of the catalogue:* directories the user names (`--output-dir`, a local MLX checkpoint), the backends `hf` and `mock`, two
commands at a time; `swlp models`, `--resident`, `--window` and the disk check, which print or refuse; a file is written in
one step.
*Of the readers:* zipnn, volume probing.  *Of the MLX cache:* quantization and the arithmetic of an expert.
*Of the planner:* the calibration run and the probing of the hardware; floats are integers rounded down.
*Of the profiler and the simulators:* reports, tables, plots, memory samples.

### Not modelled

The resident runners are adapters whose state is the library's.  `core/kv_quant.py` is
arithmetic.  `metrics.py` and `logging.py` count and print what nothing reads back.  The rest of the command
line (arguments, help, `doctor`, `-d`), the configuration and the benchmarks parse, print and measure around the parts above.  The research scripts other than
the two simulators run programs one after the other and tabulate their output.

## 6. Plan

Done, in the order of their weight in the program: scheduler, loop, abstract forward pass, server, experts,
KV cache, shard directory; then the threaded scheduler, decoding with its drafters and the prefix cache, the batch,
the chat, the catalogue, packages, banks, readers, the MLX cache, planning, profiling and the simulators; proofs of
all of these but the simulators.  Next:

1. `PipelineSimulator`: that no event is lost, for any configuration.
2. The calibration run of `runner/swlp_setup.py`, so that the measured bandwidth is more than a choice.
