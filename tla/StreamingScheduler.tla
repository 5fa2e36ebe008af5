------------------------- MODULE StreamingScheduler -------------------------
(***************************************************************************)
(* core/streaming.py: StreamingScheduler, the two-stage prefetch pipeline  *)
(* that streams layer shards from disk into block modules.                 *)
(*                                                                         *)
(* Three kinds of actor: the compute thread (prefetch, ensure, evict,      *)
(* cleanup), the read pool (_read_and_deserialize, then the callback that  *)
(* submits the upload) and the upload pool (_upload_to_device).  A layer   *)
(* has at most one job, so the job is kept per layer (stage, held,         *)
(* result); NoOrphanJob is what makes that representation exact.           *)
(*                                                                         *)
(* Data abstraction: a tensor dict is the number of the layer whose bytes  *)
(* it holds, Torn for a mixture or uninitialised storage, None for none.   *)
(***************************************************************************)
EXTENDS Integers, Sequences, FiniteSets, Functions

CONSTANTS
    NumLayers,      \* len(self.blocks)
    ResidentCount,  \* layers cached in CPU RAM, already clamped by __init__
    PrefetchDepth,  \* config.prefetch_depth
    PrefetchOn,     \* config.prefetch
    DirectIO,       \* direct_io: reusable read buffers instead of mmap
    Profiled,       \* a LayerProfiler is attached (_build_scheduler does)
    Buffers,        \* the identities a read buffer can have
    None, Torn,     \* no tensor / no buffer; a mixture of bytes
    Faults,         \* the kinds of failure the environment may cause
    MaxFaults       \* bound: how many of them in one behaviour

FaultKinds == {"submit", "read", "upload", "apply"}

ASSUME SizeAssumption ==
    /\ NumLayers \in Nat \ {0}
    /\ ResidentCount \in 0..NumLayers
    /\ PrefetchDepth \in Nat \ {0}
    /\ MaxFaults \in Nat
ASSUME FlagAssumption ==
    /\ PrefetchOn \in BOOLEAN /\ DirectIO \in BOOLEAN /\ Profiled \in BOOLEAN
    /\ Faults \subseteq FaultKinds

Layers == 0..(NumLayers - 1)

ASSUME NoneAssumption ==
    /\ None \notin Layers /\ None \notin Buffers /\ None # Torn
    /\ Torn \notin Layers

VARIABLES
    stage,          \* [Layers -> Stage] where the layer's job is
    held,           \* [Layers -> Buffers or None] read buffer the job holds
    result,         \* [Layers -> Tensors] tensors in the final future
    readQ, uploadQ, \* work queues of the two pools
    free,           \* _buf_pool, the free-list of read buffers (FIFO)
    bytes,          \* [Buffers -> Layers or Torn] content of each buffer
    futures,        \* keys of _futures
    loaded,         \* _loaded
    residentData,   \* keys of _resident_data
    block,          \* [Layers -> Tensors] what blocks[i] holds on the device
    enabled,        \* _prefetch_enabled
    pools,          \* life of the two executors
    call,           \* where the compute thread is inside ensure()
    arg,            \* the layer of that call
    state,          \* its local `state`
    outcome,        \* how the last ensure() ended
    faults          \* failures so far

jobVars == <<stage, held, result, readQ, uploadQ, free, bytes>>
callVars == <<call, arg, state>>
vars == <<jobVars, futures, loaded, residentData, block, enabled, pools,
          callVars, outcome, faults>>

Stage == {"idle", "queued", "reading", "uploadQueued", "uploading",
          "ready", "empty", "syncReading", "syncCopying"}
Calls == {"out", "wait", "read", "apply"}
Outcomes == {"ok", "PrefetchError", "TypeError"}
Weights == Layers \cup {None, Torn}

Workers == IF PrefetchDepth > 2 THEN PrefetchDepth ELSE 2

At(s) == {l \in Layers : stage[l] = s}
Held == Range(held) \ {None}
LiveBuffers == Range(free) \cup Held

May(kind) == kind \in Faults /\ faults < MaxFaults

Init ==
    /\ stage = [l \in Layers |-> "idle"]
    /\ held = [l \in Layers |-> None]
    /\ result = [l \in Layers |-> None]
    /\ readQ = <<>> /\ uploadQ = <<>> /\ free = <<>>
    /\ bytes = [b \in Buffers |-> Torn]
    /\ futures = {} /\ loaded = {} /\ residentData = {}
    /\ block = [l \in Layers |-> None]
    /\ enabled = PrefetchOn
    /\ pools = "open"
    /\ call = "out" /\ arg = 0 /\ state = None
    /\ outcome = "ok"
    /\ faults = 0

-----------------------------------------------------------------------------
(* The read and upload stages, run by a pool worker or, in the synchronous *)
(* fallback of ensure(), by the compute thread itself.                     *)

\* _buf_pool.put(buffer) when the job holds one.
Recycled(l) == IF held[l] = None THEN free ELSE Append(free, held[l])

\* What the tensor views of job l show: its buffer's bytes, or with mmap
\* and no buffer the file itself.
Payload(l) == IF held[l] = None THEN l ELSE bytes[held[l]]

\* Storage read_shard_payload fills: the buffer it was handed, else a new one.
Storage(l) ==
    IF ~DirectIO THEN {None}
    ELSE IF held[l] # None THEN {held[l]} ELSE Buffers \ LiveBuffers

\* Mutant of BeginRead: the free-list is never looked at.
BeginReadAllocates(l, s) ==
    /\ stage' = [stage EXCEPT ![l] = s]
    /\ UNCHANGED <<held, free, bytes, result>>

\* Enter _read_and_deserialize: take a buffer off the free-list if there is
\* one; the read starts to overwrite it.
BeginRead(l, s) ==
    /\ stage' = [stage EXCEPT ![l] = s]
    /\ IF DirectIO /\ free # <<>>
       THEN /\ held' = [held EXCEPT ![l] = Head(free)]
            /\ free' = Tail(free)
            /\ bytes' = [bytes EXCEPT ![Head(free)] = Torn]
       ELSE UNCHANGED <<held, free, bytes>>
    /\ UNCHANGED result

\* Mutant of FinishRead: the buffer is recycled before its payload is copied.
FinishReadRecycles(l, s) ==
    \E b \in Storage(l) :
        /\ stage' = [stage EXCEPT ![l] = s]
        /\ held' = [held EXCEPT ![l] = b]
        /\ bytes' = IF b = None THEN bytes ELSE [bytes EXCEPT ![b] = l]
        /\ free' = IF b = None THEN free ELSE Append(free, b)
        /\ UNCHANGED result

\* The read and the parse succeeded: the job holds its storage, filled.
FinishRead(l, s) ==
    \E b \in Storage(l) :
        /\ stage' = [stage EXCEPT ![l] = s]
        /\ held' = [held EXCEPT ![l] = b]
        /\ bytes' = IF b = None THEN bytes ELSE [bytes EXCEPT ![b] = l]
        /\ UNCHANGED <<free, result>>

\* The read or the parse raised: the buffer goes back to the free-list (one
\* allocated by a read that raised is lost, by a parse that raised is kept).
FailRead(l, s) ==
    /\ May("read")
    /\ faults' = faults + 1
    /\ stage' = [stage EXCEPT ![l] = s]
    /\ held' = [held EXCEPT ![l] = None]
    /\ \/ free' = Recycled(l)
       \/ /\ held[l] = None
          /\ \E b \in Storage(l) \ {None} : free' = Append(free, b)
    /\ UNCHANGED <<bytes, result>>

-----------------------------------------------------------------------------
(* Pool workers.                                                           *)

\* An idle read worker starts the oldest queued job.
ReadBegin ==
    /\ readQ # <<>>
    /\ Cardinality(At("reading")) < Workers
    /\ BeginRead(Head(readQ), "reading")
    /\ readQ' = Tail(readQ)
    /\ UNCHANGED <<uploadQ, futures, loaded, residentData, block, enabled,
                   pools, callVars, outcome, faults>>

\* The read ends and its done-callback _chain_upload submits the upload.
ReadEnd(l) ==
    /\ stage[l] = "reading"
    /\ FinishRead(l, "uploadQueued")
    /\ uploadQ' = Append(uploadQ, l)
    /\ UNCHANGED <<readQ, futures, loaded, residentData, block, enabled,
                   pools, callVars, outcome, faults>>

\* Mutant of ReadFails: the callback returns without resolving the future.
ReadFailsUnresolved(l) ==
    /\ stage[l] = "reading"
    /\ FailRead(l, "uploadQueued")
    /\ UNCHANGED <<readQ, uploadQ, futures, loaded, residentData, block,
                   enabled, pools, callVars, outcome>>

\* The read returned None: _chain_upload resolves the final future with None.
ReadFails(l) ==
    /\ stage[l] = "reading"
    /\ FailRead(l, "empty")
    /\ UNCHANGED <<readQ, uploadQ, futures, loaded, residentData, block,
                   enabled, pools, callVars, outcome>>

\* An idle upload worker starts copying the oldest queued payload.
UploadBegin ==
    /\ uploadQ # <<>>
    /\ Cardinality(At("uploading")) < Workers
    /\ stage' = [stage EXCEPT ![Head(uploadQ)] = "uploading"]
    /\ uploadQ' = Tail(uploadQ)
    /\ UNCHANGED <<held, result, readQ, free, bytes, futures, loaded,
                   residentData, block, enabled, pools, callVars, outcome,
                   faults>>

\* The copy is complete: the buffer is recycled and the future resolved.
UploadEnd(l) ==
    /\ stage[l] = "uploading"
    /\ stage' = [stage EXCEPT ![l] = "ready"]
    /\ result' = [result EXCEPT ![l] = Payload(l)]
    /\ free' = Recycled(l)
    /\ held' = [held EXCEPT ![l] = None]
    /\ UNCHANGED <<readQ, uploadQ, bytes, futures, loaded, residentData,
                   block, enabled, pools, callVars, outcome, faults>>

\* The copy raised: None, and the buffer is recycled by the `finally`.
UploadFails(l) ==
    /\ May("upload")
    /\ stage[l] = "uploading"
    /\ stage' = [stage EXCEPT ![l] = "empty"]
    /\ free' = Recycled(l)
    /\ held' = [held EXCEPT ![l] = None]
    /\ faults' = faults + 1
    /\ UNCHANGED <<result, readQ, uploadQ, bytes, futures, loaded,
                   residentData, block, enabled, pools, callVars, outcome>>

WorkerStep ==
    \/ ReadBegin \/ UploadBegin
    \/ \E l \in Layers :
        ReadEnd(l) \/ ReadFails(l) \/ UploadEnd(l) \/ UploadFails(l)

-----------------------------------------------------------------------------
(* The compute thread's calls.  A call starts only when no other is active. *)

Idle == call = "out" /\ pools = "open"

\* load_resident_layers(): read the resident shards into CPU RAM; one whose
\* read fails is skipped.
LoadResidentLayers ==
    /\ Idle
    /\ \E missing \in SUBSET ((0..(ResidentCount - 1)) \ residentData) :
        /\ missing # {} => May("read")
        /\ residentData' = (0..(ResidentCount - 1)) \ missing
        /\ faults' = IF missing = {} THEN faults ELSE faults + 1
    /\ UNCHANGED <<jobVars, futures, loaded, block, enabled, pools, callVars,
                   outcome>>

\* Mutant of PrefetchIgnored: a layer already in flight is submitted again.
PrefetchIgnoredUnlessLoaded(l) ==
    ~enabled \/ l \notin Layers \/ l < ResidentCount \/ l \in loaded

\* The early returns of prefetch().
PrefetchIgnored(l) ==
    \/ ~enabled
    \/ l \notin Layers
    \/ l < ResidentCount
    \/ l \in loaded \cup futures

\* prefetch(l): queue a read, register the final future.
Prefetch(l) ==
    /\ Idle
    /\ IF PrefetchIgnored(l)
       THEN UNCHANGED <<jobVars, futures>>
       ELSE /\ stage' = [stage EXCEPT ![l] = "queued"]
            /\ readQ' = Append(readQ, l)
            /\ futures' = futures \cup {l}
            /\ UNCHANGED <<held, result, uploadQ, free, bytes>>
    /\ UNCHANGED <<loaded, residentData, block, enabled, pools, callVars,
                   outcome, faults>>

\* _pool.submit raises RuntimeError: prefetch() raises PrefetchError.
PrefetchRaises(l) ==
    /\ Idle /\ May("submit") /\ ~PrefetchIgnored(l)
    /\ faults' = faults + 1
    /\ UNCHANGED <<jobVars, futures, loaded, residentData, block, enabled,
                   pools, callVars, outcome>>

\* disable_prefetch()
DisablePrefetch ==
    /\ Idle
    /\ enabled' = FALSE
    /\ UNCHANGED <<jobVars, futures, loaded, residentData, block, pools,
                   callVars, outcome, faults>>

Cached(l) == l < ResidentCount /\ l \in residentData

\* _apply_shard(l, tensors): load_state_dict may raise, and the layer enters
\* _loaded either way (the `finally`).
Apply(l, tensors, success) ==
    /\ loaded' = loaded \cup {l}
    /\ \/ /\ block' = [block EXCEPT ![l] = tensors]
          /\ outcome' = success
          /\ UNCHANGED faults
       \/ /\ May("apply")
          /\ outcome' = "PrefetchError"
          /\ faults' = faults + 1
          /\ UNCHANGED block

\* ensure(l), resident layer: apply from CPU RAM unless already loaded.  The
\* profiler call after the apply passes a keyword end_ensure does not have.
EnsureResident(l) ==
    /\ Idle /\ Cached(l)
    /\ IF l \in loaded
       THEN outcome' = "ok" /\ UNCHANGED <<loaded, block, faults>>
       ELSE Apply(l, l, IF Profiled THEN "TypeError" ELSE "ok")
    /\ UNCHANGED <<jobVars, futures, residentData, enabled, pools, callVars>>

\* ensure(l), streaming layer: return a loaded block (through the same
\* profiler call), else take the future and wait, else read synchronously.
EnsureStreaming(l) ==
    /\ Idle /\ ~Cached(l)
    /\ IF l \in loaded
       THEN /\ outcome' = IF Profiled THEN "TypeError" ELSE "ok"
            /\ UNCHANGED <<futures, call, arg>>
       ELSE /\ futures' = futures \ {l}
            /\ call' = IF l \in futures THEN "wait" ELSE "read"
            /\ arg' = l
            /\ UNCHANGED outcome
    /\ UNCHANGED <<jobVars, loaded, residentData, block, enabled, pools,
                   state, faults>>

Ensure(l) == EnsureResident(l) \/ EnsureStreaming(l)

\* future.result() returns: with tensors go on to apply them, with None or
\* an exception fall back to a synchronous read.
EnsureWait ==
    /\ call = "wait"
    /\ stage[arg] \in {"ready", "empty"}
    /\ call' = IF stage[arg] = "ready" THEN "apply" ELSE "read"
    /\ state' = result[arg]
    /\ stage' = [stage EXCEPT ![arg] = "idle"]
    /\ result' = [result EXCEPT ![arg] = None]
    /\ UNCHANGED <<held, readQ, uploadQ, free, bytes, futures, loaded,
                   residentData, block, enabled, pools, arg, outcome, faults>>

\* The synchronous read and copy on the compute thread.
SyncRead ==
    /\ call = "read" /\ stage[arg] = "idle"
    /\ BeginRead(arg, "syncReading")
    /\ UNCHANGED <<readQ, uploadQ, futures, loaded, residentData, block,
                   enabled, pools, callVars, outcome, faults>>

SyncReadEnd ==
    /\ call = "read" /\ stage[arg] = "syncReading"
    /\ FinishRead(arg, "syncCopying")
    /\ UNCHANGED <<readQ, uploadQ, futures, loaded, residentData, block,
                   enabled, pools, callVars, outcome, faults>>

SyncReadFails ==
    /\ call = "read" /\ stage[arg] = "syncReading"
    /\ FailRead(arg, "idle")
    /\ call' = "out" /\ outcome' = "PrefetchError"
    /\ UNCHANGED <<readQ, uploadQ, futures, loaded, residentData, block,
                   enabled, pools, arg, state>>

SyncCopyEnd ==
    /\ call = "read" /\ stage[arg] = "syncCopying"
    /\ stage' = [stage EXCEPT ![arg] = "idle"]
    /\ held' = [held EXCEPT ![arg] = None]
    /\ free' = Recycled(arg)
    /\ \/ /\ state' = Payload(arg)
          /\ call' = "apply"
          /\ UNCHANGED <<outcome, faults>>
       \/ /\ May("upload")
          /\ call' = "out"
          /\ outcome' = "PrefetchError"
          /\ faults' = faults + 1
          /\ UNCHANGED state
    /\ UNCHANGED <<result, readQ, uploadQ, bytes, futures, loaded,
                   residentData, block, enabled, pools, arg>>

EnsureApply ==
    /\ call = "apply"
    /\ Apply(arg, state, "ok")
    /\ call' = "out" /\ state' = None
    /\ UNCHANGED <<jobVars, futures, residentData, enabled, pools, arg>>

EnsureStep ==
    \/ EnsureWait \/ SyncRead \/ SyncReadEnd \/ SyncReadFails
    \/ SyncCopyEnd \/ EnsureApply

\* evict(l): back to the meta device, unless the whole model is resident.
Evict(l) ==
    /\ Idle
    /\ IF l \in loaded /\ ~(l < ResidentCount /\ ResidentCount >= NumLayers)
       THEN /\ block' = [block EXCEPT ![l] = None]
            /\ loaded' = loaded \ {l}
            /\ futures' = IF l >= ResidentCount THEN futures \ {l} ELSE futures
       ELSE UNCHANGED <<block, loaded, futures>>
    /\ UNCHANGED <<jobVars, residentData, enabled, pools, callVars, outcome,
                   faults>>

-----------------------------------------------------------------------------
(* cleanup(): shut the read pool, then the upload pool, each cancelling    *)
(* what it has queued and waiting for what runs, then drop everything.     *)

\* A cancelled job resolves its final future with an exception.
Cancelled(queue) ==
    [l \in Layers |-> IF l \in Range(queue) THEN "empty" ELSE stage[l]]

ShutReadPool ==
    /\ Idle
    /\ pools' = "readsShut"
    /\ stage' = Cancelled(readQ)
    /\ readQ' = <<>>
    /\ UNCHANGED <<held, result, uploadQ, free, bytes, futures, loaded,
                   residentData, block, enabled, callVars, outcome, faults>>

\* The payload of a cancelled upload is dropped with its buffer.
ShutUploadPool ==
    /\ pools = "readsShut" /\ At("reading") = {}
    /\ pools' = "uploadsShut"
    /\ stage' = Cancelled(uploadQ)
    /\ held' = [l \in Layers |->
                   IF l \in Range(uploadQ) THEN None ELSE held[l]]
    /\ uploadQ' = <<>>
    /\ UNCHANGED <<result, readQ, free, bytes, futures, loaded, residentData,
                   block, enabled, callVars, outcome, faults>>

\* Mutant of DropEverything: shutdown(wait=False) on the upload pool.
DropWithoutWaiting ==
    /\ pools = "uploadsShut"
    /\ pools' = "closed"
    /\ block' = [l \in Layers |-> IF l \in loaded THEN None ELSE block[l]]
    /\ loaded' = {} /\ futures' = {} /\ residentData' = {}
    /\ stage' = [l \in Layers |->
                    IF stage[l] \in {"ready", "empty"} THEN "idle" ELSE stage[l]]
    /\ result' = [l \in Layers |->
                    IF l \in futures THEN None ELSE result[l]]
    /\ free' = <<>>
    /\ UNCHANGED <<held, readQ, uploadQ, bytes, enabled, callVars, outcome,
                   faults>>

DropEverything ==
    /\ pools = "uploadsShut" /\ At("uploading") = {}
    /\ pools' = "closed"
    /\ block' = [l \in Layers |-> IF l \in loaded THEN None ELSE block[l]]
    /\ loaded' = {} /\ futures' = {} /\ residentData' = {}
    /\ stage' = [l \in Layers |->
                    IF stage[l] \in {"ready", "empty"} THEN "idle" ELSE stage[l]]
    /\ result' = [l \in Layers |->
                    IF l \in futures THEN None ELSE result[l]]
    /\ free' = <<>>
    /\ UNCHANGED <<held, readQ, uploadQ, bytes, enabled, callVars, outcome,
                   faults>>

Cleanup == ShutReadPool \/ ShutUploadPool \/ DropEverything

-----------------------------------------------------------------------------
(* The scheduler under a client that calls its API in any order.           *)

ClientStep ==
    \/ LoadResidentLayers \/ DisablePrefetch
    \/ \E l \in Layers :
        Prefetch(l) \/ PrefetchRaises(l) \/ Ensure(l) \/ Evict(l)

Next == WorkerStep \/ EnsureStep \/ ClientStep \/ Cleanup

Spec == Init /\ [][Next]_vars

-----------------------------------------------------------------------------
(* Properties.                                                             *)

\* Every variable keeps its type.
TypeOK ==
    /\ stage \in [Layers -> Stage]
    /\ held \in [Layers -> Buffers \cup {None}]
    /\ result \in [Layers -> Weights]
    /\ readQ \in Seq(Layers) /\ uploadQ \in Seq(Layers)
    /\ free \in Seq(Buffers)
    /\ bytes \in [Buffers -> Layers \cup {Torn}]
    /\ futures \subseteq Layers /\ loaded \subseteq Layers
    /\ residentData \subseteq 0..(ResidentCount - 1)
    /\ block \in [Layers -> Weights]
    /\ enabled \in BOOLEAN
    /\ pools \in {"open", "readsShut", "uploadsShut", "closed"}
    /\ call \in Calls /\ arg \in Layers /\ state \in Weights
    /\ outcome \in Outcomes
    /\ faults \in 0..MaxFaults

NoRepeats(q) == \A i, j \in 1..Len(q) : q[i] = q[j] => i = j

\* A read buffer is in one place at a time: with one job, or once on the
\* free-list.  Recycling a buffer before its payload was copied out is the
\* race the comments at _buf_pool and _read_and_deserialize recall.
BufferOwnership ==
    /\ \A i, j \in Layers : held[i] = held[j] /\ held[i] # None => i = j
    /\ NoRepeats(free)
    /\ \A l \in Layers : held[l] \notin Range(free)

\* Whatever the interleaving of reads, copies and recycling, tensors that
\* reached a future, the compute thread or a block are the layer's own.
OwnWeights ==
    /\ \A l \in Layers : result[l] \in {None, l} /\ block[l] \in {None, l}
    /\ state \in {None, arg}

\* A job that is running, or whose result waits, is reachable: its future is
\* registered or ensure() is waiting on it.  No result is left to pin device
\* memory unseen, and no layer ever has two jobs.
NoOrphanJob ==
    \A l \in Layers : stage[l] # "idle" => l \in futures \/ (l = arg /\ call # "out")

\* After cleanup() nothing is on the device, in flight or cached.
CleanShutdown ==
    pools = "closed" =>
        /\ \A l \in Layers : block[l] = None /\ result[l] = None
        /\ \A l \in Layers : stage[l] = "idle" /\ held[l] = None

\* Prefetched tensors are thrown away by cleanup() alone: no evict(), retry
\* or second prefetch() drops a result that ensure() has not taken.
NoResultLost ==
    [][\A l \in Layers : stage[l] = "ready" /\ stage'[l] # "ready" =>
          \/ state' = result[l] /\ call' = "apply" /\ arg = l
          \/ pools' = "closed"]_vars

-----------------------------------------------------------------------------
(* The inductive invariant behind them.                                    *)

\* A job is in the queue its stage names, once.
QueueInv ==
    /\ NoRepeats(readQ) /\ NoRepeats(uploadQ)
    /\ \A l \in Layers : /\ stage[l] = "queued" <=> l \in Range(readQ)
                         /\ stage[l] = "uploadQueued" <=> l \in Range(uploadQ)

\* A payload waiting for its copy is backed by a buffer with its own bytes.
PayloadInv ==
    \A l \in Layers :
        /\ held[l] # None =>
            /\ DirectIO
            /\ stage[l] \in {"reading", "uploadQueued", "uploading",
                             "syncReading", "syncCopying"}
        /\ DirectIO /\ stage[l] \in {"uploadQueued", "uploading", "syncCopying"}
              => held[l] # None /\ bytes[held[l]] = l

\* Tensors exist where a step left them, and are the layer's own.
TensorInv ==
    /\ \A l \in Layers : /\ result[l] = IF stage[l] = "ready" THEN l ELSE None
                         /\ block[l] \in {None, l}
                         /\ block[l] # None => l \in loaded
    /\ state = IF call = "apply" THEN arg ELSE None

\* Where the compute thread stands against the job of the layer it ensures.
CallInv ==
    /\ call = "wait" => stage[arg] \notin {"idle", "syncReading", "syncCopying"}
    /\ call = "read" => stage[arg] \in {"idle", "syncReading", "syncCopying"}
    /\ call = "apply" => stage[arg] = "idle"
    /\ call # "out" => arg \notin futures /\ pools = "open"
    /\ \A l \in Layers : stage[l] \in {"syncReading", "syncCopying"}
                            => l = arg /\ call = "read"

FutureInv ==
    /\ NoOrphanJob
    /\ \A l \in futures : /\ l \notin loaded /\ l >= ResidentCount
                          /\ stage[l] # "idle"

\* How far cleanup() has drained the pools.
PoolInv ==
    /\ pools # "open" => readQ = <<>>
    /\ pools \in {"uploadsShut", "closed"} =>
        uploadQ = <<>> /\ \A l \in Layers : stage[l] # "reading"
    /\ pools = "closed" =>
        loaded = {} /\ futures = {} /\ \A l \in Layers : stage[l] = "idle"

IInv ==
    /\ TypeOK /\ BufferOwnership /\ QueueInv /\ PayloadInv /\ TensorInv
    /\ CallInv /\ FutureInv /\ PoolInv
=============================================================================
