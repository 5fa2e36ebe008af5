----------------------------- MODULE LayerSweep -----------------------------
(***************************************************************************)
(* runner/swlp.py: SWLPRunner._run_blocks, once per token, driving the     *)
(* StreamingScheduler of core/streaming.py, and the cleanup that run()     *)
(* does at its end or on an exception.                                     *)
(***************************************************************************)
EXTENDS StreamingScheduler

CONSTANTS
    Window,     \* config.window_size
    Tokens      \* bound: sweeps in one run

ASSUME SweepAssumption == Window \in Nat \ {0} /\ Tokens \in Nat \ {0}

VARIABLES
    pc,         \* where the compute thread is inside _run_blocks
    resume,     \* where it goes on after disable_prefetch()
    layer,      \* layer_index
    ahead,      \* index of the prefetch loop
    token,      \* tokens whose sweep is complete
    hidden,     \* weights this token's hidden state went through, in order
    raised      \* an exception left _run_blocks

sweepVars == <<pc, resume, layer, ahead, token, hidden, raised>>
allVars == <<vars, sweepVars>>

Places == {"load", "warm", "ahead", "ensure", "retry", "ensured", "retried",
           "disable", "compute", "evict", "cleanup", "done"}

Lookahead == IF Window > PrefetchDepth THEN Window ELSE PrefetchDepth

SweepInit ==
    /\ Init
    /\ pc = "load" /\ resume = "load" /\ layer = 0 /\ ahead = 0
    /\ token = 0 /\ hidden = <<>> /\ raised = FALSE

Goto(place, i) == pc' = place /\ ahead' = i

\* run(): load_resident_layers() once, before the first sweep.
Load ==
    /\ pc = "load"
    /\ LoadResidentLayers
    /\ Goto("warm", 0)
    /\ UNCHANGED <<resume, layer, token, hidden, raised>>

\* One iteration of a prefetch loop that runs up to `last` and then goes to
\* `next`; a PrefetchError ends the loop and disables prefetching.
PrefetchLoop(l, last, next, first) ==
    /\ IF ahead > last
       THEN Goto(next, first) /\ UNCHANGED <<vars, resume>>
       ELSE \/ Prefetch(l) /\ ahead' = ahead + 1 /\ UNCHANGED <<pc, resume>>
            \/ PrefetchRaises(l) /\ Goto("disable", first) /\ resume' = next
    /\ UNCHANGED <<layer, token, hidden, raised>>

\* The warm-up: prefetch layers 0 .. lookahead-1 before the first compute.
WarmUp ==
    /\ pc = "warm"
    /\ PrefetchLoop(ahead, (IF Lookahead < NumLayers THEN Lookahead ELSE NumLayers) - 1,
                    "ahead", 1)

\* Mutant of PrefetchAhead: range(1, lookahead + 2).
PrefetchAheadOneMore ==
    /\ pc = "ahead"
    /\ PrefetchLoop(layer + ahead, Lookahead + 1, "ensure", 0)

\* Before layer i: prefetch i+1 .. i+lookahead.
PrefetchAhead ==
    /\ pc = "ahead"
    /\ PrefetchLoop(layer + ahead, Lookahead, "ensure", 0)

Disable ==
    /\ pc = "disable"
    /\ DisablePrefetch
    /\ pc' = resume
    /\ UNCHANGED <<resume, layer, ahead, token, hidden, raised>>

\* ensure(layer), and once more after a PrefetchError.
CallEnsure ==
    /\ pc \in {"ensure", "retry"}
    /\ Ensure(layer)
    /\ pc' = IF pc = "ensure" THEN "ensured" ELSE "retried"
    /\ UNCHANGED <<resume, layer, ahead, token, hidden, raised>>

\* Mutants of EnsureReturns: no retry; the retry's failure is swallowed too.
EnsureReturnsNoRetry ==
    /\ pc \in {"ensured", "retried"} /\ call = "out"
    /\ IF outcome = "ok"
       THEN pc' = "compute" /\ UNCHANGED raised
       ELSE pc' = "cleanup" /\ raised' = TRUE
    /\ UNCHANGED <<vars, resume, layer, ahead, token, hidden>>

EnsureReturnsAnyway ==
    /\ pc \in {"ensured", "retried"} /\ call = "out"
    /\ pc' = "compute"
    /\ UNCHANGED <<vars, resume, raised, layer, ahead, token, hidden>>

EnsureReturns ==
    /\ pc \in {"ensured", "retried"} /\ call = "out"
    /\ \/ /\ outcome = "ok"
          /\ pc' = "compute"
          /\ UNCHANGED <<resume, raised>>
       \/ /\ outcome = "PrefetchError" /\ pc = "ensured"
          /\ pc' = "disable" /\ resume' = "retry"
          /\ UNCHANGED raised
       \/ /\ outcome = "TypeError" \/ (outcome = "PrefetchError" /\ pc = "retried")
          /\ pc' = "cleanup" /\ raised' = TRUE
          /\ UNCHANGED resume
    /\ UNCHANGED <<vars, layer, ahead, token, hidden>>

\* call_block(block, ctx, layer): the block's weights act on the hidden state.
Compute ==
    /\ pc = "compute"
    /\ hidden' = Append(hidden, block[layer])
    /\ pc' = "evict"
    /\ UNCHANGED <<vars, resume, layer, ahead, token, raised>>

\* evict(layer), then the next layer, or the next token unless the run ends
\* here (end of sequence, or max_new_tokens).
EvictLayer ==
    /\ pc = "evict"
    /\ Evict(layer)
    /\ IF layer + 1 < NumLayers
       THEN /\ layer' = layer + 1
            /\ Goto("ahead", 1)
            /\ UNCHANGED <<token, hidden>>
       ELSE /\ layer' = 0
            /\ token' = token + 1
            /\ hidden' = <<>>
            /\ \/ Goto("cleanup", 0)
               \/ token' < Tokens /\ Goto("warm", 0)
    /\ UNCHANGED <<resume, raised>>

\* _cleanup_resources(scheduler), on both ways out of run().
CleanUp ==
    /\ pc = "cleanup"
    /\ Cleanup
    /\ pc' = IF pools' = "closed" THEN "done" ELSE pc
    /\ UNCHANGED <<resume, layer, ahead, token, hidden, raised>>

EnsureRuns == EnsureStep /\ UNCHANGED sweepVars

ComputeThread ==
    \/ Load \/ WarmUp \/ PrefetchAhead \/ Disable \/ CallEnsure \/ EnsureRuns
    \/ EnsureReturns \/ Compute \/ EvictLayer \/ CleanUp

WorkersRun == WorkerStep /\ UNCHANGED sweepVars

Done == pc = "done" /\ UNCHANGED allVars

SweepNext == ComputeThread \/ WorkersRun \/ Done

\* Every thread runs: the compute thread, an idle worker with queued work,
\* and a read or a copy, which end one way or the other.
SweepFairness ==
    /\ WF_allVars(ComputeThread)
    /\ WF_allVars(ReadBegin /\ UNCHANGED sweepVars)
    /\ WF_allVars(UploadBegin /\ UNCHANGED sweepVars)
    /\ \A l \in Layers :
        /\ WF_allVars((ReadEnd(l) \/ ReadFails(l)) /\ UNCHANGED sweepVars)
        /\ WF_allVars((UploadEnd(l) \/ UploadFails(l)) /\ UNCHANGED sweepVars)

SweepSpec == SweepInit /\ [][SweepNext]_allVars
FairSweep == SweepSpec /\ SweepFairness

-----------------------------------------------------------------------------
(* Properties.                                                             *)

SweepTypeOK ==
    /\ TypeOK
    /\ pc \in Places /\ resume \in Places
    /\ layer \in Layers /\ ahead \in 0..(Lookahead + 1)
    /\ token \in 0..Tokens /\ hidden \in Seq(Weights) /\ raised \in BOOLEAN

\* Layers with tensors on the device or being copied there.
OnDevice ==
    {l \in Layers : \/ block[l] # None
                    \/ stage[l] \in {"uploading", "ready", "syncCopying"}
                    \/ call = "apply" /\ arg = l}

\* Read buffers in existence, those a read is filling included.
BufferCount ==
    Cardinality(LiveBuffers)
    + Cardinality({l \in Layers : /\ DirectIO /\ held[l] = None
                                  /\ stage[l] \in {"reading", "syncReading"}})

\* docs/architecture.md: at most lookahead + 1 layers are materialized, those
\* in flight included, unless the whole model is resident.
DeviceBound ==
    ResidentCount < NumLayers => Cardinality(OnDevice) <= Lookahead + 1

\* The free-list never grows past one buffer per job that can be in flight,
\* however late uploads complete and whatever fails.
BufferBound == BufferCount <= Lookahead + 1

\* The block that call_block uses holds its own layer's weights.
MaterializedAtCompute == pc = "compute" => block[layer] = layer

\* A run in which nothing failed does not raise.
FaultlessRunCompletes == raised => faults > 0

\* A run raises only when its fallbacks are used up: a layer's prefetch, its
\* synchronous read and the retry have all failed, or an apply has, after which
\* the layer counts as loaded (streaming.py:430) and the retry, instead of
\* computing with a block on the meta device, meets the profiler's TypeError.
RaisesAfterFallbacks ==
    raised => faults > 2 \/ (outcome = "TypeError" /\ faults > 0)

\* run() ends: ensure() never waits for a future that nobody resolves, and
\* cleanup() never joins a worker that does not stop.
Terminates == <>(pc = "done")

\* The streamed sweep implements the in-order forward pass.
Forward == INSTANCE ForwardPass WITH
    status <- IF pools = "open" THEN "running"
              ELSE IF raised THEN "failed" ELSE "finished"
ImplementsForwardPass == Forward!Spec

-----------------------------------------------------------------------------
(* The invariants behind DeviceBound and the implementation proof.             *)

\* Where _run_blocks is, a call of ensure() is or is not under way for layer.
CallPlaces ==
    /\ call # "out" => pc \in {"ensured", "retried"} /\ arg = layer
    /\ pools # "open" => pc \in {"cleanup", "done"}
    /\ pc = "disable" => resume \in {"ahead", "ensure", "retry"}
    /\ pc \notin {"cleanup", "done"} => token < Tokens
    /\ pc \in {"ensured", "retried"} /\ call = "out" /\ outcome = "ok"
          => layer \in loaded
    /\ pc \in {"compute", "evict"} => layer \in loaded

\* Everything loaded or in flight is within the lookahead window of layer.
WindowInv ==
    ResidentCount < NumLayers =>
        /\ \A l \in futures : layer <= l /\ l <= layer + Lookahead
        /\ pc = "load" => layer = 0 /\ futures = {}
        /\ pc = "warm" => layer = 0 /\ \A l \in futures : l < ahead
        /\ loaded \subseteq {layer}
        /\ loaded # {} => pc \notin {"load", "warm", "ahead", "ensure"}
        /\ loaded # {} => ~(pc = "disable" /\ resume \in {"ahead", "ensure"})

\* ensure() has returned, and what it returned is computed with.
Materialized ==
    \/ pc \in {"compute", "evict"}
    \/ pc \in {"ensured", "retried"} /\ call = "out" /\ outcome = "ok"

\* What is computed with has the layer's weights, and when no apply fails every
\* loaded layer has; the hidden state went through the layers before this one,
\* in order.
PassInv ==
    /\ Materialized => block[layer] = layer
    /\ "apply" \notin Faults => \A l \in loaded : block[l] = l
    /\ hidden = [i \in 1..Len(hidden) |-> i - 1]
    /\ pc \notin {"cleanup", "done"} =>
        Len(hidden) = IF pc = "evict" THEN layer + 1 ELSE layer
    /\ pc \in {"cleanup", "done"} /\ ~raised => hidden = <<>> /\ token > 0
=============================================================================
