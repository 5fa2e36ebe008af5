------------------------------- MODULE Profiler -------------------------------
(***************************************************************************)
(* core/profiler.py: the traces of one run, as the main thread of          *)
(* _run_blocks() (runner/swlp.py) and the worker threads of the streaming  *)
(* scheduler (core/streaming.py) fill them in, and the metrics made of     *)
(* them.  Every recording call is a step: a thread may be anywhere between *)
(* two of them.                                                            *)
(*                                                                         *)
(* The time of a trace is the number of its stamps, which is all that the  *)
(* signs of the durations depend on.  Streamed layers only: with a         *)
(* profiler a resident layer's ensure() raises.  The start of ensure(),    *)
(* which no metric reads, RSS, queue snapshots, hardware metadata and      *)
(* printing are left out.                                                  *)
(***************************************************************************)
EXTENDS Integers, FiniteSetsExt, SequencesExt

CONSTANTS
    NumTraced,      \* the layers of the model
    Tokens, Ahead,
    MaxFailures     \* bound: reads or uploads that fail

VARIABLES
    prof,           \* [current: layer -> trace, merged: layer -> trace, tokens, report]
    jobs,           \* [layer -> NoJob, FailedJob, or the stages its worker has stamped]
    run             \* [pc, token, layer, todo, retried, prefetch, synced, waited, failures]

ASSUME ProfilerAssumption ==
    NumTraced \in Nat \ {0} /\ Tokens \in Nat /\ Ahead \in Nat /\ MaxFailures \in Nat

Traced == 0..(NumTraced - 1)
NoJob == -1
FailedJob == -2

\* The stamps of a layer in the order of its life; a read and an upload make the
\* second to the seventh.
Lifecycle == <<"prefetch_submit", "read_start", "read_end", "deserialize_start",
               "deserialize_end", "upload_start", "upload_end", "ready",
               "compute_start", "compute_end", "evict_start", "evict_end">>
JobStage(k) == Lifecycle[k + 1]
JobStages == 6
Stages == {Lifecycle[i] : i \in 1..12}

-----------------------------------------------------------------------------
(* Traces.                                                                 *)

\* A LayerTrace: 0 is a stage that was not stamped.
NewTrace(token) ==
    [token |-> token, at |-> [s \in Stages |-> 0], now |-> 0, status |-> "none"]

GetTrace(p, l) == IF l \in DOMAIN p.current THEN p.current[l] ELSE NewTrace(p.tokens)

WithTrace(p, l, t) == [p EXCEPT !.current = [k \in DOMAIN @ \cup {l} |-> IF k = l THEN t ELSE @[k]]]

\* Every begin_ and end_ call: a stage stamped again has its latest time.
Stamp(p, l, stage) ==
    LET t == GetTrace(p, l)
    IN  WithTrace(p, l, [t EXCEPT !.at[stage] = t.now + 1, !.now = @ + 1])

EndEnsure(p, l, status) ==
    LET q == Stamp(p, l, "ready") IN WithTrace(q, l, [q.current[l] EXCEPT !.status = status])

\* Mutant of BeginToken: the traces of the last token are not dropped.
BeginTokenKeeps(p) == p

\* begin_token() starts with no traces.
BeginToken(p) == [p EXCEPT !.current = << >>]

EndToken(p) ==
    [p EXCEPT !.merged = [l \in DOMAIN @ \cup DOMAIN p.current |->
                             IF l \in DOMAIN p.current THEN p.current[l] ELSE @[l]],
              !.tokens = @ + 1]

-----------------------------------------------------------------------------
(* Metrics.                                                                *)

Duration(t, start, end) == t.at[end] - t.at[start]

\* _collect_durations(): the layers a stage is averaged over.
Collected(p, start, end) == {l \in DOMAIN p.merged : Duration(p.merged[l], start, end) > 0}

CountOverlap(p, status) == Cardinality({l \in DOMAIN p.merged : p.merged[l].status = status})

\* compute_pipeline_metrics(): what the pipeline ratio is made of, and the hit rate.
PipelineMetrics(p) ==
    [layers |-> Cardinality(DOMAIN p.merged), tokens |-> p.tokens,
     read |-> Collected(p, "read_start", "read_end"),
     deserialize |-> Collected(p, "deserialize_start", "deserialize_end"),
     upload |-> Collected(p, "upload_start", "upload_end"),
     compute |-> Collected(p, "compute_start", "compute_end"),
     evict |-> Collected(p, "evict_start", "evict_end"),
     hits |-> CountOverlap(p, "hit"), waits |-> CountOverlap(p, "wait"),
     misses |-> CountOverlap(p, "miss"),
     total |-> CountOverlap(p, "hit") + CountOverlap(p, "wait") + CountOverlap(p, "miss")]

-----------------------------------------------------------------------------
(* The run: worker jobs, and the main thread's passes over the layers.     *)

ProfilerInit ==
    /\ prof = [current |-> << >>, merged |-> << >>, tokens |-> 0, report |-> << >>]
    /\ jobs = [l \in Traced |-> NoJob]
    /\ run = [pc |-> "begin", token |-> 0, layer |-> 0, todo |-> <<>>, retried |-> FALSE,
              prefetch |-> TRUE, synced |-> 0, waited |-> "none", failures |-> 0]

Running(l) == jobs[l] >= 0
Done(l) == jobs[l] = JobStages

\* _read_and_deserialize() and _upload_to_device() on the worker pools.
JobStep(l) ==
    /\ Running(l) /\ ~Done(l)
    /\ jobs' = [jobs EXCEPT ![l] = @ + 1]
    /\ prof' = Stamp(prof, l, JobStage(jobs[l] + 1))
    /\ UNCHANGED run

JobFails(l) ==
    /\ Running(l) /\ ~Done(l) /\ run.failures < MaxFailures
    /\ jobs' = [jobs EXCEPT ![l] = FailedJob]
    /\ run' = [run EXCEPT !.failures = @ + 1]
    /\ UNCHANGED prof

Upto(first, last) == [i \in 1..(last - first + 1) |-> first + i - 1]

\* The token's trace is emptied, and the first layers are to be prefetched.
Begin ==
    /\ run.pc = "begin" /\ run.token < Tokens
    /\ prof' = BeginToken(prof)
    /\ run' = [run EXCEPT !.pc = "prefetch", !.layer = 0, !.retried = FALSE,
                          !.todo = Upto(0, Min({Ahead, NumTraced}) - 1) \o Upto(1, Ahead)]
    /\ UNCHANGED jobs

\* prefetch(): recorded, then handed to the pool.  Blocks are evicted behind
\* the main thread, so a layer ahead of it is not loaded.
Prefetch ==
    /\ run.pc = "prefetch" /\ run.todo # <<>>
    /\ LET l == Head(run.todo)
       IN  IF run.prefetch /\ l \in Traced /\ jobs[l] = NoJob
           THEN /\ prof' = Stamp(prof, l, "prefetch_submit")
                /\ jobs' = [jobs EXCEPT ![l] = 0]
           ELSE UNCHANGED <<prof, jobs>>
    /\ run' = [run EXCEPT !.todo = Tail(@)]

\* ensure(): the layer's future, if it has one, is waited for.
Ensure ==
    /\ run.pc = "prefetch" /\ run.todo = <<>>
    /\ run' = [run EXCEPT !.pc = IF jobs[run.layer] = NoJob THEN "sync" ELSE "wait",
                          !.waited = IF jobs[run.layer] = NoJob THEN "none"
                                     ELSE IF Done(run.layer) \/ ~Running(run.layer) THEN "hit" ELSE "wait",
                          !.synced = 0]
    /\ UNCHANGED <<prof, jobs>>

Waited ==
    /\ run.pc = "wait" /\ ~(Running(run.layer) /\ ~Done(run.layer))
    /\ jobs' = [jobs EXCEPT ![run.layer] = NoJob]
    /\ run' = [run EXCEPT !.pc = IF Done(run.layer) THEN "ready" ELSE "sync"]
    /\ UNCHANGED prof

\* The main thread reads and uploads by itself.
SyncStep ==
    /\ run.pc = "sync"
    /\ prof' = Stamp(prof, run.layer, JobStage(run.synced + 1))
    /\ run' = [run EXCEPT !.synced = @ + 1,
                          !.pc = IF run.synced + 1 = JobStages THEN "ready" ELSE "sync"]
    /\ UNCHANGED jobs

\* A PrefetchError turns prefetching off and ensure() is tried once more.
SyncFails ==
    /\ run.pc = "sync" /\ run.failures < MaxFailures
    /\ run' = [run EXCEPT !.failures = @ + 1, !.retried = TRUE, !.prefetch = FALSE,
                          !.pc = IF run.retried THEN "ended" ELSE "prefetch"]
    /\ UNCHANGED <<prof, jobs>>

\* end_ensure(): the status is that of the future, or "sync".
Ready ==
    /\ run.pc = "ready"
    /\ prof' = EndEnsure(prof, run.layer, IF run.waited = "none" THEN "sync" ELSE run.waited)
    /\ run' = [run EXCEPT !.pc = "compute"]
    /\ UNCHANGED jobs

\* The stages the main thread stamps by itself, one after the other.
Recorded(from, stage, to) ==
    /\ run.pc = from
    /\ prof' = Stamp(prof, run.layer, stage)
    /\ run' = [run EXCEPT !.pc = to]
    /\ UNCHANGED jobs

Compute == Recorded("compute", "compute_start", "computing")
Computed == Recorded("computing", "compute_end", "evict")
Evict == Recorded("evict", "evict_start", "evicting")
Evicted == Recorded("evicting", "evict_end", "next")

NextLayer ==
    /\ run.pc = "next" /\ run.layer + 1 < NumTraced
    /\ run' = [run EXCEPT !.pc = "prefetch", !.layer = @ + 1, !.retried = FALSE,
                          !.todo = Upto(run.layer + 2, run.layer + 1 + Ahead)]
    /\ UNCHANGED <<prof, jobs>>

End ==
    /\ run.pc = "next" /\ run.layer + 1 = NumTraced
    /\ prof' = EndToken(prof)
    /\ run' = [run EXCEPT !.pc = "begin", !.token = @ + 1]
    /\ UNCHANGED jobs

\* run() ends, by itself or with an error: the metrics of the finished tokens.
Finalize ==
    /\ run.pc = "ended" \/ (run.pc = "begin" /\ run.token = Tokens)
    /\ prof' = [prof EXCEPT !.report = PipelineMetrics(prof)]
    /\ run' = [run EXCEPT !.pc = "done"]
    /\ UNCHANGED jobs

ProfilerNext ==
    \/ \E l \in Traced : JobStep(l) \/ JobFails(l)
    \/ Begin \/ Prefetch \/ Ensure \/ Waited \/ SyncStep \/ SyncFails \/ Ready
    \/ Compute \/ Computed \/ Evict \/ Evicted \/ NextLayer \/ End \/ Finalize

profVars == <<prof, jobs, run>>

ProfilerSpec == ProfilerInit /\ [][ProfilerNext]_profVars

-----------------------------------------------------------------------------
(* Properties.                                                             *)

\* A finished token has a trace of every layer, its own; every stage in it has a
\* positive duration and they follow each other in the order of the lifecycle, be
\* it the worker's stamps, the main thread's, or those of a read made anew.
TracesOrdered ==
    /\ prof.tokens > 0 => DOMAIN prof.merged = Traced
    /\ \A l \in DOMAIN prof.merged :
          LET t == prof.merged[l]
          IN  /\ t.token = prof.tokens - 1
              /\ \A i \in 1..11 : t.at[Lifecycle[i]] < t.at[Lifecycle[i + 1]]
              /\ t.status = "hit" => t.at["prefetch_submit"] > 0

\* The metrics a run ends with, be it by an error, average each stage over every
\* layer once a token has finished: the pipeline ratio compares like with like.
ReportComplete ==
    run.pc = "done" /\ prof.tokens > 0 =>
        LET r == prof.report
        IN  /\ {r.read, r.deserialize, r.upload, r.compute, r.evict} = {Traced}
            /\ r.total <= r.layers /\ r.misses = 0

\* Both, for a run that checks other components beside this one.
TracesSound == TracesOrdered /\ ReportComplete
=============================================================================
