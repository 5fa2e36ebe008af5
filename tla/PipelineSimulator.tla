-------------------------- MODULE PipelineSimulator --------------------------
(***************************************************************************)
(* scripts/research/simtools/simulator.py: the discrete-event model of the *)
(* streaming pipeline the tuner reads.  A heap of timed events drives the  *)
(* sets a layer moves through: prefetched, reading, uploading, ready,      *)
(* computing.                                                              *)
(*                                                                         *)
(* Events of one time come in any order: `seq`, called the tie-breaker, is *)
(* left out of the comparison.  Times are whole numbers; timestamps of the *)
(* traces that no handler reads, RAM peaks and printing are left out.      *)
(***************************************************************************)
EXTENDS Integers, FiniteSetsExt, SequencesExt

CONSTANTS Configs   \* the configurations simulated

VARIABLES sim       \* _SimState, its config among it

Event(at, kind, layer) == [at |-> at, kind |-> kind, layer |-> layer]

AddEvent(s, at, kind, layer) == [s EXCEPT !.events = @ \cup {Event(at, kind, layer)}]

LayersOf(s) == 0..(s.cfg.layers - 1)

-----------------------------------------------------------------------------
(* Worker pools: the sorted times at which workers come free.              *)

Sorted(q) == SortSeq(q, <)

\* acquire(): of a worker that was never used, or of the one free first.
Acquire(s, q, duration) ==
    IF Len(q) < s.cfg.workers
    THEN [start |-> s.now, delayed |-> FALSE, busy |-> Sorted(Append(q, s.now + duration))]
    ELSE LET start == Max({s.now, Head(q)})
         IN  [start |-> start, delayed |-> TRUE, busy |-> Sorted(Append(Tail(q), start + duration))]

\* _effective_upload_ms(): flat below 65% of the RAM, linear up to 85%, then steep.
EffectiveUpload(s) ==
    LET usage == (100 * Cardinality(s.loaded)) \div s.cfg.capacity
    IN  IF usage < 65 THEN s.cfg.upload
        ELSE IF usage < 85 THEN s.cfg.upload + (s.cfg.upload * (usage - 65)) \div 10
        ELSE s.cfg.upload * 3 * 5 ^ ((usage - 85) \div 15)

-----------------------------------------------------------------------------
(* What the handlers share.                                                *)

\* Mutant of SubmitPrefetch: what is on its way is submitted again.
SubmitAgain(s, layer) ==
    IF layer \in s.loaded \cup s.resident \/ layer >= s.cfg.layers THEN s
    ELSE AddEvent([s EXCEPT !.prefetched = @ \cup {layer}], s.now, "prefetch_submit", layer)

SubmitPrefetch(s, layer) ==
    IF layer \in s.loaded \cup s.prefetched \cup s.resident \/ layer >= s.cfg.layers THEN s
    ELSE AddEvent([s EXCEPT !.prefetched = @ \cup {layer}], s.now, "prefetch_submit", layer)

Lookahead(s) == Max({s.cfg.window, s.cfg.depth})

SubmitAll(s, layers) == FoldSet(LAMBDA l, t : SubmitPrefetch(t, l), s, layers)

PrefetchAhead(s, layer) == SubmitAll(s, (layer + 1)..(layer + Lookahead(s)))

CheckResidentReady(s) ==
    IF s.layer \in (s.resident \cap s.loaded) \ (s.ready \cup s.computing)
    THEN AddEvent(s, s.now, "resident_apply", s.layer)
    ELSE s

StartToken(s) ==
    SubmitAll(CheckResidentReady(s), {l \in LayersOf(s) : l - s.layer <= Lookahead(s)})

\* _try_start_compute(): the gap since the last layer counts as idle time.
TryStartCompute(s) ==
    IF s.layer \notin s.ready \/ s.gpuUntil > s.now THEN s
    ELSE AddEvent([s EXCEPT !.ready = @ \ {s.layer}, !.computing = @ \cup {s.layer},
                            !.idle = IF s.gpuUntil > 0 THEN @ + (s.now - s.gpuUntil) ELSE @,
                            !.busy = @ + s.cfg.compute,
                            !.gpuUntil = s.now + s.cfg.compute],
                  s.now + s.cfg.compute, "compute_end", s.layer)

FinishToken(s) ==
    LET t == [s EXCEPT !.token = @ + 1]
    IN  IF t.token < t.cfg.tokens THEN StartToken([t EXCEPT !.layer = 0])
        ELSE AddEvent(t, t.now, "simulation_end", -1)

AdvanceLayer(s) ==
    LET t == [s EXCEPT !.layer = @ + 1]
    IN  IF t.layer >= t.cfg.layers THEN FinishToken(t)
        ELSE TryStartCompute(CheckResidentReady(t))

-----------------------------------------------------------------------------
(* Handlers: of the state and a layer.                                     *)

OnPrefetchSubmit(s, l) ==
    IF l \in s.loaded \cup s.resident \cup s.reading \cup s.queuedRead THEN s
    ELSE LET a == Acquire(s, s.ssd, s.cfg.read)
             t == AddEvent([s EXCEPT !.ssd = a.busy], a.start, "ssd_read_start", l)
         IN  IF a.delayed THEN [t EXCEPT !.queuedRead = @ \cup {l}]
             ELSE AddEvent([t EXCEPT !.reading = @ \cup {l}], a.start + s.cfg.read, "ssd_read_end", l)

OnReadStart(s, l) ==
    IF l \notin s.queuedRead THEN s
    ELSE AddEvent([s EXCEPT !.queuedRead = @ \ {l}, !.reading = @ \cup {l}],
                  s.now + s.cfg.read, "ssd_read_end", l)

OnReadEnd(s, l) ==
    PrefetchAhead(AddEvent([s EXCEPT !.reading = @ \ {l}], s.now, "upload_submit", l), l)

OnUploadSubmit(s, l) ==
    IF l \in s.uploading \cup s.queuedUpload THEN s
    ELSE LET a == Acquire(s, s.upl, EffectiveUpload(s))
             t == AddEvent([s EXCEPT !.upl = a.busy], a.start, "upload_start", l)
         IN  IF a.delayed THEN [t EXCEPT !.queuedUpload = @ \cup {l}]
             ELSE AddEvent([t EXCEPT !.uploading = @ \cup {l}],
                           a.start + EffectiveUpload(s), "upload_end", l)

\* The latency is measured anew: the pool was booked with that of the submission.
OnUploadStart(s, l) ==
    IF l \notin s.queuedUpload THEN s
    ELSE AddEvent([s EXCEPT !.queuedUpload = @ \ {l}, !.uploading = @ \cup {l}],
                  s.now + EffectiveUpload(s), "upload_end", l)

OnUploadEnd(s, l) ==
    TryStartCompute([s EXCEPT !.uploading = @ \ {l}, !.prefetched = @ \ {l},
                              !.loaded = @ \cup {l}, !.ready = @ \cup {l}])

OnResidentApply(s, l) ==
    AddEvent(s, s.now + (3 * EffectiveUpload(s)) \div 10, "resident_apply_end", l)

OnResidentApplyEnd(s, l) == TryStartCompute([s EXCEPT !.ready = @ \cup {l}])

OnComputeEnd(s, l) ==
    LET t == [s EXCEPT !.computing = @ \ {l}, !.computed = Append(@, l)]
        u == IF l \in s.resident THEN t
             ELSE AddEvent([t EXCEPT !.loaded = @ \ {l}], s.now + s.cfg.evict, "evict_end", l)
    IN  AdvanceLayer(PrefetchAhead(u, l))

\* The end of an eviction is only traced.
OnEvictEnd(s, l) == s

-----------------------------------------------------------------------------
(* simulate(): the events in the order of their time.                      *)

NewState(c) ==
    [cfg |-> c, now |-> 0, token |-> 0, layer |-> 0, events |-> {}, ssd |-> <<>>, upl |-> <<>>,
     loaded |-> 0..(Min({c.residents, c.layers}) - 1),
     resident |-> 0..(Min({c.residents, c.layers}) - 1),
     reading |-> {}, uploading |-> {}, queuedRead |-> {}, queuedUpload |-> {}, ready |-> {},
     computing |-> {}, prefetched |-> {}, gpuUntil |-> 0, idle |-> 0, busy |-> 0,
     computed |-> <<>>, ended |-> FALSE]

Init == \E c \in Configs : sim = StartToken(NewState(c))

Earliest == {e \in sim.events : \A f \in sim.events : e.at <= f.at}

On(kind, Handle(_, _)) ==
    /\ ~sim.ended
    /\ \E e \in Earliest :
          /\ e.kind = kind
          /\ sim' = Handle([sim EXCEPT !.events = @ \ {e}, !.now = Max({@, e.at})], e.layer)

\* simulate() leaves its loop: at the final event, or when no event is left.
SimulationEnd ==
    /\ ~sim.ended
    /\ \/ sim.events = {} /\ sim' = [sim EXCEPT !.ended = TRUE]
       \/ \E e \in Earliest :
             /\ e.kind = "simulation_end"
             /\ sim' = [sim EXCEPT !.ended = TRUE, !.now = e.at]

Next ==
    \/ On("prefetch_submit", OnPrefetchSubmit)
    \/ On("ssd_read_start", OnReadStart)
    \/ On("ssd_read_end", OnReadEnd)
    \/ On("upload_submit", OnUploadSubmit)
    \/ On("upload_start", OnUploadStart)
    \/ On("upload_end", OnUploadEnd)
    \/ On("resident_apply", OnResidentApply)
    \/ On("resident_apply_end", OnResidentApplyEnd)
    \/ On("compute_end", OnComputeEnd)
    \/ On("evict_end", OnEvictEnd)
    \/ SimulationEnd

Spec == Init /\ [][Next]_sim

-----------------------------------------------------------------------------
(* Properties.                                                             *)

\* check_invariants(): what the loop asserts after every event.
LayerStatesAgree ==
    /\ sim.resident \subseteq sim.loaded
    /\ sim.reading \cap sim.loaded = {}
    /\ (sim.reading \cup sim.uploading) \cap sim.resident = {}
    /\ sim.computing \cap sim.ready = {}

\* The reads on the device at one moment are no more than its workers.
ReadsBounded ==
    Cardinality({e \in sim.events : e.kind = "ssd_read_end" /\ e.at > sim.now}) <= sim.cfg.workers

\* When the simulation ends, every token has computed every layer, in order.
EveryLayerComputed ==
    sim.ended => /\ Len(sim.computed) = sim.cfg.tokens * sim.cfg.layers
                 /\ \A i \in DOMAIN sim.computed : sim.computed[i] = (i - 1) % sim.cfg.layers

\* Layers compute one at a time, and idle and busy time add up.
GpuAccounted ==
    /\ Cardinality(sim.computing) <= 1
    /\ sim.busy + sim.idle <= sim.gpuUntil

\* The simulated pipeline is one the scheduler could run: simulate() neither loses
\* an event nor counts one twice, whichever of them fall on the same moment.
SimulationSound == LayerStatesAgree /\ ReadsBounded /\ EveryLayerComputed /\ GpuAccounted
=============================================================================
