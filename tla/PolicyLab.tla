------------------------------ MODULE PolicyLab ------------------------------
(***************************************************************************)
(* scripts/research/simtools/event_simulator.py: the simulator that        *)
(* compares scheduling strategies.  Unlike PipelineSimulator the loop over *)
(* the layers drives it: it starts reads, computes, and lets the pending   *)
(* completions catch up with the time it has reached.                      *)
(*                                                                         *)
(* Times are whole numbers; jitter is a read time chosen from a set.       *)
(* Traces, averages and utilisation are left out, but for the GPU time the *)
(* dynamic strategy observes.                                              *)
(***************************************************************************)
EXTENDS Integers, FiniteSetsExt, SequencesExt, Functions

CONSTANTS
    Workloads,      \* SimConfig and LayerTimings together, as records
    ReadTimes       \* jittered read times

VARIABLES lab       \* EventSimulator

LayersOf(s) == 0..(s.cfg.layers - 1)

-----------------------------------------------------------------------------
(* Strategies.                                                             *)

Reserve == 6144     \* MB left to the system and to work

FittingResidents(c) ==
    Min({c.layers, Max({0, (3 * (c.ram - Reserve)) \div (4 * c.weight)})})

SlidingWindow(c) == [kind |-> "window", residents |-> 0, depth |-> c.depth, deepest |-> c.depth]

ResidentCache(c) ==
    [kind |-> "resident", residents |-> FittingResidents(c), depth |-> c.depth, deepest |-> c.depth]

\* AdaptiveResidentStrategy: two layers further when the GPU is the bottleneck.
AdaptiveResident(c) ==
    LET r == FittingResidents(c)
        d == IF c.compute > 2 * (c.read + c.deserialize + c.upload)
             THEN Min({c.depth + 2, c.layers - r}) ELSE c.depth
    IN  [kind |-> "adaptive", residents |-> r, depth |-> d, deepest |-> d]

DynamicScheduler(c) ==
    LET r == FittingResidents(c)
    IN  [kind |-> "dynamic", residents |-> r, depth |-> c.depth, deepest |-> Min({c.layers - r, 8})]

Strategies(c) == {SlidingWindow(c), ResidentCache(c), AdaptiveResident(c), DynamicScheduler(c)}

\* adjust_from_gpu_idle(), given the GPU time of a token that took `total`.
Adjusted(p, gpu, total) ==
    IF 10 * (total - gpu) > 3 * total THEN [p EXCEPT !.depth = Min({@ + 1, p.deepest})]
    ELSE IF 10 * (total - gpu) < total THEN [p EXCEPT !.depth = Max({@ - 1, 1})]
    ELSE p

Resident(s) == 0..(s.policy.residents - 1)

\* _loaded_set()
Loaded(s) == {l \in LayersOf(s) : s.state[l] \in {"ready", "computing"}}

ShouldPrefetch(s) ==
    {l \in LayersOf(s) : /\ l > s.layer /\ l <= s.layer + s.policy.depth
                         /\ l \notin Loaded(s) \cup s.inFlight \cup Resident(s)}

ShouldEvict(s) == {s.layer} \ Resident(s)

-----------------------------------------------------------------------------
(* Slots and pending completions, the list kept sorted by time.            *)

FreeSlots(s, slots) == {i \in DOMAIN slots : slots[i] <= s.now}

Pend(s, at, layer, stage) ==
    LET earlier == Cardinality({i \in DOMAIN s.pending : s.pending[i].at <= at})
    IN  [s EXCEPT !.pending =
            InsertAt(@, earlier + 1, [at |-> at, layer |-> layer, stage |-> stage])]

\* index(): the first of the slots that came free earliest.
FirstSlot(slots) ==
    CHOOSE i \in DOMAIN slots : /\ \A j \in DOMAIN slots : slots[i] <= slots[j]
                                /\ \A j \in 1..(i - 1) : slots[i] < slots[j]

StartRead(s, l, duration) ==
    IF FreeSlots(s, s.ssd) = {} THEN s
    ELSE Pend([s EXCEPT !.ssd[FirstSlot(s.ssd)] = s.now + duration,
                        !.state[l] = "reading", !.inFlight = @ \cup {l}],
              s.now + duration, l, "read")

StartDeserialize(s, l) ==
    Pend([s EXCEPT !.state[l] = "deserializing"], s.now + s.cfg.deserialize, l, "deser")

\* Mutant of StartUpload: with every slot taken, as StartRead it returns.
StartUploadOnce(s, l) ==
    IF FreeSlots(s, s.upl) = {} THEN s
    ELSE Pend([s EXCEPT !.upl[FirstSlot(s.upl)] = s.now + s.cfg.upload, !.state[l] = "uploading"],
              s.now + s.cfg.upload, l, "upload")

\* With every slot taken the upload comes back when the first one is free.
StartUpload(s, l) ==
    IF FreeSlots(s, s.upl) = {} THEN Pend(s, Min(Range(s.upl)), l, "upload_retry")
    ELSE Pend([s EXCEPT !.upl[FirstSlot(s.upl)] = s.now + s.cfg.upload, !.state[l] = "uploading"],
              s.now + s.cfg.upload, l, "upload")

\* Asked for whatever state the layer is in: nothing waits for it to be ready.
StartCompute(s) ==
    Pend([s EXCEPT !.state[s.layer] = "computing", !.gpuUntil = s.now + s.cfg.compute,
                   !.gpu = IF s.now > 0 THEN @ + s.cfg.compute ELSE @,
                   !.deadline = s.now + s.cfg.compute],
         s.now + s.cfg.compute, s.layer, "compute")

StartEvict(s, l) == Pend([s EXCEPT !.state[l] = "evicting"], s.now + s.cfg.evict, l, "evict")

\* _finish_compute() evicts every layer; simulate() then those the strategy names.
FinishCompute(s) ==
    LET t == StartEvict(s, s.layer)
        again == {l \in ShouldEvict(t) : t.state[l] \notin {"unloaded", "evicting"}}
    IN  FoldSet(LAMBDA l, u : StartEvict(u, l), t, again)

FinishEvict(s, l) ==
    [s EXCEPT !.state[l] = "unloaded", !.inFlight = @ \ {l}, !.ram = @ - 1]

Uploaded(s, l) == [s EXCEPT !.state[l] = "ready", !.inFlight = @ \ {l}]

Completed(s, stage, l) ==
    CASE stage = "read" -> StartDeserialize(s, l)
      [] stage \in {"deser", "upload_retry"} -> StartUpload(s, l)
      [] stage = "upload" -> Uploaded(s, l)
      [] stage = "evict" -> FinishEvict(s, l)
      [] stage = "compute" -> s

-----------------------------------------------------------------------------
(* simulate().                                                             *)

Init ==
    \E c \in Workloads : \E p \in Strategies(c) :
        lab = [cfg |-> c, policy |-> p, now |-> 0, state |-> [l \in 0..(c.layers - 1) |-> "unloaded"],
               ssd |-> [i \in 1..c.readers |-> 0], upl |-> [i \in 1..c.uploaders |-> 0],
               inFlight |-> {}, pending |-> <<>>, pc |-> "token", token |-> 0, layer |-> 0,
               deadline |-> 0, gpuUntil |-> 0, gpu |-> 0, since |-> 0, took |-> 0,
               ram |-> p.residents, peak |-> p.residents, ensured |-> <<>>]

\* _process_pending_until() and _process_all_pending(): the earliest completion.
Process ==
    /\ lab.pc \in {"ensured", "computing", "evicting", "drain"} /\ lab.pending # <<>>
    /\ LET e == Head(lab.pending)
           s == [lab EXCEPT !.pending = Tail(@), !.now = Max({@, e.at})]
       IN  /\ lab.pc = "drain" \/ e.at <= lab.deadline
           /\ lab' = Completed(s, e.stage, e.layer)

Settled == \A i \in DOMAIN lab.pending : lab.pending[i].at > lab.deadline

\* A token: the strategy adapts, and the first layers are read.
BeginToken ==
    /\ lab.pc = "token" /\ lab.token < lab.cfg.tokens
    /\ \E times \in [LayersOf(lab) -> ReadTimes] :
          LET policy == IF lab.policy.kind = "dynamic" /\ lab.token > 0
                        THEN Adjusted(lab.policy, lab.gpu, lab.took) ELSE lab.policy
              warm == SetToSortSeq(0..(Min({lab.cfg.depth, lab.cfg.layers}) - 1) \ Resident(lab), <)
              s == [lab EXCEPT !.policy = policy, !.gpu = 0, !.since = lab.now, !.layer = 0,
                               !.pc = "layer"]
          IN  lab' = FoldLeft(LAMBDA t, l : StartRead(t, l, times[l]), s, warm)

\* _ensure_layer(): how the layer is counted, by the state it is found in.
Overlap(s) ==
    CASE s.layer \in Resident(s) -> "resident"
      [] s.layer \notin Resident(s) /\ s.state[s.layer] \in {"uploading", "reading", "deserializing"} -> "wait"
      [] s.layer \notin Resident(s) /\ s.state[s.layer] = "unloaded" -> "miss"
      [] OTHER -> "hit"

\* A prefetch counts a layer of RAM whether or not it found a slot.
PrefetchOne(s, l, duration) ==
    IF s.state[l] # "unloaded" THEN s
    ELSE LET t == StartRead(s, l, duration)
         IN  [t EXCEPT !.ram = @ + 1, !.peak = Max({@, t.ram + 1})]

PrefetchAndEnsure ==
    /\ lab.pc = "layer"
    /\ \E times \in [ShouldPrefetch(lab) -> ReadTimes] :
          LET s == FoldLeft(LAMBDA t, l : PrefetchOne(t, l, times[l]), lab,
                            SetToSortSeq(ShouldPrefetch(lab), <))
          IN  lab' = [s EXCEPT !.ensured = Append(@, Overlap(s)), !.deadline = s.now,
                               !.pc = "ensured"]

Compute == lab.pc = "ensured" /\ Settled /\ lab' = [StartCompute(lab) EXCEPT !.pc = "computing"]

\* What is pending is given a millisecond, two units, to finish.
Evict ==
    /\ lab.pc = "computing" /\ Settled
    /\ lab' = [FinishCompute(lab) EXCEPT !.deadline = lab.now + 2, !.pc = "evicting"]

NextLayer ==
    /\ lab.pc = "evicting" /\ Settled
    /\ lab' = IF lab.layer + 1 < lab.cfg.layers THEN [lab EXCEPT !.layer = @ + 1, !.pc = "layer"]
              ELSE [lab EXCEPT !.pc = "drain"]

EndToken ==
    /\ lab.pc = "drain" /\ lab.pending = <<>>
    /\ lab' = [lab EXCEPT !.token = @ + 1, !.took = lab.now - lab.since, !.pc = "token"]

Next == BeginToken \/ PrefetchAndEnsure \/ Compute \/ Evict \/ NextLayer \/ EndToken \/ Process

Spec == Init /\ [][Next]_lab

-----------------------------------------------------------------------------
(* Properties.                                                             *)

\* The SSD never has more reads under way than slots, whatever asks for them.
SlotsRespected ==
    Cardinality({i \in DOMAIN lab.pending : lab.pending[i].stage = "read" /\ lab.pending[i].at > lab.now})
        <= lab.cfg.readers

\* A layer taken for in flight has a completion pending: none is skipped by the
\* strategies for good, and between tokens nothing is in flight at all.
NothingStuck ==
    /\ \A l \in lab.inFlight : \E i \in DOMAIN lab.pending :
          lab.pending[i].layer = l /\ lab.pending[i].stage \in {"read", "deser", "upload_retry", "upload"}
    /\ lab.pc = "token" => /\ lab.inFlight = {} /\ Range(lab.state) \subseteq {"unloaded", "ready"}
                           /\ Len(lab.ensured) = lab.token * lab.cfg.layers

\* The strategies are compared on a simulator that neither overbooks the SSD nor
\* leaves a layer behind, however late reads and uploads complete.
LabSound == SlotsRespected /\ NothingStuck
=============================================================================
