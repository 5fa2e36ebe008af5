--------------------------- MODULE ExpertScheduler ---------------------------
(***************************************************************************)
(* runner/expert_scheduler.py, runner/experts.py and core/moe_policy.py:   *)
(* the experts of the MoE layers live in a few slots per layer.  A small   *)
(* pool stages the experts a layer will need; the compute thread takes     *)
(* them from there, waits for a read under way, or reads them itself.      *)
(*                                                                         *)
(* The weights of an expert are its key <<layer, eid>>.                    *)
(***************************************************************************)
EXTENDS Integers, Lists

CONSTANTS
    NumLayers, NumExperts,
    Workers,
    Mode,           \* swlp_expert_prefetch: "off", "lru" or "predictive"
    Capacities,     \* slot capacities that the byte budgets amount to
    TopK,           \* bound: experts a token batch is routed to
    Window,         \* RoutingHistory's window
    MaxForwards,    \* bound: forward() calls
    MaxFaults,      \* bound: reads of an expert that raise
    None

ASSUME ExpertAssumption ==
    /\ NumLayers \in Nat \ {0} /\ NumExperts \in Nat \ {0} /\ Workers \in Nat \ {0}
    /\ Mode \in {"off", "lru", "predictive"}
    /\ Capacities \subseteq 1..NumExperts /\ Capacities # {}
    /\ TopK \in 1..NumExperts /\ Window \in Nat \ {0} /\ MaxForwards \in Nat
    /\ MaxFaults \in Nat
    /\ None \notin Nat /\ None \notin Nat \X Nat

Layers == 0..(NumLayers - 1)
Experts == 0..(NumExperts - 1)
Keys == Layers \X Experts
MaxStaged == 2 * Workers        \* _STAGING_PER_WORKER * _workers

VARIABLES
    modules,        \* [Layers -> SwlpCachedExperts]
    lru,            \* _lru: keys, least recent first
    history,        \* RoutingHistory._layers: sets of experts, oldest first
    staging,        \* _staging: the keys with staged weights
    stagingOrder,   \* _staging_order
    inflight,       \* _inflight
    jobs,           \* the pool's queue
    running,        \* keys that workers are reading
    pc,             \* the compute thread
    layer,          \* layer it computes
    forwards,       \* forward() calls so far, for the bound
    routed,         \* experts of this forward(), in order
    todo,           \* those not computed yet
    computed,       \* weights the others were computed with
    notified,       \* _stage_cv was notified since it began to wait
    faults          \* reads that raised so far, for the bound

cacheVars == <<modules, lru, history>>
poolVars == <<staging, stagingOrder, inflight, jobs, running>>
computeVars == <<pc, layer, routed, todo, computed, notified>>
bounds == <<forwards, faults>>
vars == <<cacheVars, poolVars, computeVars, bounds>>

-----------------------------------------------------------------------------
(* SwlpCachedExperts: _id_of, the slots' weights, and _slot_of as the      *)
(* sequence of its items, oldest first.                                    *)

EmptyModule(cap) ==
    [idOf |-> [i \in 1..cap |-> None], data |-> [i \in 1..cap |-> None], slotOf |-> <<>>]

Capacity(m) == Len(m.idOf)
Held(m) == {m.slotOf[i].eid : i \in DOMAIN m.slotOf}
Has(m, e) == e \in Held(m)
ItemOf(m, e) == CHOOSE item \in Range(m.slotOf) : item.eid = e
SlotOf(m, e) == ItemOf(m, e).slot
FreeSlots(m) == Capacity(m) - Len(m.slotOf)

\* fill(): the lowest free slot.
Fill(m, e, weights) ==
    LET slot == CHOOSE i \in DOMAIN m.idOf :
                    m.idOf[i] = None /\ \A j \in 1..(i - 1) : m.idOf[j] # None
    IN  [idOf |-> [m.idOf EXCEPT ![slot] = e],
         data |-> [m.data EXCEPT ![slot] = weights],
         slotOf |-> Append(m.slotOf, [eid |-> e, slot |-> slot])]

\* evict() of an expert it has: its weights are zeroed.
EvictSlot(m, e) ==
    [m EXCEPT !.idOf[SlotOf(m, e)] = None,
              !.data[SlotOf(m, e)] = None,
              !.slotOf = RemoveOne(@, ItemOf(m, e))]

\* Mutant of Resize: the weights are copied by their old slots.
ResizeKeepsData(m, cap) ==
    LET leave == IF Len(m.slotOf) > cap THEN Len(m.slotOf) - cap ELSE 0
        old == Ascending({m.slotOf[i].slot : i \in (leave + 1)..Len(m.slotOf)})
    IN  [idOf |-> [i \in 1..cap |-> IF i <= Len(old) THEN m.idOf[old[i]] ELSE None],
         data |-> [i \in 1..cap |-> IF i <= Capacity(m) THEN m.data[i] ELSE None],
         slotOf |-> [i \in DOMAIN old |-> [eid |-> m.idOf[old[i]], slot |-> i]]]

\* resize(): the longest resident ones leave, the others are compacted.
Resize(m, cap) ==
    LET leave == IF Len(m.slotOf) > cap THEN Len(m.slotOf) - cap ELSE 0
        stay == {m.slotOf[i].slot : i \in (leave + 1)..Len(m.slotOf)}
        old == Ascending(stay)
        At(i) == i <= Len(old)
    IN  IF cap = Capacity(m) THEN m
        ELSE [idOf |-> [i \in 1..cap |-> IF At(i) THEN m.idOf[old[i]] ELSE None],
              data |-> [i \in 1..cap |-> IF At(i) THEN m.data[old[i]] ELSE None],
              slotOf |-> [i \in DOMAIN old |-> [eid |-> m.idOf[old[i]], slot |-> i]]]

-----------------------------------------------------------------------------
(* RoutingHistory.predict(): the last set, ascending, then the most        *)
(* frequent ones, the more recent first.                                   *)

Predict(l, n) ==
    LET h == history[l]
        Count(e) == Cardinality({i \in DOMAIN h : e \in h[i]})
        LastSeen(e) == CHOOSE i \in DOMAIN h :
                           e \in h[i] /\ \A j \in (i + 1)..Len(h) : e \notin h[j]
        Better(d, e) == \/ Count(d) > Count(e)
                        \/ Count(d) = Count(e) /\ LastSeen(d) > LastSeen(e)
                        \/ Count(d) = Count(e) /\ LastSeen(d) = LastSeen(e) /\ d < e
        older == (UNION Range(h)) \ Last(h)
        ordered == Ascending(Last(h))
                       \o InOrder(older, {p \in older \X older : Better(p[1], p[2])})
    IN  IF h = <<>> THEN <<>>
        ELSE SubSeq(ordered, 1, IF Len(ordered) < n THEN Len(ordered) ELSE n)

\* _admit()
Admit(n) == IF n > MaxStaged THEN MaxStaged ELSE IF n < 1 THEN 1 ELSE n

\* prefetch() of each expert in turn: those neither resident, nor staged, nor
\* in flight are submitted.
PrefetchAll(l, eids) ==
    LET wanted == Kept(eids, {e \in Experts : /\ ~Has(modules[l], e)
                                              /\ <<l, e>> \notin staging \cup inflight})
        new == [i \in DOMAIN wanted |-> <<l, wanted[i]>>]
    IN  /\ inflight' = inflight \cup Range(new)
        /\ jobs' = jobs \o new
        /\ UNCHANGED <<staging, stagingOrder, running>>

\* prefetch() of what predict() names.  (Here and in Install, a value bound by \E is computed once
\* where TLC decides whether an action is enabled.)
PrefetchPredicted(l, n) ==
    \E eids \in {Predict(l, Admit(n))} : PrefetchAll(l, eids)

Init ==
    /\ \E cap \in Capacities : modules = [l \in Layers |-> EmptyModule(cap)]
    /\ lru = <<>>
    /\ history = [l \in Layers |-> <<>>]
    /\ staging = {} /\ stagingOrder = <<>>
    /\ inflight = {} /\ jobs = <<>> /\ running = {}
    /\ pc = "idle" /\ layer = 0 /\ forwards = 0
    /\ routed = <<>> /\ todo = <<>> /\ computed = <<>>
    /\ notified = FALSE /\ faults = 0

-----------------------------------------------------------------------------
(* The compute thread.                                                     *)

\* prepare_layer(), at the top of the layer loop.
PrepareLayer ==
    /\ pc = "idle" /\ forwards < MaxForwards
    /\ pc' = "prepared"
    /\ IF Mode = "predictive"
       THEN PrefetchPredicted(layer, 1)
       ELSE UNCHANGED poolVars
    /\ forwards' = forwards + 1
    /\ UNCHANGED <<cacheVars, layer, faults, routed, todo, computed, notified>>

\* forward(): prepare_set() for the experts the router chose.
Route(eids) ==
    /\ pc = "prepared"
    /\ pc' = "consume"
    /\ routed' = Ascending(eids) /\ todo' = routed' /\ computed' = <<>>
    /\ IF Mode # "off"
       THEN PrefetchAll(layer, routed')
       ELSE UNCHANGED poolVars
    /\ UNCHANGED <<cacheVars, bounds, layer, notified>>

Wanted == <<layer, Head(todo)>>
Module == modules[layer]
ConsumeNext == pc = "consume" /\ todo # <<>>

\* The linear layers of one expert read its slot.
Compute(m) ==
    /\ computed' = Append(computed, m.data[SlotOf(m, Head(todo))])
    /\ todo' = Tail(todo)
    /\ pc' = "consume"
    /\ UNCHANGED <<bounds, layer, routed>>

\* _touch()
Touched(recency) == Append(RemoveOne(recency, Wanted), Wanted)

\* Mutant of Hit: a hit is no use.
HitUntouched ==
    /\ ConsumeNext /\ Has(Module, Head(todo))
    /\ Compute(Module)
    /\ UNCHANGED <<cacheVars, poolVars, notified>>

\* ensure(): the expert is resident.
Hit ==
    /\ ConsumeNext /\ Has(Module, Head(todo))
    /\ lru' = Touched(lru)
    /\ Compute(Module)
    /\ UNCHANGED <<modules, history, poolVars, notified>>

\* It is in flight: wait for that read.  Otherwise read it, staged or not.
Miss ==
    /\ ConsumeNext /\ ~Has(Module, Head(todo))
    /\ pc' = IF Wanted \in inflight THEN "waiting" ELSE "reading"
    /\ UNCHANGED <<cacheVars, poolVars, bounds, layer, routed, todo, computed, notified>>

\* _evict_least_recent_in_layer(), and its fallback.
Victim ==
    LET mine == {layer} \X Held(Module)
    IN  IF Range(lru) \cap mine # {} THEN lru[FirstAt(lru, mine)][2]
        ELSE Head(Module.slotOf).eid

\* The rest of ensure(): fill a slot of what there is room in, touch ...
Place(room, recency, weights) ==
    \E filled \in {Fill(room, Head(todo), weights)}, recent \in {recency} :
        /\ modules' = [modules EXCEPT ![layer] = filled]
        /\ lru' = Touched(recent)
        /\ Compute(filled)
        /\ UNCHANGED history

\* ... when the module is full, after an eviction.
Install(weights) ==
    \/ FreeSlots(Module) > 0 /\ Place(Module, lru, weights)
    \/ /\ FreeSlots(Module) = 0
       /\ \E victim \in {Victim} : \E room \in {EvictSlot(Module, victim)} :
               Place(room, RemoveOne(lru, <<layer, victim>>), weights)

\* The wait ends with the expert staged: take it from there.
TakeStaged ==
    /\ Wanted \in staging
    /\ staging' = staging \ {Wanted}
    /\ Install(Wanted)
    /\ notified' = FALSE
    /\ UNCHANGED <<stagingOrder, inflight, jobs, running>>

\* It ends without: read it.
GiveUp ==
    /\ pc' = "reading" /\ notified' = FALSE
    /\ UNCHANGED <<cacheVars, poolVars, bounds, layer, routed, todo, computed>>

\* Woken by the condition.
Wake ==
    /\ pc = "waiting" /\ notified
    /\ \/ TakeStaged
       \/ /\ Wanted \notin staging /\ Wanted \notin inflight
          /\ GiveUp
       \/ /\ Wanted \notin staging /\ Wanted \in inflight
          /\ notified' = FALSE
          /\ UNCHANGED <<cacheVars, poolVars, bounds, pc, layer, routed, todo, computed>>

\* Mutant of TimeOut: the deadline is computed anew each time around.
TimeOutWaitsOn ==
    /\ pc = "waiting"
    /\ \/ TakeStaged
       \/ /\ Wanted \notin staging /\ Wanted \notin inflight
          /\ GiveUp

\* After five seconds.
TimeOut ==
    /\ pc = "waiting"
    /\ \/ TakeStaged
       \/ Wanted \notin staging /\ GiveUp

\* The synchronous _load_expert().
Read ==
    /\ pc = "reading"
    /\ Install(Wanted)
    /\ UNCHANGED <<poolVars, notified>>

\* It raises, and forward() with it.
ReadFails ==
    /\ pc = "reading" /\ faults < MaxFaults
    /\ faults' = faults + 1
    /\ pc' = "failed"
    /\ routed' = <<>> /\ todo' = <<>> /\ computed' = <<>>
    /\ UNCHANGED <<cacheVars, poolVars, layer, forwards, notified>>

\* The end of forward(): record_routing(), with a look ahead at the next layer.
EndForward ==
    /\ pc = "consume" /\ todo = <<>>
    /\ pc' = "idle"
    /\ layer' = (layer + 1) % NumLayers
    /\ IF Mode = "off"
       THEN UNCHANGED history
       ELSE history' = [history EXCEPT ![layer] =
                LET h == Append(@, Range(routed))
                IN  IF Len(h) > Window THEN Tail(h) ELSE h]
    /\ IF Mode = "predictive" /\ layer + 1 \in Layers
       THEN PrefetchPredicted(layer + 1, Len(routed))
       ELSE UNCHANGED poolVars
    /\ routed' = <<>> /\ computed' = <<>>
    /\ UNCHANGED <<bounds, modules, lru, todo, notified>>

\* set_budget(), between sweeps.
SetBudget(cap) ==
    /\ pc = "idle" /\ layer = 0
    /\ cap # Capacity(modules[0])
    /\ modules' = [l \in Layers |-> Resize(modules[l], cap)]
    /\ UNCHANGED <<lru, history, poolVars, computeVars, bounds>>

\* cleanup(), after a generation or an error of the run: the pool is shut
\* down, its queue cancelled ...
Shutdown ==
    /\ pc \in {"idle", "prepared", "failed"}
    /\ pc' = "closing"
    /\ jobs' = <<>>
    /\ UNCHANGED <<cacheVars, bounds, staging, stagingOrder, inflight, running, layer, routed,
                   todo, computed, notified>>

\* ... and, when the running reads are over, everything is dropped.
Close ==
    /\ pc = "closing" /\ running = {}
    /\ pc' = "closed"
    /\ staging' = {} /\ stagingOrder' = <<>>
    /\ history' = [l \in Layers |-> <<>>]
    /\ modules' = [l \in Layers |-> EmptyModule(Capacity(modules[l]))]
    /\ lru' = <<>>
    /\ UNCHANGED <<bounds, inflight, jobs, running, layer, routed, todo, computed, notified>>

-----------------------------------------------------------------------------
(* The pool.                                                               *)

JobBegin ==
    /\ jobs # <<>> /\ Cardinality(running) < Workers
    /\ running' = running \cup {Head(jobs)}
    /\ jobs' = Tail(jobs)
    /\ UNCHANGED <<cacheVars, staging, stagingOrder, inflight, computeVars, bounds>>

\* Mutant of Stage: the oldest order entry goes without its tensors.
StageUnbounded(k) ==
    /\ k \in running
    /\ running' = running \ {k} /\ inflight' = inflight \ {k}
    /\ stagingOrder' = IF Len(stagingOrder) < MaxStaged THEN Append(stagingOrder, k)
                       ELSE Append(Tail(stagingOrder), k)
    /\ staging' = staging \cup {k}
    /\ notified' = (pc = "waiting")
    /\ UNCHANGED <<cacheVars, bounds, jobs, pc, layer, routed, todo, computed>>

\* _stage(): the oldest staged expert may have to go.
Stage(k) ==
    /\ k \in running
    /\ running' = running \ {k} /\ inflight' = inflight \ {k}
    /\ LET order == Append(stagingOrder, k)
       IN  IF Len(order) > MaxStaged
           THEN /\ stagingOrder' = Tail(order)
                /\ staging' = (staging \cup {k}) \ {Head(order)}
           ELSE /\ stagingOrder' = order
                /\ staging' = staging \cup {k}
    /\ notified' = (pc = "waiting")
    /\ UNCHANGED <<cacheVars, bounds, jobs, pc, layer, routed, todo, computed>>

\* A read raises: nobody is notified.
JobFails(k) ==
    /\ k \in running /\ faults < MaxFaults
    /\ faults' = faults + 1
    /\ running' = running \ {k} /\ inflight' = inflight \ {k}
    /\ UNCHANGED <<cacheVars, staging, stagingOrder, jobs, computeVars, forwards>>

-----------------------------------------------------------------------------
Forward == Hit \/ Miss \/ Wake \/ TimeOut \/ Read \/ ReadFails \/ EndForward

ComputeThread ==
    \/ PrepareLayer \/ Forward
    \/ \E eids \in SUBSET Experts : Cardinality(eids) \in 1..TopK /\ Route(eids)

Pool == JobBegin \/ \E k \in Keys : Stage(k) \/ JobFails(k)

Next ==
    \/ ComputeThread \/ Pool
    \/ \E cap \in Capacities : SetBudget(cap)
    \/ Shutdown \/ Close

Spec == Init /\ [][Next]_vars

\* The compute thread runs.  The pool need not, nor does anybody call forward().
FairSpec == Spec /\ WF_<<pc, todo>>(Forward)

-----------------------------------------------------------------------------
(* Properties.                                                             *)

ModuleOK(m) ==
    /\ m \in [idOf : Seq(Experts \cup {None}), data : Seq(Keys \cup {None}),
               slotOf : Seq([eid : Experts, slot : Nat])]
    /\ Len(m.idOf) \in Capacities /\ Len(m.data) = Len(m.idOf)
    /\ \A i \in DOMAIN m.slotOf : m.slotOf[i].slot \in DOMAIN m.idOf

\* Every variable keeps its type.
TypeOK ==
    /\ modules = [l \in Layers |-> modules[l]]
    /\ \A l \in Layers : ModuleOK(modules[l])
    /\ history \in [Layers -> Seq(SUBSET Experts)]
    /\ lru \in Seq(Keys)
    /\ staging \subseteq Keys /\ stagingOrder \in Seq(Keys)
    /\ inflight \subseteq Keys /\ jobs \in Seq(Keys) /\ running \subseteq Keys
    /\ pc \in {"idle", "prepared", "consume", "waiting", "reading", "failed", "closing", "closed"}
    /\ layer \in Layers /\ forwards \in 0..MaxForwards
    /\ routed \in Seq(Experts) /\ todo \in Seq(Experts) /\ computed \in Seq(Keys \cup {None})
    /\ notified \in BOOLEAN /\ faults \in 0..MaxFaults

\* _slot_of and _id_of are inverse, and a slot holds its own expert's
\* weights, through fills, evictions and resizes.
SlotsConsistent ==
    \A l \in Layers :
        LET m == modules[l]
            occupied == {i \in DOMAIN m.idOf : m.idOf[i] # None}
        IN  /\ {<<item.eid, item.slot>> : item \in Range(m.slotOf)}
                    = {<<m.idOf[i], i>> : i \in occupied}
            /\ Len(m.slotOf) = Cardinality(occupied)
            /\ \A i \in occupied : m.data[i] = <<l, m.idOf[i]>>

\* experts.py: bit-identical to a fully materialized module.  forward()
\* computes the routed experts in order, each with its own weights.
BitIdentical ==
    pc \in {"consume", "waiting", "reading"} =>
        computed \o [i \in DOMAIN todo |-> <<layer, todo[i]>>]
            = [i \in DOMAIN routed |-> <<layer, routed[i]>>]

\* The experts used last are the resident ones: an eviction takes the one
\* that was not used for longest.
RecentlyUsedStay ==
    LET n == Len(computed)
    IN  \A i \in 1..n : n - i < Capacity(Module) => Has(Module, computed[i][2])

\* Staged weights are bounded, and each is in the order that will drop it.
StagingBounded ==
    Cardinality(staging) <= MaxStaged /\ staging \subseteq Range(stagingOrder)

\* Until cleanup(), whatever ensure() may wait for is queued or being read,
\* once, and not staged yet.
InflightBacked ==
    pc \notin {"closing", "closed"} =>
        /\ inflight = Range(jobs) \cup running
        /\ Len(jobs) + Cardinality(running) = Cardinality(inflight)
        /\ inflight \cap staging = {}

\* cleanup() leaves no expert's weights behind, and none arrive later.
CleanClose ==
    pc = "closed" => running = {} /\ jobs = <<>> /\ staging = {}
                     /\ \A l \in Layers : Held(modules[l]) = {}

\* What prefetches leave between the pool and the compute thread stays bounded
\* and owned: no read is lost or done twice at once, none outlives cleanup().
StagingSound == StagingBounded /\ InflightBacked /\ CleanClose

\* forward() ends, however slow or broken the pool is.
ForwardEnds == pc = "consume" ~> pc \in {"idle", "failed"}
=============================================================================
