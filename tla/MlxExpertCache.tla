--------------------------- MODULE MlxExpertCache ---------------------------
(***************************************************************************)
(* runner/mlx_expert_cache.py: the LFU cache of routed experts of the MLX  *)
(* runner, as CachedSwitchGLU (runner/mlx_switch.py) calls it: predict the *)
(* next layer's experts and prefetch them, then get_many() of this layer's.*)
(* Worker threads only read; the compute thread alone caches and evicts.   *)
(*                                                                         *)
(* An expert's weights are its key.  The heap is a set: ticks make its     *)
(* elements distinct.  File descriptors, dtypes and statistics are left    *)
(* out.                                                                    *)
(***************************************************************************)
EXTENDS Lists, Functions

CONSTANTS
    NumSwitchLayers, NumExperts,
    Nbytes,         \* [Keys -> bytes of the expert as cached]
    Budget,         \* budget_bytes
    Workers,        \* threads of the read pool
    HeapSlack,      \* _HEAP_SLACK
    TopK,           \* bound: experts routed to in one call
    MaxCalls,       \* bound: calls of a switch layer
    MaxFailures     \* bound: reads that raise

SwitchLayers == 0..(NumSwitchLayers - 1)
Experts == 0..(NumExperts - 1)
Keys == SwitchLayers \X Experts

ASSUME MlxCacheAssumption ==
    /\ {NumSwitchLayers, NumExperts, Workers, TopK} \subseteq Nat \ {0}
    /\ Nbytes \in [Keys -> Nat \ {0}]
    /\ {Budget, HeapSlack, MaxCalls, MaxFailures} \subseteq Nat

VARIABLES
    cache,      \* [keys, nbytes, freq, last, tick, heap]: the cache and its LFU state
    futures,    \* _inflight in its order: [key, state], "reading", "done" or "failed"
    pc,         \* the compute thread: "idle", "called", "absorb", "collect", or
                \* in close(): "closing", "closed"
    layer, eids,    \* the call's arguments
    pending,    \* keys absorb or collect has still to deal with, in order
    out,        \* experts the call has so far
    calls, failures

args == <<layer, eids>>
cacheVars == <<cache, futures, pc, args, pending, out, calls, failures>>

EmptyCache == [keys |-> {}, nbytes |-> 0, freq |-> [k \in Keys |-> 0],
               last |-> [k \in Keys |-> 0], tick |-> 0, heap |-> {}]

CacheInit ==
    /\ cache = EmptyCache /\ futures = <<>>
    /\ pc = "idle" /\ layer = 0 /\ eids = {} /\ pending = <<>> /\ out = {}
    /\ calls = 0 /\ failures = 0

-----------------------------------------------------------------------------
(* The LFU heap: entries [freq, tick, key], stale ones among them.         *)

Live(c, h) == h.key \in c.keys /\ h.tick = c.last[h.key]

Before(g, h) == g.freq < h.freq \/ (g.freq = h.freq /\ g.tick < h.tick)

Rebuilt(c) ==
    [c EXCEPT !.heap = {[freq |-> c.freq[k], tick |-> c.last[k], key |-> k] : k \in c.keys}]

\* _push(): the key's older entries become stale; too many, and all is rebuilt.
Push(c, k) ==
    LET now == c.tick + 1
        d == [c EXCEPT !.tick = now, !.last = [@ EXCEPT ![k] = now],
                       !.heap = @ \cup {[freq |-> c.freq[k], tick |-> now, key |-> k]}]
    IN  IF Cardinality(d.heap) > 4 * Cardinality(d.keys) + HeapSlack THEN Rebuilt(d) ELSE d

Touch(c, k) == Push([c EXCEPT !.freq[k] = @ + 1], k)
Touched(c, l, es) == FoldLeft(LAMBDA d, e : Touch(d, <<l, e>>), c, Ascending(es))

\* The order _evict_one() finds keys in: that of their live entries; keys without
\* one only after the rebuild.
Colder(c, k, l) ==
    LET live == {h \in c.heap : Live(c, h)}
        Has(x) == \E h \in live : h.key = x
    IN  IF Has(k) /\ Has(l) THEN \E g, h \in live : g.key = k /\ h.key = l /\ Before(g, h)
        ELSE IF Has(k) \/ Has(l) THEN Has(k)
        ELSE \/ c.freq[k] < c.freq[l]
             \/ c.freq[k] = c.freq[l] /\ c.last[k] < c.last[l]

Total == [ks \in SUBSET Keys |-> SumFunction([k \in Keys |-> IF k \in ks THEN Nbytes[k] ELSE 0])]

\* Mutant of Fitted: one eviction, however large the newcomer.
FittedByOne(c) ==
    LET k == CHOOSE k \in c.keys : \A l \in c.keys : ~Colder(c, l, k)
    IN  IF c.nbytes <= Budget THEN c
        ELSE [c EXCEPT !.keys = @ \ {k}, !.nbytes = @ - Nbytes[k]]

\* What was on the heap before the last victim has been popped, too; a victim
\* without a live entry was found by a rebuild.
Evicted(c, victims) ==
    LET popped == {h \in c.heap : Live(c, h) /\ h.key \in victims}
        heap == IF victims \subseteq {h.key : h \in popped} THEN c.heap ELSE Rebuilt(c).heap
    IN  [c EXCEPT !.keys = @ \ victims, !.nbytes = @ - Total[victims],
                  !.heap = {g \in heap : g.key \notin victims /\ \A h \in popped : ~Before(g, h)}]

\* Evict until the budget is kept: the keys at whose turn it is not.
Fitted(c) ==
    LET After == [victims \in SUBSET c.keys |-> Evicted(c, victims)]
    IN  IF c.nbytes <= Budget THEN c
        ELSE After[{k \in c.keys : c.nbytes - Total[{l \in c.keys : Colder(c, l, k)}] > Budget}]

\* _materialize(): insert, count as an access when `used`, make it fit again.
\* The newcomer itself may be the victim.
Materialize(c, k, used) ==
    IF k \in c.keys THEN c
    ELSE LET d == [c EXCEPT !.keys = @ \cup {k}, !.nbytes = @ + Nbytes[k]]
         IN  Fitted(IF used THEN Touch(d, k) ELSE Push(d, k))

-----------------------------------------------------------------------------
(* Reads.                                                                  *)

State(k) ==
    LET found == {f \in Range(futures) : f.key = k}
    IN  IF found = {} THEN "none" ELSE (CHOOSE f \in found : TRUE).state

Without(k) == Kept(futures, {f \in Range(futures) : f.key # k})
Finished == Kept(futures, {f \in Range(futures) : f.state # "reading"})
Unfinished == Kept(futures, {f \in Range(futures) : f.state = "reading"})
\* The pool runs the reads submitted first.
Running ==
    SubSeq(Unfinished, 1, IF Len(Unfinished) < Workers THEN Len(Unfinished) ELSE Workers)

Keyed(fs) == [i \in DOMAIN fs |-> fs[i].key]

\* Experts of a layer that nobody has read or is reading, submitted in order.
Submitted(l, es) ==
    LET missing == {e \in es : <<l, e>> \notin cache.keys /\ State(<<l, e>>) = "none"}
        order == Ascending(missing)
    IN  [i \in DOMAIN order |-> [key |-> <<l, order[i]>>, state |-> "reading"]]

Read ==
    \E f \in Range(Running), result \in {"done", "failed"} :
        /\ futures' = [i \in DOMAIN futures |->
                          IF futures[i] = f THEN [f EXCEPT !.state = result] ELSE futures[i]]
        /\ IF result = "failed" THEN failures < MaxFailures /\ failures' = failures + 1
           ELSE UNCHANGED failures
        /\ UNCHANGED <<cache, pc, args, pending, out, calls>>

-----------------------------------------------------------------------------
(* The compute thread.                                                     *)

\* The layers of a forward pass, pass after pass.
LayerOf(n) == n % NumSwitchLayers

\* A switch layer is called: prefetch() the next layer's predicted experts (the
\* last layer predicts none), then get_many() of its own.
Call ==
    /\ pc = "idle" /\ calls < MaxCalls
    /\ layer' = LayerOf(calls)
    /\ eids' \in {s \in SUBSET Experts : Cardinality(s) \in 1..TopK}
    /\ \E pred \in {s \in SUBSET Experts : Cardinality(s) <= TopK} :
        /\ layer' = NumSwitchLayers - 1 => pred = {}
        /\ futures' = futures \o Submitted(layer' + 1, pred)
    /\ pc' = "called" /\ calls' = calls + 1 /\ out' = {}
    /\ UNCHANGED <<cache, pending, failures>>

\* _absorb_finished(): what has finished by now, failed reads forgotten...
Snapshot ==
    /\ pc = "called" /\ pc' = "absorb"
    /\ pending' = Keyed(Kept(futures, {f \in Range(futures) : f.state = "done"}))
    /\ futures' = Kept(futures, {f \in Range(futures) : f.state # "failed"})
    /\ UNCHANGED <<cache, args, out, calls, failures>>

\* ...enters the cache, not counted as an access.
Absorb ==
    /\ pc = "absorb" /\ pending # <<>>
    /\ cache' = Materialize(cache, Head(pending), FALSE)
    /\ futures' = Without(Head(pending)) /\ pending' = Tail(pending)
    /\ UNCHANGED <<pc, args, out, calls, failures>>

\* get_many() under the lock: hits are touched and handed out, reads in flight
\* joined, the rest submitted.
Route ==
    /\ pc = "absorb" /\ pending = <<>>
    /\ LET hits == {e \in eids : <<layer, e>> \in cache.keys}
       IN  /\ cache' = Touched(cache, layer, hits)
           /\ out' = hits
           /\ pending' = [i \in DOMAIN Ascending(eids \ hits) |-> <<layer, Ascending(eids \ hits)[i]>>]
    /\ futures' = futures \o Submitted(layer, eids)
    /\ pc' = "collect"
    /\ UNCHANGED <<args, calls, failures>>

\* Mutant of Collect: a failed read is waited for, too.
CollectOnlyDone ==
    /\ pc = "collect" /\ pending # <<>> /\ State(Head(pending)) = "done"
    /\ cache' = Materialize(cache, Head(pending), TRUE)
    /\ futures' = Without(Head(pending))
    /\ out' = out \cup {Head(pending)[2]} /\ pending' = Tail(pending)
    /\ UNCHANGED <<pc, args, calls, failures>>

\* One read after the other is waited for, cached and handed out; the first that
\* failed is raised, and its future stays for the next absorb.
Collect ==
    /\ pc = "collect" /\ pending # <<>>
    /\ \/ /\ State(Head(pending)) = "done"
          /\ cache' = Materialize(cache, Head(pending), TRUE)
          /\ futures' = Without(Head(pending))
          /\ out' = out \cup {Head(pending)[2]} /\ pending' = Tail(pending)
          /\ UNCHANGED pc
       \/ /\ State(Head(pending)) = "failed"
          /\ pc' = "idle" /\ pending' = <<>> /\ out' = {}
          /\ UNCHANGED <<cache, futures>>
    /\ UNCHANGED <<args, calls, failures>>

Return ==
    /\ pc = "collect" /\ pending = <<>> /\ pc' = "idle"
    /\ UNCHANGED <<cache, futures, args, pending, out, calls, failures>>

\* close(): waiting reads are cancelled, the running ones waited for.
Close ==
    /\ pc = "idle" /\ pc' = "closing"
    /\ futures' = Finished \o Running
    /\ UNCHANGED <<cache, args, pending, out, calls, failures>>

Closed ==
    /\ pc = "closing" /\ Unfinished = <<>> /\ pc' = "closed"
    /\ futures' = <<>>
    /\ cache' = [cache EXCEPT !.keys = {}, !.heap = {}, !.nbytes = 0]
    /\ UNCHANGED <<args, pending, out, calls, failures>>

GetMany == Snapshot \/ Absorb \/ Route \/ Collect \/ Return

CacheNext == Read \/ Call \/ GetMany \/ Close \/ Closed

\* The pool's threads run; the compute thread goes on once in a call.
CacheSpec == CacheInit /\ [][CacheNext]_cacheVars /\ WF_cacheVars(Read) /\ WF_cacheVars(GetMany \/ Closed)

-----------------------------------------------------------------------------
(* Properties.                                                             *)

CacheTypeOK ==
    /\ cache \in [keys : SUBSET Keys, nbytes : Nat, freq : [Keys -> Nat], last : [Keys -> Nat],
                  tick : Nat, heap : SUBSET [freq : Nat, tick : Nat, key : Keys]]
    /\ futures \in Seq([key : Keys, state : {"reading", "done", "failed"}])
    /\ pc \in {"idle", "called", "absorb", "collect", "closing", "closed"}
    /\ layer \in SwitchLayers /\ eids \in SUBSET Experts /\ out \in SUBSET Experts
    /\ pending \in Seq(Keys)
    /\ calls \in 0..MaxCalls /\ failures \in 0..MaxFailures

\* The byte counter is what is cached, and within the budget whenever the
\* compute thread is not in the middle of an insertion: a stale heap entry never
\* gives bytes back twice, and every key has a live one to be evicted by, also
\* after a rebuild in the middle of an insertion.  Nothing is read twice or while
\* it is cached: what a finished read holds uncounted until it is absorbed (at
\* most one expert for each future) is not in the cache as well.
WithinBudget ==
    /\ cache.nbytes = Total[cache.keys] /\ cache.nbytes <= Budget
    /\ \A k \in cache.keys : \E h \in cache.heap : Live(cache, h) /\ h.key = k
    /\ IsInjective(Keyed(futures)) /\ Range(Keyed(futures)) \cap cache.keys = {}

\* What get_many() is still waiting for, somebody has been told to read, and what
\* it has collected and waits for is what it was asked for.
CallComplete ==
    pc = "collect" =>
        /\ Range(pending) \subseteq Range(Keyed(futures))
        /\ out \cup {k[2] : k \in Range(pending)} = eids

\* get_many() comes back, with every expert asked for or because a read failed.
CallReturns ==
    /\ pc = "called" ~> pc \in {"idle", "closing", "closed"}
    /\ []CallComplete
=============================================================================
