-------------------------- MODULE ThreadedScheduler --------------------------
(***************************************************************************)
(* core/scheduler.py: ThreadedScheduler, which moves the blocks of a model *)
(* held in CPU RAM to the device and back, one thread per prefetch, as     *)
(* SWLPRunner._run_blocks (runner/swlp.py) drives it over one run.  The    *)
(* run's blocks are loaded before it, on the CPU, and given up after it,   *)
(* also those that a thread is still moving.                               *)
(*                                                                         *)
(* block.to(device) takes one tensor after the other; a block is the set   *)
(* of its tensors that are on the device.  What the tensors hold never     *)
(* changes.                                                                *)
(***************************************************************************)
EXTENDS Integers, FiniteSets

CONSTANTS
    NumLayers,
    Window, PrefetchDepth,  \* config.window_size, config.prefetch_depth
    Parts,          \* tensors of a block
    PrefetchOn,     \* config.prefetch
    Tokens,         \* bound: sweeps of the run
    MaxFaults       \* bound: failed moves, thread starts, computations, evictions

ASSUME ThreadedAssumption ==
    /\ {NumLayers, Window, PrefetchDepth, Tokens} \subseteq Nat \ {0}
    /\ PrefetchOn \in BOOLEAN /\ IsFiniteSet(Parts) /\ Parts # {} /\ MaxFaults \in Nat

Layers == 0..(NumLayers - 1)
Lookahead == IF Window > PrefetchDepth THEN Window ELSE PrefetchDepth

VARIABLES
    onDevice,   \* [Layers -> SUBSET Parts]
    torn,       \* history: layers whose last eviction raised
    loaded,     \* _loaded
    threads,    \* _threads: layers with a registered thread, running or dead
    movers,     \* threads that are running: [layer, moved]
    enabled,    \* _prefetch_enabled
    token,      \* sweeps complete
    pc,         \* where the compute thread is in _run_blocks
    layer, ahead,   \* its loop indices
    retried,    \* ensure() has already failed once for this layer
    faults

blocks == <<onDevice, torn>>
scheduler == <<loaded, threads, enabled>>
loop == <<token, layer, ahead, retried>>
threadedVars == <<blocks, scheduler, movers, loop, pc, faults>>

ThreadedInit ==
    /\ onDevice = [l \in Layers |-> {}] /\ torn = {}
    /\ loaded = {} /\ threads = {} /\ movers = {} /\ enabled = FALSE
    /\ token = 0 /\ pc = "idle" /\ layer = 0 /\ ahead = 0 /\ retried = FALSE
    /\ faults = 0

Fault == faults < MaxFaults /\ faults' = faults + 1

-----------------------------------------------------------------------------
(* Prefetch threads.  One may outlive the run that started it.             *)

Unmoved(l) == Parts \ onDevice[l]

\* _move_block() in a thread: tensor after tensor; a tensor that an eviction
\* has put back behind it stays where it is.
MovePart ==
    \E m \in movers : \E p \in Parts \ m.moved :
        /\ onDevice' = [onDevice EXCEPT ![m.layer] = @ \cup {p}]
        /\ movers' = (movers \ {m}) \cup {[m EXCEPT !.moved = @ \cup {p}]}
    /\ UNCHANGED <<torn, scheduler, loop, pc, faults>>

\* Its end.
MoveDone ==
    \E m \in movers :
        /\ m.moved = Parts /\ movers' = movers \ {m}
        /\ loaded' = loaded \cup {m.layer} /\ threads' = threads \ {m.layer}
    /\ UNCHANGED <<blocks, enabled, loop, pc, faults>>

\* to() raises: the thread dies, registered, with the block on both sides.
MoveRaises ==
    /\ Fault
    /\ \E m \in movers : m.moved # Parts /\ movers' = movers \ {m}
    /\ UNCHANGED <<blocks, scheduler, loop, pc>>

-----------------------------------------------------------------------------
(* The compute thread.                                                     *)

\* run(): the scheduler of this run, over blocks that have just been loaded.
StartRun ==
    /\ pc = "idle" /\ pc' = "warm"
    /\ enabled' = PrefetchOn
    /\ UNCHANGED <<blocks, loaded, threads, movers, loop, faults>>

Known(l) == l \in loaded \/ l \in threads

\* prefetch(l): nothing to do, a thread started, or a start that raises, with
\* the thread registered, out of the run.
Prefetch(l) ==
    IF ~enabled \/ l >= NumLayers \/ Known(l)
    THEN /\ ahead' = ahead + 1
         /\ UNCHANGED <<threads, movers, pc, faults>>
    ELSE /\ threads' = threads \cup {l}
         /\ \/ /\ movers' = movers \cup {[layer |-> l, moved |-> {}]}
               /\ ahead' = ahead + 1 /\ UNCHANGED <<pc, faults>>
            \/ /\ Fault /\ pc' = "cleanup" /\ UNCHANGED <<movers, ahead>>

WarmUp ==
    /\ pc = "warm"
    /\ IF ahead < Lookahead
       THEN Prefetch(ahead)
       ELSE pc' = "ahead" /\ ahead' = 1 /\ UNCHANGED <<threads, movers, faults>>
    /\ UNCHANGED <<blocks, loaded, enabled, token, layer, retried>>

PrefetchAhead ==
    /\ pc = "ahead"
    /\ IF ahead <= Lookahead
       THEN Prefetch(layer + ahead)
       ELSE pc' = "ensure" /\ UNCHANGED <<ahead, threads, movers, faults>>
    /\ UNCHANGED <<blocks, loaded, enabled, token, layer, retried>>

\* Mutant of Joined: loaded is waited for, which a dead thread never is.
JoinedLoaded == layer \notin threads \/ layer \in loaded

\* t.join(): the layer's thread, if any, has ended.
Joined == \A m \in movers : m.layer # layer

\* Mutant of Ensure: a registered thread is taken for a loaded block.
EnsureRegistered ==
    /\ pc = "ensure"
    /\ pc' = IF Known(layer) THEN "compute" ELSE "move"
    /\ UNCHANGED <<blocks, scheduler, movers, loop, faults>>

\* ensure(layer): join, and move the block here when the thread did not.
Ensure ==
    /\ pc = "ensure" /\ Joined
    /\ pc' = IF layer \in loaded THEN "compute" ELSE "move"
    /\ UNCHANGED <<blocks, scheduler, movers, loop, faults>>

MoveHere ==
    /\ pc = "move"
    /\ \/ /\ \E p \in Unmoved(layer) : onDevice' = [onDevice EXCEPT ![layer] = @ \cup {p}]
          /\ UNCHANGED <<loaded, threads, pc>>
       \/ /\ Unmoved(layer) = {}
          /\ loaded' = loaded \cup {layer} /\ threads' = threads \ {layer}
          /\ pc' = "compute"
          /\ UNCHANGED onDevice
    /\ UNCHANGED <<torn, enabled, movers, loop, faults>>

\* PrefetchError: prefetching is disabled and ensure() called once more, unless
\* degrade() raises, as it does in strict mode.
MoveHereRaises ==
    /\ pc = "move" /\ Fault
    /\ enabled' = FALSE /\ retried' = TRUE
    /\ pc' \in IF retried THEN {"cleanup"} ELSE {"ensure", "cleanup"}
    /\ UNCHANGED <<blocks, loaded, threads, movers, token, layer, ahead>>

\* call_block(): with tensors on two devices it may raise as well.
Compute ==
    /\ pc = "compute"
    /\ \/ pc' = "evict" /\ UNCHANGED faults
       \/ onDevice[layer] # Parts /\ pc' = "cleanup" /\ UNCHANGED faults
       \/ Fault /\ pc' = "cleanup"
    /\ UNCHANGED <<blocks, scheduler, movers, loop>>

\* evict() of the layers: those loaded go back to the CPU, tensor after tensor,
\* and are not loaded any more.  One whose eviction raises midway (stuck) keeps
\* some tensors there and stays in _loaded; the exception is logged.
EvictAll(layers) ==
    \E stuck \in SUBSET (layers \cap loaded) :
        /\ IF stuck = {} THEN UNCHANGED faults ELSE Fault
        /\ \E kept \in [stuck -> SUBSET Parts] :
              onDevice' = [l \in Layers |->
                              IF l \in stuck THEN onDevice[l] \cap kept[l]
                              ELSE IF l \in layers \cap loaded THEN {} ELSE onDevice[l]]
        /\ loaded' = loaded \ (layers \ stuck)
        /\ torn' = (torn \ layers) \cup stuck

LayersLeft == layer + 1 < NumLayers

\* evict(layer) and on to the next layer, the next token or the end of the run.
Evict ==
    /\ pc = "evict" /\ EvictAll({layer})
    /\ threads' = IF layer \in loaded' THEN threads ELSE threads \ {layer}
    /\ retried' = FALSE
    /\ IF LayersLeft
       THEN layer' = layer + 1 /\ ahead' = 1 /\ pc' = "ahead" /\ UNCHANGED token
       ELSE /\ layer' = 0 /\ ahead' = 0 /\ token' = token + 1
            /\ pc' \in IF token' < Tokens THEN {"warm", "cleanup"} ELSE {"cleanup"}
    /\ UNCHANGED <<enabled, movers>>

\* cleanup(): evict what is loaded, forget the threads.  Nothing is joined.
Cleanup ==
    /\ pc = "cleanup" /\ pc' = "ended"
    /\ EvictAll(Layers)
    /\ threads' = {}
    /\ UNCHANGED <<enabled, movers, loop>>

Sweep == WarmUp \/ PrefetchAhead \/ Ensure \/ MoveHere \/ Compute \/ Evict \/ Cleanup

ThreadedNext == MovePart \/ MoveDone \/ MoveRaises \/ StartRun \/ Sweep \/ MoveHereRaises

\* Threads run, and so does the compute thread in a run.
ThreadFairness ==
    WF_threadedVars(MovePart) /\ WF_threadedVars(MoveDone) /\ WF_threadedVars(Sweep)

ThreadedSpec == ThreadedInit /\ [][ThreadedNext]_threadedVars /\ ThreadFairness

-----------------------------------------------------------------------------
(* Properties.                                                             *)

ThreadedTypeOK ==
    /\ onDevice \in [Layers -> SUBSET Parts] /\ torn \in SUBSET Layers
    /\ loaded \in SUBSET Layers /\ threads \in SUBSET Layers /\ enabled \in BOOLEAN
    /\ movers \in SUBSET [layer : Layers, moved : SUBSET Parts]
    /\ token \in 0..Tokens /\ layer \in Layers
    /\ ahead \in 0..(Lookahead + 1) /\ retried \in BOOLEAN /\ faults \in 0..MaxFaults
    /\ pc \in {"idle", "warm", "ahead", "ensure", "move", "compute", "evict", "cleanup",
               "ended"}

\* A block computes with all its tensors on the device, whichever thread moved
\* it or died over it.  The one exception is a layer whose last eviction raised:
\* it still counts as loaded, and ensure() returns it as it is.
ComputeOnDevice == pc \in {"compute", "evict"} => onDevice[layer] = Parts \/ layer \in torn

\* The run ends, whichever thread died.
RunEnds == pc # "idle" ~> pc = "ended"
=============================================================================
