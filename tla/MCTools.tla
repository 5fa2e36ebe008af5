------------------------------- MODULE MCTools -------------------------------
(* What surrounds the pipeline, for TLC: the residency planner over sequences *)
(* of runs, the profiler under the threads that call it, the two simulators   *)
(* of scripts/research/simtools, and the commands that keep models on disk.   *)
(* They share no state: in a behaviour only the one in focus moves.           *)
EXTENDS ResidencyPlanner, Catalogue, Profiler, TLC

VARIABLES
    focus,
    sim,                            \* PipelineSimulator
    lab                             \* PolicyLab

-----------------------------------------------------------------------------
(* Machines from 1 GB, with no memory to spare, to 64 GB; models of which all *)
(* layers fit and of which none does, and one of unknown layer size.          *)

Machine(t, f) ==
    [total |-> t, free |-> f, bandwidth |-> 0, active |-> 500,
     workingSet |-> (2 * t) \div 3, unified |-> t > 8192]

FewMachines == {
    Machine(1024, 512), Machine(8192, 512), Machine(8192, 7168),
    Machine(16384, 20480), Machine(65536, 20480), Machine(65536, 60000)}

FewModels == {
    [layer |-> 0, layers |-> 4, embed |-> 500],
    [layer |-> 416, layers |-> 32, embed |-> 500],
    [layer |-> 1500, layers |-> 4, embed |-> 500]}

Automatic(backend) ==
    [residency |-> -1, window |-> 2, directIO |-> "auto", kvBudget |-> 0, expertCache |-> 0,
     wired |-> -1, backend |-> backend]
Explicit(backend) ==
    [residency |-> 3, window |-> 8, directIO |-> "off", kvBudget |-> 100, expertCache |-> 9000,
     wired |-> 14000, backend |-> backend]

FewSettings ==
    {Automatic(b) : b \in {"hf", "swlp", "mlx"}} \cup {Explicit(b) : b \in {"swlp", "mlx"}}

\* A run that failed before it measured anything, slow reads, and fast ones.
FewMeasurements ==
    {[read |-> r, deserialize |-> 10, upload |-> 0, compute |-> c] :
        <<r, c>> \in {<<0, 0>>, <<0, 100>>, <<600, 100>>}}

-----------------------------------------------------------------------------
(* Reads slower and faster than compute, one worker and two, with residents   *)
(* and without, and a RAM so small that uploads slow down.                    *)

Pipeline ==
    [layers |-> 4, tokens |-> 2, window |-> 1, depth |-> 2, workers |-> 2, residents |-> 1,
     capacity |-> 4, read |-> 2, upload |-> 1, compute |-> 3, evict |-> 1]

Simulator == INSTANCE PipelineSimulator WITH
    Configs <- {Pipeline, [Pipeline EXCEPT !.workers = 1, !.residents = 0],
                [Pipeline EXCEPT !.depth = 1],
                [Pipeline EXCEPT !.read = 1, !.capacity = 2, !.upload = 2]}

Work ==
    [layers |-> 4, tokens |-> 3, ram |-> 6544, weight |-> 300, depth |-> 2, readers |-> 2,
     uploaders |-> 1, read |-> 2, deserialize |-> 1, upload |-> 3, compute |-> 3, evict |-> 1]

FewWorkloads ==
    {Work, [Work EXCEPT !.readers = 1, !.ram = 1000], [Work EXCEPT !.compute = 14]}

Lab == INSTANCE PolicyLab WITH Workloads <- FewWorkloads, ReadTimes <- {1, 3}

-----------------------------------------------------------------------------
(* A dense model with an MTP head and an alias, one of another owner that has *)
(* the same last path segment, an MoE model, and an MLX checkpoint; full      *)
(* precision is more than the GPU holds.                                      *)

Kinds == {"dense", "other", "moe", "mlx"}
TypedNames == Kinds \cup {"alias"}
TypedModels == ("alias" :> "dense") @@ [n \in Kinds |-> n]
TypedDirs ==
    ("alias" :> <<"alias", "dense">>) @@ ("other" :> <<"dense">>) @@ [n \in Kinds |-> <<n>>]
FewDirs == {"alias", "dense", "moe", "mlx", "library"}
Slugs == [r \in Kinds |-> <<r>>]
TooLarge == {<<"dense", "bf16">>}

-----------------------------------------------------------------------------
\* The components out of focus stay at one of their initial states.
ToolsInit ==
    /\ focus \in {"planner", "simulator", "lab", "profiler", "catalogue"}
    /\ PlannerInit
    /\ Simulator!Init /\ (focus # "simulator" => sim.cfg = Pipeline)
    /\ Lab!Init /\ (focus # "lab" => lab.cfg = Work /\ lab.policy.kind = "window")
    /\ ProfilerInit
    /\ Init

ToolsNext ==
    \/ /\ focus = "planner" /\ PlannerNext
       /\ UNCHANGED <<focus, sim, lab, profVars, vars>>
    \/ /\ focus = "simulator" /\ Simulator!Next
       /\ UNCHANGED <<focus, planVars, lab, profVars, vars>>
    \/ /\ focus = "lab" /\ Lab!Next
       /\ UNCHANGED <<focus, planVars, sim, profVars, vars>>
    \/ /\ focus = "profiler" /\ ProfilerNext
       /\ UNCHANGED <<focus, planVars, sim, lab, vars>>
    \/ /\ focus = "catalogue" /\ Next
       /\ UNCHANGED <<focus, planVars, sim, lab, profVars>>

ToolsSpec == ToolsInit /\ [][ToolsNext]_<<focus, planVars, sim, lab, profVars, vars>>

-----------------------------------------------------------------------------
\* The event loop of simulator.py loses no event and counts none twice; that of
\* event_simulator.py overbooks no SSD and leaves no layer behind (simulate()).
SimulatorsSound ==
    /\ focus = "simulator" => Simulator!SimulationSound
    /\ focus = "lab" => Lab!LabSound
=============================================================================
