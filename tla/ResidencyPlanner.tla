--------------------------- MODULE ResidencyPlanner ---------------------------
(***************************************************************************)
(* What a runner decides from the memory it finds before it loads          *)
(* anything, run after run: whether the model can run, how many layers     *)
(* stay resident, the KV and expert budgets, the GPU's wired limit; and    *)
(* the pipeline ratio that one run measures and the next one plans with.   *)
(* (core/residency.py, resident_policy.py, pipeline_model.py,              *)
(* confidence.py, hardware/detect.py, runner/swlp_setup.py, mlx_tune.py)   *)
(*                                                                         *)
(* Memory is in MB, a ratio in hundredths, a bandwidth in tenths of a      *)
(* GB/s, each rounded down where the code keeps a float; reasons, reports  *)
(* and log lines are left out.                                             *)
(***************************************************************************)
EXTENDS Integers, Sequences, FiniteSetsExt

CONSTANTS
    Machines,       \* [total, free, bandwidth, active, workingSet, unified]
    Models,         \* [layer, layers, embed]: MB of a layer, layers, MB of embed and lm_head
    Settings,       \* [residency, window, directIO, kvBudget, expertCache, wired, backend]
    Measurements    \* [read, deserialize, upload, compute]: averages of a run's profile

\* A machine has memory; how much of it is free, and what a model needs, may be 0.
ASSUME PlannerAssumption ==
    /\ Machines \subseteq [total : Nat \ {0}, free : Nat, bandwidth : Nat, active : Nat,
                           workingSet : Nat, unified : BOOLEAN]
    /\ Models \subseteq [layer : Nat, layers : Nat, embed : Nat]
    /\ Settings \subseteq [residency : Int, window : Int, directIO : {"auto", "on", "off"},
                           kvBudget : Int, expertCache : Int, wired : Int,
                           backend : {"hf", "swlp", "mlx"}]
    /\ Measurements \subseteq [read : Int, deserialize : Int, upload : Int, compute : Int]

VARIABLES
    ratio,          \* _measured_pipeline_ratio, 0 for None
    bandwidth,      \* the measured bandwidth kept in the hardware cache, 0 for none
    launch          \* the run under way, and what was decided for it

\* The settings "auto" of residency and of the wired limit; "off" is 0.
AutoSetting == -1

planVars == <<ratio, bandwidth, launch>>

\* Min and Max of two numbers, in a form the provers know.
Least(a, b) == IF a <= b THEN a ELSE b
Most(a, b) == IF a >= b THEN a ELSE b

-----------------------------------------------------------------------------
(* The pipeline ratio.                                                     *)

\* estimate_pipeline_ratio_from_hardware(), of 100 ms of compute a layer.
EstimatedRatio(layer, gbps) ==
    IF layer <= 0 \/ gbps <= 0 THEN 100
    ELSE Most(10, (layer * 10000) \div (gbps * 1024) + 52)

RatioFromMetrics(m) ==
    IF m.compute <= 0 THEN 100
    ELSE Most(10, (100 * (Most(0, m.read) + Most(0, m.deserialize) + Most(0, m.upload))) \div m.compute)

\* _update_measured_pipeline_ratio()
Smoothed(old, measured) ==
    LET bounded == Most(10, Least(2000, measured))
    IN  IF old = 0 THEN bounded ELSE (65 * old + 35 * bounded) \div 100

-----------------------------------------------------------------------------
(* The policy: bilinear interpolation over a calibrated grid.              *)

RatioAnchors == <<100, 300, 500, 700, 1000, 1500>>
RamAnchors == <<4096, 8192, 12288, 16384, 24576>>

\* RESIDENT_GRID: a row for each ratio anchor.
Grid == << <<2, 2, 2, 2, 2>>, <<2, 2, 2, 2, 2>>, <<4, 12, 20, 22, 22>>,
           <<8, 16, 22, 22, 22>>, <<10, 16, 22, 22, 22>>, <<12, 18, 22, 22, 22>> >>

MaxResident == 28
MinResident == 2

\* Multiples that the widths between two anchors divide.
RamUnit == 8192
RatioUnit == 3000

\* _interp_1d(), `unit` times: clamped at both ends.
Interpolated(x, anchors, values, unit) ==
    LET n == Len(anchors)
    IN  IF x <= anchors[1] THEN unit * values[1]
        ELSE IF x >= anchors[n] THEN unit * values[n]
        ELSE LET i == CHOOSE j \in 1..(n - 1) : anchors[j] <= x /\ x < anchors[j + 1]
             IN  unit * values[i] + (x - anchors[i]) * (values[i + 1] - values[i])
                                      * (unit \div (anchors[i + 1] - anchors[i]))

RoundHalfEven(v, unit) ==
    LET q == v \div unit  r == v % unit
    IN  IF 2 * r < unit \/ (2 * r = unit /\ q % 2 = 0) THEN q ELSE q + 1

PolicyTarget(x, ram) ==
    LET perRatio == [i \in DOMAIN Grid |-> Interpolated(ram, RamAnchors, Grid[i], RamUnit)]
    IN  RoundHalfEven(Interpolated(x, RatioAnchors, perRatio, RatioUnit), RamUnit * RatioUnit)

\* _compute_memory_limit(): 80% of the RAM, in layers of the given size.
MemoryLimit(ram, size) == IF size <= 0 THEN 0 ELSE Most(0, (8 * ram) \div (10 * size))

\* estimate_optimal_resident_count(): the least count wins over the memory limit.
PolicyCount(x, ram, size) ==
    LET limit == Most(MinResident, Least(MemoryLimit(ram, size), MaxResident))
    IN  Most(MinResident, Least(MaxResident, Least(PolicyTarget(x, ram), limit)))

-----------------------------------------------------------------------------
(* The plan.                                                               *)

OsReserve == 4096
WorkingReserve == 2048
ReferenceLayer == 416   \* layer_size_mb: never given, so always the reference model's

MemoryBudget(m) == Least(m.total, m.free)

Usable(m) == Most(0, (3 * (MemoryBudget(m) - OsReserve - WorkingReserve)) \div 4)

\* Mutant of Residents: the policy is not held to the memory.
ResidentsByPolicy(m, model, x) ==
    IF model.layer <= 0 \/ model.layers <= 0 \/ Usable(m) < model.layer THEN 0
    ELSE IF model.layer * model.layers <= Usable(m) THEN model.layers
    ELSE Least(model.layers, PolicyCount(Most(10, x), MemoryBudget(m), ReferenceLayer))

\* plan_residency(): all of a model that fits, else what policy and memory allow.
Residents(m, model, x) ==
    IF model.layer <= 0 \/ model.layers <= 0 THEN 0
    ELSE IF model.layer * model.layers <= Usable(m) THEN model.layers
    ELSE Most(0, Least(Least(model.layers, Usable(m) \div model.layer),
                       PolicyCount(Most(10, x), MemoryBudget(m), ReferenceLayer)))

\* estimate_policy_confidence(), in hundredths: far from the grid it is lower.
OffGrid(x, anchors) ==
    LET lo == anchors[1]  hi == anchors[Len(anchors)]
    IN  Least(35, (35 * (IF x < lo THEN lo - x ELSE IF x > hi THEN x - hi ELSE 0)) \div (hi - lo))

Confidence(x, ram, measured, sized) ==
    LET score == 100 - OffGrid(x, RatioAnchors) - OffGrid(ram, RamAnchors)
                 + (IF measured THEN 10 ELSE -10) - (IF sized THEN 0 ELSE 20)
    IN  Most(0, Least(100, score))

\* The measured ratio, before the first measurement an estimate.
PipelineRatio(m, model) ==
    IF ratio > 0 THEN ratio ELSE EstimatedRatio(model.layer, m.bandwidth)

\* build_residency_decision() as _resolve_resident_count() asks for it.
Decision(m, model, s) ==
    LET x == PipelineRatio(m, model)
        count == IF s.residency = AutoSetting THEN Residents(m, model, x)
                 ELSE Most(0, Least(s.residency, model.layers))
    IN  [resident |-> count, streaming |-> model.layers - count,
         confidence |-> Confidence(x, MemoryBudget(m), ratio > 0, model.layer > 0)]

-----------------------------------------------------------------------------
(* The other budgets.                                                      *)

DetectReserve == 3072
EmbedReserve == 1024

FitsInMemory(m, size) == size <= m.total - DetectReserve - EmbedReserve

\* streaming_fits_in_memory(), of embed and lm_head and one window of layers.
StreamingFits(m, model, s) ==
    model.embed + Most(1, s.window) * model.layer <= m.total - DetectReserve

\* _resolve_kv_budget_bytes(): half the headroom, and never less than 256 MB.
KvBudget(m, model, s) ==
    IF s.kvBudget > 0 THEN s.kvBudget
    ELSE Most(256, (m.total - DetectReserve - EmbedReserve
                    - (Most(1, s.window) + 1) * Most(0, model.layer)) \div 2)

\* resolve_direct_io(): "auto" bypasses the page cache past 60% of free RAM.
DirectIO(m, model, s) ==
    CASE s.directIO = "on" -> TRUE
      [] s.directIO = "off" -> FALSE
      [] OTHER -> \/ model.layer * model.layers <= 0 \/ m.free <= 0
                  \/ 10 * model.layer * model.layers > 6 * m.free

\* _budget_bytes() of the MLX expert cache: what Metal will hold, at most.
ExpertBudget(m, s) ==
    LET room == m.workingSet - m.active - 2048
        wanted == IF s.expertCache > 0 THEN s.expertCache ELSE Most(256, m.free - 2048)
    IN  Most(0, Least(wanted, room))

\* recommended_wired_limit_mb(): all but 4 GB, and 92% of the RAM at most.
RecommendedWired(m) == Least(Most(1024, m.total - 4096), (92 * m.total) \div 100)

\* apply_memory_tuning(): 0 where the limit is left alone.
WiredLimit(m, s) ==
    IF s.wired = 0 THEN 0
    ELSE LET target == IF s.wired = AutoSetting THEN RecommendedWired(m) ELSE s.wired
         IN  IF m.workingSet > 0 THEN Least(target, m.workingSet) ELSE target

\* detect_hardware(): the measured bandwidth, or the platform's default.
Detected(m) ==
    [m EXCEPT !.bandwidth = IF bandwidth > 0 THEN bandwidth ELSE IF m.unified THEN 65 ELSE 35]

-----------------------------------------------------------------------------
(* Runs.                                                                   *)

Idle == [state |-> "idle"]

PlannerInit == ratio = 0 /\ bandwidth = 0 /\ launch = Idle

\* scripts/phase0_hardware_check.py stores the bandwidth it measured.
SaveMeasuredBandwidth(gbps) ==
    /\ launch.state = "idle"
    /\ bandwidth' = gbps
    /\ UNCHANGED <<ratio, launch>>

\* check_hf_oom() and _check_streaming_feasible(): a model too large is refused.
Refuse(m, model, s) ==
    /\ launch.state = "idle"
    /\ \/ s.backend = "hf" /\ ~FitsInMemory(m, model.layer * model.layers)
       \/ s.backend = "swlp" /\ ~StreamingFits(m, model, s)
    /\ launch' = [state |-> "refused"]
    /\ UNCHANGED <<ratio, bandwidth>>

Start(m, model, s) ==
    /\ launch.state = "idle" /\ s.backend = "swlp" /\ StreamingFits(m, model, s)
    /\ launch' = [state |-> "running", machine |-> Detected(m), model |-> model,
                  decision |-> Decision(Detected(m), model, s),
                  auto |-> s.residency = AutoSetting, kv |-> KvBudget(m, model, s),
                  direct |-> DirectIO(m, model, s)]
    /\ UNCHANGED <<ratio, bandwidth>>

StartMlx(m, s) ==
    /\ launch.state = "idle" /\ s.backend = "mlx"
    /\ launch' = [state |-> "mlx", machine |-> m, wired |-> WiredLimit(m, s),
                  auto |-> s.wired = AutoSetting, experts |-> ExpertBudget(m, s)]
    /\ UNCHANGED <<ratio, bandwidth>>

\* A run ends, well or not: what its profile says goes into the ratio.
Finish(measured) ==
    /\ launch.state = "running"
    /\ ratio' = Smoothed(ratio, RatioFromMetrics(measured))
    /\ launch' = Idle
    /\ UNCHANGED bandwidth

EndOther ==
    /\ launch.state \in {"refused", "mlx"}
    /\ launch' = Idle
    /\ UNCHANGED <<ratio, bandwidth>>

PlannerNext ==
    \/ \E gbps \in {20, 65} : SaveMeasuredBandwidth(gbps)
    \/ \E m \in Machines, s \in Settings :
          \/ \E model \in Models : Refuse(m, model, s) \/ Start(m, model, s)
          \/ StartMlx(m, s)
    \/ \E measured \in Measurements : Finish(measured)
    \/ EndOther

PlannerSpec == PlannerInit /\ [][PlannerNext]_planVars

-----------------------------------------------------------------------------
(* Properties.                                                             *)

\* Every layer is either resident or streamed, and the layers the planner keeps
\* resident fit the memory it may use, whatever the policy's least count says.
PlanFits ==
    launch.state = "running" =>
        LET d == launch.decision
        IN  /\ d.resident + d.streaming = launch.model.layers
            /\ d.resident >= 0 /\ d.streaming >= 0
            /\ launch.auto => d.resident * launch.model.layer <= Usable(launch.machine)

\* The measured ratio keeps its bounds over any sequence of runs.
RatioBounded == ratio = 0 \/ ratio \in 10..2000

\* "More RAM never produces worse decisions", nor does a slower pipeline: with
\* less memory no more layers would be resident than are, and with slower reads
\* no fewer.
PlanMonotone ==
    launch.state = "running" /\ launch.auto =>
        LET m == launch.machine  model == launch.model  x == PipelineRatio(m, model)
        IN  /\ \A n \in Machines :
                   n.free <= m.free /\ n.total <= m.total =>
                       Residents(n, model, x) <= launch.decision.resident
            /\ launch.decision.resident <= Residents(m, model, x + 150)

\* What MLX is given never exceeds what Metal holds, nor the RAM the tuner allows.
GpuBudgets ==
    launch.state = "mlx" =>
        LET m == launch.machine
        IN  /\ launch.experts = 0 \/ launch.experts + m.active <= m.workingSet
            /\ m.workingSet > 0 => launch.wired <= m.workingSet
            /\ launch.auto => launch.wired < m.total

\* What is planned fits the machine it is planned for, and planning is monotone
\* over whatever sequence of runs the ratio was measured in.
PlanSound == PlanFits /\ RatioBounded /\ PlanMonotone /\ GpuBudgets
=============================================================================
