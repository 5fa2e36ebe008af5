------------------------------- MODULE ToolsProofs -----------------------------
(***************************************************************************)
(* The plan fits and is monotone, and the other budgets and the pipeline   *)
(* ratio keep their bounds, for every machine, model, setting and sequence *)
(* of runs; and in the catalogue a name runs its own model, a finished     *)
(* pull is found and nothing of a removed model is, for any names,         *)
(* directories and commands; and the traces of the profiler are whole and  *)
(* in order for any number of layers and tokens, any lookahead and any     *)
(* failures.                                                               *)
(***************************************************************************)
EXTENDS ResidencyPlanner, Catalogue, Profiler, ListsProofs


-----------------------------------------------------------------------------
(* Arithmetic.                                                             *)

LEMMA LeastMost ==
    ASSUME NEW a \in Int, NEW b \in Int
    PROVE  /\ Least(a, b) \in Int /\ Least(a, b) <= a /\ Least(a, b) <= b
           /\ Most(a, b) \in Int /\ Most(a, b) >= a /\ Most(a, b) >= b
           /\ Least(a, b) \in {a, b} /\ Most(a, b) \in {a, b}
  BY DEF Least, Most

LEMMA Division ==
    ASSUME NEW a \in Int, NEW b \in Nat \ {0}
    PROVE  /\ a \div b \in Int /\ b * (a \div b) <= a /\ a < b * (a \div b) + b
           /\ a >= 0 => a \div b >= 0
  OBVIOUS

LEMMA DivisionGrows ==
    ASSUME NEW a \in Int, NEW c \in Int, NEW b \in Nat \ {0}, a <= c
    PROVE  a \div b <= c \div b
  OBVIOUS

LEMMA Product ==
    ASSUME NEW a \in Nat, NEW b \in Nat, NEW c \in Nat, a <= b
    PROVE  a * c \in Nat /\ a * c <= b * c
  OBVIOUS

LEMMA Scaled ==
    ASSUME NEW k \in Nat, NEW a \in Int, NEW b \in Int, a <= b
    PROVE  k * a \in Int /\ k * b \in Int /\ k * a <= k * b
  OBVIOUS

-----------------------------------------------------------------------------
(* Interpolation.                                                          *)

\* Anchors whose gaps divide the unit, and between which every number lies.
Calibrated(anchors, unit) ==
    /\ Len(anchors) \in Nat \ {0} /\ unit \in Nat
    /\ \A i \in 1..Len(anchors) : anchors[i] \in Nat
    /\ \A i, j \in 1..Len(anchors) : i < j => anchors[i] < anchors[j]
    /\ \A i \in 1..(Len(anchors) - 1) :
          /\ unit \div (anchors[i + 1] - anchors[i]) \in Nat
          /\ (anchors[i + 1] - anchors[i]) * (unit \div (anchors[i + 1] - anchors[i])) = unit
    /\ \A x \in Int : anchors[1] < x /\ x < anchors[Len(anchors)] =>
          \E i \in 1..(Len(anchors) - 1) : anchors[i] <= x /\ x < anchors[i + 1]

Nondecreasing(values, n) ==
    /\ \A i \in 1..n : values[i] \in Int
    /\ \A i, j \in 1..n : i <= j => values[i] <= values[j]

LEMMA RamCalibrated == Calibrated(RamAnchors, RamUnit)
  BY DEF Calibrated, RamAnchors, RamUnit

LEMMA RatioCalibrated == Calibrated(RatioAnchors, RatioUnit)
  BY DEF Calibrated, RatioAnchors, RatioUnit

LEMMA Gap ==
    ASSUME NEW anchors, NEW unit, Calibrated(anchors, unit), NEW i \in 1..(Len(anchors) - 1)
    PROVE  /\ i \in 1..Len(anchors) /\ i + 1 \in 1..Len(anchors) /\ i < i + 1
           /\ anchors[i] \in Nat /\ anchors[i + 1] \in Nat /\ anchors[i] < anchors[i + 1]
           /\ unit \div (anchors[i + 1] - anchors[i]) \in Nat
           /\ (anchors[i + 1] - anchors[i]) * (unit \div (anchors[i + 1] - anchors[i])) = unit
<1>1. i \in 1..Len(anchors) /\ i + 1 \in 1..Len(anchors) /\ i < i + 1
  <2>1. Len(anchors) \in Nat
    BY DEF Calibrated
  <2> QED
    BY <2>1
<1>2. anchors[i] \in Nat /\ anchors[i + 1] \in Nat
  BY <1>1 DEF Calibrated
<1>3. \A k, l \in 1..Len(anchors) : k < l => anchors[k] < anchors[l]
  BY DEF Calibrated
<1>4. anchors[i] < anchors[i + 1]
  BY <1>1, <1>3
<1>5. /\ unit \div (anchors[i + 1] - anchors[i]) \in Nat
      /\ (anchors[i + 1] - anchors[i]) * (unit \div (anchors[i + 1] - anchors[i])) = unit
  BY Zenon DEF Calibrated
<1> QED
  BY <1>1, <1>2, <1>4, <1>5

\* The line between two anchors: its bounds, and what a higher one does.
LEMMA Line ==
    ASSUME NEW a \in Int, NEW b \in Int, a <= b, NEW k \in Nat,
           NEW w \in Nat, NEW d \in 0..w
    PROVE  /\ w * k * a + d * (b - a) * k \in Int
           /\ w * k * a <= w * k * a + d * (b - a) * k
           /\ w * k * a + d * (b - a) * k <= w * k * b
<1>1. d * (b - a) \in Nat /\ d * (b - a) <= w * (b - a)
  BY Product
<1>2. d * (b - a) * k \in Nat /\ d * (b - a) * k <= w * (b - a) * k
  BY <1>1, Product
<1>3. w * (b - a) * k = w * k * b - w * k * a
  OBVIOUS
<1> QED
  BY <1>2, <1>3

LEMMA HigherLine ==
    ASSUME NEW a \in Int, NEW b \in Int, a <= b, NEW c \in Int, NEW e \in Int, c <= e,
           a <= c, b <= e, NEW k \in Nat, NEW w \in Nat, NEW d \in 0..w, NEW f \in 0..w, d <= f
    PROVE  w * k * a + d * (b - a) * k <= w * k * c + f * (e - c) * k
<1>1. (w - d) * (c - a) \in Nat /\ d * (e - b) \in Nat /\ d * (e - c) <= f * (e - c)
  BY Product
<1>2. d * (b - a) + w * a <= f * (e - c) + w * c
  BY <1>1
<1>3. d * (b - a) + w * a \in Int /\ f * (e - c) + w * c \in Int
  OBVIOUS
<1>4. (d * (b - a) + w * a) * k <= (f * (e - c) + w * c) * k
  BY <1>2, <1>3
<1> QED
  BY <1>4

\* Where x lies between two anchors, and the value there.
OnSegment(x, anchors, values, unit, i, v) ==
    /\ i \in 1..(Len(anchors) - 1) /\ anchors[i] <= x /\ x < anchors[i + 1]
    /\ v = unit * values[i] + (x - anchors[i]) * (values[i + 1] - values[i])
                                  * (unit \div (anchors[i + 1] - anchors[i]))

LEMMA Segment ==
    ASSUME NEW anchors, NEW unit, Calibrated(anchors, unit), NEW values, NEW x \in Int,
           anchors[1] < x, x < anchors[Len(anchors)]
    PROVE  \E i : OnSegment(x, anchors, values, unit, i, Interpolated(x, anchors, values, unit))
<1> DEFINE In(j) == anchors[j] <= x /\ x < anchors[j + 1]
           n == Len(anchors)
           i == CHOOSE j \in 1..(n - 1) : In(j)
<1>1. \E j \in 1..(n - 1) : In(j)
  BY DEF Calibrated
<1>2. i \in 1..(n - 1) /\ In(i)
  BY <1>1
<1>3. ~(x <= anchors[1]) /\ ~(x >= anchors[n])
  BY DEF Calibrated
<1>4. Interpolated(x, anchors, values, unit)
          = unit * values[i] + (x - anchors[i]) * (values[i + 1] - values[i])
                                   * (unit \div (anchors[i + 1] - anchors[i]))
  BY <1>3 DEF Interpolated
<1> HIDE DEF i
<1> QED
  BY <1>2, <1>4 DEF OnSegment

LEMMA SegmentBounds ==
    ASSUME NEW anchors, NEW unit, Calibrated(anchors, unit), NEW values,
           Nondecreasing(values, Len(anchors)), NEW x \in Int, NEW i, NEW v,
           OnSegment(x, anchors, values, unit, i, v)
    PROVE  v \in Int /\ unit * values[i] <= v /\ v <= unit * values[i + 1]
<1> DEFINE w == anchors[i + 1] - anchors[i]
           k == unit \div w
           d == x - anchors[i]
<1>1. i \in 1..(Len(anchors) - 1) /\ anchors[i] <= x /\ x < anchors[i + 1]
  BY DEF OnSegment
<1>2. /\ i \in 1..Len(anchors) /\ i + 1 \in 1..Len(anchors) /\ i < i + 1
      /\ anchors[i] \in Nat /\ anchors[i + 1] \in Nat /\ anchors[i] < anchors[i + 1]
      /\ k \in Nat /\ w * k = unit
  BY <1>1, Gap
<1>3. w \in Nat /\ d \in 0..w
  <2> HIDE DEF k
  <2> QED
    BY <1>1, <1>2
<1>4. values[i] \in Int /\ values[i + 1] \in Int /\ values[i] <= values[i + 1]
  BY <1>2 DEF Nondecreasing
<1>5. v = w * k * values[i] + d * (values[i + 1] - values[i]) * k
  BY <1>2 DEF OnSegment
<1> HIDE DEF w, k, d
<1> QED
  BY <1>2, <1>3, <1>4, <1>5, Line

LEMMA SegmentsGrow ==
    ASSUME NEW anchors, NEW unit, Calibrated(anchors, unit),
           NEW values, Nondecreasing(values, Len(anchors)),
           NEW higher, Nondecreasing(higher, Len(anchors)),
           \A i \in 1..Len(anchors) : values[i] <= higher[i],
           NEW x \in Int, NEW y \in Int, x <= y, NEW i, NEW j, NEW v, NEW u,
           OnSegment(x, anchors, values, unit, i, v), OnSegment(y, anchors, higher, unit, j, u)
    PROVE  v <= u
<1>0. /\ i \in 1..(Len(anchors) - 1) /\ anchors[i] <= x /\ x < anchors[i + 1]
      /\ j \in 1..(Len(anchors) - 1) /\ anchors[j] <= y /\ y < anchors[j + 1]
  BY DEF OnSegment
<1>1. /\ i \in 1..Len(anchors) /\ i + 1 \in 1..Len(anchors) /\ i < i + 1
      /\ j \in 1..Len(anchors) /\ j + 1 \in 1..Len(anchors) /\ i \in Int /\ j \in Int
  BY <1>0, Gap
<1>2. /\ anchors[i] \in Nat /\ anchors[i + 1] \in Nat /\ anchors[i] < anchors[i + 1]
      /\ anchors[j] \in Nat /\ anchors[j + 1] \in Nat
  BY <1>0, Gap
<1>3. /\ values[i] \in Int /\ values[i + 1] \in Int /\ values[i] <= values[i + 1]
      /\ higher[i] \in Int /\ higher[i + 1] \in Int /\ higher[i] <= higher[i + 1]
      /\ values[i] <= higher[i] /\ values[i + 1] <= higher[i + 1]
  BY <1>1 DEF Nondecreasing
<1>4. i <= j
  <2>1. j + 1 < i => anchors[j + 1] < anchors[i]
    BY <1>1 DEF Calibrated
  <2>2. j + 1 = i => anchors[j + 1] = anchors[i]
    OBVIOUS
  <2> QED
    BY <1>0, <1>1, <1>2, <2>1, <2>2
<1>5. CASE i = j
  <2> DEFINE w == anchors[i + 1] - anchors[i]
             k == unit \div w
             d == x - anchors[i]
             f == y - anchors[i]
  <2>1. w \in Nat /\ k \in Nat /\ w * k = unit /\ d \in 0..w /\ f \in 0..w /\ d <= f
    <3>1. k \in Nat /\ w * k = unit
      BY <1>0, Gap
    <3>2. w \in Nat /\ d \in 0..w /\ f \in 0..w /\ d <= f
      BY <1>0, <1>2, <1>5
    <3> QED
      BY <3>1, <3>2
  <2>2. /\ v = w * k * values[i] + d * (values[i + 1] - values[i]) * k
        /\ u = w * k * higher[i] + f * (higher[i + 1] - higher[i]) * k
    BY <1>5, <2>1 DEF OnSegment
  <2> HIDE DEF w, k, d, f
  <2> QED
    BY <1>3, <2>1, <2>2, HigherLine
<1>6. CASE i < j
  <2>1. v \in Int /\ v <= unit * values[i + 1]
    BY SegmentBounds
  <2>2. u \in Int /\ unit * higher[j] <= u
    BY SegmentBounds
  <2>3. values[i + 1] \in Int /\ higher[j] \in Int /\ values[i + 1] <= higher[j]
    BY <1>1, <1>3, <1>6 DEF Nondecreasing
  <2>4. unit \in Nat
    BY DEF Calibrated
  <2>5. unit * values[i + 1] <= unit * higher[j]
    BY <2>3, <2>4
  <2>6. unit * values[i + 1] \in Int /\ unit * higher[j] \in Int
    BY <2>3, <2>4
  <2> QED
    BY <2>1, <2>2, <2>5, <2>6
<1> QED
  BY <1>1, <1>4, <1>5, <1>6

\* resident_policy.py, _interp_1d(): a value between the first and the last.
LEMMA Interpolates ==
    ASSUME NEW anchors, NEW unit, Calibrated(anchors, unit), NEW values,
           Nondecreasing(values, Len(anchors)), NEW x \in Int
    PROVE  LET v == Interpolated(x, anchors, values, unit)
           IN  v \in Int /\ unit * values[1] <= v /\ v <= unit * values[Len(anchors)]
<1> DEFINE n == Len(anchors)
           v == Interpolated(x, anchors, values, unit)
<1>1. /\ n \in Nat \ {0} /\ 1 \in 1..n /\ n \in 1..n /\ unit \in Nat
      /\ anchors[1] \in Nat /\ anchors[n] \in Nat
  BY DEF Calibrated
<1>2. /\ values[1] \in Int /\ values[n] \in Int
      /\ \A i \in 1..n : values[i] \in Int /\ values[1] <= values[i] /\ values[i] <= values[n]
  BY <1>1 DEF Nondecreasing
<1>3. \A i \in 1..n : unit * values[1] <= unit * values[i] /\ unit * values[i] <= unit * values[n]
  BY <1>1, <1>2
<1>4. CASE x <= anchors[1]
  <2>1. v = unit * values[1]
    BY <1>4 DEF Interpolated
  <2> QED
    BY <1>1, <1>2, <1>3, <2>1
<1>5. CASE anchors[1] < x /\ x >= anchors[n]
  <2>1. v = unit * values[n]
    BY <1>1, <1>5 DEF Interpolated
  <2> QED
    BY <1>1, <1>2, <1>3, <2>1
<1>6. CASE anchors[1] < x /\ x < anchors[n]
  <2>1. PICK i : OnSegment(x, anchors, values, unit, i, v)
    BY <1>6, Segment
  <2>2. v \in Int /\ unit * values[i] <= v /\ v <= unit * values[i + 1]
    BY <2>1, SegmentBounds
  <2>3. i \in 1..n /\ i + 1 \in 1..n
    BY <1>1, <2>1 DEF OnSegment
  <2>4. /\ unit * values[1] <= unit * values[i] /\ unit * values[i + 1] <= unit * values[n]
        /\ unit * values[1] \in Int /\ unit * values[n] \in Int
        /\ unit * values[i] \in Int /\ unit * values[i + 1] \in Int
    <3>1. unit * values[1] <= unit * values[i] /\ unit * values[i + 1] <= unit * values[n]
      BY <1>3, <2>3
    <3>2. /\ unit \in Int /\ values[1] \in Int /\ values[n] \in Int
          /\ values[i] \in Int /\ values[i + 1] \in Int
      BY <1>1, <1>2, <2>3
    <3>3. \A a, b \in Int : a * b \in Int
      OBVIOUS
    <3> QED
      BY Zenon, <3>1, <3>2, <3>3
  <2> QED
    BY <2>2, <2>4
<1> QED
  BY <1>1, <1>4, <1>5, <1>6

\* _interp_1d(): more x, or higher values, give no less.
LEMMA InterpolationGrows ==
    ASSUME NEW anchors, NEW unit, Calibrated(anchors, unit),
           NEW values, Nondecreasing(values, Len(anchors)),
           NEW higher, Nondecreasing(higher, Len(anchors)),
           \A i \in 1..Len(anchors) : values[i] <= higher[i],
           NEW x \in Int, NEW y \in Int, x <= y
    PROVE  Interpolated(x, anchors, values, unit) <= Interpolated(y, anchors, higher, unit)
<1> DEFINE n == Len(anchors)
           v == Interpolated(x, anchors, values, unit)
           u == Interpolated(y, anchors, higher, unit)
<1>1. /\ n \in Nat \ {0} /\ 1 \in 1..n /\ n \in 1..n /\ unit \in Nat
      /\ anchors[1] \in Nat /\ anchors[n] \in Nat
  BY DEF Calibrated
<1>2. /\ values[1] \in Int /\ values[n] \in Int /\ higher[1] \in Int /\ higher[n] \in Int
      /\ values[1] <= higher[1] /\ values[n] <= higher[n]
  BY <1>1 DEF Nondecreasing
<1>3. /\ unit * values[1] \in Int /\ unit * values[n] \in Int
      /\ unit * higher[1] \in Int /\ unit * higher[n] \in Int
      /\ unit * values[1] <= unit * higher[1] /\ unit * values[n] <= unit * higher[n]
  BY <1>1, <1>2, Scaled
<1>4. /\ v \in Int /\ unit * values[1] <= v /\ v <= unit * values[n]
      /\ u \in Int /\ unit * higher[1] <= u /\ u <= unit * higher[n]
  BY Interpolates
<1>5. CASE x <= anchors[1]
  <2>1. v = unit * values[1]
    BY <1>5 DEF Interpolated
  <2>2. \A a, b, c \in Int : a <= b /\ b <= c => a <= c
    OBVIOUS
  <2> QED
    BY <1>3, <1>4, <2>1, <2>2, Zenon
<1>6. CASE anchors[1] < x /\ y >= anchors[n]
  <2>1. u = unit * higher[n]
    BY <1>1, <1>6 DEF Interpolated
  <2>2. \A a, b, c \in Int : a <= b /\ b <= c => a <= c
    OBVIOUS
  <2> QED
    BY <1>3, <1>4, <2>1, <2>2, Zenon
<1>7. CASE anchors[1] < x /\ y < anchors[n]
  <2>1. x < anchors[n] /\ anchors[1] < y
    BY <1>1, <1>7
  <2>2. PICK i : OnSegment(x, anchors, values, unit, i, v)
    BY <1>7, <2>1, Segment
  <2>3. PICK j : OnSegment(y, anchors, higher, unit, j, u)
    BY <1>7, <2>1, Segment
  <2> QED
    BY <2>2, <2>3, SegmentsGrow
<1> QED
  BY <1>1, <1>5, <1>6, <1>7

-----------------------------------------------------------------------------
(* The policy.                                                             *)

Rounding == RamUnit * RatioUnit

LEMMA RoundingGrows ==
    ASSUME NEW v \in Int, NEW u \in Int, v <= u
    PROVE  /\ RoundHalfEven(v, Rounding) \in Int
           /\ RoundHalfEven(v, Rounding) <= RoundHalfEven(u, Rounding)
  BY DEF RoundHalfEven, Rounding, RamUnit, RatioUnit

Row(ram) == [i \in DOMAIN Grid |-> Interpolated(ram, RamAnchors, Grid[i], RamUnit)]

\* Every row of the grid grows with the RAM, every column with the ratio.
LEMMA GridGrows ==
    /\ DOMAIN Grid = 1..6 /\ Len(RatioAnchors) = 6 /\ Len(RamAnchors) = 5
    /\ \A i \in 1..6 : Nondecreasing(Grid[i], 5)
    /\ \A i, j \in 1..6 : i <= j => \A k \in 1..5 : Grid[i][k] <= Grid[j][k]
<1>1. DOMAIN Grid = 1..6 /\ Len(RatioAnchors) = 6 /\ Len(RamAnchors) = 5
  BY DEF Grid, RatioAnchors, RamAnchors
<1>2. \A i \in 1..6 : Nondecreasing(Grid[i], 5)
  BY DEF Grid, Nondecreasing
<1>3. \A i, j \in 1..6 : i <= j => \A k \in 1..5 : Grid[i][k] <= Grid[j][k]
  BY DEF Grid
<1> QED
  BY <1>1, <1>2, <1>3

LEMMA RowGrows ==
    ASSUME NEW ram \in Int, NEW more \in Int, ram <= more
    PROVE  Nondecreasing(Row(ram), 6) /\ \A i \in 1..6 : Row(ram)[i] <= Row(more)[i]
<1>1. /\ Calibrated(RamAnchors, RamUnit) /\ Len(RamAnchors) = 5
      /\ \A i \in 1..6 : Nondecreasing(Grid[i], 5)
      /\ \A i, j \in 1..6 : i <= j => \A k \in 1..5 : Grid[i][k] <= Grid[j][k]
  BY RamCalibrated, GridGrows
<1>2. \A r \in Int : \A i \in 1..6 : Row(r)[i] = Interpolated(r, RamAnchors, Grid[i], RamUnit)
  BY GridGrows DEF Row
<1>3. \A i \in 1..6 : Row(ram)[i] \in Int
  <2> TAKE i \in 1..6
  <2>1. Nondecreasing(Grid[i], 5)
    BY <1>1
  <2>2. Interpolated(ram, RamAnchors, Grid[i], RamUnit) \in Int
    BY <1>1, <2>1, Interpolates
  <2> QED
    BY <1>2, <2>2
<1>4. ASSUME NEW i \in 1..6, NEW j \in 1..6, i <= j, NEW r \in Int, ram <= r
      PROVE  Row(ram)[i] <= Row(r)[j]
  <2>1. \A k \in 1..5 : Grid[i][k] <= Grid[j][k]
    BY <1>1, <1>4
  <2>2. Nondecreasing(Grid[i], 5) /\ Nondecreasing(Grid[j], 5)
    BY <1>1
  <2>3. Interpolated(ram, RamAnchors, Grid[i], RamUnit) <= Interpolated(r, RamAnchors, Grid[j], RamUnit)
    BY <1>1, <1>4, <2>1, <2>2, InterpolationGrows
  <2> QED
    BY <1>2, <2>3
<1>5. \A i, j \in 1..6 : i <= j => Row(ram)[i] <= Row(ram)[j]
  BY <1>4
<1>6. \A i \in 1..6 : Row(ram)[i] <= Row(more)[i]
  BY <1>4
<1> QED
  BY <1>3, <1>5, <1>6 DEF Nondecreasing

\* resident_policy.py, "More RAM never produces worse decisions": the target
\* grows with the RAM and with the ratio.
LEMMA TargetGrows ==
    ASSUME NEW x \in Int, NEW y \in Int, x <= y,
           NEW ram \in Int, NEW more \in Int, ram <= more
    PROVE  PolicyTarget(x, ram) \in Int /\ PolicyTarget(x, ram) <= PolicyTarget(y, more)
<1>1. Calibrated(RatioAnchors, RatioUnit) /\ Len(RatioAnchors) = 6
  BY RatioCalibrated, GridGrows
<1>2. Nondecreasing(Row(ram), 6) /\ \A i \in 1..6 : Row(ram)[i] <= Row(more)[i]
  BY RowGrows
<1>3. Nondecreasing(Row(more), 6)
  BY RowGrows
<1> DEFINE v == Interpolated(x, RatioAnchors, Row(ram), RatioUnit)
           u == Interpolated(y, RatioAnchors, Row(more), RatioUnit)
<1>4. v \in Int
  BY <1>1, <1>2, Interpolates
<1>5. u \in Int
  BY <1>1, <1>3, Interpolates
<1>6. v <= u
  BY <1>1, <1>2, <1>3, InterpolationGrows
<1>7. PolicyTarget(x, ram) = RoundHalfEven(v, Rounding)
  BY DEF PolicyTarget, Rounding, Row
<1>8. PolicyTarget(y, more) = RoundHalfEven(u, Rounding)
  BY DEF PolicyTarget, Rounding, Row
<1> HIDE DEF v, u
<1> QED
  BY <1>4, <1>5, <1>6, <1>7, <1>8, RoundingGrows

LEMMA LimitGrows ==
    ASSUME NEW ram \in Int, NEW more \in Int, ram <= more
    PROVE  /\ MemoryLimit(ram, ReferenceLayer) \in Int
           /\ MemoryLimit(ram, ReferenceLayer) <= MemoryLimit(more, ReferenceLayer)
  BY DEF MemoryLimit, ReferenceLayer, Most

\* estimate_optimal_resident_count(): at least two layers, and 28 at most.
LEMMA CountGrows ==
    ASSUME NEW x \in Int, NEW y \in Int, x <= y,
           NEW ram \in Int, NEW more \in Int, ram <= more
    PROVE  /\ PolicyCount(x, ram, ReferenceLayer) \in MinResident..MaxResident
           /\ PolicyCount(x, ram, ReferenceLayer) <= PolicyCount(y, more, ReferenceLayer)
<1>1. /\ PolicyTarget(x, ram) \in Int /\ PolicyTarget(y, more) \in Int
      /\ PolicyTarget(x, ram) <= PolicyTarget(y, more)
  <2>1. y <= y /\ more <= more
    OBVIOUS
  <2> QED
    BY <2>1, TargetGrows
<1>2. /\ MemoryLimit(ram, ReferenceLayer) \in Int /\ MemoryLimit(more, ReferenceLayer) \in Int
      /\ MemoryLimit(ram, ReferenceLayer) <= MemoryLimit(more, ReferenceLayer)
  BY LimitGrows
<1> QED
  BY <1>1, <1>2 DEF PolicyCount, Least, Most, MinResident, MaxResident

-----------------------------------------------------------------------------
(* The plan.                                                               *)

IsMachine(m) == m.total \in Nat \ {0} /\ m.free \in Nat
IsModel(model) == model.layer \in Nat /\ model.layers \in Nat

LEMMA UsableGrows ==
    ASSUME NEW m, NEW n, IsMachine(m), IsMachine(n), n.free <= m.free, n.total <= m.total
    PROVE  /\ MemoryBudget(n) \in Int /\ MemoryBudget(m) \in Int /\ MemoryBudget(n) <= MemoryBudget(m)
           /\ Usable(n) \in Nat /\ Usable(m) \in Nat /\ Usable(n) <= Usable(m)
  BY DEF IsMachine, MemoryBudget, Usable, Least, Most, OsReserve, WorkingReserve

\* plan_residency(): what is kept resident is of the model, and fits.
LEMMA ResidentsFit ==
    ASSUME NEW m, IsMachine(m), NEW model, IsModel(model), NEW x \in Int
    PROVE  /\ Residents(m, model, x) \in 0..model.layers
           /\ Residents(m, model, x) * model.layer <= Usable(m)
<1> DEFINE fit == Usable(m) \div model.layer
           count == PolicyCount(Most(10, x), MemoryBudget(m), ReferenceLayer)
<1>1. MemoryBudget(m) \in Int /\ Usable(m) \in Nat /\ model.layer \in Nat /\ model.layers \in Nat
  <2>1. m.free <= m.free /\ m.total <= m.total
    BY DEF IsMachine
  <2> QED
    BY <2>1, UsableGrows DEF IsModel
<1>2. CASE model.layer <= 0 \/ model.layers <= 0
  <2>1. Residents(m, model, x) = 0
    BY <1>2 DEF Residents
  <2> QED
    BY <1>1, <2>1
<1>3. CASE model.layer > 0 /\ model.layers > 0 /\ model.layer * model.layers <= Usable(m)
  <2>1. Residents(m, model, x) = model.layers
    BY <1>1, <1>3 DEF Residents
  <2>2. model.layers * model.layer = model.layer * model.layers
    BY <1>1
  <2> QED
    BY <1>1, <1>3, <2>1, <2>2
<1>4. CASE model.layer > 0 /\ model.layers > 0 /\ ~(model.layer * model.layers <= Usable(m))
  <2>1. Residents(m, model, x) = Most(0, Least(Least(model.layers, fit), count))
    BY <1>1, <1>4 DEF Residents
  <2>2. fit \in Nat /\ model.layer * fit <= Usable(m)
    BY <1>1, <1>4, Division
  <2>3. count \in MinResident..MaxResident
    <3>1. Most(10, x) \in Int
      BY LeastMost
    <3>2. \A a \in Int : a <= a
      OBVIOUS
    <3> QED
      BY <1>1, <3>1, <3>2, CountGrows
  <2> HIDE DEF fit, count
  <2>4. Residents(m, model, x) \in Nat /\ Residents(m, model, x) <= fit
        /\ Residents(m, model, x) <= model.layers
    BY <1>1, <2>1, <2>2, <2>3 DEF Least, Most, MinResident, MaxResident
  <2> HIDE DEF Residents
  <2>5. Residents(m, model, x) * model.layer <= fit * model.layer
    BY <1>1, <2>2, <2>4, Product
  <2>6. Residents(m, model, x) * model.layer \in Int /\ fit * model.layer = model.layer * fit
    BY <1>1, <2>2, <2>4
  <2> QED
    BY <1>1, <2>2, <2>4, <2>5, <2>6
<1> QED
  BY <1>1, <1>2, <1>3, <1>4

\* plan_residency(): neither more memory nor a higher ratio keeps fewer layers.
LEMMA ResidentsGrow ==
    ASSUME NEW m, NEW n, IsMachine(m), IsMachine(n), n.free <= m.free, n.total <= m.total,
           NEW model, IsModel(model), NEW x \in Int, NEW y \in Int, x <= y
    PROVE  Residents(n, model, x) <= Residents(m, model, y)
<1> DEFINE size == model.layer * model.layers
           fits(k) == Usable(k) \div model.layer
           count(k, z) == PolicyCount(Most(10, z), MemoryBudget(k), ReferenceLayer)
<1>1. /\ MemoryBudget(n) \in Int /\ MemoryBudget(m) \in Int /\ MemoryBudget(n) <= MemoryBudget(m)
      /\ Usable(n) \in Nat /\ Usable(m) \in Nat /\ Usable(n) <= Usable(m)
      /\ model.layer \in Nat /\ model.layers \in Nat /\ size \in Nat
  BY UsableGrows DEF IsModel
<1>2. /\ Residents(n, model, x) \in 0..model.layers
      /\ Residents(m, model, y) \in 0..model.layers
  BY ResidentsFit
<1>3. CASE model.layer <= 0 \/ model.layers <= 0
  BY <1>3 DEF Residents
<1>4. CASE model.layer > 0 /\ model.layers > 0 /\ size <= Usable(m)
  <2>1. Residents(m, model, y) = model.layers
    BY <1>1, <1>4 DEF Residents
  <2> QED
    BY <1>1, <1>2, <2>1
<1>5. CASE model.layer > 0 /\ model.layers > 0 /\ ~(size <= Usable(m))
  <2>1. ~(size <= Usable(n))
    BY <1>1, <1>5
  <2>2. /\ Residents(n, model, x) = Most(0, Least(Least(model.layers, fits(n)), count(n, x)))
        /\ Residents(m, model, y) = Most(0, Least(Least(model.layers, fits(m)), count(m, y)))
    BY <1>1, <1>5, <2>1 DEF Residents
  <2>3. fits(n) \in Int /\ fits(m) \in Int /\ fits(n) <= fits(m)
    BY <1>1, <1>5, DivisionGrows, Division
  <2>4. count(n, x) \in Int /\ count(m, y) \in Int /\ count(n, x) <= count(m, y)
    <3>1. Most(10, x) \in Int /\ Most(10, y) \in Int /\ Most(10, x) <= Most(10, y)
      BY DEF Most
    <3>2. /\ count(n, x) \in MinResident..MaxResident /\ count(m, y) \in MinResident..MaxResident
          /\ count(n, x) <= count(m, y)
      <4> DEFINE xx == Most(10, x)
                 yy == Most(10, y)
                 nn == MemoryBudget(n)
                 mm == MemoryBudget(m)
      <4>1. xx \in Int /\ yy \in Int /\ xx <= yy /\ nn \in Int /\ mm \in Int /\ nn <= mm
        BY <1>1, <3>1
      <4> HIDE DEF xx, yy, nn, mm
      <4>2. yy <= yy /\ mm <= mm
        BY <4>1
      <4>3. /\ PolicyCount(xx, nn, ReferenceLayer) \in MinResident..MaxResident
            /\ PolicyCount(yy, mm, ReferenceLayer) \in MinResident..MaxResident
            /\ PolicyCount(xx, nn, ReferenceLayer) <= PolicyCount(yy, mm, ReferenceLayer)
        BY <4>1, <4>2, CountGrows
      <4> QED
        BY <4>3 DEF xx, yy, nn, mm
    <3> HIDE DEF count
    <3> QED
      BY <3>2 DEF MinResident, MaxResident
  <2> HIDE DEF fits, count
  <2> QED
    BY <1>1, <2>2, <2>3, <2>4 DEF Least, Most
<1> QED
  BY <1>1, <1>3, <1>4, <1>5

-----------------------------------------------------------------------------
(* Runs.                                                                   *)

\* swlp_setup.py: while a run is under way the plan in force is the one that
\* the memory it found and the ratio still kept give.
PlanInv ==
    /\ ratio \in Int /\ bandwidth \in Nat
    /\ launch.state \in {"idle", "refused", "running", "mlx"}
    /\ launch.state = "running" =>
           /\ IsMachine(launch.machine) /\ launch.machine.bandwidth \in Nat
           /\ launch.model \in Models
           /\ launch.decision.resident \in 0..launch.model.layers
           /\ launch.decision.streaming = launch.model.layers - launch.decision.resident
           /\ launch.auto =>
                  launch.decision.resident =
                      Residents(launch.machine, launch.model,
                                PipelineRatio(launch.machine, launch.model))

LEMMA Estimates ==
    ASSUME NEW layer \in Nat, NEW gbps \in Nat PROVE EstimatedRatio(layer, gbps) \in Int
<1>1. CASE layer <= 0 \/ gbps <= 0
  BY <1>1 DEF EstimatedRatio
<1>2. CASE ~(layer <= 0 \/ gbps <= 0)
  <2>1. layer * 10000 \in Int /\ gbps * 1024 \in Nat \ {0}
    BY <1>2
  <2>2. (layer * 10000) \div (gbps * 1024) \in Int
    BY <2>1, Division
  <2>3. (layer * 10000) \div (gbps * 1024) + 52 \in Int
    BY <2>2
  <2> QED
    BY <1>2, <2>3, LeastMost DEF EstimatedRatio
<1> QED
  BY <1>1, <1>2

LEMMA RatioIsNumber ==
    ASSUME ratio \in Int, NEW m, m.bandwidth \in Nat, NEW model \in Models
    PROVE  PipelineRatio(m, model) \in Int
<1>1. model.layer \in Nat
  BY PlannerAssumption
<1> QED
  BY <1>1, Estimates DEF PipelineRatio

\* _update_measured_pipeline_ratio(): the smoothed ratio keeps the bounds.
LEMMA SmoothedBounded ==
    ASSUME NEW old \in Int, old = 0 \/ (10 <= old /\ old <= 2000), NEW measured \in Int
    PROVE  /\ Smoothed(old, measured) \in Int
           /\ 10 <= Smoothed(old, measured) /\ Smoothed(old, measured) <= 2000
<1>1. Most(10, Least(2000, measured)) \in 10..2000
  BY DEF Least, Most
<1>2. PICK b \in 10..2000 : Most(10, Least(2000, measured)) = b
  BY <1>1
<1>3. CASE old = 0
  <2>1. Smoothed(old, measured) = b
    BY <1>2, <1>3 DEF Smoothed
  <2> QED
    BY <2>1
<1>4. CASE 10 <= old /\ old <= 2000
  <2>1. old # 0 /\ old \in Int /\ 10 <= old /\ old <= 2000 /\ b \in Int /\ 10 <= b /\ b <= 2000
    BY <1>4
  <2>2. Smoothed(old, measured) = (65 * old + 35 * b) \div 100
    BY <1>2, <2>1 DEF Smoothed
  <2>3. (65 * old + 35 * b) \div 100 \in 10..2000
    BY <2>1
  <2> QED
    BY <2>2, <2>3
<1> QED
  BY <1>3, <1>4

LEMMA MetricsNumber ==
    ASSUME NEW m \in Measurements PROVE RatioFromMetrics(m) \in Int
<1>1. m.read \in Int /\ m.deserialize \in Int /\ m.upload \in Int /\ m.compute \in Int
  BY PlannerAssumption
<1> DEFINE cost == 100 * (Most(0, m.read) + Most(0, m.deserialize) + Most(0, m.upload))
<1>2. cost \in Int
  BY <1>1 DEF Most
<1> HIDE DEF cost
<1>3. m.compute > 0 => cost \div m.compute \in Int
  BY <1>1, <1>2, Division
<1>4. m.compute > 0 => Most(10, cost \div m.compute) \in Int
  BY <1>3, LeastMost
<1> QED
  BY <1>1, <1>4 DEF RatioFromMetrics, cost

LEMMA Decided ==
    ASSUME NEW n, NEW model, NEW s
    PROVE  LET d == Decision(n, model, s)
           IN  /\ d.resident = IF s.residency = AutoSetting THEN Residents(n, model, PipelineRatio(n, model))
                               ELSE Most(0, Least(s.residency, model.layers))
               /\ d.streaming = model.layers - d.resident
  BY DEF Decision

LEMMA Started ==
    ASSUME ratio \in Int, bandwidth \in Nat, NEW m \in Machines, NEW model \in Models,
           NEW s \in Settings
    PROVE  LET d == Decision(Detected(m), model, s)
           IN  /\ IsMachine(Detected(m)) /\ Detected(m).bandwidth \in Nat
               /\ d.resident \in 0..model.layers /\ d.streaming = model.layers - d.resident
               /\ s.residency = AutoSetting =>
                      d.resident = Residents(Detected(m), model, PipelineRatio(Detected(m), model))
<1> DEFINE n == Detected(m)
           d == Decision(n, model, s)
           x == PipelineRatio(n, model)
<1>1. IsMachine(n) /\ n.bandwidth \in Nat
  <2>1. m \in [total : Nat \ {0}, free : Nat, bandwidth : Nat, active : Nat,
               workingSet : Nat, unified : BOOLEAN]
    BY PlannerAssumption
  <2> QED
    BY <2>1 DEF Detected, IsMachine
<1>2. IsModel(model) /\ model.layers \in Nat
  BY PlannerAssumption DEF IsModel
<1>3. s.residency \in Int
  BY PlannerAssumption
<1>4. x \in Int
  BY <1>1, RatioIsNumber
<1>5. Residents(n, model, x) \in 0..model.layers
  BY <1>1, <1>2, <1>4, ResidentsFit
<1>6. /\ d.resident = IF s.residency = AutoSetting THEN Residents(n, model, x)
                      ELSE Most(0, Least(s.residency, model.layers))
      /\ d.streaming = model.layers - d.resident
  BY Decided
<1>7. Most(0, Least(s.residency, model.layers)) \in 0..model.layers
  BY <1>2, <1>3 DEF Most, Least
<1> HIDE DEF n, d, x
<1>8. d.resident \in 0..model.layers
  BY <1>5, <1>6, <1>7
<1> QED
  BY <1>1, <1>6, <1>8 DEF n, d, x

LEMMA PlanInvInit == PlannerInit => PlanInv
  BY DEF PlannerInit, PlanInv, Idle

LEMMA FinishBounded ==
    ASSUME NEW measured \in Measurements, Finish(measured), ratio \in Int, RatioBounded
    PROVE  ratio' \in 10..2000
<1>1. ratio = 0 \/ (10 <= ratio /\ ratio <= 2000)
  BY DEF RatioBounded
<1>2. RatioFromMetrics(measured) \in Int
  BY MetricsNumber
<1>3. ratio' = Smoothed(ratio, RatioFromMetrics(measured))
  BY DEF Finish
<1> DEFINE m == RatioFromMetrics(measured)
<1> HIDE DEF m
<1>4. /\ Smoothed(ratio, m) \in Int
      /\ 10 <= Smoothed(ratio, m) /\ Smoothed(ratio, m) <= 2000
  <2>1. m \in Int
    BY <1>2 DEF m
  <2> QED
    BY <1>1, <2>1, SmoothedBounded
<1> QED
  BY <1>3, <1>4 DEF m

LEMMA PlanInvStep == ASSUME PlanInv, RatioBounded, [PlannerNext]_planVars PROVE PlanInv'
<1>1. ASSUME NEW gbps \in {20, 65}, SaveMeasuredBandwidth(gbps) PROVE PlanInv'
  BY <1>1 DEF SaveMeasuredBandwidth, PlanInv
<1>2. ASSUME NEW m \in Machines, NEW s \in Settings, NEW model \in Models, Refuse(m, model, s)
      PROVE PlanInv'
  BY <1>2 DEF Refuse, PlanInv
<1>3. ASSUME NEW m \in Machines, NEW s \in Settings, NEW model \in Models, Start(m, model, s)
      PROVE PlanInv'
  <2> DEFINE n == Detected(m)
             d == Decision(n, model, s)
  <2>1. /\ IsMachine(n) /\ n.bandwidth \in Nat
        /\ d.resident \in 0..model.layers /\ d.streaming = model.layers - d.resident
        /\ s.residency = AutoSetting => d.resident = Residents(n, model, PipelineRatio(n, model))
    BY Started DEF PlanInv
  <2>2. /\ launch'.state = "running" /\ launch'.machine = n /\ launch'.model = model
        /\ launch'.decision = d /\ launch'.auto = (s.residency = AutoSetting)
        /\ ratio' = ratio /\ bandwidth' = bandwidth
    BY <1>3 DEF Start
  <2> HIDE DEF n, d
  <2> QED
    BY <2>1, <2>2 DEF PlanInv, PipelineRatio
<1>4. ASSUME NEW m \in Machines, NEW s \in Settings, StartMlx(m, s) PROVE PlanInv'
  BY <1>4 DEF StartMlx, PlanInv
<1>5. ASSUME NEW measured \in Measurements, Finish(measured) PROVE PlanInv'
  <2>1. ratio' \in 10..2000
    BY <1>5, FinishBounded DEF PlanInv
  <2> QED
    <3>1. launch' = Idle /\ bandwidth' = bandwidth
      BY <1>5 DEF Finish
    <3>2. ratio' \in Int /\ launch'.state = "idle"
      BY <2>1, <3>1 DEF Idle
    <3> QED
      BY <3>1, <3>2 DEF PlanInv
<1>6. CASE EndOther
  BY <1>6 DEF EndOther, PlanInv, Idle
<1>7. CASE UNCHANGED planVars
  BY <1>7 DEF planVars, PlanInv, PipelineRatio
<1> QED
  BY <1>1, <1>2, <1>3, <1>4, <1>5, <1>6, <1>7 DEF PlannerNext

-----------------------------------------------------------------------------
(* What holds of every run.                                                *)

\* _update_measured_pipeline_ratio(): whatever runs measure, and however they
\* fail, the ratio kept for the next plan stays between 0.1 and 20.
THEOREM RatioStaysBounded == PlannerSpec => [](PlanInv /\ RatioBounded)
<1>1. PlannerInit => PlanInv /\ RatioBounded
  BY PlanInvInit DEF PlannerInit, RatioBounded
<1>2. PlanInv /\ RatioBounded /\ [PlannerNext]_planVars => (PlanInv /\ RatioBounded)'
  <2> SUFFICES ASSUME PlanInv, RatioBounded, [PlannerNext]_planVars PROVE RatioBounded'
    BY PlanInvStep
  <2>1. ASSUME NEW measured \in Measurements, Finish(measured) PROVE RatioBounded'
    <3>1. ratio' \in 10..2000
      BY <2>1, FinishBounded DEF PlanInv
    <3> QED
      BY <3>1 DEF RatioBounded
  <2>2. CASE UNCHANGED ratio
    BY <2>2 DEF RatioBounded
  <2> QED
    BY <2>1, <2>2
       DEF PlannerNext, planVars, SaveMeasuredBandwidth, Refuse, Start, StartMlx, EndOther
<1> QED
  BY <1>1, <1>2, PTL DEF PlannerSpec

\* plan_residency(): every layer is either resident or streamed, and what is
\* resident fits the memory left after the reserves.
THEOREM PlansFit == PlannerSpec => []PlanFits
<1>1. PlanInv => PlanFits
  <2> SUFFICES ASSUME PlanInv, launch.state = "running" PROVE PlanFits
    BY DEF PlanFits
  <2> DEFINE m == launch.machine
             model == launch.model
             d == launch.decision
             x == PipelineRatio(m, model)
  <2>1. /\ ratio \in Int /\ IsMachine(m) /\ m.bandwidth \in Nat /\ model \in Models
        /\ d.resident \in 0..model.layers /\ d.streaming = model.layers - d.resident
        /\ launch.auto => d.resident = Residents(m, model, x)
    BY DEF PlanInv
  <2>2. IsModel(model) /\ model.layers \in Nat
    BY <2>1, PlannerAssumption DEF IsModel
  <2>3. x \in Int
    BY <2>1, RatioIsNumber
  <2>4. Residents(m, model, x) * model.layer <= Usable(m)
    BY <2>1, <2>2, <2>3, ResidentsFit
  <2>5. d.resident + d.streaming = model.layers /\ d.resident >= 0 /\ d.streaming >= 0
    BY <2>1, <2>2
  <2>6. launch.auto => d.resident * model.layer <= Usable(m)
    BY <2>1, <2>4
  <2> QED
    BY <2>5, <2>6 DEF PlanFits
<1> QED
  BY <1>1, RatioStaysBounded, PTL

\* resident_policy.py, "More RAM never produces worse decisions": whatever ratio
\* earlier runs left, less memory would not have kept more layers resident than
\* the plan in force does, nor slower reads fewer.
THEOREM PlansMonotone == PlannerSpec => []PlanMonotone
<1>1. PlanInv => PlanMonotone
  <2> SUFFICES ASSUME PlanInv, launch.state = "running", launch.auto PROVE PlanMonotone
    BY DEF PlanMonotone
  <2> DEFINE m == launch.machine
             model == launch.model
             x == PipelineRatio(m, model)
  <2>1. /\ ratio \in Int /\ IsMachine(m) /\ m.bandwidth \in Nat /\ model \in Models
        /\ launch.decision.resident = Residents(m, model, x)
    BY DEF PlanInv
  <2>2. IsModel(model)
    BY <2>1, PlannerAssumption DEF IsModel
  <2>3. x \in Int /\ x + 150 \in Int /\ x <= x /\ x <= x + 150
    <3>1. x \in Int
      BY <2>1, RatioIsNumber
    <3> HIDE DEF x
    <3> QED
      BY <3>1
  <2>4. ASSUME NEW n \in Machines, n.free <= m.free, n.total <= m.total
        PROVE  Residents(n, model, x) <= Residents(m, model, x)
    <3>1. IsMachine(n)
      BY PlannerAssumption DEF IsMachine
    <3> QED
      BY <2>1, <2>2, <2>3, <2>4, <3>1, ResidentsGrow
  <2>5. Residents(m, model, x) <= Residents(m, model, x + 150)
    <3>1. m.free <= m.free /\ m.total <= m.total
      BY <2>1 DEF IsMachine
    <3> QED
      BY <2>1, <2>2, <2>3, <3>1, ResidentsGrow
  <2> QED
    BY <2>1, <2>4, <2>5 DEF PlanMonotone
<1> QED
  BY <1>1, RatioStaysBounded, PTL

\* mlx_tune.py and _budget_bytes(): what MLX is given never exceeds what Metal
\* holds, nor does the tuner wire all of the RAM.
THEOREM GpuBudgetsHold == PlannerSpec => []GpuBudgets
<1>1. PlannerInit => GpuBudgets
  BY DEF PlannerInit, Idle, GpuBudgets
<1>2. GpuBudgets /\ [PlannerNext]_planVars => GpuBudgets'
  <2> SUFFICES ASSUME GpuBudgets, [PlannerNext]_planVars PROVE GpuBudgets'
    OBVIOUS
  <2>1. ASSUME NEW m \in Machines, NEW s \in Settings, StartMlx(m, s) PROVE GpuBudgets'
    <3>1. /\ m.total \in Nat \ {0} /\ m.free \in Nat /\ m.active \in Nat /\ m.workingSet \in Nat
          /\ s.expertCache \in Int /\ s.wired \in Int
      BY PlannerAssumption
    <3>2. ExpertBudget(m, s) = 0 \/ ExpertBudget(m, s) + m.active <= m.workingSet
      BY <3>1 DEF ExpertBudget, Least, Most
    <3>3. m.workingSet > 0 => WiredLimit(m, s) <= m.workingSet
      BY <3>1 DEF WiredLimit, RecommendedWired, Least, Most, AutoSetting
    <3>4. s.wired = AutoSetting => WiredLimit(m, s) < m.total
      <4>1. RecommendedWired(m) \in Int /\ RecommendedWired(m) < m.total
        BY <3>1 DEF RecommendedWired, Least, Most
      <4>2. s.wired = AutoSetting =>
                WiredLimit(m, s) = IF m.workingSet > 0 THEN Least(RecommendedWired(m), m.workingSet)
                                   ELSE RecommendedWired(m)
        BY DEF WiredLimit, AutoSetting
      <4> QED
        BY <3>1, <4>1, <4>2 DEF Least
    <3>5. /\ launch'.machine = m /\ launch'.experts = ExpertBudget(m, s)
          /\ launch'.wired = WiredLimit(m, s) /\ launch'.auto = (s.wired = AutoSetting)
      BY <2>1 DEF StartMlx
    <3> QED
      BY <3>2, <3>3, <3>4, <3>5 DEF GpuBudgets
  <2>2. CASE launch' = launch
    BY <2>2 DEF GpuBudgets
  <2>3. CASE launch'.state # "mlx"
    BY <2>3 DEF GpuBudgets
  <2> QED
    BY <2>1, <2>2, <2>3
       DEF PlannerNext, planVars, SaveMeasuredBandwidth, Refuse, Start, Finish, EndOther, Idle
<1> QED
  BY <1>1, <1>2, PTL DEF PlannerSpec

\* What is planned fits and stays monotone over any sequence of runs.
THEOREM PlansSound == PlannerSpec => []PlanSound
  BY RatioStaysBounded, PlansFit, PlansMonotone, GpuBudgetsHold, PTL DEF PlanSound

-----------------------------------------------------------------------------
(* The catalogue.                                                          *)

Amounts == {"none", "config", "whole"}

CatalogueTypeOK ==
    /\ shards \in [Dirs -> [Files -> Repos \cup {None}]]
    /\ hub \in [Repos -> Amounts] /\ own \in [Repos -> Amounts]
    /\ copies \in [Repos \X Quants -> SUBSET Parts]
    /\ pulled \subseteq Names /\ writers \in [Dirs -> SUBSET Repos]

\* A directory holds files of the models that were pulled into it.
Owned == \A d \in Dirs : \A f \in Files : shards[d][f] \in {None} \cup writers[d]

\* What a finished pull left is there.
Found(n) ==
    \/ \E d \in Range(DirsOf[n]) : Has(d, Manifest)
    \/ ModelOf[n] \in Quantized /\ hub[ModelOf[n]] # "none"

ModelFor(by) == IF by = None THEN DefaultModel ELSE ModelOf[by]
DirFor(by, d) == d \in Dirs /\ (by # None => d \in Range(DirsOf[by]))

DownloadOK(o) ==
    /\ o.model = ModelFor(o.by)
    /\ IF o.dir = None THEN o.by # None /\ o.model \in Quantized ELSE DirFor(o.by, o.dir)

WriteOK(o) ==
    /\ o.model = ModelFor(o.by) /\ DirFor(o.by, o.dir)
    /\ o.left \in Seq(Files) /\ Len(o.left) > 0 /\ o.left[Len(o.left)] = Manifest

LoadOK(o) ==
    /\ o.by # None /\ Alone(o.by) => o.target.model = ModelOf[o.by]
    /\ o.target.dir # None => DirFor(o.by, o.target.dir)

RunningOK(o) == o.by # None /\ Alone(o.by) => o.contents = {ModelOf[o.by]}

OpOK(o) ==
    /\ o.kind \in {"idle", "download", "write", "load", "convert", "rm", "running"}
    /\ o.kind # "idle" => o.by \in Names \cup {None}
    /\ o.kind = "download" => DownloadOK(o)
    /\ o.kind = "write" => WriteOK(o)
    /\ o.kind \in {"load", "convert"} => LoadOK(o)
    /\ o.kind = "running" => RunningOK(o)

\* What is left of a model is on the list of its removal.
Listed(o) ==
    /\ o.by \in Names
    /\ o.items.dirs \subseteq Range(DirsOf[o.by])
    /\ \A d \in Range(DirsOf[o.by]) : Has(d, Manifest) => d \in o.items.dirs
    /\ hub[ModelOf[o.by]] # "none" => o.items.hub
    /\ own[ModelOf[o.by]] # "none" => o.items.own
    /\ \A q \in Quants : copies[<<ModelOf[o.by], q>>] # {} => <<ModelOf[o.by], q>> \in o.items.copies
    /\ \A n \in pulled : ModelOf[n] # ModelOf[o.by] /\ Range(DirsOf[n]) \cap o.items.dirs = {}

CatalogueInv ==
    /\ CatalogueTypeOK
    /\ Owned
    /\ \A n \in pulled : Found(n)
    /\ OpOK(op)
    /\ op.kind = "rm" => Listed(op)

-----------------------------------------------------------------------------

LEMMA CatalogueConstants ==
    /\ DefaultModel \in Repos /\ Moe \subseteq Repos /\ Mtp \subseteq Repos /\ Quantized \subseteq Repos
    /\ \A n \in Names : ModelOf[n] \in Repos
    /\ \A n \in Names : DirsOf[n] \in Seq(Dirs) /\ Len(DirsOf[n]) > 0
    /\ \A n \in Names : Range(DirsOf[n]) \subseteq Dirs /\ Head(DirsOf[n]) \in Range(DirsOf[n])
    /\ LibraryDirs \subseteq Dirs
    /\ NumLayers \in Nat /\ NumLayers > 0
    /\ None \notin Repos /\ None \notin Dirs /\ None \notin Names
<1>1. ASSUME NEW n \in Names
      PROVE  /\ DirsOf[n] \in Seq(Dirs) /\ Len(DirsOf[n]) > 0
             /\ Range(DirsOf[n]) \subseteq Dirs /\ Head(DirsOf[n]) \in Range(DirsOf[n])
  <2>1. DirsOf[n] \in Seq(Dirs) /\ DirsOf[n] # <<>>
    BY CatalogueAssumption
  <2>2. Len(DirsOf[n]) > 0 /\ 1 \in 1..Len(DirsOf[n]) /\ Head(DirsOf[n]) = DirsOf[n][1]
    BY <2>1
  <2> QED
    BY <2>1, <2>2 DEF Range
<1>2. {Moe, Mtp, Quantized} \subseteq SUBSET Repos => Moe \subseteq Repos /\ Mtp \subseteq Repos /\ Quantized \subseteq Repos
  OBVIOUS
<1> QED
  BY <1>1, <1>2, CatalogueAssumption

LEMMA FilesOK ==
    /\ Heads \in Files /\ MtpFile \in Files /\ IndexFile \in Files /\ Manifest \in Files
    /\ \A i \in Layers : <<"layer", i>> \in Files /\ <<"bank", i>> \in Files
    /\ 1 \in Layers /\ Manifest # IndexFile
BY CatalogueConstants DEF Heads, MtpFile, IndexFile, Manifest, Files, Layers

\* The manifest is the last file of a pull.
LEMMA PullOrderOK ==
    ASSUME NEW r
    PROVE  PullOrder(r) \in Seq(Files) /\ Len(PullOrder(r)) > 0 /\ PullOrder(r)[Len(PullOrder(r))] = Manifest
<1> DEFINE layers == IF r \in Moe
                     THEN [k \in 1..(2 * NumLayers) |-> <<IF k % 2 = 1 THEN "bank" ELSE "layer", (k + 1) \div 2>>]
                     ELSE [i \in Layers |-> <<"layer", i>>]
           b == IF r \in Mtp THEN <<MtpFile>> ELSE <<>>
           c == IF r \in Moe THEN <<IndexFile>> ELSE <<>>
<1>1. NumLayers \in Nat
  BY CatalogueConstants
<1>2. layers \in Seq(Files)
  <2>1. CASE r \in Moe
    <3>1. ASSUME NEW k \in 1..(2 * NumLayers)
          PROVE  <<IF k % 2 = 1 THEN "bank" ELSE "layer", (k + 1) \div 2>> \in Files
      <4>1. (k + 1) \div 2 \in 1..NumLayers
        BY <1>1
      <4>2. (IF k % 2 = 1 THEN "bank" ELSE "layer") \in {"layer", "bank"}
        OBVIOUS
      <4> QED
        BY <4>1, <4>2 DEF Files, Layers
    <3>2. 2 * NumLayers \in Nat
      BY <1>1
    <3> QED
      BY <2>1, <3>1, <3>2
  <2>2. CASE r \notin Moe
    <3>1. layers = [i \in 1..NumLayers |-> <<"layer", i>>]
      BY <2>2 DEF Layers
    <3>2. \A i \in 1..NumLayers : <<"layer", i>> \in Files
      BY FilesOK DEF Layers
    <3> HIDE DEF layers
    <3> QED
      BY <1>1, <3>1, <3>2
  <2> QED
    BY <2>1, <2>2
<1>3. <<Heads>> \in Seq(Files) /\ b \in Seq(Files) /\ c \in Seq(Files) /\ <<Manifest>> \in Seq(Files)
  <2>1. <<>> \in Seq(Files)
    OBVIOUS
  <2> QED
    BY <2>1, FilesOK
<1>4. PullOrder(r) = (layers \o <<Heads>> \o b \o c) \o <<Manifest>>
  BY DEF PullOrder
<1> HIDE DEF layers, b, c
<1>5. layers \o <<Heads>> \o b \o c \in Seq(Files)
  BY <1>2, <1>3
<1> DEFINE a == layers \o <<Heads>> \o b \o c
<1>6. a \in Seq(Files) /\ PullOrder(r) = Append(a, Manifest)
  <2>1. a \in Seq(Files) /\ PullOrder(r) = a \o <<Manifest>>
    BY <1>4, <1>5
  <2> HIDE DEF a
  <2> QED
    BY <2>1, FilesOK
<1> HIDE DEF a
<1> QED
  BY <1>6, FilesOK

-----------------------------------------------------------------------------

LEMMA PulledRange ==
    ASSUME CatalogueTypeOK, NEW n \in Names
    PROVE  /\ Pulled(n) \in Seq(Dirs)
           /\ Range(Pulled(n)) = {d \in Range(DirsOf[n]) : Has(d, Manifest)}
           /\ Pulled(n) = <<>> <=> \A d \in Range(DirsOf[n]) : ~Has(d, Manifest)
           /\ Pulled(n) # <<>> => /\ Head(Pulled(n)) \in Range(DirsOf[n])
                                  /\ Has(Head(Pulled(n)), Manifest)
<1> DEFINE T == {d \in Dirs : Has(d, Manifest)}
<1>1. DirsOf[n] \in Seq(Dirs) /\ Range(DirsOf[n]) \subseteq Dirs
  BY CatalogueConstants
<1>2. Pulled(n) \in Seq(Dirs) /\ Range(Pulled(n)) = Range(DirsOf[n]) \cap T
  <2>1. Pulled(n) = Kept(DirsOf[n], T)
    BY DEF Pulled
  <2> HIDE DEF T
  <2> QED
    BY <1>1, <2>1, KeptLemma
<1>3. Range(Pulled(n)) = {d \in Range(DirsOf[n]) : Has(d, Manifest)}
  BY <1>1, <1>2
<1>4. Pulled(n) # <<>> => Head(Pulled(n)) \in Range(Pulled(n))
  BY <1>2 DEF Range
<1>5. Pulled(n) = <<>> => Range(Pulled(n)) = {}
  BY DEF Range
<1>6. Pulled(n) = <<>> <=> Range(Pulled(n)) = {}
  BY <1>4, <1>5
<1> QED
  BY <1>2, <1>3, <1>4, <1>6

\* A name stands for its model.
LEMMA ResolveOK ==
    ASSUME CatalogueTypeOK, Owned,
           NEW n \in Names, NEW quant, NEW backend, NEW online
    PROVE  /\ Alone(n) => Resolve(n, quant, backend, online).model = ModelOf[n]
           /\ Resolve(n, quant, backend, online).dir # None
                => Resolve(n, quant, backend, online).dir \in Range(DirsOf[n])
<1> DEFINE r == ModelOf[n]
           t == Resolve(n, quant, backend, online)
<1>1. \A b, m, d, q : /\ Target(b, m, d, q).model = m /\ Target(b, m, d, q).dir = d
                      /\ [Target(b, m, d, q) EXCEPT !.sized = TRUE].model = m
                      /\ [Target(b, m, d, q) EXCEPT !.sized = TRUE].dir = d
                      /\ [Target(b, m, d, q) EXCEPT !.needsPull = TRUE].model = m
                      /\ [Target(b, m, d, q) EXCEPT !.needsPull = TRUE].dir = d
  BY DEF Target
<1>2. CASE backend # None
  <2>1. t = Target(backend, r, None, quant)
    BY <1>2 DEF Resolve
  <2> QED
    BY <1>1, <2>1
<1>3. CASE backend = None /\ Pulled(n) # <<>>
  <2> DEFINE d == Head(Pulled(n))
  <2>1. t = FromDir(d, quant)
    BY <1>3 DEF Resolve
  <2>2. d \in Range(DirsOf[n]) /\ Has(d, Manifest) /\ d \in Dirs
    BY <1>3, PulledRange, CatalogueConstants
  <2> HIDE DEF d
  <2>3. Alone(n) => Owner(d) = r
    <3>1. shards[d][Manifest] \in {None} \cup writers[d] /\ shards[d][Manifest] # None
      BY <2>2, FilesOK DEF Owned, Has
    <3> QED
      BY <2>2, <3>1 DEF Alone, Owner
  <2>4. FromDir(d, quant).model = Owner(d) /\ FromDir(d, quant).dir \in {None, d}
    <3>1. CASE Has(d, IndexFile)
      <4>1. FromDir(d, quant) = Target("mlx-moe", Owner(d), d, IF quant \in {"int4", "int8"} THEN quant ELSE None)
        BY <3>1 DEF FromDir
      <4> QED
        BY <1>1, <2>3, <4>1
    <3>2. CASE ~Has(d, IndexFile) /\ quant # None
      <4>1. FromDir(d, quant) = [Target("mlx", Owner(d), None, quant) EXCEPT !.sized = TRUE]
        BY <3>2 DEF FromDir
      <4> QED
        BY <1>1, <2>3, <4>1
    <3>3. CASE ~Has(d, IndexFile) /\ quant = None
      <4>1. FromDir(d, quant) = Target(IF Has(d, MtpFile) THEN "speculative" ELSE "swlp", Owner(d), d, None)
        BY <3>3 DEF FromDir
      <4> QED
        BY <1>1, <2>3, <4>1
    <3> QED
      BY <3>1, <3>2, <3>3
  <2> QED
    BY <2>1, <2>2, <2>3, <2>4
<1>4. CASE backend = None /\ Pulled(n) = <<>>
  <2>1. \/ t = Target("mlx-moe", r, None, None) \/ t = Target("mlx", r, None, "bf16")
        \/ t = Target("mlx", r, None, quant)
        \/ t = [Target("swlp", r, Head(DirsOf[n]), None) EXCEPT !.needsPull = TRUE]
    BY <1>4 DEF Resolve, MlxTarget
  <2>2. t.model = r /\ t.dir \in {None, Head(DirsOf[n])}
    <3> HIDE DEF t
    <3>1. CASE t = [Target("swlp", r, Head(DirsOf[n]), None) EXCEPT !.needsPull = TRUE]
      <4>1. /\ [Target("swlp", r, Head(DirsOf[n]), None) EXCEPT !.needsPull = TRUE].model = r
            /\ [Target("swlp", r, Head(DirsOf[n]), None) EXCEPT !.needsPull = TRUE].dir = Head(DirsOf[n])
        BY <1>1
      <4> QED
        BY Zenon, <3>1, <4>1
    <3>2. CASE t # [Target("swlp", r, Head(DirsOf[n]), None) EXCEPT !.needsPull = TRUE]
      BY <1>1, <2>1, <3>2
    <3> QED
      BY <3>1, <3>2
  <2> QED
    BY <2>2, CatalogueConstants
<1> QED
  BY <1>2, <1>3, <1>4

\* Whether it has to be pulled first.
LEMMA NeedsPull ==
    ASSUME CatalogueTypeOK, NEW n \in Names, NEW online \in BOOLEAN
    PROVE  /\ Found(n) => ~Resolve(n, None, None, online).needsPull
           /\ ~Found(n) => Resolve(n, None, None, FALSE).needsPull
<1> DEFINE r == ModelOf[n]
<1>1. \A b, m, d, q : /\ Target(b, m, d, q).needsPull = FALSE
                      /\ [Target(b, m, d, q) EXCEPT !.needsPull = TRUE].needsPull = TRUE
  BY DEF Target
<1>2. CASE Pulled(n) # <<>>
  <2>1. Found(n)
    BY <1>2, PulledRange DEF Found
  <2> DEFINE d == Head(Pulled(n))
  <2>2. Resolve(n, None, None, online) = FromDir(d, None)
    BY <1>2 DEF Resolve
  <2>3. \/ FromDir(d, None) = Target("mlx-moe", Owner(d), d, IF None \in {"int4", "int8"} THEN None ELSE None)
        \/ FromDir(d, None) = Target(IF Has(d, MtpFile) THEN "speculative" ELSE "swlp", Owner(d), d, None)
    BY DEF FromDir
  <2> QED
    BY <1>1, <2>1, <2>2, <2>3
<1>3. CASE Pulled(n) = <<>>
  <2>1. Found(n) <=> r \in Quantized /\ hub[r] # "none"
    BY <1>3, PulledRange DEF Found
  <2>2. CASE Found(n)
    <3>1. HubQuantized(r, online)
      BY <2>1, <2>2 DEF HubQuantized
    <3>2. \/ Resolve(n, None, None, online) = Target("mlx-moe", r, None, None)
          \/ Resolve(n, None, None, online) = Target("mlx", r, None, "bf16")
      BY <1>3, <3>1 DEF Resolve, MlxTarget
    <3> QED
      BY <1>1, <2>2, <3>2
  <2>3. CASE ~Found(n)
    <3>1. ~HubQuantized(r, FALSE)
      BY <2>1, <2>3 DEF HubQuantized
    <3>2. Resolve(n, None, None, FALSE) = [Target("swlp", r, Head(DirsOf[n]), None) EXCEPT !.needsPull = TRUE]
      BY <1>3, <3>1 DEF Resolve
    <3> QED
      BY <1>1, <2>3, <3>2
  <2> QED
    BY <2>2, <2>3
<1> QED
  BY <1>2, <1>3

-----------------------------------------------------------------------------
(* What a step keeps.                                                      *)

Written(d, f, x) == shards' = [shards EXCEPT ![d][f] = x]

\* A file that is written with a writer's content, or removed, keeps a directory owned.
LEMMA FilesWritten ==
    ASSUME CatalogueTypeOK, Owned, NEW d \in Dirs, NEW f \in Files, NEW x, x \in Repos \cup {None},
           Written(d, f, x), writers' \in [Dirs -> SUBSET Repos], x \in {None} \cup writers'[d],
           \A e \in Dirs : writers[e] \subseteq writers'[e] \/ \A g \in Files : shards'[e][g] = None
    PROVE  /\ shards' \in [Dirs -> [Files -> Repos \cup {None}]]
           /\ Owned'
           /\ shards'[d][f] = x
           /\ \A e \in Dirs, g \in Files : <<e, g>> # <<d, f>> => shards'[e][g] = shards[e][g]
<1>1. shards \in [Dirs -> [Files -> Repos \cup {None}]]
  BY DEF CatalogueTypeOK
<1>3. /\ shards' \in [Dirs -> [Files -> Repos \cup {None}]]
      /\ \A e \in Dirs, g \in Files :
            shards'[e][g] = IF e = d /\ g = f THEN x ELSE shards[e][g]
  BY <1>1 DEF Written
<1>4. ASSUME NEW e \in Dirs, NEW g \in Files PROVE shards'[e][g] \in {None} \cup writers'[e]
  <2>1. shards[e][g] \in {None} \cup writers[e]
    BY DEF Owned
  <2> QED
    BY <1>3, <2>1
<1> QED
  BY <1>3, <1>4 DEF Owned

\* A finished pull stays found as long as its directory and its config stay.
LEMMA StillFound ==
    ASSUME CatalogueTypeOK, NEW n \in Names, Found(n),
           \A d \in Range(DirsOf[n]) : Has(d, Manifest) => Has(d, Manifest)',
           hub[ModelOf[n]] # "none" => hub'[ModelOf[n]] # "none"
    PROVE  Found(n)'
<1>1. CASE \E d \in Range(DirsOf[n]) : Has(d, Manifest)
  BY <1>1 DEF Found
<1>2. CASE ModelOf[n] \in Quantized /\ hub[ModelOf[n]] # "none"
  BY <1>2 DEF Found
<1> QED
  BY <1>1, <1>2 DEF Found

\* Who wrote a directory changes only with its files.
LEMMA AloneStays == UNCHANGED writers => \A n : Alone(n)' <=> Alone(n)
BY DEF Alone

LEMMA CatalogueStart == Init => CatalogueInv
<1> SUFFICES ASSUME Init PROVE CatalogueInv
  OBVIOUS
<1>1. /\ shards = [d \in Dirs |-> [f \in Files |-> None]]
      /\ hub = [r \in Repos |-> "none"] /\ own = [r \in Repos |-> "none"]
      /\ copies = [c \in Repos \X Quants |-> {}] /\ writers = [d \in Dirs |-> {}]
      /\ op.kind = "idle" /\ pulled = {}
  BY DEF Init, AtRest
<1>2. CatalogueTypeOK
  BY <1>1 DEF CatalogueTypeOK, Amounts
<1>3. Owned
  BY <1>1 DEF Owned
<1>4. OpOK(op)
  BY <1>1 DEF OpOK
<1> QED
  BY <1>1, <1>2, <1>3, <1>4 DEF CatalogueInv

\* Every amount but "none" is left of a download that was read again.
LEMMA ConfigReadOK ==
    ASSUME CatalogueTypeOK, NEW r, NEW online
    PROVE  /\ ConfigRead(r, online) \in [Repos -> Amounts]
           /\ \A q \in Repos : hub[q] # "none" => ConfigRead(r, online)[q] # "none"
BY DEF CatalogueTypeOK, ConfigRead, Amounts

LEMMA PullPreserves ==
    ASSUME CatalogueInv,
           NEW name \in Names, NEW online \in BOOLEAN, Pull(name, online)
    PROVE  CatalogueInv'
<1> DEFINE r == ModelOf[name]
           d == IF HubQuantized(r, online) THEN None ELSE Head(DirsOf[name])
<1>1. /\ hub' = ConfigRead(r, online) /\ UNCHANGED <<shards, writers, own, copies, pulled>>
      /\ op' = [kind |-> "download", by |-> name, model |-> r, online |-> online, dir |-> d]
  BY DEF Pull
<1>2. /\ hub' \in [Repos -> Amounts]
      /\ \A q \in Repos : hub[q] # "none" => hub'[q] # "none"
  BY <1>1, ConfigReadOK DEF CatalogueInv
<1>3. CatalogueTypeOK' /\ Owned'
  BY <1>1, <1>2 DEF CatalogueInv, CatalogueTypeOK, Owned
<1>4. \A n \in pulled' : Found(n)'
  <2>1. ASSUME NEW n \in pulled PROVE Found(n)'
    <3>1. n \in Names /\ ModelOf[n] \in Repos /\ Found(n) /\ CatalogueTypeOK
      BY CatalogueConstants DEF CatalogueInv, CatalogueTypeOK
    <3>2. \A e \in Range(DirsOf[n]) : Has(e, Manifest) => Has(e, Manifest)'
      BY <1>1 DEF Has
    <3> QED
      BY <1>2, <3>1, <3>2, StillFound
  <2> QED
    BY <1>1, <2>1
<1>5. name # None /\ ModelFor(name) = r
  BY CatalogueConstants DEF ModelFor
<1>6. IF d = None THEN r \in Quantized ELSE DirFor(name, d)
  <2>1. CASE HubQuantized(r, online)
    BY <2>1 DEF HubQuantized
  <2>2. CASE ~HubQuantized(r, online)
    <3>1. Head(DirsOf[name]) \in Range(DirsOf[name]) /\ Head(DirsOf[name]) \in Dirs /\ None \notin Dirs
      BY CatalogueConstants
    <3> QED
      BY <1>5, <2>2, <3>1 DEF DirFor
  <2> QED
    BY <2>1, <2>2
<1> HIDE DEF d
<1>7. op'.kind = "download" /\ op'.by = name /\ op'.model = r /\ op'.dir = d
  BY <1>1
<1>8. OpOK(op)'
  BY <1>5, <1>6, <1>7 DEF OpOK, DownloadOK
<1> QED
  BY <1>3, <1>4, <1>7, <1>8 DEF CatalogueInv

LEMMA DownloadPreserves ==
    ASSUME CatalogueInv, Download
    PROVE  CatalogueInv'
<1>1. op.kind = "download" /\ op.by \in Names \cup {None} /\ DownloadOK(op)
  BY DEF Download, CatalogueInv, OpOK
<1>2. op.model \in Repos /\ op.model = ModelFor(op.by)
  BY <1>1, CatalogueConstants DEF DownloadOK, ModelFor
<1>3. /\ hub' \in [Repos -> Amounts] /\ own' \in [Repos -> Amounts]
      /\ \A q \in Repos : hub[q] # "none" => hub'[q] # "none"
      /\ op.by # None => hub'[op.model] = "whole"
      /\ UNCHANGED <<shards, writers, copies>>
  BY <1>2 DEF Download, Pulls, CatalogueInv, CatalogueTypeOK, Amounts
<1>4. ASSUME NEW n \in pulled PROVE Found(n)'
  <2>1. n \in Names /\ ModelOf[n] \in Repos /\ Found(n) /\ CatalogueTypeOK
    BY CatalogueConstants DEF CatalogueInv, CatalogueTypeOK
  <2>2. \A e \in Range(DirsOf[n]) : Has(e, Manifest) => Has(e, Manifest)'
    BY <1>3 DEF Has
  <2> QED
    BY <1>3, <2>1, <2>2, StillFound
<1>5. Owned'
  BY <1>3 DEF CatalogueInv, Owned
<1>6. CASE op.dir = None
  <2>1. op' = AtRest /\ pulled' = pulled \cup {op.by}
    BY <1>6 DEF Download
  <2>2. op.by \in Names /\ op.model = ModelOf[op.by] /\ op.model \in Quantized
    BY <1>1, <1>2, <1>6 DEF DownloadOK, ModelFor
  <2>3. PICK by \in Names : by = op.by
    BY <2>2
  <2>7. Found(by)'
    BY <1>3, <2>2, <2>3, CatalogueConstants DEF Found
  <2>4. CatalogueTypeOK'
    BY <1>3, <2>1, <2>2 DEF CatalogueInv, CatalogueTypeOK
  <2>5. op'.kind = "idle"
    BY <2>1 DEF AtRest
  <2>6. \A n \in pulled' : Found(n)'
    BY <1>4, <2>1, <2>3, <2>7
  <2> QED
    BY <1>5, <2>4, <2>5, <2>6 DEF CatalogueInv, OpOK
<1>7. CASE op.dir # None
  <2>1. /\ op' = [kind |-> "write", by |-> op.by, model |-> op.model, online |-> op.online,
                  dir |-> op.dir, left |-> PullOrder(op.model)]
        /\ pulled' = pulled
    BY <1>7 DEF Download
  <2>2. /\ op'.kind = "write" /\ op'.by = op.by /\ op'.model = op.model /\ op'.dir = op.dir
        /\ op'.left = PullOrder(op.model)
    BY <2>1
  <2>3. WriteOK(op)'
    BY <1>1, <1>2, <1>7, <2>2, PullOrderOK DEF WriteOK, DownloadOK
  <2>4. OpOK(op)'
    BY <1>1, <2>2, <2>3 DEF OpOK
  <2>5. CatalogueTypeOK'
    BY <1>3, <2>1 DEF CatalogueInv, CatalogueTypeOK
  <2>6. \A n \in pulled' : Found(n)'
    BY <1>4, <2>1
  <2> QED
    BY <1>5, <2>2, <2>4, <2>5, <2>6 DEF CatalogueInv
<1> QED
  BY <1>6, <1>7

LEMMA WritePreserves ==
    ASSUME CatalogueInv, WriteFile
    PROVE  CatalogueInv'
<1> DEFINE d == op.dir
           f == Head(op.left)
<1>1. op.kind = "write" /\ op.by \in Names \cup {None} /\ WriteOK(op)
  BY DEF WriteFile, CatalogueInv, OpOK
<1>2. /\ op.left \in Seq(Files) /\ Len(op.left) > 0 /\ op.left[Len(op.left)] = Manifest
      /\ DirFor(op.by, d) /\ op.model = ModelFor(op.by)
  BY <1>1 DEF WriteOK
<1>3. d \in Dirs /\ f \in Files /\ op.model \in Repos /\ op.model # None
  <2>1. f \in Files
    BY <1>2
  <2> QED
    BY <1>1, <1>2, <2>1, CatalogueConstants DEF DirFor, ModelFor
<1>4. /\ shards' = [shards EXCEPT ![d][f] = op.model] /\ UNCHANGED <<hub, own, copies>>
      /\ writers' = [writers EXCEPT ![d] = @ \cup {op.model}]
  BY DEF WriteFile
<1>5. CatalogueTypeOK /\ Owned
  BY DEF CatalogueInv
<1> HIDE DEF d, f
<1>6. /\ shards' \in [Dirs -> [Files -> Repos \cup {None}]] /\ Owned'
      /\ shards'[d][f] = op.model
      /\ \A e \in Dirs, g \in Files : <<e, g>> # <<d, f>> => shards'[e][g] = shards[e][g]
      /\ writers' \in [Dirs -> SUBSET Repos]
  <2>1. /\ writers' \in [Dirs -> SUBSET Repos] /\ op.model \in writers'[d]
        /\ \A e \in Dirs : writers[e] \subseteq writers'[e]
    BY <1>3, <1>4, <1>5 DEF CatalogueTypeOK
  <2>2. Written(d, f, op.model)
    BY <1>4 DEF Written
  <2> QED
    BY <1>3, <1>5, <2>1, <2>2, FilesWritten
<1>7. ASSUME NEW n \in pulled PROVE Found(n)'
  <2>1. n \in Names /\ Range(DirsOf[n]) \subseteq Dirs /\ Found(n)
    BY CatalogueConstants DEF CatalogueInv, CatalogueTypeOK
  <2>2. \A e \in Range(DirsOf[n]) : Has(e, Manifest) => Has(e, Manifest)'
    BY <1>3, <1>6, <2>1, FilesOK DEF Has
  <2>3. hub[ModelOf[n]] # "none" => hub'[ModelOf[n]] # "none"
    BY <1>4
  <2> QED
    BY <1>5, <2>1, <2>2, <2>3, StillFound
<1>8. CASE Len(op.left) > 1
  <2>1. op' = [op EXCEPT !.left = Tail(@)] /\ pulled' = pulled
    BY <1>8 DEF WriteFile
  <2>2. op'.kind = "write" /\ op'.by = op.by /\ op'.model = op.model /\ op'.dir = op.dir
    BY <1>1, <2>1
  <2>3. op'.left = Tail(op.left)
    BY <2>1
  <2>4. /\ Tail(op.left) \in Seq(Files) /\ Len(Tail(op.left)) > 0
        /\ Tail(op.left)[Len(Tail(op.left))] = Manifest
    BY <1>2, <1>8
  <2>5. WriteOK(op)'
    BY <1>2, <2>2, <2>3, <2>4 DEF WriteOK, d
  <2>6. OpOK(op)'
    BY <1>1, <2>2, <2>5 DEF OpOK
  <2>7. CatalogueTypeOK'
    BY <1>4, <1>5, <1>6, <2>1 DEF CatalogueTypeOK
  <2> QED
    BY <1>6, <1>7, <2>1, <2>2, <2>6, <2>7 DEF CatalogueInv
<1>9. CASE ~(Len(op.left) > 1)
  <2>1. f = Manifest
    <3>1. Len(op.left) = 1
      <4>1. PICK n \in Nat : n = Len(op.left)
        BY <1>2
      <4>2. n > 0 /\ ~(n > 1)
        BY <1>2, <1>9, <4>1
      <4>3. n = 1
        BY <4>2
      <4> QED
        BY <4>1, <4>3
    <3> QED
      BY <1>2, <3>1 DEF f
  <2>2. CASE op.by # None
    <3>1. op' = AtRest /\ pulled' = pulled \cup {op.by}
      BY <1>9, <2>2 DEF WriteFile, Pulls
    <3>2. op.by \in Names /\ d \in Range(DirsOf[op.by])
      BY <1>1, <1>2, <2>2 DEF DirFor
    <3>3. PICK by \in Names : by = op.by
      BY <3>2
    <3>7. Found(by)'
      BY <1>3, <1>6, <2>1, <3>2, <3>3 DEF Found, Has
    <3>4. CatalogueTypeOK'
      BY <1>4, <1>5, <1>6, <3>1, <3>2 DEF CatalogueTypeOK
    <3>5. op'.kind = "idle"
      BY <3>1 DEF AtRest
    <3>6. \A n \in pulled' : Found(n)'
      BY <1>7, <3>1, <3>3, <3>7
    <3> QED
      BY <1>6, <3>4, <3>5, <3>6 DEF CatalogueInv, OpOK
  <2>3. CASE op.by = None
    <3>1. op' = Loading(None, Target("swlp", op.model, op.dir, None), op.online) /\ pulled' = pulled
      BY <1>9, <2>3 DEF WriteFile, Pulls
    <3>2. /\ op'.kind = "load" /\ op'.by = None /\ op'.target.model = op.model /\ op'.target.dir = op.dir
      BY <3>1 DEF Loading, Target
    <3>3. LoadOK(op)'
      BY <1>2, <2>3, <3>2 DEF LoadOK, d
    <3>4. OpOK(op)'
      BY <3>2, <3>3 DEF OpOK
    <3>5. CatalogueTypeOK'
      BY <1>4, <1>5, <1>6, <3>1 DEF CatalogueTypeOK
    <3> QED
      BY <1>6, <1>7, <3>1, <3>2, <3>4, <3>5 DEF CatalogueInv
  <2> QED
    BY <2>2, <2>3
<1> QED
  BY <1>8, <1>9

\* A step that takes no file, and nothing of the Hugging Face cache.
Grows ==
    /\ UNCHANGED <<shards, writers>> /\ pulled' \subseteq pulled
    /\ hub' \in [Repos -> Amounts] /\ own' \in [Repos -> Amounts]
    /\ copies' \in [Repos \X Quants -> SUBSET Parts]
    /\ \A r \in Repos : hub[r] # "none" => hub'[r] # "none"

LEMMA Growing ==
    ASSUME CatalogueInv, Grows
    PROVE  CatalogueTypeOK' /\ Owned' /\ \A n \in pulled' : Found(n)'
<1>1. CatalogueTypeOK'
  BY DEF Grows, CatalogueInv, CatalogueTypeOK
<1>2. Owned'
  BY DEF Grows, CatalogueInv, Owned
<1>3. ASSUME NEW n \in pulled' PROVE Found(n)'
  <2>1. n \in Names /\ ModelOf[n] \in Repos /\ Found(n) /\ CatalogueTypeOK
    BY CatalogueConstants DEF Grows, CatalogueInv, CatalogueTypeOK
  <2>2. \A e \in Range(DirsOf[n]) : Has(e, Manifest) => Has(e, Manifest)'
    BY DEF Has, Grows
  <2>3. hub[ModelOf[n]] # "none" => hub'[ModelOf[n]] # "none"
    BY <2>1 DEF Grows
  <2> QED
    BY <2>1, <2>2, <2>3, StillFound
<1> QED
  BY <1>1, <1>2, <1>3

LEMMA DiskGrows ==
    ASSUME CatalogueInv, UNCHANGED disk, pulled' \subseteq pulled
    PROVE  Grows
BY DEF disk, Grows, CatalogueInv, CatalogueTypeOK

LEMMA RmPreserves ==
    ASSUME CatalogueInv, NEW name \in Names, Rm(name)
    PROVE  CatalogueInv'
<1> DEFINE a == Artifacts(name)
           r == ModelOf[name]
<1>1. /\ op' = [kind |-> "rm", by |-> name, items |-> a] /\ UNCHANGED disk
      /\ pulled' = {n \in pulled : ModelOf[n] # r /\ Range(DirsOf[n]) \cap Range(Pulled(name)) = {}}
  BY DEF Rm
<1>2. CatalogueTypeOK' /\ Owned' /\ \A n \in pulled' : Found(n)'
  <2>1. pulled' \subseteq pulled
    BY <1>1
  <2> QED
    BY <1>1, <2>1, DiskGrows, Growing
<1>3. UNCHANGED <<shards, hub, own, copies>>
  BY <1>1 DEF disk
<1>4. /\ a.dirs = {d \in Range(DirsOf[name]) : Has(d, Manifest)} /\ a.dirs = Range(Pulled(name))
      /\ a.hub = (hub[r] # "none") /\ a.own = (own[r] # "none") /\ a.copies = Conversions(r)
  <2>1. Range(Pulled(name)) = {d \in Range(DirsOf[name]) : Has(d, Manifest)}
    BY PulledRange DEF CatalogueInv
  <2> QED
    BY <2>1 DEF Artifacts
<1>5. ASSUME NEW q \in Quants, copies[<<r, q>>] # {} PROVE <<r, q>> \in Conversions(r)
  <2>1. r \in Repos /\ Slug[r] \in Seq(Range(Slug[r]))
    BY CatalogueConstants, CatalogueAssumption
  <2>2. IsSuffix(Slug[r], Slug[r])
    <3> DEFINE t == Reverse(Slug[r])
    <3>1. t \in Seq(Range(Slug[r]))
      BY <2>1 DEF Reverse, Range
    <3>2. Len(t) <= Len(t) /\ SubSeq(t, 1, Len(t)) = SubSeq(t, 1, Len(t))
      BY <3>1
    <3> HIDE DEF t
    <3>3. IsPrefix(t, t)
      BY <3>2 DEF IsPrefix
    <3> QED
      BY <3>3 DEF IsSuffix, t
  <2>3. <<r, q>> \in Repos \X Quants /\ <<r, q>>[1] = r
    BY <2>1
  <2> QED
    BY <1>5, <2>2, <2>3 DEF Conversions
<1> HIDE DEF a
<1>6. op'.kind = "rm" /\ op'.by = name /\ op'.items = a
  BY <1>1
<1>7. Listed(op)'
  <2>1. /\ a.dirs \subseteq Range(DirsOf[name])
        /\ \A d \in Range(DirsOf[name]) : Has(d, Manifest)' => d \in a.dirs
    BY <1>3, <1>4 DEF Has
  <2>2. (hub'[r] # "none" => a.hub) /\ (own'[r] # "none" => a.own)
    BY <1>3, <1>4
  <2>3. \A q \in Quants : copies'[<<r, q>>] # {} => <<r, q>> \in a.copies
    BY <1>3, <1>4, <1>5
  <2>4. \A n \in pulled' : ModelOf[n] # r /\ Range(DirsOf[n]) \cap a.dirs = {}
    BY <1>1, <1>4
  <2> QED
    BY <1>6, <2>1, <2>2, <2>3, <2>4 DEF Listed
<1>8. OpOK(op)'
  BY <1>6 DEF OpOK
<1> QED
  BY <1>2, <1>7, <1>8 DEF CatalogueInv

\* A step of a removal.
LEMMA RmGoesOn ==
    ASSUME CatalogueInv,
           \/ \E d \in Dirs, f \in Files : RmFile(d, f)
           \/ \E left \in {"none", "config"} : RmDownload(left)
           \/ \E c \in Repos \X Quants, part \in Parts : RmCopy(c, part)
    PROVE  CatalogueInv'
<1> DEFINE r == ModelOf[op.by]
<1>1. /\ op.kind = "rm" /\ op' = op /\ pulled' = pulled /\ Listed(op)
      /\ CatalogueTypeOK /\ Owned /\ OpOK(op)
  BY DEF RmFile, RmDownload, RmCopy, Removed, Goes, CatalogueInv
<1>2. /\ op.by \in Names /\ r \in Repos
      /\ \A n \in pulled : /\ ModelOf[n] # r /\ n \in Names /\ Found(n)
                           /\ Range(DirsOf[n]) \cap op.items.dirs = {}
  BY <1>1, CatalogueConstants DEF Listed, CatalogueInv, CatalogueTypeOK
<1>3. /\ CatalogueTypeOK' /\ Owned'
      /\ \A d \in Dirs : Has(d, Manifest)' => Has(d, Manifest)
      /\ \A d \in Dirs \ op.items.dirs : Has(d, Manifest)' <=> Has(d, Manifest)
      /\ \A q \in Repos : /\ hub'[q] # "none" => hub[q] # "none"
                          /\ own'[q] # "none" => own[q] # "none"
                          /\ q # r => hub'[q] = hub[q]
      /\ \A c \in Repos \X Quants : copies'[c] # {} => copies[c] # {}
  <2>1. ASSUME NEW d \in Dirs, NEW f \in Files, RmFile(d, f) PROVE <1>3!:
    <3>1. Written(d, f, None) /\ UNCHANGED <<hub, own, copies>>
      BY <2>1 DEF RmFile, Written
    <3>2. d \in op.items.dirs
      BY <2>1 DEF RmFile
    <3>3. /\ writers' = [writers EXCEPT ![d] = IF \A g \in Files \ {f} : ~Has(d, g) THEN {} ELSE @]
          /\ writers \in [Dirs -> SUBSET Repos] /\ shards \in [Dirs -> [Files -> Repos \cup {None}]]
          /\ shards' = [shards EXCEPT ![d][f] = None]
      BY <1>1, <2>1 DEF RmFile, CatalogueTypeOK
    <3>7. writers' \in [Dirs -> SUBSET Repos]
      BY <3>3
    <3>8. ASSUME NEW e \in Dirs
          PROVE  writers[e] \subseteq writers'[e] \/ \A g \in Files : shards'[e][g] = None
      <4>1. CASE e = d /\ \A g \in Files \ {f} : ~Has(d, g)
        <5>1. \A g \in Files : shards'[d][g] = IF g = f THEN None ELSE shards[d][g]
          BY <3>3
        <5> QED
          BY <4>1, <5>1 DEF Has
      <4>2. CASE ~(e = d /\ \A g \in Files \ {f} : ~Has(d, g))
        <5>1. writers'[e] = writers[e]
          BY <3>3, <4>2
        <5> QED
          BY <5>1
      <4> QED
        BY <4>1, <4>2
    <3>4. /\ shards' \in [Dirs -> [Files -> Repos \cup {None}]] /\ Owned'
          /\ shards'[d][f] = None
          /\ \A e \in Dirs, g \in Files : <<e, g>> # <<d, f>> => shards'[e][g] = shards[e][g]
      BY <1>1, <3>1, <3>7, <3>8, FilesWritten
    <3>5. CatalogueTypeOK'
      BY <1>1, <3>1, <3>4, <3>7 DEF CatalogueTypeOK
    <3>6. ASSUME NEW e \in Dirs
          PROVE  /\ Has(e, Manifest)' => Has(e, Manifest)
                 /\ e \notin op.items.dirs => (Has(e, Manifest)' <=> Has(e, Manifest))
      <4>1. CASE e = d /\ f = Manifest
        BY <3>2, <3>4, <4>1 DEF Has
      <4>2. CASE ~(e = d /\ f = Manifest)
        BY <3>4, <4>2, FilesOK DEF Has
      <4> QED
        BY <4>1, <4>2
    <3> QED
      BY <3>1, <3>4, <3>5, <3>6
  <2>2. ASSUME NEW left \in {"none", "config"}, RmDownload(left) PROVE <1>3!:
    BY <1>1, <1>2, <2>2 DEF RmDownload, CatalogueTypeOK, Amounts, Owned, Has
  <2>3. ASSUME NEW c \in Repos \X Quants, NEW part \in Parts, RmCopy(c, part) PROVE <1>3!:
    BY <1>1, <1>2, <2>3 DEF RmCopy, CatalogueTypeOK, Owned, Has
  <2> QED
    BY <2>1, <2>2, <2>3
<1>4. ASSUME NEW n \in pulled' PROVE Found(n)'
  <2>1. n \in Names /\ Found(n) /\ ModelOf[n] # r /\ ModelOf[n] \in Repos /\ Range(DirsOf[n]) \subseteq Dirs
    BY <1>1, <1>2, CatalogueConstants
  <2>2. \A e \in Range(DirsOf[n]) : Has(e, Manifest) => Has(e, Manifest)'
    BY <1>1, <1>2, <1>3, <2>1
  <2>3. hub[ModelOf[n]] # "none" => hub'[ModelOf[n]] # "none"
    BY <1>3, <2>1
  <2> QED
    BY <1>1, <2>1, <2>2, <2>3, StillFound
<1>5. Listed(op)'
  <2>1. Range(DirsOf[op.by]) \subseteq Dirs /\ \A q \in Quants : <<r, q>> \in Repos \X Quants
    BY <1>2, CatalogueConstants
  <2>2. \A d \in Range(DirsOf[op.by]) : Has(d, Manifest)' => d \in op.items.dirs
    BY <1>1, <1>3, <2>1 DEF Listed
  <2>3. (hub'[r] # "none" => op.items.hub) /\ (own'[r] # "none" => op.items.own)
    BY <1>1, <1>2, <1>3 DEF Listed
  <2>4. \A q \in Quants : copies'[<<r, q>>] # {} => <<r, q>> \in op.items.copies
    BY <1>1, <1>3, <2>1 DEF Listed
  <2> QED
    BY <1>1, <2>2, <2>3, <2>4 DEF Listed
<1>6. OpOK(op)'
  BY <1>1 DEF OpOK
<1> QED
  BY <1>1, <1>3, <1>4, <1>5, <1>6 DEF CatalogueInv

LEMMA RunPreserves ==
    ASSUME CatalogueInv, NEW n \in Names, NEW online \in BOOLEAN,
           NEW quant, NEW backend, Run(n, quant, backend, online)
    PROVE  CatalogueInv'
<1> DEFINE t == Resolve(n, quant, backend, online)
<1>1. /\ hub' = hub \/ hub' = ConfigRead(ModelOf[n], online)
      /\ op' = Loading(n, t, online) \/ op' = AtRest
      /\ UNCHANGED <<shards, writers, own, copies, pulled>>
  BY DEF Run
<1>2. Grows
  <2>1. /\ ConfigRead(ModelOf[n], online) \in [Repos -> Amounts]
        /\ \A q \in Repos : hub[q] # "none" => ConfigRead(ModelOf[n], online)[q] # "none"
    BY ConfigReadOK DEF CatalogueInv
  <2> QED
    BY <1>1, <2>1 DEF Grows, CatalogueInv, CatalogueTypeOK
<1>3. CatalogueTypeOK' /\ Owned' /\ \A m \in pulled' : Found(m)'
  BY <1>2, Growing
<1>4. (Alone(n)' => t.model = ModelOf[n]) /\ (t.dir # None => t.dir \in Range(DirsOf[n]))
  BY <1>1, ResolveOK, AloneStays DEF CatalogueInv
<1> HIDE DEF t
<1>5. CASE op' = Loading(n, t, online)
  <2>1. op'.kind = "load" /\ op'.by = n /\ op'.target = t
    BY <1>5 DEF Loading
  <2>2. n # None /\ ModelFor(n) = ModelOf[n] /\ Range(DirsOf[n]) \subseteq Dirs
    BY CatalogueConstants DEF ModelFor
  <2>3. t.dir # None => DirFor(n, t.dir)
    BY <1>4, <2>2 DEF DirFor
  <2>4. LoadOK(op)'
    BY <1>4, <2>1, <2>2, <2>3 DEF LoadOK
  <2>5. OpOK(op)'
    BY <2>1, <2>4 DEF OpOK
  <2> QED
    BY <1>3, <2>1, <2>5 DEF CatalogueInv
<1>6. CASE op' = AtRest
  <2>1. op'.kind = "idle"
    BY <1>6 DEF AtRest
  <2> QED
    BY <1>3, <2>1 DEF CatalogueInv, OpOK
<1> QED
  BY <1>1, <1>5, <1>6

LEMMA LibraryPreserves ==
    ASSUME CatalogueInv, NEW d \in LibraryDirs, NEW online,
           RunLibrary(d, online)
    PROVE  CatalogueInv'
<1>1. UNCHANGED disk /\ pulled' = pulled
  BY DEF RunLibrary
<1>2. CatalogueTypeOK' /\ Owned' /\ \A m \in pulled' : Found(m)'
  BY <1>1, DiskGrows, Growing
<1>3. d \in Dirs /\ d # None /\ DirFor(None, d) /\ ModelFor(None) = DefaultModel
  BY CatalogueConstants DEF DirFor, ModelFor
<1>4. CASE op' = Loading(None, Target("swlp", DefaultModel, d, None), online)
  <2>1. op'.kind = "load" /\ op'.by = None /\ op'.target.model = DefaultModel /\ op'.target.dir = d
    BY <1>4 DEF Loading, Target
  <2>2. LoadOK(op)'
    BY <1>3, <2>1 DEF LoadOK
  <2>3. OpOK(op)'
    BY <2>1, <2>2 DEF OpOK
  <2> QED
    BY <1>2, <2>1, <2>3 DEF CatalogueInv
<1>5. CASE op' = [kind |-> "download", by |-> None, model |-> DefaultModel, online |-> online, dir |-> d]
  <2>1. op'.kind = "download" /\ op'.by = None /\ op'.model = DefaultModel /\ op'.dir = d
    BY <1>5
  <2>2. DownloadOK(op)'
    BY <1>3, <2>1 DEF DownloadOK
  <2>3. OpOK(op)'
    BY <2>1, <2>2 DEF OpOK
  <2> QED
    BY <1>2, <2>1, <2>3 DEF CatalogueInv
<1>6. \/ op' = Loading(None, Target("swlp", DefaultModel, d, None), online)
      \/ op' = [kind |-> "download", by |-> None, model |-> DefaultModel, online |-> online, dir |-> d]
  BY DEF RunLibrary
<1> QED
  BY <1>4, <1>5, <1>6

\* A run starts with the contents it has loaded.
LEMMA StartsRunning ==
    ASSUME CatalogueInv, CatalogueTypeOK', Owned', \A n \in pulled' : Found(n)',
           op.kind = "load", NEW contents, Runs(contents),
           UNCHANGED writers, op.by # None /\ Alone(op.by) => contents = {ModelOf[op.by]}
    PROVE  CatalogueInv'
<1>1. op'.kind = "running" /\ op'.by = op.by /\ op'.contents = contents
  BY DEF Runs, Goes
<1>2. op.by \in Names \cup {None}
  BY DEF CatalogueInv, OpOK
<1>3. OpOK(op)'
  BY <1>1, <1>2, AloneStays DEF OpOK, RunningOK
<1> QED
  BY <1>1, <1>3 DEF CatalogueInv

\* What a verified directory holds is its only writer's.
LEMMA WeightsOK ==
    ASSUME CatalogueTypeOK, Owned, NEW d \in Dirs, NEW r, writers[d] \subseteq {r}, None \notin Weights(d)
    PROVE  Weights(d) = {r} /\ WeightFiles(d) \subseteq Files
<1>1. WeightFiles(d) \subseteq Files /\ Heads \in WeightFiles(d)
  <2>1. {"layer", "bank"} \X Layers \subseteq Files /\ Heads \in Files
    BY FilesOK DEF Files
  <2>2. {"layer"} \X Layers \subseteq Files /\ {"bank"} \X Layers \subseteq Files
    BY <2>1
  <2> QED
    BY <2>1, <2>2 DEF WeightFiles
<1>2. Weights(d) = {shards[d][f] : f \in WeightFiles(d)}
  BY DEF Weights
<1>3. ASSUME NEW f \in WeightFiles(d) PROVE shards[d][f] = r
  <2>1. shards[d][f] # None
    BY <1>2
  <2> QED
    BY <1>1, <2>1 DEF Owned
<1> QED
  BY <1>1, <1>2, <1>3

LEMMA LoadPreserves ==
    ASSUME CatalogueInv,
           LoadFromShards \/ LoadFullModel \/ LoadMoeShards \/ LoadMoeCheckpoint \/ LoadMlx \/ LoadCopy
    PROVE  CatalogueInv'
<1>1. /\ op.kind = "load" /\ LoadOK(op) /\ op.by \in Names \cup {None}
      /\ CatalogueTypeOK /\ Owned
  BY DEF LoadFromShards, LoadFullModel, LoadMoeShards, LoadMoeCheckpoint, LoadMlx, LoadCopy, Loads,
         CatalogueInv, OpOK
<1>2. op.by # None /\ Alone(op.by) => op.target.model = ModelOf[op.by]
  BY <1>1 DEF LoadOK
<1>3. op.target.dir # None =>
        /\ op.target.dir \in Dirs
        /\ op.by # None /\ Alone(op.by) => writers[op.target.dir] \subseteq {ModelOf[op.by]}
  BY <1>1 DEF LoadOK, DirFor, Alone
<1>4. CASE LoadFromShards
  <2> DEFINE d == op.target.dir
             x == IF Owner(d) \in Moe /\ shards[d][IndexFile] = None
                  THEN shards[d][<<"bank", 1>>] ELSE shards[d][IndexFile]
  <2>1. d \in Dirs /\ (op.by # None /\ Alone(op.by) => writers[d] \subseteq {ModelOf[op.by]})
    BY <1>3, <1>4 DEF LoadFromShards
  <2>2. /\ UNCHANGED <<hub, copies, writers>> /\ pulled' = pulled /\ Runs(Weights(d)) /\ Verified(d)
        /\ own' = [own EXCEPT ![op.target.model] = IF @ = "none" THEN "config" ELSE @]
        /\ Written(d, IndexFile, x)
    BY <1>4 DEF LoadFromShards, Runs, Goes, Written
  <2>3. x \in {None} \cup writers[d] /\ writers \in [Dirs -> SUBSET Repos]
    BY <1>1, <2>1, FilesOK DEF Owned, CatalogueTypeOK
  <2> HIDE DEF d, x
  <2>4. /\ shards' \in [Dirs -> [Files -> Repos \cup {None}]] /\ Owned'
        /\ \A e \in Dirs, g \in Files : <<e, g>> # <<d, IndexFile>> => shards'[e][g] = shards[e][g]
    BY <1>1, <2>1, <2>2, <2>3, FilesOK, FilesWritten
  <2>5. own' \in [Repos -> Amounts]
    BY <1>1, <2>2 DEF CatalogueTypeOK, Amounts
  <2>6. CatalogueTypeOK'
    BY <1>1, <2>2, <2>4, <2>5 DEF CatalogueTypeOK
  <2>7. ASSUME NEW n \in pulled' PROVE Found(n)'
    <3>1. n \in Names /\ Found(n) /\ Range(DirsOf[n]) \subseteq Dirs
      BY <1>1, <2>2, CatalogueConstants DEF CatalogueInv, CatalogueTypeOK
    <3>2. \A e \in Range(DirsOf[n]) : Has(e, Manifest) => Has(e, Manifest)'
      <4>1. ASSUME NEW e \in Dirs PROVE shards'[e][Manifest] = shards[e][Manifest]
        <5>1. <<e, Manifest>> # <<d, IndexFile>> /\ Manifest \in Files
          BY FilesOK
        <5> QED
          BY <2>4, <5>1
      <4> QED
        BY <3>1, <4>1 DEF Has
    <3>3. hub[ModelOf[n]] # "none" => hub'[ModelOf[n]] # "none"
      BY <2>2
    <3> QED
      BY <1>1, <3>1, <3>2, <3>3, StillFound
  <2>8. None \notin Weights(d)
    BY <2>2 DEF Verified, Weights, Has
  <2>9. op.by # None /\ Alone(op.by) => Weights(d) = {ModelOf[op.by]}
    BY <1>1, <2>1, <2>8, WeightsOK
  <2> QED
    BY <1>1, <2>1, <2>2, <2>4, <2>6, <2>7, <2>9, StartsRunning
<1>5. CASE LoadFullModel \/ LoadMoeShards \/ LoadMoeCheckpoint \/ LoadMlx \/ LoadCopy
  <2>1. Grows
    <3>1. CASE LoadFullModel
      BY <1>1, <3>1 DEF LoadFullModel, Runs, Goes, Grows, CatalogueTypeOK, Amounts
    <3>2. CASE LoadMoeShards
      BY <1>1, <3>2 DEF LoadMoeShards, Runs, Goes, Grows, CatalogueTypeOK, Amounts
    <3>3. CASE LoadMoeCheckpoint
      BY <1>1, <3>3 DEF LoadMoeCheckpoint, Runs, Goes, Grows, CatalogueTypeOK, Amounts
    <3>4. CASE LoadMlx
      BY <1>1, <3>4 DEF LoadMlx, Runs, Goes, Grows, CatalogueTypeOK, Amounts
    <3>5. CASE LoadCopy
      <4>1. UNCHANGED disk /\ pulled' \subseteq pulled
        BY <3>5 DEF LoadCopy, Runs, Goes
      <4> QED
        BY <4>1, DiskGrows
    <3> QED
      BY <1>5, <3>1, <3>2, <3>3, <3>4, <3>5
  <2>2. CatalogueTypeOK' /\ Owned' /\ \A n \in pulled' : Found(n)'
    BY <2>1, Growing
  <2>3. \E contents : /\ Runs(contents)
                      /\ op.by # None /\ Alone(op.by) => contents = {ModelOf[op.by]}
    <3>1. CASE LoadFullModel \/ LoadMoeCheckpoint \/ LoadMlx
      <4>1. Runs({op.target.model})
        BY <3>1 DEF LoadFullModel, LoadMoeCheckpoint, LoadMlx
      <4> QED
        BY <1>2, <4>1
    <3>2. CASE LoadCopy
      <4>1. Runs({op.target.model})
        BY <3>2 DEF LoadCopy
      <4> QED
        BY <1>2, <4>1
    <3>3. CASE LoadMoeShards
      <4> DEFINE d == op.target.dir
      <4>1. /\ Runs(Weights(d) \cup {shards[d][IndexFile]}) /\ Has(d, IndexFile) /\ None \notin Weights(d)
            /\ d \in Dirs /\ (op.by # None /\ Alone(op.by) => writers[d] \subseteq {ModelOf[op.by]})
        BY <1>3, <3>3 DEF LoadMoeShards
      <4> HIDE DEF d
      <4>2. shards[d][IndexFile] \in writers[d]
        BY <1>1, <4>1, FilesOK DEF Owned, Has
      <4>4. op.by # None /\ Alone(op.by) => Weights(d) \cup {shards[d][IndexFile]} = {ModelOf[op.by]}
        BY <1>1, <4>1, <4>2, WeightsOK
      <4> QED
        BY <4>1, <4>4
    <3> QED
      BY <1>5, <3>1, <3>2, <3>3
  <2> QED
    BY <1>1, <2>1, <2>2, <2>3, StartsRunning DEF Grows
<1> QED
  BY <1>4, <1>5

LEMMA CatalogueStep ==
    ASSUME CatalogueInv, [Next]_vars
    PROVE  CatalogueInv'
<1>1. ASSUME NEW n \in Names, NEW online \in BOOLEAN, Pull(n, online) PROVE CatalogueInv'
  BY <1>1, PullPreserves
<1>2. ASSUME NEW n \in Names, NEW online \in BOOLEAN, NEW q \in Quants \cup {None},
             NEW b \in {None, "swlp", "mlx-moe"}, Run(n, q, b, online)
      PROVE  CatalogueInv'
  BY <1>2, RunPreserves
<1>3. ASSUME NEW d \in LibraryDirs, NEW online \in BOOLEAN, RunLibrary(d, online) PROVE CatalogueInv'
  BY <1>3, LibraryPreserves
<1>4. ASSUME NEW n \in Names, Rm(n) PROVE CatalogueInv'
  BY <1>4, RmPreserves
<1>5. CASE Download
  BY <1>5, DownloadPreserves
<1>6. CASE WriteFile
  BY <1>6, WritePreserves
<1>7. CASE \/ \E d \in Dirs, f \in Files : RmFile(d, f)
           \/ \E left \in {"none", "config"} : RmDownload(left)
           \/ \E c \in Repos \X Quants, part \in Parts : RmCopy(c, part)
  BY <1>7, RmGoesOn
<1>8. CASE LoadFromShards \/ LoadFullModel \/ LoadMoeShards \/ LoadMoeCheckpoint \/ LoadMlx \/ LoadCopy
  BY <1>8, LoadPreserves
<1>9. CASE RmEnds \/ Stops
  <2>1. UNCHANGED disk /\ pulled' \subseteq pulled /\ op' = AtRest
    BY <1>9 DEF RmEnds, Stops, Goes
  <2>2. CatalogueTypeOK' /\ Owned' /\ \A n \in pulled' : Found(n)'
    BY <2>1, DiskGrows, Growing
  <2>3. op'.kind = "idle"
    BY <2>1 DEF AtRest
  <2> QED
    BY <2>2, <2>3 DEF CatalogueInv, OpOK
<1>10. CASE LoadAttemptFails
  <2>1. UNCHANGED disk /\ pulled' \subseteq pulled /\ op' = [op EXCEPT !.tries = @ + 1] /\ op.kind = "load"
    BY <1>10 DEF LoadAttemptFails, Goes, Loads
  <2>2. CatalogueTypeOK' /\ Owned' /\ \A n \in pulled' : Found(n)'
    BY <2>1, DiskGrows, Growing
  <2>3. op'.kind = "load" /\ op'.by = op.by /\ op'.target = op.target
    BY <2>1
  <2>4. OpOK(op)'
    BY <2>1, <2>3, AloneStays DEF disk, CatalogueInv, OpOK, LoadOK
  <2> QED
    BY <2>2, <2>3, <2>4 DEF CatalogueInv
<1>11. CASE Convert \/ ConvertEnds
  <2>1. Grows
    BY <1>11 DEF Convert, ConvertEnds, Goes, Grows, CatalogueInv, CatalogueTypeOK, Amounts, Parts
  <2>2. CatalogueTypeOK' /\ Owned' /\ \A n \in pulled' : Found(n)'
    BY <2>1, Growing
  <2>3. /\ op.kind \in {"load", "convert"} /\ op'.kind \in {"load", "convert"}
        /\ op'.by = op.by /\ op'.target = op.target
    <3>1. CASE Convert
      BY <3>1 DEF Convert, Goes, Loads
    <3>2. CASE ConvertEnds
      BY <3>2 DEF ConvertEnds, Goes
    <3> QED
      BY <1>11, <3>1, <3>2
  <2>4. OpOK(op)'
    BY <2>1, <2>3, AloneStays DEF Grows, CatalogueInv, OpOK, LoadOK
  <2> QED
    BY <2>2, <2>3, <2>4 DEF CatalogueInv
<1>12. CASE UNCHANGED vars
  <2>1. UNCHANGED <<shards, writers, hub, own, copies, op, pulled>>
    BY <1>12 DEF vars, disk
  <2>2. CatalogueTypeOK' /\ Owned' /\ \A n \in pulled' : Found(n)'
    BY <1>12, DiskGrows, Growing DEF vars
  <2>3. Listed(op)' <=> Listed(op)
    BY <2>1 DEF Listed, Has
  <2>4. OpOK(op)'
    BY <2>1, AloneStays DEF CatalogueInv, OpOK, DownloadOK, WriteOK, LoadOK, RunningOK
  <2> QED
    BY <2>1, <2>2, <2>3, <2>4 DEF CatalogueInv
<1> QED
  BY <1>1, <1>2, <1>3, <1>4, <1>5, <1>6, <1>7, <1>8, <1>9, <1>10, <1>11, <1>12 DEF Next

LEMMA CatalogueMeans ==
    ASSUME CatalogueInv
    PROVE  CatalogueSound
<1>1. RunsItsModel
  BY DEF CatalogueInv, OpOK, RunningOK, RunsItsModel
<1>2. PulledRuns
  <2>1. ASSUME NEW n \in pulled, NEW online \in BOOLEAN
        PROVE  /\ Alone(n) => Resolve(n, None, None, online).model = ModelOf[n]
               /\ ~Resolve(n, None, None, online).needsPull
    <3>1. n \in Names /\ Found(n) /\ CatalogueTypeOK /\ Owned
      BY DEF CatalogueInv, CatalogueTypeOK
    <3> QED
      BY <3>1, ResolveOK, NeedsPull
  <2> QED
    BY <2>1 DEF PulledRuns
<1>3. RmForgets
  <2>1. SUFFICES ASSUME op.kind = "rm", RmDone
                 PROVE  /\ \A n \in Names :
                              ModelOf[n] = ModelOf[op.by] /\ Range(DirsOf[n]) \subseteq Range(DirsOf[op.by])
                                => Resolve(n, None, None, FALSE).needsPull
                        /\ hub[ModelOf[op.by]] = "none" /\ own[ModelOf[op.by]] = "none"
                        /\ \A q \in Quants : copies[<<ModelOf[op.by], q>>] = {}
    BY DEF RmForgets
  <2>2. Listed(op) /\ op.by \in Names /\ CatalogueTypeOK
    BY <2>1 DEF CatalogueInv, Listed
  <2>3. hub[ModelOf[op.by]] = "none" /\ own[ModelOf[op.by]] = "none"
    BY <2>1, <2>2 DEF Listed, RmDone
  <2>4. \A q \in Quants : copies[<<ModelOf[op.by], q>>] = {}
    BY <2>1, <2>2 DEF Listed, RmDone
  <2>5. \A d \in Range(DirsOf[op.by]) : ~Has(d, Manifest)
    BY <2>1, <2>2, FilesOK DEF Listed, RmDone
  <2>7. ASSUME NEW n \in Names, ModelOf[n] = ModelOf[op.by],
               Range(DirsOf[n]) \subseteq Range(DirsOf[op.by])
        PROVE  Resolve(n, None, None, FALSE).needsPull
    <3>1. ~Found(n)
      BY <2>3, <2>5, <2>7 DEF Found
    <3> QED
      BY <2>2, <3>1, NeedsPull
  <2> QED
    BY <2>3, <2>4, <2>7
<1> QED
  BY <1>1, <1>2, <1>3 DEF CatalogueSound

\* The inductive invariant of the catalogue: a directory holds files of the models
\* that were pulled into it, also when several share it; a finished pull is found; what
\* a command is about to load is its model's if that is the only one; and a removal
\* lists all that is left.
THEOREM CatalogueInvariance == Spec => []CatalogueInv
<1>1. Init => CatalogueInv
  BY CatalogueStart
<1>2. CatalogueInv /\ [Next]_vars => CatalogueInv'
  BY CatalogueStep
<1> QED
  BY <1>1, <1>2, PTL DEF Spec

\* For any models, names, directories and commands, each interrupted anywhere: a name
\* into whose directories no other model was pulled runs its own, whole; a finished pull
\* is found until it is removed; and a removal leaves nothing of the model in a cache, as
\* a copy, or where the typed name is looked for (cli.py, cli_resolve.py, cli_models.py).
THEOREM CatalogueIsSound == Spec => []CatalogueSound
<1>1. CatalogueInv => CatalogueSound
  BY CatalogueMeans
<1> QED
  BY <1>1, CatalogueInvariance, PTL

-----------------------------------------------------------------------------
(* The profiler.                                                           *)

Statuses == {"none", "sync", "hit", "wait"}

TraceRecords == [token : Nat, at : [Stages -> Nat], now : Nat, status : Statuses]

\* No stage was stamped after the last stamp; and what was waited for was submitted.
TraceOK(t) ==
    /\ t \in TraceRecords
    /\ \A s \in Stages : t.at[s] <= t.now
    /\ t.status \in {"hit", "wait"} => t.at["prefetch_submit"] > 0

\* The first n stages of the lifecycle were stamped one after the other.
Reached(t, n) == \A i \in 1..(n - 1) : t.at[Lifecycle[i]] < t.at[Lifecycle[i + 1]]

Submitted(l) == l \in DOMAIN prof.current /\ prof.current[l].at["prefetch_submit"] > 0

TracesOK ==
    /\ prof = [current |-> prof.current, merged |-> prof.merged, tokens |-> prof.tokens,
               report |-> prof.report]
    /\ prof.tokens \in Nat
    /\ DOMAIN prof.current \subseteq Traced
    /\ \A l \in DOMAIN prof.current :
          /\ TraceOK(prof.current[l])
          /\ run.pc \notin {"begin", "done"} => prof.current[l].token = prof.tokens

MergedOK ==
    /\ DOMAIN prof.merged = IF prof.tokens > 0 THEN Traced ELSE {}
    /\ \A l \in DOMAIN prof.merged :
          /\ TraceOK(prof.merged[l]) /\ prof.merged[l].token = prof.tokens - 1
          /\ Reached(prof.merged[l], 12)

Passing == {"ready", "compute", "computing", "evict", "evicting", "next"}

RunOK ==
    /\ run = [pc |-> run.pc, token |-> run.token, layer |-> run.layer, todo |-> run.todo,
              retried |-> run.retried, prefetch |-> run.prefetch, synced |-> run.synced,
              waited |-> run.waited, failures |-> run.failures]
    /\ run.pc \in {"begin", "prefetch", "wait", "sync", "ended", "done"} \cup Passing
    /\ run.layer \in Traced /\ run.synced \in Nat /\ run.waited \in {"none", "hit", "wait"}
    /\ run.todo \in Seq(Int) /\ \A i \in 1..Len(run.todo) : run.todo[i] >= run.layer

\* A job has stamped its stages in order, and there are none behind the main thread.
JobsOK ==
    /\ jobs \in [Traced -> {NoJob, FailedJob} \cup 0..JobStages]
    /\ \A l \in Traced : jobs[l] # NoJob =>
          /\ Submitted(l) /\ (jobs[l] >= 0 => Reached(prof.current[l], jobs[l] + 1))
          /\ l >= run.layer /\ run.pc # "begin"
          /\ l = run.layer => run.pc \in {"prefetch", "wait", "ended", "done"}

\* The main thread has stamped n stages of its layer.
MainReached(n) ==
    run.layer \in DOMAIN prof.current /\ Reached(prof.current[run.layer], n)

\* The layers behind the main thread are done with, its own as far as it is.
MainOK ==
    /\ run.pc \notin {"begin", "done"} =>
          \A l \in 0..(run.layer - 1) : l \in DOMAIN prof.current /\ Reached(prof.current[l], 12)
    /\ run.pc = "wait" => jobs[run.layer] # NoJob /\ run.synced = 0
    /\ run.pc \in {"sync", "ready"} /\ run.waited # "none" => Submitted(run.layer)
    /\ run.pc = "sync" => run.synced < JobStages /\ (run.synced > 0 => MainReached(run.synced + 1))
    /\ run.pc = "ready" => MainReached(7)
    /\ run.pc = "compute" => MainReached(8)
    /\ run.pc = "computing" => MainReached(9)
    /\ run.pc = "evict" => MainReached(10)
    /\ run.pc = "evicting" => MainReached(11)
    /\ run.pc = "next" => MainReached(12)

ReportOK == run.pc = "done" => prof.report = PipelineMetrics(prof)

ProfilerInv == RunOK /\ TracesOK /\ MergedOK /\ JobsOK /\ MainOK /\ ReportOK

\* Stages are in the lifecycle once.
LEMMA StagesDiffer ==
    /\ \A i \in 1..12 : Lifecycle[i] \in Stages
    /\ \A i, j \in 1..12 : i # j => Lifecycle[i] # Lifecycle[j]
    /\ Lifecycle[1] = "prefetch_submit" /\ Lifecycle[8] = "ready"
    /\ Lifecycle[9] = "compute_start" /\ Lifecycle[10] = "compute_end"
    /\ Lifecycle[11] = "evict_start" /\ Lifecycle[12] = "evict_end"
<1>1. \A i \in 1..12 : Lifecycle[i] \in Stages
  BY DEF Stages
<1>2. ASSUME NEW i \in 1..12, NEW j \in 1..12, i # j PROVE Lifecycle[i] # Lifecycle[j]
  BY <1>2 DEF Lifecycle
<1> QED
  BY <1>1, <1>2 DEF Lifecycle

LEMMA TraceGiven ==
    ASSUME TracesOK, NEW l \in Traced
    PROVE  LET t == GetTrace(prof, l)
           IN  /\ TraceOK(t)
               /\ l \in DOMAIN prof.current => t = prof.current[l]
               /\ l \notin DOMAIN prof.current => t.token = prof.tokens
<1> DEFINE n == NewTrace(prof.tokens)
<1>1. prof.tokens \in Nat
  BY DEF TracesOK
<1>2. n \in TraceRecords /\ (\A s \in Stages : n.at[s] = 0) /\ n.now = 0 /\ n.status = "none"
      /\ n.token = prof.tokens
  BY <1>1 DEF NewTrace, TraceRecords, Statuses
<1> HIDE DEF n
<1>3. TraceOK(n)
  BY <1>2 DEF TraceOK
<1>4. GetTrace(prof, l) = IF l \in DOMAIN prof.current THEN prof.current[l] ELSE n
  BY DEF GetTrace, n
<1>5. l \in DOMAIN prof.current => TraceOK(prof.current[l])
  BY DEF TracesOK
<1> QED
  BY <1>2, <1>3, <1>4, <1>5

\* What a stamp does to the profiler: one trace gets one time, later than its others.
StampedAt(q, l, s) ==
    LET t == GetTrace(prof, l)
        u == q.current[l]
    IN  /\ q = [current |-> q.current, merged |-> prof.merged, tokens |-> prof.tokens,
                report |-> prof.report]
        /\ q.merged = prof.merged /\ q.tokens = prof.tokens /\ q.report = prof.report
        /\ DOMAIN q.current = DOMAIN prof.current \cup {l}
        /\ \A k \in DOMAIN prof.current : k # l => q.current[k] = prof.current[k]
        /\ TraceOK(u) /\ u.token = t.token
        /\ \A x \in Stages : x # s => u.at[x] = t.at[x] /\ u.at[x] < u.at[s]
        /\ u.at[s] > 0
        /\ t.at["prefetch_submit"] > 0 => u.at["prefetch_submit"] > 0

LEMMA StampLemma ==
    ASSUME TracesOK, NEW l \in Traced, NEW s \in Stages
    PROVE  StampedAt(Stamp(prof, l, s), l, s)
<1> DEFINE t == GetTrace(prof, l)
           v == [t EXCEPT !.at[s] = t.now + 1, !.now = @ + 1]
           q == Stamp(prof, l, s)
           c == [k \in DOMAIN prof.current \cup {l} |-> IF k = l THEN v ELSE prof.current[k]]
<1>1. TraceOK(t)
  BY TraceGiven
<1>2. q = [prof EXCEPT !.current = c]
  BY DEF Stamp, WithTrace
<1> HIDE DEF c
<1>3. prof = [current |-> prof.current, merged |-> prof.merged, tokens |-> prof.tokens,
              report |-> prof.report]
  BY DEF TracesOK
<1>4. q = [current |-> c, merged |-> prof.merged, tokens |-> prof.tokens, report |-> prof.report]
  BY <1>2, <1>3
<1> HIDE DEF q
<1>5. q.current = c /\ q.merged = prof.merged /\ q.tokens = prof.tokens /\ q.report = prof.report
  BY <1>4
<1> HIDE DEF v
<1>6. /\ DOMAIN c = DOMAIN prof.current \cup {l} /\ c[l] = v
      /\ \A k \in DOMAIN prof.current : k # l => c[k] = prof.current[k]
  BY DEF c
<1> HIDE DEF t
<1>7. t \in TraceRecords /\ \A x \in Stages : t.at[x] <= t.now
  BY <1>1 DEF TraceOK
<1>8. /\ v \in TraceRecords /\ v.token = t.token /\ v.status = t.status /\ v.now = t.now + 1
      /\ v.at = [t.at EXCEPT ![s] = t.now + 1]
  <2> DEFINE a == [t.at EXCEPT ![s] = t.now + 1]
             m == t.now + 1
  <2>1. v = [t EXCEPT !.at = a, !.now = m]
    BY DEF v
  <2>2. a \in [Stages -> Nat] /\ m \in Nat
    BY <1>7 DEF TraceRecords
  <2>3. t = [token |-> t.token, at |-> t.at, now |-> t.now, status |-> t.status]
        /\ t.token \in Nat /\ t.status \in Statuses
    BY <1>7 DEF TraceRecords
  <2> HIDE DEF a, m, v
  <2>4. v = [token |-> t.token, at |-> a, now |-> m, status |-> t.status]
    BY <2>1, <2>3
  <2>5. v.token = t.token /\ v.status = t.status /\ v.now = m /\ v.at = a
    BY <2>4
  <2>6. v \in TraceRecords
    BY <2>2, <2>3, <2>4 DEF TraceRecords
  <2> QED
    BY <2>5, <2>6 DEF a, m
<1>9. v.at[s] = t.now + 1 /\ \A x \in Stages : x # s => v.at[x] = t.at[x]
  BY <1>7, <1>8 DEF TraceRecords
<1>10. t.now \in Nat /\ \A x \in Stages : t.at[x] \in Nat
  BY <1>7 DEF TraceRecords
<1>11. /\ \A x \in Stages : v.at[x] <= v.now
       /\ \A x \in Stages : x # s => v.at[x] < v.at[s]
  BY <1>7, <1>8, <1>9, <1>10
<1>12. t.at["prefetch_submit"] > 0 => v.at["prefetch_submit"] > 0
  BY <1>7, <1>9, <1>10, StagesDiffer
<1>13. TraceOK(v)
  BY <1>1, <1>8, <1>11, <1>12 DEF TraceOK
<1>14. v.at[s] > 0
  BY <1>9, <1>10
<1> QED
  BY <1>4, <1>5, <1>6, <1>8, <1>9, <1>11, <1>12, <1>13, <1>14 DEF q, t, StampedAt

\* end_ensure() stamps, and notes how the layer was found.
LEMMA EndEnsureLemma ==
    ASSUME TracesOK, NEW l \in Traced, NEW status \in Statuses,
           status \in {"hit", "wait"} => Submitted(l)
    PROVE  StampedAt(EndEnsure(prof, l, status), l, "ready")
<1> DEFINE q == Stamp(prof, l, "ready")
           u == q.current[l]
           v == [u EXCEPT !.status = status]
           c == [k \in DOMAIN q.current \cup {l} |-> IF k = l THEN v ELSE q.current[k]]
           r == EndEnsure(prof, l, status)
<1>1. "ready" \in Stages /\ "prefetch_submit" \in Stages
  BY StagesDiffer
<1>2. StampedAt(q, l, "ready")
  BY <1>1, StampLemma
<1>3. r = [q EXCEPT !.current = c]
  BY DEF EndEnsure, WithTrace
<1> HIDE DEF c, r, q
<1>4. q = [current |-> q.current, merged |-> prof.merged, tokens |-> prof.tokens,
           report |-> prof.report]
  BY <1>2 DEF StampedAt
<1>5. r = [current |-> c, merged |-> prof.merged, tokens |-> prof.tokens, report |-> prof.report]
  BY <1>3, <1>4
<1>6. r.current = c /\ r.merged = prof.merged /\ r.tokens = prof.tokens /\ r.report = prof.report
  BY <1>5
<1> HIDE DEF v
<1>7. /\ DOMAIN c = DOMAIN q.current \cup {l} /\ c[l] = v
      /\ \A k \in DOMAIN q.current : k # l => c[k] = q.current[k]
  BY DEF c
<1> HIDE DEF u
<1>8. /\ TraceOK(u) /\ u.token = GetTrace(prof, l).token
      /\ DOMAIN q.current = DOMAIN prof.current \cup {l}
      /\ \A k \in DOMAIN prof.current : k # l => q.current[k] = prof.current[k]
  BY <1>2 DEF StampedAt, u
<1>9. /\ \A x \in Stages : x # "ready" => u.at[x] = GetTrace(prof, l).at[x] /\ u.at[x] < u.at["ready"]
      /\ u.at["ready"] > 0
      /\ GetTrace(prof, l).at["prefetch_submit"] > 0 => u.at["prefetch_submit"] > 0
  BY <1>2 DEF StampedAt, u
<1>10. v \in TraceRecords /\ v.token = u.token /\ v.at = u.at /\ v.now = u.now /\ v.status = status
  BY <1>8 DEF v, TraceOK, TraceRecords
<1>11. status \in {"hit", "wait"} => u.at["prefetch_submit"] > 0
  BY <1>9, TraceGiven DEF Submitted
<1>12. TraceOK(v)
  BY <1>8, <1>10, <1>11 DEF TraceOK
<1>13. /\ DOMAIN c = DOMAIN prof.current \cup {l}
       /\ \A k \in DOMAIN prof.current : k # l => c[k] = prof.current[k]
  BY <1>7, <1>8
<1> QED
  BY <1>5, <1>6, <1>7, <1>8, <1>9, <1>10, <1>12, <1>13 DEF StampedAt, r

\* The next stage of the lifecycle is stamped after those before it.
LEMMA NextReached ==
    ASSUME TracesOK, NEW l \in Traced, NEW n \in 1..11, Reached(GetTrace(prof, l), n),
           NEW q, StampedAt(q, l, Lifecycle[n + 1])
    PROVE  Reached(q.current[l], n + 1)
<1> DEFINE t == GetTrace(prof, l)
           s == Lifecycle[n + 1]
           u == q.current[l]
<1>2. \A x \in Stages : x # s => u.at[x] = t.at[x] /\ u.at[x] < u.at[s]
  BY DEF StampedAt
<1>3. \A i \in 1..n : Lifecycle[i] \in Stages /\ Lifecycle[i] # s
  BY StagesDiffer
<1>4. \A i \in 1..(n - 1) : t.at[Lifecycle[i]] < t.at[Lifecycle[i + 1]]
  BY DEF Reached
<1> HIDE DEF t, u
<1>5. ASSUME NEW i \in 1..n PROVE u.at[Lifecycle[i]] < u.at[Lifecycle[i + 1]]
  <2>1. CASE i = n
    BY <1>2, <1>3, <2>1
  <2>2. CASE i # n
    <3>1. i \in 1..(n - 1) /\ i + 1 \in 1..n
      BY <2>2
    <3>2. u.at[Lifecycle[i]] = t.at[Lifecycle[i]] /\ u.at[Lifecycle[i + 1]] = t.at[Lifecycle[i + 1]]
      BY <1>2, <1>3, <3>1
    <3> QED
      BY <1>4, <3>1, <3>2
  <2> QED
    BY <2>1, <2>2
<1>6. Reached(u, n + 1)
  BY <1>5 DEF Reached
<1> QED
  BY <1>6 DEF u

\* A stamp of a layer leaves the finished tokens, and the other layers.
LEMMA StampSteps ==
    ASSUME ProfilerInv, NEW l \in Traced, NEW s \in Stages, StampedAt(prof', l, s),
           run'.pc \in {"begin", "done"} <=> run.pc \in {"begin", "done"},
           run'.pc = "done" => run.pc = "done"
    PROVE  /\ TracesOK' /\ MergedOK' /\ ReportOK'
           /\ \A k \in Traced : Submitted(k) => Submitted(k)'
           /\ \A k \in Traced : k # l /\ k \in DOMAIN prof.current =>
                 k \in DOMAIN prof'.current /\ prof'.current[k] = prof.current[k]
<1> DEFINE t == GetTrace(prof, l)
           u == prof'.current[l]
<1>1. /\ prof' = [current |-> prof'.current, merged |-> prof.merged, tokens |-> prof.tokens,
                  report |-> prof.report]
      /\ prof'.merged = prof.merged /\ prof'.tokens = prof.tokens /\ prof'.report = prof.report
      /\ DOMAIN prof'.current = DOMAIN prof.current \cup {l}
      /\ \A k \in DOMAIN prof.current : k # l => prof'.current[k] = prof.current[k]
      /\ TraceOK(u) /\ u.token = t.token
      /\ t.at["prefetch_submit"] > 0 => u.at["prefetch_submit"] > 0
  BY DEF StampedAt
<1>2. /\ l \in DOMAIN prof.current => t = prof.current[l]
      /\ l \notin DOMAIN prof.current => t.token = prof.tokens
  BY TraceGiven DEF ProfilerInv
<1> HIDE DEF t
<1>3. TracesOK'
  <2>1. prof' = [current |-> prof'.current, merged |-> prof'.merged, tokens |-> prof'.tokens,
                 report |-> prof'.report]
    BY <1>1
  <2>2. ASSUME NEW k \in DOMAIN prof'.current
        PROVE  /\ TraceOK(prof'.current[k])
               /\ run'.pc \notin {"begin", "done"} => prof'.current[k].token = prof'.tokens
    <3>1. CASE k = l
      BY <1>1, <1>2, <3>1 DEF ProfilerInv, TracesOK
    <3>2. CASE k # l
      BY <1>1, <2>2, <3>2 DEF ProfilerInv, TracesOK
    <3> QED
      BY <3>1, <3>2
  <2>3. prof'.tokens \in Nat /\ DOMAIN prof'.current \subseteq Traced
    BY <1>1 DEF ProfilerInv, TracesOK
  <2> QED
    BY <2>1, <2>2, <2>3 DEF TracesOK
<1>4. MergedOK'
  BY <1>1 DEF ProfilerInv, MergedOK, TraceOK, Reached
<1>5. PipelineMetrics(prof') = PipelineMetrics(prof)
  BY <1>1 DEF PipelineMetrics, Collected, CountOverlap, Duration
<1>6. ReportOK'
  BY <1>1, <1>5 DEF ProfilerInv, ReportOK
<1>7. ASSUME NEW k \in Traced, Submitted(k) PROVE Submitted(k)'
  <2>1. CASE k = l
    BY <1>1, <1>2, <1>7, <2>1 DEF Submitted
  <2>2. CASE k # l
    BY <1>1, <1>7, <2>2 DEF Submitted
  <2> QED
    BY <2>1, <2>2
<1> QED
  BY <1>1, <1>3, <1>4, <1>6, <1>7

\* What a step of the main thread keeps in run.
LEMMA RunKept ==
    ASSUME RunOK, NEW p, NEW synced \in Nat, NEW waited \in {"none", "hit", "wait"},
           p \in {"begin", "prefetch", "wait", "sync", "ended", "done"} \cup Passing,
           run' = [run EXCEPT !.pc = p, !.synced = synced, !.waited = waited]
    PROVE  /\ RunOK' /\ run'.pc = p /\ run'.layer = run.layer /\ run'.todo = run.todo
           /\ run'.synced = synced /\ run'.waited = waited
<1>1. run' = [pc |-> p, token |-> run.token, layer |-> run.layer, todo |-> run.todo,
              retried |-> run.retried, prefetch |-> run.prefetch, synced |-> synced,
              waited |-> waited, failures |-> run.failures]
  BY DEF RunOK
<1>2. /\ run'.pc = p /\ run'.layer = run.layer /\ run'.todo = run.todo /\ run'.synced = synced
      /\ run'.waited = waited /\ run'.token = run.token /\ run'.retried = run.retried
      /\ run'.prefetch = run.prefetch /\ run'.failures = run.failures
  BY <1>1
<1> QED
  BY <1>1, <1>2 DEF RunOK

\* The main thread stamps the next stage of its layer.
LEMMA MainStamps ==
    ASSUME ProfilerInv, NEW n \in 1..11, RunOK', StampedAt(prof', run.layer, Lifecycle[n + 1]),
           run.pc \in {"sync"} \cup Passing, run'.pc \in {"sync"} \cup Passing,
           n = 1 \/ MainReached(n), jobs' = jobs, run'.layer = run.layer, run'.waited = run.waited
    PROVE  /\ TracesOK' /\ MergedOK' /\ ReportOK' /\ JobsOK'
           /\ MainReached(n + 1)'
           /\ \A l \in 0..(run'.layer - 1) :
                 l \in DOMAIN prof'.current /\ Reached(prof'.current[l], 12)
           /\ run.pc \in {"sync", "ready"} /\ run'.waited # "none" => Submitted(run.layer)'
<1> DEFINE m == run.layer
           s == Lifecycle[n + 1]
<1>1. m \in Traced /\ s \in Stages
  BY StagesDiffer DEF ProfilerInv, RunOK
<1>2. /\ TracesOK' /\ MergedOK' /\ ReportOK'
      /\ \A k \in Traced : Submitted(k) => Submitted(k)'
      /\ \A k \in Traced : k # m /\ k \in DOMAIN prof.current =>
            k \in DOMAIN prof'.current /\ prof'.current[k] = prof.current[k]
  BY <1>1, StampSteps DEF Passing
<1>3. jobs[m] = NoJob
  BY <1>1 DEF ProfilerInv, JobsOK, Passing
<1>4. JobsOK'
  <2>1. jobs \in [Traced -> {NoJob, FailedJob} \cup 0..JobStages]
    BY DEF ProfilerInv, JobsOK
  <2>2. ASSUME NEW k \in Traced, jobs[k] # NoJob
        PROVE  /\ k # m /\ Submitted(k)' /\ k >= m
               /\ jobs[k] >= 0 => Reached(prof'.current[k], jobs[k] + 1)
    <3>1. /\ Submitted(k) /\ (jobs[k] >= 0 => Reached(prof.current[k], jobs[k] + 1)) /\ k >= m
      BY <2>2 DEF ProfilerInv, JobsOK
    <3>2. k # m /\ k \in DOMAIN prof.current
      BY <1>3, <2>2, <3>1 DEF Submitted
    <3> QED
      BY <1>2, <3>1, <3>2
  <2>3. run'.pc # "begin" /\ run'.layer = m
    BY DEF Passing
  <2> HIDE DEF m
  <2> QED
    BY <2>1, <2>2, <2>3 DEF JobsOK
<1>5. Reached(GetTrace(prof, m), n)
  <2>1. n = 1 => Reached(GetTrace(prof, m), n)
    BY DEF Reached
  <2>2. MainReached(n) => Reached(GetTrace(prof, m), n)
    BY <1>1, TraceGiven DEF MainReached, ProfilerInv
  <2> QED
    BY <2>1, <2>2
<1>6. MainReached(n + 1)'
  <2>1. Reached(prof'.current[m], n + 1)
    BY <1>1, <1>5, NextReached DEF ProfilerInv
  <2>2. m \in DOMAIN prof'.current
    BY DEF StampedAt
  <2> QED
    BY <2>1, <2>2 DEF MainReached
<1>7. \A l \in 0..(m - 1) : l \in DOMAIN prof'.current /\ Reached(prof'.current[l], 12)
  <2>1. \A l \in 0..(m - 1) : l \in Traced /\ l # m
    BY <1>1, ProfilerAssumption DEF Traced
  <2>2. \A l \in 0..(m - 1) : l \in DOMAIN prof.current /\ Reached(prof.current[l], 12)
    BY DEF ProfilerInv, MainOK, Passing
  <2> QED
    BY <1>2, <2>1, <2>2
<1>8. run.pc \in {"sync", "ready"} /\ run'.waited # "none" => Submitted(m)'
  BY <1>1, <1>2 DEF ProfilerInv, MainOK
<1> QED
  BY <1>2, <1>4, <1>6, <1>7, <1>8

LEMMA JobStepped == ProfilerInv /\ (\E l \in Traced : JobStep(l)) => ProfilerInv'
<1> SUFFICES ASSUME ProfilerInv, NEW l \in Traced, JobStep(l) PROVE ProfilerInv'
  OBVIOUS
<1> DEFINE n == jobs[l] + 1
           s == Lifecycle[n + 1]
<1>1. /\ jobs[l] >= 0 /\ jobs[l] # 6 /\ prof' = Stamp(prof, l, s) /\ run' = run
      /\ jobs' = [jobs EXCEPT ![l] = jobs[l] + 1]
  BY DEF JobStep, Running, Done, JobStage, JobStages
<1>2. jobs \in [Traced -> {NoJob, FailedJob} \cup 0..6] /\ jobs[l] \in 0..5 /\ n \in 1..6
  BY <1>1 DEF ProfilerInv, JobsOK, JobStages, NoJob, FailedJob
<1>3. /\ Submitted(l) /\ Reached(prof.current[l], n) /\ l >= run.layer /\ run.pc # "begin"
      /\ l = run.layer => run.pc \in {"prefetch", "wait", "ended", "done"}
  BY <1>1, <1>2 DEF ProfilerInv, JobsOK, NoJob
<1>4. s \in Stages
  BY <1>2, StagesDiffer
<1>5. StampedAt(prof', l, s)
  BY <1>1, <1>4, StampLemma DEF ProfilerInv
<1>6. /\ TracesOK' /\ MergedOK' /\ ReportOK'
      /\ \A k \in Traced : Submitted(k) => Submitted(k)'
      /\ \A k \in Traced : k # l /\ k \in DOMAIN prof.current =>
            k \in DOMAIN prof'.current /\ prof'.current[k] = prof.current[k]
  BY <1>1, <1>4, <1>5, StampSteps
<1>7. Reached(prof'.current[l], n + 1)
  <2>1. n \in 1..11 /\ Reached(GetTrace(prof, l), n)
    BY <1>2, <1>3, TraceGiven DEF ProfilerInv, Submitted
  <2> HIDE DEF n
  <2> QED
    BY <1>5, <2>1, NextReached DEF ProfilerInv
<1>8. RunOK'
  BY <1>1 DEF ProfilerInv, RunOK
<1> HIDE DEF s
<1>9. JobsOK'
  <2>1. jobs' \in [Traced -> {NoJob, FailedJob} \cup 0..JobStages] /\ jobs'[l] = n
        /\ \A k \in Traced : k # l => jobs'[k] = jobs[k]
    BY <1>1, <1>2 DEF JobStages
  <2> HIDE DEF n
  <2>2. ASSUME NEW k \in Traced, jobs'[k] # NoJob
        PROVE  /\ Submitted(k)' /\ k >= run.layer
               /\ jobs'[k] >= 0 => Reached(prof'.current[k], jobs'[k] + 1)
               /\ k = run.layer => run.pc \in {"prefetch", "wait", "ended", "done"}
    <3>1. CASE k = l
      BY <1>3, <1>6, <1>7, <2>1, <3>1
    <3>2. CASE k # l
      <4>1. jobs'[k] = jobs[k]
        BY <2>1, <3>2
      <4>2. /\ Submitted(k) /\ (jobs[k] >= 0 => Reached(prof.current[k], jobs[k] + 1))
            /\ k >= run.layer /\ k = run.layer => run.pc \in {"prefetch", "wait", "ended", "done"}
        BY <2>2, <4>1 DEF ProfilerInv, JobsOK
      <4>3. prof'.current[k] = prof.current[k]
        BY <1>6, <3>2, <4>2 DEF Submitted
      <4>4. k >= run.layer /\ (k = run.layer => run.pc \in {"prefetch", "wait", "ended", "done"})
        BY <2>2, <4>1 DEF ProfilerInv, JobsOK
      <4> QED
        BY <1>6, <4>1, <4>2, <4>3, <4>4
    <3> QED
      BY <3>1, <3>2
  <2>3. run'.pc # "begin" /\ run'.layer = run.layer /\ run'.pc = run.pc
    BY <1>1, <1>3
  <2> QED
    BY <2>1, <2>2, <2>3 DEF JobsOK
<1>10. MainOK'
  <2>1. \A k \in 0..(run.layer - 1) : k \in Traced /\ k # l
    BY <1>3, ProfilerAssumption DEF ProfilerInv, RunOK, Traced
  <2>2. run.pc \notin {"begin", "done"} => \A k \in 0..(run.layer - 1) :
          k \in DOMAIN prof'.current /\ Reached(prof'.current[k], 12)
    <3>1. run.pc \notin {"begin", "done"} => \A k \in 0..(run.layer - 1) :
            k \in DOMAIN prof.current /\ Reached(prof.current[k], 12)
      BY DEF ProfilerInv, MainOK
    <3> QED
      BY <1>6, <2>1, <3>1
  <2>3. run.pc \in {"sync"} \cup Passing => l # run.layer
    BY <1>3 DEF Passing
  <2>4. ASSUME NEW k, run.pc \in {"sync"} \cup Passing, MainReached(k) PROVE MainReached(k)'
    BY <1>1, <1>6, <2>3, <2>4 DEF MainReached, ProfilerInv, RunOK
  <2>5. run.pc = "wait" => jobs'[run.layer] # NoJob /\ run.synced = 0
    <3>1. run.pc = "wait" => jobs[run.layer] # NoJob /\ run.synced = 0
      BY DEF ProfilerInv, MainOK
    <3>2. jobs'[l] = n /\ \A k \in Traced : k # l => jobs'[k] = jobs[k]
      BY <1>1, <1>2
    <3>3. n # NoJob /\ run.layer \in Traced
      BY <1>2 DEF NoJob, ProfilerInv, RunOK
    <3> HIDE DEF n
    <3> QED
      BY <3>1, <3>2, <3>3
  <2>6. run.pc \in {"sync", "ready"} /\ run.waited # "none" => Submitted(run.layer)'
    BY <1>1, <1>6 DEF ProfilerInv, MainOK, RunOK
  <2>7. run.pc = "sync" => run.synced < JobStages /\ (run.synced > 0 => MainReached(run.synced + 1)')
    <3>1. run.pc = "sync" => run.synced < JobStages /\ (run.synced > 0 => MainReached(run.synced + 1))
      BY DEF ProfilerInv, MainOK
    <3>2. MainReached(run.synced + 1)' = (run.layer \in DOMAIN prof'.current
                                          /\ Reached(prof'.current[run.layer], run.synced + 1))
      BY <1>1 DEF MainReached
    <3>3. ASSUME run.pc = "sync", run.synced > 0 PROVE MainReached(run.synced + 1)'
      BY <1>6, <2>3, <3>1, <3>2, <3>3 DEF MainReached, ProfilerInv, RunOK
    <3> QED
      BY <3>1, <3>3
  <2>8. /\ run.pc = "ready" => MainReached(7)'
        /\ run.pc = "compute" => MainReached(8)'
        /\ run.pc = "computing" => MainReached(9)'
        /\ run.pc = "evict" => MainReached(10)'
        /\ run.pc = "evicting" => MainReached(11)'
        /\ run.pc = "next" => MainReached(12)'
    BY <2>4 DEF ProfilerInv, MainOK, Passing
  <2> QED
    BY <1>1, <2>2, <2>5, <2>6, <2>7, <2>8 DEF MainOK
<1> QED
  BY <1>6, <1>8, <1>9, <1>10 DEF ProfilerInv

LEMMA JobFailed == ProfilerInv /\ (\E l \in Traced : JobFails(l)) => ProfilerInv'
<1> SUFFICES ASSUME ProfilerInv, NEW l \in Traced, JobFails(l) PROVE ProfilerInv'
  OBVIOUS
<1>1. /\ jobs[l] # NoJob /\ jobs' = [jobs EXCEPT ![l] = FailedJob] /\ prof' = prof
      /\ run' = [run EXCEPT !.failures = run.failures + 1]
  BY DEF JobFails, Running, NoJob
<1>2. RunOK' /\ run'.pc = run.pc /\ run'.layer = run.layer /\ run'.synced = run.synced
      /\ run'.waited = run.waited
  <2>1. run' = [pc |-> run.pc, token |-> run.token, layer |-> run.layer, todo |-> run.todo,
                retried |-> run.retried, prefetch |-> run.prefetch, synced |-> run.synced,
                waited |-> run.waited, failures |-> run.failures + 1]
    BY <1>1 DEF ProfilerInv, RunOK
  <2> QED
    BY <2>1 DEF ProfilerInv, RunOK
<1>3. TracesOK' /\ MergedOK' /\ ReportOK'
  BY <1>1, <1>2 DEF ProfilerInv, TracesOK, MergedOK, ReportOK
<1>4. jobs \in [Traced -> {NoJob, FailedJob} \cup 0..JobStages]
  BY DEF ProfilerInv, JobsOK
<1>5. jobs'[l] = FailedJob /\ \A k \in Traced : k # l => jobs'[k] = jobs[k]
  BY <1>1, <1>4
<1>6. jobs' \in [Traced -> {NoJob, FailedJob} \cup 0..JobStages]
  BY <1>1, <1>4
<1>7. FailedJob # NoJob /\ ~(FailedJob >= 0)
  BY DEF FailedJob, NoJob
<1>8. JobsOK'
  BY <1>1, <1>2, <1>5, <1>6, <1>7 DEF ProfilerInv, JobsOK, Submitted
<1>9. MainOK'
  BY <1>1, <1>2, <1>5, <1>7 DEF ProfilerInv, MainOK, RunOK, MainReached, Submitted
<1> QED
  BY <1>2, <1>3, <1>8, <1>9 DEF ProfilerInv

\* Steps that leave the profiler and the jobs alone, or the traces of a token.
LEMMA TracesKept ==
    ASSUME ProfilerInv, prof' = prof,
           run'.pc \in {"begin", "done"} <=> run.pc \in {"begin", "done"},
           run'.pc = "done" => run.pc = "done"
    PROVE  TracesOK' /\ MergedOK' /\ ReportOK'
BY DEF ProfilerInv, TracesOK, MergedOK, ReportOK

LEMMA UptoLemma ==
    ASSUME NEW a \in Int, NEW b \in Int
    PROVE  /\ Upto(a, b) \in Seq(Int) /\ Len(Upto(a, b)) \in Nat
           /\ \A i \in 1..Len(Upto(a, b)) : Upto(a, b)[i] >= a
<1> DEFINE n == IF b - a + 1 \in Nat THEN b - a + 1 ELSE 0
           f == [i \in 1..n |-> a + i - 1]
<1>1. n \in Nat
  OBVIOUS
<1>2. 1..(b - a + 1) = 1..n
  BY <1>1
<1>3. Upto(a, b) = f
  BY <1>2 DEF Upto
<1> HIDE DEF n
<1>4. \A i \in 1..n : i \in Int /\ i >= 1
  BY <1>1
<1>5. \A i \in 1..n : a + i - 1 \in Int /\ a + i - 1 >= a
  BY <1>4
<1>6. f \in [1..n -> Int] /\ \A i \in 1..n : f[i] >= a
  BY <1>5
<1>7. f \in Seq(Int) /\ Len(f) = n
  BY <1>1, <1>6
<1> HIDE DEF f
<1> QED
  BY <1>1, <1>3, <1>6, <1>7

LEMMA TokenBegun == ProfilerInv /\ Begin => ProfilerInv'
<1> SUFFICES ASSUME ProfilerInv, Begin PROVE ProfilerInv'
  OBVIOUS
<1> DEFINE todo == Upto(0, Min({Ahead, NumTraced}) - 1) \o Upto(1, Ahead)
<1>1. /\ run.pc = "begin" /\ prof' = [prof EXCEPT !.current = << >>] /\ jobs' = jobs
      /\ run' = [run EXCEPT !.pc = "prefetch", !.layer = 0, !.retried = FALSE, !.todo = todo]
  BY DEF Begin, BeginToken
<1>2. todo \in Seq(Int) /\ \A i \in 1..Len(todo) : todo[i] >= 0
  <2> DEFINE least == Min({Ahead, NumTraced})
  <2>1. least \in Int
    <3>1. \E x \in {Ahead, NumTraced} : \A y \in {Ahead, NumTraced} : x <= y
      BY ProfilerAssumption
    <3> QED
      BY <3>1, ProfilerAssumption DEF Min
  <2>2. ASSUME NEW a \in {0, 1}, NEW b \in Int
        PROVE  /\ Upto(a, b) \in Seq(Int) /\ Len(Upto(a, b)) \in Nat
               /\ \A i \in 1..Len(Upto(a, b)) : Upto(a, b)[i] >= 0
    <3>1. /\ Upto(a, b) \in Seq(Int) /\ Len(Upto(a, b)) \in Nat
          /\ \A i \in 1..Len(Upto(a, b)) : Upto(a, b)[i] >= a
      <4>1. a \in Int
        OBVIOUS
      <4> QED
        BY <4>1, UptoLemma
    <3>2. \A i \in 1..Len(Upto(a, b)) : Upto(a, b)[i] \in Int
      BY <3>1
    <3> QED
      BY <3>1, <3>2
  <2> DEFINE p == Upto(0, least - 1)
             q == Upto(1, Ahead)
  <2>3. p \in Seq(Int) /\ Len(p) \in Nat /\ \A i \in 1..Len(p) : p[i] >= 0
    <3> HIDE DEF least
    <3>1. least - 1 \in Int
      BY <2>1
    <3> QED
      BY <2>2, <3>1
  <2>4. q \in Seq(Int) /\ Len(q) \in Nat /\ \A i \in 1..Len(q) : q[i] >= 0
    <3>1. Ahead \in Int
      BY ProfilerAssumption
    <3> QED
      BY <2>2, <3>1
  <2> HIDE DEF p, q
  <2>5. p \o q \in Seq(Int) /\ \A i \in 1..Len(p \o q) : (p \o q)[i] >= 0
    BY <2>3, <2>4
  <2> QED
    BY <2>5 DEF p, q
<1> HIDE DEF todo
<1>3. RunOK' /\ run'.pc = "prefetch" /\ run'.layer = 0
  <2>1. run' = [pc |-> "prefetch", token |-> run.token, layer |-> 0, todo |-> todo,
                retried |-> FALSE, prefetch |-> run.prefetch, synced |-> run.synced,
                waited |-> run.waited, failures |-> run.failures]
    BY <1>1 DEF ProfilerInv, RunOK
  <2>2. 0 \in Traced
    BY ProfilerAssumption DEF Traced
  <2>3. /\ run'.pc = "prefetch" /\ run'.layer = 0 /\ run'.todo = todo /\ run'.retried = FALSE
        /\ run'.token = run.token /\ run'.prefetch = run.prefetch /\ run'.synced = run.synced
        /\ run'.waited = run.waited /\ run'.failures = run.failures
    BY <2>1
  <2> QED
    BY <1>2, <2>1, <2>2, <2>3 DEF ProfilerInv, RunOK
<1>4. /\ prof' = [current |-> << >>, merged |-> prof.merged, tokens |-> prof.tokens,
                  report |-> prof.report]
      /\ prof'.current = << >> /\ prof'.merged = prof.merged /\ prof'.tokens = prof.tokens
  BY <1>1 DEF ProfilerInv, TracesOK
<1>5. TracesOK' /\ MergedOK' /\ ReportOK'
  BY <1>3, <1>4 DEF ProfilerInv, TracesOK, MergedOK, ReportOK
<1>6. \A l \in Traced : jobs[l] = NoJob
  BY <1>1 DEF ProfilerInv, JobsOK
<1>7. JobsOK' /\ MainOK'
  BY <1>1, <1>3, <1>6 DEF ProfilerInv, JobsOK, MainOK, Passing
<1> QED
  BY <1>3, <1>5, <1>7 DEF ProfilerInv

LEMMA LayerPrefetched == ProfilerInv /\ Prefetch => ProfilerInv'
<1> SUFFICES ASSUME ProfilerInv, Prefetch PROVE ProfilerInv'
  OBVIOUS
<1> DEFINE l == Head(run.todo)
<1>1. run.pc = "prefetch" /\ run.todo # <<>> /\ run' = [run EXCEPT !.todo = Tail(run.todo)]
  BY DEF Prefetch
<1>2. /\ run.todo \in Seq(Int) /\ \A i \in 1..Len(run.todo) : run.todo[i] >= run.layer
  BY DEF ProfilerInv, RunOK
<1>3. l >= run.layer /\ Tail(run.todo) \in Seq(Int)
      /\ \A i \in 1..Len(Tail(run.todo)) : Tail(run.todo)[i] >= run.layer
  <2> DEFINE todo == run.todo
  <2>1. todo \in Seq(Int) /\ todo # <<>> /\ Len(todo) \in Nat /\ \A i \in 1..Len(todo) : todo[i] >= run.layer
    BY <1>1, <1>2
  <2> HIDE DEF todo
  <2>2. Len(todo) >= 1 /\ Head(todo) = todo[1] /\ Tail(todo) \in Seq(Int)
    BY <2>1
  <2>3. Len(Tail(todo)) = Len(todo) - 1 /\ \A i \in 1..Len(Tail(todo)) : Tail(todo)[i] = todo[i + 1]
    BY <2>1
  <2>4. \A i \in 1..(Len(todo) - 1) : i + 1 \in 1..Len(todo)
    BY <2>1
  <2> QED
    BY <2>1, <2>2, <2>3, <2>4 DEF todo
<1>4. RunOK' /\ run'.pc = "prefetch" /\ run'.layer = run.layer
  <2> DEFINE rest == Tail(run.todo)
  <2>1. run' = [pc |-> run.pc, token |-> run.token, layer |-> run.layer, todo |-> rest,
                retried |-> run.retried, prefetch |-> run.prefetch, synced |-> run.synced,
                waited |-> run.waited, failures |-> run.failures]
    BY <1>1 DEF ProfilerInv, RunOK
  <2>2. rest \in Seq(Int) /\ \A i \in 1..Len(rest) : rest[i] >= run.layer
    BY <1>3
  <2> HIDE DEF rest
  <2>3. /\ run'.pc = run.pc /\ run'.token = run.token /\ run'.layer = run.layer
        /\ run'.todo = rest /\ run'.retried = run.retried /\ run'.prefetch = run.prefetch
        /\ run'.synced = run.synced /\ run'.waited = run.waited /\ run'.failures = run.failures
    BY <2>1
  <2> QED
    BY <1>1, <2>1, <2>2, <2>3 DEF ProfilerInv, RunOK
<1>5. CASE ~(run.prefetch /\ l \in Traced /\ jobs[l] = NoJob)
  <2>1. prof' = prof /\ jobs' = jobs
    BY <1>5 DEF Prefetch
  <2>2. TracesOK' /\ MergedOK' /\ ReportOK'
    BY <1>1, <1>4, <2>1, TracesKept
  <2>3. JobsOK' /\ MainOK'
    BY <1>1, <1>4, <2>1 DEF ProfilerInv, JobsOK, MainOK, Submitted, Passing
  <2> QED
    BY <1>4, <2>2, <2>3 DEF ProfilerInv
<1>6. CASE run.prefetch /\ l \in Traced /\ jobs[l] = NoJob
  <2>1. prof' = Stamp(prof, l, "prefetch_submit") /\ jobs' = [jobs EXCEPT ![l] = 0]
    BY <1>6 DEF Prefetch
  <2>2. "prefetch_submit" \in Stages
    BY StagesDiffer
  <2> HIDE DEF l
  <2>3. l \in Traced /\ StampedAt(prof', l, "prefetch_submit")
    BY <1>6, <2>1, <2>2, StampLemma DEF ProfilerInv
  <2>4. /\ TracesOK' /\ MergedOK' /\ ReportOK'
        /\ \A k \in Traced : Submitted(k) => Submitted(k)'
        /\ \A k \in Traced : k # l /\ k \in DOMAIN prof.current =>
              k \in DOMAIN prof'.current /\ prof'.current[k] = prof.current[k]
    BY <1>1, <1>4, <2>2, <2>3, StampSteps
  <2>5. l \in DOMAIN prof'.current /\ prof'.current[l].at["prefetch_submit"] > 0
    BY <2>3 DEF StampedAt
  <2>6. jobs \in [Traced -> {NoJob, FailedJob} \cup 0..JobStages]
    BY DEF ProfilerInv, JobsOK
  <2>7. jobs' \in [Traced -> {NoJob, FailedJob} \cup 0..JobStages] /\ jobs'[l] = 0
        /\ \A k \in Traced : k # l => jobs'[k] = jobs[k]
    BY <2>1, <2>3, <2>6 DEF JobStages
  <2>8. Reached(prof'.current[l], 1)
    BY DEF Reached
  <2>9. JobsOK'
    <3>1. ASSUME NEW k \in Traced, jobs'[k] # NoJob
          PROVE  /\ Submitted(k)' /\ k >= run.layer
                 /\ jobs'[k] >= 0 => Reached(prof'.current[k], jobs'[k] + 1)
      <4>1. CASE k = l
        BY <1>3, <2>5, <2>7, <2>8, <4>1 DEF Submitted, l
      <4>2. CASE k # l
        <5>1. jobs'[k] = jobs[k] /\ Submitted(k) /\ k >= run.layer
              /\ (jobs[k] >= 0 => Reached(prof.current[k], jobs[k] + 1))
          BY <2>7, <3>1, <4>2 DEF ProfilerInv, JobsOK
        <5> QED
          BY <2>4, <4>2, <5>1 DEF Submitted
      <4> QED
        BY <4>1, <4>2
    <3> QED
      BY <1>4, <2>7, <3>1 DEF JobsOK
  <2>10. MainOK'
    <3>1. \A k \in 0..(run.layer - 1) : k \in Traced /\ k # l
      BY <1>3, ProfilerAssumption DEF ProfilerInv, RunOK, Traced, l
    <3>2. \A k \in 0..(run.layer - 1) : k \in DOMAIN prof.current /\ Reached(prof.current[k], 12)
      BY <1>1 DEF ProfilerInv, MainOK
    <3>3. \A k \in 0..(run.layer - 1) : k \in DOMAIN prof'.current /\ Reached(prof'.current[k], 12)
      BY <2>4, <3>1, <3>2
    <3> QED
      BY <1>4, <3>3 DEF MainOK
  <2> QED
    BY <1>4, <2>4, <2>9, <2>10 DEF ProfilerInv
<1> QED
  BY <1>5, <1>6

LEMMA EnsureEntered == ProfilerInv /\ Ensure => ProfilerInv'
<1> SUFFICES ASSUME ProfilerInv, Ensure PROVE ProfilerInv'
  OBVIOUS
<1> DEFINE p == IF jobs[run.layer] = NoJob THEN "sync" ELSE "wait"
           found == IF jobs[run.layer] = NoJob THEN "none"
                    ELSE IF Done(run.layer) \/ ~Running(run.layer) THEN "hit" ELSE "wait"
<1>1. run.pc = "prefetch" /\ prof' = prof /\ jobs' = jobs
      /\ run' = [run EXCEPT !.pc = p, !.waited = found, !.synced = 0]
  BY DEF Ensure
<1>2. found \in {"none", "hit", "wait"} /\ p \in {"sync", "wait"}
  OBVIOUS
<1>3. p = "wait" <=> jobs[run.layer] # NoJob
  OBVIOUS
<1>4. found = "none" <=> jobs[run.layer] = NoJob
  OBVIOUS
<1> HIDE DEF p, found
<1>5. /\ RunOK' /\ run'.pc = p /\ run'.layer = run.layer /\ run'.synced = 0 /\ run'.waited = found
  <2>1. run' = [run EXCEPT !.pc = p, !.synced = 0, !.waited = found]
    BY <1>1
  <2> QED
    BY <1>2, <2>1, RunKept DEF ProfilerInv
<1>6. TracesOK' /\ MergedOK' /\ ReportOK'
  BY <1>1, <1>2, <1>5, TracesKept
<1>7. JobsOK'
  BY <1>1, <1>2, <1>3, <1>5 DEF ProfilerInv, JobsOK, Submitted
<1>8. MainOK'
  BY <1>1, <1>2, <1>3, <1>4, <1>5 DEF ProfilerInv, MainOK, JobStages
<1> QED
  BY <1>5, <1>6, <1>7, <1>8 DEF ProfilerInv

LEMMA JobAwaited == ProfilerInv /\ Waited => ProfilerInv'
<1> SUFFICES ASSUME ProfilerInv, Waited PROVE ProfilerInv'
  OBVIOUS
<1> DEFINE m == run.layer
           p == IF Done(m) THEN "ready" ELSE "sync"
<1>1. /\ run.pc = "wait" /\ prof' = prof /\ jobs' = [jobs EXCEPT ![m] = NoJob]
      /\ run' = [run EXCEPT !.pc = p]
  BY DEF Waited
<1>2. p \in {"ready", "sync"} /\ (p = "ready" => jobs[m] = 6)
  BY DEF Done, JobStages
<1> HIDE DEF p
<1>3. /\ RunOK' /\ run'.pc = p /\ run'.layer = m /\ run'.synced = run.synced
      /\ run'.waited = run.waited
  <2>1. run.synced \in Nat /\ run.waited \in {"none", "hit", "wait"}
    BY DEF ProfilerInv, RunOK
  <2>2. run' = [run EXCEPT !.pc = p, !.synced = run.synced, !.waited = run.waited]
    BY <1>1 DEF ProfilerInv, RunOK
  <2>3. p \in {"begin", "prefetch", "wait", "sync", "ended", "done"} \cup Passing
    BY <1>2 DEF Passing
  <2> QED
    BY <2>1, <2>2, <2>3, RunKept DEF ProfilerInv
<1>4. TracesOK' /\ MergedOK' /\ ReportOK'
  BY <1>1, <1>2, <1>3, TracesKept
<1>5. m \in Traced /\ jobs \in [Traced -> {NoJob, FailedJob} \cup 0..JobStages]
  BY DEF ProfilerInv, JobsOK, RunOK
<1>6. jobs' \in [Traced -> {NoJob, FailedJob} \cup 0..JobStages] /\ jobs'[m] = NoJob
      /\ \A k \in Traced : k # m => jobs'[k] = jobs[k]
  BY <1>1, <1>5
<1>7. /\ Submitted(m) /\ (jobs[m] >= 0 => Reached(prof.current[m], jobs[m] + 1))
      /\ run.synced = 0
  BY <1>1, <1>5 DEF ProfilerInv, JobsOK, MainOK
<1> HIDE DEF m
<1>8. JobsOK'
  <2>1. ASSUME NEW k \in Traced, jobs'[k] # NoJob
        PROVE  /\ k # m /\ Submitted(k)' /\ k >= m
               /\ jobs'[k] >= 0 => Reached(prof'.current[k], jobs'[k] + 1)
    <3>1. k # m /\ jobs'[k] = jobs[k]
      BY <1>6, <2>1
    <3>2. Submitted(k) /\ k >= run.layer /\ (jobs[k] >= 0 => Reached(prof.current[k], jobs[k] + 1))
      BY <2>1, <3>1 DEF ProfilerInv, JobsOK
    <3> QED
      BY <1>1, <3>1, <3>2 DEF Submitted, m
  <2>2. run'.pc # "begin"
    BY <1>2, <1>3
  <2> QED
    BY <1>3, <1>6, <2>1, <2>2 DEF JobsOK
<1>9. MainOK'
  <2>1. \A l \in 0..(run.layer - 1) : l \in DOMAIN prof.current /\ Reached(prof.current[l], 12)
    BY <1>1 DEF ProfilerInv, MainOK
  <2>2. Submitted(run.layer)'
    BY <1>1, <1>3, <1>7 DEF Submitted, m
  <2>3. p = "ready" => MainReached(7)'
    BY <1>1, <1>2, <1>3, <1>7 DEF MainReached, Submitted
  <2> QED
    BY <1>1, <1>2, <1>3, <1>7, <2>1, <2>2, <2>3 DEF MainOK, JobStages, m
<1> QED
  BY <1>3, <1>4, <1>8, <1>9 DEF ProfilerInv

LEMMA StageSynced == ProfilerInv /\ SyncStep => ProfilerInv'
<1> SUFFICES ASSUME ProfilerInv, SyncStep PROVE ProfilerInv'
  OBVIOUS
<1> PICK n : n = run.synced + 1
  OBVIOUS
<1> DEFINE s == Lifecycle[n + 1]
           p == IF n = 6 THEN "ready" ELSE "sync"
<1>1. /\ run.pc = "sync" /\ prof' = Stamp(prof, run.layer, s) /\ jobs' = jobs
      /\ run' = [run EXCEPT !.synced = n, !.pc = p]
  BY DEF SyncStep, JobStage, JobStages
<1>2. run.synced \in Nat /\ run.synced < 6 /\ run.waited \in {"none", "hit", "wait"}
      /\ run.layer \in Traced
  BY <1>1 DEF ProfilerInv, RunOK, MainOK, JobStages
<1>3. n \in 1..6 /\ n \in Nat /\ p \in {"ready", "sync"} /\ (p = "sync" => n < 6) /\ (p = "ready" => n = 6)
  BY <1>2
<1>4. n = 1 \/ MainReached(n)
  BY <1>1, <1>2 DEF ProfilerInv, MainOK
<1>5. s \in Stages
  BY <1>3, StagesDiffer
<1>6. StampedAt(prof', run.layer, s)
  BY <1>1, <1>2, <1>5, StampLemma DEF ProfilerInv
<1> HIDE DEF p
<1>7. /\ RunOK' /\ run'.pc = p /\ run'.layer = run.layer /\ run'.synced = n
      /\ run'.waited = run.waited
  <2>1. run' = [run EXCEPT !.pc = p, !.synced = n, !.waited = run.waited]
    BY <1>1 DEF ProfilerInv, RunOK
  <2>2. p \in {"begin", "prefetch", "wait", "sync", "ended", "done"} \cup Passing
    BY <1>3 DEF Passing
  <2> QED
    BY <1>2, <1>3, <2>1, <2>2, RunKept DEF ProfilerInv
<1>8. /\ TracesOK' /\ MergedOK' /\ ReportOK' /\ JobsOK' /\ MainReached(n + 1)'
      /\ \A l \in 0..(run'.layer - 1) :
            l \in DOMAIN prof'.current /\ Reached(prof'.current[l], 12)
      /\ run'.waited # "none" => Submitted(run.layer)'
  <2>1. n \in 1..11 /\ run'.pc \in {"sync"} \cup Passing
    BY <1>3, <1>7 DEF Passing
  <2> QED
    BY <1>1, <1>4, <1>6, <1>7, <2>1, MainStamps
<1>9. MainOK'
  <2>1. run'.pc = "ready" => MainReached(7)'
    BY <1>3, <1>7, <1>8
  <2>2. run'.pc = "sync" => MainReached(run.synced + 1)'
    BY <1>3, <1>7, <1>8 DEF MainReached
  <2> QED
    BY <1>2, <1>3, <1>7, <1>8, <2>1, <2>2 DEF MainOK, JobStages
<1> QED
  BY <1>7, <1>8, <1>9 DEF ProfilerInv

LEMMA SyncFailed == ProfilerInv /\ SyncFails => ProfilerInv'
<1> SUFFICES ASSUME ProfilerInv, SyncFails PROVE ProfilerInv'
  OBVIOUS
<1> DEFINE p == IF run.retried THEN "ended" ELSE "prefetch"
<1>1. /\ run.pc = "sync" /\ prof' = prof /\ jobs' = jobs
      /\ run' = [run EXCEPT !.failures = run.failures + 1, !.retried = TRUE,
                            !.prefetch = FALSE, !.pc = p]
  BY DEF SyncFails
<1>2. p \in {"ended", "prefetch"}
  OBVIOUS
<1> HIDE DEF p
<1>3. RunOK' /\ run'.pc = p /\ run'.layer = run.layer
  <2>1. run' = [pc |-> p, token |-> run.token, layer |-> run.layer, todo |-> run.todo,
                retried |-> TRUE, prefetch |-> FALSE, synced |-> run.synced,
                waited |-> run.waited, failures |-> run.failures + 1]
    BY <1>1 DEF ProfilerInv, RunOK
  <2>2. /\ run'.pc = p /\ run'.layer = run.layer /\ run'.todo = run.todo /\ run'.retried = TRUE
        /\ run'.token = run.token /\ run'.prefetch = FALSE /\ run'.synced = run.synced
        /\ run'.waited = run.waited /\ run'.failures = run.failures + 1
    BY <2>1
  <2> QED
    BY <1>2, <2>1, <2>2 DEF ProfilerInv, RunOK
<1>4. TracesOK' /\ MergedOK' /\ ReportOK'
  BY <1>1, <1>2, <1>3, TracesKept
<1>5. JobsOK' /\ MainOK'
  BY <1>1, <1>2, <1>3 DEF ProfilerInv, JobsOK, MainOK, Submitted, Passing
<1> QED
  BY <1>3, <1>4, <1>5 DEF ProfilerInv

LEMMA LayerReady == ProfilerInv /\ Ready => ProfilerInv'
<1> SUFFICES ASSUME ProfilerInv, Ready PROVE ProfilerInv'
  OBVIOUS
<1> DEFINE status == IF run.waited = "none" THEN "sync" ELSE run.waited
<1>1. /\ run.pc = "ready" /\ prof' = EndEnsure(prof, run.layer, status) /\ jobs' = jobs
      /\ run' = [run EXCEPT !.pc = "compute"]
  BY DEF Ready
<1>2. run.synced \in Nat /\ run.waited \in {"none", "hit", "wait"} /\ run.layer \in Traced
  BY DEF ProfilerInv, RunOK
<1>3. status \in Statuses /\ (status \in {"hit", "wait"} => Submitted(run.layer))
  BY <1>1, <1>2 DEF ProfilerInv, MainOK, Statuses
<1> HIDE DEF status
<1>4. StampedAt(prof', run.layer, Lifecycle[7 + 1])
  BY <1>1, <1>2, <1>3, EndEnsureLemma, StagesDiffer DEF ProfilerInv
<1>5. /\ RunOK' /\ run'.pc = "compute" /\ run'.layer = run.layer /\ run'.synced = run.synced
      /\ run'.waited = run.waited
  <2>1. run' = [run EXCEPT !.pc = "compute", !.synced = run.synced, !.waited = run.waited]
    BY <1>1 DEF ProfilerInv, RunOK
  <2> QED
    <3>1. "compute" \in {"begin", "prefetch", "wait", "sync", "ended", "done"} \cup Passing
      BY DEF Passing
    <3> QED
      BY <1>2, <2>1, <3>1, RunKept DEF ProfilerInv
<1>6. /\ TracesOK' /\ MergedOK' /\ ReportOK' /\ JobsOK' /\ MainReached(7 + 1)'
      /\ \A l \in 0..(run'.layer - 1) :
            l \in DOMAIN prof'.current /\ Reached(prof'.current[l], 12)
  <2>1. MainReached(7)
    BY <1>1 DEF ProfilerInv, MainOK
  <2>2. run.pc \in {"sync"} \cup Passing /\ run'.pc \in {"sync"} \cup Passing
    BY <1>1, <1>5 DEF Passing
  <2> QED
    BY <1>1, <1>4, <1>5, <2>1, <2>2, MainStamps
<1>7. MainOK'
  BY <1>5, <1>6 DEF MainOK
<1> QED
  BY <1>5, <1>6, <1>7 DEF ProfilerInv

\* The stages around compute() and evict(), the n-th stamped last.
LEMMA StageRecorded ==
    ASSUME ProfilerInv, NEW n \in 8..11, MainReached(n), NEW from \in Passing,
           NEW to \in Passing, Recorded(from, Lifecycle[n + 1], to)
    PROVE  /\ RunOK' /\ TracesOK' /\ MergedOK' /\ ReportOK' /\ JobsOK' /\ MainReached(n + 1)'
           /\ run'.pc = to
           /\ \A l \in 0..(run'.layer - 1) :
                 l \in DOMAIN prof'.current /\ Reached(prof'.current[l], 12)
<1>1. /\ run.pc = from /\ prof' = Stamp(prof, run.layer, Lifecycle[n + 1]) /\ jobs' = jobs
      /\ run' = [run EXCEPT !.pc = to]
  BY DEF Recorded
<1>2. run.synced \in Nat /\ run.waited \in {"none", "hit", "wait"} /\ run.layer \in Traced
  BY DEF ProfilerInv, RunOK
<1>3. Lifecycle[n + 1] \in Stages /\ n \in 1..11
  BY StagesDiffer
<1>4. StampedAt(prof', run.layer, Lifecycle[n + 1])
  BY <1>1, <1>2, <1>3, StampLemma DEF ProfilerInv
<1>5. /\ RunOK' /\ run'.pc = to /\ run'.layer = run.layer /\ run'.waited = run.waited
  <2>1. run' = [run EXCEPT !.pc = to, !.synced = run.synced, !.waited = run.waited]
    BY <1>1 DEF ProfilerInv, RunOK
  <2> QED
    BY <1>2, <2>1, RunKept DEF ProfilerInv
<1>6. run.pc \in {"sync"} \cup Passing /\ run'.pc \in {"sync"} \cup Passing
  BY <1>1, <1>5
<1> QED
  BY <1>1, <1>3, <1>4, <1>5, <1>6, MainStamps

LEMMA StagesRecorded == ProfilerInv /\ (Compute \/ Computed \/ Evict \/ Evicted) => ProfilerInv'
<1> SUFFICES ASSUME ProfilerInv, Compute \/ Computed \/ Evict \/ Evicted PROVE ProfilerInv'
  OBVIOUS
<1>1. ASSUME NEW n \in 8..11, NEW from \in Passing, NEW to \in Passing, MainReached(n),
             Recorded(from, Lifecycle[n + 1], to),
             <<n, to>> \in {<<8, "computing">>, <<9, "evict">>, <<10, "evicting">>, <<11, "next">>}
      PROVE  ProfilerInv'
  <2>1. /\ RunOK' /\ TracesOK' /\ MergedOK' /\ ReportOK' /\ JobsOK' /\ MainReached(n + 1)'
        /\ run'.pc = to
        /\ \A l \in 0..(run'.layer - 1) :
              l \in DOMAIN prof'.current /\ Reached(prof'.current[l], 12)
    BY <1>1, StageRecorded
  <2>2. MainOK'
    BY <1>1, <2>1 DEF MainOK
  <2> QED
    BY <2>1, <2>2 DEF ProfilerInv
<1>2. CASE Compute
  <2>1. MainReached(8) /\ Recorded("compute", Lifecycle[8 + 1], "computing")
    BY <1>2, StagesDiffer DEF Compute, Recorded, ProfilerInv, MainOK
  <2> QED
    BY <1>1, <2>1 DEF Passing
<1>3. CASE Computed
  <2>1. MainReached(9) /\ Recorded("computing", Lifecycle[9 + 1], "evict")
    BY <1>3, StagesDiffer DEF Computed, Recorded, ProfilerInv, MainOK
  <2> QED
    BY <1>1, <2>1 DEF Passing
<1>4. CASE Evict
  <2>1. MainReached(10) /\ Recorded("evict", Lifecycle[10 + 1], "evicting")
    BY <1>4, StagesDiffer DEF Evict, Recorded, ProfilerInv, MainOK
  <2> QED
    BY <1>1, <2>1 DEF Passing
<1>5. CASE Evicted
  <2>1. MainReached(11) /\ Recorded("evicting", Lifecycle[11 + 1], "next")
    BY <1>5, StagesDiffer DEF Evicted, Recorded, ProfilerInv, MainOK
  <2> QED
    BY <1>1, <2>1 DEF Passing
<1> QED
  BY <1>2, <1>3, <1>4, <1>5

LEMMA LayerFollows == ProfilerInv /\ NextLayer => ProfilerInv'
<1> SUFFICES ASSUME ProfilerInv, NextLayer PROVE ProfilerInv'
  OBVIOUS
<1> DEFINE m == run.layer + 1
           todo == Upto(run.layer + 2, run.layer + 1 + Ahead)
<1>1. /\ run.pc = "next" /\ m < NumTraced /\ prof' = prof /\ jobs' = jobs
      /\ run' = [run EXCEPT !.pc = "prefetch", !.layer = m, !.retried = FALSE, !.todo = todo]
  BY DEF NextLayer
<1>2. run.layer \in Traced /\ m \in Traced /\ m \in Int
  BY <1>1, ProfilerAssumption DEF ProfilerInv, RunOK, Traced
<1>3. todo \in Seq(Int) /\ \A i \in 1..Len(todo) : todo[i] >= m
  <2>1. run.layer + 2 \in Int /\ run.layer + 1 + Ahead \in Int
    BY <1>2, ProfilerAssumption DEF Traced
  <2>2. /\ todo \in Seq(Int) /\ Len(todo) \in Nat
        /\ \A i \in 1..Len(todo) : todo[i] >= run.layer + 2
    BY <2>1, UptoLemma
  <2>3. \A i \in 1..Len(todo) : todo[i] \in Int
    BY <2>2
  <2> HIDE DEF todo
  <2>4. run.layer \in Int
    BY <1>2 DEF Traced
  <2> QED
    BY <2>2, <2>3, <2>4
<1> HIDE DEF todo
<1>4. RunOK' /\ run'.pc = "prefetch" /\ run'.layer = m
  <2> HIDE DEF m
  <2>1. run' = [pc |-> "prefetch", token |-> run.token, layer |-> m, todo |-> todo,
                retried |-> FALSE, prefetch |-> run.prefetch, synced |-> run.synced,
                waited |-> run.waited, failures |-> run.failures]
    BY <1>1 DEF ProfilerInv, RunOK
  <2>2. /\ run'.pc = "prefetch" /\ run'.layer = m /\ run'.todo = todo /\ run'.retried = FALSE
        /\ run'.token = run.token /\ run'.prefetch = run.prefetch /\ run'.synced = run.synced
        /\ run'.waited = run.waited /\ run'.failures = run.failures
    BY <2>1
  <2> QED
    BY <1>2, <1>3, <2>1, <2>2 DEF ProfilerInv, RunOK
<1>5. TracesOK' /\ MergedOK' /\ ReportOK'
  BY <1>1, <1>4, TracesKept
<1>6. JobsOK'
  <2>1. ASSUME NEW k \in Traced, jobs[k] # NoJob PROVE k >= m
    <3>1. k >= run.layer /\ k # run.layer
      BY <1>1, <2>1 DEF ProfilerInv, JobsOK
    <3> QED
      BY <1>2, <3>1 DEF Traced
  <2> QED
    BY <1>1, <1>4, <2>1 DEF ProfilerInv, JobsOK, Submitted
<1>7. MainOK'
  <2>1. ASSUME NEW l \in 0..(m - 1) PROVE l \in DOMAIN prof.current /\ Reached(prof.current[l], 12)
    <3>1. CASE l = run.layer
      BY <1>1, <3>1 DEF ProfilerInv, MainOK, MainReached
    <3>2. CASE l # run.layer
      <4>1. l \in 0..(run.layer - 1)
        BY <1>2, <3>2 DEF Traced
      <4> QED
        BY <1>1, <4>1 DEF ProfilerInv, MainOK
    <3> QED
      BY <3>1, <3>2
  <2> QED
    BY <1>1, <1>4, <2>1 DEF MainOK, Passing
<1> QED
  BY <1>4, <1>5, <1>6, <1>7 DEF ProfilerInv

LEMMA TokenEnded == ProfilerInv /\ End => ProfilerInv'
<1> SUFFICES ASSUME ProfilerInv, End PROVE ProfilerInv'
  OBVIOUS
<1> DEFINE c == [l \in DOMAIN prof.merged \cup DOMAIN prof.current |->
                    IF l \in DOMAIN prof.current THEN prof.current[l] ELSE prof.merged[l]]
<1>1. /\ run.pc = "next" /\ run.layer + 1 = NumTraced /\ jobs' = jobs
      /\ prof' = [prof EXCEPT !.merged = c, !.tokens = prof.tokens + 1]
      /\ run' = [run EXCEPT !.pc = "begin", !.token = run.token + 1]
  BY DEF End, EndToken
<1>2. run.layer \in Traced /\ prof.tokens \in Nat
  BY DEF ProfilerInv, RunOK, TracesOK
<1>3. ASSUME NEW l \in Traced PROVE l \in DOMAIN prof.current /\ Reached(prof.current[l], 12)
  <2>1. CASE l = run.layer
    BY <1>1, <2>1 DEF ProfilerInv, MainOK, MainReached
  <2>2. CASE l # run.layer
    <3>1. l \in 0..(run.layer - 1)
      BY <1>1, <1>2, <2>2, ProfilerAssumption DEF Traced
    <3> QED
      BY <1>1, <3>1 DEF ProfilerInv, MainOK
  <2> QED
    BY <2>1, <2>2
<1>4. DOMAIN prof.current = Traced /\ DOMAIN prof.merged \subseteq Traced
  BY <1>3 DEF ProfilerInv, TracesOK, MergedOK
<1>5. c = [l \in Traced |-> prof.current[l]]
  BY <1>4
<1> HIDE DEF c
<1>6. DOMAIN c = Traced /\ \A l \in Traced : c[l] = prof.current[l]
  BY <1>5
<1>7. prof' = [current |-> prof.current, merged |-> c, tokens |-> prof.tokens + 1,
               report |-> prof.report]
  <2> DEFINE n == prof.tokens + 1
  <2>1. prof' = [prof EXCEPT !.merged = c, !.tokens = n]
    BY <1>1
  <2> HIDE DEF n
  <2>2. prof' = [current |-> prof.current, merged |-> c, tokens |-> n, report |-> prof.report]
    BY <2>1 DEF ProfilerInv, TracesOK
  <2> QED
    BY <2>2 DEF n
<1>8. /\ prof'.current = prof.current /\ prof'.merged = c /\ prof'.tokens = prof.tokens + 1
      /\ prof'.report = prof.report
  BY <1>7
<1>9. RunOK' /\ run'.pc = "begin" /\ run'.layer = run.layer
  <2> DEFINE n == run.token + 1
  <2>1. run' = [run EXCEPT !.pc = "begin", !.token = n]
    BY <1>1
  <2> HIDE DEF n
  <2>2. run' = [pc |-> "begin", token |-> n, layer |-> run.layer, todo |-> run.todo,
                retried |-> run.retried, prefetch |-> run.prefetch, synced |-> run.synced,
                waited |-> run.waited, failures |-> run.failures]
    BY <2>1 DEF ProfilerInv, RunOK
  <2>3. /\ run'.pc = "begin" /\ run'.layer = run.layer /\ run'.todo = run.todo
        /\ run'.retried = run.retried /\ run'.token = n /\ run'.prefetch = run.prefetch
        /\ run'.synced = run.synced /\ run'.waited = run.waited /\ run'.failures = run.failures
    BY <2>2
  <2> QED
    BY <2>2, <2>3 DEF ProfilerInv, RunOK
<1>10. \A l \in Traced : TraceOK(prof.current[l]) /\ prof.current[l].token = prof.tokens
  BY <1>1, <1>4 DEF ProfilerInv, TracesOK
<1>11. TracesOK'
  <2>1. prof'.tokens \in Nat
    BY <1>2, <1>8
  <2> QED
    BY <1>4, <1>7, <1>8, <1>9, <1>10, <2>1 DEF TracesOK
<1>12. MergedOK'
  <2>1. prof'.tokens > 0 /\ prof'.tokens - 1 = prof.tokens
    BY <1>2, <1>8
  <2> QED
    BY <1>3, <1>6, <1>8, <1>10, <2>1 DEF MergedOK
<1>13. \A l \in Traced : jobs[l] = NoJob
  <2>1. ASSUME NEW l \in Traced PROVE l >= run.layer => l = run.layer
    BY <1>1, <1>2, ProfilerAssumption DEF Traced
  <2> QED
    BY <1>1, <2>1 DEF ProfilerInv, JobsOK
<1>14. JobsOK' /\ MainOK' /\ ReportOK'
  BY <1>1, <1>9, <1>13 DEF ProfilerInv, JobsOK, MainOK, ReportOK, Passing
<1> QED
  BY <1>9, <1>11, <1>12, <1>14 DEF ProfilerInv

LEMMA RunFinalized == ProfilerInv /\ Finalize => ProfilerInv'
<1> SUFFICES ASSUME ProfilerInv, Finalize PROVE ProfilerInv'
  OBVIOUS
<1> DEFINE r == PipelineMetrics(prof)
<1>1. /\ run.pc \in {"ended", "begin"} /\ prof' = [prof EXCEPT !.report = r] /\ jobs' = jobs
      /\ run' = [run EXCEPT !.pc = "done"]
  BY DEF Finalize
<1> HIDE DEF r
<1>2. /\ prof' = [current |-> prof.current, merged |-> prof.merged, tokens |-> prof.tokens,
                  report |-> r]
  BY <1>1 DEF ProfilerInv, TracesOK
<1>3. /\ prof'.current = prof.current /\ prof'.merged = prof.merged /\ prof'.tokens = prof.tokens
      /\ prof'.report = r
  BY <1>2
<1>4. RunOK' /\ run'.pc = "done" /\ run'.layer = run.layer
  <2>1. run' = [run EXCEPT !.pc = "done", !.synced = run.synced, !.waited = run.waited]
    BY <1>1 DEF ProfilerInv, RunOK
  <2>2. run.synced \in Nat /\ run.waited \in {"none", "hit", "wait"}
    BY DEF ProfilerInv, RunOK
  <2>3. "done" \in {"begin", "prefetch", "wait", "sync", "ended", "done"} \cup Passing
    OBVIOUS
  <2> QED
    BY <2>1, <2>2, <2>3, RunKept DEF ProfilerInv
<1>5. TracesOK' /\ MergedOK'
  BY <1>2, <1>3, <1>4 DEF ProfilerInv, TracesOK, MergedOK
<1>6. ReportOK'
  <2>1. PipelineMetrics(prof') = PipelineMetrics(prof)
    BY <1>3 DEF PipelineMetrics, Collected, CountOverlap, Duration
  <2> QED
    BY <1>3, <2>1 DEF ReportOK, r
<1>7. JobsOK' /\ MainOK'
  BY <1>1, <1>3, <1>4 DEF ProfilerInv, JobsOK, MainOK, Submitted, Passing
<1> QED
  BY <1>4, <1>5, <1>6, <1>7 DEF ProfilerInv

LEMMA ProfilerStart == ProfilerInit => ProfilerInv
<1> SUFFICES ASSUME ProfilerInit PROVE ProfilerInv
  OBVIOUS
<1>1. /\ prof.current = << >> /\ prof.merged = << >> /\ prof.tokens = 0 /\ run.pc = "begin"
      /\ run.layer = 0 /\ run.todo = << >> /\ run.synced = 0 /\ run.waited = "none"
      /\ \A l \in Traced : jobs[l] = NoJob
  BY DEF ProfilerInit
<1>2. 0 \in Traced
  BY ProfilerAssumption DEF Traced
<1>3. RunOK
  BY <1>1, <1>2 DEF ProfilerInit, RunOK
<1>4. TracesOK /\ MergedOK
  BY <1>1 DEF ProfilerInit, TracesOK, MergedOK
<1>5. JobsOK /\ MainOK /\ ReportOK
  BY <1>1 DEF ProfilerInit, JobsOK, MainOK, ReportOK, Passing
<1> QED
  BY <1>3, <1>4, <1>5 DEF ProfilerInv

LEMMA ProfilerStep == ProfilerInv /\ [ProfilerNext]_profVars => ProfilerInv'
<1> SUFFICES ASSUME ProfilerInv, [ProfilerNext]_profVars PROVE ProfilerInv'
  OBVIOUS
<1>1. CASE ProfilerNext
  BY <1>1, JobStepped, JobFailed, TokenBegun, LayerPrefetched, EnsureEntered, JobAwaited,
     StageSynced, SyncFailed, LayerReady, StagesRecorded, LayerFollows, TokenEnded,
     RunFinalized DEF ProfilerNext
<1>2. CASE UNCHANGED profVars
  BY <1>2 DEF profVars, ProfilerInv, RunOK, TracesOK, MergedOK, JobsOK, MainOK, ReportOK,
              MainReached, Submitted
<1> QED
  BY <1>1, <1>2

LEMMA MergedMeans ==
    ASSUME ProfilerInv, prof.tokens > 0
    PROVE  /\ DOMAIN prof.merged = Traced
           /\ \A l \in Traced :
                 /\ prof.merged[l].status \in {"none", "sync", "hit", "wait"}
                 /\ \A i \in 1..11 : Duration(prof.merged[l], Lifecycle[i], Lifecycle[i + 1]) > 0
<1>1. DOMAIN prof.merged = Traced
  BY DEF ProfilerInv, MergedOK
<1>2. ASSUME NEW l \in Traced
      PROVE  /\ prof.merged[l].status \in {"none", "sync", "hit", "wait"}
             /\ \A i \in 1..11 : Duration(prof.merged[l], Lifecycle[i], Lifecycle[i + 1]) > 0
  <2> DEFINE t == prof.merged[l]
  <2>1. t \in TraceRecords /\ Reached(t, 12)
    BY <1>1 DEF ProfilerInv, MergedOK, TraceOK
  <2> HIDE DEF t
  <2>2. t.status \in {"none", "sync", "hit", "wait"} /\ t.at \in [Stages -> Nat]
    BY <2>1 DEF TraceRecords, Statuses
  <2>3. \A i \in 1..11 : t.at[Lifecycle[i]] < t.at[Lifecycle[i + 1]]
    BY <2>1 DEF Reached
  <2>4. \A i \in 1..12 : t.at[Lifecycle[i]] \in Nat
    BY <2>2, StagesDiffer
  <2>5. \A i \in 1..11 : i \in 1..12 /\ i + 1 \in 1..12
    OBVIOUS
  <2>6. \A i \in 1..11 : Duration(t, Lifecycle[i], Lifecycle[i + 1]) > 0
    BY <2>3, <2>4, <2>5 DEF Duration
  <2> QED
    BY <2>2, <2>6 DEF t
<1> QED
  BY <1>1, <1>2

\* Each stage is averaged over every layer, and none is counted twice.
LEMMA MetricsComplete ==
    ASSUME ProfilerInv, prof.tokens > 0
    PROVE  LET r == PipelineMetrics(prof)
           IN  /\ {r.read, r.deserialize, r.upload, r.compute, r.evict} = {Traced}
               /\ r.total <= r.layers /\ r.misses = 0
<1>1. /\ DOMAIN prof.merged = Traced
      /\ \A l \in Traced :
            /\ prof.merged[l].status \in {"none", "sync", "hit", "wait"}
            /\ \A i \in 1..11 : Duration(prof.merged[l], Lifecycle[i], Lifecycle[i + 1]) > 0
  BY MergedMeans
<1>2. \A i \in 1..11 : Collected(prof, Lifecycle[i], Lifecycle[i + 1]) = Traced
  BY <1>1 DEF Collected
<1>3. /\ Collected(prof, "read_start", "read_end") = Traced
      /\ Collected(prof, "deserialize_start", "deserialize_end") = Traced
      /\ Collected(prof, "upload_start", "upload_end") = Traced
      /\ Collected(prof, "compute_start", "compute_end") = Traced
      /\ Collected(prof, "evict_start", "evict_end") = Traced
  <2>1. /\ Collected(prof, Lifecycle[2], Lifecycle[2 + 1]) = Traced
        /\ Collected(prof, Lifecycle[4], Lifecycle[4 + 1]) = Traced
        /\ Collected(prof, Lifecycle[6], Lifecycle[6 + 1]) = Traced
        /\ Collected(prof, Lifecycle[9], Lifecycle[9 + 1]) = Traced
        /\ Collected(prof, Lifecycle[11], Lifecycle[11 + 1]) = Traced
    BY <1>2
  <2> QED
    BY <2>1 DEF Lifecycle
<1> DEFINE Of(s) == {l \in Traced : prof.merged[l].status = s}
           hits == Of("hit")
           waits == Of("wait")
<1>4. IsFiniteSet(Traced)
  <2>1. 0 \in Int /\ NumTraced - 1 \in Int
    BY ProfilerAssumption
  <2> QED
    BY <2>1, FS_Interval DEF Traced
<1>5. /\ hits \subseteq Traced /\ waits \subseteq Traced /\ hits \cap waits = {}
      /\ hits \cup waits \subseteq Traced
  OBVIOUS
<1>6. Of("miss") = {}
  BY <1>1
<1>7. CountOverlap(prof, "miss") = 0
  BY <1>1, <1>6, FS_EmptySet DEF CountOverlap
<1>8. CountOverlap(prof, "hit") = Cardinality(hits) /\ CountOverlap(prof, "wait") = Cardinality(waits)
  BY <1>1 DEF CountOverlap
<1> HIDE DEF Of, hits, waits
<1>9. IsFiniteSet(hits) /\ IsFiniteSet(waits)
  BY <1>4, <1>5, FS_Subset
<1>10. Cardinality(hits \cup waits) <= Cardinality(Traced)
  BY <1>4, <1>5, FS_Subset
<1>11. Cardinality(hits \cup waits) = Cardinality(hits) + Cardinality(waits) - Cardinality({})
  BY <1>5, <1>9, FS_Union
<1>12. Cardinality({}) = 0 /\ Cardinality(hits) \in Nat /\ Cardinality(waits) \in Nat
  BY <1>9, FS_EmptySet, FS_CardinalityType
<1>13. Cardinality(hits) + Cardinality(waits) + 0 <= Cardinality(Traced)
  BY <1>10, <1>11, <1>12
<1>14. /\ PipelineMetrics(prof).read = Traced /\ PipelineMetrics(prof).deserialize = Traced
       /\ PipelineMetrics(prof).upload = Traced /\ PipelineMetrics(prof).compute = Traced
       /\ PipelineMetrics(prof).evict = Traced
  BY <1>3 DEF PipelineMetrics
<1>15. /\ PipelineMetrics(prof).misses = 0
       /\ PipelineMetrics(prof).layers = Cardinality(Traced)
       /\ PipelineMetrics(prof).total = Cardinality(hits) + Cardinality(waits) + 0
  BY <1>1, <1>7, <1>8 DEF PipelineMetrics
<1> QED
  BY <1>13, <1>14, <1>15

\* The invariant of the profiler, for any layers, tokens, lookahead and failures.
THEOREM ProfilerInvariance == ProfilerSpec => []ProfilerInv
<1> QED
  BY ProfilerStart, ProfilerStep, PTL DEF ProfilerSpec

\* A finished token's traces hold every stage in the order of the lifecycle,
\* whichever thread stamped it and whatever was read anew, and the report averages
\* each stage over every layer (end_token(), compute_pipeline_metrics()).
THEOREM TracesStaySound == ProfilerSpec => []TracesSound
<1>1. ProfilerInv => TracesSound
  <2> SUFFICES ASSUME ProfilerInv PROVE TracesSound
    OBVIOUS
  <2>1. TracesOrdered
    <3>1. prof.tokens > 0 => DOMAIN prof.merged = Traced
      BY DEF ProfilerInv, MergedOK
    <3>2. ASSUME NEW l \in DOMAIN prof.merged
          PROVE  /\ prof.merged[l].token = prof.tokens - 1
                 /\ \A i \in 1..11 : prof.merged[l].at[Lifecycle[i]] < prof.merged[l].at[Lifecycle[i + 1]]
                 /\ prof.merged[l].status = "hit" => prof.merged[l].at["prefetch_submit"] > 0
      BY DEF ProfilerInv, MergedOK, TraceOK, Reached
    <3> QED
      BY <3>1, <3>2 DEF TracesOrdered
  <2>2. ReportComplete
    BY MetricsComplete DEF ReportComplete, ProfilerInv, ReportOK
  <2> QED
    BY <2>1, <2>2 DEF TracesSound
<1> QED
  BY <1>1, ProfilerInvariance, PTL
=============================================================================
