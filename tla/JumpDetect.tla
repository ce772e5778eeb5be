----------------------------- MODULE JumpDetect -----------------------------
(***************************************************************************)
(* Package jumpdetect: DetectCtx as a function from the windows of a clock *)
(* and the segments it has to the segments inserted.                       *)
(* (src/internal/jumpdetect/jumpdetect.go)                                 *)
(***************************************************************************)
EXTENDS Windowing

CONSTANT MinMagnitude   \* 0.001 ppb, in offset units

ASSUME DetectAssumption == IsFrac(MinMagnitude) /\ MinMagnitude.num > 0

Earliest(windows) == CHOOSE w \in windows : \A v \in windows : w.start <= v.start
Latest(windows) == CHOOSE w \in windows : \A v \in windows : v.start <= w.start

\* The mean of the means of the windows of a run, whatever their sample counts.
CommonDen(run) == MapThenFoldSet(LAMBDA m, n : m * n, 1, LAMBDA w : w.mean.den,
                                 LAMBDA S : CHOOSE w \in S : TRUE, run)
SumOfMeans(run, den) == MapThenSumSet(LAMBDA w : w.mean.num * (den \div w.mean.den), run)
MeanOfMeans(run) ==
  Frac(SumOfMeans(run, CommonDen(run)), CommonDen(run) * Cardinality(run))

\* stable is {} or the mean of the last stable window before the run.
Segment(run, stable) ==
  LET mean == MeanOfMeans(run)
      base == IF stable = {} THEN mean ELSE CHOOSE m \in stable : TRUE
      shift == Minus(mean, base)
  IN [start |-> Earliest(run).start, end |-> WindowEnd(Latest(run).start),
      magnitude |-> Larger(AbsOf(shift), MinMagnitude),
      direction |-> IF shift.num < 0 THEN "down" ELSE "up"]

\* The scan in time order: a run of jump windows grows until another window, or
\* the end, closes it; a run whose first window anchors a segment already is
\* skipped.
Closed(acc, anchors) ==
  [stable |-> acc.stable, run |-> {},
   out |-> IF acc.run = {} \/ Earliest(acc.run).start \in anchors THEN acc.out
           ELSE acc.out \cup {Segment(acc.run, acc.stable)}]
ScanWithinGaps(w, acc, anchors) ==   \* mutant: a gap does not close a run
  CASE w.status = "jump" -> [acc EXCEPT !.run = @ \cup {w}]
    [] w.status = "stable" -> [Closed(acc, anchors) EXCEPT !.stable = {w.mean}]
    [] OTHER -> acc
ScanFromFirstStable(w, acc, anchors) ==   \* mutant: the reference is never replaced
  CASE w.status = "jump" -> [acc EXCEPT !.run = @ \cup {w}]
    [] w.status = "stable" -> [Closed(acc, anchors) EXCEPT !.stable = IF @ = {} THEN {w.mean} ELSE @]
    [] OTHER -> Closed(acc, anchors)
Scan(w, acc, anchors) ==
  CASE w.status = "jump" -> [acc EXCEPT !.run = @ \cup {w}]
    [] w.status = "stable" -> [Closed(acc, anchors) EXCEPT !.stable = {w.mean}]
    [] OTHER -> Closed(acc, anchors)

Detect(windows, anchors) ==
  LET scanned == MapThenFoldSet(LAMBDA w, acc : Scan(w, acc, anchors),
                                [stable |-> {}, run |-> {}, out |-> {}],
                                LAMBDA w : w, Latest, windows)
  IN Closed(scanned, anchors).out
=============================================================================
