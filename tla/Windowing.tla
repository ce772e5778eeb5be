----------------------------- MODULE Windowing -----------------------------
(***************************************************************************)
(* Package windowing: Builder.BuildCtx as a function from the samples and  *)
(* the windows of a clock to its windows afterwards.                       *)
(* (src/internal/windowing/windowing.go)                                   *)
(*                                                                         *)
(* A sample is its time and its offset.  prev is the reference mean: {}    *)
(* while prevValid is false, else the set with prevMean alone.             *)
(***************************************************************************)
EXTENDS Baseline, Fractions

CONSTANTS MinSamples,       \* MinSamplesPerWindow
          JumpThreshold,    \* JumpThresholdPPB, in offset units
          StdDevThreshold   \* StdDevThresholdPPB, in offset units

ASSUME WindowingAssumption ==
  /\ MinSamples \in Nat /\ JumpThreshold \in Nat /\ StdDevThreshold \in Nat

SamplesIn(start, samples) == {s \in samples : WindowStart(s.at) = start}

\* meanStd
SumOf(S) == MapThenSumSet(LAMBDA s : s.offset, S)
Mean(S) == Frac(SumOf(S), Cardinality(S))
Noisy(S) ==   \* the sample standard deviation exceeds its threshold, squared
  LET n == Cardinality(S)
      squares == MapThenSumSet(LAMBDA s : s.offset * s.offset, S)
  IN n * squares - SumOf(S) * SumOf(S) > StdDevThreshold * StdDevThreshold * n * (n - 1)

Shifted(mean, prev) ==
  \E p \in prev : Exceeds(AbsOf(Minus(mean, p)), Frac(JumpThreshold, 1))

\* classify
Classify(S, prev) ==
  CASE Cardinality(S) < MinSamples -> "gap"
    [] Cardinality(S) >= MinSamples /\ (Noisy(S) \/ Shifted(Mean(S), prev)) -> "jump"
    [] OTHER -> "stable"

Stable(windows) == {w \in windows : w.status = "stable"}
Newest(windows) == {w \in windows : \A v \in windows : v.start <= w.start}

NewWindow(start, samples, prev) ==
  LET S == SamplesIn(start, samples)
  IN [start |-> start, n |-> Cardinality(S), mean |-> Mean(S), status |-> Classify(S, prev)]

\* The insert loop: slots in time order (the fold takes the greatest last), those
\* with a window skipped; prev is the mean of the newest stable window at first,
\* then of the last stable one inserted.
Slots(samples) == {WindowStart(s.at) : s \in samples}
AllSlots(samples, windows) == Slots(samples)   \* mutant: have[k] is not consulted
SlotsToBuild(samples, windows) == Slots(samples) \ {w.start : w \in windows}

KeepReference(acc, w) ==   \* mutant: the loop never moves the reference
  [rows |-> acc.rows \cup {w}, prev |-> acc.prev]
Insert(acc, w) == [rows |-> acc.rows \cup {w},
                   prev |-> IF w.status = "stable" THEN {w.mean} ELSE acc.prev]

Existing(windows) == [rows |-> windows, prev |-> {w.mean : w \in Newest(Stable(windows))}]
Build(samples, windows) ==
  MapThenFoldSet(LAMBDA start, acc : Insert(acc, NewWindow(start, samples, acc.prev)),
                 Existing(windows), LAMBDA start : start, Max,
                 SlotsToBuild(samples, windows)).rows
=============================================================================
