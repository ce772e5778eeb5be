----------------------------- MODULE MCPipeline -----------------------------
(* Instances of Pipeline for TLC.  An offset unit is a tenth of a ppb, two     *)
(* seconds stand for the minute of a window.                                   *)
EXTENDS Pipeline

\* Two samples a window, three windows: the first is steady or noisy, the second
\* has drifted a little, which is a shift if it is cut after the third, which has
\* shifted down or is noisy; each is a gap if one of its samples is late.  One
\* upload is in another unit.
Up(at, hz) == [at |-> at, hz |-> hz]
ThreeWindows == {Up(0, 1000), Up(1, 1000), Up(1, 1010), Up(2, 1004), Up(3, 1004),
                 Up(4, 994), Up(5, 994), Up(5, 1010), Up(5, 1080)}

\* A level that changes between the first two windows and is kept in the third.
LevelKept == {Up(0, 1000), Up(1, 1000), Up(2, 1010), Up(3, 1010), Up(4, 1010), Up(5, 1010)}

MinimumMagnitude == Frac(1, 100)

\* Two readings that differ in two quantities; the first is too early for a
\* segment that starts with the third window.
Reading(at, temp, humidity) ==
  [at |-> at, temp |-> temp, humidity |-> humidity, pressure |-> 0, vibration |-> 0]
SomeReadings == {Reading(1, 0, 0), Reading(3, 9, 9)}
Thresholds == [temp |-> 5, humidity |-> 5, pressure |-> 5, vibration |-> 5]
=============================================================================
