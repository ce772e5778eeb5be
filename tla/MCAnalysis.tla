----------------------------- MODULE MCAnalysis -----------------------------
(* Instances of Analysis for TLC. *)
EXTENDS Analysis, TLC

CONSTANTS c1, a, b, d, w1, w2, w3, i1, i2, i3, r1, r2

\* Uploads of one clock, one for each slot.
OneOfOneClock == a :> c1
TwoOfOneClock == a :> c1 @@ b :> c1
ThreeOfOneClock == TwoOfOneClock @@ d :> c1
OneSlot == a :> 1
TwoSlots == a :> 1 @@ b :> 2
ThreeSlots == a :> 1 @@ b :> 2 @@ d :> 3

RequestSymmetry == Permutations(Requests)
=============================================================================
