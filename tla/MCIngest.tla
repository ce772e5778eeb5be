------------------------------ MODULE MCIngest ------------------------------
(* Instances of Ingest for TLC. *)
EXTENDS Ingest, TLC

CONSTANTS c1, c2, a, b, d, e

\* Two samples of each of two clocks; batches of one clock, of two, and with a
\* sample twice.
TwoClocks == a :> c1 @@ b :> c1 @@ d :> c2 @@ e :> c2
InOrder == a :> 1 @@ b :> 2 @@ d :> 4 @@ e :> 3
SomeBatches == {<<b, a>>, <<a, d>>, <<b, b>>}
=============================================================================
