----------------------------- MODULE Fractions -----------------------------
(***************************************************************************)
(* The float64 values the service computes (means, magnitudes, scores) as  *)
(* exact fractions in lowest terms, so that equal values are equal.        *)
(***************************************************************************)
EXTENDS Integers, FiniteSetsExt

Frac(n, d) == LET k == Max({i \in 1..d : n % i = 0 /\ d % i = 0})
              IN [num |-> n \div k, den |-> d \div k]
IsFrac(f) == f.num \in Int /\ f.den \in Nat \ {0}

Zero == Frac(0, 1)
One == Frac(1, 1)
Half == Frac(1, 2)

Minus(f, g) == Frac(f.num * g.den - g.num * f.den, f.den * g.den)
AbsOf(f) == IF f.num < 0 THEN Frac(-f.num, f.den) ELSE f
Exceeds(f, g) == f.num * g.den > g.num * f.den
Larger(f, g) == IF Exceeds(f, g) THEN f ELSE g
Largest(F) == CHOOSE f \in F : \A g \in F : ~Exceeds(g, f)
=============================================================================
