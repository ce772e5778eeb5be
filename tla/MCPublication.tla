--------------------------- MODULE MCPublication ---------------------------
(* Instances of Publication for TLC: rows get their clock from a table. *)
EXTENDS Publication, TLC

CONSTANTS c1, c2, l2, j1, j2, s1, s2, r1, r2

\* One clock: two drafts, one link and one jump to interleave.
OneClockSnaps == s1 :> c1 @@ s2 :> c1
NoLinks == <<>>
OneClockJumps == j1 :> c1

\* Two clocks that must not touch each other's rows.
TwoClockSnaps == s1 :> c1 @@ s2 :> c2
TwoClockLinks == l2 :> c2
TwoClockJumps == j2 :> c2
=============================================================================
