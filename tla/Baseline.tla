------------------------------ MODULE Baseline ------------------------------
(***************************************************************************)
(* Package baseline: readings become offsets from the nominal frequency,   *)
(* time stamps become slots of the window grid.                            *)
(* (src/internal/baseline/baseline.go)                                     *)
(***************************************************************************)
EXTENDS Integers

CONSTANTS NominalHz,     \* clocks.nominal_hz
          OffsetScale,   \* offset units in one (1e9 ppb in the code); a twentieth
                         \* of it, the unit tolerance, is a whole number of units
          Width          \* DefaultWindowWidth, in seconds

ASSUME BaselineAssumption ==
  /\ NominalHz \in Nat \ {0} /\ OffsetScale \in Nat \ {0} /\ OffsetScale % 20 = 0
  /\ Width \in Nat \ {0}

Distance(a, b) == IF a < b THEN b - a ELSE a - b

\* UnitTolerance: more than 5% off the nominal frequency is another unit.
UnitMismatch(hz) == 20 * Distance(hz, NominalHz) > NominalHz

\* Normalize, for readings it accepts.
Accepted(hz) == hz > 0 /\ ~UnitMismatch(hz)
Offset(hz) == ((hz - NominalHz) * OffsetScale) \div NominalHz

\* AlignWindow: floor to the grid, also before the epoch.
NearestStart(t) == ((t + Width \div 2) \div Width) * Width   \* mutant: rounded
WindowStart(t) == (t \div Width) * Width
WindowEnd(start) == start + Width
=============================================================================
