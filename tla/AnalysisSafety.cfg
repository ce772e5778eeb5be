SPECIFICATION Spec
CONSTANTS
  c1 = c1 a = a b = b d = d w1 = w1 w2 = w2 w3 = w3 i1 = i1 i2 = i2 i3 = i3 r1 = r1 r2 = r2
  Clocks = {c1}
  Requests = {r1, r2}
  Recovery = Recovery
  Samples = {a, b, d}
  SampleClock <- ThreeOfOneClock
  SampleSlot <- ThreeSlots
  WindowIds = {w1, w2, w3}
  JumpIds = {i1, i2, i3}
  MinSamples = 1
  CandRows = 2
  MaxLoad = 3
  Asked = {"analyzing", "sealed"}
  Confirmable = {i1}
  CleanupFails = FALSE
  None = None
SYMMETRY RequestSymmetry
INVARIANTS TypeOK UniqueWindows UniqueAnchors RollbackUnreferenced DetectionComplete LiveIsProjection ScoredBeforeVerdict
PROPERTIES HalfScoresOnlyFromCrash RecoveredBeforeServing ImplementsDiagnosis
