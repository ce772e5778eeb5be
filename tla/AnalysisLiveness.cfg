SPECIFICATION FairSpec
CONSTANTS
  c1 = c1 a = a b = b d = d w1 = w1 w2 = w2 w3 = w3 i1 = i1 i2 = i2 i3 = i3 r1 = r1 r2 = r2
  Clocks = {c1}
  Requests = {r1, r2}
  Recovery = Recovery
  Samples = {a}
  SampleClock <- OneOfOneClock
  SampleSlot <- OneSlot
  WindowIds = {w1}
  JumpIds = {i1}
  MinSamples = 1
  CandRows = 2
  MaxLoad = 2
  Asked = {"sealed"}
  Confirmable = {}
  CleanupFails = TRUE
  None = None
PROPERTIES RequestsEnd RecoveryServes
