SPECIFICATION Spec
CONSTANTS
  c1 = c1 a = a b = b d = d w1 = w1 w2 = w2 w3 = w3 i1 = i1 i2 = i2 i3 = i3 r1 = r1 r2 = r2
  Clocks = {c1}
  Requests = {r1, r2}
  Recovery = Recovery
  Samples = {a, b}
  SampleClock <- TwoOfOneClock
  SampleSlot <- TwoSlots
  WindowIds = {w1, w2, w3}
  JumpIds = {i1, i2}
  MinSamples = 1
  CandRows = 2
  MaxLoad = 2
  Asked = {"sealed"}
  Confirmable = {}
  CleanupFails = FALSE
  None = None
PROPERTY SealedIsFinal
