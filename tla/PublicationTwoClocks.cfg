SPECIFICATION Spec
CONSTANTS
  c1 = c1 c2 = c2 l2 = l2 j1 = j1 j2 = j2 s1 = s1 s2 = s2 r1 = r1 r2 = r2
  Clocks = {c1, c2}
  Links = {l2}
  Jumps = {j2}
  Snaps = {s1, s2}
  Requests = {r1}
  Asked = {"analyzing", "review", "confirmed", "sealed"}
  SnapClock <- TwoClockSnaps
  LinkClock <- TwoClockLinks
  JumpClock <- TwoClockJumps
  None = None
INVARIANTS EvidenceGrounded
PROPERTY ImplementsDiagnosis
