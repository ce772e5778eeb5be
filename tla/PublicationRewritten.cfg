SPECIFICATION Spec
CONSTANTS
  c1 = c1 c2 = c2 l2 = l2 j1 = j1 j2 = j2 s1 = s1 s2 = s2 r1 = r1 r2 = r2
  Clocks = {c1}
  Links = {}
  Jumps = {j1}
  Snaps = {s1, s2}
  Requests = {r1, r2}
  Asked = {"analyzing", "sealed", "paused"}
  SnapClock <- OneClockSnaps
  LinkClock <- NoLinks
  JumpClock <- OneClockJumps
  None = None
PROPERTY PublishedImmutable
