SPECIFICATION FairSpec
CONSTANTS
  c1 = c1 c2 = c2 a = a b = b d = d e = e
  Clocks = {c1, c2}
  Requests = {r1, r2}
  Samples = {a, b, d, e}
  SampleClock <- TwoClocks
  TakenAt <- InOrder
  Batches <- SomeBatches
  AskedRows = 3
  MaxRows = 2
  DefaultRows = 1
  None = None
INVARIANTS TypeOK IndexHoldsOnlyStored IndexedOnce IndexLacksOnlyNewest
PROPERTIES BatchAtomic RequestsEnd
