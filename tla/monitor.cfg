SPECIFICATION Spec
CONSTANTS
  s1 = s1
  s2 = s2
  Region = {r1, bad}
  Invalid = {bad}
  Sig = {s1, s2}
  Batches <- Mixed
  QueueCap = 2
  OutCap = 1
  Parallel = 2
  MaxOffers = 2
INVARIANTS TypeOK OfferedOnce DrainedBeforeRedial
PROPERTIES ReaderNeverBlocks Reconnects
