SPECIFICATION Spec
CONSTANTS
  Caller = {c1, c2}
  Refresher = ref
  RefreshMs = {0, 2, 6}
  Floor = 2
  MaxBackoff = 5
  Latency = 2
  MaxAge = 19
  MaxFails = 2
INVARIANTS TypeOK AgeBounded
PROPERTIES Recovers
