SPECIFICATION Spec
CONSTANTS
  Client = {"c1", "c2"}
  TableKey = {"t1", "t2"}
  Start <- MCStart
  Size <- MCSize
  Table <- MCTable
  Permits = 1
  MaxPrefetch = 1
  Arrivals <- MCArrivals
  Settings <- MCSettings
  PumpNamed = {"mint"}
  MintLike = {"mint", "curve"}
  Derived <- MCDerived
  MinWrap = 5
INVARIANTS TypeOK SignalFaithful StageZeroComplete FetchesBounded
PROPERTY ParseEnds
