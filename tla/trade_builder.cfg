SPECIFICATION Spec
CONSTANTS
  Theirs <- MCTheirs
  Signals <- MCSignals
  Reserves <- MCReserves
  BuyLamports = {0, 1, 6, 15}
  SlippageBps = {0, 1, 3, 5}
  Bps = 4
  Word = 16
INVARIANTS TypeOK AmmOnlyAfterMigration CurveBuyJustified SlotsFaithful AmmBuyFillable LimitScaled
PROPERTIES BuildEnds
