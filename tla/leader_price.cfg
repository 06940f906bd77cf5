SPECIFICATION Spec
CONSTANTS
  Theirs <- MCTheirs
  Signals <- MCBuys
  Reserves <- MCReserves
  BuyLamports = {3}
  SlippageBps = {1}
  Bps = 4
  Word = 16
INVARIANT LeaderPrice
