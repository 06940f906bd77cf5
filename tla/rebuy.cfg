SPECIFICATION SafeSpec
CONSTANTS
  Mint = {m1, m2}
  NoMint = NoMint
  Worker = {w1}
  NoWorker = NoWorker
  ChanCap = 1
  MaxSent = 2
  Configs <- Bundle
INVARIANT NoRebuy
