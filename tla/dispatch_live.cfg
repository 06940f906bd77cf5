SPECIFICATION Spec
CONSTANTS
  Mint = {m1, m2}
  NoMint = NoMint
  Worker = {w1, w2}
  NoWorker = NoWorker
  ChanCap = 1
  MaxSent = 1
  Configs <- LivePaths
PROPERTIES ConsumerNeverStuck PurchaseRecorded DeskSpec
