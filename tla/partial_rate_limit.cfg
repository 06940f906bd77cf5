SPECIFICATION SafeSpec
CONSTANTS
  Mint = {m1}
  NoMint = NoMint
  N = 3
  TicksPerMs = 2
  Configs <- Failover
  RetryHints = {0}
  CooldownFloor = 1
  MaxAge = 5
PROPERTY FallbackWhenAllLimited
