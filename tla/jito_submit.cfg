SPECIFICATION Spec
CONSTANTS
  Mint = {m1}
  NoMint = NoMint
  N = 3
  TicksPerMs = 2
  Configs <- Settings
  RetryHints = {0}
  CooldownFloor = 1
  MaxAge = 5
INVARIANTS TypeOK FallbackIsLast
PROPERTIES ThrottledSpacing ChosenByPreference GivesUpOnlyAfterAll ThrottleEnds DeskSpec
