SPECIFICATION Spec
CONSTANTS
  Settings <- MCSettings
  Balances = {0, 3}
  MaxStarts = 3
INVARIANTS TypeOK ExposureBounded BundleReady
CHECK_DEADLOCK FALSE
