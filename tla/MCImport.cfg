SPECIFICATION MCSpec
CONSTANTS
  None = None
  Old = Old
  Legacy = {Old}
  MaxAccounts = 1
  Devices = {1}
  Jobs = {j1, j2}
  MaxAttempts = 2
  MaxStalls = 1
  MaxOverlaps = 0
  MaxMishaps = 1
  MaxOps = 2
  Parts = {"x", "y"}
  Shops <- MCShops
  Files <- MCFiles
INVARIANTS DeletedIsCopied AppliedOnce AcceptedFits CountersCover
CHECK_DEADLOCK FALSE
SYMMETRY Alike
