SPECIFICATION MCSlowSpec
CONSTANTS
  None = None
  Old = Old
  Legacy = {Old}
  MaxAccounts = 1
  Devices = {1}
  Jobs = {j1, j2}
  MaxAttempts = 2
  MaxStalls = 1
  MaxOverlaps = 1
  MaxMishaps = 1
  MaxOps = 1
  Parts = {"x", "y"}
  Shops <- MCShops
  Files <- MCFiles
INVARIANT DeletedIsCopied
CHECK_DEADLOCK FALSE
