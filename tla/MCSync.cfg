SPECIFICATION Spec
CONSTANTS
  MaxDocNo = 2
  Bills = {b1, b2}
  Returned = {b1}
  Voided = {b1}
  LateDated = {b2}
  MaxPushes = 3
  BatchSize = 2
  StuckAt = 2
  MaxResends = 1
  MaxMishaps = 2
  None = None
INVARIANTS OnceEach NothingLost InOrder NumbersDiffer PaperKnown
CHECK_DEADLOCK FALSE
