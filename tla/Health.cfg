SPECIFICATION MCSpec
CONSTANTS
  Tools = {grep}
  Hashes = {x1, x2}
  NoHash = NoHash
  None = None
  RepetitionThreshold = 2
  RepetitionWindow = 2
  ErrorRateWindow = 4
  Handlers = {h1, h2}
  Suite <- MCSuite
  Lines <- MCLines
  Limits = {1, 50}
  MaxPositional = 10
  MaxRuns = 3
INVARIANTS
    ErrorRateIsExact
    StreakIsTrailing
    TestTypeOK
PROPERTIES
    BurstCountedOnce
CHECK_DEADLOCK FALSE
SYMMETRY Symmetry
