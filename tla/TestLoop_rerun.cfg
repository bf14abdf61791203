SPECIFICATION TestSpec
CONSTANTS
  Handlers = {h1, h2}
  Suite <- MCSuite
  Lines <- MCLines
  Limits = {1, 50}
  MaxPositional = 10
  MaxRuns = 3
INVARIANT RerunCoversFailures
CHECK_DEADLOCK FALSE
SYMMETRY Symmetry
