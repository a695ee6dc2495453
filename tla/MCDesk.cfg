SPECIFICATION Spec
CONSTANTS
  Handlers = {h1, h2}
  MaxRuns = 2
  MaxFaults = 1
SYMMETRY Symmetry
CHECK_DEADLOCK FALSE
INVARIANTS
  NoGapUnlessExcused
  OneRunUnlessExcused
  OnceUnlessExcused
