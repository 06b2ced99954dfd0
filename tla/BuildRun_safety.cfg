SPECIFICATION Spec
CONSTANTS
  w1 = w1
  w2 = w2
  rewards = rewards
  globals = globals
  costs = costs
  None = None
  Workers = {w1, w2}
  Count = 3
  Edits <- SharedEdits
  Internals = {rewards, globals}
  InternalOf <- SharedPaths
  Globals = {globals}
  MaxRuns = 2
  FilesMayFail = TRUE
  MayStop = TRUE
INVARIANTS TypeOK OnlyCompiledShips FoundSurvives
PROPERTIES CancelUndoes
SYMMETRY Interchangeable
\* After MaxRuns builds the instance has nothing left to do.
CHECK_DEADLOCK FALSE
