SPECIFICATION FairSpec
CONSTANTS
  w1 = w1
  w2 = w2
  rewards = rewards
  globals = globals
  costs = costs
  None = None
  Workers = {w1, w2}
  Count = 4
  Edits <- FourEdits
  Internals = {rewards, globals, costs}
  InternalOf <- FourPaths
  Globals = {globals}
  MaxRuns = 2
  FilesMayFail = FALSE
  MayStop = FALSE
PROPERTIES PublishedMatchesPlan AllOrNothing CancelReturns
\* After MaxRuns builds the instance has nothing left to do.
CHECK_DEADLOCK FALSE
