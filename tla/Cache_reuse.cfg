SPECIFICATION FairSpec
CONSTANTS
  gui = gui
  exact = exact
  loose = loose
  table = table
  twin = twin
  v1 = v1
  v2 = v2
  here = here
  there = there
  None = None
  Torn = Torn
  Processes = {gui}
  Keys = {exact, loose}
  Names = {table, twin}
  PathOf <- Paths
  BaseOf <- OneBase
  HomesOf <- TwoHomes
  PakCount = 2
  BuildIds = {here}
  Compilers = {v1, v2}
  Workers = 2
  MaxUpdates = 1
  MaxRuns = 2
  MayStop = TRUE
INVARIANTS TypeOK FreshIndexResolves ReusedDataIsCurrent
PROPERTIES EnsureEnds
