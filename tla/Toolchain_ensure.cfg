SPECIFICATION FairSpec
CONSTANTS
  older = older
  newer = newer
  None = None
  MaxTag = 2
  GameOf <- MCGameOf
  Limit = 1
  MaxOpens = 3
INVARIANTS TypeOK SlotsAccounted EnsuredRuns
PROPERTIES WorkingInstallStays OperationsEnd
\* After MaxOpens operations the instance has nothing left to do.
CHECK_DEADLOCK FALSE
