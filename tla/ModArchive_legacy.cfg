SPECIFICATION Spec
CONSTANTS
  nmsbonker = nmsbonker
  cosmos = cosmos
  b1 = b1
  b2 = b2
  f1 = f1
  f2 = f2
  None = None
  Torn = Torn
  DefaultName = nmsbonker
  LegacyName = cosmos
  Names <- MCNames
  NameRank <- MCNameRank
  Trees = {b1}
  Files = {f1}
  MaxTime = 2
  MaxSuffix = 1
  Evening = {}
  Retention = 3
  RenameMayFail = FALSE
  Windows = FALSE
  Linked = TRUE
  Others = FALSE
  Inherited = FALSE
\* The clock of the instance runs out, and then no operation can name an entry.
CHECK_DEADLOCK FALSE
PROPERTIES
  DeployKeepsUndo
  PruneSparesNewest
  DeploySparesLinkTarget
