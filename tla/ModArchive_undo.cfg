SPECIFICATION Spec
CONSTANTS
  nmsbonker = nmsbonker
  cosmos = cosmos
  b1 = b1
  b2 = b2
  f1 = f1
  f2 = f2
  None = None
  Torn = Torn
  DefaultName = nmsbonker
  LegacyName = nmsbonker
  Names <- OneName
  NameRank <- OneNameRank
  Trees = {b1, b2}
  Files = {f1}
  MaxTime = 3
  MaxSuffix = 1
  Evening = {}
  Retention = 2
  RenameMayFail = FALSE
  Windows = TRUE
  Linked = FALSE
  Others = TRUE
  Inherited = FALSE
SYMMETRY InterchangeableBuilds
\* The clock of the instance runs out, and then no operation can name an entry.
CHECK_DEADLOCK FALSE
PROPERTIES
  RollbackUndoable
