SPECIFICATION Spec
CONSTANTS
  nmsbonker = nmsbonker
  cosmos = cosmos
  b1 = b1
  b2 = b2
  f1 = f1
  f2 = f2
  None = None
  Torn = Torn
  DefaultName = nmsbonker
  LegacyName = nmsbonker
  Names <- OneName
  NameRank <- OneNameRank
  Trees = {b1, b2}
  Files = {f1, f2}
  MaxTime = 1
  MaxSuffix = 3
  Evening = {}
  Retention = 2
  RenameMayFail = TRUE
  Windows = FALSE
  Linked = FALSE
  Others = FALSE
  Inherited = FALSE
SYMMETRY Interchangeable
\* The clock of the instance runs out, and then no operation can name an entry.
CHECK_DEADLOCK FALSE
INVARIANTS
  TypeOK
  Recoverable
PROPERTIES
  SealedEntries
