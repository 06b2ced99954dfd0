SPECIFICATION Spec
CONSTANTS
  gui = gui
  cli = cli
  Missing = Missing
  None = None
  Processes = {gui, cli}
  MaxTime = 3
  MaxVersions = 3
  Inherited = 1
  Retention = 2
SYMMETRY Interchangeable
\* The clock of the instance runs out, and then no operation finds a free second.
CHECK_DEADLOCK FALSE
INVARIANTS
  TypeOK
  OriginalsStay
  ManifestFollows
