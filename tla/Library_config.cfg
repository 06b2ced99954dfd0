SPECIFICATION Spec
SYMMETRY MCSymmetry
CONSTANTS
  tweak = tweak
  script = script
  plain = plain
  tuned = tuned
  broken = broken
  torn = torn
  none = none
  gui = gui
  cli = cli
  Order <- MCOrder
  Builtin = {tweak}
  Texts = {plain, tuned, broken, torn}
  Torn = torn
  Declares <- MCDeclares
  Sandboxed = {plain, tuned}
  Default = 2
  Low = 1
  High = 3
  Limits = {1, 3}
  DefaultLimit = 1
  Threads = {gui, cli}
  Requests <- MCRequests
  MaxRequests = 3
  MaxEdits = 1
  MaxStops = 1
  None = none
INVARIANTS
  TypeOK
  Consent
  BuiltMeansBuilt
PROPERTIES
  SavesOnlyWhatWasAsked
  EditKeepsPrevious
CHECK_DEADLOCK FALSE
