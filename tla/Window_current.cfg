SPECIFICATION Spec
CONSTANTS
  Sittings <- MCSittings
  Nothing = Nothing
  Saves = {a, b}
  Fields <- MCFields
  Label <- MCLabel
  ShipOf <- MCShipOf
  Ships <- MCShips
  Primary = "s1"
  Picks = {"type"}
  Values = {v1, v2}
  Stock = v1
INVARIANTS
  TypeOK
  ReadsCurrent
PROPERTIES
  StepsOnlyForward
  WritesGoToTheirSave
CHECK_DEADLOCK FALSE
