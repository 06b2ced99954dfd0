SPECIFICATION Spec
CONSTANTS
  Sittings <- MCEdits
  Nothing = Nothing
  Saves = {a, b}
  Fields <- MCFields
  Label <- MCLabel
  ShipOf <- MCShipOf
  Ships <- MCShips
  Primary = "s1"
  Picks = {"type"}
  Values = {v1, v2}
  Stock = v1
PROPERTY WritesOnlyTypedFields
CHECK_DEADLOCK FALSE
