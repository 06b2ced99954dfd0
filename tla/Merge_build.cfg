SPECIFICATION Spec
CONSTANTS
  Inside <- NamesIn
  MaxInt32 = 100
  Lookback = 2
  Mods = {"money", "stack", "lib", "extra"}
  Script <- Scripts
  KeyOf <- Keys
  Internal <- Paths
  NoFile = "none"
  Stock <- Files
  Tables = {"Reward"}
  Knobs = {9}
  StartOrder <- Order
  StartOff = {"extra"}
  Limits <- Allowed
  MaxEdits = 2
  MaxBuilds = 2
INVARIANTS TypeOK EveryEditShips VerdictsHonest FixKeepsPromise
PROPERTIES ScaledOnce
\* After MaxBuilds builds and MaxEdits changes the instance has nothing left to do.
CHECK_DEADLOCK FALSE
