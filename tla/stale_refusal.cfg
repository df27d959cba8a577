\* A refusal read after its range was edited.
SPECIFICATION Spec
CONSTANTS
  None = None
  Geometries = {"source", "map", "scan"}
  Fields = {"t", "b", "e", "u"}
  VariableOf <- MCVariableOf
  Ranges = {"auto", "log", "bad"}
  AutoRange = "auto"
  Log = "log"
  Failing = {"b", "u"}
  Vacant = {"e"}
  BadRanges = {"bad"}
  Refused <- MCRefused
  NoLines = {"scan"}
  Home <- MCHome
  Ticks = {{}, {"overlay", "contours"}}
  MaxEdits = 3
  MaxReloads = 1
INVARIANTS RefusalIsOfTheFields
CHECK_DEADLOCK FALSE
