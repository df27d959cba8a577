\* One page over its changes, toggles, exports and a reload.
SPECIFICATION FairSpec
CONSTANTS
  None = None
  Geometries = {"source", "map", "scan"}
  Fields = {"t", "b", "e", "u"}
  VariableOf <- MCVariableOf
  Ranges = {"auto", "log", "bad"}
  AutoRange = "auto"
  Log = "log"
  Failing = {"b", "u"}
  Vacant = {"e"}
  BadRanges = {"bad"}
  Refused <- MCRefused
  NoLines = {"scan"}
  Home <- MCHome
  Ticks = {{}, {"overlay", "contours"}}
  MaxEdits = 3
  MaxReloads = 1
INVARIANTS TypeOK LinesFitThePicture KeptPictureIsMarked PictureComesBack
PROPERTIES PngIsWhole ExportsEnd
CHECK_DEADLOCK FALSE
