\* A message picked from a list the file has since replaced.
SPECIFICATION Spec
CONSTANTS
  None = None
  Contents <- MCContents
  Fields <- MCFields
  Listing <- MCListing
  SlotOf <- MCSlotOf
  FileContents = {"gAB", "gCA"}
  StoreContents = {}
  Unrenderable = {}
  Editors = {e1}
  Panels = {p1}
  Exports = {}
  RevertOutlivesEditor = FALSE
  MaxHandles = 3
  MaxDocs = 1
  MaxReverts = 2
  MaxInFlight = 2
  MaxReplies = 1
PROPERTIES PicksDrawTheListedMessage
CHECK_DEADLOCK FALSE
