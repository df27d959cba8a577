\* A page that waits is answered, and a panel on screen follows its document.
SPECIFICATION FairSpec
CONSTANTS
  None = None
  Contents <- MCContents
  Fields <- MCFields
  Listing <- MCListing
  SlotOf <- MCSlotOf
  FileContents = {"gAB", "gCA", "nUV", "n0", "bad"}
  StoreContents = {}
  Unrenderable = {"c"}
  Editors = {e1}
  Panels = {p1}
  Exports = {}
  RevertOutlivesEditor = FALSE
  MaxHandles = 2
  MaxDocs = 2
  MaxReverts = 1
  MaxInFlight = 1
  MaxReplies = 1
INVARIANTS EditorShowsItsDocument
PROPERTIES AsksAreAnswered EmptyPanelsLearn OutdatedHandlesAreLetGo
CHECK_DEADLOCK FALSE
