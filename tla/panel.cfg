\* One editor and one panel on a file that changes under them.
SPECIFICATION MCSpec
CONSTANTS
  None = None
  Contents <- MCContents
  Fields <- MCFields
  Listing <- MCListing
  SlotOf <- MCSlotOf
  FileContents = {"gAB", "gCA", "bad", "nUV", "nVW", "n0"}
  StoreContents = {}
  Unrenderable = {"c"}
  Editors = {e1}
  Panels = {p1}
  Exports = {}
  RevertOutlivesEditor = TRUE
  MaxHandles = 3
  MaxDocs = 2
  MaxReverts = 2
  MaxInFlight = 2
  MaxReplies = 1
INVARIANTS TypeOK PanelKeepsItsField NumbersMeanWhatThePageMeant NothingReadFromARevertedFile PagesKnowOfTheRefusal
PROPERTIES RowsOpenTheirField RendersAreAnswered RefusalsEndInAPick
CHECK_DEADLOCK FALSE
