\* Two panels of either kind, an export and a Zarr store share the handles.
SPECIFICATION Spec
CONSTANTS
  None = None
  Contents <- MCContents
  Fields <- MCFields
  Listing <- MCListing
  SlotOf <- MCSlotOf
  FileContents = {"gA"}
  StoreContents = {"zU", "z0"}
  Unrenderable = {}
  Editors = {e1}
  Panels = {p1, p2}
  Exports = {x1}
  RevertOutlivesEditor = FALSE
  MaxHandles = 2
  MaxDocs = 1
  MaxReverts = 1
  MaxInFlight = 1
  MaxReplies = 1
SYMMETRY Symmetric
INVARIANTS LeasesMatchReferences
PROPERTIES CsvHoldsTheFieldAsked LifetimeSpec
CHECK_DEADLOCK FALSE
