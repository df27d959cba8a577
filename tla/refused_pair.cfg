\* A combine that is refused after its planes were read.
SPECIFICATION MCSpec
CONSTANTS
  Planes = {"a", "b", "c", "m"}
  Weight <- MCWeight
  ENTRIES = 4
  CELLS = 8
  Grids = {"regular", "mesh"}
  Lookup = {"mesh"}
  Views = {"source"}
  SourceView = "source"
  Refused <- MCRefused
  OverBudget <- MCOverBudget
  GridOf <- MCGridOf
INVARIANTS RefusedPairHoldsNothingPastTheBudget
