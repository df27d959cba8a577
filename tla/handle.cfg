\* Views and reads of planes on two grids, through what a handle keeps.
SPECIFICATION MCSpec
CONSTANTS
  Planes = {"a", "b", "c", "d", "e", "m"}
  Weight <- MCWeight
  ENTRIES = 4
  CELLS = 8
  Grids = {"regular", "mesh"}
  Lookup = {"mesh"}
  Views = {"source", "wide", "band"}
  SourceView = "source"
  Refused <- MCRefused
  OverBudget <- MCOverBudget
  GridOf <- MCGridOf
INVARIANTS TypeOK AnswersAreFreshWarps ShownMapStaysDecoded AtMostTwoPastTheBudget
PROPERTIES NoRewarp
