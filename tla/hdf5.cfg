\* Two threads share the memo of one HDF5 file.
SPECIFICATION MCSpec
CONSTANTS
  None = None
  Failed = Failed
  Threads = {t1, t2}
  Sources = {"f", "g", "anon"}
  Identity <- MCIdentity
  SlotKeys = {"root"}
  HeaderKeys = {"h1", "h2"}
  RecordKeys = {"i1d1", "i1d2"}
  Indexes = {"i1"}
  IndexOf <- MCIndexOf
  ChunkKeys = {"d1c1", "d1c2", "d2c1", "d3c1"}
  Values <- MCValues
  Parsed <- MCParsed
  Size <- MCSize
  Overhead = 1
  MinKept = 1
  ChunkBudget = 7
  MaxKept = 2
  HeaderBudget = 5
  MaxTicks = 8
SYMMETRY Symmetric
INVARIANTS TypeOK AnswersAreTheSources HeaderBytesAccounted HeadersAreShared ChunkMemoCoherent
PROPERTIES EvictsLeastRecentlyUsed
CHECK_DEADLOCK FALSE
