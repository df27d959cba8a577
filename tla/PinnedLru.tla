------------------------------ MODULE PinnedLru ------------------------------
(***************************************************************************)
(* PinnedLru of fieldglass-napi/src/lib.rs: the decoded planes a NetCDF    *)
(* handle keeps (PlaneMemo), and the slices a Zarr handle keeps            *)
(* (SliceMemo).  A memo is the keys kept, newest last, and the keys of the *)
(* combined map's pair; the value kept under a key is the plane the key    *)
(* names, so it is not written out.                                        *)
(***************************************************************************)
EXTENDS Naturals, Sequences, FiniteSets, SequencesExt, FiniteSetsExt

CONSTANTS
  Planes,      \* PlaneKey: a variable, the two axes drawn, the indices held
  Weight,      \* plane to its cells
  ENTRIES,     \* the most entries kept
  CELLS        \* the cell budget

ASSUME WeightAssumption == Weight \in [Planes -> Nat]
ASSUME BudgetAssumption == ENTRIES \in Nat \ {0, 1} /\ CELLS \in Nat

EmptyLru == [entries |-> <<>>, pair |-> {}]

Kept(memo) == ToSet(memo.entries)

\* Cells kept across the entries, each key being kept once.
Cells(entries) == SumFunctionOnSet(Weight, ToSet(entries))

WithinBounds(entries) ==
  Len(entries) <= 1 \/ (Len(entries) <= ENTRIES /\ Cells(entries) <= CELLS)

\* The entry goes from where it is; a memo holds at most one of a plane.
PositionOf(entries, plane) == CHOOSE i \in DOMAIN entries : entries[i] = plane
Without(entries, plane) ==
  IF plane \in ToSet(entries) THEN RemoveAt(entries, PositionOf(entries, plane)) ELSE entries

\* get: a hit becomes the most recently used; a miss changes nothing.
Get(memo, plane) ==
  IF plane \in Kept(memo) THEN [memo EXCEPT !.entries = Append(Without(@, plane), plane)] ELSE memo

\* A turn of the loop of insert: past either bound, the least recently used goes
\* that is neither the newest nor of the pair.
Droppable_AnyOld(entries, pair) == 1 .. Len(entries) - 1
Droppable(entries, pair) == {i \in 1 .. Len(entries) - 1 : entries[i] \notin pair}
Turn(entries, pair) ==
  IF WithinBounds(entries) \/ Droppable(entries, pair) = {} THEN entries
  ELSE RemoveAt(entries, Min(Droppable(entries, pair)))

\* The loop takes an entry a turn, so it is done in as many turns as it has.
Trimmed(entries, pair) ==
  LET left[n \in 0 .. Len(entries)] == IF n = 0 THEN entries ELSE Turn(left[n - 1], pair)
  IN  left[Len(entries)]

Insert(memo, plane) ==
  [memo EXCEPT !.entries = Trimmed(Append(Without(@, plane), plane), memo.pair)]

Pin_Adds(memo, a, b) == [memo EXCEPT !.pair = @ \cup {a, b}]
Pin(memo, a, b) == [memo EXCEPT !.pair = {a, b}]
Unpin(memo) == [memo EXCEPT !.pair = {}]
UnpinUnless_Keeps(memo, plane) == memo
UnpinUnless(memo, plane) == IF plane \in memo.pair THEN memo ELSE Unpin(memo)
=============================================================================
