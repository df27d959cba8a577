-------------------------- MODULE WindowFetchProofs --------------------------
(***************************************************************************)
(* What a window's plan and decode promise, for every grid, chunking,      *)
(* store and request: TypeOK, AnswersAreTheStores, PlanIsEnough and        *)
(* WindowIsTheBox.                                                         *)
(*                                                                         *)
(* GivenInv is what makes them inductive: what the host gave of an object  *)
(* is of the size the store states, and never lost.  So a range that was   *)
(* once answered stays answered, and a plan that located the inner chunks  *)
(* of a shard goes on naming what a decode reads of it.                    *)
(***************************************************************************)
EXTENDS WindowFetch, SumTheorems, TLAPS

-----------------------------------------------------------------------------
(* The columns of a window are columns of the grid.                        *)

\* A run of n columns.
IsRun(run, n) == run \in Nat \X Nat /\ run[1] <= run[2] /\ run[2] <= n

AreRuns(runs, n) ==
  \/ runs = <<>>
  \/ \E a : IsRun(a, n) /\ runs = <<a>>
  \/ \E a, b : IsRun(a, n) /\ IsRun(b, n) /\ runs = <<a, b>>

LEMMA ColumnsFinite ==
  ASSUME NEW n \in Nat, NEW S, S \subseteq 0 .. n - 1
  PROVE  IsFiniteSet(S) /\ Cardinality(S) \in Nat /\ (Cardinality(S) = 0 <=> S = {})
<1>1. IsFiniteSet(0 .. n - 1)
  BY FS_Interval
<1> QED BY <1>1, FS_Subset, FS_CardinalityType, FS_EmptySet

\* The least and the greatest of some columns are among them.
LEMMA EndColumns ==
  ASSUME NEW n \in Nat, NEW S, S \subseteq 0 .. n - 1, S # {}
  PROVE  /\ Min(S) \in S /\ Max(S) \in S /\ Min(S) <= Max(S)
         /\ \A c \in S : Min(S) <= c /\ c <= Max(S)
<1>1. Min(S) \in S /\ \A y \in S : Min(S) <= y
  <2>1. \E x \in S : \A y \in S : x <= y
    BY LeastNatural
  <2> QED BY <2>1 DEF Min
<1>2. Max(S) \in S /\ \A y \in S : y <= Max(S)
  <2> DEFINE T == {n - x : x \in S}
  <2>1. T \in SUBSET Nat /\ T # {}
    <3>1. \A x \in S : n - x \in Nat
      OBVIOUS
    <3> QED BY <3>1
  <2>2. PICK t \in T : \A u \in T : t <= u
    BY <2>1, LeastNatural
  <2>3. PICK x \in S : t = n - x
    BY <2>2
  <2>4. ASSUME NEW y \in S PROVE x >= y
    BY <2>2, <2>3
  <2> QED BY <2>4 DEF Max
<1> QED BY <1>1, <1>2

\* The runs of the columns selected stay on the grid.
LEMMA SelectionRuns ==
  ASSUME NEW n \in Nat, n >= 2, NEW S, S \subseteq 0 .. n - 1, NEW periodic \in BOOLEAN
  PROVE  AreRuns(ColumnRuns(S, n, periodic), n)
<1> DEFINE starts == {i \in S : (i + n - 1) % n \notin S}
           count == Cardinality(S)
           start == Min(starts)
           runs == ColumnRuns(S, n, periodic)
<1>1. count \in Nat /\ (count = 0 <=> S = {})
  BY ColumnsFinite
<1>2. ASSUME NEW a \in Nat, NEW b \in Nat, a <= b, b <= n PROVE IsRun(<<a, b>>, n)
  BY <1>2 DEF IsRun
<1>3. CASE count = 0
  BY <1>3 DEF ColumnRuns, AreRuns
<1>4. CASE count = n /\ count # 0
  <2>1. runs = <<<<0, n>>>>
    BY <1>4 DEF ColumnRuns
  <2> QED BY <1>2, <2>1 DEF AreRuns
<1>5. CASE count \in 1 .. n - 1 /\ periodic /\ Cardinality(starts) = 1
  <2>1. starts # {} /\ starts \subseteq 0 .. n - 1
    <3>1. Cardinality({}) = 0
      BY FS_EmptySet
    <3>2. Cardinality(starts) # 0
      BY <1>5
    <3> HIDE DEF starts
    <3>3. starts # {}
      BY <3>1, <3>2
    <3> QED BY <3>3 DEF starts
  <2>2. start \in 0 .. n - 1
    BY <2>1, EndColumns
  <2>3. count # 0 /\ count # n /\ Cardinality(S) = count
    BY <1>5
  <2>4. CASE start + count <= n
    <3> HIDE DEF start, count, starts
    <3>1. IsRun(<<start, start + count>>, n)
      BY <1>2, <1>5, <2>2, <2>4
    <3> USE DEF start, starts
    <3>2. runs = <<<<start, start + count>>>>
      BY <1>5, <2>2, <2>3, <2>4 DEF ColumnRuns
    <3> QED BY <3>1, <3>2 DEF AreRuns
  <2>5. CASE ~(start + count <= n)
    <3> HIDE DEF start, count, starts
    <3>1. start + count - n \in Nat /\ start + count - n <= n
      BY <1>5, <2>2, <2>5
    <3>2. IsRun(<<start, n>>, n) /\ IsRun(<<0, start + count - n>>, n)
      BY <1>2, <2>2, <3>1
    <3> PICK st : st = starts
      OBVIOUS
    <3> PICK least : least = start
      OBVIOUS
    <3>3. st = {i \in S : (i + n - 1) % n \notin S} /\ least = Min(st) /\ least \in Nat
      BY <2>2 DEF start, starts
    <3>4. Cardinality(st) = 1 /\ ~(least + count <= n)
      BY <1>5, <2>5
    <3>5. runs = <<<<least, n>>, <<0, least + count - n>>>>
      BY <1>5, <2>3, <3>3, <3>4 DEF ColumnRuns
    <3> QED BY <3>2, <3>5 DEF AreRuns
  <2> QED BY <2>4, <2>5
<1>6. CASE ~(count = 0 \/ count = n \/ (count \in 1 .. n - 1 /\ periodic /\ Cardinality(starts) = 1))
  <2>1. runs = <<Span(S)>>
    BY <1>6 DEF ColumnRuns
  <2>2. Min(S) \in 0 .. n - 1 /\ Max(S) \in 0 .. n - 1 /\ Min(S) <= Max(S)
    BY <1>1, <1>6, EndColumns
  <2>3. IsRun(Span(S), n)
    <3> PICK a, b : a = Min(S) /\ b = Max(S)
      OBVIOUS
    <3>1. Span(S) = <<a, b + 1>> /\ a \in Nat /\ b + 1 \in Nat /\ a <= b + 1 /\ b + 1 <= n
      BY <2>2 DEF Span
    <3> QED BY <1>2, <3>1
  <2> QED BY <2>1, <2>3 DEF AreRuns
<1> QED BY <1>3, <1>4, <1>5, <1>6

\* Two columns where there was one.
LEMMA WidenedRuns ==
  ASSUME NEW n \in Nat, n >= 2, NEW runs, AreRuns(runs, n), NEW periodic \in BOOLEAN
  PROVE  AreRuns(WidenColumns(runs, n, periodic), n)
<1> DEFINE wide == WidenColumns(runs, n, periodic)
<1>1. ASSUME NEW a \in Nat, NEW b \in Nat, a <= b, b <= n PROVE IsRun(<<a, b>>, n)
  BY <1>1 DEF IsRun
<1>2. CASE ~(Len(runs) = 1 /\ runs[1][2] - runs[1][1] = 1)
  <2>1. wide = runs
    BY <1>2 DEF WidenColumns
  <2> QED BY <2>1
<1>3. CASE Len(runs) = 1 /\ runs[1][2] - runs[1][1] = 1
  <2>1. PICK a : IsRun(a, n) /\ runs = <<a>>
    BY <1>3 DEF AreRuns
  <2>2. PICK x, y : a = <<x, y>> /\ x \in Nat /\ y \in Nat /\ x <= y /\ y <= n
    BY <2>1 DEF IsRun
  <2>3. runs[1] = <<x, y>> /\ y = x + 1
    BY <1>3, <2>1, <2>2
  <2>4. \/ y < n /\ wide = <<<<x, y + 1>>>>
        \/ periodic /\ wide = <<<<x, y>>, <<0, 1>>>>
        \/ ~(y < n) /\ wide = <<<<x - 1, y>>>>
    BY <1>3, <2>2, <2>3 DEF WidenColumns
  <2>5. /\ y < n => IsRun(<<x, y + 1>>, n)
        /\ IsRun(<<x, y>>, n) /\ IsRun(<<0, 1>>, n)
        /\ ~(y < n) => IsRun(<<x - 1, y>>, n)
    BY <1>1, <2>2, <2>3
  <2> QED BY <2>4, <2>5 DEF AreRuns
<1> QED BY <1>2, <1>3

\* What a window lists of its runs.
LEMMA ListedColumns ==
  ASSUME NEW n \in Nat, NEW runs, AreRuns(runs, n)
  PROVE  /\ ColumnsOf(runs) \in Seq(0 .. n - 1)
         /\ {ColumnsOf(runs)[i] : i \in DOMAIN ColumnsOf(runs)} \subseteq 0 .. n - 1
<1> DEFINE of(run) == [i \in 1 .. run[2] - run[1] |-> run[1] + i - 1]
<1>1. ASSUME NEW a, IsRun(a, n) PROVE of(a) \in Seq(0 .. n - 1)
  <2>1. PICK x, y : a = <<x, y>> /\ x \in Nat /\ y \in Nat /\ x <= y /\ y <= n
    BY <1>1 DEF IsRun
  <2>2. of(a) = [i \in 1 .. y - x |-> x + i - 1] /\ y - x \in Nat
    BY <2>1
  <2>3. \A i \in 1 .. y - x : x + i - 1 \in 0 .. n - 1
    BY <2>1
  <2> HIDE DEF of
  <2> PICK m : m = y - x
    OBVIOUS
  <2>4. m \in Nat /\ of(a) \in [1 .. m -> 0 .. n - 1]
    BY <2>2, <2>3
  <2> QED BY <2>4
<1> HIDE DEF of
<1>2. ColumnsOf(runs) \in Seq(0 .. n - 1)
  <2>1. CASE runs = <<>>
    BY <2>1 DEF ColumnsOf
  <2>2. ASSUME NEW a, IsRun(a, n), runs = <<a>> PROVE ColumnsOf(runs) \in Seq(0 .. n - 1)
    <3>1. Len(runs) = 1 /\ runs[1] = a
      BY <2>2
    <3>2. ColumnsOf(runs) = of(a)
      BY <3>1 DEF ColumnsOf, of
    <3> QED BY <1>1, <2>2, <3>2
  <2>3. ASSUME NEW a, NEW b, IsRun(a, n), IsRun(b, n), runs = <<a, b>>
        PROVE  ColumnsOf(runs) \in Seq(0 .. n - 1)
    <3>1. Len(runs) = 2 /\ runs[1] = a /\ runs[2] = b
      BY <2>3
    <3>2. ColumnsOf(runs) = of(runs[1]) \o of(runs[2])
      <4>1. Len(runs) # 0 /\ Len(runs) # 1
        BY <3>1
      <4> QED BY <4>1, Zenon DEF ColumnsOf, of
    <3>3. of(a) \in Seq(0 .. n - 1) /\ of(b) \in Seq(0 .. n - 1)
      BY <1>1, <2>3
    <3> QED BY <3>1, <3>2, <3>3
  <2> QED BY <2>1, <2>2, <2>3 DEF AreRuns
<1> PICK s : s = ColumnsOf(runs)
  OBVIOUS
<1>3. \A i \in DOMAIN s : s[i] \in 0 .. n - 1
  BY <1>2
<1> QED BY <1>2, <1>3

\* The inner chunk of a column and the chunk it is in, by either layout.
LEMMA ChunkTwice ==
  ASSUME NEW a \in Nat, NEW b \in Nat \ {0}, NEW c \in Nat \ {0}
  PROVE  (a \div b) \div c = a \div (b * c) /\ a \div b \in Nat /\ a \div (b * c) \in Nat
OBVIOUS

LEMMA ColumnChunk ==
  ASSUME NEW c \in Columns
  PROVE  /\ ShardOf(Inner(c)) = c \div (InnerColumns * PerShard)
         /\ ShardOf(Inner(c)) \in Objects /\ Inner(c) \in Nat
<1>1. c \in Nat
  BY DEF Columns
<1>2. /\ ShardOf(Inner(c)) = c \div (InnerColumns * PerShard)
      /\ Inner(c) \in Nat
  BY <1>1, ChunkTwice, WindowFetchAssumption DEF ShardOf, Inner
<1> QED BY <1>2 DEF Objects

\* No object is the coordinate.
LEMMA ObjectKeys == Objects \subseteq Nat /\ Coord \notin Objects /\ Objects \subseteq Keys
<1>1. ASSUME NEW c \in Columns PROVE c \div (InnerColumns * PerShard) \in Nat
  BY ChunkTwice, WindowFetchAssumption DEF Columns
<1> QED BY <1>1 DEF Objects, Coord, Keys

\* The position of an inner chunk in its shard's index.
LEMMA SlotOf ==
  ASSUME NEW t \in 0 .. Times - 1, NEW b \in Nat
  PROVE  Linear(t, b) \in Slots
<1>1. /\ Times \in Nat /\ PerShard \in Nat \ {0} /\ b % PerShard \in 0 .. PerShard - 1
  BY WindowFetchAssumption
<1>2. (t + 1) * PerShard <= Times * PerShard /\ t * PerShard \in Nat
  BY <1>1
<1>3. (t + 1) * PerShard = t * PerShard + PerShard /\ Times * PerShard \in Nat
  BY <1>1
<1> QED BY <1>1, <1>2, <1>3 DEF Linear, Slots

-----------------------------------------------------------------------------
(* What a request needs of the store.                                      *)

Opened == store \in Stores /\ request \in Requests

LEMMA WindowOnTheGrid ==
  ASSUME Opened
  PROVE  /\ Selected \subseteq Columns
         /\ ColumnsOf(Runs) \in Seq(Columns)
         /\ PlannedChunks \subseteq Objects
<1> DEFINE sel(q, spacing) == {c \in Columns : OnArc(c * spacing, q.west, q.east)}
           open == ColumnRuns(sel(request, store.spacing), NI, Closes(store.spacing))
<1>1. Runs = WidenColumns(open, NI, Closes(store.spacing))
  BY DEF Opened, Runs, RunsOf
<1>2. NI \in Nat /\ NI >= 2 /\ Columns = 0 .. NI - 1 /\ Closes(store.spacing) \in BOOLEAN
  BY WindowFetchAssumption DEF Columns, Closes
<1>3. sel(request, store.spacing) \subseteq 0 .. NI - 1
  BY <1>2
<1>4. AreRuns(open, NI)
  BY <1>2, <1>3, SelectionRuns
<1>5. AreRuns(Runs, NI)
  BY <1>1, <1>2, <1>4, WidenedRuns
<1>6. Selected \subseteq Columns /\ ColumnsOf(Runs) \in Seq(Columns)
  BY <1>2, <1>5, ListedColumns DEF Selected
<1> QED BY <1>6, ColumnChunk DEF PlannedChunks

\* A range of an object of the store, of at least a byte.
RangeOf(k, r) == r \in ByteRange /\ r.len # 0 /\ EndOf(r) <= store.size[k]

LEMMA StoredRanges ==
  ASSUME Opened, NEW k \in Objects
  PROVE  /\ store.size[k] \in Nat /\ RangeOf(k, IndexRange(k))
         /\ \A b \in Touched(k) : HasEntry(k, request.time, b) =>
              RangeOf(k, EntryRange(k, request.time, b))
         /\ \A r \in InnerRanges(k) : RangeOf(k, r)
<1>1. StoreShape(store) /\ request.time \in 0 .. Times - 1 /\ IndexLen \in Nat \ {0}
  BY WindowFetchAssumption DEF Opened
<1>2. store.size[k] \in Nat /\ store.size[k] >= IndexLen
  BY <1>1 DEF StoreShape
<1>3. RangeOf(k, IndexRange(k))
  BY <1>1, <1>2 DEF RangeOf, IndexRange, ByteRange, EndOf
<1>4. ASSUME NEW b \in Touched(k), HasEntry(k, request.time, b)
      PROVE  RangeOf(k, EntryRange(k, request.time, b))
  <2>1. b \in Nat
    BY WindowOnTheGrid, ColumnChunk DEF Touched
  <2> PICK i : i = Linear(request.time, b)
    OBVIOUS
  <2>2. i \in Slots
    BY <1>1, <2>1, SlotOf
  <2>3. store.index[k] \in [Slots -> Nat \cup {NoEntry}] /\ store.index[k][i] # NoEntry
    BY <1>1, <1>4 DEF StoreShape, HasEntry, Entry
  <2>4. /\ store.chunk[k][store.index[k][i]].len \in Nat \ {0}
        /\ store.index[k][i] + store.chunk[k][store.index[k][i]].len <= store.size[k]
    BY <1>1, <2>2, <2>3 DEF StoreShape
  <2>5. store.index[k][i] \in Nat
    BY <2>2, <2>3
  <2>6. EntryRange(k, request.time, b) =
          [at |-> store.index[k][i], len |-> store.chunk[k][store.index[k][i]].len]
    BY DEF EntryRange, Entry
  <2> QED BY <2>4, <2>5, <2>6 DEF RangeOf, ByteRange, EndOf
<1> QED BY <1>2, <1>3, <1>4 DEF InnerRanges

-----------------------------------------------------------------------------
(* What the host has given of an object.                                   *)

\* Ranges of it, one from each offset, where it is given by range.
IsGiven(f) ==
  /\ f \in Fetched /\ (f.kind # "ranges" => f.held = {})
  /\ \A r, q \in f.held : EndOf(r) <= f.size /\ (r.at = q.at => r = q)

\* What can be read of it can still be read of the other.
StillRead(f, after) ==
  \A r \in ByteRange : Ranged(f, r) # "never given" => Ranged(after, r) # "never given"

\* Giving a range loses none: the one it replaces is shorter.
LEMMA LongerKeptHolds ==
  ASSUME NEW held, held \subseteq ByteRange, NEW r \in ByteRange, NEW x \in ByteRange,
         Holds(held, x)
  PROVE  Holds(LongerKept(held, r), x)
<1>1. CASE x.len = 0
  BY <1>1 DEF Holds
<1>2. CASE x.len # 0
  <2>1. PICK h \in held : h.at <= x.at /\ EndOf(x) <= EndOf(h)
    BY <1>2 DEF Holds
  <2>2. CASE \E g \in held : g.at = r.at /\ g.len >= r.len
    BY <2>1, <2>2 DEF Holds, LongerKept
  <2>3. CASE ~\E g \in held : g.at = r.at /\ g.len >= r.len
    <3>1. LongerKept(held, r) = {g \in held : g.at # r.at} \cup {r}
      BY <2>3 DEF LongerKept
    <3>2. CASE h.at # r.at
      BY <2>1, <3>1, <3>2 DEF Holds
    <3>3. CASE h.at = r.at
      <4>1. h.len < r.len /\ h \in ByteRange
        BY <2>3, <3>3 DEF ByteRange
      <4>2. r.at <= x.at /\ EndOf(x) <= EndOf(r)
        BY <2>1, <3>3, <4>1 DEF ByteRange, EndOf
      <4> QED BY <3>1, <4>2 DEF Holds
    <3> QED BY <3>2, <3>3
  <2> QED BY <2>2, <2>3
<1> QED BY <1>1, <1>2

LEMMA LongerKeptTypes ==
  ASSUME NEW held, held \subseteq ByteRange, NEW r \in ByteRange, NEW size \in Nat,
         EndOf(r) <= size, \A g, q \in held : EndOf(g) <= size /\ (g.at = q.at => g = q)
  PROVE  /\ LongerKept(held, r) \subseteq ByteRange
         /\ \A g, q \in LongerKept(held, r) : EndOf(g) <= size /\ (g.at = q.at => g = q)
BY DEF LongerKept

\* A range given of an object.
LEMMA RangeGiven ==
  ASSUME NEW f, IsGiven(f), NEW size \in Nat, Sized(f) => f.size = size,
         NEW r \in ByteRange, NEW after, after = WithRange(f, size, r)
  PROVE  /\ IsGiven(after) /\ StillRead(f, after)
         /\ Sized(after) => after.size = size
         /\ f.kind # "none" => after.kind = f.kind
<1>1. CASE after = f
  BY <1>1 DEF StillRead
<1>2. CASE after # f
  <2> PICK kept : kept = LongerKept(f.held, r)
    OBVIOUS
  <2>1. /\ ~RangeRefused(f, size, r) /\ f.kind # "whole"
        /\ after = [kind |-> "ranges", size |-> size, held |-> kept]
    BY <1>2 DEF WithRange
  <2>2. after.kind = "ranges" /\ after.size = size /\ after.held = kept
    BY <2>1
  <2>3. f.kind \in {"none", "ranges"} /\ f.held \subseteq ByteRange /\ EndOf(r) <= size
    BY <2>1 DEF IsGiven, Fetched, RangeRefused, ByteRange, EndOf
  <2>4. \A g, q \in f.held : EndOf(g) <= size /\ (g.at = q.at => g = q)
    BY <2>3 DEF IsGiven, Sized
  <2>5. /\ kept \subseteq ByteRange
        /\ \A g, q \in kept : EndOf(g) <= size /\ (g.at = q.at => g = q)
    BY <2>3, <2>4, LongerKeptTypes
  <2>6. IsGiven(after)
    <3>1. after \in Fetched
      BY <2>1, <2>5 DEF Fetched
    <3> QED BY <2>2, <2>5, <3>1 DEF IsGiven
  <2>7. ASSUME NEW x \in ByteRange, Ranged(f, x) # "never given"
        PROVE  Ranged(after, x) # "never given"
    <3>1. f.kind = "ranges" /\ f.size = size
      BY <2>3, <2>7 DEF Ranged, Sized
    <3>2. EndOf(x) > size \/ Holds(f.held, x)
      <4> PICK e : e = EndOf(x)
        OBVIOUS
      <4>1. e \in Nat
        BY DEF EndOf, ByteRange
      <4> QED BY <2>7, <3>1, <4>1 DEF Ranged
    <3>3. EndOf(x) > size \/ Holds(kept, x)
      BY <2>3, <3>2, LongerKeptHolds
    <3> QED BY <2>2, <3>3 DEF Ranged, EndOf, ByteRange
  <2> QED BY <2>2, <2>3, <2>6, <2>7 DEF StillRead, IsGiven, Fetched
<1> QED BY <1>1, <1>2

\* An object given whole, or as one the store does not hold.
LEMMA WholeGiven ==
  ASSUME NEW size \in Nat
  PROVE  /\ IsGiven(Whole(size)) /\ IsGiven(Absent) /\ IsGiven(NotGiven)
         /\ Whole(size).size = size /\ Whole(size).kind = "whole"
         /\ Absent.kind = "absent" /\ NotGiven.kind = "none"
<1>1. Whole(size) \in Fetched /\ Absent \in Fetched /\ NotGiven \in Fetched
  BY DEF Whole, Absent, NotGiven, Fetched
<1>2. /\ Whole(size).size = size /\ Whole(size).kind = "whole" /\ Whole(size).held = {}
      /\ Absent.kind = "absent" /\ Absent.held = {}
      /\ NotGiven.kind = "none" /\ NotGiven.held = {}
  BY DEF Whole, Absent, NotGiven
<1> QED BY <1>1, <1>2 DEF IsGiven

-----------------------------------------------------------------------------
(* The invariant.                                                          *)

GivenInv ==
  /\ remote \in [Keys -> BOOLEAN] /\ given \in [Keys -> Fetched]
  /\ \A k \in Keys : IsGiven(given[k]) /\ (Sized(given[k]) => remote[k])
  /\ \A k \in Objects : Sized(given[k]) => given[k].size = store.size[k]

\* The plan names ranges of objects of the store.
PlanTypes ==
  /\ plan.chunks \subseteq Objects /\ plan.located \in BOOLEAN
  /\ \A x \in plan.indexes \cup plan.inner : x[1] \in plan.chunks /\ RangeOf(x[1], x[2])

\* What a decode needs of a shard is given, or is known and named by the plan.
Locates(k) ==
  \/ given[k].kind \in {"absent", "whole"}
  \/ IndexOf(k) = "read" /\ \A r \in InnerRanges(k) : <<k, r>> \in plan.inner

\* The plan is of the window asked for.
PlanCovers ==
  /\ plan.chunks = PlannedChunks
  /\ \A x \in plan.inner : \E k \in PlannedChunks : \E r \in InnerRanges(k) : x = <<k, r>>
  /\ plan.located => store.sharded /\ \A k \in PlannedChunks : Locates(k)

PlanInv == plan # None => PlanTypes /\ PlanCovers

Answered ==
  /\ answer # None => answer.kind \in {"field", "empty", "unsupported", "error"}
  /\ AnswersAreTheStores

WindowInv ==
  /\ Opened /\ shorts \in 0 .. MaxShort /\ pans \in 0 .. MaxPans
  /\ GivenInv /\ PlanInv /\ Answered

\* A window is what it was while the store and the request are.
LEMMA SameWindow ==
  ASSUME UNCHANGED <<store, request>>
  PROVE  /\ Selected' = Selected /\ PlannedChunks' = PlannedChunks
         /\ \A k : InnerRanges(k)' = InnerRanges(k) /\ IndexRange(k)' = IndexRange(k)
<1>1. Runs' = Runs
  BY DEF Runs
<1>2. Selected' = Selected
  BY <1>1 DEF Selected
<1>3. PlannedChunks' = PlannedChunks
  BY <1>2 DEF PlannedChunks
<1>4. ASSUME NEW k PROVE InnerRanges(k)' = InnerRanges(k)
  <2>1. Touched(k)' = Touched(k)
    BY <1>2 DEF Touched
  <2>2. \A b : /\ HasEntry(k, request.time, b)' = HasEntry(k, request.time, b)
               /\ EntryRange(k, request.time, b)' = EntryRange(k, request.time, b)
    BY DEF HasEntry, EntryRange, Entry
  <2> QED BY <2>1, <2>2 DEF InnerRanges
<1>5. ASSUME NEW k PROVE IndexRange(k)' = IndexRange(k)
  BY DEF IndexRange
<1> QED BY <1>2, <1>3, <1>4, <1>5

LEMMA IndexReadWhen ==
  ASSUME NEW k
  PROVE  IndexOf(k) = "read" <=> /\ Sized(given[k]) /\ k \notin store.bad
                                 /\ Ranged(given[k], IndexRange(k)) # "never given"
BY DEF IndexOf

-----------------------------------------------------------------------------
(* The host gives something of a key.                                      *)

\* What was given is not lost.
Grows(f, after) ==
  /\ StillRead(f, after) /\ (Sized(f) => Sized(after))
  /\ f.kind \in {"absent", "whole"} => after.kind \in {"absent", "whole"}

\* What may be given of a key.
MayGive(k, f) ==
  /\ IsGiven(f) /\ Grows(given[k], f) /\ (Sized(f) => remote[k])
  /\ k \in Objects => (Sized(f) => f.size = store.size[k])

LEMMA GivenStep ==
  ASSUME Opened, GivenInv, PlanInv, NEW k \in Keys, NEW f, MayGive(k, f),
         given' = [given EXCEPT ![k] = f], UNCHANGED <<store, remote, request, plan>>
  PROVE  GivenInv' /\ PlanInv'
<1>1. /\ given'[k] = f /\ \A j \in Keys \ {k} : given'[j] = given[j]
  BY DEF GivenInv
<1>2. GivenInv'
  <2>1. given' \in [Keys -> Fetched]
    BY DEF GivenInv, MayGive, IsGiven
  <2> QED BY <1>1, <2>1 DEF GivenInv, MayGive, Sized
<1>3. ASSUME NEW j \in Keys PROVE Grows(given[j], given'[j])
  BY <1>1 DEF MayGive, Grows, StillRead
<1>4. ASSUME plan # None, plan.located, NEW j \in PlannedChunks PROVE Locates(j)'
  <2>1. j \in Objects /\ j \in Keys /\ Locates(j)
    BY <1>4, WindowOnTheGrid, ObjectKeys DEF PlanInv, PlanCovers
  <2>2. CASE given[j].kind \in {"absent", "whole"}
    BY <1>3, <2>1, <2>2 DEF Grows, Locates
  <2>3. CASE IndexOf(j) = "read" /\ \A r \in InnerRanges(j) : <<j, r>> \in plan.inner
    <3>1. IndexRange(j) \in ByteRange
      BY <2>1, StoredRanges DEF RangeOf
    <3>2. Sized(given[j]) /\ j \notin store.bad /\ Ranged(given[j], IndexRange(j)) # "never given"
      BY <2>3, IndexReadWhen
    <3>3. Sized(given'[j]) /\ Ranged(given'[j], IndexRange(j)) # "never given"
      BY <1>3, <2>1, <3>1, <3>2 DEF Grows, StillRead
    <3>4. IndexRange(j)' = IndexRange(j) /\ InnerRanges(j)' = InnerRanges(j)
      BY SameWindow
    <3>5. IndexOf(j)' = "read"
      BY <3>2, <3>3, <3>4 DEF IndexOf
    <3> QED BY <2>3, <3>4, <3>5 DEF Locates
  <2> QED BY <2>1, <2>2, <2>3 DEF Locates
<1>5. PlanTypes' <=> PlanTypes
  BY DEF PlanTypes, RangeOf
<1>6. ASSUME plan # None PROVE PlanCovers'
  BY <1>4, <1>6, SameWindow DEF PlanInv, PlanCovers
<1> QED BY <1>2, <1>5, <1>6 DEF PlanInv

\* All of it, or that the store holds none.
LEMMA WholeMayBeGiven ==
  ASSUME GivenInv, NEW k \in Keys, NEW size \in Nat, k \in Objects => size = store.size[k]
  PROVE  MayGive(k, IF remote[k] THEN Whole(size) ELSE Absent)
<1>1. /\ IsGiven(Whole(size)) /\ IsGiven(Absent)
      /\ Whole(size).size = size /\ Whole(size).kind = "whole" /\ Absent.kind = "absent"
  BY WholeGiven
<1>2. \A r : Ranged(Whole(size), r) # "never given" /\ Ranged(Absent, r) # "never given"
  BY <1>1 DEF Ranged
<1>3. CASE remote[k]
  BY <1>1, <1>2, <1>3 DEF MayGive, Grows, StillRead, Sized
<1>4. CASE ~remote[k]
  <2>1. given[k].kind # "whole" /\ ~Sized(given[k])
    BY <1>4 DEF GivenInv, Sized
  <2> QED BY <1>1, <1>2, <1>4, <2>1 DEF MayGive, Grows, StillRead, Sized
<1> QED BY <1>3, <1>4

\* Bytes of it, or that the store holds none.
LEMMA RangeMayBeGiven ==
  ASSUME Opened, GivenInv, NEW k \in Objects, NEW r \in ByteRange
  PROVE  MayGive(k, IF remote[k] THEN WithRange(given[k], store.size[k], r) ELSE Absent)
<1>1. k \in Keys /\ store.size[k] \in Nat
  BY ObjectKeys, StoredRanges
<1>2. CASE ~remote[k]
  <2>1. MayGive(k, IF remote[k] THEN Whole(store.size[k]) ELSE Absent)
    BY <1>1, WholeMayBeGiven
  <2> QED BY <1>2, <2>1
<1>3. CASE remote[k]
  <2> PICK f : f = given[k]
    OBVIOUS
  <2> PICK after : after = WithRange(f, store.size[k], r)
    OBVIOUS
  <2>1. IsGiven(f) /\ (Sized(f) => f.size = store.size[k])
    BY <1>1 DEF GivenInv
  <2>2. /\ IsGiven(after) /\ StillRead(f, after)
        /\ Sized(after) => after.size = store.size[k]
        /\ f.kind # "none" => after.kind = f.kind
    BY <1>1, <2>1, RangeGiven
  <2>3. MayGive(k, after)
    BY <1>3, <2>2 DEF MayGive, Grows, Sized
  <2> QED BY <1>3, <2>3
<1> QED BY <1>2, <1>3

-----------------------------------------------------------------------------
(* What a decode answers.                                                  *)

\* Nothing is owed of a shard given by range whose every inner chunk is in hand.
LEMMA NothingOwed ==
  ASSUME NEW k \in PlannedChunks, Owed = {}, Unfetched(given[k])
  PROVE  /\ store.sharded /\ given[k].kind = "ranges" /\ IndexOf(k) # "owed"
         /\ \A r \in InnerRanges(k) : Ranged(given[k], r) # "never given"
<1>1. OwedOf(k) = {}
  BY DEF Owed
<1>2. store.sharded /\ given[k].kind # "none"
  BY <1>1 DEF OwedOf
<1>3. IndexOf(k) # "owed"
  BY <1>1, <1>2 DEF OwedOf
<1>4. OwedOf(k) = {<<k, r>> : r \in {x \in InnerRanges(k) : Ranged(given[k], x) = "never given"}}
  BY <1>2, <1>3 DEF OwedOf
<1> QED BY <1>1, <1>2, <1>3, <1>4 DEF Unfetched

\* Once nothing is owed, a column is read as the store has it.
LEMMA ReadIsStored ==
  ASSUME Opened, GivenInv, Owed = {}, NEW c \in Selected, NEW k, k = c \div (InnerColumns * PerShard)
  PROVE  /\ given[k].kind # "none"
         /\ ReadCell(c) = IF given[k].kind = "absent" THEN Fill ELSE StoredCell(request.time, c)
<1> PICK b : b = Inner(c)
  OBVIOUS
<1> PICK t : t = request.time
  OBVIOUS
<1>1. c \in Columns /\ ShardOf(b) = k /\ k \in Objects /\ k \in Keys
  BY WindowOnTheGrid, ColumnChunk, ObjectKeys
<1>2. k \in PlannedChunks /\ b \in Touched(k)
  BY <1>1 DEF PlannedChunks, Touched
<1>3. given[k].kind \in {"none", "whole", "absent", "ranges"}
  BY <1>1 DEF GivenInv, Fetched
<1>4. given[k].kind # "none"
  BY <1>2, NothingOwed DEF Unfetched
<1>5. Entry(k, t, b) = store.index[k][StoredSlot(t, c)]
  BY DEF Entry, Linear, StoredSlot, Inner
<1>6. CASE given[k].kind = "absent"
  BY <1>1, <1>4, <1>6 DEF ReadCell
<1>7. CASE given[k].kind # "absent" /\ ~store.sharded
  <2>1. ReadCell(c) = <<t, c>>
    BY <1>1, <1>7 DEF ReadCell
  <2>2. StoredCell(t, c) = <<t, c>>
    BY <1>7 DEF StoredCell
  <2> QED BY <1>4, <1>7, <2>1, <2>2
<1>8. CASE given[k].kind # "absent" /\ store.sharded /\ ~HasEntry(k, t, b)
  <2>1. ReadCell(c) = Fill
    BY <1>1, <1>8 DEF ReadCell
  <2>2. StoredCell(t, c) = Fill
    BY <1>5, <1>8 DEF StoredCell, HasEntry
  <2> QED BY <1>4, <1>8, <2>1, <2>2
<1>9. CASE given[k].kind # "absent" /\ store.sharded /\ HasEntry(k, t, b)
  <2> PICK r : r = EntryRange(k, t, b)
    OBVIOUS
  <2>1. RangeOf(k, r) /\ r \in InnerRanges(k)
    BY <1>1, <1>2, <1>9, StoredRanges DEF InnerRanges
  <2>2. Sized(given[k]) /\ given[k].size = store.size[k] /\ store.size[k] \in Nat
    BY <1>1, <1>3, <1>4, <1>9, StoredRanges DEF GivenInv, Sized
  <2>3. EndOf(r) <= given[k].size /\ EndOf(r) \in Nat
    BY <2>1, <2>2 DEF RangeOf, EndOf, ByteRange
  <2>4. given[k].kind = "ranges" => Ranged(given[k], r) # "never given"
    BY <1>2, <2>1, NothingOwed DEF Unfetched
  <2>5. Ranged(given[k], r) = "bytes"
    BY <2>2, <2>3, <2>4 DEF Ranged, Sized
  <2>6. ReadCell(c) = <<store.chunk[k][Entry(k, t, b)].content, c % InnerColumns>>
    BY <1>1, <1>9, <2>5 DEF ReadCell
  <2>7. StoredCell(t, c) = <<store.chunk[k][Entry(k, t, b)].content, c % InnerColumns>>
    BY <1>5, <1>9 DEF StoredCell, HasEntry
  <2> QED BY <1>4, <1>9, <2>6, <2>7
<1> QED BY <1>6, <1>7, <1>8, <1>9

\* What the outcomes are of.
LEMMA OutcomeOf ==
  /\ Outcome \in {"owed", "unsupported", "empty", "error", "field"}
  /\ Outcome = "field" => Owed = {}
  /\ Outcome = "error" => \E k \in PlannedChunks : k \in store.bad
<1>1. \A k : IndexOf(k) = "refused" => k \in store.bad
  BY DEF IndexOf
<1> DEFINE partly == {k \in PlannedChunks : Unfetched(given[k])}
           whole == {k \in PlannedChunks : given[k].kind = "whole"}
<1>2. CASE \/ Unfetched(given[Coord]) \/ given[Coord].kind = "absent"
           \/ given[Coord].kind = "whole" /\ Selected = {}
  BY <1>2 DEF Outcome, Unfetched
<1>3. CASE given[Coord].kind = "whole" /\ Selected # {}
             /\ store.sharded /\ \E k \in partly : IndexOf(k) = "refused"
  BY <1>1, <1>3 DEF Outcome, Unfetched
<1>4. CASE ~(\/ Unfetched(given[Coord]) \/ given[Coord].kind = "absent"
             \/ given[Coord].kind = "whole" /\ Selected = {}
             \/ given[Coord].kind = "whole" /\ Selected # {}
                  /\ store.sharded /\ \E k \in partly : IndexOf(k) = "refused")
  <2>1. Outcome = CASE Owed # {} -> "owed"
                    [] Owed = {} /\ whole \cap store.bad # {} -> "error"
                    [] OTHER -> "field"
    BY <1>4 DEF Outcome
  <2> QED BY <2>1
<1> QED BY <1>2, <1>3, <1>4

LEMMA DecodeStep ==
  ASSUME Opened, GivenInv, Decode
  PROVE  Answered'
<1>1. /\ answer'.kind = Outcome /\ Outcome # "owed"
      /\ Outcome = "field" =>
           answer'.cells = LET columns == ColumnsOf(Runs)
                           IN  [i \in DOMAIN columns |-> ReadCell(columns[i])]
  BY DEF Decode
<1>2. UNCHANGED <<store, given, request>> /\ Runs' = Runs /\ Selected' = Selected
  BY SameWindow DEF Decode, Runs
<1> PICK columns : columns = ColumnsOf(Runs)
  OBVIOUS
<1>3. Selected = {columns[i] : i \in DOMAIN columns}
  BY DEF Selected
<1>4. ASSUME Outcome = "field"
      PROVE  /\ DOMAIN answer'.cells = DOMAIN columns
             /\ \A i \in DOMAIN columns :
                  LET k == columns[i] \div (InnerColumns * PerShard)
                  IN  /\ given[k].kind # "none"
                      /\ answer'.cells[i] = IF given[k].kind = "absent" THEN Fill
                                            ELSE StoredCell(request.time, columns[i])
  <2>1. answer'.cells = [i \in DOMAIN columns |-> ReadCell(columns[i])]
    BY <1>1, <1>4
  <2>2. Owed = {}
    BY <1>4, OutcomeOf
  <2>3. ASSUME NEW c \in Selected, NEW k, k = c \div (InnerColumns * PerShard)
        PROVE  /\ given[k].kind # "none"
               /\ ReadCell(c) = IF given[k].kind = "absent" THEN Fill ELSE StoredCell(request.time, c)
    BY <2>2, <2>3, ReadIsStored
  <2> QED BY <1>3, <2>1, <2>3
<1>5. ASSUME Outcome = "error" PROVE \E c \in Selected : c \div (InnerColumns * PerShard) \in store.bad
  <2>1. PICK k \in PlannedChunks : k \in store.bad
    BY <1>5, OutcomeOf
  <2>2. PICK c \in Selected : ShardOf(Inner(c)) = k
    BY DEF PlannedChunks
  <2> QED BY <2>1, <2>2, WindowOnTheGrid, ColumnChunk
<1>6. \A t, c : StoredCell(t, c)' = StoredCell(t, c)
  BY <1>2 DEF StoredCell, StoredSlot
<1>7. AnswersAreTheStores'
  BY <1>1, <1>2, <1>4, <1>5, <1>6 DEF AnswersAreTheStores
<1> QED BY <1>1, <1>7, OutcomeOf DEF Answered

-----------------------------------------------------------------------------
(* Every step keeps the invariant.                                         *)

\* The plan of a window names ranges of the store, and covers the window.
LEMMA PlanStep ==
  ASSUME Opened, GivenInv, plan' = PlanOf, UNCHANGED <<store, request, given>>
  PROVE  PlanInv'
<1> DEFINE read == {k \in PlannedChunks : Located /\ IndexOf(k) = "read"}
           inner == UNION {{<<k, r>> : r \in InnerRanges(k)} : k \in read}
           indexes == {<<k, IndexRange(k)>> : k \in {x \in PlannedChunks : store.sharded}}
<1>1. /\ plan'.chunks = PlannedChunks /\ plan'.located = Located
      /\ plan'.inner = inner /\ plan'.indexes = indexes
  BY DEF PlanOf
<1>2. PlannedChunks \subseteq Objects /\ PlannedChunks' = PlannedChunks
  BY WindowOnTheGrid, SameWindow
<1>3. ASSUME NEW x \in inner PROVE \E k \in PlannedChunks : \E r \in InnerRanges(k) : x = <<k, r>>
  OBVIOUS
<1>4. ASSUME NEW x \in indexes \cup inner
      PROVE  x[1] \in PlannedChunks /\ RangeOf(x[1], x[2])
  <2>1. CASE x \in indexes
    <3>1. PICK k \in PlannedChunks : x = <<k, IndexRange(k)>>
      BY <2>1
    <3>2. RangeOf(k, IndexRange(k))
      BY <1>2, StoredRanges
    <3> QED BY <3>1, <3>2
  <2>2. CASE x \in inner
    <3>1. PICK k \in PlannedChunks : \E r \in InnerRanges(k) : x = <<k, r>>
      BY <1>3, <2>2
    <3>2. PICK r \in InnerRanges(k) : x = <<k, r>>
      BY <3>1
    <3>3. RangeOf(k, r)
      BY <1>2, StoredRanges
    <3> QED BY <3>2, <3>3
  <2> QED BY <1>4, <2>1, <2>2
<1>5. \A k, r : RangeOf(k, r)' <=> RangeOf(k, r)
  BY DEF RangeOf
<1>6. Located \in BOOLEAN
  BY WindowFetchAssumption DEF Located, Opened, StoreShape
<1> HIDE DEF inner, indexes
<1>7. PlanTypes'
  BY <1>1, <1>2, <1>4, <1>5, <1>6 DEF PlanTypes
<1> USE DEF inner
<1>8. ASSUME Located, NEW k \in PlannedChunks PROVE Locates(k)'
  <2>1. IndexOf(k)' = IndexOf(k)
    BY DEF IndexOf, IndexRange
  <2>2. InnerRanges(k)' = InnerRanges(k)
    BY SameWindow
  <2>3. CASE IndexOf(k) = "read"
    <3>1. k \in read
      BY <1>8, <2>3
    <3>2. \A r \in InnerRanges(k) : <<k, r>> \in inner
      BY <3>1
    <3> QED BY <1>1, <2>1, <2>2, <2>3, <3>2 DEF Locates
  <2>4. CASE IndexOf(k) = "absent"
    <3>1. given[k].kind \in {"none", "whole", "absent", "ranges"}
      BY <1>2, ObjectKeys DEF GivenInv, Fetched
    <3>2. given[k].kind = "absent"
      BY <2>4, <3>1 DEF IndexOf, Sized, Unfetched
    <3> QED BY <3>2 DEF Locates
  <2> QED BY <1>8, <2>3, <2>4 DEF Located, IndexInHand
<1>9. \A k : InnerRanges(k)' = InnerRanges(k)
  BY SameWindow
<1> HIDE DEF inner
<1>10. \A x \in plan'.inner : \E k \in PlannedChunks : \E r \in InnerRanges(k)' : x = <<k, r>>
  BY <1>1, <1>3, <1>9
<1>11. PlanCovers'
  BY <1>1, <1>2, <1>8, <1>10 DEF PlanCovers, Located
<1> QED BY <1>7, <1>11 DEF PlanInv

\* A step that touches nothing of a plan.
LEMMA SamePlanInv ==
  ASSUME PlanInv, UNCHANGED <<store, given, request, plan>>
  PROVE  PlanInv'
<1>1. \A k : InnerRanges(k)' = InnerRanges(k) /\ PlannedChunks' = PlannedChunks
  BY SameWindow
<1>2. \A k : IndexOf(k)' = IndexOf(k)
  BY DEF IndexOf, IndexRange
<1>3. \A k : Locates(k)' <=> Locates(k)
  BY <1>1, <1>2 DEF Locates
<1>4. PlanTypes' <=> PlanTypes
  BY DEF PlanTypes, RangeOf
<1>5. PlanCovers => PlanCovers'
  BY <1>1, <1>3 DEF PlanCovers
<1> QED BY <1>4, <1>5 DEF PlanInv

\* A step that answers nothing while nothing is answered.
LEMMA NotYetAnswered == ASSUME answer' = None PROVE Answered'
BY DEF Answered, AnswersAreTheStores

\* The host gives something of an object the plan names.
LEMMA FetchStep ==
  ASSUME WindowInv, answer = None, answer' = None, NEW k \in Keys, NEW f, MayGive(k, f),
         given' = [given EXCEPT ![k] = f], UNCHANGED <<store, remote, request, plan, pans>>,
         shorts' \in 0 .. MaxShort
  PROVE  WindowInv'
BY GivenStep, NotYetAnswered DEF WindowInv, Opened

\* Bytes of a planned range, a part of one, or a span of two.
LEMMA GiveStep ==
  ASSUME WindowInv, answer = None, answer' = None, NEW k \in Objects, NEW r \in ByteRange,
         Give(k, r), UNCHANGED <<store, remote, request, plan, pans>>, shorts' \in 0 .. MaxShort
  PROVE  WindowInv'
<1> PICK f : f = IF remote[k] THEN WithRange(given[k], store.size[k], r) ELSE Absent
  OBVIOUS
<1>1. MayGive(k, f) /\ k \in Keys
  BY RangeMayBeGiven, ObjectKeys DEF WindowInv
<1>2. given' = [given EXCEPT ![k] = f]
  BY DEF Give
<1> QED BY <1>1, <1>2, FetchStep

LEMMA NextStep == WindowInv /\ Next => WindowInv'
<1> SUFFICES ASSUME WindowInv, Next PROVE WindowInv'
  OBVIOUS
<1>1. ASSUME NEW k \in Objects, NEW r, plan # None, <<k, r>> \in PlannedRanges
      PROVE  RangeOf(k, r)
  <2>1. <<k, r>> \in plan.indexes \cup plan.inner
    BY <1>1 DEF PlannedRanges
  <2> QED BY <1>1, <2>1 DEF WindowInv, PlanInv, PlanTypes
<1>3. ASSUME FetchCoords PROVE WindowInv'
  <2> PICK f : f = IF remote[Coord] THEN Whole(1) ELSE Absent
    OBVIOUS
  <2>1. Coord \in Keys /\ Coord \notin Objects
    BY ObjectKeys DEF Keys
  <2>2. MayGive(Coord, f)
    BY <2>1, WholeMayBeGiven DEF WindowInv
  <2> QED BY <1>3, <2>1, <2>2, FetchStep DEF FetchCoords, WindowInv
<1>4. ASSUME NEW k \in Objects, FetchWhole(k) PROVE WindowInv'
  <2> PICK f : f = IF remote[k] THEN Whole(store.size[k]) ELSE Absent
    OBVIOUS
  <2>1. k \in Keys /\ store.size[k] \in Nat
    BY ObjectKeys, StoredRanges DEF WindowInv
  <2>2. MayGive(k, f)
    BY <2>1, WholeMayBeGiven DEF WindowInv
  <2> QED BY <1>4, <2>1, <2>2, FetchStep DEF FetchWhole, WindowInv
<1>5. ASSUME NEW k \in Objects, NEW r, FetchRange(k, r) PROVE WindowInv'
  <2>1. r \in ByteRange
    BY <1>1, <1>5 DEF FetchRange, RangeOf
  <2> QED BY <1>5, <2>1, GiveStep DEF FetchRange, WindowInv
<1>6. ASSUME NEW k \in Objects, NEW r, FetchShort(k, r) PROVE WindowInv'
  <2> PICK cut : cut = [r EXCEPT !.len = @ - 1]
    OBVIOUS
  <2>1. r \in ByteRange /\ r.len # 0
    BY <1>1, <1>6 DEF FetchShort, RangeOf
  <2>2. cut \in ByteRange
    BY <2>1 DEF ByteRange
  <2>3. shorts' \in 0 .. MaxShort
    BY <1>6, WindowFetchAssumption DEF FetchShort, WindowInv
  <2> QED BY <1>6, <2>2, <2>3, GiveStep DEF FetchShort
<1>7. ASSUME NEW k \in Objects, NEW r, NEW q, FetchSpan(k, r, q) PROVE WindowInv'
  <2> PICK span : span = [at |-> r.at, len |-> EndOf(q) - r.at]
    OBVIOUS
  <2>1. r \in ByteRange /\ q \in ByteRange /\ r.at < q.at
    BY <1>1, <1>7 DEF FetchSpan, RangeOf
  <2>2. span \in ByteRange
    BY <2>1 DEF ByteRange, EndOf
  <2> QED BY <1>7, <2>2, GiveStep DEF FetchSpan, WindowInv
<1>8. ASSUME Plan PROVE WindowInv'
  <2>1. GivenInv'
    BY <1>8 DEF Plan, WindowInv, GivenInv
  <2>2. CASE given[Coord].kind = "absent"
    <3>1. PlanInv'
      BY <1>8, <2>2, SamePlanInv DEF Plan, WindowInv
    <3>2. Answered'
      BY <1>8, <2>2 DEF Plan, Answered, AnswersAreTheStores
    <3> QED BY <1>8, <2>1, <3>1, <3>2 DEF Plan, WindowInv, Opened
  <2>3. CASE given[Coord].kind # "absent"
    <3>1. PlanInv'
      BY <1>8, <2>3, PlanStep DEF Plan, WindowInv
    <3> QED BY <1>8, <2>1, <2>3, <3>1, NotYetAnswered DEF Plan, WindowInv, Opened
  <2> QED BY <2>2, <2>3
<1>9. ASSUME UNCHANGED <<store, given, request, plan>> PROVE PlanInv'
  BY <1>9, SamePlanInv DEF WindowInv
<1>10. ASSUME Decode PROVE WindowInv'
  <2>1. Answered'
    BY <1>10, DecodeStep DEF WindowInv
  <2>2. GivenInv'
    BY <1>10 DEF Decode, WindowInv, GivenInv
  <2> QED BY <1>9, <1>10, <2>1, <2>2 DEF Decode, WindowInv, Opened
<1>11. ASSUME UNCHANGED <<store, given, request, answer>> PROVE Answered'
  <2>1. Runs' = Runs /\ Selected' = Selected
    BY <1>11, SameWindow DEF Runs
  <2>2. \A t, c : StoredCell(t, c)' = StoredCell(t, c)
    BY <1>11 DEF StoredCell, StoredSlot
  <2> QED BY <1>11, <2>1, <2>2 DEF WindowInv, Answered, AnswersAreTheStores
<1>12. ASSUME NEW k \in Keys, Publish(k) PROVE WindowInv'
  <2>1. GivenInv'
    BY <1>12 DEF Publish, WindowInv, GivenInv
  <2> QED BY <1>9, <1>11, <1>12, <2>1 DEF Publish, WindowInv, Opened
<1>13. ASSUME NEW q \in Requests, Pan(q) PROVE WindowInv'
  <2>1. GivenInv' /\ PlanInv' /\ pans' \in 0 .. MaxPans
    BY <1>13, WindowFetchAssumption DEF Pan, WindowInv, GivenInv, PlanInv
  <2> QED BY <1>13, <2>1, NotYetAnswered DEF Pan, WindowInv, Opened
<1> QED BY <1>3, <1>4, <1>5, <1>6, <1>7, <1>8, <1>10, <1>12, <1>13 DEF Next, Fetch

LEMMA WindowInvariant == Spec => []WindowInv
<1>1. Init => WindowInv
  <2> SUFFICES ASSUME Init PROVE WindowInv
    OBVIOUS
  <2>1. IsGiven(NotGiven) /\ NotGiven.kind = "none"
    BY WholeGiven
  <2>2. \A k \in Keys : given[k] = NotGiven
    BY DEF Init
  <2>3. GivenInv
    BY <2>1, <2>2, ObjectKeys DEF Init, GivenInv, Keys, IsGiven, Sized
  <2> QED BY <2>3, WindowFetchAssumption
          DEF Init, WindowInv, Opened, PlanInv, Answered, AnswersAreTheStores
<1>2. WindowInv /\ UNCHANGED vars => WindowInv'
  <2> SUFFICES ASSUME WindowInv, UNCHANGED vars PROVE WindowInv'
    OBVIOUS
  <2>1. GivenInv'
    BY DEF vars, WindowInv, GivenInv
  <2>2. PlanInv'
    BY SamePlanInv DEF vars, WindowInv
  <2>3. Runs' = Runs /\ Selected' = Selected
    BY SameWindow DEF vars, Runs
  <2>4. \A t, c : StoredCell(t, c)' = StoredCell(t, c)
    BY DEF vars, StoredCell, StoredSlot
  <2>5. Answered'
    BY <2>3, <2>4 DEF vars, WindowInv, Answered, AnswersAreTheStores
  <2> QED BY <2>1, <2>2, <2>5 DEF vars, WindowInv, Opened
<1> QED BY <1>1, <1>2, NextStep, PTL DEF Spec

-----------------------------------------------------------------------------
(* The arithmetic of the box.                                              *)

\* A quotient and its remainder.
LEMMA Divided ==
  ASSUME NEW a \in Int, NEW b \in Nat \ {0}
  PROVE  /\ a \div b \in Int /\ a % b \in 0 .. b - 1
         /\ a = (a \div b) * b + (a % b)
OBVIOUS

\* Products keep the order.
LEMMA Multiples ==
  ASSUME NEW a \in Int, NEW b \in Int, NEW c \in Nat, a <= b
  PROVE  a * c <= b * c /\ a * c \in Int /\ b * c \in Int
OBVIOUS

\* The least and the greatest number whose multiples are within two bounds.
LEMMA AtMostMultiple ==
  ASSUME NEW x \in Int, NEW b \in Nat \ {0}, NEW top \in Int
  PROVE  x * b <= top <=> x <= top \div b
<1>1. PICK q, r : q \in Int /\ r \in 0 .. b - 1 /\ top = q * b + r /\ q = top \div b
  BY Divided
<1>2. ASSUME x <= q PROVE x * b <= top
  BY <1>1, <1>2, Multiples
<1>3. ASSUME x >= q + 1 PROVE x * b > top
  <2>1. (q + 1) * b <= x * b /\ (q + 1) * b = q * b + b /\ q * b \in Int /\ x * b \in Int
    BY <1>1, <1>3, Multiples
  <2> QED BY <1>1, <2>1
<1> QED BY <1>1, <1>2, <1>3

\* A longitude is on the arc exactly where a whole number of turns takes it into
\* the box.
LEMMA OnArcIsTheBox ==
  ASSUME NEW lon \in Int, NEW west \in Int, NEW east \in Int, west <= east
  PROVE  OnArc(lon, west, east) <=>
           \E k \in Int : /\ lon + k * Turn >= west - Slack
                          /\ lon + k * Turn <= east + Slack
<1> DEFINE q == (lon - west) \div Turn
           off == (lon - west) % Turn
           in(k) == lon + k * Turn >= west - Slack /\ lon + k * Turn <= east + Slack
<1>1. Turn \in Nat \ {0} /\ Slack \in Nat /\ Turn > 2 * Slack
  BY TurnAssumption
<1>2. q \in Int /\ off \in 0 .. Turn - 1 /\ lon - west = q * Turn + off
  <2> PICK d \in Int : d = lon - west
    OBVIOUS
  <2>1. d \div Turn \in Int /\ d % Turn \in 0 .. Turn - 1 /\ d = (d \div Turn) * Turn + (d % Turn)
    BY <1>1, Divided
  <2>2. q = d \div Turn /\ off = d % Turn
    OBVIOUS
  <2> HIDE DEF q, off
  <2> QED BY <2>1, <2>2
<1>3. OnArc(lon, west, east)
        <=> \/ east - west >= Turn \/ off <= east - west + Slack \/ off >= Turn - Slack
  BY DEF OnArc
<1>4. \A k \in Int : lon + k * Turn = west + off + (q + k) * Turn /\ (q + k) * Turn \in Int
  <2> TAKE k \in Int
  <2>1. (q + k) * Turn = q * Turn + k * Turn /\ q * Turn \in Int /\ k * Turn \in Int
    BY <1>1, <1>2
  <2> HIDE DEF q, off
  <2> QED BY <1>1, <1>2, <2>1
<1> HIDE DEF q, off
<1>5. in(-q) <=> west + off <= east + Slack
  <2>1. lon + (-q) * Turn = west + off + (q + (-q)) * Turn /\ (q + (-q)) * Turn = 0
    BY <1>1, <1>2, <1>4
  <2> QED BY <1>1, <1>2, <2>1
<1>6. in(-q - 1) <=> off - Turn >= -Slack
  <2>1. lon + (-q - 1) * Turn = west + off + (q + (-q - 1)) * Turn /\ (q + (-q - 1)) * Turn = -Turn
    BY <1>1, <1>2, <1>4
  <2> QED BY <1>1, <1>2, <2>1
<1>7. ASSUME NEW k \in Int, in(k) PROVE off <= east - west + Slack \/ off >= Turn - Slack
  <2>1. CASE q + k >= 0
    <3>1. (q + k) * Turn >= 0
      BY <1>1, <1>2, <2>1
    <3> QED BY <1>1, <1>2, <1>4, <1>7, <3>1
  <2>2. CASE q + k <= -1
    <3>1. (q + k) * Turn <= -Turn
      BY <1>1, <1>2, <2>2
    <3> QED BY <1>1, <1>2, <1>4, <1>7, <3>1
  <2> QED BY <1>2, <2>1, <2>2
<1>8. ASSUME OnArc(lon, west, east) PROVE \E k \in Int : in(k)
  <2>1. off <= east - west + Slack \/ off >= Turn - Slack
    BY <1>1, <1>2, <1>3, <1>8
  <2>2. -q \in Int /\ -q - 1 \in Int
    BY <1>2
  <2>3. in(-q) \/ in(-q - 1)
    BY <1>1, <1>2, <1>5, <1>6, <2>1
  <2> HIDE DEF in
  <2> QED BY <2>2, <2>3
<1> QED BY <1>3, <1>7, <1>8

-----------------------------------------------------------------------------
(* A selection on a grid that closes is one circular run.                  *)

\* The m columns from f on, over the seam of n columns.
Around(f, m, n) == {c \in 0 .. n - 1 : (f <= c /\ c < f + m) \/ c + n < f + m}

Circular(S, n) ==
  \/ S = {} \/ S = 0 .. n - 1
  \/ \E f \in 0 .. n - 1 : \E m \in 1 .. n - 1 : S = Around(f, m, n)

\* The columns that some turns take into a span of columns.
TurnedInto(n, a, b) == {c \in 0 .. n - 1 : \E k \in Int : a <= c + k * n /\ c + k * n <= b}

LEMMA AroundFrom ==
  ASSUME NEW n \in Nat \ {0}, NEW a \in Int, NEW b \in Int
  PROVE  Circular(TurnedInto(n, a, b), n)
<1> PICK S : S = TurnedInto(n, a, b)
  OBVIOUS
<1>0. S = {c \in 0 .. n - 1 : \E k \in Int : a <= c + k * n /\ c + k * n <= b}
  BY DEF TurnedInto
<1>1. CASE a > b
  <2>1. S = {}
    BY <1>0, <1>1
  <2> QED BY <2>1 DEF Circular
<1>2. CASE b >= a + (n - 1)
  <2>1. ASSUME NEW c \in 0 .. n - 1 PROVE \E k \in Int : a <= c + k * n /\ c + k * n <= b
    <3> PICK d \in Int : d = c - a
      OBVIOUS
    <3> PICK q, r : q \in Int /\ r \in 0 .. n - 1 /\ d = q * n + r
      BY Divided
    <3>1. (-q) * n = -(q * n) /\ q * n \in Int
      OBVIOUS
    <3>2. a <= c + (-q) * n /\ c + (-q) * n <= b
      BY <1>2, <3>1
    <3>3. -q \in Int
      OBVIOUS
    <3> QED BY <3>2, <3>3
  <2>2. S = 0 .. n - 1
    BY <1>0, <2>1
  <2> QED BY <2>2 DEF Circular
<1>3. CASE a <= b /\ b < a + (n - 1)
  <2>0. \E q, f : q \in Int /\ f \in 0 .. n - 1 /\ a = q * n + f
    <3>1. a \div n \in Int /\ a % n \in 0 .. n - 1 /\ a = (a \div n) * n + (a % n)
      BY Divided
    <3> QED BY <3>1, Zenon
  <2> PICK q, f : q \in Int /\ f \in 0 .. n - 1 /\ a = q * n + f
    BY <2>0
  <2> PICK m : m = b - a + 1
    OBVIOUS
  <2>1. m \in 1 .. n - 1 /\ q * n \in Int
    BY <1>3
  <2>2. ASSUME NEW c \in 0 .. n - 1, NEW k \in Int, a <= c + k * n, c + k * n <= b
        PROVE  c \in Around(f, m, n)
    <3>1. k * n = (k - q) * n + q * n /\ (k - q) * n \in Int
      OBVIOUS
    <3>2. f <= c + (k - q) * n /\ c + (k - q) * n < f + m
      BY <2>1, <2>2, <3>1
    <3>3. CASE k - q <= -1
      <4>1. (k - q) * n <= -n
        BY <3>3
      <4> QED BY <3>1, <3>2, <4>1
    <3>4. CASE k - q = 0
      BY <3>2, <3>4 DEF Around
    <3>5. CASE k - q >= 1
      <4>1. (k - q) * n >= n
        BY <3>5
      <4>2. c + n < f + m
        BY <2>1, <3>1, <3>2, <4>1
      <4> QED BY <4>2 DEF Around
    <3> QED BY <3>3, <3>4, <3>5
  <2>3. ASSUME NEW c \in Around(f, m, n)
        PROVE  \E k \in Int : a <= c + k * n /\ c + k * n <= b
    <3>1. c \in 0 .. n - 1 /\ ((f <= c /\ c < f + m) \/ c + n < f + m)
      BY DEF Around
    <3>2. CASE f <= c /\ c < f + m
      <4>1. a <= c + q * n /\ c + q * n <= b
        BY <2>1, <3>1, <3>2
      <4> QED BY <4>1
    <3>3. CASE c + n < f + m
      <4>1. (q + 1) * n = q * n + n
        OBVIOUS
      <4>2. a <= c + (q + 1) * n /\ c + (q + 1) * n <= b
        BY <2>1, <3>1, <3>3, <4>1
      <4>3. q + 1 \in Int
        OBVIOUS
      <4> QED BY <4>2, <4>3
    <3> QED BY <3>1, <3>2, <3>3
  <2>4. S = Around(f, m, n)
    <3>1. Around(f, m, n) \subseteq 0 .. n - 1
      BY DEF Around
    <3> QED BY <1>0, <2>2, <2>3, <3>1
  <2> QED BY <2>1, <2>4, Zenon DEF Circular
<1> QED BY <1>1, <1>2, <1>3

\* The columns in a box, where the grid closes: in whole turns, and so in cells.
Boxed(n, spacing, low, high) ==
  {c \in 0 .. n - 1 : \E k \in Int : /\ c * spacing + k * Turn >= low
                                     /\ c * spacing + k * Turn <= high}

LEMMA ClosedSelection ==
  ASSUME NEW n \in Nat \ {0}, NEW spacing \in Nat \ {0}, n * spacing = Turn,
         NEW low \in Int, NEW high \in Int
  PROVE  Circular(Boxed(n, spacing, low, high), n)
<1> PICK a, b : a = -((-low) \div spacing) /\ b = high \div spacing
  OBVIOUS
<1>1. a \in Int /\ b \in Int
  BY Divided
<1>2. ASSUME NEW c \in 0 .. n - 1, NEW k \in Int
      PROVE  /\ c * spacing + k * Turn >= low <=> a <= c + k * n
             /\ c * spacing + k * Turn <= high <=> c + k * n <= b
  <2> PICK x \in Int : x = c + k * n
    OBVIOUS
  <2>1. c * spacing + k * Turn = x * spacing /\ x * spacing \in Int
    <3>1. k * (n * spacing) = (k * n) * spacing
      OBVIOUS
    <3>2. (c + k * n) * spacing = c * spacing + (k * n) * spacing
      OBVIOUS
    <3> QED BY <3>1, <3>2
  <2>2. x * spacing <= high <=> x <= b
    BY AtMostMultiple
  <2>3. (-x) * spacing <= -low <=> -x <= (-low) \div spacing
    <3>1. -x \in Int /\ -low \in Int
      OBVIOUS
    <3> QED BY <3>1, AtMostMultiple
  <2>4. (-x) * spacing = -(x * spacing)
    OBVIOUS
  <2>5. (-low) \div spacing = -a /\ -a \in Int
    BY <1>1
  <2> PICK at : at = x * spacing
    OBVIOUS
  <2>6. c * spacing + k * Turn = at /\ at \in Int
    BY <2>1
  <2>7. -at <= -low <=> -x <= -a
    BY <2>3, <2>4, <2>5
  <2>8. at >= low <=> a <= x
    BY <1>1, <2>6, <2>7
  <2> QED BY <2>2, <2>6, <2>8
<1>3. Boxed(n, spacing, low, high) = TurnedInto(n, a, b)
  BY <1>2 DEF TurnedInto, Boxed
<1> QED BY <1>1, <1>3, AroundFrom

LEMMA IntervalSize ==
  ASSUME NEW a \in Int, NEW b \in Int, a <= b + 1
  PROVE  IsFiniteSet(a .. b) /\ Cardinality(a .. b) = b - a + 1
BY FS_Interval

LEMMA DisjointSize ==
  ASSUME NEW A, NEW B, IsFiniteSet(A), IsFiniteSet(B), A \cap B = {},
         NEW a \in Nat, NEW b \in Nat, Cardinality(A) = a, Cardinality(B) = b
  PROVE  Cardinality(A \cup B) = a + b
BY FS_Union, FS_EmptySet

LEMMA AroundSize ==
  ASSUME NEW n \in Nat \ {0}, NEW f \in 0 .. n - 1, NEW m \in 1 .. n - 1
  PROVE  Cardinality(Around(f, m, n)) = m
<1>1. CASE f + m <= n
  <2>1. Around(f, m, n) = f .. f + m - 1
    BY <1>1 DEF Around
  <2>2. f + m - 1 \in Int /\ f <= (f + m - 1) + 1 /\ (f + m - 1) - f + 1 = m
    OBVIOUS
  <2> QED BY <2>1, <2>2, IntervalSize
<1>2. CASE f + m > n
  <2> PICK rest : rest = f + m - n
    OBVIOUS
  <2>1. rest \in 1 .. n - 1 /\ rest < f
    BY <1>2
  <2>2. Around(f, m, n) = (f .. n - 1) \cup (0 .. rest - 1)
    BY <1>2, <2>1 DEF Around
  <2>3. (f .. n - 1) \cap (0 .. rest - 1) = {}
    BY <2>1
  <2>4. IsFiniteSet(f .. n - 1) /\ Cardinality(f .. n - 1) = n - f
    <3>1. n - 1 \in Int /\ f <= (n - 1) + 1 /\ (n - 1) - f + 1 = n - f
      OBVIOUS
    <3> QED BY <3>1, IntervalSize
  <2>5. IsFiniteSet(0 .. rest - 1) /\ Cardinality(0 .. rest - 1) = rest
    <3>1. rest - 1 \in Int /\ 0 <= (rest - 1) + 1 /\ (rest - 1) - 0 + 1 = rest
      BY <2>1
    <3> QED BY <3>1, IntervalSize
  <2>6. n - f \in Nat /\ rest \in Nat /\ n - f + rest = m
    BY <2>1
  <2>7. Cardinality((f .. n - 1) \cup (0 .. rest - 1)) = n - f + rest
    <3> PICK A, B, a : A = f .. n - 1 /\ B = 0 .. rest - 1 /\ a = n - f
      OBVIOUS
    <3>1. /\ IsFiniteSet(A) /\ IsFiniteSet(B) /\ A \cap B = {}
          /\ a \in Nat /\ rest \in Nat /\ Cardinality(A) = a /\ Cardinality(B) = rest
      BY <2>3, <2>4, <2>5, <2>6
    <3>2. Cardinality(A \cup B) = a + rest
      BY <3>1, DisjointSize
    <3> QED BY <3>2
  <2> QED BY <2>2, <2>6, <2>7
<1> QED BY <1>1, <1>2

\* The one column whose western neighbour, over the seam, is not selected.
LEMMA AroundStart ==
  ASSUME NEW n \in Nat \ {0}, NEW f \in 0 .. n - 1, NEW m \in 1 .. n - 1
  PROVE  {i \in Around(f, m, n) : (i + n - 1) % n \notin Around(f, m, n)} = {f}
<1>1. ASSUME NEW i \in 0 .. n - 1
      PROVE  (i + n - 1) % n = IF i = 0 THEN n - 1 ELSE i - 1
  <2>1. CASE i = 0
    <3>1. (n - 1) % n = n - 1
      OBVIOUS
    <3> QED BY <2>1, <3>1
  <2>2. CASE i # 0
    <3> PICK d : d = i + n - 1
      OBVIOUS
    <3>0. d \in Int /\ n <= d /\ d < n + n
      BY <2>2
    <3>1. d % n \in 0 .. n - 1 /\ d \div n \in Int /\ d = (d \div n) * n + (d % n)
      BY <3>0, Divided
    <3>2. d \div n = 1
      <4>1. ASSUME d \div n <= 0 PROVE FALSE
        <5>1. (d \div n) * n <= 0 * n
          BY <3>1, <4>1, Multiples
        <5> QED BY <3>0, <3>1, <5>1
      <4>2. ASSUME d \div n >= 2 PROVE FALSE
        <5>1. 2 * n <= (d \div n) * n
          BY <3>1, <4>2, Multiples
        <5> QED BY <3>0, <3>1, <5>1
      <4> QED BY <3>1, <4>1, <4>2
    <3> QED BY <2>2, <3>0, <3>1, <3>2
  <2> QED BY <2>1, <2>2
<1>2. Around(f, m, n) = {c \in 0 .. n - 1 : (f <= c /\ c < f + m) \/ c + n < f + m}
  BY DEF Around
<1>3. f \in Around(f, m, n) /\ (f + n - 1) % n \notin Around(f, m, n)
  <2>1. (f + n - 1) % n = IF f = 0 THEN n - 1 ELSE f - 1
    BY <1>1
  <2> QED BY <1>2, <2>1
<1>4. ASSUME NEW i \in Around(f, m, n), i # f PROVE (i + n - 1) % n \in Around(f, m, n)
  <2>1. i \in 0 .. n - 1 /\ ((f <= i /\ i < f + m) \/ i + n < f + m)
    BY <1>2
  <2>2. (i + n - 1) % n = IF i = 0 THEN n - 1 ELSE i - 1
    BY <1>1, <2>1
  <2> QED BY <1>2, <1>4, <2>1, <2>2
<1> QED BY <1>3, <1>4

-----------------------------------------------------------------------------
(* The columns of a window: m of them from f on.                           *)

\* The runs of m columns from f on.
RunsFrom(runs, f, m, n) ==
  \/ f + m <= n /\ runs = <<<<f, f + m>>>>
  \/ f + m > n /\ runs = <<<<f, n>>, <<0, f + m - n>>>>

LEMMA Joined ==
  ASSUME NEW T, NEW s \in Seq(T), NEW t \in Seq(T)
  PROVE  /\ Len(s \o t) = Len(s) + Len(t)
         /\ \A i \in 1 .. Len(s) + Len(t) : (s \o t)[i] = IF i <= Len(s) THEN s[i] ELSE t[i - Len(s)]
OBVIOUS

LEMMA ColumnsFrom ==
  ASSUME NEW n \in Nat \ {0}, NEW f \in 0 .. n - 1, NEW m \in 1 .. n, NEW runs,
         RunsFrom(runs, f, m, n)
  PROVE  /\ Len(ColumnsOf(runs)) = m
         /\ \A i \in 1 .. m :
              ColumnsOf(runs)[i] = IF f + i - 1 < n THEN f + i - 1 ELSE f + i - 1 - n
<1> DEFINE of(run) == [i \in 1 .. run[2] - run[1] |-> run[1] + i - 1]
<1>1. CASE f + m <= n
  <2>1. runs = <<<<f, f + m>>>>
    BY <1>1 DEF RunsFrom
  <2>2. ColumnsOf(runs) = of(<<f, f + m>>)
    <3>1. Len(runs) = 1 /\ runs[1] = <<f, f + m>>
      BY <2>1
    <3> QED BY <3>1 DEF ColumnsOf
  <2>3. of(<<f, f + m>>) = [i \in 1 .. m |-> f + i - 1]
    <3>1. (f + m) - f = m
      OBVIOUS
    <3> QED BY <3>1
  <2>4. Len([i \in 1 .. m |-> f + i - 1]) = m
    OBVIOUS
  <2> HIDE DEF of
  <2> PICK s : s = ColumnsOf(runs)
    OBVIOUS
  <2>5. s = [i \in 1 .. m |-> f + i - 1] /\ Len(s) = m
    BY <2>2, <2>3, <2>4
  <2>6. \A i \in 1 .. m : s[i] = f + i - 1 /\ f + i - 1 < n
    BY <1>1, <2>5
  <2> QED BY <2>5, <2>6
<1>2. CASE f + m > n
  <2> PICK rest : rest = f + m - n
    OBVIOUS
  <2>1. rest \in 1 .. n - 1 /\ n - f \in Nat /\ n - f + rest = m
    BY <1>2
  <2>2. runs = <<<<f, n>>, <<0, rest>>>>
    BY <1>2 DEF RunsFrom
  <2>3. ColumnsOf(runs) = of(<<f, n>>) \o of(<<0, rest>>)
    <3>1. Len(runs) = 2 /\ runs[1] = <<f, n>> /\ runs[2] = <<0, rest>>
      BY <2>2
    <3>2. ColumnsOf(runs) = of(runs[1]) \o of(runs[2])
      <4>1. Len(runs) # 0 /\ Len(runs) # 1
        BY <3>1
      <4> QED BY <4>1, Zenon DEF ColumnsOf
    <3> QED BY <3>1, <3>2
  <2> PICK s, t : s = of(<<f, n>>) /\ t = of(<<0, rest>>)
    OBVIOUS
  <2>4. s = [i \in 1 .. n - f |-> f + i - 1]
    OBVIOUS
  <2>5. t = [i \in 1 .. rest |-> 0 + i - 1]
    <3>1. rest - 0 = rest
      BY <2>1
    <3> QED BY <3>1
  <2>6. s \in Seq(Int) /\ Len(s) = n - f /\ \A i \in 1 .. n - f : s[i] = f + i - 1
    BY <2>1, <2>4
  <2>7. t \in Seq(Int) /\ Len(t) = rest /\ \A i \in 1 .. rest : t[i] = i - 1
    BY <2>1, <2>5
  <2> HIDE DEF of
  <2>8. Len(s \o t) = m
    <3>1. Len(s \o t) = Len(s) + Len(t)
      BY <2>6, <2>7, Joined
    <3> QED BY <2>1, <2>6, <2>7, <3>1
  <2>9. ASSUME NEW i \in 1 .. m
        PROVE  (s \o t)[i] = IF f + i - 1 < n THEN f + i - 1 ELSE f + i - 1 - n
    <3>1. Len(s) + Len(t) = m
      BY <2>1, <2>6, <2>7
    <3>2. (s \o t)[i] = IF i <= Len(s) THEN s[i] ELSE t[i - Len(s)]
      BY <2>6, <2>7, <3>1, Joined
    <3>3. CASE i <= n - f
      <4>1. s[i] = f + i - 1 /\ i <= Len(s)
        <5>1. i \in 1 .. n - f
          BY <2>1, <3>3
        <5>2. s[i] = f + i - 1
          BY <2>6, <5>1, Zenon
        <5>3. i <= Len(s)
          BY <2>6, <3>3, Zenon
        <5> QED BY <5>2, <5>3
      <4>2. (s \o t)[i] = f + i - 1
        BY <3>2, <4>1, Zenon
      <4>3. f + i - 1 < n
        BY <3>3
      <4> QED BY <4>2, <4>3, Zenon
    <3>4. CASE ~(i <= n - f)
      <4>1. i - (n - f) \in 1 .. rest /\ i - Len(s) = i - (n - f) /\ ~(i <= Len(s))
        BY <2>1, <2>6, <3>4
      <4>2. t[i - (n - f)] = i - (n - f) - 1
        BY <2>7, <4>1
      <4>3. (s \o t)[i] = i - (n - f) - 1
        BY <3>2, <4>1, <4>2, Zenon
      <4>4. ~(f + i - 1 < n) /\ i - (n - f) - 1 = f + i - 1 - n
        BY <3>4
      <4> QED BY <4>3, <4>4, Zenon
    <3> QED BY <3>3, <3>4
  <2> QED BY <2>3, <2>8, <2>9
<1> QED BY <1>1, <1>2

\* The i-th of the columns from f on.
ColumnAt(f, i, n) == IF f + i - 1 < n THEN f + i - 1 ELSE f + i - 1 - n

\* A selection that starts and ends at its own columns, and on a grid that
\* closes has no other.
Spans(f, m, n, S, periodic) ==
  /\ S \subseteq Around(f, m, n) /\ f \in S /\ ColumnAt(f, m, n) \in S
  /\ periodic => S = Around(f, m, n)
  /\ ~periodic => f + m <= n

LEMMA RunsOfSelection ==
  ASSUME NEW n \in Nat, n >= 2, NEW S, S \subseteq 0 .. n - 1, S # {},
         NEW periodic \in BOOLEAN, periodic => Circular(S, n)
  PROVE  \E f \in 0 .. n - 1 : \E m \in 1 .. n :
           RunsFrom(ColumnRuns(S, n, periodic), f, m, n) /\ Spans(f, m, n, S, periodic)
<1> DEFINE starts == {i \in S : (i + n - 1) % n \notin S}
           count == Cardinality(S)
           runs == ColumnRuns(S, n, periodic)
<1>0. IsFiniteSet(0 .. n - 1) /\ Cardinality(0 .. n - 1) = n
  <2>1. n - 1 \in Int /\ 0 <= (n - 1) + 1 /\ (n - 1) - 0 + 1 = n
    OBVIOUS
  <2> QED BY <2>1, IntervalSize
<1>1. count \in Nat /\ count # 0
  BY ColumnsFinite
<1>2. CASE count = n
  <2>1. S = 0 .. n - 1
    <3> PICK whole : whole = 0 .. n - 1
      OBVIOUS
    <3>1. IsFiniteSet(whole) /\ S \subseteq whole /\ Cardinality(S) = Cardinality(whole)
      BY <1>0, <1>2
    <3>2. S = whole
      BY <3>1, FS_Subset
    <3> QED BY <3>2
  <2>2. runs = <<<<0, n>>>>
    BY <1>1, <1>2 DEF ColumnRuns
  <2>3. RunsFrom(runs, 0, n, n)
    BY <2>2 DEF RunsFrom
  <2>4. Spans(0, n, n, S, periodic)
    BY <2>1 DEF Spans, Around, ColumnAt
  <2>5. 0 \in 0 .. n - 1 /\ n \in 1 .. n
    OBVIOUS
  <2> QED BY <2>3, <2>4, <2>5
<1>3. CASE count # n /\ periodic
  <2>1. S # 0 .. n - 1
    BY <1>0, <1>3
  <2>2. PICK f \in 0 .. n - 1 : \E m \in 1 .. n - 1 : S = Around(f, m, n)
    BY <1>3, <2>1 DEF Circular
  <2>3. PICK m \in 1 .. n - 1 : S = Around(f, m, n)
    BY <2>2
  <2>4. count = m
    BY <2>3, AroundSize
  <2>5. starts = {f}
    BY <2>3, AroundStart
  <2>6. Cardinality(starts) = 1 /\ Min(starts) = f
    <3>1. Min({f}) = f
      BY DEF Min
    <3> HIDE DEF starts
    <3> QED BY <2>5, <3>1, FS_Singleton
  <2>7. runs = IF f + m <= n THEN <<<<f, f + m>>>> ELSE <<<<f, n>>, <<0, f + m - n>>>>
    <3> PICK st : st = starts
      OBVIOUS
    <3>1. st = {i \in S : (i + n - 1) % n \notin S} /\ Min(st) = f /\ Cardinality(st) = 1
      BY <2>6
    <3>2. Cardinality(S) = m /\ m # 0 /\ m # n
      BY <2>4
    <3> HIDE DEF starts, count
    <3> QED BY <1>3, <3>1, <3>2 DEF ColumnRuns
  <2>8. RunsFrom(runs, f, m, n)
    BY <2>7 DEF RunsFrom
  <2>9. Spans(f, m, n, S, periodic)
    BY <1>3, <2>3 DEF Spans, Around, ColumnAt
  <2> QED BY <2>8, <2>9
<1>4. CASE count # n /\ ~periodic
  <2>1. runs = <<Span(S)>>
    BY <1>1, <1>4 DEF ColumnRuns
  <2> PICK f, last : f = Min(S) /\ last = Max(S)
    OBVIOUS
  <2>2. f \in S /\ last \in S /\ f <= last
    BY EndColumns
  <2>3. \A c \in S : f <= c /\ c <= last
    BY EndColumns
  <2>4. runs = <<<<f, f + (last + 1 - f)>>>>
    <3>1. f \in Int /\ last \in Int /\ f + (last + 1 - f) = last + 1
      BY <2>2
    <3> QED BY <2>1, <3>1 DEF Span
  <2>5. last + 1 - f \in 1 .. n /\ f \in 0 .. n - 1 /\ f + (last + 1 - f) <= n
    BY <2>2
  <2> PICK m : m = last + 1 - f
    OBVIOUS
  <2>6. RunsFrom(runs, f, m, n)
    BY <2>4, <2>5 DEF RunsFrom
  <2>7. ColumnAt(f, m, n) = last
    BY <2>2, <2>5 DEF ColumnAt
  <2>8. S \subseteq Around(f, m, n)
    BY <2>2, <2>3, <2>5 DEF Around
  <2>9. Spans(f, m, n, S, periodic)
    BY <1>4, <2>2, <2>5, <2>7, <2>8 DEF Spans
  <2> QED BY <2>5, <2>6, <2>9
<1> QED BY <1>2, <1>3, <1>4

\* The runs widened from m columns from f on, now l from g on: a single column
\* becomes one of two.
Widened(runs, g, l, f, m, n, periodic) ==
  /\ RunsFrom(runs, g, l, n) /\ (~periodic => g + l <= n)
  /\ m >= 2 => g = f /\ l = m
  /\ m = 1 => l = 2 /\ (ColumnAt(g, 1, n) = f \/ ColumnAt(g, 2, n) = f)

LEMMA RunsWidened ==
  ASSUME NEW n \in Nat, n >= 2, NEW periodic \in BOOLEAN,
         NEW f \in 0 .. n - 1, NEW m \in 1 .. n, NEW runs, RunsFrom(runs, f, m, n),
         ~periodic => f + m <= n
  PROVE  \E g \in 0 .. n - 1 : \E l \in 2 .. n :
           Widened(WidenColumns(runs, n, periodic), g, l, f, m, n, periodic)
<1> DEFINE wide == WidenColumns(runs, n, periodic)
<1>1. CASE m >= 2
  <2>1. ~(Len(runs) = 1 /\ runs[1][2] - runs[1][1] = 1)
    <3>1. CASE f + m <= n
      <4>1. runs[1] = <<f, f + m>>
        BY <3>1 DEF RunsFrom
      <4> QED BY <1>1, <4>1
    <3>2. CASE f + m > n
      <4>1. Len(runs) = 2
        BY <3>2 DEF RunsFrom
      <4> QED BY <4>1
    <3> QED BY <3>1, <3>2
  <2>2. wide = runs
    BY <2>1 DEF WidenColumns
  <2>3. m \in 2 .. n
    BY <1>1
  <2>4. Widened(wide, f, m, f, m, n, periodic)
    BY <1>1, <2>2 DEF Widened
  <2> QED BY <2>3, <2>4
<1>2. CASE m = 1
  <2>1. runs = <<<<f, f + 1>>>>
    BY <1>2 DEF RunsFrom
  <2>2. Len(runs) = 1 /\ runs[1] = <<f, f + 1>>
    BY <2>1
  <2>3. (f + 1) - f = 1 /\ runs[1][2] = f + 1 /\ runs[1][1] = f
    BY <2>2
  <2>4. CASE f + 1 < n
    <3>1. wide = <<<<f, f + 1 + 1>>>>
      BY <2>2, <2>3, <2>4 DEF WidenColumns
    <3>2. f + 1 + 1 = f + 2 /\ f + 2 <= n /\ 2 \in 2 .. n
      BY <2>4
    <3>3. RunsFrom(wide, f, 2, n)
      BY <3>1, <3>2 DEF RunsFrom
    <3>4. ColumnAt(f, 1, n) = f
      BY DEF ColumnAt
    <3>5. Widened(wide, f, 2, f, m, n, periodic)
      BY <1>2, <3>2, <3>3, <3>4 DEF Widened
    <3> QED BY <3>2, <3>5
  <2>5. CASE f + 1 >= n /\ periodic
    <3>0. f = n - 1 /\ f + 1 = n
      BY <2>5
    <3>1. wide = <<<<f, f + 1>>, <<0, 1>>>>
      BY <2>2, <2>3, <2>5 DEF WidenColumns
    <3>2. f + 2 > n /\ f + 2 - n = 1 /\ 2 \in 2 .. n
      BY <3>0
    <3>3. RunsFrom(wide, f, 2, n)
      BY <3>0, <3>1, <3>2 DEF RunsFrom
    <3>4. ColumnAt(f, 1, n) = f
      BY DEF ColumnAt
    <3>5. Widened(wide, f, 2, f, m, n, periodic)
      <4>1. ~(m >= 2)
        BY <1>2
      <4> QED BY <2>5, <3>3, <3>4, <4>1, Zenon DEF Widened
    <3> QED BY <3>2, <3>5
  <2>6. CASE f + 1 >= n /\ ~periodic
    <3>1. wide = <<<<f - 1, f + 1>>>>
      BY <2>2, <2>3, <2>6 DEF WidenColumns
    <3>2. f - 1 \in 0 .. n - 1 /\ (f - 1) + 2 = f + 1 /\ (f - 1) + 2 <= n /\ 2 \in 2 .. n
      BY <2>6
    <3>3. RunsFrom(wide, f - 1, 2, n)
      BY <3>1, <3>2 DEF RunsFrom
    <3>4. ColumnAt(f - 1, 2, n) = f
      BY DEF ColumnAt
    <3>5. Widened(wide, f - 1, 2, f, m, n, periodic)
      BY <1>2, <3>2, <3>3, <3>4 DEF Widened
    <3> QED BY <3>2, <3>5
  <2> QED BY <2>4, <2>5, <2>6
<1> QED BY <1>1, <1>2

-----------------------------------------------------------------------------
(* The window is the box.                                                  *)

\* The columns in the box are those the code selects.
LEMMA BoxIsSelected ==
  ASSUME Opened
  PROVE  {c \in Columns : InTheBox(c)}
           = {c \in Columns : OnArc(c * store.spacing, request.west, request.east)}
<1>1. Turn \in Nat \ {0} /\ Slack \in Nat /\ NI \in Nat
  BY TurnAssumption, WindowFetchAssumption
<1>2. /\ request.west \in Int /\ request.east \in Int /\ request.west <= request.east
      /\ store.spacing \in Nat \ {0}
  BY WindowFetchAssumption DEF Opened, StoreShape
<1> PICK west, east, spacing :
      west = request.west /\ east = request.east /\ spacing = store.spacing
  OBVIOUS
<1>3. ASSUME NEW c \in Columns PROVE InTheBox(c) <=> OnArc(c * spacing, west, east)
  <2> PICK lon : lon = c * spacing
    OBVIOUS
  <2>1. lon \in Int
    BY <1>1, <1>2 DEF Columns
  <2> PICK low, high : low = (west - Slack - lon) \div Turn /\ high = (east + Slack - lon) \div Turn
    OBVIOUS
  <2>2. InTheBox(c) <=> \E k \in low .. high : /\ lon + k * Turn >= west - Slack
                                             /\ lon + k * Turn <= east + Slack
    BY DEF InTheBox
  <2>3. ASSUME NEW k \in Int, lon + k * Turn >= west - Slack, lon + k * Turn <= east + Slack
        PROVE  k \in low .. high
    <3>1. k * Turn \in Int
      BY <1>1
    <3>2. k * Turn <= east + Slack - lon /\ east + Slack - lon \in Int
      BY <1>1, <1>2, <2>1, <2>3, <3>1
    <3>3. k <= high /\ high \in Int
      BY <1>1, <3>2, AtMostMultiple, Divided
    <3>4. low * Turn <= west - Slack - lon /\ west - Slack - lon \in Int /\ low \in Int
      <4>1. west - Slack - lon \in Int
        BY <1>1, <1>2, <2>1
      <4>2. low \in Int
        BY <1>1, <4>1, Divided
      <4>3. low <= (west - Slack - lon) \div Turn
        BY <4>2
      <4> QED BY <1>1, <4>1, <4>2, <4>3, AtMostMultiple
    <3>5. low * Turn <= k * Turn
      BY <1>1, <1>2, <2>1, <2>3, <3>1, <3>4
    <3>6. low <= k
      <4>1. ASSUME low >= k + 1 PROVE FALSE
        <5>1. (k + 1) * Turn <= low * Turn /\ (k + 1) * Turn = k * Turn + Turn
          BY <1>1, <3>4, <4>1, Multiples
        <5> QED BY <1>1, <3>1, <3>4, <3>5, <5>1
      <4> QED BY <3>4, <4>1
    <3> QED BY <3>3, <3>4, <3>6
  <2>4. \A k \in low .. high : k \in Int
    <3>0. west - Slack - lon \in Int /\ east + Slack - lon \in Int
      BY <1>1, <1>2, <2>1
    <3>1. low \in Int /\ high \in Int
      BY <1>1, <3>0, Divided
    <3> QED BY <3>1
  <2>5. OnArc(lon, west, east) <=> \E k \in Int : /\ lon + k * Turn >= west - Slack
                                               /\ lon + k * Turn <= east + Slack
    BY <1>2, <2>1, OnArcIsTheBox
  <2> QED BY <2>2, <2>3, <2>4, <2>5
<1> QED BY <1>3

\* On a grid that closes they are one circular run.
LEMMA BoxCloses ==
  ASSUME Opened, Closes(store.spacing)
  PROVE  Circular({c \in Columns : OnArc(c * store.spacing, request.west, request.east)}, NI)
<1>1. NI \in Nat \ {0} /\ Columns = 0 .. NI - 1 /\ Turn \in Nat /\ Slack \in Nat
  BY TurnAssumption, WindowFetchAssumption DEF Columns
<1>2. /\ request.west \in Int /\ request.east \in Int /\ request.west <= request.east
      /\ store.spacing \in Nat \ {0}
  BY WindowFetchAssumption DEF Opened, StoreShape
<1>3. NI * store.spacing = Turn
  BY DEF Closes
<1> PICK west, east, spacing :
      west = request.west /\ east = request.east /\ spacing = store.spacing
  OBVIOUS
<1>4. ASSUME NEW c \in 0 .. NI - 1
      PROVE  OnArc(c * spacing, west, east) <=>
               \E k \in Int : /\ c * spacing + k * Turn >= west - Slack
                            /\ c * spacing + k * Turn <= east + Slack
  <2>1. c * spacing \in Int
    BY <1>1, <1>2
  <2> QED BY <1>2, <2>1, OnArcIsTheBox
<1> PICK low, high : low = west - Slack /\ high = east + Slack
  OBVIOUS
<1>5. low \in Int /\ high \in Int
  BY <1>1, <1>2
<1> PICK S : S = {c \in Columns : OnArc(c * spacing, west, east)}
  OBVIOUS
<1>6. S = Boxed(NI, spacing, low, high)
  BY <1>1, <1>4 DEF Boxed
<1>7. Circular(S, NI)
  BY <1>1, <1>2, <1>3, <1>5, <1>6, ClosedSelection
<1> QED BY <1>7

\* The columns listed are distinct, and are those around the grid.
LEMMA ListedAround ==
  ASSUME NEW n \in Nat \ {0}, NEW f \in 0 .. n - 1, NEW m \in 1 .. n
  PROVE  /\ {ColumnAt(f, i, n) : i \in 1 .. m} = Around(f, m, n)
         /\ \A i, j \in 1 .. m : ColumnAt(f, i, n) = ColumnAt(f, j, n) => i = j
         /\ \A i \in 1 .. m - 1 :
              \/ ColumnAt(f, i + 1, n) = ColumnAt(f, i, n) + 1
              \/ f + m > n /\ ColumnAt(f, i, n) = n - 1 /\ ColumnAt(f, i + 1, n) = 0
<1>1. ASSUME NEW c \in Around(f, m, n) PROVE \E i \in 1 .. m : c = ColumnAt(f, i, n)
  <2>1. c \in 0 .. n - 1 /\ ((f <= c /\ c < f + m) \/ c + n < f + m)
    BY DEF Around
  <2>2. CASE f <= c /\ c < f + m
    <3>1. c - f + 1 \in 1 .. m /\ f + (c - f + 1) - 1 = c
      BY <2>1, <2>2
    <3>2. c = ColumnAt(f, c - f + 1, n)
      BY <2>1, <3>1 DEF ColumnAt
    <3> QED BY <3>1, <3>2
  <2>3. CASE c + n < f + m
    <3>1. c + n - f + 1 \in 1 .. m /\ f + (c + n - f + 1) - 1 = c + n
      BY <2>1, <2>3
    <3>2. c = ColumnAt(f, c + n - f + 1, n)
      BY <2>1, <3>1 DEF ColumnAt
    <3> QED BY <3>1, <3>2
  <2> QED BY <2>1, <2>2, <2>3
<1>2. ASSUME NEW i \in 1 .. m PROVE ColumnAt(f, i, n) \in Around(f, m, n)
  BY DEF Around, ColumnAt
<1>3. {ColumnAt(f, i, n) : i \in 1 .. m} = Around(f, m, n)
  BY <1>1, <1>2
<1>4. ASSUME NEW i \in 1 .. m, NEW j \in 1 .. m, ColumnAt(f, i, n) = ColumnAt(f, j, n)
      PROVE  i = j
  BY <1>4 DEF ColumnAt
<1>5. ASSUME NEW i \in 1 .. m - 1
      PROVE  \/ ColumnAt(f, i + 1, n) = ColumnAt(f, i, n) + 1
             \/ f + m > n /\ ColumnAt(f, i, n) = n - 1 /\ ColumnAt(f, i + 1, n) = 0
  BY DEF ColumnAt
<1> QED BY <1>3, <1>4, <1>5

\* Whatever the request and the store, its window is its box.
LEMMA WindowOfTheBox ==
  ASSUME Opened
  PROVE  WindowIsTheBox
<1> DEFINE box == {c \in Columns : InTheBox(c)}
           periodic == Closes(store.spacing)
           open == ColumnRuns(box, NI, periodic)
           columns == ColumnsOf(Runs)
<1>1. /\ NI \in Nat \ {0} /\ NI \in Nat /\ NI >= 2 /\ Columns = 0 .. NI - 1
      /\ periodic \in BOOLEAN
  BY WindowFetchAssumption DEF Columns, Closes
<1>2. /\ Runs = WidenColumns(open, NI, periodic)
      /\ periodic => Circular(box, NI)
      /\ box \subseteq 0 .. NI - 1
  <2>1. box = {c \in Columns : OnArc(c * store.spacing, request.west, request.east)}
    BY BoxIsSelected
  <2>2. Runs = WidenColumns(ColumnRuns({c \in Columns :
                                 OnArc(c * store.spacing, request.west, request.east)},
                               NI, periodic), NI, periodic)
    BY DEF Opened, Runs, RunsOf
  <2>3. periodic => Circular({c \in Columns :
                                 OnArc(c * store.spacing, request.west, request.east)}, NI)
    BY BoxCloses
  <2> QED BY <1>1, <2>1, <2>2, <2>3
<1>3. CASE box = {}
  <2>1. open = <<>>
    <3>1. Cardinality({}) = 0
      BY FS_EmptySet
    <3>2. ColumnRuns({}, NI, periodic) = <<>>
      BY <1>1, <3>1 DEF ColumnRuns
    <3> QED BY <1>3, <3>2
  <2>2. Runs = <<>>
    BY <1>2, <2>1 DEF WidenColumns
  <2>3. columns = <<>>
    BY <2>2 DEF ColumnsOf
  <2> QED BY <1>3, <2>3 DEF WindowIsTheBox
<1>4. CASE box # {}
  <2> HIDE DEF box, periodic, open
  <2>1. PICK f \in 0 .. NI - 1 : \E m \in 1 .. NI :
          RunsFrom(open, f, m, NI) /\ Spans(f, m, NI, box, periodic)
    <3> USE DEF open
    <3> QED BY <1>1, <1>2, <1>4, RunsOfSelection
  <2>2. PICK m \in 1 .. NI : RunsFrom(open, f, m, NI) /\ Spans(f, m, NI, box, periodic)
    BY <2>1
  <2>3. ~periodic => f + m <= NI
    BY <2>2 DEF Spans
  <2>4. PICK g \in 0 .. NI - 1 : \E l \in 2 .. NI : Widened(Runs, g, l, f, m, NI, periodic)
    BY <1>1, <1>2, <2>2, <2>3, RunsWidened
  <2>5. PICK l \in 2 .. NI : Widened(Runs, g, l, f, m, NI, periodic)
    BY <2>4
  <2>6. RunsFrom(Runs, g, l, NI) /\ (~periodic => g + l <= NI) /\ l \in 1 .. NI
    BY <1>1, <2>5 DEF Widened
  <2>7. Len(columns) = l /\ \A i \in 1 .. l : columns[i] = ColumnAt(g, i, NI)
    BY <1>1, <2>6, ColumnsFrom DEF ColumnAt
  <2> PICK s : s = columns
    OBVIOUS
  <2>8. Len(s) = l /\ \A i \in 1 .. l : s[i] = ColumnAt(g, i, NI)
    BY <2>7
  <2>9. {s[i] : i \in 1 .. l} = Around(g, l, NI)
    <3>1. {ColumnAt(g, i, NI) : i \in 1 .. l} = Around(g, l, NI)
      BY <1>1, <2>6, ListedAround
    <3> QED BY <2>8, <3>1
  <2>10. box \subseteq Around(g, l, NI)
    <3>1. CASE m >= 2
      BY <2>2, <2>5, <3>1 DEF Widened, Spans
    <3>2. CASE m = 1
      <4>1. ColumnAt(g, 1, NI) = f \/ ColumnAt(g, 2, NI) = f
        BY <2>5, <3>2 DEF Widened
      <4>2. l = 2 /\ 1 \in 1 .. l /\ 2 \in 1 .. l
        BY <2>5, <3>2 DEF Widened
      <4>3. f \in Around(g, l, NI)
        BY <2>8, <2>9, <4>1, <4>2
      <4>4. box \subseteq {f}
        BY <1>1, <2>2, <3>2 DEF Spans, Around
      <4> QED BY <4>3, <4>4
    <3> QED BY <3>1, <3>2
  <2>11. \A i \in 1 .. l - 1 : \/ s[i + 1] = s[i] + 1
                               \/ periodic /\ s[i] = NI - 1 /\ s[i + 1] = 0
    <3> TAKE i \in 1 .. l - 1
    <3>1. i \in 1 .. l /\ i + 1 \in 1 .. l
      OBVIOUS
    <3>2. \/ ColumnAt(g, i + 1, NI) = ColumnAt(g, i, NI) + 1
          \/ g + l > NI /\ ColumnAt(g, i, NI) = NI - 1 /\ ColumnAt(g, i + 1, NI) = 0
      BY <1>1, <2>6, ListedAround
    <3>3. g + l > NI => periodic
      BY <1>1, <2>6
    <3> QED BY <2>8, <3>1, <3>2, <3>3
  <2>12. \A i, j \in 1 .. l : s[i] = s[j] => i = j
    BY <1>1, <2>6, <2>8, ListedAround
  <2>13. IF l = 2 THEN s[1] \in box \/ s[2] \in box
         ELSE s[1] \in box /\ s[l] \in box /\ (periodic => {s[i] : i \in 1 .. l} = box)
    <3>1. CASE m >= 2
      <4>1. g = f /\ l = m /\ 1 \in 1 .. l /\ l \in 1 .. l
        BY <2>5, <3>1 DEF Widened
      <4>2. ColumnAt(f, 1, NI) = f
        BY <1>1 DEF ColumnAt
      <4>3. s[1] \in box /\ s[l] \in box /\ (periodic => {s[i] : i \in 1 .. l} = box)
        BY <2>2, <2>8, <2>9, <4>1, <4>2 DEF Spans
      <4> QED BY <4>3
    <3>2. CASE m = 1
      <4>1. l = 2 /\ 1 \in 1 .. l /\ 2 \in 1 .. l
        BY <2>5, <3>2 DEF Widened
      <4>2. (ColumnAt(g, 1, NI) = f \/ ColumnAt(g, 2, NI) = f) /\ f \in box
        BY <2>2, <2>5, <3>2 DEF Widened, Spans
      <4> QED BY <2>8, <4>1, <4>2
    <3> QED BY <3>1, <3>2
  <2>14. l >= 2 /\ l <= NI
    BY <1>1
  <2> USE DEF box, periodic
  <2> QED BY <1>4, <2>8, <2>9, <2>10, <2>11, <2>12, <2>13, <2>14 DEF WindowIsTheBox
<1> QED BY <1>3, <1>4

-----------------------------------------------------------------------------
(* The theorems.                                                           *)

\* For every store, grid and chunking: every variable keeps its type.
THEOREM WindowTypeCorrect == Spec => []TypeOK
<1>1. ASSUME WindowInv PROVE TypeOK
  <2>1. /\ store \in Stores /\ request \in Requests
        /\ remote \in [Keys -> BOOLEAN] /\ given \in [Keys -> Fetched]
        /\ \A k \in Keys : \A r, q \in given[k].held :
             EndOf(r) <= given[k].size /\ (r.at = q.at => r = q)
    BY <1>1 DEF WindowInv, Opened, GivenInv, IsGiven
  <2>2. plan # None =>
          /\ plan.chunks \subseteq Objects /\ plan.located \in BOOLEAN
          /\ \A x \in plan.indexes \cup plan.inner :
               x[1] \in plan.chunks /\ x[2] \in ByteRange /\ EndOf(x[2]) <= store.size[x[1]]
    BY <1>1 DEF WindowInv, PlanInv, PlanTypes, RangeOf
  <2> QED BY <1>1, <2>1, <2>2 DEF WindowInv, Answered, TypeOK
<1> QED BY <1>1, WindowInvariant, PTL

\* For every store, grid and chunking, in whatever order and pieces the ranges
\* were given: a window's field is what the store holds.
THEOREM AnswersAlwaysTheStores == Spec => []AnswersAreTheStores
<1>1. WindowInv => AnswersAreTheStores
  BY DEF WindowInv, Answered
<1> QED BY <1>1, WindowInvariant, PTL

\* For every store, grid and chunking: what a plan names is enough for its decode,
\* and each inner chunk it names is needed.
THEOREM PlanAlwaysEnough == Spec => []PlanIsEnough
<1>1. ASSUME WindowInv, plan # None PROVE (\A k \in plan.chunks : ~Unfetched(given[k])) => Owed = {}
  BY <1>1 DEF WindowInv, PlanInv, PlanCovers, Owed
<1>2. ASSUME WindowInv, plan # None, plan.located, Owed = {}, NEW x \in plan.inner
      PROVE  ~Lacks(x[1], x[2])
  <2>1. PICK k \in PlannedChunks : \E r \in InnerRanges(k) : x = <<k, r>>
    BY <1>2 DEF WindowInv, PlanInv, PlanCovers
  <2>2. PICK r \in InnerRanges(k) : x = <<k, r>>
    BY <2>1
  <2>3. CASE Unfetched(given[k])
    BY <1>2, <2>2, <2>3, NothingOwed DEF Lacks
  <2>4. CASE ~Unfetched(given[k])
    BY <2>2, <2>4 DEF Lacks, Ranged, Unfetched
  <2> QED BY <2>3, <2>4
<1>3. ASSUME WindowInv, plan # None, plan.located, \A x \in plan.inner : ~Lacks(x[1], x[2])
      PROVE  Owed = {}
  <2>1. ASSUME NEW k \in PlannedChunks, Unfetched(given[k]) PROVE OwedOf(k) = {}
    <3>1. store.sharded /\ IndexOf(k) = "read" /\ \A r \in InnerRanges(k) : <<k, r>> \in plan.inner
      BY <1>3, <2>1 DEF WindowInv, PlanInv, PlanCovers, Locates, Unfetched
    <3>2. \A r \in InnerRanges(k) : Ranged(given[k], r) # "never given"
      BY <1>3, <3>1 DEF Lacks
    <3>3. given[k].kind # "none"
      BY <3>1, IndexReadWhen DEF Sized
    <3>4. OwedOf(k) = {<<k, r>> : r \in {x \in InnerRanges(k) : Ranged(given[k], x) = "never given"}}
      BY <3>1, <3>3 DEF OwedOf
    <3> QED BY <3>2, <3>4
  <2> QED BY <2>1 DEF Owed
<1>4. WindowInv => PlanIsEnough
  BY <1>1, <1>2, <1>3 DEF PlanIsEnough
<1> QED BY <1>4, WindowInvariant, PTL

\* For every grid, spacing and box: the columns of a window are those of its box.
THEOREM WindowAlwaysTheBox == Spec => []WindowIsTheBox
<1>1. WindowInv => WindowIsTheBox
  BY WindowOfTheBox DEF WindowInv
<1> QED BY <1>1, WindowInvariant, PTL
=============================================================================
