------------------------------ MODULE WindowFetch ------------------------------
(***************************************************************************)
(* A lat/lon window of a Zarr variable, planned by the session and fetched *)
(* in rounds by its host (fieldglass/src/session/window.rs,                *)
(* fieldglass-zarr/src/store/sharded.rs and store.rs).  The host gives the *)
(* coordinates, asks for a plan, gives what the plan names (the indexes of *)
(* the shards, then, planned again, the inner chunks of those shards, or   *)
(* any of the objects whole), and decodes.                                 *)
(*                                                                         *)
(* The variable is time by longitude: rows add nothing to which columns a  *)
(* chunk holds.  An object k holds PerShard inner chunks of InnerColumns   *)
(* columns for each time.  What the store holds is fixed, except that an   *)
(* object it does not hold may be published while the host fetches.        *)
(***************************************************************************)
EXTENDS PrefetchedObjects, WindowColumns

CONSTANTS NI,            \* columns of the grid
          Times,         \* positions of the fixed axis
          InnerColumns,  \* columns of an inner chunk
          PerShard,      \* inner chunks of a shard along the columns
          IndexLen,      \* bytes of a shard's index
          Stores,        \* the stores checked, records of StoreShape
          Requests,      \* the requests checked: [time, west, east]
          MaxShort,      \* ranges a server may cut short
          MaxPans,       \* further requests of the same store
          None           \* no plan, no answer

Coord == -1       \* the key of the longitude coordinate
NoEntry == -1     \* an inner chunk the shard's index marks as never written
Fill == <<>>      \* the array's fill value

Columns == 0 .. NI - 1
Objects == {c \div (InnerColumns * PerShard) : c \in Columns}
Keys == Objects \cup {Coord}
Slots == 0 .. Times * PerShard - 1

(* sharded or not; longitude of column c is c * spacing; where the index   *)
(* is in a shard; each object's size, index (slot to first byte) and inner *)
(* chunks (first byte to length and content); the objects that do not      *)
(* decode, a shard for its index.                                          *)
StoreShape(s) ==
  /\ s.sharded \in BOOLEAN /\ s.spacing \in Nat \ {0} /\ s.location \in {"start", "end"}
  /\ \A k \in Objects :
       /\ s.size[k] \in Nat /\ s.size[k] >= IndexLen
       /\ s.index[k] \in [Slots -> Nat \cup {NoEntry}]
       /\ \A i \in Slots : s.index[k][i] # NoEntry =>
            LET c == s.chunk[k][s.index[k][i]]
            IN  c.len \in Nat \ {0} /\ s.index[k][i] + c.len <= s.size[k]
  /\ s.bad \subseteq Objects

ASSUME WindowFetchAssumption ==
  /\ NI \in Nat /\ NI >= 2 /\ Times \in Nat \ {0}
  /\ InnerColumns \in Nat \ {0} /\ PerShard \in Nat \ {0} /\ IndexLen \in Nat \ {0}
  /\ MaxShort \in Nat /\ MaxPans \in Nat
  /\ \A s \in Stores : StoreShape(s)
  /\ \A q \in Requests :
       q.time \in 0 .. Times - 1 /\ q.west \in Int /\ q.east \in Int /\ q.west <= q.east

VARIABLES store,    \* the store the session is open on
          remote,   \* the objects it holds now
          given,    \* PrefetchedObjects: what the host has given of each key
          request,  \* the window asked for
          plan,     \* the last plan of it, or None
          answer,   \* what its decode answered, or None
          shorts, pans
vars == <<store, remote, given, request, plan, answer, shorts, pans>>

-------------------------------------------------------------------------------
(* The window: its columns, and the chunks they sit in. *)

Closes(spacing) == NI * spacing = Turn

\* The column runs of each request, on a grid of each spacing.
RunsOf ==
  [q \in Requests |-> [spacing \in {s.spacing : s \in Stores} |->
     LET selected == {c \in Columns : OnArc(c * spacing, q.west, q.east)}
     IN  WidenColumns(ColumnRuns(selected, NI, Closes(spacing)), NI, Closes(spacing))]]

Runs == RunsOf[request][store.spacing]
Selected == LET columns == ColumnsOf(Runs) IN {columns[i] : i \in DOMAIN columns}

\* Columns to inner chunks over the whole array, and those to shards and their slots.
Inner(c) == c \div InnerColumns
ShardOf(b) == b \div PerShard
Linear_ColumnSlowest(t, b) == (b % PerShard) * Times + t
Linear(t, b) == t * PerShard + (b % PerShard)

PlannedChunks == {ShardOf(Inner(c)) : c \in Selected}
Touched(k) == {b \in {Inner(c) : c \in Selected} : ShardOf(b) = k}

-------------------------------------------------------------------------------
(* What the source holds of a shard. *)

IndexRange(k) ==
  [at |-> IF store.location = "start" THEN 0 ELSE store.size[k] - IndexLen, len |-> IndexLen]

\* The entry at a position of a shard's index, where it has one.
Entry(k, t, b) == store.index[k][Linear(t, b)]
HasEntry(k, t, b) == Entry(k, t, b) # NoEntry
EntryRange(k, t, b) ==
  [at |-> Entry(k, t, b), len |-> store.chunk[k][Entry(k, t, b)].len]

IndexOf(k) ==
  CASE ~Sized(given[k]) -> IF Unfetched(given[k]) THEN "owed" ELSE "absent"
    [] Sized(given[k]) /\ Ranged(given[k], IndexRange(k)) = "never given" -> "owed"
    [] OTHER -> IF k \in store.bad THEN "refused" ELSE "read"

InnerRanges(k) ==
  {EntryRange(k, request.time, b) : b \in {c \in Touched(k) : HasEntry(k, request.time, c)}}

\* What is owed of an object the source does not hold whole.
OwedOf(k) ==
  CASE ~store.sharded \/ given[k].kind = "none" -> {<<k>>}
    [] store.sharded /\ given[k].kind # "none" /\ IndexOf(k) = "owed" -> {<<k, IndexRange(k)>>}
    [] OTHER -> {<<k, r>> : r \in {x \in InnerRanges(k) : Ranged(given[k], x) = "never given"}}

Owed == UNION {OwedOf(k) : k \in {x \in PlannedChunks : Unfetched(given[x])}}

(* What a decode of the window answers: "owed" is the refusal that names   *)
(* what to fetch, which leaves the session as it was.                      *)
Outcome ==
  LET partly == {k \in PlannedChunks : Unfetched(given[k])}
      whole == {k \in PlannedChunks : given[k].kind = "whole"}
  IN  CASE Unfetched(given[Coord]) -> "owed"
        [] given[Coord].kind = "absent" -> "unsupported"
        [] given[Coord].kind = "whole" /\ Selected = {} -> "empty"
        [] given[Coord].kind = "whole" /\ Selected # {}
             /\ store.sharded /\ \E k \in partly : IndexOf(k) = "refused" -> "error"
        [] OTHER -> CASE Owed # {} -> "owed"
                      [] Owed = {} /\ whole \cap store.bad # {} -> "error"
                      [] OTHER -> "field"

ReadCell(c) ==
  LET b == Inner(c)
      k == ShardOf(b)
  IN  CASE given[k].kind = "absent" -> Fill
        [] given[k].kind # "absent" /\ ~store.sharded -> <<request.time, c>>
        [] given[k].kind # "absent" /\ store.sharded /\ ~HasEntry(k, request.time, b) -> Fill
        [] OTHER ->
             IF Ranged(given[k], EntryRange(k, request.time, b)) = "bytes"
             THEN <<store.chunk[k][Entry(k, request.time, b)].content, c % InnerColumns>>
             ELSE <<-1, -1>>

-------------------------------------------------------------------------------
Init ==
  /\ store \in Stores
  /\ remote \in [Objects \cup {Coord} -> BOOLEAN]
  /\ given = [k \in Keys |-> NotGiven]
  /\ request \in Requests
  /\ plan = None /\ answer = None
  /\ shorts = 0 /\ pans = 0

\* The host fetches the objects coordinate_chunks names, or the 404.
FetchCoords ==
  /\ answer = None
  /\ given' = [given EXCEPT ![Coord] = IF remote[Coord] THEN Whole(1) ELSE Absent]
  /\ UNCHANGED <<store, remote, request, plan, answer, shorts, pans>>

(* A sharded variable's plan names the indexes, and the inner chunks once  *)
(* every index is in hand; an index that does not read leaves them null,   *)
(* for the host to fetch the shards whole.                                 *)
IndexInHand(k) == IndexOf(k) \in {"read", "absent"}
Located_ByAny == store.sharded /\ (PlannedChunks = {} \/ \E k \in PlannedChunks : IndexInHand(k))
Located == store.sharded /\ \A k \in PlannedChunks : IndexInHand(k)

PlanOf ==
  LET read == {k \in PlannedChunks : Located /\ IndexOf(k) = "read"}
  IN  [chunks |-> PlannedChunks,
       indexes |-> {<<k, IndexRange(k)>> : k \in {x \in PlannedChunks : store.sharded}},
       located |-> Located,
       inner |-> UNION {{<<k, r>> : r \in InnerRanges(k)} : k \in read}]

\* plan_window.
Plan ==
  /\ answer = None /\ ~Unfetched(given[Coord])
  /\ IF given[Coord].kind = "absent"
     THEN answer' = [kind |-> "unsupported", cells |-> <<>>] /\ UNCHANGED plan
     ELSE plan' = PlanOf /\ UNCHANGED answer
  /\ UNCHANGED <<store, remote, given, request, shorts, pans>>

\* The host gives a planned object whole, or as a 404.
FetchWhole(k) ==
  /\ answer = None /\ plan # None /\ k \in plan.chunks
  /\ given' = [given EXCEPT ![k] = IF remote[k] THEN Whole(store.size[k]) ELSE Absent]
  /\ UNCHANGED <<store, remote, request, plan, answer, shorts, pans>>

PlannedRanges == plan.indexes \cup plan.inner

(* The host gives bytes of an object with insert_range: of a planned       *)
(* range, or of a span from one planned range to the end of another.       *)
Give(k, r) ==
  given' = [given EXCEPT ![k] = IF remote[k] THEN WithRange(@, store.size[k], r) ELSE Absent]

FetchRange(k, r) ==
  /\ answer = None /\ plan # None /\ <<k, r>> \in PlannedRanges
  /\ Give(k, r)
  /\ UNCHANGED <<store, remote, request, plan, answer, shorts, pans>>

FetchSpan(k, r, q) ==
  /\ answer = None /\ plan # None /\ {<<k, r>>, <<k, q>>} \subseteq PlannedRanges
  /\ r.at < q.at /\ EndOf(r) <= EndOf(q)
  /\ Give(k, [at |-> r.at, len |-> EndOf(q) - r.at])
  /\ UNCHANGED <<store, remote, request, plan, answer, shorts, pans>>

\* The server ends a range early.
FetchShort(k, r) ==
  /\ answer = None /\ plan # None /\ <<k, r>> \in PlannedRanges
  /\ shorts < MaxShort
  /\ Give(k, [r EXCEPT !.len = @ - 1])
  /\ shorts' = shorts + 1
  /\ UNCHANGED <<store, remote, request, plan, answer, pans>>

\* decode_window, when it does not refuse for what it is owed.
Decode ==
  /\ answer = None /\ Outcome # "owed"
  /\ answer' = [kind |-> Outcome,
                cells |-> IF Outcome = "field"
                          THEN LET columns == ColumnsOf(Runs)
                               IN  [i \in DOMAIN columns |-> ReadCell(columns[i])]
                          ELSE <<>>]
  /\ UNCHANGED <<store, remote, given, request, plan, shorts, pans>>

\* Somebody writes an object the store did not hold.
Publish(k) ==
  /\ ~remote[k]
  /\ remote' = [remote EXCEPT ![k] = TRUE]
  /\ UNCHANGED <<store, given, request, plan, answer, shorts, pans>>

\* Another window of the same session, with what it was given so far.
Pan(q) ==
  /\ answer # None /\ pans < MaxPans
  /\ request' = q /\ pans' = pans + 1
  /\ plan' = None /\ answer' = None
  /\ UNCHANGED <<store, remote, given, shorts>>

Ranges(k) == {x[2] : x \in {y \in PlannedRanges : y[1] = k}}

Fetch ==
  \/ FetchCoords
  \/ /\ plan # None
     /\ \E k \in Objects :
          \/ FetchWhole(k)
          \/ \E r \in Ranges(k) : FetchRange(k, r) \/ FetchShort(k, r)
          \/ \E r, q \in Ranges(k) : FetchSpan(k, r, q)

Next ==
  \/ Fetch \/ Plan \/ Decode
  \/ \E k \in Keys : Publish(k)
  \/ \E q \in Requests : Pan(q)

(* The host goes on while there is something for it to do: the             *)
(* coordinates, a plan, each planned range it still lacks, each object     *)
(* whole where the plan gives it no ranges to fetch, and the decode.       *)
Lacks(k, r) == Ranged(given[k], r) = "never given"
HasIndex(k) == \A x \in plan.indexes : x[1] = k => ~Lacks(k, x[2])

HostStep ==
  \/ FetchCoords \/ Plan \/ Decode
  \/ /\ plan # None
     /\ \E k \in plan.chunks :
          \/ /\ ~plan.located /\ \A j \in plan.chunks : store.sharded => HasIndex(j)
             /\ FetchWhole(k)
          \/ \E r \in Ranges(k) : Lacks(k, r) /\ FetchRange(k, r)

Spec == Init /\ [][Next]_vars /\ WF_vars(HostStep)

-------------------------------------------------------------------------------
(* The type invariant: what is held of an object is ranges of it, one from *)
(* each offset, and a plan names objects of the store and ranges in them.  *)
TypeOK ==
  /\ store \in Stores /\ request \in Requests
  /\ remote \in [Keys -> BOOLEAN]
  /\ given \in [Keys -> Fetched]
  /\ \A k \in Keys : \A r, q \in given[k].held :
       EndOf(r) <= given[k].size /\ (r.at = q.at => r = q)
  /\ plan # None =>
       /\ plan.chunks \subseteq Objects /\ plan.located \in BOOLEAN
       /\ \A x \in plan.indexes \cup plan.inner :
            x[1] \in plan.chunks /\ x[2] \in ByteRange /\ EndOf(x[2]) <= store.size[x[1]]
  /\ answer # None => answer.kind \in {"field", "empty", "unsupported", "error"}
  /\ shorts \in 0 .. MaxShort /\ pans \in 0 .. MaxPans

-------------------------------------------------------------------------------
(* What is stored, by the store's own layout: Zarr lays a shard's index    *)
(* out in C order, time slowest.                                           *)
StoredSlot(t, c) == t * PerShard + ((c \div InnerColumns) % PerShard)
StoredCell(t, c) ==
  LET k == c \div (InnerColumns * PerShard)
      at == store.index[k][StoredSlot(t, c)]
  IN  CASE ~store.sharded -> <<t, c>>
        [] store.sharded /\ at = NoEntry -> Fill
        [] OTHER -> <<store.chunk[k][at].content, c % InnerColumns>>

(* A field holds, for each column, what the store holds there: the fill    *)
(* value only where it never wrote the inner chunk or the host was told it *)
(* holds no such object, and never the bytes of another inner chunk,       *)
(* however the ranges of the shard were given and whatever was planned     *)
(* before.  A decode fails only over an object that does not decode.       *)
AnswersAreTheStores ==
  answer # None =>
    /\ answer.kind = "field" =>
         LET columns == ColumnsOf(Runs)
         IN  /\ DOMAIN answer.cells = DOMAIN columns
             /\ \A i \in DOMAIN columns :
                  LET k == columns[i] \div (InnerColumns * PerShard)
                  IN  /\ given[k].kind # "none"
                      /\ answer.cells[i] = IF given[k].kind = "absent" THEN Fill
                                           ELSE StoredCell(request.time, columns[i])
    /\ answer.kind = "error" => \E c \in Selected : c \div (InnerColumns * PerShard) \in store.bad

(* The columns a window lists run east one at a time, over the seam where  *)
(* the grid closes and nowhere else, and are at least two.  They hold      *)
(* every column in the box, each once, and no more at either end than the  *)
(* one that makes two.                                                     *)
InTheBox(c) ==
  LET turns == (request.west - Slack - c * store.spacing) \div Turn
                 .. (request.east + Slack - c * store.spacing) \div Turn
  IN  \E n \in turns : /\ c * store.spacing + n * Turn >= request.west - Slack
                       /\ c * store.spacing + n * Turn <= request.east + Slack

WindowIsTheBox ==
  LET columns == ColumnsOf(Runs)
      n == Len(columns)
      box == {c \in Columns : InTheBox(c)}
  IN  IF box = {} THEN n = 0
      ELSE /\ n >= 2 /\ n <= NI
           /\ box \subseteq {columns[i] : i \in 1 .. n}
           /\ \A i \in 1 .. n - 1 :
                \/ columns[i + 1] = columns[i] + 1
                \/ Closes(store.spacing) /\ columns[i] = NI - 1 /\ columns[i + 1] = 0
           /\ \A i, j \in 1 .. n : columns[i] = columns[j] => i = j
           /\ IF n = 2 THEN columns[1] \in box \/ columns[2] \in box
              ELSE /\ columns[1] \in box /\ columns[n] \in box
                   /\ Closes(store.spacing) => {columns[i] : i \in 1 .. n} = box

(* A plan is enough and no more: once the host has given everything a      *)
(* plan names (each object whole, or where it names inner chunks each of   *)
(* those), a decode owes nothing; and while it lacks an inner chunk of a   *)
(* shard it gave by range, the decode is refused.                          *)
PlanIsEnough ==
  (plan # None /\ answer = None) =>
    /\ (\A k \in plan.chunks : ~Unfetched(given[k])) => Owed = {}
    /\ plan.located =>
         (Owed = {} <=> \A x \in plan.inner : ~Lacks(x[1], x[2]))

(* However the host's fetches come back (in any order, again, cut short,   *)
(* or while the object is being written), a window is answered.            *)
WindowsAreAnswered == (answer = None) ~> (answer # None)
===============================================================================
