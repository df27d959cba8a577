---------------------------- MODULE WindowColumns -----------------------------
(***************************************************************************)
(* fieldglass/src/session/window.rs: which columns of a longitude axis a   *)
(* box holds, and the runs a window reads them in.  Longitudes are whole   *)
(* numbers, with Turn of them in a full circle and Slack for the billionth *)
(* of a cell an edge is allowed.  A run <<start, end>> is half open, and   *)
(* columns count from 0.                                                   *)
(***************************************************************************)
EXTENDS Integers, Sequences, FiniteSets, FiniteSetsExt

CONSTANTS Turn, Slack
ASSUME TurnAssumption == Turn \in Nat /\ Slack \in Nat /\ Turn > 2 * Slack

OnArc(lon, west, east) ==
  LET offset == (lon - west) % Turn
  IN  east - west >= Turn \/ offset <= east - west + Slack \/ offset >= Turn - Slack

Span(selected) == <<Min(selected), Max(selected) + 1>>

(* The selected of n columns.  On a grid that closes, one circular run is  *)
(* split at the seam, its western part first; anything else is the         *)
(* rectangle that spans the selection.                                     *)
ColumnRuns_ByIndex(selected, n, periodic) ==
  LET gaps == {i \in selected : i > Min(selected) /\ i - 1 \notin selected}
  IN  CASE selected = {} -> <<>>
        [] selected # {} /\ periodic /\ Cardinality(gaps) = 1 ->
             <<Span({i \in selected : i < Min(gaps)}), Span({i \in selected : i >= Min(gaps)})>>
        [] OTHER -> <<Span(selected)>>
ColumnRuns(selected, n, periodic) ==
  LET starts == {i \in selected : (i + n - 1) % n \notin selected}
      count == Cardinality(selected)
      start == Min(starts)
      end == start + count
  IN  CASE count = 0 -> <<>>
        [] count = n -> <<<<0, n>>>>
        [] count \in 1 .. n - 1 /\ periodic /\ Cardinality(starts) = 1 ->
             IF end <= n THEN <<<<start, end>>>> ELSE <<<<start, n>>, <<0, end - n>>>>
        [] OTHER -> <<Span(selected)>>

\* A single column is taken to two.
WidenColumns(runs, n, periodic) ==
  LET only == runs[1]
      single == Len(runs) = 1 /\ only[2] - only[1] = 1
  IN  CASE ~single -> runs
        [] single /\ only[2] < n -> <<<<only[1], only[2] + 1>>>>
        [] single /\ only[2] >= n /\ periodic -> <<only, <<0, 1>>>>
        [] OTHER -> <<<<only[1] - 1, only[2]>>>>

\* The columns of the runs, in the order a window lists them.
ColumnsOf(runs) ==
  LET of(run) == [i \in 1 .. run[2] - run[1] |-> run[1] + i - 1]
  IN  CASE Len(runs) = 0 -> <<>>
        [] Len(runs) = 1 -> of(runs[1])
        [] OTHER -> of(runs[1]) \o of(runs[2])
=============================================================================
