----------------------------- MODULE MCWindowFetch -----------------------------
(***************************************************************************)
(* Small stores and windows for WindowFetch.  Four columns, two inner      *)
(* chunks to a shard, two times; a full turn is 16, so columns 4 apart     *)
(* close the grid and columns 3 apart do not.                              *)
(***************************************************************************)
EXTENDS WindowFetch, TLC

\* Shard 0 holds its chunks in order, after or before its index; one was never written.
InOrder(first) ==
  [index |-> [i \in 0 .. 3 |-> IF i = 2 THEN NoEntry ELSE first + 2 * i],
   chunk |-> [a \in {first, first + 2, first + 6} |-> [len |-> 2, content |-> 100 + a]]]
\* Shard 1 holds a long and a short one, out of order, and two that share bytes.
Shared(first) ==
  [index |-> (0 :> first + 2 @@ 1 :> first @@ 2 :> first + 2 @@ 3 :> first + 5),
   chunk |-> (first :> [len |-> 2, content |-> 1] @@ first + 2 :> [len |-> 3, content |-> 2]
              @@ first + 5 :> [len |-> 1, content |-> 3])]

StoreOf(sharded, spacing, location, bad) ==
  LET first == IF location = "start" THEN 2 ELSE 0
      part == (0 :> InOrder(first) @@ 1 :> Shared(first))
  IN  [sharded |-> sharded, spacing |-> spacing, location |-> location, bad |-> bad,
       size |-> [k \in {0, 1} |-> 10],
       index |-> [k \in {0, 1} |-> part[k].index],
       chunk |-> [k \in {0, 1} |-> part[k].chunk]]

MCStores ==
  {StoreOf(FALSE, 4, "end", {1}), StoreOf(TRUE, 4, "end", {}), StoreOf(TRUE, 3, "start", {1})}

Box(time, west, east) == [time |-> time, west |-> west, east |-> east]

(* On the grid that closes, and on the open one: the last column and the   *)
(* first, over the seam, and one column at the west end; three columns     *)
(* over the seam from a hair west of the box, and both ends of the grid    *)
(* and not its middle; one column in the middle; one at the seam, and      *)
(* none.                                                                   *)
MCRequests == {Box(0, 11, 16), Box(1, 9, 16), Box(0, 5, 5), Box(1, 12, 12)}
===============================================================================
