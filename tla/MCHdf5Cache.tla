---------------------------- MODULE MCHdf5Cache -----------------------------
(***************************************************************************)
(* Instances of Hdf5Cache for TLC.  "f" and "g" are two files of one       *)
(* length, "f2" another handle on f's bytes, and "anon" a source with g's  *)
(* bytes that declines to identify itself.  A value is the file and the    *)
(* key it was read at.  g's header h2 does not parse.  Datasets d1 and d2  *)
(* name one chunk index, i1, and read other records of it; in g its count  *)
(* of entries is not that of d2's chunks, and d2's reading fails.          *)
(*                                                                         *)
(* Of the chunk keys, c1 of datasets d1 and d2 is one stored chunk, which  *)
(* their filters decompress differently.  In f the chunks leave the memo   *)
(* by bytes, one or two at once, and d3c1 is over the budget; in g by      *)
(* count, and d3c1 is under the floor.  Sizes are in units of 16 KiB.      *)
(***************************************************************************)
EXTENDS Hdf5Cache, TLC

MCIdentity ==
  [s \in Sources |-> CASE s \in {"f", "f2"} -> "id f" [] s = "g" -> "id g" [] OTHER -> None]
Bytes(s) == IF s \in {"f", "f2"} THEN "f" ELSE "g"
MCValues == {"f", "g"} \X Keys
MCParsed ==
  [s \in Sources |-> [k \in Keys |-> IF Bytes(s) = "g" /\ k \in {"h2", "i1d2"} THEN Failed ELSE <<Bytes(s), k>>]]
MCIndexOf == [k \in RecordKeys |-> "i1"]
MCSize ==
  [v \in MCValues |->
     CASE v = <<"f", "h2">> -> 4
       [] v = <<"f", "d2c1">> -> 4 [] v = <<"f", "d3c1">> -> 9 [] v = <<"g", "d3c1">> -> 0
       [] v[2] \in {"d1c2", "d2c1"} \/ v = <<"g", "d1c1">> -> 1
       [] OTHER -> 2]

Symmetric == Permutations(Threads)

(* The whole memo is used through three sources with two chunks, and the   *)
(* memo of its chunks, for longer, through two sources with four.          *)
VARIABLE workload
MemoKeys == {"root", "h1", "h2", "i1d1", "i1d2", "d1c1", "d2c1"}
KeysUsed == IF workload = "memo" THEN MemoKeys ELSE ChunkKeys
SourcesUsed == IF workload = "memo" THEN Sources ELSE {"f", "g"}
MaxUses == IF workload = "memo" THEN 4 ELSE MaxTicks

MCInit == Init /\ workload \in {"memo", "chunks"}
MCNext ==
  /\ Next /\ UNCHANGED workload
  /\ expanded'.tick <= MaxUses
  /\ \A t \in Threads : /\ call'[t].key \in KeysUsed \cup {None}
                        /\ call'[t].source \in SourcesUsed \cup {None}
MCSpec == MCInit /\ [][MCNext]_<<vars, workload>>
=============================================================================
