--------------------------- MODULE MCEditorPanel ----------------------------
(***************************************************************************)
(* Instances of EditorProvider with one panel on a file that changes under *)
(* it: a GRIB file, over two openings of the document and a revert, or a   *)
(* NetCDF file, over two reverts, with two messages in flight over one.    *)
(***************************************************************************)
EXTENDS MCEditorProvider

VARIABLE workload
FilesUsed == IF workload = "grib" THEN {"gAB", "gCA", "bad"} ELSE {"nUV", "nVW", "n0"}
Reverts == reverts' + Cardinality(reading')
WithinUse ==
  IF workload = "grib" THEN docs' <= 2 /\ Reverts <= 1
  ELSE docs' <= 1 /\ (Reverts <= 1 \/ \A p \in Panels : Len(toHost'[p]) <= 1)

MCInit == Init /\ workload \in {"grib", "slices"}
MCNext ==
  /\ Next /\ UNCHANGED workload
  /\ bytes' \in FilesUsed \cup {None} /\ \A r \in reading' : r.read \in FilesUsed
  /\ WithinUse
MCSpec == MCInit /\ [][MCNext]_<<vars, workload>>
=============================================================================
