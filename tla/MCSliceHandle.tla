---------------------------- MODULE MCSliceHandle -----------------------------
(***************************************************************************)
(* Instances of SliceHandle for TLC.  Planes a to e are on a regular grid, *)
(* m on a mesh, whose resampling is nearest.  b is over the cell budget of *)
(* 8 alone; the five others are within it together, and one entry too many *)
(* for the code's limit of four.  A "band" is refused on the mesh, and a   *)
(* bilinear "wide" plan is over the plan budget.                           *)
(***************************************************************************)
EXTENDS SliceHandle

MCWeight == [p \in Planes |-> CASE p = "a" -> 4 [] p = "b" -> 9 [] OTHER -> 1]
MCGridOf == [p \in Planes |-> IF p = "m" THEN "mesh" ELSE "regular"]
MCRefused == {<<"mesh", "band">>} \cap (Grids \X Views)
MCOverBudget == {<<"wide", "bilinear">>} \cap (Views \X Resamplings)

(* Every view of three planes on the two grids, through the kept plan and  *)
(* target; or every order of reads of all six, which warp nothing.         *)
VARIABLE workload

MCInit == Init /\ workload \in {"views", "planes"}
MCNext ==
  /\ IF workload = "views" THEN Step({"a", "b", "m"}, Views) ELSE Step(Planes, {SourceView})
  /\ UNCHANGED workload
MCSpec == MCInit /\ [][MCNext]_<<vars, workload>>
=============================================================================
