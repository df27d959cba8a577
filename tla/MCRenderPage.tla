----------------------------- MODULE MCRenderPage -----------------------------
(***************************************************************************)
(* Instances of RenderPage for TLC.  Field t is drawn; b is t compared on  *)
(* another grid, so its renders fail; e has no cells, and u is another     *)
(* variable, which cannot be read.  Range "bad" is refused on any field,   *)
(* log10 on t.  No line is projected onto "scan".                          *)
(***************************************************************************)
EXTENDS RenderPage

MCHome == [geometry |-> "source", field |-> "t", range |-> AutoRange]
MCVariableOf == [f \in Fields |-> IF f \in {"t", "b"} THEN "temperature" ELSE f]
MCRefused == {<<"t", "log">>}
=============================================================================
