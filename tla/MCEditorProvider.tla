-------------------------- MODULE MCEditorProvider --------------------------
(***************************************************************************)
(* Instances of EditorProvider for TLC.  A content is named for what it    *)
(* lists: GRIB files of messages a, b and c, where a second file holds a at *)
(* another number and b not at all; NetCDF files of variables u, v and w,  *)
(* and one with nothing to draw; bytes that open as nothing; a Zarr store  *)
(* with one variable, and with none.                                       *)
(***************************************************************************)
EXTENDS EditorProvider, TLC

MCContents == {"gA", "gAB", "gCA", "nUV", "nVW", "n0", "zU", "z0", "bad"}
MCFields == {"a", "b", "c", "u", "v", "w"}
MCListing ==
  [c \in MCContents |->
    CASE c = "gA" -> <<"a">> [] c = "gAB" -> <<"a", "b">> [] c = "gCA" -> <<"c", "a">>
      [] c = "nUV" -> <<"u", "v">> [] c = "nVW" -> <<"v", "w">>
      [] c = "zU" -> <<"u">> [] OTHER -> <<>>]
MCSlotOf ==
  [c \in MCContents |->
    CASE c \in {"gA", "gAB", "gCA"} -> "grib" [] c \in {"nUV", "nVW", "n0"} -> "netcdf"
      [] c \in {"zU", "z0"} -> "zarr" [] OTHER -> "none"]

Symmetric == Permutations(Editors) \cup Permutations(Panels) \cup Permutations(Exports)
=============================================================================
