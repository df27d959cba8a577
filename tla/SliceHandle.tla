----------------------------- MODULE SliceHandle ------------------------------
(***************************************************************************)
(* A NetCDF or Zarr handle of fieldglass-napi/src/lib.rs: the planes it    *)
(* keeps (PinnedLru) and the warps it keeps (WarpMemo), under the calls of *)
(* the render panel.  Every method runs to its end on the one thread that  *)
(* calls it, so a call is one step.                                        *)
(*                                                                         *)
(* A read of a plane that is not kept may be refused: arguments that name  *)
(* no plane, bytes that do not decode, a file of the store that is gone.   *)
(* A NetCDF handle refuses some arguments before it touches the memo,      *)
(* which is a stuttering step here.                                        *)
(***************************************************************************)
EXTENDS PinnedLru, WarpMemo

CONSTANTS
  GridOf      \* plane to the grid it is placed on

ASSUME GridOfAssumption == GridOf \in [Planes -> Grids]

VARIABLES
  memo,       \* PlaneMemo or SliceMemo
  shown,      \* the planes of the map on screen, while no call has named another
  refused     \* whether the last call was a combine that was refused

vars == <<memo, shown, refused, warps, answer, planned>>

Init ==
  /\ memo = EmptyLru /\ warps = EmptyWarps
  /\ shown = {} /\ refused = FALSE
  /\ answer = {} /\ planned = {}

\* What a view of a plane may ask the warp memo for.
RequestsOn(plane, views) == {r \in Requests : r.grid = GridOf[plane] /\ r.view \in views}

-----------------------------------------------------------------------------
(* Reading a plane: from the memo, or from the file, kept.                 *)

Read(before, plane) ==
  IF plane \in Kept(before) THEN Get(before, plane) ELSE Insert(before, plane)

\* slice_plane, and ZarrStore::slice.
ReadAlone(before, plane) == Read(UnpinUnless(before, plane), plane)
RefusedRead(before, plane) ==
  /\ plane \notin Kept(before)
  /\ memo' = UnpinUnless(before, plane)

\* No map is on screen once a call names another plane.
StillShown(planes) == shown' = IF planes \subseteq shown THEN shown ELSE {}

\* The color range is refused before the warp, which may then refuse its target.
Draw(request, planes) ==
  \/ Projected(request) /\ shown' = planes
  \/ RefuseWarp(request, PlanFor(request)) /\ StillShown(planes)
  \/ NoAnswer /\ StillShown(planes)

\* A probe, an overlay or the isolines.
Locate(request) == OnTarget(request) \/ RefuseWarp(request, TargetFor(request))

-----------------------------------------------------------------------------
(* One plane.                                                              *)

\* render_slice
RenderSlice(plane, request) ==
  /\ refused' = FALSE
  /\ \/ /\ RefusedRead(Unpin(memo), plane)
        /\ StillShown({plane}) /\ NoAnswer
     \/ /\ memo' = ReadAlone(Unpin(memo), plane)
        /\ Draw(request, {plane})

\* decode_slice, zonal_mean and export_csv, and every read that is refused.
ReadSlice(plane) ==
  /\ refused' = FALSE /\ StillShown({plane}) /\ NoAnswer
  /\ RefusedRead(memo, plane) \/ memo' = ReadAlone(memo, plane)

\* probe and project_contours
LocateSlice(plane, request) ==
  /\ refused' = FALSE /\ StillShown({plane})
  /\ memo' = ReadAlone(memo, plane)
  /\ Locate(request)

\* project_overlay reads no plane.  A Zarr handle lends the memo the grid of a
\* kept slice, and with none builds the target for this call alone.
ProjectOverlay(request) ==
  /\ refused' = FALSE /\ UNCHANGED <<memo, shown>>
  /\ \/ Locate(request)
     \/ (\A plane \in Kept(memo) : GridOf[plane] # request.grid) /\ Bare(request)

-----------------------------------------------------------------------------
(* Two planes combined.  The pair is pinned before either is read.         *)

\* combined_planes and ZarrStore::combined, where both are read.
PairRead(a, b) == Read(Read(Pin(memo, a, b), a), b)

\* The planes a refused combine has read when it is refused: none, the first,
\* or both, when they are on two grids.
RefusedPair(a, b) ==
  LET pinned == Pin(memo, a, b)
  IN  \/ a \notin Kept(pinned) /\ memo' = Unpin(pinned)
      \/ b \notin Kept(Read(pinned, a)) /\ memo' = Unpin(Read(pinned, a))
      \/ GridOf[a] # GridOf[b] /\ memo' = Unpin(PairRead(a, b))

RefuseCombine(a, b) ==
  /\ RefusedPair(a, b) /\ refused' = TRUE
  /\ StillShown({a, b}) /\ NoAnswer

Combine(a, b) == GridOf[a] = GridOf[b] /\ memo' = PairRead(a, b) /\ refused' = FALSE

\* render_slice_combined
RenderCombined(a, b, request) == Combine(a, b) /\ Draw(request, {a, b})

\* probe_slice_combined and project_contours_slice_combined
LocateCombined(a, b, request) ==
  Combine(a, b) /\ StillShown({a, b}) /\ Locate(request)

\* zonal_mean_slice_combined
ReadCombined(a, b) ==
  Combine(a, b) /\ StillShown({a, b}) /\ NoAnswer

-----------------------------------------------------------------------------
\* A call of the handle, on some of the planes and for some of the views.
Step(planes, views) ==
  \/ \E a \in planes :
       \/ ReadSlice(a)
       \/ \E r \in RequestsOn(a, views) : RenderSlice(a, r) \/ LocateSlice(a, r) \/ ProjectOverlay(r)
  \/ \E a, b \in planes :
       \/ RefuseCombine(a, b) \/ ReadCombined(a, b)
       \/ \E r \in RequestsOn(a, views) : RenderCombined(a, b, r) \/ LocateCombined(a, b, r)

Next == Step(Planes, Views)

Spec == Init /\ [][Next]_vars

-----------------------------------------------------------------------------
\* Types of the memos, the map on screen and the last answer: the pair is two
\* planes at most, and one plan and one target are kept.
AtMostOne(kept) == \A k, l \in kept : k = l
MadeThings == [key : Requests, raster : Requests]
TypeOK ==
  /\ memo.entries \in Seq(Planes) /\ memo.pair \subseteq Planes
  /\ Cardinality(memo.pair) <= 2
  /\ shown \subseteq Planes /\ refused \in BOOLEAN
  /\ warps.plan \subseteq MadeThings /\ AtMostOne(warps.plan)
  /\ warps.target \subseteq MadeThings /\ AtMostOne(warps.target)
  /\ answer \subseteq [asked : Requests, got : Requests, made : {"none", "plan", "target"}]
  /\ planned \subseteq Requests

\* A repaint, a probe, an export or the isolines of the map on screen decodes
\* nothing: its plane, or both planes of a combined map however large, stay
\* kept while no call names another (the pin's reason, #1319).
ShownMapStaysDecoded == shown \subseteq Kept(memo)

\* No key is kept twice, and past the cell budget a memo keeps at most two
\* entries: a combined map's pair, or one plane larger than the budget alone.
AtMostTwoPastTheBudget ==
  /\ Cardinality(Kept(memo)) = Len(memo.entries)
  /\ Len(memo.entries) <= ENTRIES
  /\ Cells(memo.entries) > CELLS => Len(memo.entries) <= 2

\* Whatever was kept by draws, probes and overlays before it, a call is answered
\* with the raster a warp made for this very request has.
Fresh(request) == IF request.view = SourceView THEN request ELSE Raster(request)
AnswersAreFreshWarps == \A a \in answer : a.got = Fresh(a.asked)

\* The no-rewarp rule (render.rs, plans_made): since a plan was made, refused
\* requests, plans over the budget, probes and overlays later, no draw the plan
\* would serve makes it again.
NoRewarp == [][\A a \in answer' : a.made = "plan" => Raster(a.asked) \notin planned]_vars

\* A combine that is refused is unpinned, "so a map that was never drawn holds
\* nothing past the budget" (lib.rs:3036).
RefusedPairHoldsNothingPastTheBudget == refused => WithinBounds(memo.entries)
=============================================================================
