------------------------------ MODULE WarpMemo -------------------------------
(***************************************************************************)
(* WarpMemo of fieldglass/src/render.rs: the last warp's plan, and the     *)
(* target the last probe or overlay no plan served was answered on.        *)
(*                                                                         *)
(* A request is the grid it is placed on, the view asked for (projection,  *)
(* window, size) and the resampling asked for.  A raster is what the warp  *)
(* of a request does: the same, with the resampling the grid admits.       *)
(***************************************************************************)
EXTENDS Naturals

CONSTANTS
  Grids,
  Lookup,        \* the grids whose resampling is nearest whatever is asked for
  Views,
  SourceView,    \* the view that warps nothing
  Refused,       \* <<grid, view>> whose target is refused (a Mercator band out of range)
  OverBudget     \* <<view, resampling>> whose plan is over the memo's budget

Resamplings == {"nearest", "bilinear"}
Requests == [grid : Grids, view : Views, resampling : Resamplings]

ASSUME ViewsAssumption ==
  /\ Lookup \subseteq Grids /\ SourceView \in Views
  /\ Refused \subseteq Grids \X (Views \ {SourceView})
  /\ OverBudget \subseteq (Views \ {SourceView}) \X Resamplings

\* Resampling::from_grid: the resampling a warp on the grid does.
FromGrid(grid, asked) == IF grid \in Lookup THEN "nearest" ELSE asked
Raster(request) == [request EXCEPT !.resampling = FromGrid(request.grid, @)]
RefusedRequest(request) == <<request.grid, request.view>> \in Refused
FitsBudget(request) == <<request.view, Raster(request).resampling>> \notin OverBudget

VARIABLES
  warps,      \* the kept plan and the kept target, each a set of at most one
  answer,     \* what this call answers a request with, {} when it answers none:
              \* the raster, and what was made for it
  planned     \* the raster of the last plan made, {} before the first

\* A kept thing is its WarpKey, beside the raster it was made for.
MadeFor(request) == [key |-> Raster(request), raster |-> Raster(request)]
EmptyWarps == [plan |-> {}, target |-> {}]

\* WarpKey::serves compares the resampling done, not the one asked for.
Serves_OnTheGrid(kept, request) == kept.key.grid = request.grid /\ kept.key.view = request.view
Serves(kept, request) == kept.key = Raster(request)

PlanFor(request) == {kept \in warps.plan : Serves(kept, request)}
TargetFor(request) == {kept \in PlanFor(request) \cup warps.target : Serves(kept, request)}

Answer(request, raster, made) ==
  answer' = {[asked |-> request, got |-> raster, made |-> made]}
NoAnswer == answer' = {} /\ UNCHANGED <<warps, planned>>

\* The source view warps nothing.
FromSource(request) ==
  request.view = SourceView /\ Answer(request, request, "none") /\ UNCHANGED <<warps, planned>>

FromKept(request, kept) ==
  /\ request.view # SourceView
  /\ \E k \in kept : Answer(request, k.raster, "none")
  /\ UNCHANGED <<warps, planned>>

\* A target that is refused leaves what is kept.
RefuseWarp(request, kept) ==
  request.view # SourceView /\ kept = {} /\ RefusedRequest(request) /\ NoAnswer

\* A warp or a target for this call alone.
Bare(request) ==
  /\ request.view # SourceView /\ ~RefusedRequest(request)
  /\ Answer(request, Raster(request), "none") /\ UNCHANGED <<warps, planned>>

\* plan_for where no kept plan serves.  A plan over the budget is not made: the
\* warp runs without the memo, and the plan kept before it stays.
OverTheBudget_LetsGo(request) ==
  /\ ~FitsBudget(request) /\ ~RefusedRequest(request)
  /\ Answer(request, Raster(request), "none")
  /\ warps' = [plan |-> {}, target |-> warps.target] /\ UNCHANGED planned
OverTheBudget(request) == ~FitsBudget(request) /\ Bare(request)
MakePlan(request) ==
  /\ request.view # SourceView /\ PlanFor(request) = {}
  /\ \/ OverTheBudget(request)
     \/ /\ FitsBudget(request) /\ ~RefusedRequest(request)
        /\ Answer(request, Raster(request), "plan")
        /\ warps' = [plan |-> {MadeFor(request)}, target |-> warps.target]
        /\ planned' = {Raster(request)}

\* kept_target_for where neither the plan nor the target serves.
MakeTarget(request) ==
  /\ request.view # SourceView /\ TargetFor(request) = {} /\ ~RefusedRequest(request)
  /\ Answer(request, Raster(request), "target")
  /\ warps' = [plan |-> warps.plan, target |-> {MadeFor(request)}]
  /\ UNCHANGED planned

\* project, and then probe_pixel, overlay_polylines and the contours and arrows.
Projected(request) ==
  FromSource(request) \/ FromKept(request, PlanFor(request)) \/ MakePlan(request)
OnTarget(request) ==
  FromSource(request) \/ FromKept(request, TargetFor(request)) \/ MakeTarget(request)
=============================================================================
