-------------------------- MODULE PanelHandleGate ---------------------------
(***************************************************************************)
(* provider.ts, class PanelHandleGate: which reader handle a render        *)
(* panel's page was written from, and whether a request from that page may *)
(* be served.  One gate is one record; its methods are operators on it.    *)
(* Every page is written with a number (`written`), which it echoes on     *)
(* every message it posts.                                                 *)
(*                                                                         *)
(* An operator named X_Y, here and in the other modules, is X with the     *)
(* plausible mistake Y: nothing uses it but the mutation of X by it, which *)
(* shows that a property notices.                                          *)
(***************************************************************************)
EXTENDS HandleLeases, Naturals

GateState(Handle) ==
  [handle : Handle \cup {None}, outdated : BOOLEAN, written : Nat, awaitingReady : BOOLEAN]

NewGate(h) == [handle |-> h, outdated |-> FALSE, written |-> 0, awaitingReady |-> FALSE]

\* get handle(): what a request is served from.
HandleOf(g) == IF g.outdated THEN None ELSE g.handle

Outdate_Never(g) == g
Outdate(g) == IF g.handle = None THEN g ELSE [g EXCEPT !.outdated = TRUE]

\* dispose(), which admit also calls; the lease is let go by GateRelease.
Disposed(g) == [g EXCEPT !.handle = None, !.outdated = FALSE]
GateRelease(l, g, holder) == Release(l, g.handle, holder)

\* keep() and rewrite(); both adopt the handle first.
Kept(g, h) == [g EXCEPT !.handle = h, !.outdated = FALSE]
Rewritten(g, h) == [Kept(g, h) EXCEPT !.written = @ + 1, !.awaitingReady = TRUE]
GateAdopt_KeepsOld(l, g, h, holder) == Hold(l, h, holder)
GateAdopt(l, g, h, holder) == IF g.handle = h THEN l ELSE Replace(l, g.handle, h, holder)

-----------------------------------------------------------------------------
(* admit(m, current, adopt) decides in this order.                         *)

\* From a page that has been written over, or before the new page's ready.
Dropped_OnlyBeforeReady(g, m) == g.awaitingReady /\ m.type # "ready"
Dropped(g, m) == m.page # g.written \/ (g.awaitingReady /\ m.type # "ready")

\* Past the page-number check, the page's ready has been seen.
Heard(g) == [g EXCEPT !.awaitingReady = FALSE]

\* The document has another handle than the page was written from: the panel
\* decides what the new file holds for it (`adopt`).
Moves(g, current) == current # None /\ current # g.handle

\* Outdated with nothing to move to: the old file is no longer kept.
LetsGo_Never(g, current) == FALSE
LetsGo(g, current) == g.outdated /\ current = None

\* The gate and the leases once a request is admitted with no new handle.
Admitted(g, current) == IF LetsGo(g, current) THEN Disposed(Heard(g)) ELSE Heard(g)
AdmittedLeases(l, g, current, holder) ==
  IF LetsGo(g, current) THEN GateRelease(l, g, holder) ELSE l
=============================================================================
