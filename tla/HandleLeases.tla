---------------------------- MODULE HandleLeases ----------------------------
(***************************************************************************)
(* handle-leases.ts: who holds each native handle.  A handle owns a file's *)
(* bytes and its memos in native memory; every place that keeps one takes  *)
(* a lease, and the last lease let go calls close().                       *)
(*                                                                         *)
(* The class has no state of its own beyond the Map of holders, so it is   *)
(* modelled as operators on a lease state                                  *)
(*    [holders |-> handle to the set of its holders, closed |-> handles    *)
(*     whose close() has been called]                                      *)
(* which the provider's actions compose in the order the code calls them.  *)
(***************************************************************************)
CONSTANT None    \* `undefined`, for a handle and everything else optional

LeaseState(Handle, Holder) ==
  [holders : [Handle -> SUBSET Holder], closed : SUBSET Handle]

NoLeases(Handle) == [holders |-> [h \in Handle |-> {}], closed |-> {}]

\* Holding twice with the same holder counts once.
Hold(l, h, holder) == [l EXCEPT !.holders[h] = @ \cup {holder}]

\* Releasing what is not held does nothing; the last to let go closes.
Release_ClosesHeld(l, h, holder) ==
  IF h = None THEN l
  ELSE IF holder \notin l.holders[h] THEN l
  ELSE [holders |-> [l.holders EXCEPT ![h] = @ \ {holder}], closed |-> l.closed \cup {h}]
Release_OfNone(l, h, holder) ==
  IF h = None THEN [l EXCEPT !.closed = @ \cup {h}]
  ELSE IF l.holders[h] # {holder} THEN [l EXCEPT !.holders[h] = @ \ {holder}]
  ELSE [holders |-> [l.holders EXCEPT ![h] = {}], closed |-> l.closed \cup {h}]
Release(l, h, holder) ==
  IF h = None THEN l
  ELSE IF holder \notin l.holders[h] THEN l
  ELSE [holders |-> [l.holders EXCEPT ![h] = @ \ {holder}],
        closed  |-> IF l.holders[h] = {holder} THEN l.closed \cup {h} ELSE l.closed]

\* HeldHandles.set and PanelHandleGate.adopt both take the new lease before
\* letting the old one go, and do nothing more when it is the same handle.
Replace(l, old, h, holder) ==
  IF old = h THEN Hold(l, h, holder)
  ELSE Release(Hold(l, h, holder), old, holder)
=============================================================================
