--------------------------- MODULE HandleLifetime ---------------------------
(***************************************************************************)
(* What the leases promise, with no word of how: a native handle is open   *)
(* exactly while something in the extension refers to it.  It is opened    *)
(* for a first user, stays open while it has one, is closed in the step in *)
(* which the last one lets go, and is never opened or used again.          *)
(*                                                                         *)
(* EditorProvider implements this with `users` the references its own      *)
(* state holds (map entries, panels, exports), not the lease bookkeeping.  *)
(***************************************************************************)
CONSTANTS Handles, Users

VARIABLES users,   \* handle to those who refer to it
          state    \* "unopened", "open" or "closed"

lifetimeVars == <<users, state>>

Init ==
  /\ users = [h \in Handles |-> {}]
  /\ state = [h \in Handles |-> "unopened"]

Open(h) == state[h] = "unopened" /\ state'[h] = "open" /\ users'[h] # {}

\* A store that opened and holds nothing to draw is closed where it was opened.
OpenInVain(h) == state[h] = "unopened" /\ state'[h] = "closed" /\ users'[h] = {}

Use(h) == state[h] = "open" /\ state'[h] = "open" /\ users'[h] # {}

Close(h) == state[h] = "open" /\ state'[h] = "closed" /\ users'[h] = {}

Idle(h) == state[h] # "open" /\ state'[h] = state[h] /\ users'[h] = {}

Next ==
  /\ users' \in [Handles -> SUBSET Users]
  /\ state' \in [Handles -> {"unopened", "open", "closed"}]
  /\ \A h \in Handles : Open(h) \/ OpenInVain(h) \/ Use(h) \/ Close(h) \/ Idle(h)

Spec == Init /\ [][Next]_lifetimeVars
=============================================================================
