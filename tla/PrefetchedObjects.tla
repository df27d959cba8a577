-------------------------- MODULE PrefetchedObjects --------------------------
(***************************************************************************)
(* fieldglass-core/src/bytes.rs, PrefetchedObjects: what a host has given  *)
(* a session of one stored object.  Nothing, the whole of it, the fact     *)
(* that the store holds none (a 404), or some ranges of it.  The bytes     *)
(* themselves are the object's own, so a range stands for them.  Ends are  *)
(* numbers without a width: end() of a range past 2^64, which is None and  *)
(* refused as any range past the object's size, is not told apart.         *)
(***************************************************************************)
EXTENDS Integers

ByteRange == [at: Nat, len: Nat]
EndOf(r) == r.at + r.len

Fetched ==
  [kind: {"none", "whole", "absent", "ranges"}, size: Nat, held: SUBSET ByteRange]

NotGiven == [kind |-> "none", size |-> 0, held |-> {}]
Absent == [kind |-> "absent", size |-> 0, held |-> {}]
Whole(size) == [kind |-> "whole", size |-> size, held |-> {}]

(* insert_range refuses a range past the stated size, a size that is not   *)
(* the one given before, and bytes of an object given as absent.           *)
RangeRefused(f, size, r) ==
  \/ EndOf(r) > size
  \/ f.kind \in {"whole", "ranges"} /\ f.size # size
  \/ f.kind = "absent"

\* Of two ranges from one offset the longer is kept.
LongerKept_Both(held, r) == held \cup {r}
LongerKept_First(held, r) == IF \E h \in held : h.at = r.at THEN held ELSE held \cup {r}
LongerKept(held, r) ==
  IF \E h \in held : h.at = r.at /\ h.len >= r.len
  THEN held
  ELSE {h \in held : h.at # r.at} \cup {r}

\* insert_range: a refused range, and one of an object held whole, change nothing.
WithRange(f, size, r) ==
  IF RangeRefused(f, size, r) \/ f.kind = "whole"
  THEN f
  ELSE [kind |-> "ranges", size |-> size, held |-> LongerKept(f.held, r)]

\* A range is answered from one given range that holds all of it.
Holds(held, r) ==
  r.len = 0 \/ \E h \in held : h.at <= r.at /\ EndOf(r) <= EndOf(h)

(* ranged: the bytes, none for an object given as absent, or which of the  *)
(* two reasons there are none to give.                                     *)
Ranged(f, r) ==
  CASE f.kind = "none" -> "never given"
    [] f.kind = "absent" -> "absent"
    [] f.kind \in {"whole", "ranges"} /\ EndOf(r) > f.size -> "past the end"
    [] f.kind = "ranges" /\ EndOf(r) <= f.size /\ ~Holds(f.held, r) -> "never given"
    [] OTHER -> "bytes"

\* unfetched: whether the object, whole, was never given.
Unfetched(f) == f.kind \in {"none", "ranges"}
\* object_size is Some.
Sized(f) == f.kind \in {"whole", "ranges"}
=============================================================================
