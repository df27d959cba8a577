--------------------------- MODULE ExpandedStore ----------------------------
(***************************************************************************)
(* fieldglass-netcdf/src/hdf5/cache.rs, struct ExpandedStore: the memo of  *)
(* decompressed HDF5 chunks, least recently used dropped first.  A store   *)
(* is a record; its methods are operators on it.                           *)
(*    by_key   the kept chunks, each with the tick it was last used at     *)
(*    by_use   those ticks, to the key used at each                        *)
(*    bytes    what the kept chunks are charged                            *)
(*    tick     uses so far                                                 *)
(* A chunk is a value with a size; its bytes are abstracted.               *)
(***************************************************************************)
EXTENDS Naturals, FiniteSets, FiniteSetsExt

CONSTANTS
  Size,           \* a value (a chunk, a header) to its bytes
  Overhead,       \* ENTRY_OVERHEAD_BYTES
  MinKept,        \* MIN_KEPT_CHUNK_BYTES
  ChunkBudget,    \* CHUNK_BYTE_BUDGET
  MaxKept         \* MAX_KEPT_CHUNKS

ASSUME StoreAssumption ==
  /\ Overhead \in Nat /\ MinKept \in Nat /\ ChunkBudget \in Nat
  /\ MaxKept \in Nat \ {0}

EmptyStore == [by_key |-> [k \in {} |-> k], by_use |-> [u \in {} |-> u], bytes |-> 0, tick |-> 0]

Charge(chunk) == Size[chunk] + Overhead

KeptKeys(st) == DOMAIN st.by_key
Uses(st) == DOMAIN st.by_use

\* Key k was used: `by_use` names it at a new tick, and at no other.
UsedNow_KeepsOldTick(st, k, chunk) ==
  LET now == st.tick + 1 IN
  [by_key |-> [j \in KeptKeys(st) \cup {k} |->
                 IF j = k THEN [chunk |-> chunk, used |-> now] ELSE st.by_key[j]],
   by_use |-> [u \in Uses(st) \cup {now} |-> IF u = now THEN k ELSE st.by_use[u]],
   bytes |-> st.bytes, tick |-> now]
UsedNow(st, k, chunk) ==
  LET now == st.tick + 1
      before == IF k \in KeptKeys(st) THEN {st.by_key[k].used} ELSE {}
  IN [by_key |-> [j \in KeptKeys(st) \cup {k} |->
                    IF j = k THEN [chunk |-> chunk, used |-> now] ELSE st.by_key[j]],
      by_use |-> [u \in (Uses(st) \ before) \cup {now} |-> IF u = now THEN k ELSE st.by_use[u]],
      bytes |-> st.bytes, tick |-> now]

\* get: a key that is not kept counts as a use all the same.
Get(st, k) ==
  IF k \in KeptKeys(st) THEN UsedNow(st, k, st.by_key[k].chunk) ELSE [st EXCEPT !.tick = @ + 1]

-----------------------------------------------------------------------------
(* keep: the loop that makes room takes the uses oldest first, until what  *)
(* is left is within both limits or nothing is.                            *)

Charges(st) == [k \in KeptKeys(st) |-> Charge(st.by_key[k].chunk)]
ChargeOf(st, uses) == SumFunctionOnSet([u \in uses |-> Charges(st)[st.by_use[u]]], uses)
UsedBy(st, t) == {u \in Uses(st) : u <= t}

WithinLimits_Strict(st, t) ==
  /\ st.bytes - ChargeOf(st, UsedBy(st, t)) < ChunkBudget
  /\ Cardinality(KeptKeys(st)) - Cardinality(UsedBy(st, t)) < MaxKept
WithinLimits(st, t) ==
  /\ st.bytes - ChargeOf(st, UsedBy(st, t)) <= ChunkBudget
  /\ Cardinality(KeptKeys(st)) - Cardinality(UsedBy(st, t)) <= MaxKept

Drop(st, t) ==
  [by_key |-> [k \in KeptKeys(st) \ {st.by_use[u] : u \in UsedBy(st, t)} |-> st.by_key[k]],
   by_use |-> [u \in Uses(st) \ UsedBy(st, t) |-> st.by_use[u]],
   bytes |-> st.bytes - ChargeOf(st, UsedBy(st, t)),
   tick |-> st.tick]

MakeRoom(st) == Drop(st, Min({t \in 0..st.tick : WithinLimits(st, t) \/ t = st.tick}))

\* A chunk under the floor, or over the whole budget, is not kept, and is no use.
Kept(chunk) == Size[chunk] >= MinKept /\ Charge(chunk) <= ChunkBudget

Keep(st, k, chunk) ==
  LET replaced == IF k \in KeptKeys(st) THEN Charge(st.by_key[k].chunk) ELSE 0
  IN IF ~Kept(chunk) THEN st
     ELSE MakeRoom([UsedNow(st, k, chunk) EXCEPT !.bytes = @ - replaced + Charge(chunk)])

-----------------------------------------------------------------------------
(* What must hold of a store                                               *)

\* The use order names every kept chunk once, at the tick it was last used.
UseOrderIsTheKeptKeys(st) ==
  /\ \A k \in KeptKeys(st) :
       st.by_key[k].used \in Uses(st) /\ st.by_use[st.by_key[k].used] = k
  /\ \A u \in Uses(st) :
       st.by_use[u] \in KeptKeys(st) /\ st.by_key[st.by_use[u]].used = u

\* The bytes charged are those of the chunks kept, and both limits hold.
ChargedWithinLimits(st) ==
  /\ st.bytes = SumFunctionOnSet(Charges(st), KeptKeys(st))
  /\ st.bytes <= ChunkBudget
  /\ Cardinality(KeptKeys(st)) <= MaxKept

\* What went from a store was used before all that stays, and the last to go
\* could not have stayed.
EvictsOldest(st, after) ==
  LET gone == KeptKeys(st) \ KeptKeys(after)
      used(k) == st.by_key[k].used
  IN \A k \in gone :
       /\ \A kept \in KeptKeys(after) : used(k) < after.by_key[kept].used
       /\ (\A other \in gone : used(other) <= used(k)) =>
            \/ Cardinality(KeptKeys(after)) = MaxKept
            \/ after.bytes + Charge(st.by_key[k].chunk) > ChunkBudget
=============================================================================
