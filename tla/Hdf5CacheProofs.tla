-------------------------- MODULE Hdf5CacheProofs ---------------------------
(***************************************************************************)
(* Theorems about Hdf5Cache, for every set of threads, sources, keys and    *)
(* limits: a call is answered what its own source holds, whatever the memo  *)
(* was filled with; the threads that raced to a header share one copy, and  *)
(* its bytes are charged once; the chunk memo charges exactly what it       *)
(* keeps, stays within its limits, and evicts the least recently used and   *)
(* no more than it must.                                                    *)
(***************************************************************************)
EXTENDS Hdf5Cache, SumTheorems

-----------------------------------------------------------------------------
(* The chunk memo                                                          *)

\* What every method of the chunk memo preserves.
StoreInv(st) ==
  /\ st = [by_key |-> st.by_key, by_use |-> st.by_use, bytes |-> st.bytes, tick |-> st.tick]
  /\ st.tick \in Nat
  /\ KeptKeys(st) \subseteq ChunkKeys
  /\ st.by_key \in [KeptKeys(st) -> [chunk : Values, used : Nat]]
  /\ Uses(st) \subseteq 1..st.tick
  /\ st.by_use \in [Uses(st) -> ChunkKeys]
  /\ UseOrderIsTheKeptKeys(st)

\* A store with nothing in it.
LEMMA EmptyStoreInv ==
  StoreInv(EmptyStore) /\ KeptKeys(EmptyStore) = {} /\ EmptyStore.bytes = 0
BY DEF StoreInv, EmptyStore, KeptKeys, Uses, UseOrderIsTheKeptKeys

\* A use moves its key to the end of the use order, and changes no other key.
LEMMA UsedNowInv ==
  ASSUME NEW st, StoreInv(st), NEW k \in ChunkKeys, NEW chunk \in Values
  PROVE  LET now == UsedNow(st, k, chunk) IN
         /\ StoreInv(now)
         /\ KeptKeys(now) = KeptKeys(st) \cup {k}
         /\ now.by_key[k].chunk = chunk
         /\ \A j \in KeptKeys(st) \ {k} : now.by_key[j] = st.by_key[j]
<1> DEFINE t1 == st.tick + 1
           before == IF k \in KeptKeys(st) THEN {st.by_key[k].used} ELSE {}
           byKey == [j \in KeptKeys(st) \cup {k} |->
                       IF j = k THEN [chunk |-> chunk, used |-> t1] ELSE st.by_key[j]]
           byUse == [u \in (Uses(st) \ before) \cup {t1} |-> IF u = t1 THEN k ELSE st.by_use[u]]
           now == UsedNow(st, k, chunk)
<1>1. now = [by_key |-> byKey, by_use |-> byUse, bytes |-> st.bytes, tick |-> t1]
  BY DEF UsedNow
<1>2. /\ now.by_key = byKey /\ now.by_use = byUse /\ now.tick = t1 /\ now.bytes = st.bytes
      /\ KeptKeys(now) = KeptKeys(st) \cup {k}
      /\ Uses(now) = (Uses(st) \ before) \cup {t1}
  BY <1>1 DEF KeptKeys, Uses
<1>3. t1 \in Nat /\ t1 \notin Uses(st)
  BY DEF StoreInv
<1>4. byKey \in [KeptKeys(st) \cup {k} -> [chunk : Values, used : Nat]]
  BY <1>3 DEF StoreInv
<1>5. byUse \in [(Uses(st) \ before) \cup {t1} -> ChunkKeys]
  BY DEF StoreInv
<1>6. Uses(now) \subseteq 1..t1
  BY <1>2 DEF StoreInv
<1>7. UseOrderIsTheKeptKeys(now)
  <2>1. ASSUME NEW j \in KeptKeys(now)
        PROVE  now.by_key[j].used \in Uses(now) /\ now.by_use[now.by_key[j].used] = j
    <3>1. CASE j = k
      BY <1>2, <3>1
    <3>2. CASE j # k
      <4>1. j \in KeptKeys(st) /\ now.by_key[j] = st.by_key[j]
        BY <1>2, <3>2
      <4>2. st.by_key[j].used \in Uses(st) /\ st.by_use[st.by_key[j].used] = j
        BY <4>1 DEF StoreInv, UseOrderIsTheKeptKeys
      <4>3. st.by_key[j].used \notin before
        BY <4>2, <3>2 DEF StoreInv, UseOrderIsTheKeptKeys
      <4> QED BY <1>2, <1>3, <4>1, <4>2, <4>3
    <3> QED BY <3>1, <3>2
  <2>2. ASSUME NEW u \in Uses(now)
        PROVE  now.by_use[u] \in KeptKeys(now) /\ now.by_key[now.by_use[u]].used = u
    <3>1. CASE u = t1
      BY <1>2, <3>1
    <3>2. CASE u # t1
      <4>1. u \in Uses(st) /\ u \notin before /\ now.by_use[u] = st.by_use[u]
        BY <1>2, <3>2
      <4>2. st.by_use[u] \in KeptKeys(st) /\ st.by_key[st.by_use[u]].used = u
        BY <4>1 DEF StoreInv, UseOrderIsTheKeptKeys
      <4>3. st.by_use[u] # k
        BY <4>1, <4>2
      <4> QED BY <1>2, <4>1, <4>2, <4>3
    <3> QED BY <3>1, <3>2
  <2> QED BY <2>1, <2>2 DEF UseOrderIsTheKeptKeys
<1>8. StoreInv(now)
  BY <1>1, <1>2, <1>3, <1>4, <1>5, <1>6, <1>7 DEF StoreInv
<1> QED BY <1>2, <1>8

\* Dropping the oldest uses leaves the chunks that stay as they were.
LEMMA DropInv ==
  ASSUME NEW st, StoreInv(st), NEW t
  PROVE  /\ StoreInv(Drop(st, t))
         /\ KeptKeys(Drop(st, t)) \subseteq KeptKeys(st)
         /\ \A k \in KeptKeys(Drop(st, t)) : Drop(st, t).by_key[k] = st.by_key[k]
<1> DEFINE gone == UsedBy(st, t)
           goneKeys == {st.by_use[u] : u \in gone}
           after == Drop(st, t)
           left == st.bytes - ChargeOf(st, gone)
<1>1. after = [by_key |-> [k \in KeptKeys(st) \ goneKeys |-> st.by_key[k]],
               by_use |-> [u \in Uses(st) \ gone |-> st.by_use[u]],
               bytes |-> left, tick |-> st.tick]
  BY DEF Drop
<1> HIDE DEF left
<1>2. /\ after.by_key = [k \in KeptKeys(st) \ goneKeys |-> st.by_key[k]]
      /\ after.by_use = [u \in Uses(st) \ gone |-> st.by_use[u]]
      /\ after.tick = st.tick /\ after.bytes = left
      /\ KeptKeys(after) = KeptKeys(st) \ goneKeys
      /\ Uses(after) = Uses(st) \ gone
  BY <1>1 DEF KeptKeys, Uses
<1>3. UseOrderIsTheKeptKeys(after)
  <2>1. ASSUME NEW k \in KeptKeys(after)
        PROVE  after.by_key[k].used \in Uses(after) /\ after.by_use[after.by_key[k].used] = k
    <3>1. k \in KeptKeys(st) /\ k \notin goneKeys
      BY <1>2
    <3>2. st.by_key[k].used \in Uses(st) /\ st.by_use[st.by_key[k].used] = k
      BY <3>1 DEF StoreInv, UseOrderIsTheKeptKeys
    <3>3. st.by_key[k].used \notin gone
      BY <3>1, <3>2
    <3> QED BY <1>2, <3>1, <3>2, <3>3
  <2>2. ASSUME NEW u \in Uses(after)
        PROVE  after.by_use[u] \in KeptKeys(after) /\ after.by_key[after.by_use[u]].used = u
    <3>1. u \in Uses(st) /\ u \notin gone
      BY <1>2
    <3>2. st.by_use[u] \in KeptKeys(st) /\ st.by_key[st.by_use[u]].used = u
      BY <3>1 DEF StoreInv, UseOrderIsTheKeptKeys
    <3>3. \A v \in gone : st.by_key[st.by_use[v]].used = v
      BY DEF StoreInv, UseOrderIsTheKeptKeys, UsedBy
    <3>4. st.by_use[u] \notin goneKeys
      BY <3>1, <3>2, <3>3
    <3> QED BY <1>2, <3>1, <3>2, <3>4
  <2> QED BY <2>1, <2>2 DEF UseOrderIsTheKeptKeys
<1>4. StoreInv(after)
  BY <1>1, <1>2, <1>3 DEF StoreInv
<1> QED BY <1>2, <1>4

\* The bytes charged are those of the chunks kept.
Charged(st) ==
  /\ IsFiniteSet(KeptKeys(st))
  /\ st.bytes = Sum(Charges(st), KeptKeys(st))

\* ... and within both limits.
Accounted(st) ==
  /\ Charged(st)
  /\ st.bytes <= ChunkBudget
  /\ Cardinality(KeptKeys(st)) <= MaxKept

\* What a chunk is charged is a natural.
LEMMA ChargesNatural ==
  ASSUME NEW st, StoreInv(st), NEW keys \in SUBSET KeptKeys(st)
  PROVE  Naturals(Charges(st), keys)
<1>1. ASSUME NEW j \in KeptKeys(st) PROVE Charges(st)[j] \in Nat
  <2>1. st.by_key[j].chunk \in Values
    BY DEF StoreInv
  <2> QED BY <2>1, ParsedAssumption, StoreAssumption DEF Charges, Charge
<1> QED BY <1>1 DEF Naturals

\* A used key is charged its new chunk instead of the one it replaces.
LEMMA AddedCharged ==
  ASSUME NEW st, StoreInv(st), Charged(st), NEW k \in ChunkKeys, NEW chunk \in Values,
         NEW replaced, replaced = (IF k \in KeptKeys(st) THEN Charge(st.by_key[k].chunk) ELSE 0),
         NEW added, StoreInv(added), KeptKeys(added) = KeptKeys(st) \cup {k},
         added.by_key[k].chunk = chunk,
         \A j \in KeptKeys(st) \ {k} : added.by_key[j].chunk = st.by_key[j].chunk,
         added.bytes = st.bytes - replaced + Charge(chunk)
  PROVE  Charged(added)
<1> DEFINE others == KeptKeys(st) \ {k}
<1>1. /\ IsFiniteSet(others) /\ IsFiniteSet(KeptKeys(added))
      /\ KeptKeys(added) \ {k} = others /\ k \in KeptKeys(added)
  BY FS_AddElement, FS_RemoveElement DEF Charged
<1>2. /\ Naturals(Charges(st), KeptKeys(st)) /\ Naturals(Charges(added), KeptKeys(added))
      /\ Naturals(Charges(st), others)
  BY ChargesNatural
<1>3. Sum(Charges(st), others) = Sum(Charges(added), others)
  <2>1. \A j \in others : Charges(st)[j] = Charges(added)[j]
    BY DEF Charges
  <2> QED BY <1>1, <1>2, <2>1, SumSame
<1>4. Sum(Charges(added), KeptKeys(added)) = Charge(chunk) + Sum(Charges(st), others)
  <2>1. Charges(added)[k] = Charge(chunk)
    BY <1>1 DEF Charges
  <2> QED BY <1>1, <1>2, <1>3, <2>1, SumRemove
<1>5. st.bytes = replaced + Sum(Charges(st), others)
  <2>1. CASE k \in KeptKeys(st)
    <3>1. Sum(Charges(st), KeptKeys(st)) = Charges(st)[k] + Sum(Charges(st), others)
      BY <1>2, <2>1, SumRemove DEF Charged
    <3>2. Charges(st)[k] = replaced
      BY <2>1 DEF Charges
    <3> QED BY <3>1, <3>2 DEF Charged
  <2>2. CASE k \notin KeptKeys(st)
    <3>1. others = KeptKeys(st) /\ replaced = 0
      BY <2>2
    <3>2. Sum(Charges(st), others) \in Nat
      BY <1>1, <1>2, SumNatural
    <3>3. st.bytes = Sum(Charges(st), others)
      BY <3>1 DEF Charged
    <3> HIDE DEF others
    <3> QED BY <3>1, <3>2, <3>3
  <2> QED BY <2>1, <2>2
<1>6. replaced \in Nat /\ Charge(chunk) \in Nat /\ Sum(Charges(st), others) \in Nat
  <2>1. Charge(chunk) \in Nat
    BY ParsedAssumption, StoreAssumption DEF Charge
  <2>2. replaced \in Nat
    BY ParsedAssumption, StoreAssumption DEF Charge, StoreInv
  <2> QED BY <1>1, <1>2, <2>1, <2>2, SumNatural
<1> HIDE DEF others
<1>7. added.bytes = Sum(Charges(added), KeptKeys(added))
  BY <1>4, <1>5, <1>6
<1> QED BY <1>1, <1>7 DEF Charged

\* What the uses up to one tick stand for: as many chunks, and their charge.
LEMMA UsedByCharged ==
  ASSUME NEW st, StoreInv(st), Charged(st), NEW t \in Nat
  PROVE  LET gone == {st.by_use[u] : u \in UsedBy(st, t)} IN
         /\ gone \in SUBSET KeptKeys(st)
         /\ \A k \in KeptKeys(st) : k \in gone <=> st.by_key[k].used <= t
         /\ IsFiniteSet(UsedBy(st, t)) /\ IsFiniteSet(gone)
         /\ Cardinality(UsedBy(st, t)) = Cardinality(gone)
         /\ Cardinality(gone) \in Nat /\ Cardinality(gone) <= Cardinality(KeptKeys(st))
         /\ ChargeOf(st, UsedBy(st, t)) = Sum(Charges(st), gone)
<1> DEFINE uses == UsedBy(st, t)
           gone == {st.by_use[u] : u \in uses}
           name == [u \in uses |-> st.by_use[u]]
<1>1. /\ \A u \in uses : st.by_use[u] \in KeptKeys(st) /\ st.by_key[st.by_use[u]].used = u
      /\ uses \subseteq Uses(st)
  BY DEF StoreInv, UseOrderIsTheKeptKeys, UsedBy
<1>2. gone \in SUBSET KeptKeys(st)
  BY <1>1
<1>3. ASSUME NEW k \in KeptKeys(st) PROVE k \in gone <=> st.by_key[k].used <= t
  BY <1>1 DEF StoreInv, UseOrderIsTheKeptKeys, UsedBy
<1>4. IsFiniteSet(uses)
  <2>1. uses \in SUBSET (1..st.tick) /\ st.tick \in Int
    BY DEF StoreInv, UsedBy
  <2>2. IsFiniteSet(1..st.tick)
    BY <2>1, FS_Interval
  <2> HIDE DEF uses
  <2> QED BY <2>1, <2>2, FS_Subset
<1>5. IsFiniteSet(gone) /\ Cardinality(gone) = Cardinality(uses)
  <2>1. name \in Bijection(uses, gone)
    BY <1>1 DEF Bijection, Injection, Surjection, IsInjective
  <2> QED BY <1>4, <2>1, FS_Bijection DEF ExistsBijection
<1>6. Cardinality(gone) \in Nat /\ Cardinality(gone) <= Cardinality(KeptKeys(st))
  BY <1>2, <1>5, FS_CardinalityType, FS_Subset DEF Charged
<1>7. ChargeOf(st, uses) = Sum(Charges(st), gone)
  <2> DEFINE of == [u \in uses |-> Charges(st)[st.by_use[u]]]
  <2>1. Naturals(of, uses)
    <3>1. Naturals(Charges(st), gone)
      BY <1>2, ChargesNatural
    <3> QED BY <3>1 DEF Naturals
  <2>2. \A u, v \in uses : st.by_use[u] = st.by_use[v] => u = v
    BY <1>1
  <2>3. Sum(of, uses) = Sum(Charges(st), gone)
    BY <1>4, <2>1, <2>2, SumRenamed
  <2> QED BY <2>3 DEF ChargeOf, Sum
<1> HIDE DEF gone, uses
<1>8. \A k \in KeptKeys(st) : k \in gone <=> st.by_key[k].used <= t
  BY <1>3
<1> QED BY <1>2, <1>4, <1>5, <1>6, <1>7, <1>8 DEF gone, uses

\* What is dropped is no longer charged, and the rest is.
LEMMA DropCharged ==
  ASSUME NEW st, StoreInv(st), Charged(st), NEW t \in Nat
  PROVE  LET after == Drop(st, t) IN
         /\ Charged(after)
         /\ \A k \in KeptKeys(st) : k \in KeptKeys(after) <=> st.by_key[k].used > t
         /\ KeptKeys(after) \subseteq KeptKeys(st)
         /\ \A k \in KeptKeys(after) : after.by_key[k] = st.by_key[k]
         /\ after.bytes = st.bytes - ChargeOf(st, UsedBy(st, t)) /\ after.bytes \in Nat
         /\ after.bytes = Sum(Charges(st), KeptKeys(after))
         /\ Cardinality(KeptKeys(after)) = Cardinality(KeptKeys(st)) - Cardinality(UsedBy(st, t))
<1> DEFINE gone == {st.by_use[u] : u \in UsedBy(st, t)}
           after == Drop(st, t)
           rest == KeptKeys(st) \ gone
<1>1. /\ gone \in SUBSET KeptKeys(st) /\ IsFiniteSet(gone)
      /\ \A k \in KeptKeys(st) : k \in gone <=> st.by_key[k].used <= t
      /\ Cardinality(UsedBy(st, t)) = Cardinality(gone)
      /\ ChargeOf(st, UsedBy(st, t)) = Sum(Charges(st), gone)
  BY UsedByCharged
<1>2. /\ KeptKeys(after) = rest /\ \A k \in rest : after.by_key[k] = st.by_key[k]
      /\ after.bytes = st.bytes - ChargeOf(st, UsedBy(st, t))
  BY DEF Drop, KeptKeys
<1> HIDE DEF after, gone
<1>3. IsFiniteSet(rest) /\ Cardinality(rest) = Cardinality(KeptKeys(st)) - Cardinality(gone)
  <2>1. KeptKeys(st) \cap gone = gone
    BY <1>1
  <2>2. IsFiniteSet(KeptKeys(st))
    BY DEF Charged
  <2> QED BY <2>1, <2>2, FS_Difference
<1>4. /\ Naturals(Charges(st), KeptKeys(st)) /\ Naturals(Charges(st), rest)
      /\ Naturals(Charges(st), gone)
  BY <1>1, ChargesNatural
<1>5. st.bytes = Sum(Charges(st), gone) + Sum(Charges(st), rest)
  BY <1>1, <1>4, SumSplit DEF Charged
<1>6. Sum(Charges(st), gone) \in Nat /\ Sum(Charges(st), rest) \in Nat
  BY <1>1, <1>3, <1>4, SumNatural
<1>7. Sum(Charges(st), rest) = Sum(Charges(after), rest)
  <2>1. \A k \in rest : Charges(st)[k] = Charges(after)[k]
    BY <1>2 DEF Charges
  <2> QED BY <1>3, <1>4, <2>1, SumSame
<1>8. Charged(after) /\ after.bytes \in Nat /\ after.bytes = Sum(Charges(st), rest)
  BY <1>1, <1>2, <1>3, <1>5, <1>6, <1>7 DEF Charged
<1>9. \A k \in KeptKeys(st) : k \in rest <=> st.by_key[k].used > t
  <2>1. \A k \in KeptKeys(st) : st.by_key[k].used \in Nat
    BY DEF StoreInv
  <2> QED BY <1>1, <2>1
<1> QED BY <1>1, <1>2, <1>3, <1>8, <1>9 DEF after

\* What stays charged, and how many stay, decides whether more must go.
LEMMA WithinLimitsOfDrop ==
  ASSUME NEW st, StoreInv(st), Charged(st), NEW t \in Nat
  PROVE  WithinLimits(st, t) <=> /\ Drop(st, t).bytes <= ChunkBudget
                                 /\ Cardinality(KeptKeys(Drop(st, t))) <= MaxKept
BY DropCharged DEF WithinLimits

\* Room is made: what stays is within both limits, the newest with it, and no
\* more went than had to, oldest first.
LEMMA MakeRoomCharged ==
  ASSUME NEW st, StoreInv(st), Charged(st), NEW newest \in KeptKeys(st),
         st.by_key[newest].used = st.tick, Charge(st.by_key[newest].chunk) <= ChunkBudget
  PROVE  LET after == MakeRoom(st)
             gone == KeptKeys(st) \ KeptKeys(after)
             used(j) == st.by_key[j].used
         IN /\ StoreInv(after) /\ Charged(after)
            /\ after.bytes <= ChunkBudget /\ Cardinality(KeptKeys(after)) <= MaxKept
            /\ newest \in KeptKeys(after) /\ KeptKeys(after) \subseteq KeptKeys(st)
            /\ \A j \in KeptKeys(after) : after.by_key[j] = st.by_key[j]
            /\ \A j \in gone :
                 /\ \A kept \in KeptKeys(after) : used(j) < used(kept)
                 /\ (\A other \in gone : used(other) <= used(j)) =>
                      \/ Cardinality(KeptKeys(after)) = MaxKept
                      \/ after.bytes + Charge(st.by_key[j].chunk) > ChunkBudget
<1> DEFINE T == {t \in 0..st.tick : WithinLimits(st, t) \/ t = st.tick}
           upto == Min(T)
           after == MakeRoom(st)
           last == st.tick - 1
<1>1. /\ \A j \in KeptKeys(st) : st.by_key[j].used \in 1..st.tick
      /\ \A i, j \in KeptKeys(st) : st.by_key[i].used = st.by_key[j].used => i = j
      /\ st.tick \in Nat \ {0} /\ last \in Nat
  BY DEF StoreInv, UseOrderIsTheKeptKeys
<1>2. upto \in T /\ \A t \in T : upto <= t
  <2>1. T \in SUBSET Nat /\ st.tick \in T
    BY <1>1
  <2>2. PICK m \in T : \A t \in T : m <= t
    BY <2>1, LeastNatural
  <2> HIDE DEF T
  <2> QED BY <2>2 DEF Min
<1>3. last \in T
  <2> DEFINE only == Drop(st, last)
  <2>0. /\ \A j \in KeptKeys(st) : j \in KeptKeys(only) <=> st.by_key[j].used > last
        /\ KeptKeys(only) \subseteq KeptKeys(st)
        /\ only.bytes = Sum(Charges(st), KeptKeys(only))
        /\ WithinLimits(st, last) <=> only.bytes <= ChunkBudget /\ Cardinality(KeptKeys(only)) <= MaxKept
    BY <1>1, DropCharged, WithinLimitsOfDrop
  <2> HIDE DEF only
  <2>1. KeptKeys(only) = {newest}
    <3>1. \A j \in KeptKeys(st) : st.by_key[j].used > last <=> j = newest
      BY <1>1
    <3> QED BY <2>0, <3>1
  <2>2. only.bytes = Charge(st.by_key[newest].chunk)
    <3>1. only.bytes = Sum(Charges(st), {newest})
      BY <2>0, <2>1
    <3>2. Sum(Charges(st), {} \cup {newest}) = Charges(st)[newest] + Sum(Charges(st), {})
      <4>1. Naturals(Charges(st), {newest}) /\ IsFiniteSet({})
        BY ChargesNatural, FS_EmptySet
      <4> QED BY <4>1, SumAdd
    <3>3. Charges(st)[newest] = Charge(st.by_key[newest].chunk)
      BY DEF Charges
    <3>4. Charge(st.by_key[newest].chunk) \in Nat
      BY ParsedAssumption, StoreAssumption DEF Charge, StoreInv
    <3> QED BY <3>1, <3>2, <3>3, <3>4, SumEmpty
  <2>3. Cardinality(KeptKeys(only)) <= MaxKept
    <3>1. Cardinality(KeptKeys(only)) = 1
      BY <2>1, FS_Singleton
    <3> QED BY <3>1, StoreAssumption
  <2>4. WithinLimits(st, last)
    BY <2>0, <2>2, <2>3
  <2> QED BY <1>1, <2>4
<1>4. /\ upto \in Nat /\ upto < st.tick /\ WithinLimits(st, upto)
      /\ \A t \in 0..st.tick : WithinLimits(st, t) => upto <= t
  BY <1>1, <1>2, <1>3
<1>5. after = Drop(st, upto)
  BY DEF MakeRoom
<1> HIDE DEF T, upto, after
<1>6. /\ StoreInv(after) /\ Charged(after)
      /\ after.bytes = Sum(Charges(st), KeptKeys(after)) /\ after.bytes \in Nat
      /\ KeptKeys(after) \subseteq KeptKeys(st)
      /\ \A j \in KeptKeys(after) : after.by_key[j] = st.by_key[j]
      /\ \A j \in KeptKeys(st) : j \in KeptKeys(after) <=> st.by_key[j].used > upto
  BY <1>4, <1>5, DropCharged, DropInv
<1>7. after.bytes <= ChunkBudget /\ Cardinality(KeptKeys(after)) <= MaxKept
  BY <1>4, <1>5, WithinLimitsOfDrop
<1>8. newest \in KeptKeys(after)
  BY <1>4, <1>6
<1>9. ASSUME NEW j \in KeptKeys(st) \ KeptKeys(after), NEW kept \in KeptKeys(after)
      PROVE  st.by_key[j].used < st.by_key[kept].used
  BY <1>1, <1>4, <1>6, <1>9
<1>10. ASSUME NEW j \in KeptKeys(st) \ KeptKeys(after),
              \A other \in KeptKeys(st) \ KeptKeys(after) :
                st.by_key[other].used <= st.by_key[j].used
       PROVE  \/ Cardinality(KeptKeys(after)) = MaxKept
              \/ after.bytes + Charge(st.by_key[j].chunk) > ChunkBudget
  <2> DEFINE t == st.by_key[j].used - 1
             before == Drop(st, t)
  <2>1. t \in Nat /\ t \in 0..st.tick /\ t < upto
    BY <1>1, <1>4, <1>6
  <2>2. ~WithinLimits(st, t)
    BY <1>4, <2>1
  <2>3. KeptKeys(before) = KeptKeys(after) \cup {j}
    <3>1. /\ \A i \in KeptKeys(st) : i \in KeptKeys(before) <=> st.by_key[i].used > t
          /\ KeptKeys(before) \subseteq KeptKeys(st)
      BY <2>1, DropCharged
    <3>2. \A i \in KeptKeys(st) : st.by_key[i].used > t <=> i \in KeptKeys(after) \/ i = j
      BY <1>1, <1>4, <1>6, <1>10
    <3> QED BY <1>6, <3>1, <3>2
  <2>4. Cardinality(KeptKeys(before)) = Cardinality(KeptKeys(after)) + 1
        /\ Cardinality(KeptKeys(after)) \in Nat
    BY <1>6, <2>3, FS_AddElement, FS_CardinalityType DEF Charged
  <2>5. before.bytes = Charge(st.by_key[j].chunk) + after.bytes
    <3>1. before.bytes = Sum(Charges(st), KeptKeys(before))
      BY <2>1, DropCharged
    <3>2. Naturals(Charges(st), KeptKeys(after) \cup {j}) /\ IsFiniteSet(KeptKeys(after))
      BY <1>6, ChargesNatural DEF Charged
    <3>3. Charges(st)[j] = Charge(st.by_key[j].chunk)
      BY DEF Charges
    <3> HIDE DEF before
    <3> QED BY <1>6, <2>3, <3>1, <3>2, <3>3, SumAdd
  <2>6. ~(before.bytes <= ChunkBudget /\ Cardinality(KeptKeys(before)) <= MaxKept)
    BY <2>1, <2>2, WithinLimitsOfDrop
  <2>7. Charge(st.by_key[j].chunk) \in Nat
    BY ParsedAssumption, StoreAssumption DEF Charge, StoreInv
  <2> HIDE DEF before
  <2> QED BY <1>6, <1>7, <2>4, <2>5, <2>6, <2>7, StoreAssumption
<1> QED BY <1>6, <1>7, <1>8, <1>9, <1>10 DEF after

\* A lookup keeps every chunk it found, and returns none.
LEMMA GetInv ==
  ASSUME NEW st, StoreInv(st), Accounted(st), NEW k \in ChunkKeys
  PROVE  /\ StoreInv(Get(st, k)) /\ Accounted(Get(st, k))
         /\ KeptKeys(Get(st, k)) = KeptKeys(st)
         /\ \A j \in KeptKeys(st) : Get(st, k).by_key[j].chunk = st.by_key[j].chunk
<1> DEFINE got == Get(st, k)
<1>1. /\ StoreInv(got) /\ KeptKeys(got) = KeptKeys(st) /\ got.bytes = st.bytes
      /\ \A j \in KeptKeys(st) : got.by_key[j].chunk = st.by_key[j].chunk
  <2>1. CASE k \in KeptKeys(st)
    <3>1. st.by_key[k].chunk \in Values
      BY <2>1 DEF StoreInv
    <3> DEFINE now == UsedNow(st, k, st.by_key[k].chunk)
    <3>2. /\ StoreInv(now)
          /\ KeptKeys(now) = KeptKeys(st) \cup {k}
          /\ now.by_key[k].chunk = st.by_key[k].chunk
          /\ \A j \in KeptKeys(st) \ {k} : now.by_key[j] = st.by_key[j]
      BY <3>1, UsedNowInv
    <3>3. got = now /\ now.bytes = st.bytes
      BY <2>1 DEF Get, UsedNow
    <3> HIDE DEF now, got
    <3> QED BY <2>1, <3>2, <3>3
  <2>2. CASE k \notin KeptKeys(st)
    BY <2>2 DEF Get, StoreInv, KeptKeys, Uses, UseOrderIsTheKeptKeys
  <2> QED BY <2>1, <2>2
<1> HIDE DEF got
<1>2. Charges(got) = Charges(st)
  BY <1>1 DEF Charges
<1>3. Accounted(got)
  BY <1>1, <1>2 DEF Accounted, Charged
<1> QED BY <1>1, <1>3 DEF got

\* A kept chunk is in the memo as it was given, the others as they were, and it
\* takes no more room than it needs.
LEMMA KeepInv ==
  ASSUME NEW st, StoreInv(st), Accounted(st), NEW k \in ChunkKeys, NEW chunk \in Values,
         NEW after, after = Keep(st, k, chunk)
  PROVE  /\ StoreInv(after) /\ Accounted(after)
         /\ KeptKeys(after) \subseteq KeptKeys(st) \cup {k}
         /\ \A j \in KeptKeys(after) :
              after.by_key[j].chunk = IF j = k /\ Kept(chunk) THEN chunk ELSE st.by_key[j].chunk
         /\ EvictsOldest(st, after)
<1>1. CASE ~Kept(chunk)
  <2>1. after = st
    BY <1>1 DEF Keep
  <2> QED BY <1>1, <2>1 DEF EvictsOldest
<1>2. CASE Kept(chunk)
  <2> DEFINE replaced == IF k \in KeptKeys(st) THEN Charge(st.by_key[k].chunk) ELSE 0
             total == st.bytes - replaced + Charge(chunk)
             used == UsedNow(st, k, chunk)
             added == [used EXCEPT !.bytes = total]
  <2>1. /\ StoreInv(used)
        /\ KeptKeys(used) = KeptKeys(st) \cup {k}
        /\ used.by_key[k].chunk = chunk
        /\ \A j \in KeptKeys(st) \ {k} : used.by_key[j] = st.by_key[j]
    BY UsedNowInv
  <2>2. used.bytes = st.bytes /\ used.by_key[k].used = used.tick
    BY DEF UsedNow, StoreInv
  <2>3. after = MakeRoom(added)
    BY <1>2, <2>2 DEF Keep
  <2> HIDE DEF used, total
  <2>4. /\ added.by_key = used.by_key /\ added.by_use = used.by_use /\ added.tick = used.tick
        /\ added.bytes = total
    BY <2>1 DEF StoreInv
  <2>5. StoreInv(added)
    BY <2>1, <2>4 DEF StoreInv, KeptKeys, Uses, UseOrderIsTheKeptKeys
  <2>6. KeptKeys(added) = KeptKeys(st) \cup {k}
    BY <2>1, <2>4 DEF KeptKeys
  <2> HIDE DEF added
  <2>7. Charged(added)
    BY <2>1, <2>4, <2>5, <2>6, AddedCharged DEF Accounted, total
  <2>8. /\ StoreInv(after) /\ Charged(after)
        /\ after.bytes <= ChunkBudget /\ Cardinality(KeptKeys(after)) <= MaxKept
        /\ k \in KeptKeys(after) /\ KeptKeys(after) \subseteq KeptKeys(added)
        /\ \A j \in KeptKeys(after) : after.by_key[j] = added.by_key[j]
        /\ \A j \in KeptKeys(added) \ KeptKeys(after) :
             /\ \A kept \in KeptKeys(after) : added.by_key[j].used < added.by_key[kept].used
             /\ (\A other \in KeptKeys(added) \ KeptKeys(after) :
                   added.by_key[other].used <= added.by_key[j].used) =>
                  \/ Cardinality(KeptKeys(after)) = MaxKept
                  \/ after.bytes + Charge(added.by_key[j].chunk) > ChunkBudget
    <3>1. /\ k \in KeptKeys(added) /\ added.by_key[k].used = added.tick
          /\ Charge(added.by_key[k].chunk) <= ChunkBudget
      BY <1>2, <2>1, <2>2, <2>4, <2>6 DEF Kept
    <3> QED BY <2>3, <2>5, <2>7, <3>1, MakeRoomCharged
  <2>9. /\ KeptKeys(added) \ KeptKeys(after) = KeptKeys(st) \ KeptKeys(after)
        /\ \A j \in KeptKeys(st) \ KeptKeys(after) : added.by_key[j] = st.by_key[j]
        /\ \A j \in KeptKeys(after) \ {k} : after.by_key[j] = st.by_key[j]
        /\ after.by_key[k].chunk = chunk
    BY <2>1, <2>4, <2>6, <2>8
  <2>10. EvictsOldest(st, after)
    BY <2>8, <2>9 DEF EvictsOldest
  <2> QED BY <1>2, <2>6, <2>8, <2>9, <2>10 DEF Accounted
<1> QED BY <1>1, <1>2

-----------------------------------------------------------------------------
(* The inductive invariant                                                 *)

\* An object of the memo, or nothing, and what a source holds at its key.
Slotted(held, keys) ==
  held \in [keys -> ObjectType]
Faithful(held, keys, s) ==
  \A k \in keys : held[k] # Nothing => held[k].value = Parsed[s][k]

\* Chunk records are those some dataset reads that names their index.
ReadAt(s, i, value) ==
  \E j \in RecordKeys : IndexOf[j] = i /\ value = Parsed[s][j]
RecordsFaithful(held, s) ==
  \A i \in Indexes : held[i] # Nothing => ReadAt(s, i, held[i].value)

\* The bytes of the header memo are those of the headers it keeps.
HeadersCharged(store) ==
  /\ IsFiniteSet(KeptHeaders(store))
  /\ store.bytes = Sum(HeaderSizes(store), KeptHeaders(store))

\* The memo is typed, and empty until it is bound.
MemoTyped ==
  /\ bound \in Identities \cup {None}
  /\ Slotted(slots, SlotKeys)
  /\ headers \in [by_offset : [HeaderKeys -> ObjectType], bytes : Nat]
  /\ headers.bytes <= HeaderBudget /\ HeadersCharged(headers)
  /\ Slotted(records, Indexes)
  /\ StoreInv(expanded) /\ Accounted(expanded)

\* What the memo holds is what any source of the identity it is bound to holds.
MemoFaithful ==
  \A s \in Sources : Identity[s] # None /\ Identity[s] = bound =>
    /\ Faithful(slots, SlotKeys, s)
    /\ Faithful(headers.by_offset, HeaderKeys, s)
    /\ RecordsFaithful(records, s)
    /\ \A k \in KeptKeys(expanded) : expanded.by_key[k].chunk = Parsed[s][k]

MemoEmpty ==
  /\ \A k \in SlotKeys : slots[k] = Nothing
  /\ \A k \in HeaderKeys : headers.by_offset[k] = Nothing
  /\ \A i \in Indexes : records[i] = Nothing
  /\ KeptKeys(expanded) = {}

\* A call past its first step knows its source and key, and the memo is bound
\* unless its source has no identity.  A call that uses the memo reads a source of
\* the identity the memo is bound to, and a bare one does not.
Memoized(c) == Identity[c.source] # None /\ Identity[c.source] = bound
AnsweredAlike(c) ==
  /\ c.key \in RecordKeys /\ Memoized(c)
  /\ ReadAt(c.source, IndexOf[c.key], c.answer.value) /\ c.answer.value # Failed
CallSound(c) ==
  /\ c.stage # "idle" => /\ c.source \in Sources /\ c.key \in Keys
                         /\ Identity[c.source] # None => bound # None
  /\ c.stage = "bare" => ~Memoized(c)
  /\ c.stage \in {"lookup", "build", "store"} => Memoized(c)
  /\ c.stage = "store" => c.built \in Values /\ c.built = Parsed[c.source][c.key]
  /\ c.stage = "done" => c.answer.value = Parsed[c.source][c.key] \/ AnsweredAlike(c)

\* A header answered through the memo is the one it keeps, unless there was no
\* room for it: then there never will be, since the memo's bytes only grow.
CallShares(c) ==
  c.stage = "done" /\ c.key \in HeaderKeys /\ Memoized(c) /\ c.answer.value # Failed =>
    \/ headers.by_offset[c.key] = c.answer
    \/ /\ headers.by_offset[c.key] = Nothing
       /\ headers.bytes + Size[c.answer.value] > HeaderBudget

IInv ==
  /\ MemoTyped
  /\ bound = None => MemoEmpty
  /\ MemoFaithful
  /\ call \in [Threads -> CallType]
  /\ \A t \in Threads : CallSound(call[t]) /\ CallShares(call[t])

USE DEF Faithful, Slotted

-----------------------------------------------------------------------------
(* One lemma per action                                                    *)

\* A step that changes nothing but one thread's call.
LEMMA CallOnly ==
  ASSUME IInv, NEW t \in Threads, UNCHANGED <<bound, memo>>,
         NEW c \in CallType, CallSound(c), CallShares(c),
         call' = [call EXCEPT ![t] = c]
  PROVE  IInv'
<1>1. call' \in [Threads -> CallType]
  BY DEF IInv
<1>2. ASSUME NEW u \in Threads PROVE CallSound(call[u])' /\ CallShares(call[u])'
  <2>1. CallSound(call'[u]) /\ CallShares(call'[u])
    BY DEF IInv
  <2> QED BY <2>1 DEF memo, CallSound, CallShares, AnsweredAlike, Memoized
<1>3. MemoTyped' /\ (bound = None => MemoEmpty)' /\ MemoFaithful'
  BY DEF IInv, memo, MemoTyped, MemoEmpty, MemoFaithful
<1> QED BY <1>1, <1>2, <1>3 DEF IInv

\* The invariant holds at first.
LEMMA InitInvariant == Init => IInv
<1> SUFFICES ASSUME Init PROVE IInv
  OBVIOUS
<1> USE DEF Init
<1>1. Nothing \in ObjectType
  BY DEF ObjectType
<1>2. MemoTyped
  <2>1. Accounted(expanded)
    BY EmptyStoreInv, SumEmpty, FS_EmptySet, StoreAssumption DEF Accounted, Charged
  <2>2. HeadersCharged(headers)
    <3>1. KeptHeaders(headers) = {} /\ headers.bytes = 0
      BY DEF KeptHeaders
    <3> QED BY <3>1, SumEmpty, FS_EmptySet DEF HeadersCharged
  <2> QED BY <1>1, <2>1, <2>2, EmptyStoreInv, LimitsAssumption DEF MemoTyped
<1>3. MemoEmpty
  BY EmptyStoreInv DEF MemoEmpty
<1>4. MemoFaithful
  BY <1>3, EmptyStoreInv DEF MemoFaithful, RecordsFaithful
<1>5. Idle \in CallType
  BY DEF Idle, CallType, Nothing, Object
<1>6. \A t \in Threads : CallSound(call[t]) /\ CallShares(call[t])
  BY DEF Idle, CallSound, CallShares
<1> QED BY <1>2, <1>3, <1>4, <1>5, <1>6 DEF IInv

\* Binding the memo: what was read before it was bound did not use it.
LEMMA CallStep ==
  ASSUME IInv, NEW t \in Threads, NEW s \in Sources, NEW k \in Keys, Call(t, s, k)
  PROVE  IInv'
<1> PICK c : c = [Idle EXCEPT !.stage = IF UsableWhen(s) THEN "lookup" ELSE "bare",
                              !.source = s, !.key = k]
  OBVIOUS
<1>1. /\ c.stage \in {"lookup", "bare"} /\ (c.stage = "lookup" <=> UsableWhen(s))
      /\ c.source = s /\ c.key = k /\ c \in CallType
  BY DEF Idle, CallType, Nothing, Object
<1>2. call' = [call EXCEPT ![t] = c] /\ bound' = (IF bound = None THEN Identity[s] ELSE bound)
      /\ UNCHANGED memo
  BY DEF Call
<1>3. call' \in [Threads -> CallType]
  BY <1>1, <1>2 DEF IInv
<1>4. MemoTyped'
  <2>1. bound' \in Identities \cup {None}
    BY <1>2 DEF IInv, MemoTyped, Identities
  <2> QED BY <1>2, <2>1 DEF IInv, MemoTyped, memo
<1>5. MemoFaithful'
  <2>1. CASE bound = None
    <3>1. MemoEmpty'
      BY <2>1, <1>2 DEF IInv, MemoEmpty, memo
    <3> QED BY <3>1 DEF MemoFaithful, MemoEmpty, RecordsFaithful
  <2>2. CASE bound # None
    BY <2>2, <1>2 DEF IInv, MemoFaithful, memo
  <2> QED BY <2>1, <2>2
<1>6. (bound = None => MemoEmpty)'
  BY <1>2 DEF IInv, MemoEmpty, memo
<1>7. ASSUME NEW u \in Threads PROVE CallSound(call[u])' /\ CallShares(call[u])'
  <2>1. CASE u = t
    <3>1. call'[u] = c
      BY <2>1, <1>2 DEF IInv
    <3>2. CallSound(c)'
      BY <1>1, <1>2 DEF CallSound, Memoized, UsableWhen
    <3>3. CallShares(c)'
      BY <1>1 DEF CallShares
    <3> QED BY <3>1, <3>2, <3>3 DEF CallSound, CallShares, AnsweredAlike, Memoized
  <2>2. CASE u # t
    <3>1. call'[u] = call[u]
      BY <2>2, <1>2 DEF IInv
    <3>2. CallSound(call[u]) /\ CallShares(call[u])
      BY DEF IInv
    <3>3. CASE bound = bound'
      BY <3>1, <3>2, <3>3, <1>2 DEF CallSound, CallShares, AnsweredAlike, Memoized, memo
    <3>4. CASE bound = None
      BY <3>1, <3>2, <3>4, <1>2 DEF CallSound, CallShares, AnsweredAlike, Memoized, memo
    <3> QED BY <3>3, <3>4, <1>2
  <2> QED BY <2>1, <2>2
<1> QED BY <1>3, <1>4, <1>5, <1>6, <1>7 DEF IInv

\* ReadBare keeps the invariant.
LEMMA ReadBareStep ==
  ASSUME IInv, NEW t \in Threads, ReadBare(t)
  PROVE  IInv'
<1> DEFINE c == [call[t] EXCEPT !.stage = "done", !.answer = Object(t, Read(t))]
<1>1. call[t] \in CallType /\ CallSound(call[t]) /\ call[t].stage = "bare"
  BY DEF IInv, ReadBare
<1>2. Read(t) \in Values \cup {Failed}
  BY <1>1, ParsedAssumption DEF CallSound, Read
<1>3. /\ c \in CallType /\ c.stage = "done" /\ c.source = call[t].source /\ c.key = call[t].key
      /\ c.answer.value = Read(t)
  BY <1>1, <1>2 DEF CallType, Object
<1>4. CallSound(c) /\ CallShares(c)
  BY <1>1, <1>3 DEF CallSound, CallShares, Memoized, Read
<1>5. call' = [call EXCEPT ![t] = c] /\ UNCHANGED <<bound, memo>>
  BY DEF IInv, ReadBare, Answer
<1> QED BY <1>3, <1>4, <1>5, CallOnly

\* A failed parse is answered; a good one goes on to be kept.
LEMMA BuildStep ==
  ASSUME IInv, NEW t \in Threads, Build(t)
  PROVE  IInv'
<1>1. call[t] \in CallType /\ CallSound(call[t]) /\ call[t].stage = "build"
  BY DEF IInv, Build
<1>2. Read(t) \in Values \cup {Failed}
  BY <1>1, ParsedAssumption DEF CallSound, Read
<1>3. CASE Read(t) = Failed
  <2> DEFINE c == [call[t] EXCEPT !.stage = "done", !.answer = Object(t, Failed)]
  <2>1. /\ c \in CallType /\ c.stage = "done" /\ c.source = call[t].source /\ c.key = call[t].key
        /\ c.answer.value = Failed
    BY <1>1 DEF CallType, Object
  <2>2. CallSound(c) /\ CallShares(c)
    BY <1>1, <1>3, <2>1 DEF CallSound, CallShares, Memoized, Read
  <2>3. call' = [call EXCEPT ![t] = c] /\ UNCHANGED <<bound, memo>>
    BY <1>3 DEF IInv, Build, Answer
  <2> QED BY <2>1, <2>2, <2>3, CallOnly
<1>4. CASE Read(t) # Failed
  <2> DEFINE c == [call[t] EXCEPT !.stage = "store", !.built = Read(t)]
  <2>1. /\ c \in CallType /\ c.stage = "store" /\ c.source = call[t].source /\ c.key = call[t].key
        /\ c.built = Read(t)
    BY <1>1, <1>2, <1>4 DEF CallType
  <2>2. CallSound(c) /\ CallShares(c)
    BY <1>1, <1>2, <1>4, <2>1 DEF CallSound, CallShares, Memoized, Read
  <2>3. call' = [call EXCEPT ![t] = c] /\ UNCHANGED <<bound, memo>>
    BY <1>4 DEF IInv, Build
  <2> QED BY <2>1, <2>2, <2>3, CallOnly
<1> QED BY <1>3, <1>4

\* Return keeps the invariant.
LEMMA ReturnStep ==
  ASSUME IInv, NEW t \in Threads, Return(t)
  PROVE  IInv'
<1>1. Idle \in CallType /\ CallSound(Idle) /\ CallShares(Idle)
  BY DEF Idle, CallType, Nothing, Object, CallSound, CallShares
<1> QED BY <1>1, CallOnly DEF Return

\* Sources of the identity the memo is bound to read alike.
LEMMA SameReads ==
  ASSUME IInv, NEW t \in Threads, Memoized(call[t]), call[t].stage # "idle",
         NEW s \in Sources, Identity[s] # None, Identity[s] = bound
  PROVE  Parsed[s] = Parsed[call[t].source]
BY IdentityAssumption DEF IInv, CallSound, Memoized

\* The other threads' calls, when the header memo stays as it is.
LEMMA OthersSound ==
  ASSUME IInv, UNCHANGED <<bound, headers>>, NEW u \in Threads, call'[u] = call[u]
  PROVE  CallSound(call[u])' /\ CallShares(call[u])'
<1>1. CallSound(call[u]) /\ CallShares(call[u])
  BY DEF IInv
<1> QED BY <1>1 DEF CallSound, CallShares, AnsweredAlike, Memoized

\* A kept object is answered as it is; a lookup of a chunk is a use of it.
LEMMA LookupStep ==
  ASSUME IInv, NEW t \in Threads, Lookup(t)
  PROVE  IInv'
<1> DEFINE k == call[t].key
           o == HeldFor(k)
<1>1. /\ call[t] \in CallType /\ CallSound(call[t]) /\ call[t].stage = "lookup"
      /\ k \in Keys /\ call[t].source \in Sources /\ Memoized(call[t]) /\ bound # None
  BY DEF IInv, Lookup, CallSound, Memoized
<1>2. UNCHANGED <<bound, slots, headers, records>>
  BY DEF Lookup
<1>3. o # Nothing => /\ o.value \in Values
                     /\ \/ o.value = Read(t)
                        \/ k \in RecordKeys /\ ReadAt(call[t].source, IndexOf[k], o.value)
                     /\ o \in [value : Values \cup {Failed, None}, arc : Threads \cup {None}]
                     /\ (k \in HeaderKeys => o = headers.by_offset[k])
  <2>1. Identity[call[t].source] # None /\ Identity[call[t].source] = bound
    BY <1>1 DEF Memoized
  <2>2. /\ Faithful(slots, SlotKeys, call[t].source)
        /\ Faithful(headers.by_offset, HeaderKeys, call[t].source)
        /\ RecordsFaithful(records, call[t].source)
        /\ \A j \in KeptKeys(expanded) : expanded.by_key[j].chunk = Parsed[call[t].source][j]
    BY <1>1, <2>1 DEF IInv, MemoFaithful
  <2>3. CASE k \in SlotKeys
    BY <2>2, <2>3, KeysAssumption
       DEF HeldFor, IInv, MemoTyped, ObjectType, Nothing, Object, Read
  <2>4. CASE k \in HeaderKeys
    BY <2>2, <2>4, KeysAssumption
       DEF HeldFor, IInv, MemoTyped, ObjectType, Nothing, Object, Read
  <2>5. CASE k \in RecordKeys
    <3>1. o = records[IndexOf[k]] /\ IndexOf[k] \in Indexes /\ k \notin HeaderKeys
      BY <2>5, KeysAssumption DEF HeldFor
    <3>2. o \in ObjectType
      BY <3>1 DEF IInv, MemoTyped
    <3>3. o # Nothing => ReadAt(call[t].source, IndexOf[k], o.value)
      BY <2>2, <3>1 DEF RecordsFaithful
    <3> HIDE DEF o
    <3> QED BY <2>5, <3>1, <3>2, <3>3 DEF ObjectType
  <2>6. CASE k \in ChunkKeys
    <3>1. k \notin SlotKeys /\ k \notin HeaderKeys /\ k \notin RecordKeys
      BY <2>6, KeysAssumption
    <3>2. o = IF k \in KeptKeys(expanded) THEN Object(None, expanded.by_key[k].chunk) ELSE Nothing
      BY <2>6, <3>1 DEF HeldFor
    <3>3. k \in KeptKeys(expanded) => expanded.by_key[k].chunk \in Values
      BY DEF IInv, MemoTyped, StoreInv
    <3> QED BY <2>2, <3>1, <3>2, <3>3 DEF Object, Read
  <2> QED BY <1>1, <2>3, <2>4, <2>5, <2>6 DEF Keys
<1>4. /\ StoreInv(expanded') /\ Accounted(expanded')
      /\ KeptKeys(expanded') = KeptKeys(expanded)
      /\ \A j \in KeptKeys(expanded) : expanded'.by_key[j].chunk = expanded.by_key[j].chunk
  BY GetInv DEF Lookup, IInv, MemoTyped
<1>5. MemoTyped' /\ (bound = None => MemoEmpty)'
  BY <1>2, <1>4 DEF IInv, MemoTyped, MemoEmpty
<1>6. MemoFaithful'
  BY <1>2, <1>4 DEF IInv, MemoFaithful
<1>7. PICK c : c = IF o = Nothing THEN [call[t] EXCEPT !.stage = "build"]
                   ELSE [call[t] EXCEPT !.stage = "done", !.answer = o]
  OBVIOUS
<1>8. /\ c \in CallType /\ c.source = call[t].source /\ c.key = k
      /\ (o = Nothing => c.stage = "build") /\ (o # Nothing => c.stage = "done" /\ c.answer = o)
  <2> HIDE DEF o, k
  <2> QED BY <1>1, <1>3, <1>7 DEF CallType, k
<1>9. call' = [call EXCEPT ![t] = c]
  <2>1. CASE o = Nothing
    BY <2>1, <1>7 DEF Lookup, IInv
  <2>2. CASE o # Nothing
    BY <2>2, <1>7 DEF Lookup, IInv, Answer
  <2> QED BY <2>1, <2>2
<1> HIDE DEF o
<1>10. CallSound(c)' /\ CallShares(c)'
  BY <1>1, <1>2, <1>3, <1>8, ParsedAssumption
     DEF CallSound, CallShares, AnsweredAlike, Memoized, Read
<1>11. ASSUME NEW u \in Threads PROVE CallSound(call[u])' /\ CallShares(call[u])'
  <2>1. CASE u = t
    BY <2>1, <1>9, <1>10 DEF IInv
  <2>2. CASE u # t
    <3>1. call'[u] = call[u]
      BY <2>2, <1>9 DEF IInv
    <3> QED BY <3>1, <1>2, OthersSound
  <2> QED BY <2>1, <2>2
<1>12. call' \in [Threads -> CallType]
  BY <1>8, <1>9 DEF IInv
<1> QED BY <1>5, <1>6, <1>11, <1>12 DEF IInv

\* What a thread is about to keep.
LEMMA StoredObject ==
  ASSUME IInv, NEW t \in Threads, call[t].stage = "store"
  PROVE  /\ call[t] \in CallType /\ call[t].source \in Sources /\ call[t].key \in Keys
         /\ Memoized(call[t]) /\ bound # None
         /\ call[t].built \in Values /\ call[t].built = Parsed[call[t].source][call[t].key]
         /\ Built(t) \in ObjectType /\ Built(t) # Nothing /\ Built(t).value = call[t].built
         /\ Built(t) \in [value : Values \cup {Failed, None}, arc : Threads \cup {None}]
<1>1. /\ call[t] \in CallType /\ call[t].source \in Sources /\ call[t].key \in Keys
      /\ Memoized(call[t]) /\ bound # None
      /\ call[t].built \in Values /\ call[t].built = Parsed[call[t].source][call[t].key]
  BY DEF IInv, CallSound, Memoized
<1>2. Built(t) = [value |-> call[t].built, arc |-> t]
  BY DEF Built, Object
<1>3. Nothing = [value |-> None, arc |-> None]
  BY DEF Nothing, Object
<1>4. Built(t) # Nothing
  BY <1>1, <1>2, <1>3, ParsedAssumption
<1> QED BY <1>1, <1>2, <1>4 DEF ObjectType

\* A thread that is answered with an object its source would give.
LEMMA AnswerStep ==
  ASSUME IInv, NEW t \in Threads, UNCHANGED bound, call[t].stage = "store",
         NEW o \in [value : Values \cup {Failed, None}, arc : Threads \cup {None}],
         o.value = call[t].built, Answer(t, o)
  PROVE  /\ call' \in [Threads -> CallType]
         /\ call'[t].stage = "done" /\ call'[t].key = call[t].key /\ call'[t].answer = o
         /\ CallSound(call[t])'
         /\ \A u \in Threads \ {t} : call'[u] = call[u]
<1> PICK c : c = [call[t] EXCEPT !.stage = "done", !.answer = o]
  OBVIOUS
<1>1. /\ call[t] \in CallType /\ call[t].source \in Sources /\ call[t].key \in Keys
      /\ bound # None /\ call[t].built = Parsed[call[t].source][call[t].key]
  BY StoredObject
<1>2. /\ c \in CallType /\ c.stage = "done" /\ c.source = call[t].source /\ c.key = call[t].key
      /\ c.answer = o
  BY <1>1 DEF CallType
<1>3. call' = [call EXCEPT ![t] = c]
  BY DEF Answer, IInv
<1>4. call'[t] = c /\ \A u \in Threads \ {t} : call'[u] = call[u]
  BY <1>3 DEF IInv
<1>5. CallSound(call[t])'
  BY <1>1, <1>2, <1>4 DEF CallSound
<1> QED BY <1>2, <1>3, <1>4, <1>5 DEF IInv

\* StoreSlot keeps the invariant.
LEMMA StoreSlotStep ==
  ASSUME IInv, NEW t \in Threads, StoreSlot(t)
  PROVE  IInv'
<1> DEFINE k == call[t].key
<1>1. /\ call[t].stage = "store" /\ k \in SlotKeys /\ slots' = [slots EXCEPT ![k] = Built(t)]
      /\ Answer(t, Built(t)) /\ UNCHANGED <<bound, headers, records, expanded>>
  BY DEF StoreSlot
<1>2. /\ Built(t) \in ObjectType /\ Built(t).value = call[t].built
      /\ Built(t) \in [value : Values \cup {Failed, None}, arc : Threads \cup {None}]
      /\ Memoized(call[t]) /\ bound # None
      /\ call[t].built = Parsed[call[t].source][k]
  BY <1>1, StoredObject
<1>3. /\ call' \in [Threads -> CallType]
      /\ call'[t].stage = "done" /\ call'[t].key = k
      /\ CallSound(call[t])' /\ \A u \in Threads \ {t} : call'[u] = call[u]
  BY <1>1, <1>2, AnswerStep
<1>4. CallShares(call[t])'
  BY <1>1, <1>3, KeysAssumption DEF CallShares
<1>5. ASSUME NEW u \in Threads PROVE CallSound(call[u])' /\ CallShares(call[u])'
  BY <1>1, <1>3, <1>4, OthersSound
<1>6. MemoTyped'
  BY <1>1, <1>2 DEF IInv, MemoTyped
<1>7. MemoFaithful'
  <2> SUFFICES ASSUME NEW s \in Sources, Identity[s] # None, Identity[s] = bound
               PROVE  Faithful(slots', SlotKeys, s)
    BY <1>1 DEF IInv, MemoFaithful
  <2>1. Parsed[s] = Parsed[call[t].source]
    BY <1>1, <1>2, SameReads
  <2>2. Faithful(slots, SlotKeys, s)
    BY DEF IInv, MemoFaithful
  <2> QED BY <1>1, <1>2, <2>1, <2>2 DEF IInv, MemoTyped
<1> QED BY <1>1, <1>2, <1>3, <1>5, <1>6, <1>7 DEF IInv

\* StoreRecords keeps the invariant.
LEMMA StoreRecordsStep ==
  ASSUME IInv, NEW t \in Threads, StoreRecords(t)
  PROVE  IInv'
<1> DEFINE k == call[t].key
<1>1. /\ call[t].stage = "store" /\ k \in RecordKeys /\ IndexOf[k] \in Indexes
      /\ records' = [records EXCEPT ![IndexOf[k]] = Built(t)]
      /\ Answer(t, Built(t)) /\ UNCHANGED <<bound, slots, headers, expanded>>
  BY KeysAssumption DEF StoreRecords
<1>2. /\ Built(t) \in ObjectType /\ Built(t).value = call[t].built
      /\ Built(t) \in [value : Values \cup {Failed, None}, arc : Threads \cup {None}]
      /\ Memoized(call[t]) /\ bound # None
      /\ call[t].built = Parsed[call[t].source][k]
  BY <1>1, StoredObject
<1>3. /\ call' \in [Threads -> CallType]
      /\ call'[t].stage = "done" /\ call'[t].key = k
      /\ CallSound(call[t])' /\ \A u \in Threads \ {t} : call'[u] = call[u]
  BY <1>1, <1>2, AnswerStep
<1>4. CallShares(call[t])'
  BY <1>1, <1>3, KeysAssumption DEF CallShares
<1>5. ASSUME NEW u \in Threads PROVE CallSound(call[u])' /\ CallShares(call[u])'
  BY <1>1, <1>3, <1>4, OthersSound
<1>6. MemoTyped'
  BY <1>1, <1>2 DEF IInv, MemoTyped
<1>7. MemoFaithful'
  <2> SUFFICES ASSUME NEW s \in Sources, Identity[s] # None, Identity[s] = bound
               PROVE  RecordsFaithful(records', s)
    BY <1>1 DEF IInv, MemoFaithful
  <2>1. Parsed[s] = Parsed[call[t].source]
    BY <1>1, <1>2, SameReads
  <2>2. RecordsFaithful(records, s) /\ records \in [Indexes -> ObjectType]
    BY DEF IInv, MemoFaithful, MemoTyped
  <2>3. ReadAt(s, IndexOf[k], Built(t).value)
    BY <1>1, <1>2, <2>1 DEF ReadAt
  <2> QED BY <1>1, <2>2, <2>3 DEF RecordsFaithful
<1> QED BY <1>1, <1>2, <1>3, <1>5, <1>6, <1>7 DEF IInv

\* KeepChunk keeps the invariant.
LEMMA KeepChunkStep ==
  ASSUME IInv, NEW t \in Threads, KeepChunk(t)
  PROVE  IInv'
<1> DEFINE k == call[t].key
<1>1. /\ call[t].stage = "store" /\ k \in ChunkKeys
      /\ expanded' = Keep(expanded, k, call[t].built)
      /\ Answer(t, Built(t)) /\ UNCHANGED <<bound, slots, headers, records>>
  BY DEF KeepChunk
<1>2. /\ call[t].built \in Values /\ Built(t).value = call[t].built
      /\ Built(t) \in [value : Values \cup {Failed, None}, arc : Threads \cup {None}]
      /\ Memoized(call[t]) /\ bound # None
      /\ call[t].built = Parsed[call[t].source][k]
  BY <1>1, StoredObject
<1>3. /\ call' \in [Threads -> CallType]
      /\ call'[t].stage = "done" /\ call'[t].key = k
      /\ CallSound(call[t])' /\ \A u \in Threads \ {t} : call'[u] = call[u]
  BY <1>1, <1>2, AnswerStep
<1>4. CallShares(call[t])'
  BY <1>1, <1>3, KeysAssumption DEF CallShares
<1>5. ASSUME NEW u \in Threads PROVE CallSound(call[u])' /\ CallShares(call[u])'
  BY <1>1, <1>3, <1>4, OthersSound
<1>6. StoreInv(expanded) /\ Accounted(expanded)
  BY DEF IInv, MemoTyped
<1>7. /\ StoreInv(expanded') /\ Accounted(expanded')
      /\ KeptKeys(expanded') \subseteq KeptKeys(expanded) \cup {k}
      /\ \A j \in KeptKeys(expanded') :
           expanded'.by_key[j].chunk =
             IF j = k /\ Kept(call[t].built) THEN call[t].built ELSE expanded.by_key[j].chunk
  <2> DEFINE chunk == call[t].built
             after == Keep(expanded, k, chunk)
  <2>1. /\ StoreInv(after) /\ Accounted(after)
        /\ KeptKeys(after) \subseteq KeptKeys(expanded) \cup {k}
        /\ \A j \in KeptKeys(after) :
             after.by_key[j].chunk =
               IF j = k /\ Kept(chunk) THEN chunk ELSE expanded.by_key[j].chunk
    <3> HIDE DEF chunk, k
    <3> QED BY <1>1, <1>2, <1>6, KeepInv DEF chunk
  <2>2. expanded' = after
    BY <1>1
  <2> HIDE DEF after
  <2> QED BY <2>1, <2>2
<1>8. MemoTyped'
  BY <1>1, <1>7 DEF IInv, MemoTyped
<1>9. ~Kept(call[t].built) => expanded' = expanded
  BY <1>1 DEF Keep
<1>10. MemoFaithful'
  <2> SUFFICES ASSUME NEW s \in Sources, Identity[s] # None, Identity[s] = bound,
                      NEW j \in KeptKeys(expanded')
               PROVE  expanded'.by_key[j].chunk = Parsed[s][j]
    BY <1>1 DEF IInv, MemoFaithful
  <2>1. Parsed[s] = Parsed[call[t].source]
    BY <1>1, <1>2, SameReads
  <2>2. \A i \in KeptKeys(expanded) : expanded.by_key[i].chunk = Parsed[s][i]
    BY DEF IInv, MemoFaithful
  <2>3. CASE ~Kept(call[t].built)
    BY <2>2, <2>3, <1>9
  <2>4. CASE Kept(call[t].built)
    BY <1>2, <1>7, <2>1, <2>2, <2>4
  <2> QED BY <2>3, <2>4
<1> QED BY <1>1, <1>2, <1>3, <1>5, <1>8, <1>10 DEF IInv

\* What a header is charged is a natural.
LEMMA HeaderSizesNatural ==
  ASSUME NEW store, store.by_offset \in [HeaderKeys -> ObjectType]
  PROVE  Naturals(HeaderSizes(store), KeptHeaders(store))
<1>1. ASSUME NEW k \in KeptHeaders(store) PROVE Size[store.by_offset[k].value] \in Nat
  BY ParsedAssumption DEF KeptHeaders, ObjectType
<1> QED BY <1>1 DEF Naturals, HeaderSizes

\* The winner's copy is answered, or this one is kept if there is room.
LEMMA StoreHeaderStep ==
  ASSUME IInv, NEW t \in Threads, StoreHeader(t)
  PROVE  IInv'
<1> DEFINE k == call[t].key
           held == headers.by_offset[k]
           size == Size[call[t].built]
           keeps == held = Nothing /\ headers.bytes + size <= HeaderBudget
           o == IF held = Nothing THEN Built(t) ELSE held
<1>1. /\ call[t].stage = "store" /\ k \in HeaderKeys
      /\ headers' = IF keeps THEN [by_offset |-> [headers.by_offset EXCEPT ![k] = Built(t)],
                                   bytes |-> headers.bytes + size]
                    ELSE headers
      /\ Answer(t, o) /\ UNCHANGED <<bound, slots, records, expanded>>
  BY DEF StoreHeader
<1>2. /\ call[t].source \in Sources /\ call[t].built \in Values
      /\ Built(t) \in ObjectType /\ Built(t).value = call[t].built /\ Built(t) # Nothing
      /\ Built(t) \in [value : Values \cup {Failed, None}, arc : Threads \cup {None}]
      /\ Memoized(call[t]) /\ bound # None
      /\ call[t].built = Parsed[call[t].source][k]
  BY <1>1, StoredObject
<1>3. /\ headers \in [by_offset : [HeaderKeys -> ObjectType], bytes : Nat]
      /\ headers.bytes <= HeaderBudget /\ size \in Nat
      /\ headers.by_offset \in [HeaderKeys -> ObjectType] /\ headers.bytes \in Nat
  BY <1>2, ParsedAssumption DEF IInv, MemoTyped
<1>4. \A s \in Sources : Identity[s] # None /\ Identity[s] = bound =>
        Faithful(headers.by_offset, HeaderKeys, s)
  BY DEF IInv, MemoFaithful
<1>5. held # Nothing => held.value = call[t].built
  BY <1>1, <1>2, <1>4 DEF Memoized
<1>6. o.value = call[t].built
      /\ o \in [value : Values \cup {Failed, None}, arc : Threads \cup {None}]
  BY <1>1, <1>2, <1>3, <1>5 DEF ObjectType, Nothing, Object
<1>7. /\ call' \in [Threads -> CallType]
      /\ call'[t].stage = "done" /\ call'[t].key = k /\ call'[t].answer = o
      /\ CallSound(call[t])' /\ \A u \in Threads \ {t} : call'[u] = call[u]
  <2> HIDE DEF o
  <2> QED BY <1>1, <1>6, AnswerStep
<1> HIDE DEF size
<1>8. /\ headers' \in [by_offset : [HeaderKeys -> ObjectType], bytes : Nat]
      /\ headers'.bytes <= HeaderBudget /\ headers'.bytes >= headers.bytes
      /\ (keeps => headers'.by_offset[k] = Built(t))
      /\ (~keeps => headers' = headers)
      /\ \A j \in HeaderKeys \ {k} : headers'.by_offset[j] = headers.by_offset[j]
  <2>1. CASE keeps
    <3>1. /\ headers'.by_offset = [headers.by_offset EXCEPT ![k] = Built(t)]
          /\ headers'.bytes = headers.bytes + size
          /\ headers' = [by_offset |-> headers'.by_offset, bytes |-> headers'.bytes]
      BY <1>1, <2>1
    <3>2. headers'.by_offset \in [HeaderKeys -> ObjectType]
      BY <3>1, <1>2, <1>3
    <3>3. headers'.bytes \in Nat /\ headers'.bytes <= HeaderBudget /\ headers'.bytes >= headers.bytes
      BY <3>1, <1>3, <2>1, LimitsAssumption
    <3>4. headers'.by_offset[k] = Built(t)
          /\ \A j \in HeaderKeys \ {k} : headers'.by_offset[j] = headers.by_offset[j]
      BY <3>1, <1>1, <1>3
    <3> QED BY <2>1, <3>1, <3>2, <3>3, <3>4
  <2>2. CASE ~keeps
    BY <1>1, <1>3, <2>2
  <2> QED BY <2>1, <2>2
<1>9. MemoTyped'
  <2>1. HeadersCharged(headers')
    <3>1. HeadersCharged(headers)
      BY DEF IInv, MemoTyped
    <3>2. CASE keeps
      <4>1. KeptHeaders(headers') = KeptHeaders(headers) \cup {k} /\ k \notin KeptHeaders(headers)
        BY <3>2, <1>1, <1>2, <1>8 DEF KeptHeaders
      <4>2. Naturals(HeaderSizes(headers'), KeptHeaders(headers'))
        BY <1>8, HeaderSizesNatural
      <4>3. Sum(HeaderSizes(headers), KeptHeaders(headers))
              = Sum(HeaderSizes(headers'), KeptHeaders(headers))
        <5>1. \A j \in KeptHeaders(headers) : HeaderSizes(headers)[j] = HeaderSizes(headers')[j]
          BY <4>1, <1>8 DEF HeaderSizes, KeptHeaders
        <5>2. Naturals(HeaderSizes(headers), KeptHeaders(headers))
          BY <1>3, HeaderSizesNatural
        <5> QED BY <3>1, <5>1, <5>2, SumSame DEF HeadersCharged
      <4>4. HeaderSizes(headers')[k] = size
        BY <3>2, <4>1, <1>2, <1>8 DEF HeaderSizes, size
      <4>5. headers'.bytes = headers.bytes + size
        BY <1>1, <3>2
      <4>6. Sum(HeaderSizes(headers'), KeptHeaders(headers')) = size + headers.bytes
        BY <3>1, <4>1, <4>2, <4>3, <4>4, SumAdd DEF HeadersCharged
      <4>7. IsFiniteSet(KeptHeaders(headers'))
        BY <3>1, <4>1, FS_AddElement DEF HeadersCharged
      <4> QED BY <1>3, <4>5, <4>6, <4>7 DEF HeadersCharged
    <3>3. CASE ~keeps
      BY <3>1, <3>3, <1>8
    <3> QED BY <3>2, <3>3
  <2> QED BY <1>1, <1>8, <2>1 DEF IInv, MemoTyped
<1>10. MemoFaithful'
  <2> SUFFICES ASSUME NEW s \in Sources, Identity[s] # None, Identity[s] = bound
               PROVE  Faithful(headers'.by_offset, HeaderKeys, s)
    BY <1>1 DEF IInv, MemoFaithful
  <2>1. Parsed[s] = Parsed[call[t].source]
    BY <1>1, <1>2, SameReads
  <2>2. Faithful(headers.by_offset, HeaderKeys, s)
    BY <1>4
  <2> QED BY <1>1, <1>2, <1>8, <2>1, <2>2
<1>11. CallShares(call[t])'
  <2>1. CASE keeps
    BY <2>1, <1>7, <1>8 DEF CallShares
  <2>2. CASE held # Nothing
    BY <2>2, <1>7, <1>8 DEF CallShares
  <2>3. CASE ~keeps /\ held = Nothing
    <3>1. headers'.by_offset[k] = Nothing /\ headers'.bytes = headers.bytes
      BY <2>3, <1>8
    <3>2. headers.bytes + size > HeaderBudget
      BY <2>3, <1>3, LimitsAssumption
    <3>3. Size[o.value] = size
      BY <1>6 DEF size
    <3> QED BY <3>1, <3>2, <3>3, <1>7 DEF CallShares
  <2> QED BY <2>1, <2>2, <2>3
<1>12. ASSUME NEW u \in Threads, u # t PROVE CallSound(call[u])' /\ CallShares(call[u])'
  <2>1. CallSound(call[u]) /\ CallShares(call[u]) /\ call'[u] = call[u]
    BY <1>7, <1>12 DEF IInv
  <2>2. CallSound(call[u])'
    BY <2>1, <1>1 DEF CallSound, AnsweredAlike, Memoized
  <2>3. CallShares(call[u])'
    <3> SUFFICES ASSUME call[u].stage = "done", call[u].key \in HeaderKeys, Memoized(call[u]),
                        call[u].answer.value # Failed
                 PROVE  \/ headers'.by_offset[call[u].key] = call[u].answer
                        \/ /\ headers'.by_offset[call[u].key] = Nothing
                           /\ headers'.bytes + Size[call[u].answer.value] > HeaderBudget
      BY <2>1, <1>1 DEF CallShares, Memoized
    <3> DEFINE theirs == Size[call[u].answer.value]
    <3>1. call[u].source \in Sources /\ call[u].answer.value = Parsed[call[u].source][call[u].key]
      BY <2>1, KeysAssumption DEF CallSound, AnsweredAlike
    <3>2. theirs \in Nat
      BY <3>1, ParsedAssumption DEF Keys
    <3>3. CASE call[u].key # k
      BY <3>3, <3>2, <2>1, <1>3, <1>8, LimitsAssumption DEF CallShares
    <3>4. CASE call[u].key = k
      <4>1. Parsed[call[u].source] = Parsed[call[t].source]
        BY <1>1, <1>2, <3>1, SameReads DEF Memoized
      <4>2. theirs = size
        BY <4>1, <3>1, <3>4, <1>2 DEF size
      <4>3. call[u].answer # Nothing
        BY <3>1, <2>1, ParsedAssumption DEF CallSound, Nothing, Object
      <4>4. held = call[u].answer \/ headers.bytes + size > HeaderBudget
        BY <2>1, <3>4, <4>2 DEF CallShares
      <4>5. ~keeps
        BY <4>3, <4>4, <1>3, LimitsAssumption
      <4> QED BY <4>5, <2>1, <1>8 DEF CallShares
    <3> QED BY <3>3, <3>4
  <2> QED BY <2>2, <2>3
<1>13. \A u \in Threads : CallSound(call[u])' /\ CallShares(call[u])'
  BY <1>7, <1>11, <1>12
<1> QED BY <1>1, <1>2, <1>7, <1>9, <1>10, <1>13 DEF IInv

-----------------------------------------------------------------------------
(* The theorems                                                            *)

\* Every step keeps the invariant.
LEMMA NextInvariant == IInv /\ [Next]_vars => IInv'
<1> SUFFICES ASSUME IInv, [Next]_vars PROVE IInv'
  OBVIOUS
<1>1. CASE UNCHANGED vars
  BY <1>1 DEF IInv, vars, MemoTyped, MemoEmpty, MemoFaithful, CallSound, CallShares, AnsweredAlike,
              Memoized
<1>2. CASE Next
  <2> PICK t \in Threads :
        \/ \E s \in Sources, k \in Keys : Call(t, s, k)
        \/ ReadBare(t) \/ Lookup(t) \/ Build(t)
        \/ StoreHeader(t) \/ StoreSlot(t) \/ StoreRecords(t) \/ KeepChunk(t)
        \/ Return(t)
    BY <1>2 DEF Next
  <2> QED BY CallStep, ReadBareStep, LookupStep, BuildStep, StoreHeaderStep, StoreSlotStep,
             StoreRecordsStep, KeepChunkStep, ReturnStep
<1> QED BY <1>1, <1>2

\* The invariant always holds.
LEMMA Invariance == Spec => []IInv
BY InitInvariant, NextInvariant, PTL DEF Spec

\* Every variable keeps its type, for every number of threads, sources and keys.
THEOREM TypeCorrect == Spec => []TypeOK
<1>1. IInv => TypeOK
  BY DEF IInv, TypeOK, MemoTyped, StoreInv
<1> QED BY <1>1, Invariance, PTL

\* Whatever went through the memo, a call is answered what its own source holds at
\* that key, or, of chunk records, as a dataset reads them that names the same
\* index (cache.rs:18-23, 198-201).
THEOREM AnswersAlwaysTheSources == Spec => []AnswersAreTheSources
<1>1. IInv => AnswersAreTheSources
  BY DEF IInv, AnswersAreTheSources, CallSound, AnsweredAlike, ReadAt, Memoized, Read
<1> QED BY <1>1, Invariance, PTL

\* A hit and a miss answer the same, provided that the datasets which name one
\* chunk index read the same records of it (cache.rs:25-27).
THEOREM HitsAreAlwaysMisses ==
  ASSUME DatasetsAgree
  PROVE  Spec => []HitsAreMisses
<1>1. IInv => HitsAreMisses
  BY DatasetsAgree DEF DatasetsAgree, IInv, HitsAreMisses, CallSound, AnsweredAlike, ReadAt, Read
<1> QED BY <1>1, Invariance, PTL

\* Threads that raced to one header share one copy of it (cache.rs:273-277).
THEOREM HeadersAlwaysShared == Spec => []HeadersAreShared
<1>1. IInv => HeadersAreShared
  BY DEF IInv, HeadersAreShared, CallShares, Memoized
<1> QED BY <1>1, Invariance, PTL

\* The chunk memo's use order names each chunk it keeps exactly once, at the tick
\* it was last used (cache.rs:99-106).
THEOREM UseOrderAlwaysTheKeptKeys == Spec => []UseOrderIsTheKeptKeys(expanded)
<1>1. IInv => UseOrderIsTheKeptKeys(expanded)
  BY DEF IInv, MemoTyped, StoreInv
<1> QED BY <1>1, Invariance, PTL

\* The header memo's bytes are those of the headers it keeps, within its budget,
\* also when threads race to parse one header (cache.rs:168-171).
THEOREM HeaderBytesAlwaysAccounted == Spec => []HeaderBytesAccounted
<1>1. IInv => HeaderBytesAccounted
  BY DEF IInv, MemoTyped, HeadersCharged, HeaderBytesAccounted, Sum
<1> QED BY <1>1, Invariance, PTL

\* The chunk memo charges what it keeps, stays within both limits, and its use
\* order names each chunk it keeps exactly once (cache.rs:99-106).
THEOREM ChunkMemoAlwaysCoherent == Spec => []ChunkMemoCoherent
<1>1. IInv => ChunkMemoCoherent
  BY DEF IInv, MemoTyped, StoreInv, Accounted, Charged, ChargedWithinLimits, ChunkMemoCoherent, Sum
<1> QED BY <1>1, Invariance, PTL

\* A step evicts only what was used before all that stays, and no more than the
\* limits ask (cache.rs:133-135, 150-158).
LEMMA EvictionStep == IInv /\ [Next]_vars => EvictsOldest(expanded, expanded')
<1> SUFFICES ASSUME IInv, [Next]_vars PROVE EvictsOldest(expanded, expanded')
  OBVIOUS
<1>1. StoreInv(expanded) /\ Accounted(expanded) /\ call \in [Threads -> CallType]
  BY DEF IInv, MemoTyped
<1>2. ASSUME NEW k \in ChunkKeys, expanded' = Get(expanded, k)
      PROVE  EvictsOldest(expanded, expanded')
  <2>1. KeptKeys(expanded') = KeptKeys(expanded)
    BY <1>1, <1>2, GetInv
  <2> QED BY <2>1 DEF EvictsOldest
<1>3. ASSUME expanded' = expanded PROVE EvictsOldest(expanded, expanded')
  BY <1>3 DEF EvictsOldest
<1>4. ASSUME NEW t \in Threads, KeepChunk(t) PROVE EvictsOldest(expanded, expanded')
  <2>1. /\ call[t].stage = "store" /\ call[t].key \in ChunkKeys
        /\ expanded' = Keep(expanded, call[t].key, call[t].built)
    BY <1>4 DEF KeepChunk
  <2>2. call[t].built \in Values
    BY <2>1, StoredObject
  <2> QED BY <1>1, <2>1, <2>2, KeepInv
<1>5. ASSUME NEW t \in Threads, Lookup(t) PROVE EvictsOldest(expanded, expanded')
  BY <1>2, <1>3, <1>5 DEF Lookup
<1>6. CASE UNCHANGED vars
  BY <1>3, <1>6 DEF vars
<1>7. CASE Next
  <2> PICK t \in Threads :
        \/ \E s \in Sources, k \in Keys : Call(t, s, k)
        \/ ReadBare(t) \/ Lookup(t) \/ Build(t)
        \/ StoreHeader(t) \/ StoreSlot(t) \/ StoreRecords(t) \/ KeepChunk(t)
        \/ Return(t)
    BY <1>7 DEF Next
  <2> QED BY <1>3, <1>4, <1>5
        DEF Call, ReadBare, Build, StoreHeader, StoreSlot, StoreRecords, Return, memo
<1> QED BY <1>6, <1>7

\* The chunk memo always evicts the least recently used, and no more than it must.
THEOREM AlwaysEvictsLeastRecentlyUsed == Spec => EvictsLeastRecentlyUsed
<1>1. IInv /\ [Next]_vars => EvictsOldest(expanded, expanded')
  BY EvictionStep
<1> QED BY <1>1, Invariance, PTL DEF Spec, EvictsLeastRecentlyUsed
=============================================================================
