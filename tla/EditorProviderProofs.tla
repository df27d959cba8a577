------------------------ MODULE EditorProviderProofs ------------------------
(***************************************************************************)
(* Theorems about EditorProvider, for every value of its constants: its    *)
(* types, that its leases record exactly what its state refers to, and     *)
(* that it implements HandleLifetime.                                      *)
(*                                                                         *)
(* The argument.  LeasesMatchReferences is not inductive: a handler moves  *)
(* several references one after the other, each with its own lease         *)
(* operation, and reads handles of the files it has typed only if they are *)
(* open.  Sound, the part of the inductive invariant about handles, is     *)
(* stated of any host state, gates and exports, not of the variables, so   *)
(* that a lemma for each operation on one reference composes into the      *)
(* handlers that perform several.                                          *)
(***************************************************************************)
EXTENDS EditorProvider, FiniteSetTheorems, TLAPS

-----------------------------------------------------------------------------
(* The lease operators, for any set of handles and holders.                *)
(*                                                                         *)
(* `ref` is what each holder refers to, handle or None: the owner of the   *)
(* lease state keeps it (a map entry, a gate, an export).  Accounted says  *)
(* that the leases record exactly that, and that of the handles opened so  *)
(* far, 1..k, the closed ones are those nothing refers to.  Each lemma     *)
(* takes one lease operation with the change of `ref` it stands beside.    *)

Accounted(l, N, Holder, k, ref) ==
  /\ l \in LeaseState(1..N, Holder)
  /\ k \in 0..N
  /\ \A o \in Holder : ref[o] = None \/ ref[o] \in 1..k
  /\ \A h \in 1..N, o \in Holder : o \in l.holders[h] <=> ref[o] = h
  /\ l.closed \subseteq 1..k
  /\ \A h \in 1..k : h \notin l.closed <=> \E o \in Holder : ref[o] = h

\* Only holder o's reference changes, to h.
Redirects(ref, new, Holder, o, h) ==
  /\ new[o] = h
  /\ \A q \in Holder : q # o => new[q] = ref[q]

\* A new holder of an open handle.
LEMMA HoldAccounted ==
  ASSUME NEW N \in Nat, None \notin Nat, NEW Holder, NEW l, NEW k, NEW ref, NEW new,
         NEW o \in Holder, NEW h \in 1..k,
         Accounted(l, N, Holder, k, ref), ref[o] = None, h \notin l.closed,
         Redirects(ref, new, Holder, o, h)
  PROVE  Accounted(Hold(l, h, o), N, Holder, k, new) /\ Hold(l, h, o).closed = l.closed
<1> DEFINE m == Hold(l, h, o)
<1>1. l \in LeaseState(1..N, Holder) /\ k \in 0..N /\ h \in 1..N
  BY DEF Accounted
<1>2. /\ m \in LeaseState(1..N, Holder)
      /\ m.closed = l.closed
      /\ \A g \in 1..N : m.holders[g] = IF g = h THEN l.holders[g] \cup {o} ELSE l.holders[g]
  BY <1>1 DEF Hold, LeaseState
<1> HIDE DEF m
<1>3. ASSUME NEW g \in 1..N, NEW q \in Holder PROVE q \in m.holders[g] <=> new[q] = g
  <2>1. q \in l.holders[g] <=> ref[q] = g
    BY DEF Accounted
  <2>2. q \in m.holders[g] <=> ref[q] = g \/ (g = h /\ q = o)
    BY <1>2, <2>1
  <2>3. g # None
    OBVIOUS
  <2> QED BY <2>2, <2>3 DEF Redirects
<1>4. \A q \in Holder : new[q] = None \/ new[q] \in 1..k
  BY DEF Accounted, Redirects
<1>5. \A g \in 1..k : g \notin m.closed <=> \E q \in Holder : new[q] = g
  <2> SUFFICES ASSUME NEW g \in 1..k
               PROVE  g \notin m.closed <=> \E q \in Holder : new[q] = g
    OBVIOUS
  <2>1. g \notin l.closed <=> \E q \in Holder : ref[q] = g
    BY DEF Accounted
  <2>2. ASSUME NEW q \in Holder, ref[q] = g PROVE new[q] = g
    BY <2>2 DEF Redirects
  <2>3. ASSUME NEW q \in Holder, new[q] = g PROVE g \notin l.closed
    BY <2>1, <2>3 DEF Redirects
  <2> QED BY <1>2, <2>1, <2>2, <2>3
<1> QED BY <1>1, <1>2, <1>3, <1>4, <1>5 DEF Accounted, m

\* A holder lets go of what it refers to, which closes it if it was the last.
LEMMA ReleaseAccounted ==
  ASSUME NEW N \in Nat, None \notin Nat, NEW Holder, NEW l, NEW k, NEW ref, NEW new,
         NEW o \in Holder,
         Accounted(l, N, Holder, k, ref),
         Redirects(ref, new, Holder, o, None)
  PROVE  /\ Accounted(Release(l, ref[o], o), N, Holder, k, new)
         /\ l.closed \subseteq Release(l, ref[o], o).closed
<1> DEFINE h == ref[o]
           m == Release(l, h, o)
<1>0. l \in LeaseState(1..N, Holder) /\ k \in 0..N /\ (h = None \/ h \in 1..k)
  BY DEF Accounted
<1>1. CASE h = None
  <2>1. m = l
    BY <1>1 DEF Release
  <2>2. \A q \in Holder : new[q] = ref[q]
    BY <1>1 DEF Redirects
  <2> QED BY <2>1, <2>2 DEF Accounted
<1>2. CASE h # None
  <2>1. h \in 1..k /\ h \in 1..N /\ o \in l.holders[h]
    BY <1>0, <1>2 DEF Accounted
  <2>2. m = [holders |-> [l.holders EXCEPT ![h] = @ \ {o}],
             closed  |-> IF l.holders[h] = {o} THEN l.closed \cup {h} ELSE l.closed]
    BY <1>2, <2>1 DEF Release
  <2>3. /\ m \in LeaseState(1..N, Holder)
        /\ \A g \in 1..N : m.holders[g] = IF g = h THEN l.holders[g] \ {o} ELSE l.holders[g]
        /\ m.closed = IF l.holders[h] = {o} THEN l.closed \cup {h} ELSE l.closed
    <3>1. l.holders \in [1..N -> SUBSET Holder] /\ l.closed \subseteq 1..N
      BY <1>0 DEF LeaseState
    <3> HIDE DEF m, h
    <3>2. [l.holders EXCEPT ![h] = @ \ {o}] \in [1..N -> SUBSET Holder]
      BY <2>1, <3>1
    <3>3. (IF l.holders[h] = {o} THEN l.closed \cup {h} ELSE l.closed) \subseteq 1..N
      BY <2>1, <3>1
    <3>4. m \in LeaseState(1..N, Holder)
      BY <2>2, <3>2, <3>3 DEF LeaseState
    <3>5. m.holders = [l.holders EXCEPT ![h] = @ \ {o}]
      BY <2>2
    <3>6. \A g \in 1..N : m.holders[g] = IF g = h THEN l.holders[g] \ {o} ELSE l.holders[g]
      BY <2>1, <3>1, <3>5
    <3> QED BY <2>2, <3>4, <3>6
  <2>4. m.closed \subseteq 1..k /\ l.closed \subseteq m.closed
    BY <2>1, <2>3 DEF Accounted
  <2> HIDE DEF m, h
  <2>5. ASSUME NEW g \in 1..N, NEW q \in Holder PROVE q \in m.holders[g] <=> new[q] = g
    <3>1. q \in l.holders[g] <=> ref[q] = g
      BY DEF Accounted
    <3>2. q \in m.holders[g] <=> ref[q] = g /\ ~(g = h /\ q = o)
      BY <2>3, <3>1
    <3>3. g # None
      OBVIOUS
    <3> QED BY <3>2, <3>3 DEF Redirects, h
  <2>6. \A q \in Holder : new[q] = None \/ new[q] \in 1..k
    BY DEF Accounted, Redirects
  <2>7. ASSUME NEW g \in 1..k PROVE g \notin m.closed <=> \E q \in Holder : new[q] = g
    <3>1. g \in 1..N
      BY <1>0
    <3>2. g \notin l.closed <=> \E q \in Holder : ref[q] = g
      BY DEF Accounted
    <3>3. CASE g # h
      <4>1. \A q \in Holder : new[q] = g <=> ref[q] = g
        <5> TAKE q \in Holder
        <5>1. q \in m.holders[g] <=> q \in l.holders[g]
          BY <2>3, <3>1, <3>3
        <5> QED BY <2>5, <3>1, <5>1 DEF Accounted
      <4> QED BY <2>3, <3>2, <3>3, <4>1
    <3>4. CASE g = h
      <4>1. g \notin l.closed
        BY <2>1, <3>2, <3>4 DEF h
      <4>2. l.holders[h] = {o} <=> ~\E q \in Holder : new[q] = g
        <5>1. l.holders[h] \subseteq Holder
          BY <1>0, <2>1 DEF LeaseState
        <5>2. m.holders[g] = l.holders[h] \ {o}
          BY <2>3, <3>1, <3>4
        <5> QED BY <2>1, <2>5, <3>1, <5>1, <5>2
      <4> QED BY <2>3, <3>4, <4>1, <4>2
    <3> QED BY <3>3, <3>4
  <2> QED BY <1>0, <2>3, <2>4, <2>5, <2>6, <2>7 DEF Accounted, m, h
<1> QED BY <1>1, <1>2

\* A holder moves from what it refers to onto h, which is open, or the next
\* handle opened: kk counts h.
LEMMA ReplaceAccounted ==
  ASSUME NEW N \in Nat, None \notin Nat, NEW Holder, NEW l, NEW k, NEW ref, NEW new,
         NEW o \in Holder, NEW kk \in 0..N, NEW h \in 1..kk,
         Accounted(l, N, Holder, k, ref),
         (kk = k /\ h \notin l.closed) \/ (kk = k + 1 /\ h = kk),
         Redirects(ref, new, Holder, o, h)
  PROVE  /\ Accounted(Replace(l, ref[o], h, o), N, Holder, kk, new)
         /\ l.closed \subseteq Replace(l, ref[o], h, o).closed
<1> DEFINE old == ref[o]
           held == Hold(l, h, o)
           m == Replace(l, old, h, o)
<1>0. l \in LeaseState(1..N, Holder) /\ k \in 0..N /\ (old = None \/ old \in 1..k) /\ h \in 1..N
  BY DEF Accounted
<1>1. /\ held \in LeaseState(1..N, Holder)
      /\ held.closed = l.closed
      /\ \A g \in 1..N : held.holders[g] = IF g = h THEN l.holders[g] \cup {o} ELSE l.holders[g]
  BY <1>0 DEF Hold, LeaseState
<1>2. k \in Nat /\ kk \in Nat /\ k <= kk /\ kk <= N /\ l.closed \subseteq 1..k /\ h \notin l.closed
  BY <1>0 DEF Accounted
<1>3. \A q \in Holder : new[q] = None \/ new[q] \in 1..kk
  <2> TAKE q \in Holder
  <2>1. ref[q] = None \/ ref[q] \in 1..k
    BY DEF Accounted
  <2> QED BY <1>2, <2>1 DEF Redirects
<1>4. /\ m \in LeaseState(1..N, Holder)
      /\ \A g \in 1..N : m.holders[g] = IF g = h THEN l.holders[g] \cup {o}
                                        ELSE IF g = old THEN l.holders[g] \ {o} ELSE l.holders[g]
      /\ m.closed = IF old # None /\ old # h /\ l.holders[old] = {o}
                    THEN l.closed \cup {old} ELSE l.closed
  <2>1. CASE old = h \/ old = None
    <3>1. m = held
      BY <2>1 DEF Replace, Release
    <3>2. \A g \in 1..N : g = old => g = h
      BY <2>1
    <3> QED BY <1>1, <2>1, <3>1, <3>2
  <2>2. CASE old # h /\ old # None
    <3>1. old \in 1..k /\ old \in 1..N /\ o \in l.holders[old]
      BY <1>0, <2>2 DEF Accounted
    <3>2. held.holders[old] = l.holders[old]
      BY <1>1, <2>2, <3>1
    <3>3. m = [holders |-> [held.holders EXCEPT ![old] = @ \ {o}],
               closed  |-> IF held.holders[old] = {o} THEN held.closed \cup {old} ELSE held.closed]
      BY <2>2, <3>1, <3>2 DEF Replace, Release
    <3> HIDE DEF m, held
    <3>4. m \in LeaseState(1..N, Holder)
      BY <1>1, <3>1, <3>3 DEF LeaseState
    <3>5. \A g \in 1..N : m.holders[g] = IF g = old THEN held.holders[g] \ {o} ELSE held.holders[g]
      BY <1>1, <3>1, <3>3 DEF LeaseState
    <3>6. m.closed = IF l.holders[old] = {o} THEN l.closed \cup {old} ELSE l.closed
      BY <1>1, <3>2, <3>3
    <3> QED BY <1>1, <2>2, <3>4, <3>5, <3>6
  <2> QED BY <2>1, <2>2
<1> HIDE DEF m, held
<1>5. ASSUME NEW g \in 1..N, NEW q \in Holder PROVE q \in m.holders[g] <=> new[q] = g
  <2>1. q \in l.holders[g] <=> ref[q] = g
    BY DEF Accounted
  <2>2. CASE q # o
    BY <1>4, <2>1, <2>2 DEF Redirects
  <2>3. CASE q = o
    BY <1>4, <2>1, <2>3 DEF Redirects
  <2> QED BY <2>2, <2>3
<1>6. m.closed \subseteq 1..kk /\ l.closed \subseteq m.closed
  BY <1>0, <1>2, <1>4
<1>7. ASSUME NEW g \in 1..kk PROVE g \notin m.closed <=> \E q \in Holder : new[q] = g
  <2>1. g \in 1..N
    BY <1>2
  <2>2. CASE g = h
    BY <1>2, <1>4, <2>2 DEF Redirects
  <2>3. CASE g # h
    <3>1. g \in 1..k /\ (g \notin l.closed <=> \E q \in Holder : ref[q] = g)
      <4>1. g \in 1..k
        BY <1>2, <2>3
      <4> QED BY <4>1 DEF Accounted
    <3>2. CASE g = old
      <4>1. g \notin l.closed /\ g # None
        BY <3>1, <3>2
      <4>2. l.holders[g] = {o} <=> ~\E q \in Holder : new[q] = g
        <5>1. l.holders[g] \subseteq Holder /\ o \in l.holders[g]
          BY <1>0, <2>1, <3>2 DEF LeaseState, Accounted
        <5>2. m.holders[g] = l.holders[g] \ {o}
          BY <1>4, <2>1, <2>3, <3>2
        <5> QED BY <1>5, <2>1, <5>1, <5>2
      <4> QED BY <1>4, <2>3, <3>2, <4>1, <4>2
    <3>3. CASE g # old
      <4>1. \A q \in Holder : new[q] = g <=> ref[q] = g
        <5> TAKE q \in Holder
        <5>1. q \in m.holders[g] <=> q \in l.holders[g]
          BY <1>4, <2>1, <2>3, <3>3
        <5> QED BY <1>5, <2>1, <5>1 DEF Accounted
      <4> QED BY <1>4, <3>1, <3>3, <4>1
    <3> QED BY <3>2, <3>3
  <2> QED BY <2>2, <2>3
<1> QED BY <1>3, <1>4, <1>5, <1>6, <1>7 DEF Accounted, m

-----------------------------------------------------------------------------
(* Holders and what they refer to                                          *)

\* The holders are three disjoint families.
LEMMA HoldersByKind ==
  ASSUME NEW o \in Holders
  PROVE  \/ \E s \in Slots : o = MapHolder(s)
         \/ \E p \in Panels : o = GateHolder(p)
         \/ \E x \in Exports : o = ExportHolder(x)
BY DEF Holders

\* Two holders of one kind are the same only for the same map, panel or export.
LEMMA HoldersDiffer ==
  /\ \A s, t : MapHolder(s) = MapHolder(t) => s = t
  /\ \A p, q : GateHolder(p) = GateHolder(q) => p = q
  /\ \A x, y : ExportHolder(x) = ExportHolder(y) => x = y
  /\ \A s, p : MapHolder(s) # GateHolder(p)
  /\ \A s, x : MapHolder(s) # ExportHolder(x)
  /\ \A p, x : GateHolder(p) # ExportHolder(x)
BY DEF MapHolder, GateHolder, ExportHolder

\* What each holder's own state names.
LEMMA RefsAt ==
  ASSUME NEW hs, NEW g, NEW x
  PROVE  /\ \A s \in Slots : MapHolder(s) \in Holders /\ Refs(hs, g, x)[MapHolder(s)] = hs.map[s]
         /\ \A p \in Panels :
              GateHolder(p) \in Holders /\ Refs(hs, g, x)[GateHolder(p)] = g[p].handle
         /\ \A y \in Exports :
              ExportHolder(y) \in Holders /\ Refs(hs, g, x)[ExportHolder(y)] = x[y].handle
<1>1. ASSUME NEW s \in Slots
      PROVE  MapHolder(s) \in Holders /\ Refs(hs, g, x)[MapHolder(s)] = hs.map[s]
  <2>1. MapHolder(s) \in Holders /\ MapHolder(s)[1] = "map" /\ MapHolder(s)[2] = s
    BY DEF Holders, MapHolder
  <2> QED BY <2>1 DEF Refs
<1>2. ASSUME NEW p \in Panels
      PROVE  GateHolder(p) \in Holders /\ Refs(hs, g, x)[GateHolder(p)] = g[p].handle
  <2>1. GateHolder(p) \in Holders /\ GateHolder(p)[1] = "gate" /\ GateHolder(p)[2] = p
    BY DEF Holders, GateHolder
  <2> QED BY <2>1 DEF Refs
<1>3. ASSUME NEW y \in Exports
      PROVE  ExportHolder(y) \in Holders /\ Refs(hs, g, x)[ExportHolder(y)] = x[y].handle
  <2>1. ExportHolder(y) \in Holders /\ ExportHolder(y)[1] = "export" /\ ExportHolder(y)[2] = y
    BY DEF Holders, ExportHolder
  <2> QED BY <2>1 DEF Refs
<1> QED BY <1>1, <1>2, <1>3

\* Changing one entry, one gate or one export redirects one holder.
LEMMA MapRedirects ==
  ASSUME NEW hs, NEW hs2, NEW g, NEW x, NEW s \in Slots, NEW h, hs2.map[s] = h,
         \A t \in Slots : t # s => hs2.map[t] = hs.map[t]
  PROVE  Redirects(Refs(hs, g, x), Refs(hs2, g, x), Holders, MapHolder(s), h)
BY HoldersByKind, HoldersDiffer, RefsAt DEF Redirects

\* Changing one gate redirects that panel only.
LEMMA GateRedirects ==
  ASSUME NEW hs, NEW hs2, NEW g, NEW g2, NEW x, NEW p \in Panels, NEW h, g2[p].handle = h,
         hs2.map = hs.map,
         \A q \in Panels : q # p => g2[q].handle = g[q].handle
  PROVE  Redirects(Refs(hs, g, x), Refs(hs2, g2, x), Holders, GateHolder(p), h)
BY HoldersByKind, HoldersDiffer, RefsAt DEF Redirects

\* Changing one export redirects that export only.
LEMMA ExportRedirects ==
  ASSUME NEW hs, NEW hs2, NEW g, NEW x, NEW x2, NEW y \in Exports, NEW h, x2[y].handle = h,
         hs2.map = hs.map,
         \A z \in Exports : z # y => x2[z].handle = x[z].handle
  PROVE  Redirects(Refs(hs, g, x), Refs(hs2, g, x2), Holders, ExportHolder(y), h)
BY HoldersByKind, HoldersDiffer, RefsAt DEF Redirects

-----------------------------------------------------------------------------
(* Operations on one reference                                             *)

\* The handles part of the inductive invariant: the leases record what the maps,
\* gates and exports refer to, what was opened was opened on a file, and each map
\* holds handles of its own kind.
Filed(hs) == \A s \in Slots : hs.map[s] # None => SlotOf[hs.file[hs.map[s]]] = s
Sound(hs, g, x) ==
  /\ hs \in HostState /\ Filed(hs)
  /\ \A h \in 1..hs.opened : hs.file[h] \in Contents
  /\ Accounted(hs.leases, MaxHandles, Holders, hs.opened, Refs(hs, g, x))

\* No step opens a handle again, or a closed one.
Grows(hs, hs2) == hs.opened <= hs2.opened /\ hs.leases.closed \subseteq hs2.leases.closed

\* Two growths in a row are one.
LEMMA GrowsOn ==
  ASSUME NEW h1 \in HostState, NEW h2 \in HostState, NEW h3 \in HostState,
         Grows(h1, h2), Grows(h2, h3)
  PROVE  Grows(h1, h3)
BY BoundsAssumption DEF Grows, HostState

\* What is referred to is open, and was opened on a file.
LEMMA ReferredIsOpen ==
  ASSUME NEW hs, NEW g, NEW x, Sound(hs, g, x)
  PROVE  /\ \A s \in Slots : hs.map[s] # None =>
              /\ hs.map[s] \in 1..hs.opened /\ hs.map[s] \in Handles
              /\ hs.map[s] \notin hs.leases.closed /\ hs.file[hs.map[s]] \in Contents
         /\ \A p \in Panels : g[p].handle # None =>
              /\ g[p].handle \in 1..hs.opened /\ g[p].handle \in Handles
              /\ g[p].handle \notin hs.leases.closed /\ hs.file[g[p].handle] \in Contents
         /\ \A y \in Exports : x[y].handle # None =>
              /\ x[y].handle \in 1..hs.opened /\ x[y].handle \in Handles
              /\ x[y].handle \notin hs.leases.closed /\ hs.file[x[y].handle] \in Contents
<1>1. ASSUME NEW o \in Holders, Refs(hs, g, x)[o] # None
      PROVE  /\ Refs(hs, g, x)[o] \in 1..hs.opened /\ Refs(hs, g, x)[o] \in Handles
             /\ Refs(hs, g, x)[o] \notin hs.leases.closed
             /\ hs.file[Refs(hs, g, x)[o]] \in Contents
  <2>1. Refs(hs, g, x)[o] \in 1..hs.opened
    BY <1>1 DEF Sound, Accounted
  <2>2. hs.opened \in 0..MaxHandles
    BY DEF Sound, Accounted
  <2> QED BY <2>1, <2>2, BoundsAssumption DEF Sound, Accounted, Handles
<1> QED BY <1>1, RefsAt

\* The leases change for one holder o, whose reference moves to h, and perhaps
\* one handle is opened with it.
LEMMA ReplaceSound ==
  ASSUME NEW hs, NEW g, NEW x, NEW hs2, NEW g2, NEW x2, NEW o \in Holders, NEW h,
         Sound(hs, g, x), hs2 \in HostState, Filed(hs2),
         hs2.leases = Replace(hs.leases, Refs(hs, g, x)[o], h, o),
         \/ hs2.opened = hs.opened /\ h \in 1..hs.opened /\ h \notin hs.leases.closed
         \/ hs2.opened = hs.opened + 1 /\ h = hs2.opened,
         \A k \in 1..hs2.opened : hs2.file[k] \in Contents,
         Redirects(Refs(hs, g, x), Refs(hs2, g2, x2), Holders, o, h)
  PROVE  Sound(hs2, g2, x2) /\ Grows(hs, hs2)
<1>1. /\ hs.opened \in 0..MaxHandles /\ hs2.opened \in 0..MaxHandles
      /\ MaxHandles \in Nat /\ None \notin Nat
  BY BoundsAssumption, NoneAssumption DEF Sound, HostState
<1>2. Accounted(hs.leases, MaxHandles, Holders, hs.opened, Refs(hs, g, x))
  BY DEF Sound
<1>3. h \in 1..hs2.opened
  BY <1>1
<1>4. \/ hs2.opened = hs.opened /\ h \notin hs.leases.closed
      \/ hs2.opened = hs.opened + 1 /\ h = hs2.opened
  OBVIOUS
<1>5. /\ Accounted(hs2.leases, MaxHandles, Holders, hs2.opened, Refs(hs2, g2, x2))
      /\ hs.leases.closed \subseteq hs2.leases.closed
  <2> DEFINE l == hs.leases  k == hs.opened  kk == hs2.opened
             ref == Refs(hs, g, x)  new == Refs(hs2, g2, x2)
  <2>1. /\ Accounted(Replace(l, ref[o], h, o), MaxHandles, Holders, kk, new)
        /\ l.closed \subseteq Replace(l, ref[o], h, o).closed
    <3> HIDE DEF l, k, kk, ref, new
    <3>1. /\ Accounted(l, MaxHandles, Holders, k, ref)
          /\ (kk = k /\ h \notin l.closed) \/ (kk = k + 1 /\ h = kk)
          /\ Redirects(ref, new, Holders, o, h)
          /\ kk \in 0..MaxHandles /\ h \in 1..kk
      BY <1>1, <1>2, <1>3, <1>4 DEF l, k, kk, ref, new
    <3> QED BY <1>1, <3>1, ReplaceAccounted
  <2> QED BY <2>1
<1>6. hs.opened <= hs2.opened
  BY <1>1
<1> QED BY <1>5, <1>6 DEF Sound, Grows

\* Holder o lets go of what it refers to.
LEMMA ReleaseSound ==
  ASSUME NEW hs, NEW g, NEW x, NEW hs2, NEW g2, NEW x2, NEW o \in Holders,
         Sound(hs, g, x), hs2 \in HostState, Filed(hs2),
         hs2.leases = Release(hs.leases, Refs(hs, g, x)[o], o),
         hs2.opened = hs.opened, hs2.file = hs.file,
         Redirects(Refs(hs, g, x), Refs(hs2, g2, x2), Holders, o, None)
  PROVE  Sound(hs2, g2, x2) /\ Grows(hs, hs2)
<1>1. hs.opened \in 0..MaxHandles /\ MaxHandles \in Nat /\ None \notin Nat
  BY BoundsAssumption, NoneAssumption DEF Sound, HostState
<1> DEFINE l == hs.leases  k == hs.opened
           ref == Refs(hs, g, x)  new == Refs(hs2, g2, x2)
<1>2. Accounted(l, MaxHandles, Holders, k, ref) /\ Redirects(ref, new, Holders, o, None)
  BY DEF Sound
<1>3. /\ Accounted(Release(l, ref[o], o), MaxHandles, Holders, k, new)
      /\ l.closed \subseteq Release(l, ref[o], o).closed
  <2> HIDE DEF l, k, ref, new
  <2> QED BY <1>1, <1>2, ReleaseAccounted
<1> QED BY <1>1, <1>3 DEF Sound, Grows

\* Holder o, which refers to nothing, takes a lease on the open handle h.
LEMMA HoldSound ==
  ASSUME NEW hs, NEW g, NEW x, NEW hs2, NEW g2, NEW x2, NEW o \in Holders, NEW h,
         Sound(hs, g, x), hs2 \in HostState, Filed(hs2),
         Refs(hs, g, x)[o] = None, h \in 1..hs.opened, h \notin hs.leases.closed,
         hs2.leases = Hold(hs.leases, h, o),
         hs2.opened = hs.opened, hs2.file = hs.file,
         Redirects(Refs(hs, g, x), Refs(hs2, g2, x2), Holders, o, h)
  PROVE  Sound(hs2, g2, x2) /\ Grows(hs, hs2)
<1>1. hs.opened \in 0..MaxHandles /\ MaxHandles \in Nat /\ None \notin Nat
  BY BoundsAssumption, NoneAssumption DEF Sound, HostState
<1> DEFINE l == hs.leases  k == hs.opened
           ref == Refs(hs, g, x)  new == Refs(hs2, g2, x2)
<1>2. /\ Accounted(l, MaxHandles, Holders, k, ref) /\ Redirects(ref, new, Holders, o, h)
      /\ ref[o] = None /\ h \in 1..k /\ h \notin l.closed
  BY DEF Sound
<1>3. Accounted(Hold(l, h, o), MaxHandles, Holders, k, new) /\ Hold(l, h, o).closed = l.closed
  <2> HIDE DEF l, k, ref, new
  <2> QED BY <1>1, <1>2, HoldAccounted
<1> QED BY <1>1, <1>3 DEF Sound, Grows

\* Nothing any holder refers to changes.
LEMMA SameSound ==
  ASSUME NEW hs, NEW g, NEW x, NEW hs2, NEW g2, NEW x2,
         Sound(hs, g, x), hs2 = hs,
         \A p \in Panels : g2[p].handle = g[p].handle,
         \A y \in Exports : x2[y].handle = x[y].handle
  PROVE  Sound(hs2, g2, x2) /\ Grows(hs, hs2)
<1>1. \A o \in Holders : Refs(hs2, g2, x2)[o] = Refs(hs, g, x)[o]
  BY HoldersByKind, RefsAt
<1>2. Accounted(hs.leases, MaxHandles, Holders, hs.opened, Refs(hs2, g2, x2))
  BY <1>1 DEF Sound, Accounted
<1>3. hs.opened <= hs.opened
  BY BoundsAssumption DEF Sound, HostState
<1> QED BY <1>2, <1>3 DEF Sound, Grows

-----------------------------------------------------------------------------
(* Operations on the handle maps                                           *)

\* Opening a handle into a map keeps the handles sound, and the map has it.
LEMMA OpenIntoSound ==
  ASSUME NEW hs, NEW g, NEW x, NEW s \in Slots, NEW c \in Contents, NEW at \in Nat,
         Sound(hs, g, x), hs.opened < MaxHandles, SlotOf[c] = s
  PROVE  LET hs2 == OpenInto(hs, s, c, at) IN
         /\ Sound(hs2, g, x) /\ Grows(hs, hs2)
         /\ hs2.opened = hs.opened + 1 /\ hs2.map[s] = hs2.opened /\ hs2.file[hs2.opened] = c
         /\ \A t \in Slots : t # s => hs2.map[t] = hs.map[t]
<1> DEFINE n == hs.opened + 1
           o == MapHolder(s)
           ls == Replace(hs.leases, hs.map[s], n, o)
           hs2 == OpenInto(hs, s, c, at)
<1>1. /\ hs.opened \in 0..MaxHandles /\ MaxHandles \in Nat /\ n \in Handles
      /\ hs.map \in [Slots -> Handle] /\ hs.file \in [Handles -> Content]
      /\ hs.born \in [Handles -> Nat] /\ hs \in HostState
      /\ hs.leases \in LeaseState(Handles, Holders)
  BY BoundsAssumption DEF Sound, HostState, Handles
<1>2. o \in Holders /\ Refs(hs, g, x)[o] = hs.map[s]
  BY RefsAt
<1>3. ls \in LeaseState(Handles, Holders)
  <2>1. hs.map[s] \in Handles \cup {None}
    BY <1>1 DEF Handle
  <2>2. Hold(hs.leases, n, o) \in LeaseState(Handles, Holders)
    BY <1>1, <1>2 DEF Hold, LeaseState
  <2>3. ASSUME NEW l \in LeaseState(Handles, Holders)
        PROVE  Release(l, hs.map[s], o) \in LeaseState(Handles, Holders)
    BY <2>1 DEF Release, LeaseState
  <2> QED BY <2>2, <2>3 DEF Replace
<1> HIDE DEF ls
<1>4. hs2 = [map |-> [hs.map EXCEPT ![s] = n], file |-> [hs.file EXCEPT ![n] = c],
             born |-> [hs.born EXCEPT ![n] = at], opened |-> n, leases |-> ls]
  <2>1. hs2 = [hs EXCEPT !.opened = n, !.file[n] = c, !.born[n] = at, !.map[s] = n, !.leases = ls]
    BY DEF OpenInto, ls
  <2> HIDE DEF hs2, n
  <2>2. hs2 = [hs EXCEPT !.opened = n, !.file = [hs.file EXCEPT ![n] = c],
                         !.born = [hs.born EXCEPT ![n] = at],
                         !.map = [hs.map EXCEPT ![s] = n], !.leases = ls]
    BY <1>1, <2>1 DEF HostState
  <2> QED BY <1>1, <2>2 DEF HostState
<1> HIDE DEF hs2, n, o
<1>5. hs2 \in HostState
  <2>1. [hs.map EXCEPT ![s] = n] \in [Slots -> Handle]
    BY <1>1 DEF Handle
  <2>2. [hs.file EXCEPT ![n] = c] \in [Handles -> Content]
    BY <1>1 DEF Content
  <2>3. [hs.born EXCEPT ![n] = at] \in [Handles -> Nat]
    BY <1>1
  <2>4. n \in 0..MaxHandles
    BY <1>1 DEF Handles
  <2> QED BY <1>3, <1>4, <2>1, <2>2, <2>3, <2>4 DEF HostState
<1>6. /\ hs2.opened = n /\ hs2.map[s] = n /\ hs2.file[n] = c /\ hs2.leases = ls
      /\ \A t \in Slots : t # s => hs2.map[t] = hs.map[t]
  BY <1>1, <1>4
<1>7. \A k \in 1..n : hs2.file[k] \in Contents
  <2> TAKE k \in 1..n
  <2>1. k \in Handles /\ (k # n => k \in 1..hs.opened)
    BY <1>1 DEF n, Handles
  <2> QED BY <1>1, <1>4, <2>1 DEF Sound
<1>8. Redirects(Refs(hs, g, x), Refs(hs2, g, x), Holders, o, n)
  BY <1>6, MapRedirects DEF o
<1>9. Sound(hs2, g, x) /\ Grows(hs, hs2)
  <2>1. hs2.opened = hs.opened + 1 /\ n = hs2.opened
    BY <1>6 DEF n
  <2>2. hs2.leases = Replace(hs.leases, Refs(hs, g, x)[o], n, o)
    BY <1>2, <1>6 DEF ls
  <2>3. \A k \in 1..hs2.opened : hs2.file[k] \in Contents
    BY <1>7, <2>1
  <2>4. Filed(hs2)
    <3> SUFFICES ASSUME NEW t \in Slots, hs2.map[t] # None
                 PROVE  SlotOf[hs2.file[hs2.map[t]]] = t
      BY DEF Filed
    <3>1. CASE t = s
      BY <1>6, <3>1
    <3>2. CASE t # s
      <4>1. hs.map[t] \in 1..hs.opened /\ hs2.map[t] = hs.map[t] /\ hs.map[t] # None
        BY <1>6, <3>2, ReferredIsOpen
      <4>2. hs2.file[hs.map[t]] = hs.file[hs.map[t]]
        <5>1. hs.map[t] # n /\ hs.map[t] \in Handles
          BY <1>1, <4>1 DEF n, Handles
        <5> QED BY <1>1, <1>4, <5>1
      <4> QED BY <4>1, <4>2 DEF Sound, Filed
    <3> QED BY <3>1, <3>2
  <2> QED BY <1>2, <1>5, <1>8, <2>1, <2>2, <2>3, <2>4, ReplaceSound
<1> QED BY <1>6, <1>9 DEF hs2, n

\* Dropping a map entry keeps the handles sound, and the map is empty.
LEMMA DropEntrySound ==
  ASSUME NEW hs, NEW g, NEW x, NEW s \in Slots, Sound(hs, g, x)
  PROVE  LET hs2 == DropEntry(hs, s) IN
         /\ Sound(hs2, g, x) /\ Grows(hs, hs2)
         /\ hs2.opened = hs.opened /\ hs2.map[s] = None /\ hs2.file = hs.file
         /\ \A t \in Slots : t # s => hs2.map[t] = hs.map[t]
<1> DEFINE o == MapHolder(s)
           ls == Release(hs.leases, hs.map[s], o)
           hs2 == DropEntry(hs, s)
<1>1. /\ hs.map \in [Slots -> Handle] /\ hs \in HostState
      /\ hs.leases \in LeaseState(Handles, Holders)
  BY DEF Sound, HostState
<1>2. o \in Holders /\ Refs(hs, g, x)[o] = hs.map[s]
  BY RefsAt
<1>3. ls \in LeaseState(Handles, Holders)
  <2>1. hs.map[s] \in Handles \cup {None}
    BY <1>1 DEF Handle
  <2> QED BY <1>1, <2>1 DEF Release, LeaseState
<1> HIDE DEF ls, o
<1>4. hs2 = [hs EXCEPT !.map = [hs.map EXCEPT ![s] = None], !.leases = ls]
  BY <1>1 DEF DropEntry, HostState, ls, o
<1>5. hs2 \in HostState
  BY <1>1, <1>3, <1>4 DEF HostState, Handle
<1>6. /\ hs2.opened = hs.opened /\ hs2.map[s] = None /\ hs2.file = hs.file /\ hs2.leases = ls
      /\ \A t \in Slots : t # s => hs2.map[t] = hs.map[t]
  BY <1>1, <1>4 DEF HostState
<1> HIDE DEF hs2
<1>7. Redirects(Refs(hs, g, x), Refs(hs2, g, x), Holders, o, None)
  BY <1>6, MapRedirects DEF o
<1>8. Sound(hs2, g, x) /\ Grows(hs, hs2)
  <2>1. hs2.leases = Release(hs.leases, Refs(hs, g, x)[o], o)
    BY <1>2, <1>6 DEF ls
  <2>2. Filed(hs2)
    BY <1>6 DEF Sound, Filed
  <2> QED BY <1>2, <1>5, <1>6, <1>7, <2>1, <2>2, ReleaseSound
<1> QED BY <1>6, <1>8 DEF hs2

\* Both of a document's entries go, and nothing is opened.
LEMMA DropDocumentSound ==
  ASSUME NEW hs, NEW g, NEW x, Sound(hs, g, x)
  PROVE  LET hs2 == DropDocument(hs) IN
         /\ Sound(hs2, g, x) /\ Grows(hs, hs2)
         /\ hs2.opened = hs.opened /\ hs2.map["grib"] = None /\ hs2.map["netcdf"] = None
<1> DEFINE h1 == DropEntry(hs, "grib")
           h2 == DropEntry(h1, "netcdf")
<1>0. "grib" \in Slots /\ "netcdf" \in Slots /\ "grib" # "netcdf"
  BY DEF Slots, DocSlots
<1>1. Sound(h1, g, x) /\ Grows(hs, h1) /\ h1.opened = hs.opened /\ h1.map["grib"] = None
  BY <1>0, DropEntrySound
<1>2. /\ Sound(h2, g, x) /\ Grows(h1, h2) /\ h2.opened = h1.opened /\ h2.map["netcdf"] = None
      /\ h2.map["grib"] = h1.map["grib"]
  <2> HIDE DEF h1
  <2> QED BY <1>0, <1>1, DropEntrySound
<1>3. Grows(hs, h2)
  <2> HIDE DEF h1, h2
  <2> QED BY <1>1, <1>2, GrowsOn DEF Sound
<1> QED BY <1>1, <1>2, <1>3 DEF DropDocument

\* A page lists the messages of a GRIB file or the variables of a NetCDF one.
Listed == {c \in Contents : SlotOf[c] \in DocSlots}

\* What writing an editor page from content c opens, and what it then lists.
LEMMA OpenOrReuseSound ==
  ASSUME NEW hs, NEW g, NEW x, NEW c \in Contents, NEW at \in Nat,
         Sound(hs, g, x), NeedsOpen(hs, c) => hs.opened < MaxHandles
  PROVE  LET hs2 == OpenOrReuse(hs, c, at) IN
         /\ Sound(hs2, g, x) /\ Grows(hs, hs2)
         /\ RowsOf(hs2, c) \in Listed \cup {None}
<1> DEFINE hs2 == OpenOrReuse(hs, c, at)
<1>1. /\ Sound(hs2, g, x) /\ Grows(hs, hs2)
      /\ SlotOf[c] \in DocSlots => hs2.map[SlotOf[c]] # None
  <2>1. CASE NeedsOpen(hs, c)
    <3>1. SlotOf[c] \in Slots
      BY <2>1 DEF NeedsOpen, Slots
    <3>2. hs2 = OpenInto(hs, SlotOf[c], c, at)
      BY <2>1 DEF OpenOrReuse
    <3>3. Sound(hs2, g, x) /\ Grows(hs, hs2) /\ hs2.map[SlotOf[c]] = hs.opened + 1
      BY <2>1, <3>1, <3>2, OpenIntoSound
    <3>4. hs.opened + 1 # None
      BY BoundsAssumption, NoneAssumption DEF Sound, HostState
    <3> QED BY <3>3, <3>4
  <2>2. CASE ~NeedsOpen(hs, c)
    <3>1. hs2 = hs
      BY <2>2 DEF OpenOrReuse
    <3>2. hs.opened <= hs.opened
      BY BoundsAssumption DEF Sound, HostState
    <3> QED BY <2>2, <3>1, <3>2 DEF NeedsOpen, Grows
  <2> QED BY <2>1, <2>2
<1> HIDE DEF hs2
<1>2. RowsOf(hs2, c) \in Listed \cup {None}
  <2>1. "grib" \in Slots /\ "netcdf" \in Slots /\ "netcdf" \in DocSlots
    BY DEF Slots, DocSlots
  <2>2. /\ hs2.map["grib"] # None => hs2.file[hs2.map["grib"]] \in Listed
        /\ hs2.map["netcdf"] # None => hs2.file[hs2.map["netcdf"]] \in Listed
    BY <1>1, <2>1, ReferredIsOpen DEF Sound, Filed, Listed, DocSlots
  <2>3. SlotOf[c] = "netcdf" => hs2.map["netcdf"] # None
    BY <1>1, <2>1
  <2> QED BY <2>2, <2>3 DEF RowsOf
<1> QED BY <1>1, <1>2 DEF hs2

-----------------------------------------------------------------------------
(* The inductive invariant                                                 *)

DocTyped ==
  /\ docs \in Nat /\ bytes \in Content
  /\ reading \subseteq [doc : Nat, read : Contents, nth : Nat] /\ IsFiniteSet(reading)
  /\ reverts \in Nat

EditorState == [open : BOOLEAN, page : Nat, rows : Listed \cup {None}]
EditorTyped ==
  /\ editor \in [Editors -> EditorState]
  /\ rowAsk \in [Editors -> [page : Nat, of : Listed, index : Nat] \cup {None}]

\* A panel is open on a file it has listed; a closed one refers to no handle.
PanelTyped ==
  /\ gate \in [Panels -> GateState(Handles)]
  /\ panel \in [Panels -> PanelState]
  /\ page \in [Panels -> PageState]
  /\ toHost \in [Panels -> Seq(Message)]
  /\ toPage \in [Panels -> Seq(Answer)]
  /\ \A p \in Panels : IsOpen(p) => panel[p].listed \in Contents /\ page[p].listed \in Contents
  /\ \A p \in Panels : ~IsOpen(p) => gate[p].handle = None

\* An export under way refers to a handle.
Saved == [field : Fields \cup {None}, asked : Fields \cup {None}, slot : Slots, at : Nat]
ExportTyped ==
  /\ export \in [Exports -> ExportState]
  /\ \A x \in Exports : export[x].stage # "idle" => export[x].handle # None /\ export[x].slot # None
  /\ \A x \in Exports : export[x].stage = "idle" => export[x].handle = None
  /\ saved \in Saved \cup {None}

IInv == DocTyped /\ EditorTyped /\ PanelTyped /\ ExportTyped /\ Sound(host, gate, export)

\* What a listing holds, and the numbers it has.
LEMMA ListingTyped ==
  ASSUME NEW c \in Contents
  PROVE  /\ Listing[c] \in Seq(Fields)
         /\ DOMAIN Listing[c] \subseteq Nat
         /\ \A i : At(c, i) \in Fields \cup {None}
         /\ \A i \in DOMAIN Listing[c] : Listing[c][i] \in Fields
         /\ Listing[c] # <<>> => 1 \in DOMAIN Listing[c]
<1>1. Listing[c] \in Seq(Fields)
  BY ContentsAssumption
<1>2. DOMAIN Listing[c] = 1..Len(Listing[c]) /\ Len(Listing[c]) \in Nat
  BY <1>1
<1>3. \A i \in DOMAIN Listing[c] : Listing[c][i] \in Fields
  BY <1>1, <1>2
<1>4. Listing[c] # <<>> => 1 \in DOMAIN Listing[c]
  BY <1>1, <1>2
<1> QED BY <1>1, <1>2, <1>3, <1>4 DEF At

\* The gate's methods keep it a gate, and change its handle as they say.
LEMMA GateTyped ==
  ASSUME NEW g \in GateState(Handles)
  PROVE  /\ g.handle \in Handle
         /\ Heard(g) \in GateState(Handles) /\ Heard(g).handle = g.handle
         /\ Outdate(g) \in GateState(Handles) /\ Outdate(g).handle = g.handle
         /\ Disposed(g) \in GateState(Handles) /\ Disposed(g).handle = None
         /\ \A h \in Handle : /\ NewGate(h) \in GateState(Handles) /\ NewGate(h).handle = h
                              /\ Kept(g, h) \in GateState(Handles) /\ Kept(g, h).handle = h
                              /\ Rewritten(g, h) \in GateState(Handles)
                              /\ Rewritten(g, h).handle = h
                              /\ Rewritten(g, h).written = g.written + 1
<1>1. g \in [handle : Handle, outdated : BOOLEAN, written : Nat, awaitingReady : BOOLEAN]
  BY DEF GateState, Handle
<1>2. None \in Handle
  BY DEF Handle
<1>3. /\ Heard(g) \in GateState(Handles) /\ Heard(g).handle = g.handle
      /\ Outdate(g) \in GateState(Handles) /\ Outdate(g).handle = g.handle
      /\ Disposed(g) \in GateState(Handles) /\ Disposed(g).handle = None
  BY <1>1, <1>2 DEF Heard, Outdate, Disposed, GateState, Handle
<1>4. ASSUME NEW h \in Handle
      PROVE  /\ NewGate(h) \in GateState(Handles) /\ NewGate(h).handle = h
             /\ Kept(g, h) \in GateState(Handles) /\ Kept(g, h).handle = h
             /\ Kept(g, h).written = g.written
  BY <1>1 DEF NewGate, Kept, GateState, Handle
<1>5. ASSUME NEW h \in Handle
      PROVE  /\ Rewritten(g, h) \in GateState(Handles) /\ Rewritten(g, h).handle = h
             /\ Rewritten(g, h).written = g.written + 1
  <2> DEFINE k == Kept(g, h)
             n == k.written + 1
  <2>1. k \in GateState(Handles) /\ k.handle = h /\ n \in Nat /\ n = g.written + 1
    BY <1>1, <1>4
  <2>2. Rewritten(g, h) = [k EXCEPT !.written = n, !.awaitingReady = TRUE]
    BY DEF Rewritten
  <2> HIDE DEF k, n
  <2>3. [k EXCEPT !.written = n, !.awaitingReady = TRUE] \in GateState(Handles)
    BY <2>1 DEF GateState
  <2>4. /\ [k EXCEPT !.written = n, !.awaitingReady = TRUE].handle = k.handle
        /\ [k EXCEPT !.written = n, !.awaitingReady = TRUE].written = n
    BY <2>1 DEF GateState
  <2> QED BY <2>1, <2>2, <2>3, <2>4
<1> QED BY <1>1, <1>3, <1>4, <1>5

\* The lease state stays one whatever is held and released.
LEMMA LeasesTyped ==
  ASSUME NEW l \in LeaseState(Handles, Holders), NEW o \in Holders
  PROVE  /\ \A h \in Handle : Release(l, h, o) \in LeaseState(Handles, Holders)
         /\ \A h \in Handles : Hold(l, h, o) \in LeaseState(Handles, Holders)
         /\ \A old \in Handle, h \in Handles : Replace(l, old, h, o) \in LeaseState(Handles, Holders)
<1>1. ASSUME NEW ll \in LeaseState(Handles, Holders), NEW h \in Handle
      PROVE  Release(ll, h, o) \in LeaseState(Handles, Holders)
  BY DEF Release, LeaseState, Handle
<1>2. ASSUME NEW h \in Handles
      PROVE  Hold(l, h, o) \in LeaseState(Handles, Holders)
  BY DEF Hold, LeaseState
<1> QED BY <1>1, <1>2 DEF Replace

\* New leases in the same host state.
LEMMA NewLeases ==
  ASSUME NEW hs \in HostState, NEW l \in LeaseState(Handles, Holders)
  PROVE  LET hs2 == [hs EXCEPT !.leases = l] IN
         /\ hs2 \in HostState /\ hs2.leases = l /\ hs2.map = hs.map
         /\ hs2.file = hs.file /\ hs2.opened = hs.opened
         /\ Filed(hs) => Filed(hs2)
BY DEF HostState, Filed

-----------------------------------------------------------------------------
(* A panel's gate                                                          *)

\* The handle of a panel's document, its file, and the listing it is looked for in.
LEMMA CurrentTyped ==
  ASSUME IInv, NEW p \in Panels, IsOpen(p)
  PROVE  /\ panel[p].slot \in Slots /\ Current(p) \in Handle
         /\ Current(p) # None =>
              /\ Current(p) \in 1..host.opened /\ Current(p) \in Handles
              /\ Current(p) \notin host.leases.closed /\ FileOf(Current(p)) \in Contents
         /\ gate[p] \in GateState(Handles) /\ panel[p] \in PanelState /\ page[p] \in PageState
         /\ panel[p].listed \in Contents /\ page[p].listed \in Contents
<1>1. panel[p] \in PanelState /\ gate[p] \in GateState(Handles) /\ page[p] \in PageState
  BY DEF IInv, PanelTyped
<1>2. panel[p].slot \in Slots
  BY <1>1 DEF IsOpen, PanelState
<1>3. host.map \in [Slots -> Handle]
  BY DEF IInv, Sound, HostState
<1> QED BY <1>1, <1>2, <1>3, ReferredIsOpen DEF IInv, PanelTyped, Current, FileOf

\* A panel whose gate changes and whose holder's lease changes with it.
LEMMA GateChanges ==
  ASSUME IInv, NEW p \in Panels, NEW g
  PROVE  LET g2 == [gate EXCEPT ![p] = g] IN
         /\ g2[p] = g
         /\ \A q \in Panels : q # p => g2[q].handle = gate[q].handle
         /\ GateHolder(p) \in Holders
         /\ Refs(host, gate, export)[GateHolder(p)] = gate[p].handle
BY RefsAt DEF IInv, PanelTyped

\* The gate moves to its document's handle, lease and all.
LEMMA AdoptSound ==
  ASSUME IInv, NEW p \in Panels, IsOpen(p), PanelMoves(p), NEW g, g.handle = Current(p)
  PROVE  LET hs2 == [host EXCEPT !.leases =
                       GateAdopt(host.leases, gate[p], Current(p), GateHolder(p))]
         IN Sound(hs2, [gate EXCEPT ![p] = g], export) /\ Grows(host, hs2)
<1> DEFINE h == Current(p)
           o == GateHolder(p)
           ls == Replace(host.leases, gate[p].handle, h, o)
           hs2 == [host EXCEPT !.leases = ls]
           g2 == [gate EXCEPT ![p] = g]
<1>1. h \in 1..host.opened /\ h \in Handles /\ h \notin host.leases.closed /\ h # gate[p].handle
  BY CurrentTyped DEF PanelMoves, Moves
<1>2. Sound(host, gate, export) /\ host \in HostState
  BY DEF IInv, Sound
<1>3. o \in Holders /\ Refs(host, gate, export)[o] = gate[p].handle
  BY GateChanges
<1>4. ls \in LeaseState(Handles, Holders)
  BY <1>1, <1>2, <1>3, LeasesTyped, CurrentTyped, GateTyped DEF HostState
<1>5. /\ hs2 \in HostState /\ hs2.leases = ls /\ hs2.map = host.map
      /\ hs2.file = host.file /\ hs2.opened = host.opened /\ Filed(hs2)
  <2> HIDE DEF ls
  <2> QED BY <1>2, <1>4, NewLeases DEF Sound
<1>6. Redirects(Refs(host, gate, export), Refs(hs2, g2, export), Holders, o, h)
  <2>1. g2[p].handle = h /\ \A q \in Panels : q # p => g2[q].handle = gate[q].handle
    BY GateChanges
  <2> HIDE DEF hs2, g2, h
  <2> QED BY <1>5, <2>1, GateRedirects DEF o
<1>7. \A k \in 1..hs2.opened : hs2.file[k] \in Contents
  BY <1>2, <1>5 DEF Sound
<1>8. hs2.leases = Replace(host.leases, Refs(host, gate, export)[o], h, o)
  BY <1>3, <1>5
<1>9. Sound(hs2, g2, export) /\ Grows(host, hs2)
  <2> HIDE DEF hs2, g2, h, o
  <2> QED BY <1>1, <1>2, <1>3, <1>5, <1>6, <1>7, <1>8, ReplaceSound
<1>10. GateAdopt(host.leases, gate[p], h, o) = ls
  BY <1>1 DEF GateAdopt
<1> HIDE DEF ls, o, h
<1> QED BY <1>9, <1>10 DEF h, o

\* The gate lets go of what it holds.
LEMMA LetGoSound ==
  ASSUME IInv, NEW p \in Panels, NEW g, g.handle = None
  PROVE  LET hs2 == [host EXCEPT !.leases = GateRelease(host.leases, gate[p], GateHolder(p))]
         IN Sound(hs2, [gate EXCEPT ![p] = g], export) /\ Grows(host, hs2)
<1> DEFINE o == GateHolder(p)
           ls == Release(host.leases, gate[p].handle, o)
           hs2 == [host EXCEPT !.leases = ls]
           g2 == [gate EXCEPT ![p] = g]
<1>1. Sound(host, gate, export) /\ host \in HostState /\ gate[p] \in GateState(Handles)
  BY DEF IInv, Sound, PanelTyped
<1>2. o \in Holders /\ Refs(host, gate, export)[o] = gate[p].handle
  BY GateChanges
<1>3. ls \in LeaseState(Handles, Holders)
  BY <1>1, <1>2, LeasesTyped, GateTyped DEF HostState
<1>4. /\ hs2 \in HostState /\ hs2.leases = ls /\ hs2.map = host.map
      /\ hs2.file = host.file /\ hs2.opened = host.opened /\ Filed(hs2)
  <2> HIDE DEF ls
  <2> QED BY <1>1, <1>3, NewLeases DEF Sound
<1>5. Redirects(Refs(host, gate, export), Refs(hs2, g2, export), Holders, o, None)
  <2>1. g2[p].handle = None /\ \A q \in Panels : q # p => g2[q].handle = gate[q].handle
    BY GateChanges
  <2> HIDE DEF hs2, g2
  <2> QED BY <1>4, <2>1, GateRedirects DEF o
<1>6. Sound(hs2, g2, export) /\ Grows(host, hs2)
  <2>1. hs2.leases = Release(host.leases, Refs(host, gate, export)[o], o)
    BY <1>2, <1>4
  <2> HIDE DEF hs2, g2, o
  <2> QED BY <1>1, <1>2, <1>4, <1>5, <2>1, ReleaseSound
<1> QED BY <1>6 DEF GateRelease

\* The leases stay as they are, and so do the gates' handles.
LEMMA GateKeepsHandle ==
  ASSUME IInv, NEW p \in Panels, NEW g, g.handle = gate[p].handle
  PROVE  LET hs2 == [host EXCEPT !.leases = host.leases]
         IN /\ Sound(hs2, [gate EXCEPT ![p] = g], export) /\ Grows(host, hs2)
            /\ Sound(host, [gate EXCEPT ![p] = g], export)
<1>1. [host EXCEPT !.leases = host.leases] = host
  BY DEF IInv, Sound, HostState
<1>2. \A q \in Panels : [gate EXCEPT ![p] = g][q].handle = gate[q].handle
  BY DEF IInv, PanelTyped
<1>3. Sound(host, [gate EXCEPT ![p] = g], export) /\ Grows(host, host)
  BY <1>2, SameSound DEF IInv
<1> QED BY <1>1, <1>3

\* Whatever admit does before it serves a request.
LEMMA ServedSound ==
  ASSUME IInv, NEW p \in Panels, IsOpen(p)
  PROVE  /\ LET hs2 == [host EXCEPT !.leases = LeasesAfter(p)] IN
            /\ Sound(hs2, [gate EXCEPT ![p] = GateAfter(p)], export) /\ Grows(host, hs2)
         /\ GateAfter(p) \in GateState(Handles)
         /\ PanelAfter(p) \in PanelState /\ PanelAfter(p).listed \in Contents
         /\ PanelAfter(p).slot = panel[p].slot
<1>1. /\ gate[p] \in GateState(Handles) /\ panel[p] \in PanelState
      /\ panel[p].listed \in Contents /\ panel[p].slot \in Slots
      /\ Heard(gate[p]) \in GateState(Handles) /\ Heard(gate[p]).handle = gate[p].handle
  BY CurrentTyped, GateTyped
<1>2. CASE PanelMoves(p)
  <2>1. Current(p) \in Handles /\ Current(p) \in Handle /\ FileOf(Current(p)) \in Contents
    BY <1>2, CurrentTyped DEF PanelMoves, Moves
  <2>2. /\ GateAfter(p) \in GateState(Handles) /\ GateAfter(p).handle = Current(p)
    BY <1>1, <1>2, <2>1, GateTyped DEF GateAfter
  <2>3. LeasesAfter(p) = GateAdopt(host.leases, gate[p], Current(p), GateHolder(p))
    BY <1>2 DEF LeasesAfter
  <2>4. LET hs2 == [host EXCEPT !.leases = LeasesAfter(p)] IN
        Sound(hs2, [gate EXCEPT ![p] = GateAfter(p)], export) /\ Grows(host, hs2)
    BY <1>2, <2>2, <2>3, AdoptSound
  <2>5. /\ PanelAfter(p) \in PanelState /\ PanelAfter(p).listed \in Contents
        /\ PanelAfter(p).slot = panel[p].slot
    BY <1>1, <1>2, <2>1 DEF PanelAfter, PanelState, Content
  <2> QED BY <2>2, <2>4, <2>5
<1>3. CASE ~PanelMoves(p)
  <2>1. PanelAfter(p) = panel[p]
    BY <1>3 DEF PanelAfter
  <2>2. CASE LetsGo(gate[p], Current(p))
    <3>1. GateAfter(p) = Disposed(Heard(gate[p]))
      BY <1>3, <2>2 DEF GateAfter, Admitted
    <3>2. GateAfter(p) \in GateState(Handles) /\ GateAfter(p).handle = None
      BY <1>1, <3>1, GateTyped
    <3>3. LeasesAfter(p) = GateRelease(host.leases, gate[p], GateHolder(p))
      BY <1>3, <2>2 DEF LeasesAfter, AdmittedLeases
    <3>4. LET hs2 == [host EXCEPT !.leases = LeasesAfter(p)] IN
          Sound(hs2, [gate EXCEPT ![p] = GateAfter(p)], export) /\ Grows(host, hs2)
      BY <3>2, <3>3, LetGoSound
    <3> QED BY <1>1, <2>1, <3>2, <3>4
  <2>3. CASE ~LetsGo(gate[p], Current(p))
    <3>1. GateAfter(p) = Heard(gate[p])
      BY <1>3, <2>3 DEF GateAfter, Admitted
    <3>2. LeasesAfter(p) = host.leases
      BY <1>3, <2>3 DEF LeasesAfter, AdmittedLeases
    <3>3. LET hs2 == [host EXCEPT !.leases = LeasesAfter(p)] IN
          Sound(hs2, [gate EXCEPT ![p] = GateAfter(p)], export) /\ Grows(host, hs2)
      BY <1>1, <3>1, <3>2, GateKeepsHandle
    <3> QED BY <1>1, <2>1, <3>1, <3>3
  <2> QED BY <2>2, <2>3
<1> QED BY <1>2, <1>3

-----------------------------------------------------------------------------
(* Each action preserves the invariant, and grows the host's handles       *)

\* What a step leaves alone keeps its part of the invariant.
LEMMA Untouched ==
  ASSUME IInv
  PROVE  /\ UNCHANGED docVars => DocTyped'
         /\ UNCHANGED editorVars => EditorTyped'
         /\ UNCHANGED panelVars => PanelTyped'
         /\ UNCHANGED exportVars => ExportTyped'
         /\ UNCHANGED <<host, gate, export>> => Sound(host, gate, export)' /\ Grows(host, host')
<1>1. UNCHANGED docVars => DocTyped'
  BY DEF IInv, docVars, DocTyped
<1>2. UNCHANGED editorVars => EditorTyped'
  BY DEF IInv, editorVars, EditorTyped
<1>3. UNCHANGED panelVars => PanelTyped'
  BY DEF IInv, panelVars, PanelTyped, IsOpen
<1>4. UNCHANGED exportVars => ExportTyped'
  BY DEF IInv, exportVars, ExportTyped
<1>5. UNCHANGED <<host, gate, export>> => Sound(host, gate, export)' /\ Grows(host, host')
  <2> HAVE UNCHANGED <<host, gate, export>>
  <2>1. Grows(host, host)
    BY SameSound DEF IInv
  <2> QED BY <2>1 DEF IInv
<1> QED BY <1>1, <1>2, <1>3, <1>4, <1>5

\* OpenDocument keeps the invariant, and opens or closes no handle again.
LEMMA OpenDocumentStep ==
  ASSUME IInv, NEW c \in FileContents, OpenDocument(c)
  PROVE  IInv' /\ Grows(host, host')
<1>1. c \in Contents
  BY ContentsAssumption
<1>2. DocTyped'
  BY <1>1 DEF IInv, DocTyped, OpenDocument, Content
<1> QED BY <1>2, Untouched DEF IInv, OpenDocument, panelVars, exportVars

\* StartRevert keeps the invariant, and opens or closes no handle again.
LEMMA StartRevertStep ==
  ASSUME IInv, NEW c \in FileContents, StartRevert(c)
  PROVE  IInv' /\ Grows(host, host')
<1> DEFINE nth == reverts + Cardinality(reading) + 1
           r == [doc |-> docs, read |-> c, nth |-> nth]
<1>1. /\ c \in Contents /\ docs \in Nat /\ bytes \in Content /\ reverts \in Nat
      /\ reading \subseteq [doc : Nat, read : Contents, nth : Nat] /\ IsFiniteSet(reading)
  BY ContentsAssumption DEF IInv, DocTyped
<1>2. nth \in Nat
  BY <1>1, FS_CardinalityType
<1> HIDE DEF nth
<1>3. r \in [doc : Nat, read : Contents, nth : Nat]
  BY <1>1, <1>2
<1>4. reading' = reading \cup {r} /\ UNCHANGED <<docs, bytes, reverts>>
  BY DEF StartRevert, nth
<1>5. IsFiniteSet(reading \cup {r})
  BY <1>1, FS_AddElement
<1>6. DocTyped'
  BY <1>1, <1>3, <1>4, <1>5 DEF DocTyped
<1> QED BY <1>6, Untouched DEF IInv, StartRevert, panelVars, exportVars

\* Pages written again are pages of the same panel.
LEMMA WrittenTyped ==
  ASSUME NEW pg \in PageState, NEW pn \in PanelState, NEW number \in Nat
  PROVE  Written(pg, pn, number) \in PageState /\ Written(pg, pn, number).listed = pn.listed
BY DEF Written, PageState, PanelState, Content

\* Replies lost leave queues of answers.
LEMMA LosesTyped ==
  ASSUME IInv, NEW ps, LosesReplies(ps)
  PROVE  toPage' \in [Panels -> Seq(Answer)]
<1>1. \A p \in Panels : toPage[p] \in Seq(Answer) /\ <<>> \in Seq(Answer)
  BY DEF IInv, PanelTyped
<1> QED BY <1>1 DEF LosesReplies

\* Panels outdated, and pages written again, wherever they are open.
LEMMA RedrawTyped ==
  ASSUME IInv, NEW outdated, NEW redrawn,
         gate' = [p \in Panels |-> IF p \in outdated THEN Outdate(gate[p]) ELSE gate[p]],
         page' = [p \in Panels |-> IF p \in redrawn THEN Rebuilt(p, gate[p]) ELSE page[p]],
         \A p \in redrawn : IsOpen(p), LosesReplies(redrawn),
         UNCHANGED <<panel, toHost>>
  PROVE  PanelTyped' /\ \A p \in Panels : gate'[p].handle = gate[p].handle
<1>1. ASSUME NEW p \in Panels
      PROVE  /\ gate'[p] \in GateState(Handles) /\ gate'[p].handle = gate[p].handle
             /\ page'[p] \in PageState /\ (IsOpen(p) => page'[p].listed \in Contents)
  <2>1. /\ gate[p] \in GateState(Handles) /\ page[p] \in PageState /\ panel[p] \in PanelState
        /\ gate[p].written \in Nat
        /\ IsOpen(p) => panel[p].listed \in Contents /\ page[p].listed \in Contents
    BY DEF IInv, PanelTyped, GateState
  <2>2. Outdate(gate[p]) \in GateState(Handles) /\ Outdate(gate[p]).handle = gate[p].handle
    BY <2>1, GateTyped
  <2>3. Rebuilt(p, gate[p]) \in PageState /\ Rebuilt(p, gate[p]).listed = panel[p].listed
    BY <2>1, WrittenTyped DEF Rebuilt
  <2> QED BY <2>1, <2>2, <2>3
<1>2. gate' \in [Panels -> GateState(Handles)] /\ page' \in [Panels -> PageState]
  BY <1>1
<1>3. toPage' \in [Panels -> Seq(Answer)]
  BY LosesTyped
<1> QED BY <1>1, <1>2, <1>3 DEF IInv, PanelTyped, IsOpen

\* An editor page written again is an editor page.
LEMMA EditorWrittenTyped ==
  ASSUME NEW ed \in EditorState, NEW hs, NEW c,
         RowsOf(hs, c) \in Listed \cup {None}
  PROVE  EditorWritten(ed, hs, c) \in EditorState
<1> DEFINE n == ed.page + 1
           rows == RowsOf(hs, c)
<1>1. n \in Nat /\ rows \in Listed \cup {None}
  BY DEF EditorState
<1>2. EditorWritten(ed, hs, c) = [ed EXCEPT !.open = TRUE, !.page = n, !.rows = rows]
  BY DEF EditorWritten
<1> HIDE DEF n, rows
<1> QED BY <1>1, <1>2 DEF EditorState

\* ResolveEditor keeps the invariant, and opens or closes no handle again.
LEMMA ResolveEditorStep ==
  ASSUME IInv, NEW e \in Editors, ResolveEditor(e)
  PROVE  IInv' /\ Grows(host, host')
<1> DEFINE hs == OpenOrReuse(host, bytes, reverts)
           redrawn == RedrawnOnOpen(hs)
<1>1. /\ Sound(hs, gate, export) /\ Grows(host, hs) /\ RowsOf(hs, bytes) \in Listed \cup {None}
  <2>1. bytes \in Contents /\ reverts \in Nat
    BY DEF ResolveEditor, IInv, DocTyped, Content
  <2> QED BY <2>1, OpenOrReuseSound DEF ResolveEditor, IInv
<1>2. /\ host' = hs
      /\ editor' = [editor EXCEPT ![e] = EditorWritten(ClosedEditor, hs, bytes)]
      /\ gate' = [p \in Panels |->
                    IF p \in redrawn /\ Holds(p) THEN Outdate(gate[p]) ELSE gate[p]]
      /\ page' = [p \in Panels |-> IF p \in redrawn THEN Rebuilt(p, gate[p]) ELSE page[p]]
      /\ LosesReplies(redrawn)
      /\ UNCHANGED <<docVars, rowAsk, panel, toHost, exportVars>>
  BY DEF ResolveEditor
<1>3. \A p \in redrawn : p \in Panels /\ IsOpen(p)
  BY NoneAssumption DEF RedrawnOnOpen, IsOpen, Slots
<1> HIDE DEF hs, redrawn
<1>4. PanelTyped' /\ \A p \in Panels : gate'[p].handle = gate[p].handle
  <2>1. gate' = [p \in Panels |-> IF p \in {q \in redrawn : Holds(q)}
                                  THEN Outdate(gate[p]) ELSE gate[p]]
    BY <1>2
  <2> QED BY <1>2, <1>3, <2>1, RedrawTyped
<1>5. EditorTyped'
  <2>1. ClosedEditor \in EditorState
    BY DEF ClosedEditor, EditorState
  <2>2. EditorWritten(ClosedEditor, hs, bytes) \in EditorState
    BY <1>1, <2>1, EditorWrittenTyped
  <2> QED BY <1>2, <2>2 DEF IInv, EditorTyped
<1>6. Sound(host, gate, export)' /\ Grows(host, host')
  <2>1. export' = export
    BY <1>2 DEF exportVars
  <2> QED BY <1>1, <1>2, <1>4, <2>1, SameSound
<1> QED BY <1>2, <1>4, <1>5, <1>6, Untouched DEF IInv

\* CloseEditor keeps the invariant, and opens or closes no handle again.
LEMMA CloseEditorStep ==
  ASSUME IInv, NEW e \in Editors, CloseEditor(e)
  PROVE  IInv' /\ Grows(host, host')
<1>1. DocTyped'
  BY DEF CloseEditor, IInv, DocTyped, Content
<1>2. EditorTyped'
  BY DEF CloseEditor, IInv, EditorTyped, ClosedEditor, EditorState
<1>3. Sound(host, gate, export)' /\ Grows(host, host')
  <2>1. host' = DropDocument(host) \/ host' = host
    BY DEF CloseEditor
  <2>2. gate' = gate /\ export' = export
    BY DEF CloseEditor, panelVars, exportVars
  <2>3. CASE host' = DropDocument(host)
    BY <2>2, <2>3, DropDocumentSound DEF IInv
  <2>4. CASE host' = host
    BY <2>2, <2>4, Untouched
  <2> QED BY <2>1, <2>3, <2>4
<1> QED BY <1>1, <1>2, <1>3, Untouched DEF IInv, CloseEditor

\* FinishRevert keeps the invariant, and opens or closes no handle again.
LEMMA FinishRevertStep ==
  ASSUME IInv, NEW r \in reading, FinishRevert(r)
  PROVE  IInv' /\ Grows(host, host')
<1> DEFINE c == r.read
           dropped == DropDocument(host)
           at == reverts + 1
           hs == IF OpenEditors = {} THEN dropped ELSE OpenOrReuse(dropped, c, at)
           drawn == {p \in Panels : panel[p].slot \in DocSlots}
<1>0. /\ r \in [doc : Nat, read : Contents, nth : Nat] /\ c \in Contents /\ at \in Nat
      /\ reverts \in Nat
  BY DEF IInv, DocTyped
<1>1. /\ host' = hs /\ reverts' = at /\ reading' = reading \ {r}
      /\ OpenEditors # {} => (NeedsOpen(dropped, c) => host.opened < MaxHandles)
      /\ editor' = [e \in Editors |->
                      IF editor[e].open THEN EditorWritten(editor[e], hs, c) ELSE editor[e]]
      /\ gate' = [p \in Panels |-> IF p \in drawn THEN Outdate(gate[p]) ELSE gate[p]]
      /\ page' = [p \in Panels |-> IF p \in drawn THEN Rebuilt(p, gate[p]) ELSE page[p]]
      /\ LosesReplies(drawn)
      /\ UNCHANGED <<docs, rowAsk, panel, toHost, exportVars>>
  BY DEF FinishRevert, ReloadDocument
<1>2. Sound(dropped, gate, export) /\ Grows(host, dropped) /\ dropped.opened = host.opened
  BY DropDocumentSound DEF IInv
<1>3. /\ Sound(hs, gate, export) /\ Grows(dropped, hs)
      /\ OpenEditors # {} => RowsOf(hs, c) \in Listed \cup {None}
  <2> HIDE DEF dropped, at, c
  <2>1. CASE OpenEditors = {}
    BY <1>2, <2>1, SameSound
  <2>2. CASE OpenEditors # {}
    BY <1>0, <1>1, <1>2, <2>2, OpenOrReuseSound
  <2> QED BY <2>1, <2>2
<1>4. Grows(host, hs)
  <2> HIDE DEF hs, dropped
  <2> QED BY <1>2, <1>3, GrowsOn DEF IInv, Sound
<1>5. \A p \in drawn : IsOpen(p)
  BY NoneAssumption DEF IsOpen, DocSlots, Slots
<1>6. DocTyped'
  <2>1. IsFiniteSet(reading \ {r})
    BY FS_RemoveElement DEF IInv, DocTyped
  <2>2. bytes' \in Content
    BY <1>0 DEF FinishRevert, IInv, DocTyped, Content
  <2> HIDE DEF at
  <2> QED BY <1>0, <1>1, <2>1, <2>2 DEF IInv, DocTyped
<1> HIDE DEF hs, dropped, at, c, drawn
<1>7. PanelTyped' /\ \A p \in Panels : gate'[p].handle = gate[p].handle
  BY <1>1, <1>5, RedrawTyped
<1>8. EditorTyped'
  <2>1. ASSUME NEW e \in Editors
        PROVE  editor'[e] \in EditorState
    <3>1. editor[e] \in EditorState
      BY DEF IInv, EditorTyped
    <3>2. editor[e].open => EditorWritten(editor[e], hs, c) \in EditorState
      BY <1>3, <3>1, EditorWrittenTyped DEF OpenEditors
    <3> QED BY <1>1, <3>1, <3>2
  <2>2. editor' \in [Editors -> EditorState]
    BY <1>1, <2>1
  <2> QED BY <1>1, <2>2 DEF IInv, EditorTyped
<1>9. Sound(host, gate, export)' /\ Grows(host, host')
  <2>1. export' = export
    BY <1>1 DEF exportVars
  <2> QED BY <1>1, <1>3, <1>4, <1>7, <2>1, SameSound
<1> QED BY <1>1, <1>6, <1>7, <1>8, <1>9, Untouched DEF IInv

\* AskRow keeps the invariant, and opens or closes no handle again.
LEMMA AskRowStep ==
  ASSUME IInv, NEW e \in Editors, NEW i \in DOMAIN Listing[editor[e].rows], AskRow(e, i)
  PROVE  IInv' /\ Grows(host, host')
<1>1. editor[e] \in EditorState /\ editor[e].rows \in Listed
  BY DEF IInv, EditorTyped, EditorState, AskRow
<1>2. i \in Nat /\ editor[e].page \in Nat
  BY <1>1, ListingTyped DEF Listed, EditorState
<1>3. EditorTyped'
  BY <1>1, <1>2 DEF AskRow, IInv, EditorTyped
<1> QED BY <1>3, Untouched DEF IInv, AskRow, panelVars, exportVars

\* DropRow keeps the invariant, and opens or closes no handle again.
LEMMA DropRowStep ==
  ASSUME IInv, NEW e \in Editors, DropRow(e)
  PROVE  IInv' /\ Grows(host, host')
<1>1. EditorTyped'
  BY DEF DropRow, IInv, EditorTyped
<1> QED BY <1>1, Untouched DEF IInv, DropRow, panelVars, exportVars

\* A panel opened on the open handle h of the host state hs.
LEMMA OpenPanelTyped ==
  ASSUME IInv, NEW p \in Panels, NEW s \in Slots, NEW hs, NEW h, NEW i,
         Sound(hs, gate, export), h \in 1..hs.opened, h \notin hs.leases.closed,
         i \in DOMAIN Listing[hs.file[h]], OpenPanel(p, s, hs, h, i), UNCHANGED export
  PROVE  PanelTyped' /\ Sound(host, gate, export)' /\ Grows(hs, host')
<1> DEFINE o == GateHolder(p)
           ls == Hold(hs.leases, h, o)
           c == hs.file[h]
           name == Listing[c][i]
           pn == [ClosedPanel EXCEPT !.slot = s, !.listed = c, !.shown = i, !.name = name]
           pg == [NoPage EXCEPT !.visible = TRUE, !.listed = c]
<1>1. h \in Handles /\ h \in Handle /\ c \in Contents /\ hs \in HostState
  BY BoundsAssumption DEF Sound, HostState, Handles, Handle
<1>2. i \in Nat /\ name \in Fields
  BY <1>1, ListingTyped
<1>3. /\ ~IsOpen(p)
      /\ host' = [hs EXCEPT !.leases = ls]
      /\ gate' = [gate EXCEPT ![p] = NewGate(h)]
      /\ panel' = [panel EXCEPT ![p] = pn]
      /\ page' = [page EXCEPT ![p] = pg]
      /\ UNCHANGED <<toHost, toPage>>
  BY DEF OpenPanel
<1>4. /\ gate[p] \in GateState(Handles) /\ gate[p].handle = None
      /\ o \in Holders /\ Refs(hs, gate, export)[o] = None
  BY <1>3, RefsAt DEF IInv, PanelTyped
<1>5. NewGate(h) \in GateState(Handles) /\ NewGate(h).handle = h
  BY <1>1, <1>4, GateTyped
<1>6. ls \in LeaseState(Handles, Holders)
  BY <1>1, <1>4, LeasesTyped DEF HostState
<1> HIDE DEF c, name
<1>7. pn \in PanelState /\ pn.slot = s /\ pn.listed = c /\ pg \in PageState /\ pg.listed = c
  <2>1. c \in Content /\ s \in Slots \cup {None} /\ name \in Fields \cup {None} /\ None \in Content
        /\ s # None
    BY <1>1, <1>2, NoneAssumption DEF Content
  <2>2. pn \in PanelState /\ pn.slot = s /\ pn.listed = c
    BY <1>2, <2>1 DEF PanelState, ClosedPanel
  <2>3. pg \in PageState /\ pg.listed = c
    BY <2>1 DEF PageState, NoPage
  <2> QED BY <2>2, <2>3
<1> HIDE DEF pn, pg
<1>8. PanelTyped'
  BY <1>1, <1>3, <1>5, <1>7, NoneAssumption DEF IInv, PanelTyped, IsOpen
<1> HIDE DEF ls
<1>9. /\ host' \in HostState /\ host'.leases = ls /\ host'.map = hs.map
      /\ host'.file = hs.file /\ host'.opened = hs.opened /\ Filed(host')
  BY <1>1, <1>3, <1>6, NewLeases DEF Sound
<1>10. Redirects(Refs(hs, gate, export), Refs(host', gate', export), Holders, o, h)
  <2>1. gate'[p].handle = h /\ \A q \in Panels : q # p => gate'[q].handle = gate[q].handle
    BY <1>3, <1>5 DEF IInv, PanelTyped
  <2> QED BY <1>9, <2>1, GateRedirects
<1>11. Sound(host', gate', export) /\ Grows(hs, host')
  BY <1>4, <1>9, <1>10, HoldSound DEF ls
<1> QED BY <1>8, <1>11

\* OpenRow keeps the invariant, and opens or closes no handle again.
LEMMA OpenRowStep ==
  ASSUME IInv, NEW e \in Editors, NEW p \in Panels, OpenRow(e, p)
  PROVE  IInv' /\ Grows(host, host')
<1> DEFINE s == RowSlot(e)
           h == host.map[s]
           i == IF rowAsk[e].index \in DOMAIN Listing[FileOf(h)] THEN rowAsk[e].index ELSE 1
<1>1. rowAsk[e] # None /\ RowOpens(e) /\ OpenPanel(p, s, host, h, i) /\ UNCHANGED export
  BY DEF OpenRow, exportVars
<1>2. rowAsk[e] \in [page : Nat, of : Listed, index : Nat]
  BY <1>1 DEF IInv, EditorTyped
<1>3. s \in DocSlots /\ s \in Slots
  BY <1>2 DEF RowSlot, Listed, Slots
<1>4. h # None
  BY <1>1 DEF RowOpens
<1>5. Sound(host, gate, export)
  BY DEF IInv
<1>6. h \in 1..host.opened /\ h \notin host.leases.closed /\ host.file[h] \in Contents
  BY <1>3, <1>4, <1>5, ReferredIsOpen
<1>7. i \in DOMAIN Listing[host.file[h]]
  <2>1. CASE rowAsk[e].index \in DOMAIN Listing[FileOf(h)]
    BY <2>1 DEF FileOf
  <2>2. CASE rowAsk[e].index \notin DOMAIN Listing[FileOf(h)]
    <3>1. At(FileOf(h), rowAsk[e].index) = None
      BY <2>2 DEF At
    <3>2. s # "grib" /\ Listing[FileOf(h)] # <<>>
      BY <1>1, <3>1 DEF RowOpens, Renderable
    <3> QED BY <1>6, <2>2, <3>2, ListingTyped DEF FileOf
  <2> QED BY <2>1, <2>2
<1> HIDE DEF h, i, s
<1>8. PanelTyped' /\ Sound(host, gate, export)' /\ Grows(host, host')
  BY <1>1, <1>3, <1>5, <1>6, <1>7, OpenPanelTyped
<1>9. EditorTyped'
  BY DEF OpenRow, IInv, EditorTyped
<1> QED BY <1>8, <1>9, Untouched DEF IInv, OpenRow

\* OpenStore keeps the invariant, and opens or closes no handle again.
LEMMA OpenStoreStep ==
  ASSUME IInv, NEW p \in Panels, NEW c \in StoreContents, OpenStore(p, c)
  PROVE  IInv' /\ Grows(host, host')
<1> DEFINE hs == OpenInto(host, "zarr", c, reverts)
<1>1. c \in Contents /\ SlotOf[c] = "zarr" /\ "zarr" \in Slots /\ reverts \in Nat
  BY ContentsAssumption DEF Slots, IInv, DocTyped
<1>2. host.opened < MaxHandles /\ UNCHANGED <<docVars, editorVars, exportVars>>
  BY DEF OpenStore
<1>3. /\ Sound(hs, gate, export) /\ Grows(host, hs)
      /\ hs.opened = host.opened + 1 /\ hs.map["zarr"] = hs.opened /\ hs.file[hs.opened] = c
  BY <1>1, <1>2, OpenIntoSound DEF IInv
<1>4. host.opened + 1 \in 1..MaxHandles /\ host.opened + 1 # None
  BY <1>2, BoundsAssumption, NoneAssumption DEF IInv, Sound, HostState
<1>5. PanelTyped' /\ Sound(host, gate, export)' /\ Grows(host, host')
  <2>1. CASE Listing[c] # <<>>
    <3>1. OpenPanel(p, "zarr", hs, hs.opened, 1) /\ export' = export
      BY <1>2, <2>1 DEF OpenStore, exportVars
    <3>2. hs.opened \in 1..hs.opened /\ hs.opened \notin hs.leases.closed
      BY <1>1, <1>3, <1>4, ReferredIsOpen
    <3>3. 1 \in DOMAIN Listing[hs.file[hs.opened]]
      BY <1>1, <1>3, <2>1, ListingTyped
    <3> HIDE DEF hs
    <3>4. PanelTyped' /\ Sound(host, gate, export)' /\ Grows(hs, host')
      BY <1>1, <1>3, <3>1, <3>2, <3>3, OpenPanelTyped
    <3>5. Grows(host, host')
      BY <1>3, <3>4, GrowsOn DEF IInv, Sound
    <3> QED BY <3>4, <3>5
  <2>2. CASE Listing[c] = <<>>
    <3> DEFINE n == host.opened + 1
               ls == [host.leases EXCEPT !.closed = @ \cup {n}]
    <3>0. host \in HostState /\ hs \in HostState /\ n \in Handles
      BY <1>3, <1>4 DEF IInv, Sound, Handles
    <3>1. /\ host' = [host EXCEPT !.opened = hs.opened, !.file = hs.file, !.born = hs.born,
                                  !.leases.closed = @ \cup {hs.opened}]
          /\ UNCHANGED panelVars
      BY <2>2 DEF OpenStore
    <3>2. /\ hs.opened = n
          /\ hs.file = [host.file EXCEPT ![n] = c]
      BY <1>3, <3>0 DEF OpenInto, HostState
    <3> HIDE DEF hs, n
    <3>3. host' = [host EXCEPT !.opened = n, !.file = hs.file, !.born = hs.born, !.leases = ls]
      BY <3>0, <3>1, <3>2 DEF HostState
    <3>4. /\ ls \in LeaseState(Handles, Holders)
          /\ ls.holders = host.leases.holders /\ ls.closed = host.leases.closed \cup {n}
      BY <3>0 DEF HostState, LeaseState
    <3> HIDE DEF ls
    <3>5. n \in 0..MaxHandles
      BY <1>4 DEF n
    <3>6. /\ host' \in HostState /\ host'.opened = n /\ host'.leases = ls
          /\ host'.map = host.map /\ host'.file = [host.file EXCEPT ![n] = c]
      BY <3>0, <3>2, <3>3, <3>4, <3>5 DEF HostState
    <3>7. \A k \in 1..host.opened : host'.file[k] = host.file[k] /\ k # n
      BY <3>0, <3>6, BoundsAssumption DEF HostState, Handles, n
    <3>8. host'.file[n] = c
      BY <3>0, <3>6 DEF HostState
    <3>9. \A k \in 1..n : k \in 1..host.opened \/ k = n
      BY <3>0 DEF HostState, n
    <3>10. \A k \in 1..host'.opened : host'.file[k] \in Contents
      BY <1>1, <3>6, <3>7, <3>8, <3>9 DEF IInv, Sound
    <3>11. Filed(host')
      BY <3>6, <3>7, ReferredIsOpen DEF IInv, Sound, Filed
    <3>12. /\ \A o \in Holders : Refs(host', gate, export)[o] = Refs(host, gate, export)[o]
           /\ \A o \in Holders : Refs(host, gate, export)[o] # n
      <4>1. \A o \in Holders : Refs(host', gate, export)[o] = Refs(host, gate, export)[o]
        BY <3>6, HoldersByKind, RefsAt
      <4>2. \A o \in Holders : Refs(host, gate, export)[o] # n
        BY <1>4, <3>7 DEF IInv, Sound, Accounted, n
      <4> QED BY <4>1, <4>2
    <3>13. Accounted(ls, MaxHandles, Holders, n, Refs(host', gate, export))
      <4> DEFINE ref == Refs(host, gate, export)
                 new == Refs(host', gate, export)
                 k == host.opened
      <4>1. /\ Accounted(host.leases, MaxHandles, Holders, k, ref)
            /\ \A o \in Holders : new[o] = ref[o]
            /\ \A o \in Holders : ref[o] # n
            /\ \A g \in 1..n : g \in 1..k \/ g = n
            /\ \A g \in 1..k : g \in 1..n /\ g # n
            /\ n \in 1..n
        BY <1>4, <3>0, <3>7, <3>9, <3>12 DEF IInv, Sound, HostState, n
      <4> HIDE DEF ref, new, k
      <4>2. \A o \in Holders : new[o] = None \/ new[o] \in 1..n
        BY <4>1 DEF Accounted
      <4>3. \A h \in 1..MaxHandles, o \in Holders : o \in ls.holders[h] <=> new[o] = h
        BY <3>4, <4>1 DEF Accounted
      <4>4. ls.closed \subseteq 1..n
        BY <3>4, <4>1 DEF Accounted
      <4>5. \A h \in 1..n : h \notin ls.closed <=> \E o \in Holders : new[o] = h
        BY <3>4, <4>1 DEF Accounted
      <4> QED BY <3>4, <3>5, <4>2, <4>3, <4>4, <4>5 DEF Accounted, Handles, new
    <3>14. Sound(host', gate, export)
      BY <3>6, <3>10, <3>11, <3>13 DEF Sound
    <3>15. Grows(host, host')
      BY <3>0, <3>4, <3>6 DEF Grows, HostState, n
    <3>16. gate' = gate /\ export' = export
      BY <1>2, <3>1 DEF panelVars, exportVars
    <3> QED BY <3>1, <3>14, <3>15, <3>16, Untouched
  <2> QED BY <2>1, <2>2
<1> QED BY <1>2, <1>5, Untouched DEF IInv

\* ClosePanel keeps the invariant, and opens or closes no handle again.
LEMMA ClosePanelStep ==
  ASSUME IInv, NEW p \in Panels, ClosePanel(p)
  PROVE  IInv' /\ Grows(host, host')
<1> DEFINE let_go == [host EXCEPT !.leases = GateRelease(host.leases, gate[p], GateHolder(p))]
<1>1. /\ host' = DropEntry(let_go, "zarr") \/ host' = let_go
      /\ gate' = [gate EXCEPT ![p] = NewGate(None)]
      /\ panel' = [panel EXCEPT ![p] = ClosedPanel]
      /\ page' = [page EXCEPT ![p] = NoPage]
      /\ toHost' = [toHost EXCEPT ![p] = <<>>]
      /\ toPage' = [toPage EXCEPT ![p] = <<>>]
      /\ UNCHANGED <<docVars, editorVars, exportVars>>
  BY DEF ClosePanel
<1>2. NewGate(None) \in GateState(Handles) /\ NewGate(None).handle = None
  BY DEF NewGate, GateState
<1>3. ClosedPanel \in PanelState /\ ClosedPanel.slot = None /\ NoPage \in PageState
  BY DEF ClosedPanel, PanelState, NoPage, PageState, Content
<1>4. PanelTyped'
  BY <1>1, <1>2, <1>3 DEF IInv, PanelTyped, IsOpen
<1>5. Sound(host, gate, export)' /\ Grows(host, host')
  <2>1. Sound(let_go, gate', export) /\ Grows(host, let_go)
    BY <1>1, <1>2, LetGoSound
  <2> HIDE DEF let_go
  <2>2. export' = export /\ "zarr" \in Slots
    BY <1>1 DEF exportVars, Slots
  <2>3. CASE host' = let_go
    BY <2>1, <2>2, <2>3
  <2>4. CASE host' = DropEntry(let_go, "zarr")
    <3>1. Sound(host', gate', export) /\ Grows(let_go, host')
      BY <2>1, <2>2, <2>4, DropEntrySound
    <3>2. Grows(host, host')
      BY <2>1, <3>1, GrowsOn DEF IInv, Sound
    <3> QED BY <2>2, <3>1, <3>2
  <2> QED BY <1>1, <2>3, <2>4
<1> QED BY <1>1, <1>4, <1>5, Untouched DEF IInv

\* ImportColorTable keeps the invariant, and opens or closes no handle again.
LEMMA ImportColorTableStep ==
  ASSUME IInv, ImportColorTable
  PROVE  IInv' /\ Grows(host, host')
<1>1. ASSUME NEW p \in Panels
      PROVE  page'[p] \in PageState /\ (IsOpen(p) => page'[p].listed \in Contents)
  <2>1. /\ gate[p] \in GateState(Handles) /\ page[p] \in PageState /\ panel[p] \in PanelState
        /\ gate[p].written \in Nat
        /\ IsOpen(p) => panel[p].listed \in Contents
    BY DEF IInv, PanelTyped, GateState
  <2>2. Rebuilt(p, gate[p]) \in PageState /\ Rebuilt(p, gate[p]).listed = panel[p].listed
    BY <2>1, WrittenTyped DEF Rebuilt
  <2> QED BY <2>1, <2>2 DEF ImportColorTable
<1>2. page' \in [Panels -> PageState]
  BY <1>1 DEF ImportColorTable
<1>3. PanelTyped'
  <2>1. toPage' \in [Panels -> Seq(Answer)]
    BY LosesTyped DEF ImportColorTable
  <2> QED BY <1>1, <1>2, <2>1 DEF IInv, PanelTyped, IsOpen, ImportColorTable
<1> QED BY <1>3, Untouched DEF IInv, ImportColorTable, exportVars

-----------------------------------------------------------------------------
(* What a page posts and is told                                           *)

\* A message posted by a panel's page.
LEMMA PostTyped ==
  ASSUME IInv, NEW p \in Panels, NEW type \in RequestType, NEW c \in Contents, NEW i \in Nat,
         Post(p, type, c, i), NEW pg \in PageState, pg.listed = page[p].listed,
         page' = [page EXCEPT ![p] = pg]
  PROVE  IInv' /\ Grows(host, host')
<1> DEFINE m == [type |-> type, page |-> page[p].number, of |-> c, index |-> i]
<1>1. m \in Message
  BY DEF IInv, PanelTyped, PageState, Message
<1>2. toHost[p] \in Seq(Message) /\ toHost' = [toHost EXCEPT ![p] = Append(toHost[p], m)]
  BY DEF IInv, PanelTyped, Post
<1> HIDE DEF m
<1>3. Append(toHost[p], m) \in Seq(Message)
  BY <1>1, <1>2
<1>4. /\ toHost' \in [Panels -> Seq(Message)] /\ page' \in [Panels -> PageState]
      /\ \A q \in Panels : page'[q].listed = page[q].listed
  BY <1>2, <1>3 DEF IInv, PanelTyped
<1>5. UNCHANGED <<docVars, host, editorVars, gate, panel, toPage, exportVars>>
  BY DEF Post
<1>6. PanelTyped'
  BY <1>4, <1>5 DEF IInv, PanelTyped, IsOpen
<1> QED BY <1>5, <1>6, Untouched DEF IInv, exportVars

\* LoadPage keeps the invariant, and opens or closes no handle again.
LEMMA LoadPageStep ==
  ASSUME IInv, NEW p \in Panels, IsOpen(p), NEW i \in Numbers(p), LoadPage(p, i)
  PROVE  IInv' /\ Grows(host, host')
<1> DEFINE pg == [page[p] EXCEPT !.loaded = TRUE, !.waiting = TRUE, !.offer = page[p].html]
<1>1. page[p].listed \in Contents /\ page[p] \in PageState
  BY CurrentTyped
<1>2. i \in Nat /\ "ready" \in RequestType
  BY <1>1, ListingTyped DEF Numbers, RequestType
<1>3. pg \in PageState /\ pg.listed = page[p].listed
  BY <1>1 DEF PageState
<1>4. Post(p, "ready", page[p].listed, i) /\ page' = [page EXCEPT ![p] = pg]
  BY DEF LoadPage, IInv, PanelTyped
<1> HIDE DEF pg
<1> QED BY <1>1, <1>2, <1>3, <1>4, PostTyped

\* AskRender keeps the invariant, and opens or closes no handle again.
LEMMA AskRenderStep ==
  ASSUME IInv, NEW p \in Panels, IsOpen(p), NEW i \in Numbers(p), AskRender(p, i)
  PROVE  IInv' /\ Grows(host, host')
<1> DEFINE pg == [page[p] EXCEPT !.waiting = TRUE, !.offer = None]
<1>1. page[p].listed \in Contents /\ page[p] \in PageState
  BY CurrentTyped
<1>2. i \in Nat /\ "rerenderRequest" \in RequestType
  BY <1>1, ListingTyped DEF Numbers, RequestType
<1>3. pg \in PageState /\ pg.listed = page[p].listed
  BY <1>1 DEF PageState, Content
<1>4. Post(p, "rerenderRequest", page[p].listed, i) /\ page' = [page EXCEPT ![p] = pg]
  BY DEF AskRender, IInv, PanelTyped
<1> HIDE DEF pg
<1> QED BY <1>1, <1>2, <1>3, <1>4, PostTyped

\* AskOther keeps the invariant, and opens or closes no handle again.
LEMMA AskOtherStep ==
  ASSUME IInv, NEW p \in Panels, IsOpen(p), NEW i \in Numbers(p), NEW type \in RequestType,
         AskOther(p, type, i)
  PROVE  IInv' /\ Grows(host, host')
<1>1. page[p].listed \in Contents /\ page[p] \in PageState
  BY CurrentTyped
<1>2. i \in Nat
  BY <1>1, ListingTyped DEF Numbers
<1>3. Post(p, type, page[p].listed, i) /\ page' = [page EXCEPT ![p] = page[p]]
  BY DEF AskOther, IInv, PanelTyped
<1> QED BY <1>1, <1>2, <1>3, PostTyped

\* AskPick keeps the invariant, and opens or closes no handle again.
LEMMA AskPickStep ==
  ASSUME IInv, NEW p \in Panels, IsOpen(p), NEW i \in DOMAIN Listing[page[p].offer], AskPick(p, i)
  PROVE  IInv' /\ Grows(host, host')
<1> DEFINE pg == [page[p] EXCEPT !.waiting = TRUE]
<1>1. page[p] \in PageState
  BY CurrentTyped
<1>2. page[p].offer \in Contents
  BY <1>1 DEF AskPick, PageState, Content
<1>3. i \in Nat /\ "pickMessage" \in RequestType
  BY <1>2, ListingTyped DEF RequestType
<1>4. pg \in PageState /\ pg.listed = page[p].listed
  BY <1>1 DEF PageState
<1>5. Post(p, "pickMessage", page[p].offer, i) /\ page' = [page EXCEPT ![p] = pg]
  BY DEF AskPick, IInv, PanelTyped
<1> HIDE DEF pg
<1> QED BY <1>2, <1>3, <1>4, <1>5, PostTyped

\* Only the page and the replies on their way to it change.
LEMMA PageOnly ==
  ASSUME IInv, NEW p \in Panels, NEW pg \in PageState, pg.listed = page[p].listed,
         page' = [page EXCEPT ![p] = pg], toPage' \in [Panels -> Seq(Answer)],
         UNCHANGED <<docVars, host, editorVars, gate, panel, toHost, exportVars>>
  PROVE  IInv' /\ Grows(host, host')
<1>1. page' \in [Panels -> PageState] /\ \A q \in Panels : page'[q].listed = page[q].listed
  BY DEF IInv, PanelTyped
<1>2. PanelTyped'
  BY <1>1 DEF IInv, PanelTyped, IsOpen
<1> QED BY <1>2, Untouched DEF IInv, exportVars

\* ReceiveReply keeps the invariant, and opens or closes no handle again.
LEMMA ReceiveReplyStep ==
  ASSUME IInv, NEW p \in Panels, ReceiveReply(p)
  PROVE  IInv' /\ Grows(host, host')
<1> DEFINE r == Head(toPage[p])
           pg == IF ~page[p].loaded THEN page[p]
                 ELSE [page[p] EXCEPT !.waiting = FALSE, !.answer = r.type,
                                      !.offer = IF r.type = "gone" THEN page[p].offer ELSE r.offers]
<1>1. page[p] \in PageState /\ toPage[p] \in Seq(Answer) /\ toPage[p] # <<>>
  BY DEF IInv, PanelTyped, ReceiveReply
<1>2. r \in Answer /\ Tail(toPage[p]) \in Seq(Answer)
  BY <1>1
<1>3. pg \in PageState /\ pg.listed = page[p].listed
  <2> HIDE DEF r
  <2> QED BY <1>1, <1>2 DEF PageState, Answer
<1>4. page' = [page EXCEPT ![p] = pg]
  <2>1. page' = IF ~page[p].loaded THEN page
                ELSE [page EXCEPT ![p].waiting = FALSE, ![p].answer = r.type,
                                  ![p].offer = IF r.type = "gone" THEN @ ELSE r.offers]
    BY DEF ReceiveReply
  <2> HIDE DEF r
  <2>2. CASE ~page[p].loaded
    BY <2>1, <2>2 DEF IInv, PanelTyped
  <2>3. CASE page[p].loaded
    BY <1>1, <2>1, <2>3 DEF IInv, PanelTyped, PageState
  <2> QED BY <2>2, <2>3
<1>5. toPage' \in [Panels -> Seq(Answer)]
  BY <1>2 DEF ReceiveReply, IInv, PanelTyped
<1> HIDE DEF pg
<1> QED BY <1>3, <1>4, <1>5, PageOnly DEF ReceiveReply

\* HidePage keeps the invariant, and opens or closes no handle again.
LEMMA HidePageStep ==
  ASSUME IInv, NEW p \in Panels, HidePage(p)
  PROVE  IInv' /\ Grows(host, host')
<1> DEFINE pg == [page[p] EXCEPT !.visible = FALSE, !.loaded = FALSE, !.waiting = FALSE,
                                 !.answer = None, !.offer = None]
<1>1. page[p] \in PageState
  BY DEF IInv, PanelTyped
<1>2. pg \in PageState /\ pg.listed = page[p].listed
  BY <1>1 DEF PageState, Content
<1>3. page' = [page EXCEPT ![p] = pg]
  BY DEF HidePage, IInv, PanelTyped
<1>4. toPage' \in [Panels -> Seq(Answer)]
  BY LosesTyped DEF HidePage
<1> HIDE DEF pg
<1> QED BY <1>2, <1>3, <1>4, PageOnly DEF HidePage

\* ShowPage keeps the invariant, and opens or closes no handle again.
LEMMA ShowPageStep ==
  ASSUME IInv, NEW p \in Panels, ShowPage(p)
  PROVE  IInv' /\ Grows(host, host')
<1> DEFINE pg == [page[p] EXCEPT !.visible = TRUE]
<1>1. page[p] \in PageState
  BY DEF IInv, PanelTyped
<1>2. pg \in PageState /\ pg.listed = page[p].listed
  BY <1>1 DEF PageState
<1>3. page' = [page EXCEPT ![p] = pg] /\ toPage' \in [Panels -> Seq(Answer)]
  BY LosesTyped DEF ShowPage, IInv, PanelTyped
<1> HIDE DEF pg
<1> QED BY <1>2, <1>3, PageOnly DEF ShowPage

-----------------------------------------------------------------------------
(* What a panel's message handler does                                     *)

\* The message a handler takes is one, and so are those behind it.
LEMMA AskTyped ==
  ASSUME IInv, NEW p \in Panels, Arrived(p)
  PROVE  /\ Ask(p) \in Message
         /\ Consume(p) => toHost' \in [Panels -> Seq(Message)]
<1>1. toHost[p] \in Seq(Message) /\ toHost[p] # <<>> /\ toHost \in [Panels -> Seq(Message)]
  BY DEF IInv, PanelTyped, Arrived
<1>2. Head(toHost[p]) \in Message /\ Tail(toHost[p]) \in Seq(Message)
  BY <1>1
<1> QED BY <1>1, <1>2 DEF Ask, Consume

\* What a panel answers with is an answer.
LEMMA AnswersTyped ==
  /\ Picture \in Answer /\ Gone \in Answer
  /\ \A c \in Contents : Refusal(c) \in Answer
BY DEF Picture, Gone, Refusal, Answer, Content

\* A reply, or none, leaves a queue of answers.
LEMMA ReplyTyped ==
  ASSUME IInv, NEW p \in Panels, NEW r, r \in Answer \/ r = NoReply, Reply(p, r)
  PROVE  toPage' \in [Panels -> Seq(Answer)]
<1>1. toPage \in [Panels -> Seq(Answer)]
  BY DEF IInv, PanelTyped
<1>2. CASE r = NoReply
  BY <1>1, <1>2 DEF Reply
<1>3. CASE r # NoReply
  <2>1. toPage' = [toPage EXCEPT ![p] = Append(toPage[p], r)]
    BY <1>3 DEF Reply
  <2>2. Append(toPage[p], r) \in Seq(Answer)
    BY <1>1, <1>3
  <2> QED BY <1>1, <2>1, <2>2
<1> QED BY <1>2, <1>3

\* A handler that changes one gate, panel and page.
LEMMA HandledTyped ==
  ASSUME IInv, NEW p \in Panels, IsOpen(p),
         NEW g \in GateState(Handles), gate' = [gate EXCEPT ![p] = g],
         NEW pn \in PanelState, panel' = [panel EXCEPT ![p] = pn],
         NEW pg \in PageState, page' = [page EXCEPT ![p] = pg],
         pn.slot = panel[p].slot, pn.listed \in Contents, pg.listed \in Contents,
         toHost' \in [Panels -> Seq(Message)], toPage' \in [Panels -> Seq(Answer)]
  PROVE  PanelTyped'
BY DEF IInv, PanelTyped, IsOpen

\* The state when a request is served with nothing of its own to change but the
\* panel, to pn.
LEMMA ServeTyped ==
  ASSUME IInv, NEW p \in Panels, IsOpen(p), Arrived(p), Consume(p),
         gate' = [gate EXCEPT ![p] = GateAfter(p)],
         toPage' \in [Panels -> Seq(Answer)],
         NEW pn \in PanelState, panel' = [panel EXCEPT ![p] = pn],
         pn.slot = panel[p].slot, pn.listed \in Contents,
         UNCHANGED page
  PROVE  PanelTyped'
<1>1. GateAfter(p) \in GateState(Handles)
  BY ServedSound
<1>2. toHost' \in [Panels -> Seq(Message)]
  BY AskTyped
<1>3. page[p] \in PageState /\ page[p].listed \in Contents /\ page' = [page EXCEPT ![p] = page[p]]
  BY CurrentTyped DEF IInv, PanelTyped
<1> QED BY <1>1, <1>2, <1>3, HandledTyped

\* The leases admit leaves are sound with the gate it leaves.
LEMMA KeepLeasesSound ==
  ASSUME IInv, NEW p \in Panels, IsOpen(p), KeepLeases(p),
         gate' = [gate EXCEPT ![p] = GateAfter(p)], UNCHANGED export
  PROVE  Sound(host, gate, export)' /\ Grows(host, host')
BY ServedSound DEF KeepLeases

\* DropRequest keeps the invariant, and opens or closes no handle again.
LEMMA DropRequestStep ==
  ASSUME IInv, NEW p \in Panels, DropRequest(p)
  PROVE  IInv' /\ Grows(host, host')
<1>1. PanelTyped'
  BY AskTyped DEF DropRequest, IInv, PanelTyped, IsOpen
<1> QED BY <1>1, Untouched DEF IInv, DropRequest, exportVars

\* Paint keeps the invariant, and opens or closes no handle again.
LEMMA PaintStep ==
  ASSUME IInv, NEW p \in Panels, IsOpen(p), Paint(p)
  PROVE  IInv' /\ Grows(host, host')
<1> DEFINE pn == IF panel[p].slot # "grib" /\ Ask(p).type = "rerenderRequest"
                 THEN [panel[p] EXCEPT !.refusing = FALSE, !.lost = None] ELSE PanelAfter(p)
           r == IF Reader(p) = None THEN Gone ELSE Picture
<1>1. /\ Arrived(p) /\ gate' = [gate EXCEPT ![p] = GateAfter(p)] /\ Consume(p) /\ Reply(p, r)
      /\ KeepLeases(p) /\ panel' = [panel EXCEPT ![p] = pn]
      /\ UNCHANGED <<docVars, editorVars, page, exportVars>>
  BY DEF Paint, Serve
<1>2. pn \in PanelState /\ pn.listed \in Contents /\ pn.slot = panel[p].slot
  <2>1. panel[p] \in PanelState /\ panel[p].listed \in Contents
    BY CurrentTyped
  <2>2. /\ PanelAfter(p) \in PanelState /\ PanelAfter(p).listed \in Contents
        /\ PanelAfter(p).slot = panel[p].slot
    BY ServedSound
  <2> QED BY <2>1, <2>2 DEF PanelState
<1>3. toPage' \in [Panels -> Seq(Answer)]
  BY <1>1, AnswersTyped, ReplyTyped
<1> HIDE DEF pn, r
<1>4. PanelTyped'
  BY <1>1, <1>2, <1>3, ServeTyped
<1>5. Sound(host, gate, export)' /\ Grows(host, host')
  BY <1>1, KeepLeasesSound DEF exportVars
<1> QED BY <1>1, <1>4, <1>5, Untouched DEF IInv

\* A request whose branch keeps the panel as admit left it.
LEMMA KeepStep ==
  ASSUME IInv, NEW p \in Panels, IsOpen(p), NEW r, r \in Answer \/ r = NoReply,
         Serve(p, r), Keep(p)
  PROVE  PanelTyped'
<1>1. /\ Arrived(p) /\ gate' = [gate EXCEPT ![p] = GateAfter(p)] /\ Consume(p) /\ Reply(p, r)
      /\ panel' = [panel EXCEPT ![p] = PanelAfter(p)] /\ UNCHANGED page
  BY DEF Serve, Keep
<1>2. /\ PanelAfter(p) \in PanelState /\ PanelAfter(p).listed \in Contents
      /\ PanelAfter(p).slot = panel[p].slot
  BY ServedSound
<1>3. toPage' \in [Panels -> Seq(Answer)]
  BY <1>1, ReplyTyped
<1> QED BY <1>1, <1>2, <1>3, ServeTyped

\* RefuseAgain keeps the invariant, and opens or closes no handle again.
LEMMA RefuseAgainStep ==
  ASSUME IInv, NEW p \in Panels, IsOpen(p), RefuseAgain(p)
  PROVE  IInv' /\ Grows(host, host')
<1> DEFINE r == IF Reader(p) = None THEN Gone ELSE Refusal(panel[p].listed)
<1>1. /\ Serve(p, r) /\ KeepLeases(p) /\ Keep(p) /\ UNCHANGED exportVars
      /\ gate' = [gate EXCEPT ![p] = GateAfter(p)] /\ UNCHANGED <<docVars, editorVars>>
  BY DEF RefuseAgain, Serve
<1>2. r \in Answer
  BY AnswersTyped, CurrentTyped
<1> HIDE DEF r
<1>3. PanelTyped'
  BY <1>1, <1>2, KeepStep
<1>4. Sound(host, gate, export)' /\ Grows(host, host')
  BY <1>1, KeepLeasesSound DEF exportVars
<1> QED BY <1>1, <1>3, <1>4, Untouched DEF IInv

\* Probe keeps the invariant, and opens or closes no handle again.
LEMMA ProbeStep ==
  ASSUME IInv, NEW p \in Panels, IsOpen(p), Probe(p)
  PROVE  IInv' /\ Grows(host, host')
<1>1. /\ Serve(p, NoReply) /\ KeepLeases(p) /\ Keep(p) /\ UNCHANGED exportVars
      /\ gate' = [gate EXCEPT ![p] = GateAfter(p)] /\ UNCHANGED <<docVars, editorVars>>
  BY DEF Probe, Serve
<1>2. PanelTyped'
  BY <1>1, KeepStep
<1>3. Sound(host, gate, export)' /\ Grows(host, host')
  BY <1>1, KeepLeasesSound DEF exportVars
<1> QED BY <1>1, <1>2, <1>3, Untouched DEF IInv

\* The handle a served request is read from.
LEMMA ReaderOpen ==
  ASSUME IInv, NEW p \in Panels, IsOpen(p), Reader(p) # None
  PROVE  LET hs == [host EXCEPT !.leases = LeasesAfter(p)] IN
         /\ Reader(p) \in 1..hs.opened /\ Reader(p) \in Handles /\ Reader(p) \in Handle
         /\ Reader(p) \notin hs.leases.closed
         /\ FileOf(Reader(p)) \in Contents
<1> DEFINE hs == [host EXCEPT !.leases = LeasesAfter(p)]
           g2 == [gate EXCEPT ![p] = GateAfter(p)]
<1>1. Sound(hs, g2, export)
  BY ServedSound
<1>2. Reader(p) = g2[p].handle
  BY DEF Reader, HandleOf, IInv, PanelTyped
<1>3. hs.file = host.file
  BY DEF IInv, Sound, HostState
<1> HIDE DEF hs, g2
<1>4. /\ Reader(p) \in 1..hs.opened /\ Reader(p) \in Handles
      /\ Reader(p) \notin hs.leases.closed /\ hs.file[Reader(p)] \in Contents
  BY <1>1, <1>2, ReferredIsOpen
<1> QED BY <1>3, <1>4 DEF hs, FileOf, Handle

\* StartExport keeps the invariant, and opens or closes no handle again.
LEMMA StartExportStep ==
  ASSUME IInv, NEW p \in Panels, IsOpen(p), NEW x \in Exports, StartExport(p, x)
  PROVE  IInv' /\ Grows(host, host')
<1>1. /\ Serve(p, NoReply) /\ Keep(p) /\ Arrived(p) /\ export[x].stage = "idle"
      /\ gate' = [gate EXCEPT ![p] = GateAfter(p)] /\ UNCHANGED <<docVars, editorVars>>
  BY DEF StartExport, Serve
<1>2. PanelTyped'
  BY <1>1, KeepStep
<1>3. CASE Reader(p) = None \/ Refuses(p)
  <2>1. KeepLeases(p) /\ UNCHANGED exportVars
    BY <1>3 DEF StartExport
  <2>2. Sound(host, gate, export)' /\ Grows(host, host')
    BY <1>1, <2>1, KeepLeasesSound DEF exportVars
  <2> QED BY <1>1, <1>2, <2>1, <2>2, Untouched DEF IInv
<1>4. CASE ~(Reader(p) = None \/ Refuses(p))
  <2> DEFINE hs == [host EXCEPT !.leases = LeasesAfter(p)]
             g2 == [gate EXCEPT ![p] = GateAfter(p)]
             h == Reader(p)
             o == ExportHolder(x)
             number == ReadField(p).number
             heading == ReadField(p).heading
             ex == [stage |-> "format", handle |-> h, slot |-> panel[p].slot,
                    index |-> number, asked |-> heading, at |-> reverts, csv |-> None]
  <2>1. /\ host' = [host EXCEPT !.leases = Hold(LeasesAfter(p), h, o)]
        /\ export' = [export EXCEPT ![x] = ex] /\ saved' = saved
    BY <1>4 DEF StartExport
  <2>2. /\ h # None /\ h \in 1..hs.opened /\ h \in Handles /\ h \in Handle
        /\ h \notin hs.leases.closed
    BY <1>4, ReaderOpen
  <2>3. /\ Sound(hs, g2, export) /\ Grows(host, hs)
        /\ hs.leases = LeasesAfter(p) /\ host \in HostState
    BY ServedSound DEF IInv, Sound, HostState
  <2>4. /\ export \in [Exports -> ExportState] /\ export[x].handle = None
        /\ panel[p] \in PanelState /\ panel[p].slot \in Slots /\ panel[p].slot # None
        /\ panel[p].listed \in Contents
        /\ Ask(p) \in Message
    BY <1>1, CurrentTyped, AskTyped, NoneAssumption DEF IInv, ExportTyped
  <2>5. number \in Nat /\ heading \in Fields \cup {None} /\ reverts \in Nat
    <3>1. panel[p].shown \in Nat /\ panel[p].name \in Fields \cup {None} /\ Ask(p).index \in Nat
      BY <2>4 DEF PanelState, Message
    <3>2. \A i : At(panel[p].listed, i) \in Fields \cup {None}
      BY <2>4, ListingTyped
    <3> QED BY <3>1, <3>2 DEF ReadField, IInv, DocTyped
  <2> HIDE DEF h, number, heading
  <2>6. ex \in ExportState /\ ex.handle = h /\ ex.stage = "format" /\ ex.slot = panel[p].slot
    BY <2>2, <2>4, <2>5 DEF ExportState
  <2> HIDE DEF ex
  <2>7. ExportTyped'
    BY <2>1, <2>2, <2>4, <2>6 DEF IInv, ExportTyped
  <2>8. Sound(host, gate, export)' /\ Grows(hs, host')
    <3> DEFINE ls == Hold(hs.leases, h, o)
    <3>1. o \in Holders /\ Refs(hs, g2, export)[o] = None
      BY <2>4, RefsAt
    <3>2. ls \in LeaseState(Handles, Holders)
      BY <2>2, <2>3, <3>1, LeasesTyped DEF Sound, HostState
    <3>3. host' = [hs EXCEPT !.leases = ls]
      BY <2>1, <2>3 DEF HostState
    <3> HIDE DEF ls
    <3>4. /\ host' \in HostState /\ host'.leases = ls /\ host'.map = hs.map
          /\ host'.file = hs.file /\ host'.opened = hs.opened /\ Filed(host')
      <4> HIDE DEF hs
      <4> QED BY <2>3, <3>2, <3>3, NewLeases DEF Sound
    <3>5. export'[x].handle = h /\ \A y \in Exports : y # x => export'[y].handle = export[y].handle
      BY <2>1, <2>4, <2>6
    <3>6. Redirects(Refs(hs, g2, export), Refs(host', g2, export'), Holders, o, h)
      <4> HIDE DEF hs, g2
      <4> QED BY <3>4, <3>5, ExportRedirects
    <3>7. Sound(host', g2, export') /\ Grows(hs, host')
      <4> HIDE DEF hs, g2, o
      <4> QED BY <2>2, <2>3, <3>1, <3>4, <3>6, HoldSound DEF ls
    <3> QED BY <1>1, <3>7
  <2>9. Grows(host, host')
    <3> HIDE DEF hs
    <3> QED BY <2>3, <2>8, GrowsOn DEF IInv, Sound
  <2> QED BY <1>1, <1>2, <2>7, <2>8, <2>9, Untouched DEF IInv
<1> QED BY <1>3, <1>4

\* Pick keeps the invariant, and opens or closes no handle again.
LEMMA PickStep ==
  ASSUME IInv, NEW p \in Panels, IsOpen(p), Pick(p)
  PROVE  IInv' /\ Grows(host, host')
<1> DEFINE i == Ask(p).index
           h == Reader(p)
           picks == panel[p].refusing /\ h # None /\ i \in DOMAIN Listing[FileOf(h)]
           draws == picks /\ Renderable(At(FileOf(h), i))
           name == At(FileOf(h), i)
           moved == [panel[p] EXCEPT !.shown = i, !.name = name, !.refusing = FALSE]
           g == Rewritten(GateAfter(p), h)
           r == IF panel[p].refusing /\ h = None THEN Gone
                ELSE IF picks THEN Refusal(panel[p].listed) ELSE NoReply
<1>1. /\ Arrived(p) /\ Consume(p) /\ KeepLeases(p)
      /\ IF draws THEN LosesReplies({p}) ELSE Reply(p, r)
      /\ gate' = [gate EXCEPT ![p] = IF draws THEN g ELSE GateAfter(p)]
      /\ panel' = [panel EXCEPT ![p] = IF draws THEN moved ELSE PanelAfter(p)]
      /\ page' = IF draws THEN [page EXCEPT ![p] = Written(page[p], moved, g.written)] ELSE page
      /\ UNCHANGED <<docVars, editorVars, exportVars>>
  BY DEF Pick
<1>2. r \in Answer \/ r = NoReply
  BY AnswersTyped, CurrentTyped
<1>3. /\ toPage' \in [Panels -> Seq(Answer)] /\ toHost' \in [Panels -> Seq(Message)]
  <2> HIDE DEF r, draws
  <2>1. CASE draws
    BY <1>1, <2>1, LosesTyped, AskTyped
  <2>2. CASE ~draws
    BY <1>1, <1>2, <2>2, ReplyTyped, AskTyped
  <2> QED BY <2>1, <2>2
<1>4. /\ GateAfter(p) \in GateState(Handles)
      /\ PanelAfter(p) \in PanelState /\ PanelAfter(p).listed \in Contents
      /\ PanelAfter(p).slot = panel[p].slot
  BY ServedSound
<1>5. CASE draws
  <2>1. h # None /\ h = GateAfter(p).handle
    BY <1>5 DEF Reader, HandleOf
  <2>2. h \in Handle /\ FileOf(h) \in Contents
    BY <2>1, ReaderOpen
  <2>3. panel[p] \in PanelState /\ panel[p].listed \in Contents /\ page[p] \in PageState
        /\ i \in Nat /\ name \in Fields \cup {None}
    BY <1>1, <2>2, AskTyped, CurrentTyped, ListingTyped DEF Message
  <2> HIDE DEF i, name
  <2>4. moved \in PanelState /\ moved.slot = panel[p].slot /\ moved.listed = panel[p].listed
    BY <2>3 DEF PanelState
  <2> HIDE DEF moved
  <2>5. g \in GateState(Handles) /\ g.handle = GateAfter(p).handle /\ g.written \in Nat
    BY <1>4, <2>1, <2>2, GateTyped DEF GateState
  <2> HIDE DEF g, h
  <2>6. /\ Written(page[p], moved, g.written) \in PageState
        /\ Written(page[p], moved, g.written).listed = panel[p].listed
    BY <2>3, <2>4, <2>5, WrittenTyped
  <2>7. /\ gate' = [gate EXCEPT ![p] = g] /\ panel' = [panel EXCEPT ![p] = moved]
        /\ page' = [page EXCEPT ![p] = Written(page[p], moved, g.written)]
    BY <1>1, <1>5
  <2>8. PanelTyped'
    BY <1>3, <2>3, <2>4, <2>5, <2>6, <2>7, HandledTyped
  <2>9. Sound(host, gate, export)' /\ Grows(host, host')
    <3> DEFINE hs == [host EXCEPT !.leases = LeasesAfter(p)]
               g2 == [gate EXCEPT ![p] = GateAfter(p)]
    <3>1. Sound(hs, g2, export) /\ Grows(host, hs)
      BY ServedSound
    <3>2. \A q \in Panels : gate'[q].handle = g2[q].handle
      BY <2>5, <2>7 DEF IInv, PanelTyped
    <3>3. host' = hs /\ export' = export
      BY <1>1 DEF KeepLeases, exportVars
    <3> HIDE DEF hs, g2
    <3> QED BY <3>1, <3>2, <3>3, SameSound
  <2> QED BY <1>1, <2>8, <2>9, Untouched DEF IInv
<1>6. CASE ~draws
  <2>1. /\ gate' = [gate EXCEPT ![p] = GateAfter(p)]
        /\ panel' = [panel EXCEPT ![p] = PanelAfter(p)] /\ page' = page
    BY <1>1, <1>6
  <2>2. PanelTyped'
    BY <1>1, <1>3, <1>4, <2>1, ServeTyped
  <2>3. Sound(host, gate, export)' /\ Grows(host, host')
    BY <1>1, <2>1, KeepLeasesSound DEF exportVars
  <2> QED BY <1>1, <2>2, <2>3, Untouched DEF IInv
<1> QED BY <1>5, <1>6

-----------------------------------------------------------------------------
(* Moving a panel to its document's new handle                             *)

\* What every adopt that moves the gate keeps.
LEMMA AdoptCurrentSound ==
  ASSUME IInv, NEW p \in Panels, IsOpen(p), NEW g, g.handle = Current(p), AdoptCurrent(p, g)
  PROVE  /\ Sound(host, gate, export)' /\ Grows(host, host')
         /\ toHost' \in [Panels -> Seq(Message)]
         /\ FileOf(Current(p)) \in Contents /\ Current(p) \in Handle
         /\ Heard(gate[p]) \in GateState(Handles)
         /\ PanelMoves(p) /\ Ask(p) \in Message
         /\ DocTyped' /\ EditorTyped' /\ ExportTyped'
<1>1. /\ Arrived(p) /\ PanelMoves(p) /\ Consume(p) /\ gate' = [gate EXCEPT ![p] = g]
      /\ host' = [host EXCEPT !.leases =
                    GateAdopt(host.leases, gate[p], Current(p), GateHolder(p))]
      /\ UNCHANGED <<docVars, editorVars, exportVars>>
  BY DEF AdoptCurrent
<1>2. Sound(host', gate', export) /\ Grows(host, host')
  BY <1>1, AdoptSound
<1>3. FileOf(Current(p)) \in Contents /\ Current(p) \in Handle
  BY <1>1, CurrentTyped DEF PanelMoves, Moves
<1>4. Heard(gate[p]) \in GateState(Handles)
  BY CurrentTyped, GateTyped
<1> QED BY <1>1, <1>2, <1>3, <1>4, AskTyped, Untouched DEF exportVars

\* A number found in a file is one of its numbers.
LEMMA FoundTyped ==
  ASSUME NEW c \in Contents, NEW f, NEW i \in Found(c, f)
  PROVE  i \in DOMAIN Listing[c] /\ i \in Nat
BY ListingTyped DEF Found

\* FindMessage keeps the invariant, and opens or closes no handle again.
LEMMA FindMessageStep ==
  ASSUME IInv, NEW p \in Panels, IsOpen(p), FindMessage(p)
  PROVE  IInv' /\ Grows(host, host')
<1> DEFINE c == FileOf(Current(p))
           found == IF panel[p].refusing THEN {} ELSE Found(c, panel[p].name)
           g == Rewritten(Heard(gate[p]), Current(p))
<1>0. AdoptCurrent(p, g)
  BY DEF FindMessage
<1>1. Heard(gate[p]) \in GateState(Handles) /\ Current(p) \in Handle
  BY CurrentTyped, GateTyped
<1>2. g \in GateState(Handles) /\ g.handle = Current(p) /\ g.written \in Nat
  BY <1>1, GateTyped DEF GateState
<1>3. /\ Sound(host, gate, export)' /\ Grows(host, host')
      /\ toHost' \in [Panels -> Seq(Message)] /\ c \in Contents
      /\ DocTyped' /\ EditorTyped' /\ ExportTyped'
  BY <1>0, <1>2, AdoptCurrentSound
<1>4. PICK i \in found :
        LET moved == [panel[p] EXCEPT !.listed = c, !.shown = i] IN
        /\ panel' = [panel EXCEPT ![p] = moved]
        /\ page' = [page EXCEPT ![p] = Written(page[p], moved, g.written)]
  BY DEF FindMessage
<1> DEFINE moved == [panel[p] EXCEPT !.listed = c, !.shown = i]
<1>4a. panel' = [panel EXCEPT ![p] = moved] /\ page' = [page EXCEPT ![p] = Written(page[p], moved, g.written)]
  BY <1>4
<1>5. i \in Nat
  BY <1>3, FoundTyped
<1>6. panel[p] \in PanelState /\ page[p] \in PageState /\ toPage \in [Panels -> Seq(Answer)]
  BY DEF IInv, PanelTyped
<1>7. moved \in PanelState /\ moved.slot = panel[p].slot /\ moved.listed = c
  <2> HIDE DEF c
  <2> QED BY <1>3, <1>5, <1>6 DEF PanelState, Content
<1>8. gate' = [gate EXCEPT ![p] = g] /\ toPage' \in [Panels -> Seq(Answer)]
  BY LosesTyped DEF FindMessage, AdoptCurrent
<1> HIDE DEF moved, c, g
<1>9. Written(page[p], moved, g.written) \in PageState /\ Written(page[p], moved, g.written).listed = c
  BY <1>2, <1>6, <1>7, WrittenTyped
<1>10. PanelTyped'
  BY <1>2, <1>3, <1>4a, <1>6, <1>7, <1>8, <1>9, HandledTyped
<1> QED BY <1>3, <1>10 DEF IInv

\* OfferMessages keeps the invariant, and opens or closes no handle again.
LEMMA OfferMessagesStep ==
  ASSUME IInv, NEW p \in Panels, IsOpen(p), OfferMessages(p)
  PROVE  IInv' /\ Grows(host, host')
<1> DEFINE c == FileOf(Current(p))
           g == Kept(Heard(gate[p]), Current(p))
           pn == [panel[p] EXCEPT !.listed = c, !.refusing = TRUE]
<1>0. AdoptCurrent(p, g)
  BY DEF OfferMessages
<1>1. Heard(gate[p]) \in GateState(Handles) /\ Current(p) \in Handle
  BY CurrentTyped, GateTyped
<1>2. g \in GateState(Handles) /\ g.handle = Current(p)
  BY <1>1, GateTyped
<1>3. /\ Sound(host, gate, export)' /\ Grows(host, host')
      /\ toHost' \in [Panels -> Seq(Message)] /\ c \in Contents
      /\ DocTyped' /\ EditorTyped' /\ ExportTyped'
  BY <1>0, <1>2, AdoptCurrentSound
<1>4. panel[p] \in PanelState /\ page[p] \in PageState /\ page[p].listed \in Contents
  BY CurrentTyped
<1>5. pn \in PanelState /\ pn.slot = panel[p].slot /\ pn.listed = c
  <2> HIDE DEF c
  <2> QED BY <1>3, <1>4 DEF PanelState, Content
<1>6. panel' = [panel EXCEPT ![p] = pn]
  <2>1. panel' = [panel EXCEPT ![p].listed = c, ![p].refusing = TRUE]
    BY DEF OfferMessages
  <2> HIDE DEF c
  <2> QED BY <1>4, <2>1 DEF IInv, PanelTyped, PanelState
<1>7. /\ gate' = [gate EXCEPT ![p] = g] /\ page' = [page EXCEPT ![p] = page[p]]
      /\ Reply(p, Refusal(c))
  BY DEF OfferMessages, AdoptCurrent, IInv, PanelTyped
<1>8. toPage' \in [Panels -> Seq(Answer)]
  BY <1>3, <1>7, AnswersTyped, ReplyTyped
<1> HIDE DEF pn, g, c
<1>9. PanelTyped'
  BY <1>2, <1>3, <1>4, <1>5, <1>6, <1>7, <1>8, HandledTyped
<1> QED BY <1>3, <1>9 DEF IInv

\* The variable a slice panel looks for is a field, or none.
LEMMA WantedTyped ==
  ASSUME IInv, NEW p \in Panels, IsOpen(p)
  PROVE  Wanted(p) \in Fields \cup {None}
<1>1. panel[p] \in PanelState /\ panel[p].listed \in Contents
  BY CurrentTyped
<1>2. panel[p].lost \in Fields \cup {None} /\ panel[p].name \in Fields \cup {None}
  BY <1>1 DEF PanelState
<1>3. \A i : At(panel[p].listed, i) \in Fields \cup {None}
  BY <1>1, ListingTyped
<1> QED BY <1>2, <1>3 DEF Wanted

\* MoveSlice keeps the invariant, and opens or closes no handle again.
LEMMA MoveSliceStep ==
  ASSUME IInv, NEW p \in Panels, IsOpen(p), MoveSlice(p)
  PROVE  IInv' /\ Grows(host, host')
<1> DEFINE c == FileOf(Current(p))
           wanted == Wanted(p)
           same == Found(c, wanted)
           g == Rewritten(Heard(gate[p]), Current(p))
<1>0. AdoptCurrent(p, g) /\ toPage' \in [Panels -> Seq(Answer)]
  BY LosesTyped DEF MoveSlice
<1>1. Heard(gate[p]) \in GateState(Handles) /\ Current(p) \in Handle
  BY CurrentTyped, GateTyped
<1>2. g \in GateState(Handles) /\ g.handle = Current(p) /\ g.written \in Nat
  BY <1>1, GateTyped DEF GateState
<1>3. /\ Sound(host, gate, export)' /\ Grows(host, host')
      /\ toHost' \in [Panels -> Seq(Message)] /\ c \in Contents
      /\ DocTyped' /\ EditorTyped' /\ ExportTyped'
  BY <1>0, <1>2, AdoptCurrentSound
<1>4. PICK i \in DOMAIN Listing[c] :
        LET moved == [panel[p] EXCEPT !.listed = c, !.shown = i, !.name = Listing[c][i],
                                      !.refusing = (same = {}),
                                      !.lost = IF same = {} THEN wanted ELSE None]
        IN /\ panel' = [panel EXCEPT ![p] = moved]
           /\ page' = [page EXCEPT ![p] = Written(page[p], moved, g.written)]
  BY DEF MoveSlice
<1> DEFINE name == Listing[c][i]
           moved == [panel[p] EXCEPT !.listed = c, !.shown = i, !.name = name,
                                     !.refusing = (same = {}),
                                     !.lost = IF same = {} THEN wanted ELSE None]
<1>5. /\ panel' = [panel EXCEPT ![p] = moved]
      /\ page' = [page EXCEPT ![p] = Written(page[p], moved, g.written)]
  BY <1>4
<1>6. panel[p] \in PanelState /\ page[p] \in PageState /\ toPage \in [Panels -> Seq(Answer)]
  BY DEF IInv, PanelTyped
<1>7. wanted \in Fields \cup {None}
  BY WantedTyped
<1>8. i \in Nat /\ name \in Fields
  BY <1>3, ListingTyped
<1> HIDE DEF c, wanted, g, same, name
<1>9. moved \in PanelState /\ moved.slot = panel[p].slot /\ moved.listed = c
  BY <1>3, <1>6, <1>7, <1>8 DEF PanelState, Content
<1>10. gate' = [gate EXCEPT ![p] = g]
  BY <1>0 DEF AdoptCurrent
<1> HIDE DEF moved
<1>11. Written(page[p], moved, g.written) \in PageState /\ Written(page[p], moved, g.written).listed = c
  BY <1>2, <1>6, <1>9, WrittenTyped
<1>12. PanelTyped'
  BY <1>0, <1>2, <1>3, <1>5, <1>6, <1>9, <1>10, <1>11, HandledTyped
<1> QED BY <1>3, <1>12 DEF IInv

\* FindNoVariable keeps the invariant, and opens or closes no handle again.
LEMMA FindNoVariableStep ==
  ASSUME IInv, NEW p \in Panels, IsOpen(p), FindNoVariable(p)
  PROVE  IInv' /\ Grows(host, host')
<1> DEFINE wanted == Wanted(p)
           g == Outdate(Heard(gate[p]))
           pn == [panel[p] EXCEPT !.refusing = TRUE, !.lost = wanted]
<1>1. /\ Arrived(p) /\ Consume(p) /\ Reply(p, Refusal(panel[p].listed))
      /\ gate' = [gate EXCEPT ![p] = g]
      /\ panel' = [panel EXCEPT ![p].refusing = TRUE, ![p].lost = wanted]
      /\ UNCHANGED <<docVars, host, editorVars, page, exportVars>>
  BY DEF FindNoVariable
<1>2. /\ panel[p] \in PanelState /\ page[p] \in PageState /\ page[p].listed \in Contents
      /\ panel[p].listed \in Contents /\ gate[p] \in GateState(Handles)
  BY CurrentTyped
<1>3. Heard(gate[p]) \in GateState(Handles) /\ Heard(gate[p]).handle = gate[p].handle
  BY <1>2, GateTyped
<1>4. g \in GateState(Handles) /\ g.handle = gate[p].handle
  BY <1>3, GateTyped
<1>5. wanted \in Fields \cup {None}
  BY WantedTyped
<1> HIDE DEF wanted, g
<1>6. panel' = [panel EXCEPT ![p] = pn]
  BY <1>1, <1>2 DEF IInv, PanelTyped, PanelState
<1>7. pn \in PanelState /\ pn.slot = panel[p].slot /\ pn.listed = panel[p].listed
  BY <1>2, <1>5 DEF PanelState
<1> HIDE DEF pn
<1>8. /\ toPage' \in [Panels -> Seq(Answer)] /\ toHost' \in [Panels -> Seq(Message)]
      /\ page' = [page EXCEPT ![p] = page[p]]
  BY <1>1, <1>2, AnswersTyped, ReplyTyped, AskTyped DEF IInv, PanelTyped
<1>9. PanelTyped'
  BY <1>1, <1>2, <1>4, <1>6, <1>7, <1>8, HandledTyped
<1>10. Sound(host, gate, export)' /\ Grows(host, host')
  <2>1. Sound(host, [gate EXCEPT ![p] = g], export)
    BY <1>4, GateKeepsHandle
  <2>2. Grows(host, host)
    BY SameSound DEF IInv
  <2> QED BY <1>1, <2>1, <2>2 DEF exportVars
<1> QED BY <1>1, <1>9, <1>10, Untouched DEF IInv

-----------------------------------------------------------------------------
(* A CSV export                                                            *)

\* One export changes and stays one.
LEMMA ExportTypedAt ==
  ASSUME IInv, NEW x \in Exports, NEW ex \in ExportState, export' = [export EXCEPT ![x] = ex],
         ex.stage # "idle" => ex.handle # None /\ ex.slot # None,
         ex.stage = "idle" => ex.handle = None, saved' \in Saved \cup {None}
  PROVE  ExportTyped'
BY DEF IInv, ExportTyped

\* The export lets go of its handle, having written the file or not.
LEMMA EndExportSound ==
  ASSUME IInv, NEW x \in Exports, EndExport(x), saved' \in Saved \cup {None},
         UNCHANGED <<docVars, editorVars, panelVars>>
  PROVE  IInv' /\ Grows(host, host')
<1> DEFINE o == ExportHolder(x)
           ls == Release(host.leases, export[x].handle, o)
<1>1. /\ export' = [export EXCEPT ![x] = NoExport] /\ host' = [host EXCEPT !.leases = ls]
      /\ gate' = gate
  BY DEF EndExport, panelVars
<1>2. NoExport \in ExportState /\ NoExport.stage = "idle" /\ NoExport.handle = None
  BY DEF NoExport, ExportState, Handle
<1>3. ExportTyped'
  BY <1>1, <1>2, ExportTypedAt
<1>4. /\ Sound(host, gate, export) /\ host \in HostState
      /\ export \in [Exports -> ExportState] /\ export[x].handle \in Handle
      /\ o \in Holders /\ Refs(host, gate, export)[o] = export[x].handle
  BY RefsAt DEF IInv, Sound, ExportTyped, ExportState
<1>5. ls \in LeaseState(Handles, Holders)
  BY <1>4, LeasesTyped DEF HostState
<1> HIDE DEF ls
<1>6. /\ host' \in HostState /\ host'.leases = ls /\ host'.map = host.map
      /\ host'.file = host.file /\ host'.opened = host.opened /\ Filed(host')
  BY <1>1, <1>4, <1>5, NewLeases DEF Sound
<1>7. export'[x].handle = None /\ \A y \in Exports : y # x => export'[y].handle = export[y].handle
  BY <1>1, <1>2, <1>4
<1>8. Redirects(Refs(host, gate, export), Refs(host', gate, export'), Holders, o, None)
  BY <1>6, <1>7, ExportRedirects
<1>9. Sound(host', gate, export') /\ Grows(host, host')
  <2>1. host'.leases = Release(host.leases, Refs(host, gate, export)[o], o)
    BY <1>4, <1>6 DEF ls
  <2> HIDE DEF o
  <2> QED BY <1>4, <1>6, <1>8, <2>1, ReleaseSound
<1> QED BY <1>1, <1>3, <1>9, Untouched DEF IInv

\* The export keeps its handle and goes on to its next dialog.
LEMMA NextDialogSound ==
  ASSUME IInv, NEW x \in Exports, export[x].stage # "idle",
         NEW next \in {"confirm", "save"}, NEW csv \in Fields \cup {None},
         export' = [export EXCEPT ![x] = [export[x] EXCEPT !.stage = next, !.csv = csv]],
         UNCHANGED <<docVars, editorVars, panelVars, host, saved>>
  PROVE  IInv' /\ Grows(host, host')
<1> DEFINE ex == [export[x] EXCEPT !.stage = next, !.csv = csv]
<1>1. export[x] \in ExportState /\ export \in [Exports -> ExportState]
  BY DEF IInv, ExportTyped
<1>2. ex \in ExportState /\ ex.stage # "idle" /\ ex.handle = export[x].handle /\ ex.slot = export[x].slot
  BY <1>1 DEF ExportState
<1> HIDE DEF ex
<1>3. export' = [export EXCEPT ![x] = ex]
  BY DEF ex
<1>4. ExportTyped'
  BY <1>2, <1>3, ExportTypedAt DEF IInv, ExportTyped
<1>5. \A y \in Exports : export'[y].handle = export[y].handle
  BY <1>1, <1>2, <1>3
<1>6. host' = host /\ gate' = gate
  BY DEF panelVars
<1>7. Sound(host', gate', export') /\ Grows(host, host')
  <2>1. Sound(host, gate, export)
    BY DEF IInv
  <2> DEFINE x2 == export'
  <2>2. \A y \in Exports : x2[y].handle = export[y].handle
    BY <1>5
  <2> HIDE DEF x2
  <2>3. Sound(host, gate, x2) /\ Grows(host, host)
    BY <2>1, <2>2, SameSound
  <2> QED BY <1>6, <2>3 DEF x2
<1> QED BY <1>4, <1>7, Untouched DEF IInv

\* PickCsvFormat keeps the invariant, and opens or closes no handle again.
LEMMA PickCsvFormatStep ==
  ASSUME IInv, NEW x \in Exports, NEW next \in {"confirm", "save"}, PickCsvFormat(x, next)
  PROVE  IInv' /\ Grows(host, host')
<1> DEFINE csv == At(FileOf(export[x].handle), export[x].index)
<1>1. export[x].stage = "format" /\ UNCHANGED <<docVars, editorVars, panelVars, saved>>
  BY DEF PickCsvFormat
<1>2. CASE Unreverted(x)
  <2>1. /\ export' = [export EXCEPT ![x].stage = next, ![x].csv = csv] /\ host' = host
    BY <1>2 DEF PickCsvFormat
  <2>2. FileOf(export[x].handle) \in Contents
    BY <1>1, ReferredIsOpen DEF IInv, ExportTyped, FileOf
  <2>3. csv \in Fields \cup {None}
    BY <2>2, ListingTyped
  <2> HIDE DEF csv
  <2>4. export' = [export EXCEPT ![x] = [export[x] EXCEPT !.stage = next, !.csv = csv]]
    BY <2>1 DEF IInv, ExportTyped, ExportState
  <2> QED BY <1>1, <2>1, <2>3, <2>4, NextDialogSound
<1>3. CASE ~Unreverted(x)
  <2>1. EndExport(x)
    BY <1>3 DEF PickCsvFormat
  <2> QED BY <1>1, <2>1, EndExportSound DEF IInv, ExportTyped
<1> QED BY <1>2, <1>3

\* ConfirmLargeCsv keeps the invariant, and opens or closes no handle again.
LEMMA ConfirmLargeCsvStep ==
  ASSUME IInv, NEW x \in Exports, ConfirmLargeCsv(x)
  PROVE  IInv' /\ Grows(host, host')
<1>1. export[x].stage = "confirm" /\ UNCHANGED <<docVars, editorVars, panelVars, saved>>
  BY DEF ConfirmLargeCsv
<1>2. export[x] \in ExportState /\ export \in [Exports -> ExportState]
  BY DEF IInv, ExportTyped
<1>3. CASE Unreverted(x)
  <2>1. export' = [export EXCEPT ![x].stage = "save"] /\ host' = host
    BY <1>3 DEF ConfirmLargeCsv
  <2>2. export[x].csv \in Fields \cup {None}
    BY <1>2 DEF ExportState
  <2>3. export' = [export EXCEPT ![x] = [export[x] EXCEPT !.stage = "save", !.csv = export[x].csv]]
    BY <1>2, <2>1 DEF ExportState
  <2> QED BY <1>1, <2>1, <2>2, <2>3, NextDialogSound
<1>4. CASE ~Unreverted(x)
  <2>1. EndExport(x)
    BY <1>4 DEF ConfirmLargeCsv
  <2> QED BY <1>1, <2>1, EndExportSound DEF IInv, ExportTyped
<1> QED BY <1>3, <1>4

\* SaveCsv keeps the invariant, and opens or closes no handle again.
LEMMA SaveCsvStep ==
  ASSUME IInv, NEW x \in Exports, SaveCsv(x)
  PROVE  IInv' /\ Grows(host, host')
<1> DEFINE s == [field |-> export[x].csv, asked |-> export[x].asked,
                 slot |-> export[x].slot, at |-> export[x].at]
<1>1. /\ export[x].stage = "save" /\ EndExport(x) /\ (saved' = s \/ saved' = saved)
      /\ UNCHANGED <<docVars, editorVars, panelVars>>
  BY DEF SaveCsv
<1>2. export[x] \in ExportState /\ export[x].slot # None /\ saved \in Saved \cup {None}
  BY <1>1 DEF IInv, ExportTyped
<1>3. s \in Saved
  BY <1>2 DEF ExportState, Saved
<1> QED BY <1>1, <1>2, <1>3, EndExportSound

\* CancelExport keeps the invariant, and opens or closes no handle again.
LEMMA CancelExportStep ==
  ASSUME IInv, NEW x \in Exports, CancelExport(x)
  PROVE  IInv' /\ Grows(host, host')
<1>1. EndExport(x) /\ UNCHANGED <<docVars, editorVars, panelVars, saved>>
  BY DEF CancelExport
<1> QED BY <1>1, EndExportSound DEF IInv, ExportTyped

-----------------------------------------------------------------------------
(* The theorems                                                            *)

\* The invariant holds at first.
LEMMA InitInvariant == Init => IInv
<1> SUFFICES ASSUME Init PROVE IInv
  OBVIOUS
<1> USE DEF Init
<1>1. DocTyped
  BY FS_EmptySet DEF DocTyped, Content
<1>2. EditorTyped
  BY DEF EditorTyped, ClosedEditor, EditorState
<1>3. PanelTyped
  <2>1. NewGate(None) \in GateState(Handles) /\ NewGate(None).handle = None
    BY DEF NewGate, GateState
  <2>2. ClosedPanel \in PanelState /\ ClosedPanel.slot = None /\ NoPage \in PageState
    BY DEF ClosedPanel, PanelState, NoPage, PageState, Content
  <2>3. <<>> \in Seq(Message) /\ <<>> \in Seq(Answer)
    OBVIOUS
  <2> QED BY <2>1, <2>2, <2>3 DEF PanelTyped, IsOpen
<1>4. ExportTyped
  <2>1. NoExport \in ExportState /\ NoExport.stage = "idle" /\ NoExport.handle = None
    BY DEF NoExport, ExportState, Handle
  <2> QED BY <2>1 DEF ExportTyped
<1>5. Sound(host, gate, export)
  <2>1. /\ host.map = [s \in Slots |-> None] /\ host.opened = 0
        /\ host.leases = NoLeases(Handles)
        /\ host.leases \in LeaseState(Handles, Holders)
    BY DEF NoLeases, LeaseState
  <2>2. host \in HostState
    BY <2>1, BoundsAssumption DEF HostState, Handle, Content
  <2>3. Filed(host)
    BY <2>1 DEF Filed
  <2>4. \A o \in Holders : Refs(host, gate, export)[o] = None
    BY <2>1, HoldersByKind, RefsAt DEF NewGate, NoExport
  <2>5. Accounted(host.leases, MaxHandles, Holders, 0, Refs(host, gate, export))
    <3>1. 1..0 = {} /\ 0 \in 0..MaxHandles /\ \A h \in Handles : h # None
      BY BoundsAssumption, NoneAssumption DEF Handles
    <3> QED BY <2>1, <2>4, <3>1 DEF Accounted, NoLeases, Handles
  <2> QED BY <2>1, <2>2, <2>3, <2>5 DEF Sound
<1> QED BY <1>1, <1>2, <1>3, <1>4, <1>5 DEF IInv

\* Every step keeps the invariant.
LEMMA NextInvariant == IInv /\ [Next]_vars => IInv' /\ Grows(host, host')
<1> SUFFICES ASSUME IInv, [Next]_vars PROVE IInv' /\ Grows(host, host')
  OBVIOUS
<1>1. CASE Document
  <2>1. ASSUME NEW c \in FileContents, OpenDocument(c) PROVE IInv' /\ Grows(host, host')
    BY <2>1, OpenDocumentStep
  <2>2. ASSUME NEW c \in FileContents, StartRevert(c) PROVE IInv' /\ Grows(host, host')
    BY <2>2, StartRevertStep
  <2>3. ASSUME NEW e \in Editors, ResolveEditor(e) PROVE IInv' /\ Grows(host, host')
    BY <2>3, ResolveEditorStep
  <2>4. ASSUME NEW e \in Editors, CloseEditor(e) PROVE IInv' /\ Grows(host, host')
    BY <2>4, CloseEditorStep
  <2>5. ASSUME NEW r \in reading, FinishRevert(r) PROVE IInv' /\ Grows(host, host')
    BY <2>5, FinishRevertStep
  <2> QED BY <1>1, <2>1, <2>2, <2>3, <2>4, <2>5 DEF Document
<1>2. CASE EditorPage
  <2>1. ASSUME NEW e \in Editors, NEW i \in DOMAIN Listing[editor[e].rows], AskRow(e, i)
        PROVE  IInv' /\ Grows(host, host')
    BY <2>1, AskRowStep
  <2>2. ASSUME NEW e \in Editors, NEW p \in Panels, OpenRow(e, p)
        PROVE  IInv' /\ Grows(host, host')
    BY <2>2, OpenRowStep
  <2>3. ASSUME NEW e \in Editors, DropRow(e) PROVE IInv' /\ Grows(host, host')
    BY <2>3, DropRowStep
  <2> QED BY <1>2, <2>1, <2>2, <2>3 DEF EditorPage
<1>3. CASE RenderPanel
  <2>1. ASSUME NEW p \in Panels, NEW c \in StoreContents, OpenStore(p, c)
        PROVE  IInv' /\ Grows(host, host')
    BY <2>1, OpenStoreStep
  <2>2. ASSUME NEW p \in Panels, ClosePanel(p) PROVE IInv' /\ Grows(host, host')
    BY <2>2, ClosePanelStep
  <2>3. ASSUME NEW p \in Panels, IsOpen(p), Load(p) PROVE IInv' /\ Grows(host, host')
    BY <2>3, LoadPageStep DEF Load
  <2>4. ASSUME NEW p \in Panels, IsOpen(p), Request(p) PROVE IInv' /\ Grows(host, host')
    <3>1. ASSUME NEW i \in Numbers(p), AskRender(p, i) PROVE IInv' /\ Grows(host, host')
      BY <2>4, <3>1, AskRenderStep
    <3>2. ASSUME NEW i \in Numbers(p), AskOther(p, "probeRequest", i)
          PROVE  IInv' /\ Grows(host, host')
      BY <2>4, <3>2, AskOtherStep DEF RequestType
    <3>3. ASSUME NEW i \in Numbers(p), AskExport(p, i) PROVE IInv' /\ Grows(host, host')
      BY <2>4, <3>3, AskOtherStep DEF AskExport, RequestType
    <3>4. ASSUME NEW i \in DOMAIN Listing[page[p].offer], AskPick(p, i)
          PROVE  IInv' /\ Grows(host, host')
      BY <2>4, <3>4, AskPickStep
    <3> QED BY <2>4, <3>1, <3>2, <3>3, <3>4 DEF Request
  <2>5. ASSUME NEW p \in Panels, IsOpen(p), HandleRequest(p) PROVE IInv' /\ Grows(host, host')
    <3>1. CASE DropRequest(p)
      BY <3>1, DropRequestStep
    <3>2. CASE Paint(p)
      BY <2>5, <3>2, PaintStep
    <3>3. CASE RefuseAgain(p)
      BY <2>5, <3>3, RefuseAgainStep
    <3>4. CASE Probe(p)
      BY <2>5, <3>4, ProbeStep
    <3>5. CASE Pick(p)
      BY <2>5, <3>5, PickStep
    <3>6. ASSUME NEW x \in Exports, StartExport(p, x) PROVE IInv' /\ Grows(host, host')
      BY <2>5, <3>6, StartExportStep
    <3>7. CASE FindMessage(p)
      BY <2>5, <3>7, FindMessageStep
    <3>8. CASE OfferMessages(p)
      BY <2>5, <3>8, OfferMessagesStep
    <3>9. CASE MoveSlice(p)
      BY <2>5, <3>9, MoveSliceStep
    <3>10. CASE FindNoVariable(p)
      BY <2>5, <3>10, FindNoVariableStep
    <3> QED BY <2>5, <3>1, <3>2, <3>3, <3>4, <3>5, <3>6, <3>7, <3>8, <3>9, <3>10
            DEF HandleRequest
  <2>6. ASSUME NEW p \in Panels, ReceiveReply(p) PROVE IInv' /\ Grows(host, host')
    BY <2>6, ReceiveReplyStep
  <2>7. ASSUME NEW p \in Panels, HidePage(p) PROVE IInv' /\ Grows(host, host')
    BY <2>7, HidePageStep
  <2>8. ASSUME NEW p \in Panels, ShowPage(p) PROVE IInv' /\ Grows(host, host')
    BY <2>8, ShowPageStep
  <2> QED BY <1>3, <2>1, <2>2, <2>3, <2>4, <2>5, <2>6, <2>7, <2>8 DEF RenderPanel
<1>4. CASE ImportColorTable
  BY <1>4, ImportColorTableStep
<1>5. CASE CsvExport
  <2>1. ASSUME NEW x \in Exports, NEW next \in {"confirm", "save"}, PickCsvFormat(x, next)
        PROVE  IInv' /\ Grows(host, host')
    BY <2>1, PickCsvFormatStep
  <2>2. ASSUME NEW x \in Exports, ConfirmLargeCsv(x) PROVE IInv' /\ Grows(host, host')
    BY <2>2, ConfirmLargeCsvStep
  <2>3. ASSUME NEW x \in Exports, SaveCsv(x) PROVE IInv' /\ Grows(host, host')
    BY <2>3, SaveCsvStep
  <2>4. ASSUME NEW x \in Exports, CancelExport(x) PROVE IInv' /\ Grows(host, host')
    BY <2>4, CancelExportStep
  <2> QED BY <1>5, <2>1, <2>2, <2>3, <2>4 DEF CsvExport
<1>6. CASE UNCHANGED vars
  BY <1>6, Untouched DEF IInv, vars, docVars, editorVars, panelVars, exportVars
<1> QED BY <1>1, <1>2, <1>3, <1>4, <1>5, <1>6 DEF Next

\* The inductive invariant holds of every behaviour.
LEMMA Invariance == Spec => []IInv
<1>1. Init => IInv
  BY InitInvariant
<1>2. IInv /\ [Next]_vars => IInv'
  BY NextInvariant
<1> QED BY <1>1, <1>2, PTL DEF Spec

\* Every variable of the provider keeps its type, however documents, panels and
\* exports interleave.
THEOREM TypeCorrect == Spec => []TypeOK
<1>1. IInv => TypeOK
  BY DEF IInv, TypeOK, DocTyped, EditorTyped, EditorState, Listed, RowAsk, PanelTyped,
         ExportTyped, Saved, Sound, Content
<1> QED BY <1>1, Invariance, PTL

\* What refers to a handle, by the leases that account for it.
Statuses ==
  \A h \in Handles :
    /\ host.leases.holders[h] = UsersOf(h)
    /\ HandleStatus(h) = "open" <=> UsersOf(h) # {}
    /\ HandleStatus(h) = "open" <=> h <= host.opened /\ h \notin host.leases.closed
    /\ HandleStatus(h) = "closed" <=> h \in host.leases.closed
    /\ HandleStatus(h) \in {"unopened", "open", "closed"}

\* What the invariant says of the status of a handle.
LEMMA StatusOf == IInv => Statuses
<1> SUFFICES ASSUME IInv, NEW h \in Handles
             PROVE  /\ host.leases.holders[h] = UsersOf(h)
                    /\ HandleStatus(h) = "open" <=> UsersOf(h) # {}
                    /\ HandleStatus(h) = "open" <=> h <= host.opened /\ h \notin host.leases.closed
                    /\ HandleStatus(h) = "closed" <=> h \in host.leases.closed
                    /\ HandleStatus(h) \in {"unopened", "open", "closed"}
  BY DEF Statuses
<1>1. /\ Accounted(host.leases, MaxHandles, Holders, host.opened, Refs(host, gate, export))
      /\ host.leases.holders[h] \subseteq Holders
      /\ host.opened \in Nat /\ h \in Nat /\ 1 <= h
      /\ \A k \in 1..host.opened : k <= host.opened
  BY BoundsAssumption DEF IInv, Sound, HostState, LeaseState, Handles
<1>2. host.leases.holders[h] = UsersOf(h)
  BY <1>1 DEF Accounted, UsersOf, Handles
<1>3. CASE h <= host.opened
  <2>1. h \in 1..host.opened
    BY <1>1, <1>3
  <2>2. h \notin host.leases.closed <=> \E o \in Holders : Refs(host, gate, export)[o] = h
    BY <1>1, <2>1 DEF Accounted
  <2> QED BY <1>2, <1>3, <2>2 DEF HandleStatus, UsersOf
<1>4. CASE ~(h <= host.opened)
  <2>1. h \notin 1..host.opened
    BY <1>1, <1>4
  <2>2. h \notin host.leases.closed
    BY <1>1, <2>1 DEF Accounted
  <2>3. \A o \in Holders : Refs(host, gate, export)[o] # h
    <3>1. h # None
      BY <1>1, NoneAssumption
    <3> QED BY <1>1, <2>1, <3>1 DEF Accounted
  <2> QED BY <1>2, <1>4, <2>2, <2>3 DEF HandleStatus, UsersOf
<1> QED BY <1>3, <1>4

\* The leases record exactly what the provider's state refers to, and a handle is
\* open exactly while something refers to it (handle-leases.ts:1-13).
THEOREM LeasesAlwaysMatch == Spec => []LeasesMatchReferences
<1>1. IInv => LeasesMatchReferences
  BY StatusOf DEF Statuses, LeasesMatchReferences
<1> QED BY <1>1, Invariance, PTL

\* Every step of the provider is a step of the handles' abstract lifetime: none is
\* reopened, none closes while it has a user, and none outlives its last.
THEOREM ImplementsLifetime == Spec => LifetimeSpec
<1>1. Init => Lifetime!Init
  <2> SUFFICES ASSUME Init PROVE Lifetime!Init
    OBVIOUS
  <2>1. IInv /\ host.opened = 0 /\ host.leases.closed = {}
    BY InitInvariant DEF Init, NoLeases
  <2>2. ASSUME NEW h \in Handles PROVE UsersOf(h) = {} /\ HandleStatus(h) = "unopened"
    <3>1. ~(h <= 0)
      BY BoundsAssumption DEF Handles
    <3>2. HandleStatus(h) = "unopened"
      BY <2>1, <3>1 DEF HandleStatus
    <3> QED BY <2>1, <3>2, StatusOf DEF Statuses
  <2> QED BY <2>2 DEF Lifetime!Init
<1>2. IInv /\ IInv' /\ Grows(host, host') => Lifetime!Next
  <2> SUFFICES ASSUME IInv, IInv', Grows(host, host') PROVE Lifetime!Next
    OBVIOUS
  <2>0. Statuses'
    BY StatusOf, PTL
  <2>1. ASSUME NEW h \in Handles
        PROVE  /\ HandleStatus(h) = "open" <=> UsersOf(h) # {}
               /\ HandleStatus(h) = "closed" => HandleStatus(h)' = "closed"
               /\ HandleStatus(h) = "open" => HandleStatus(h)' \in {"open", "closed"}
               /\ HandleStatus(h)' = "open" <=> UsersOf(h)' # {}
               /\ HandleStatus(h) \in {"unopened", "open", "closed"}
               /\ HandleStatus(h)' \in {"unopened", "open", "closed"}
               /\ UsersOf(h)' \subseteq Holders
    <3>1. /\ HandleStatus(h) = "open" <=> UsersOf(h) # {}
          /\ HandleStatus(h) = "open" <=> h <= host.opened /\ h \notin host.leases.closed
          /\ HandleStatus(h) = "closed" <=> h \in host.leases.closed
          /\ HandleStatus(h) \in {"unopened", "open", "closed"}
      BY StatusOf DEF Statuses
    <3>2. /\ HandleStatus(h)' = "open" <=> UsersOf(h)' # {}
          /\ HandleStatus(h)' = "open" <=> h <= host'.opened /\ h \notin host'.leases.closed
          /\ HandleStatus(h)' = "closed" <=> h \in host'.leases.closed
          /\ HandleStatus(h)' \in {"unopened", "open", "closed"}
      BY <2>0 DEF Statuses
    <3>3. h <= host.opened => h <= host'.opened
      BY BoundsAssumption DEF Grows, IInv, Sound, HostState, Handles
    <3>4. UsersOf(h)' \subseteq Holders
      BY DEF UsersOf
    <3> QED BY <3>1, <3>2, <3>3, <3>4 DEF Grows
  <2>2. /\ [h \in Handles |-> UsersOf(h)]' \in [Handles -> SUBSET Holders]
        /\ [h \in Handles |-> HandleStatus(h)]' \in [Handles -> {"unopened", "open", "closed"}]
    BY <2>1
  <2> QED BY <2>1, <2>2 DEF Lifetime!Next, Lifetime!Open, Lifetime!OpenInVain, Lifetime!Use,
                            Lifetime!Close, Lifetime!Idle
<1>3. IInv /\ [Next]_vars => [Lifetime!Next]_(Lifetime!lifetimeVars)
  BY <1>2, NextInvariant
<1> QED BY <1>1, <1>3, Invariance, PTL DEF Spec, LifetimeSpec, Lifetime!Spec
=============================================================================
