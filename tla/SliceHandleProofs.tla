-------------------------- MODULE SliceHandleProofs ---------------------------
(***************************************************************************)
(* What a handle keeps and answers, for every set of planes, grids and     *)
(* views, every weight and every budget.                                   *)
(*                                                                         *)
(* WarpInv makes AnswersAreFreshWarps and NoRewarp inductive: a kept plan  *)
(* or target holds the raster its key names, and the last plan made is     *)
(* still the kept one.                                                     *)
(*                                                                         *)
(* ShownInv makes ShownMapStaysDecoded and AtMostTwoPastTheBudget          *)
(* inductive.  What it rests on is the loop of insert: a turn drops        *)
(* neither the newest entry nor one of the pair, and the loop ends either  *)
(* within both bounds or with nothing but those left.                      *)
(***************************************************************************)
EXTENDS SliceHandle, SumTheorems, SequenceTheorems

HoldsItsRaster(kept) == kept.raster = kept.key

WarpInv ==
  /\ \A kept \in warps.plan \cup warps.target : HoldsItsRaster(kept)
  /\ \A raster \in planned : \E kept \in warps.plan : kept.key = raster
  /\ AnswersAreFreshWarps

\* A step makes no plan for what the last plan made would serve.
MakesNoPlanTwice == \A a \in answer' : a.made = "plan" => Raster(a.asked) \notin planned

WarpStep == WarpInv' /\ MakesNoPlanTwice

\* A call that answers no request leaves the memo as it was.
LEMMA NoAnswerStep == WarpInv /\ NoAnswer => WarpStep
BY DEF WarpInv, NoAnswer, WarpStep, MakesNoPlanTwice, AnswersAreFreshWarps, HoldsItsRaster

\* The source view is answered with the request itself.
LEMMA FromSourceStep == ASSUME NEW request, WarpInv, FromSource(request) PROVE WarpStep
<1>1. answer' = {[asked |-> request, got |-> request, made |-> "none"]}
  BY DEF FromSource, Answer
<1>2. Fresh(request) = request
  BY DEF FromSource, Fresh
<1>3. AnswersAreFreshWarps' /\ MakesNoPlanTwice
  BY <1>1, <1>2 DEF AnswersAreFreshWarps, MakesNoPlanTwice, Fresh
<1> QED  BY <1>3 DEF WarpStep, WarpInv, FromSource, HoldsItsRaster

\* A kept plan or target that serves a request holds the request's raster.
LEMMA FromKeptStep ==
  ASSUME NEW request, NEW kept, kept \subseteq TargetFor(request),
         WarpInv, FromKept(request, kept)
  PROVE  WarpStep
<1>1. PICK k \in kept : Answer(request, k.raster, "none")
  BY DEF FromKept
<1>2. k \in warps.plan \cup warps.target /\ k.key = Raster(request)
  BY DEF TargetFor, PlanFor, Serves
<1>3. k.raster = Fresh(request)
  BY <1>2 DEF WarpInv, HoldsItsRaster, Fresh, FromKept
<1>4. AnswersAreFreshWarps' /\ MakesNoPlanTwice
  BY <1>1, <1>3 DEF Answer, AnswersAreFreshWarps, MakesNoPlanTwice, Fresh
<1> QED  BY <1>4 DEF WarpStep, WarpInv, FromKept, HoldsItsRaster

\* A warp for one call alone is made for the request it answers.
LEMMA BareStep == ASSUME NEW request, WarpInv, Bare(request) PROVE WarpStep
<1>1. answer' = {[asked |-> request, got |-> Raster(request), made |-> "none"]}
  BY DEF Bare, Answer
<1>2. AnswersAreFreshWarps' /\ MakesNoPlanTwice
  BY <1>1 DEF AnswersAreFreshWarps, MakesNoPlanTwice, Fresh, Bare
<1> QED  BY <1>2 DEF WarpStep, WarpInv, Bare, HoldsItsRaster

\* What is kept for a request holds the request's raster under its key.
LEMMA MadeForHoldsItsRaster ==
  ASSUME NEW request
  PROVE  HoldsItsRaster(MadeFor(request)) /\ MadeFor(request).key = Raster(request)
BY DEF MadeFor, HoldsItsRaster

\* A plan is made only when the kept one does not serve, so not a second time
\* for the raster of the last plan made, which is kept still.
LEMMA MakePlanStep == ASSUME NEW request, WarpInv, MakePlan(request) PROVE WarpStep
<1>1. CASE OverTheBudget(request)
  BY <1>1, BareStep DEF OverTheBudget
<1>2. CASE ~OverTheBudget(request)
  <2>1. /\ answer' = {[asked |-> request, got |-> Raster(request), made |-> "plan"]}
        /\ warps' = [plan |-> {MadeFor(request)}, target |-> warps.target]
        /\ planned' = {Raster(request)}
    BY <1>2 DEF MakePlan, Answer
  <2>2. Raster(request) \notin planned
    BY DEF MakePlan, PlanFor, Serves, WarpInv
  <2>3. AnswersAreFreshWarps' /\ MakesNoPlanTwice
    BY <2>1, <2>2 DEF AnswersAreFreshWarps, MakesNoPlanTwice, Fresh, MakePlan
  <2>4. warps'.plan = {MadeFor(request)} /\ warps'.target = warps.target
    BY <2>1
  <2> QED  BY <2>1, <2>3, <2>4, MadeForHoldsItsRaster DEF WarpStep, WarpInv, HoldsItsRaster
<1> QED  BY <1>1, <1>2

\* A target kept for a request holds the request's raster, and no plan is made.
LEMMA MakeTargetStep == ASSUME NEW request, WarpInv, MakeTarget(request) PROVE WarpStep
<1>1. /\ answer' = {[asked |-> request, got |-> Raster(request), made |-> "target"]}
      /\ warps' = [plan |-> warps.plan, target |-> {MadeFor(request)}]
      /\ planned' = planned
  BY DEF MakeTarget, Answer
<1>2. AnswersAreFreshWarps' /\ MakesNoPlanTwice
  BY <1>1 DEF AnswersAreFreshWarps, MakesNoPlanTwice, Fresh, MakeTarget
<1>3. warps'.plan = warps.plan /\ warps'.target = {MadeFor(request)}
  BY <1>1
<1> QED  BY <1>1, <1>2, <1>3, MadeForHoldsItsRaster DEF WarpStep, WarpInv, HoldsItsRaster

-----------------------------------------------------------------------------
(* The calls of the handle.                                                *)

\* A draw, in each of its three outcomes.
LEMMA DrawStep == ASSUME NEW request, NEW planes, WarpInv, Draw(request, planes) PROVE WarpStep
<1>1. PlanFor(request) \subseteq TargetFor(request)
  BY DEF PlanFor, TargetFor
<1>2. CASE Projected(request)
  BY <1>1, <1>2, FromSourceStep, FromKeptStep, MakePlanStep DEF Projected
<1>3. CASE RefuseWarp(request, PlanFor(request)) \/ NoAnswer
  BY <1>3, NoAnswerStep DEF RefuseWarp
<1> QED  BY <1>2, <1>3 DEF Draw

\* A probe, an overlay or the isolines.
LEMMA LocateStep == ASSUME NEW request, WarpInv, Locate(request) PROVE WarpStep
<1>1. CASE OnTarget(request)
  BY <1>1, FromSourceStep, FromKeptStep, MakeTargetStep DEF OnTarget
<1>2. CASE RefuseWarp(request, TargetFor(request))
  BY <1>2, NoAnswerStep DEF RefuseWarp
<1> QED  BY <1>1, <1>2 DEF Locate

\* Every call of the handle keeps the invariant and makes no plan twice.
LEMMA NextStep == WarpInv /\ Next => WarpStep
<1> SUFFICES ASSUME WarpInv, Next PROVE WarpStep
  OBVIOUS
<1>1. ASSUME NEW a \in Planes, ReadSlice(a) PROVE WarpStep
  BY <1>1, NoAnswerStep DEF ReadSlice
<1>2. ASSUME NEW a \in Planes, NEW r, RenderSlice(a, r) PROVE WarpStep
  BY <1>2, NoAnswerStep, DrawStep DEF RenderSlice
<1>3. ASSUME NEW a \in Planes, NEW r, LocateSlice(a, r) PROVE WarpStep
  BY <1>3, LocateStep DEF LocateSlice
<1>4. ASSUME NEW r, ProjectOverlay(r) PROVE WarpStep
  BY <1>4, LocateStep, BareStep DEF ProjectOverlay
<1>5. ASSUME NEW a, NEW b, RefuseCombine(a, b) \/ ReadCombined(a, b) PROVE WarpStep
  BY <1>5, NoAnswerStep DEF RefuseCombine, ReadCombined
<1>6. ASSUME NEW a, NEW b, NEW r, RenderCombined(a, b, r) PROVE WarpStep
  BY <1>6, DrawStep DEF RenderCombined
<1>7. ASSUME NEW a, NEW b, NEW r, LocateCombined(a, b, r) PROVE WarpStep
  BY <1>7, LocateStep DEF LocateCombined
<1> QED  BY <1>1, <1>2, <1>3, <1>4, <1>5, <1>6, <1>7 DEF Next, Step

\* A handle that does nothing keeps the invariant.
LEMMA StutterStep == WarpInv /\ UNCHANGED vars => WarpInv'
BY DEF WarpInv, vars, AnswersAreFreshWarps, HoldsItsRaster

\* The invariant of every behaviour.
LEMMA WarpInvariant == Spec => []WarpInv
<1>1. Init => WarpInv
  BY DEF Init, EmptyWarps, WarpInv, AnswersAreFreshWarps
<1>2. WarpInv /\ [Next]_vars => WarpInv'
  BY NextStep, StutterStep DEF WarpStep
<1> QED  BY <1>1, <1>2, PTL DEF Spec

\* For every grid, view and budget: whatever was kept by the calls before it, a
\* call is answered with the raster a warp made for its own request has.
THEOREM AnswersAlwaysFresh == Spec => []AnswersAreFreshWarps
<1>1. WarpInv => AnswersAreFreshWarps
  BY DEF WarpInv
<1> QED  BY <1>1, WarpInvariant, PTL

\* For every grid, view and budget: no draw makes again the last plan made.
THEOREM NeverRewarps == Spec => NoRewarp
<1>1. WarpInv /\ [Next]_vars
        => [\A a \in answer' : a.made = "plan" => Raster(a.asked) \notin planned]_vars
  BY NextStep DEF WarpStep, MakesNoPlanTwice
<1> QED  BY <1>1, WarpInvariant, PTL DEF Spec, NoRewarp
-----------------------------------------------------------------------------
(* The plane memo: what its operations keep, and what the loop of insert    *)
(* leaves.                                                                  *)

\* The entries of a memo: planes, none twice.
Distinct(entries) ==
  \A i, j \in 1 .. Len(entries) : entries[i] = entries[j] => i = j
IsEntries(entries) == entries \in Seq(Planes) /\ Distinct(entries)

\* All but one of the entries, in their order.
LEMMA RemoveAtEntries ==
  ASSUME NEW s, IsEntries(s), NEW i \in 1 .. Len(s), NEW r, r = RemoveAt(s, i)
  PROVE  /\ IsEntries(r) /\ Len(r) = Len(s) - 1
         /\ \A j \in 1 .. Len(s) - 1 : r[j] = IF j < i THEN s[j] ELSE s[j + 1]
         /\ ToSet(r) = ToSet(s) \ {s[i]}
<1> DEFINE before == SubSeq(s, 1, i - 1)
           behind == SubSeq(s, i + 1, Len(s))
<1>1. s \in Seq(Planes) /\ Len(s) \in Nat /\ Distinct(s)
  BY DEF IsEntries
<1>2. /\ before \in Seq(Planes) /\ Len(before) = i - 1
      /\ \A j \in 1 .. i - 1 : before[j] = s[j]
  BY <1>1
<1>3. /\ behind \in Seq(Planes) /\ Len(behind) = Len(s) - i
      /\ \A j \in 1 .. Len(s) - i : behind[j] = s[i + j]
  BY <1>1
<1>4. r = before \o behind
  BY DEF RemoveAt
<1> HIDE DEF before, behind
<1>5. /\ r \in Seq(Planes) /\ Len(r) = Len(s) - 1
      /\ \A j \in 1 .. Len(s) - 1 : r[j] = IF j < i THEN s[j] ELSE s[j + 1]
  <2>1. /\ r \in Seq(Planes) /\ Len(r) = Len(s) - 1
        /\ \A j \in 1 .. Len(s) - 1 :
             r[j] = IF j <= i - 1 THEN before[j] ELSE behind[j - (i - 1)]
    <3>1. /\ r \in Seq(Planes) /\ Len(r) = Len(before) + Len(behind)
          /\ \A j \in 1 .. Len(before) + Len(behind) :
               r[j] = IF j <= Len(before) THEN before[j] ELSE behind[j - Len(before)]
      <4>1. before \in Seq(Planes) /\ behind \in Seq(Planes)
        BY <1>2, <1>3
      <4> QED BY <1>4, <4>1, ConcatProperties
    <3>2. Len(before) + Len(behind) = Len(s) - 1
      BY <1>1, <1>2, <1>3
    <3> QED BY <1>2, <3>1, <3>2
  <2>2. ASSUME NEW j \in 1 .. Len(s) - 1 PROVE r[j] = IF j < i THEN s[j] ELSE s[j + 1]
    <3>1. CASE j < i
      BY <1>1, <1>2, <2>1, <3>1
    <3>2. CASE ~(j < i)
      <4>1. r[j] = behind[j - (i - 1)]
        BY <1>1, <2>1, <3>2
      <4>3. j - (i - 1) \in 1 .. Len(s) - i
        BY <1>1, <3>2
      <4>2. behind[j - (i - 1)] = s[i + (j - (i - 1))] /\ i + (j - (i - 1)) = j + 1
        BY <1>1, <1>3, <4>3
      <4> QED BY <3>2, <4>1, <4>2
    <3> QED BY <3>1, <3>2
  <2> QED BY <2>1, <2>2
<1>6. Distinct(r)
  BY <1>1, <1>5 DEF Distinct
<1>7. ToSet(r) = ToSet(s) \ {s[i]}
  <2>1. DOMAIN r = 1 .. Len(s) - 1 /\ DOMAIN s = 1 .. Len(s)
    BY <1>1, <1>5
  <2>2. ASSUME NEW j \in 1 .. Len(s) - 1 PROVE r[j] \in ToSet(s) \ {s[i]}
    <3>1. \E k \in 1 .. Len(s) : k # i /\ r[j] = s[k]
      <4>1. CASE j < i
        BY <1>1, <1>5, <4>1
      <4>2. CASE ~(j < i)
        BY <1>1, <1>5, <4>2
      <4> QED BY <4>1, <4>2
    <3> QED BY <1>1, <2>1, <3>1 DEF ToSet, Distinct
  <2>3. ASSUME NEW j \in 1 .. Len(s), s[j] # s[i] PROVE s[j] \in ToSet(r)
    <3>1. CASE j < i
      <4>1. j \in 1 .. Len(s) - 1 /\ r[j] = s[j]
        BY <1>1, <1>5, <3>1
      <4> QED BY <2>1, <4>1 DEF ToSet
    <3>2. CASE j > i
      <4>1. j - 1 \in 1 .. Len(s) - 1 /\ r[j - 1] = s[j]
        BY <1>1, <1>5, <3>2
      <4> QED BY <2>1, <4>1 DEF ToSet
    <3> QED BY <1>1, <2>3, <3>1, <3>2
  <2> QED BY <2>1, <2>2, <2>3 DEF ToSet
<1> QED BY <1>5, <1>6, <1>7 DEF IsEntries

\* A plane moved or put to the end.
LEMMA AppendedEntries ==
  ASSUME NEW s, IsEntries(s), NEW plane \in Planes,
         NEW e, e = Append(Without(s, plane), plane)
  PROVE  /\ IsEntries(e) /\ Len(e) \in Nat \ {0} /\ e[Len(e)] = plane
         /\ ToSet(e) = ToSet(s) \cup {plane}
         /\ plane \in ToSet(s) => Len(e) = Len(s)
<1> DEFINE w == Without(s, plane)
<1>1. /\ IsEntries(w) /\ ToSet(w) = ToSet(s) \ {plane}
      /\ plane \in ToSet(s) => Len(w) = Len(s) - 1
  <2>1. CASE plane \in ToSet(s)
    <3> DEFINE at == PositionOf(s, plane)
    <3>1. at \in 1 .. Len(s) /\ s[at] = plane
      <4>1. \E i \in DOMAIN s : s[i] = plane
        BY <2>1 DEF ToSet
      <4> QED BY <4>1 DEF PositionOf, IsEntries
    <3>2. w = RemoveAt(s, at)
      BY <2>1 DEF Without
    <3> HIDE DEF at, w
    <3> QED BY <3>1, <3>2, RemoveAtEntries
  <2>2. CASE plane \notin ToSet(s)
    BY <2>2 DEF Without
  <2> QED BY <2>1, <2>2
<1> HIDE DEF w
<1>2. w \in Seq(Planes) /\ Len(w) \in Nat /\ DOMAIN w = 1 .. Len(w)
  BY <1>1 DEF IsEntries
<1>3. /\ e \in Seq(Planes) /\ Len(e) = Len(w) + 1 /\ DOMAIN e = 1 .. Len(w) + 1
      /\ e[Len(w) + 1] = plane /\ \A i \in 1 .. Len(w) : e[i] = w[i]
  <2>1. e = Append(w, plane)
    BY DEF w
  <2> QED BY <1>2, <2>1
<1>4. \A i \in 1 .. Len(w) : w[i] # plane
  BY <1>1, <1>2 DEF ToSet
<1>5. Distinct(e)
  BY <1>1, <1>2, <1>3, <1>4 DEF IsEntries, Distinct
<1>6. ToSet(e) = ToSet(w) \cup {plane}
  <2>1. ASSUME NEW i \in 1 .. Len(w) + 1 PROVE e[i] \in ToSet(w) \cup {plane}
    BY <1>2, <1>3 DEF ToSet
  <2>2. ToSet(w) \cup {plane} \subseteq ToSet(e)
    BY <1>2, <1>3 DEF ToSet
  <2> QED BY <1>3, <2>1, <2>2 DEF ToSet
<1>7. plane \in ToSet(s) => Len(e) = Len(s)
  BY <1>1, <1>2, <1>3 DEF IsEntries
<1> QED BY <1>1, <1>2, <1>3, <1>5, <1>6, <1>7 DEF IsEntries

\* The distinct planes of a memo, counted and weighed.
LEMMA EntriesCounted ==
  ASSUME NEW s, IsEntries(s)
  PROVE  /\ IsFiniteSet(ToSet(s)) /\ Cardinality(ToSet(s)) = Len(s)
         /\ Len(s) \in Nat /\ Cells(s) \in Nat
         /\ ToSet(s) \subseteq Planes
<1>1. s \in Seq(Planes) /\ Len(s) \in Nat /\ Distinct(s) /\ DOMAIN s = 1 .. Len(s)
  BY DEF IsEntries
<1>2. s \in Bijection(1 .. Len(s), ToSet(s))
  BY <1>1 DEF ToSet, Distinct, Bijection, Injection, Surjection, IsInjective
<1>3. IsFiniteSet(1 .. Len(s)) /\ Cardinality(1 .. Len(s)) = Len(s)
  BY <1>1, FS_Interval
<1>4. IsFiniteSet(ToSet(s)) /\ Cardinality(ToSet(s)) = Len(s)
  BY <1>2, <1>3, FS_Bijection DEF ExistsBijection
<1>5. ToSet(s) \subseteq Planes
  BY <1>1 DEF ToSet
<1>6. Cells(s) \in Nat
  <2>1. Naturals(Weight, ToSet(s))
    BY <1>5, WeightAssumption DEF Naturals
  <2> QED BY <1>4, <2>1, SumNatural DEF Cells, Sum
<1> QED BY <1>1, <1>4, <1>5, <1>6

\* What is left after some turns of the loop, of e with a pair pinned: the
\* newest, and what was there of the pair.
Left(r, e, pair) ==
  /\ IsEntries(r) /\ Len(r) \in Nat \ {0} /\ r[Len(r)] = e[Len(e)]
  /\ ToSet(r) \subseteq ToSet(e)
  /\ ToSet(e) \cap pair \subseteq ToSet(r)

Ended(r, pair) == WithinBounds(r) \/ Droppable(r, pair) = {}

\* A turn drops one entry, which is not of the pair nor the newest, or the loop
\* has ended.
LEMMA TurnLeft ==
  ASSUME NEW e, NEW pair, NEW r, Left(r, e, pair), NEW next, next = Turn(r, pair)
  PROVE  /\ Left(next, e, pair)
         /\ IF Ended(r, pair) THEN next = r ELSE Len(next) = Len(r) - 1
<1>1. CASE Ended(r, pair)
  BY <1>1 DEF Ended, Turn
<1>2. CASE ~Ended(r, pair)
  <2> DEFINE D == Droppable(r, pair)
             at == Min(D)
  <2>1. Len(r) \in Nat /\ D \subseteq 1 .. Len(r) - 1 /\ D # {}
    BY <1>2 DEF Ended, Left, Droppable
  <2>2. at \in D
    <3>1. D \in SUBSET Nat
      BY <2>1
    <3>2. PICK i \in D : \A j \in D : i <= j
      BY <2>1, <3>1, LeastNatural
    <3> HIDE DEF D
    <3> QED BY <3>2 DEF Min
  <2>3. next = RemoveAt(r, at)
    BY <1>2 DEF Ended, Turn
  <2>4. at \in 1 .. Len(r) - 1 /\ r[at] \notin pair
    BY <2>2 DEF Droppable
  <2> HIDE DEF at, D
  <2>5. IsEntries(r) /\ at \in 1 .. Len(r)
    BY <2>1, <2>4 DEF Left
  <2>6. /\ IsEntries(next) /\ Len(next) = Len(r) - 1
        /\ \A j \in 1 .. Len(r) - 1 : next[j] = IF j < at THEN r[j] ELSE r[j + 1]
        /\ ToSet(next) = ToSet(r) \ {r[at]}
    BY <2>3, <2>5, RemoveAtEntries
  <2>7. next[Len(r) - 1] = r[Len(r)]
    <3>1. Len(r) - 1 \in 1 .. Len(r) - 1 /\ ~(Len(r) - 1 < at) /\ (Len(r) - 1) + 1 = Len(r)
      BY <2>1, <2>4
    <3> QED BY <2>6, <3>1
  <2>8. Left(next, e, pair)
    BY <2>1, <2>4, <2>6, <2>7 DEF Left
  <2> QED BY <1>2, <2>6, <2>8
<1> QED BY <1>1, <1>2

\* The loop ends: each turn that does not end it drops an entry, and the newest
\* stays.
LEMMA TrimmedLeft ==
  ASSUME NEW e, IsEntries(e), Len(e) \in Nat \ {0}, NEW pair
  PROVE  Left(Trimmed(e, pair), e, pair) /\ Ended(Trimmed(e, pair), pair)
<1> PICK N \in Nat : N = Len(e) /\ N # 0
  OBVIOUS
<1> DEFINE S == {r \in Seq(Planes) : Left(r, e, pair)}
           turn == [r \in S |-> Turn(r, pair)]
<1>1. turn \in [S -> S]
  <2>1. ASSUME NEW r \in S PROVE Turn(r, pair) \in S
    <3>1. Left(Turn(r, pair), e, pair)
      BY TurnLeft
    <3> QED BY <3>1 DEF Left, IsEntries
  <2> QED BY <2>1
<1>2. e \in S
  BY DEF Left, IsEntries
<1>3. PICK f \in [0 .. N -> S] : f[0] = e /\ \A n \in 1 .. N : f[n] = turn[f[n - 1]]
  <2> HIDE DEF S, turn
  <2>1. PICK f \in [0 .. N -> S] : Iterates(f, turn, e, N)
    BY <1>1, <1>2, Iteration
  <2> QED BY <2>1 DEF Iterates
<1>4. f = [n \in 0 .. N |-> IF n = 0 THEN e ELSE Turn(f[n - 1], pair)]
  <2>1. ASSUME NEW n \in 0 .. N PROVE f[n] = IF n = 0 THEN e ELSE Turn(f[n - 1], pair)
    <3>1. CASE n = 0
      BY <1>3, <3>1
    <3>2. CASE n # 0
      <4>1. n \in 1 .. N /\ n - 1 \in 0 .. N
        BY <3>2
      <4>2. f[n - 1] \in S /\ f[n] = turn[f[n - 1]]
        BY <1>3, <4>1
      <4> HIDE DEF S
      <4> QED BY <3>2, <4>2
    <3> QED BY <3>1, <3>2
  <2> HIDE DEF S
  <2> QED BY <1>3, <2>1
<1> DEFINE left == CHOOSE left : left = [n \in 0 .. N |-> IF n = 0 THEN e ELSE Turn(left[n - 1], pair)]
<1>5. left = [n \in 0 .. N |-> IF n = 0 THEN e ELSE Turn(left[n - 1], pair)]
  BY <1>4
<1>6. Trimmed(e, pair) = left[N]
  BY DEF Trimmed
<1> HIDE DEF left, S, turn
<1>7. \A n \in 0 .. N : Left(left[n], e, pair)
                        /\ (Ended(left[n], pair) \/ Len(left[n]) <= N - n)
  <2> DEFINE T == {n \in Nat : n <= N =>
                     /\ Left(left[n], e, pair)
                     /\ Ended(left[n], pair) \/ Len(left[n]) <= N - n}
  <2>1. 0 \in T
    <3>1. left[0] = e
      BY <1>5
    <3> QED BY <1>2, <3>1 DEF S
  <2>2. ASSUME NEW n \in Nat, n \in T PROVE n + 1 \in T
    <3> SUFFICES ASSUME n + 1 <= N
                 PROVE  /\ Left(left[n + 1], e, pair)
                        /\ Ended(left[n + 1], pair) \/ Len(left[n + 1]) <= N - (n + 1)
      OBVIOUS
    <3>1. /\ Left(left[n], e, pair)
          /\ Ended(left[n], pair) \/ Len(left[n]) <= N - n
      BY <2>2
    <3>2. left[n + 1] = Turn(left[n], pair)
      <4>1. n + 1 \in 0 .. N /\ n + 1 # 0 /\ (n + 1) - 1 = n
        OBVIOUS
      <4> QED BY <1>5, <4>1
    <3>3. /\ Left(left[n + 1], e, pair)
          /\ IF Ended(left[n], pair) THEN left[n + 1] = left[n] ELSE Len(left[n + 1]) = Len(left[n]) - 1
      BY <3>1, <3>2, TurnLeft
    <3>4. Len(left[n]) \in Nat
      BY <3>1 DEF Left
    <3> QED BY <3>1, <3>3, <3>4
  <2> HIDE DEF T
  <2>3. \A n \in Nat : n \in T
    BY <2>1, <2>2, Induction
  <2> QED BY <2>3 DEF T
<1>8. Left(left[N], e, pair) /\ (Ended(left[N], pair) \/ Len(left[N]) <= 0)
  BY <1>7
<1> QED BY <1>6, <1>8 DEF Left

-----------------------------------------------------------------------------
(* The memo under the calls of the handle.                                  *)

\* What every call keeps of the memo.
MemoInv(m) ==
  /\ m = [entries |-> m.entries, pair |-> m.pair]
  /\ IsEntries(m.entries)
  /\ m.pair \subseteq Planes /\ IsFiniteSet(m.pair) /\ Cardinality(m.pair) <= 2
  /\ Len(m.entries) <= ENTRIES
  /\ Cells(m.entries) > CELLS => Len(m.entries) <= 2

\* The memo's bounds depend on its planes, in whatever order, and not on its pair.
LEMMA SamePlanes ==
  ASSUME NEW m, MemoInv(m),
         NEW next, next = [entries |-> next.entries, pair |-> next.pair],
         IsEntries(next.entries), ToSet(next.entries) = ToSet(m.entries),
         next.pair \subseteq Planes, IsFiniteSet(next.pair), Cardinality(next.pair) <= 2
  PROVE  MemoInv(next) /\ Kept(next) = Kept(m)
<1>1. Len(next.entries) = Len(m.entries) /\ Cells(next.entries) = Cells(m.entries)
  <2>1. IsEntries(m.entries)
    BY DEF MemoInv
  <2>2. /\ Cardinality(ToSet(next.entries)) = Len(next.entries)
        /\ Cardinality(ToSet(m.entries)) = Len(m.entries)
    BY <2>1, EntriesCounted
  <2> QED BY <2>2 DEF Cells
<1> QED BY <1>1 DEF MemoInv, Kept

\* A hit keeps every plane and the pair.
LEMMA GetMemo ==
  ASSUME NEW m, MemoInv(m), NEW plane \in Kept(m), NEW got, got = Get(m, plane)
  PROVE  MemoInv(got) /\ Kept(got) = Kept(m) /\ got.pair = m.pair
<1> PICK s : s = m.entries
  OBVIOUS
<1> PICK e : e = Append(Without(s, plane), plane)
  OBVIOUS
<1>1. /\ IsEntries(s) /\ plane \in ToSet(s) /\ m = [entries |-> s, pair |-> m.pair]
      /\ m.pair \in SUBSET Planes /\ IsFiniteSet(m.pair) /\ Cardinality(m.pair) <= 2
  BY DEF MemoInv, Kept
<1>2. plane \in Planes
  BY <1>1, EntriesCounted
<1>3. got = [entries |-> e, pair |-> m.pair]
  BY <1>1 DEF Get
<1>4. IsEntries(e) /\ ToSet(e) = ToSet(s) \cup {plane}
  BY <1>1, <1>2, AppendedEntries
<1>5. ToSet(e) = ToSet(m.entries)
  BY <1>1, <1>4
<1>6. MemoInv(got) /\ Kept(got) = Kept(m)
  <2>1. got.entries = e /\ got.pair = m.pair
    BY <1>3
  <2> QED BY <1>1, <1>3, <1>4, <1>5, <2>1, SamePlanes
<1> QED BY <1>3, <1>6

\* A plane read on a miss is kept, with what was kept of the pair.  What reads it
\* has left no pair pinned, unless the plane is of the pair: past the cell budget
\* only the newest is left, or the pair.
LEMMA InsertMemo ==
  ASSUME NEW m, MemoInv(m), NEW plane \in Planes, plane \in m.pair \/ m.pair = {},
         NEW next, next = Insert(m, plane)
  PROVE  /\ MemoInv(next) /\ plane \in Kept(next)
         /\ Kept(m) \cap m.pair \subseteq Kept(next) /\ next.pair = m.pair
<1> PICK s : s = m.entries
  OBVIOUS
<1> PICK e : e = Append(Without(s, plane), plane)
  OBVIOUS
<1> PICK t : t = Trimmed(e, m.pair)
  OBVIOUS
<1>1. /\ IsEntries(s) /\ m = [entries |-> s, pair |-> m.pair]
      /\ m.pair \in SUBSET Planes /\ IsFiniteSet(m.pair) /\ Cardinality(m.pair) <= 2
  BY DEF MemoInv
<1>2. next = [entries |-> t, pair |-> m.pair]
  BY <1>1 DEF Insert
<1>3. next.entries = t /\ next.pair = m.pair
  BY <1>2
<1>4. /\ IsEntries(e) /\ Len(e) \in Nat \ {0} /\ e[Len(e)] = plane
      /\ ToSet(e) = ToSet(s) \cup {plane}
  BY <1>1, AppendedEntries
<1>5. Left(t, e, m.pair) /\ Ended(t, m.pair)
  BY <1>4, TrimmedLeft
<1>6. /\ IsEntries(t) /\ Len(t) \in Nat \ {0} /\ t[Len(t)] = plane
      /\ ToSet(s) \cap m.pair \subseteq ToSet(t)
  BY <1>4, <1>5 DEF Left
<1>7. plane \in ToSet(t) /\ DOMAIN t = 1 .. Len(t)
  BY <1>6 DEF ToSet, IsEntries
<1>8. Cells(t) \in Nat /\ Cardinality(ToSet(t)) = Len(t)
  BY <1>6, EntriesCounted
<1>9. Len(t) <= ENTRIES /\ (Cells(t) > CELLS => Len(t) <= 2)
  <2>1. CASE WithinBounds(t)
    BY <1>6, <1>8, <2>1, BudgetAssumption DEF WithinBounds
  <2>2. CASE Droppable(t, m.pair) = {}
    <3>1. \A i \in 1 .. Len(t) - 1 : t[i] \in m.pair
      BY <2>2 DEF Droppable
    <3>2. CASE m.pair = {}
      <4>1. 1 \notin 1 .. Len(t) - 1
        BY <3>1, <3>2
      <4> QED BY <1>6, <4>1, BudgetAssumption
    <3>3. CASE plane \in m.pair
      <4>1. ASSUME NEW i \in 1 .. Len(t) PROVE t[i] \in m.pair
        BY <1>6, <3>1, <3>3
      <4>2. ToSet(t) \in SUBSET m.pair
        BY <1>7, <4>1 DEF ToSet
      <4>3. Cardinality(ToSet(t)) <= Cardinality(m.pair)
        BY <1>1, <4>2, FS_Subset
      <4>4. Cardinality(m.pair) \in Nat
        BY <1>1, FS_CardinalityType
      <4> QED BY <1>1, <1>6, <1>8, <4>3, <4>4, BudgetAssumption
    <3> QED BY <3>2, <3>3
  <2> QED BY <1>5, <2>1, <2>2 DEF Ended
<1>10. MemoInv(next)
  BY <1>1, <1>2, <1>3, <1>6, <1>9 DEF MemoInv
<1> QED BY <1>1, <1>3, <1>6, <1>7, <1>10 DEF Kept

\* A read keeps the plane it reads; a hit keeps the others too, a miss the pair.
LEMMA ReadMemo ==
  ASSUME NEW m, MemoInv(m), NEW plane \in Planes, plane \in m.pair \/ m.pair = {},
         NEW next, next = Read(m, plane)
  PROVE  /\ MemoInv(next) /\ plane \in Kept(next)
         /\ Kept(m) \cap m.pair \subseteq Kept(next) /\ next.pair = m.pair
         /\ plane \in Kept(m) => Kept(next) = Kept(m)
<1>1. CASE plane \in Kept(m)
  BY <1>1, GetMemo DEF Read
<1>2. CASE plane \notin Kept(m)
  BY <1>2, InsertMemo DEF Read
<1> QED BY <1>1, <1>2

\* Pinning and unpinning keep every plane.
LEMMA PinMemo ==
  ASSUME NEW m, MemoInv(m), NEW a \in Planes, NEW b \in Planes
  PROVE  /\ MemoInv(Pin(m, a, b)) /\ Kept(Pin(m, a, b)) = Kept(m) /\ Pin(m, a, b).pair = {a, b}
         /\ MemoInv(Unpin(m)) /\ Kept(Unpin(m)) = Kept(m) /\ Unpin(m).pair = {}
<1> PICK s : s = m.entries
  OBVIOUS
<1>1. IsEntries(s) /\ m = [entries |-> s, pair |-> m.pair]
  BY DEF MemoInv
<1>2. Pin(m, a, b) = [entries |-> s, pair |-> {a, b}] /\ Unpin(m) = [entries |-> s, pair |-> {}]
  BY <1>1 DEF Pin, Unpin
<1>3. IsFiniteSet({a, b}) /\ Cardinality({a, b}) <= 2
  <2>1. {a, b} = {a} \cup {b} /\ IsFiniteSet({a}) /\ Cardinality({a}) = 1
    BY FS_Singleton
  <2>2. IsFiniteSet({a} \cup {b}) /\ Cardinality({a} \cup {b}) \in {1, 1 + 1}
    BY <2>1, FS_AddElement
  <2> QED BY <2>1, <2>2
<1>4. IsFiniteSet({}) /\ Cardinality({}) <= 2
  BY FS_EmptySet
<1>5. MemoInv(Pin(m, a, b)) /\ Kept(Pin(m, a, b)) = Kept(m) /\ Pin(m, a, b).pair = {a, b}
  <2> PICK p : p = Pin(m, a, b)
    OBVIOUS
  <2>1. p = [entries |-> s, pair |-> {a, b}] /\ p.entries = s /\ p.pair = {a, b}
    BY <1>2
  <2>2. MemoInv(p) /\ Kept(p) = Kept(m)
    BY <1>1, <1>3, <2>1, SamePlanes
  <2> QED BY <2>1, <2>2
<1>6. MemoInv(Unpin(m)) /\ Kept(Unpin(m)) = Kept(m) /\ Unpin(m).pair = {}
  <2> PICK p : p = Unpin(m)
    OBVIOUS
  <2>1. p = [entries |-> s, pair |-> {}] /\ p.entries = s /\ p.pair = {}
    BY <1>2
  <2>2. MemoInv(p) /\ Kept(p) = Kept(m)
    BY <1>1, <1>4, <2>1, SamePlanes
  <2> QED BY <2>1, <2>2
<1> QED BY <1>5, <1>6

LEMMA UnpinUnlessMemo ==
  ASSUME NEW m, MemoInv(m), NEW plane \in Planes, NEW next, next = UnpinUnless(m, plane)
  PROVE  /\ MemoInv(next) /\ Kept(next) = Kept(m)
         /\ plane \in next.pair \/ next.pair = {}
BY PinMemo DEF UnpinUnless

\* One plane, read or refused.
LEMMA ReadAloneMemo ==
  ASSUME NEW m, MemoInv(m), NEW plane \in Planes, NEW next, next = ReadAlone(m, plane)
  PROVE  /\ MemoInv(next) /\ plane \in Kept(next)
         /\ plane \in Kept(m) => Kept(next) = Kept(m)
BY UnpinUnlessMemo, ReadMemo DEF ReadAlone

\* Two planes read: whichever is read second, the first stays, however large both
\* are.
LEMMA PairReadMemo ==
  ASSUME NEW m, MemoInv(m), NEW a \in Planes, NEW b \in Planes,
         NEW first, first = Read(Pin(m, a, b), a), NEW both, both = Read(Read(Pin(m, a, b), a), b)
  PROVE  /\ MemoInv(first) /\ MemoInv(both)
         /\ {a, b} \subseteq Kept(both)
         /\ {a, b} \subseteq Kept(m) => Kept(first) = Kept(m) /\ Kept(both) = Kept(m)
<1> PICK pinned : pinned = Pin(m, a, b)
  OBVIOUS
<1>1. MemoInv(pinned) /\ Kept(pinned) = Kept(m) /\ pinned.pair = {a, b}
  BY PinMemo
<1>2. /\ MemoInv(first) /\ a \in Kept(first) /\ first.pair = {a, b}
      /\ a \in Kept(m) => Kept(first) = Kept(m)
  BY <1>1, ReadMemo
<1>3. both = Read(first, b)
  OBVIOUS
<1>4. /\ MemoInv(both) /\ b \in Kept(both)
      /\ Kept(first) \cap first.pair \subseteq Kept(both)
      /\ b \in Kept(first) => Kept(both) = Kept(first)
  BY <1>2, <1>3, ReadMemo
<1> QED BY <1>2, <1>4

\* The memo's invariant, and that the map on screen is kept.
ShownInv == MemoInv(memo) /\ shown \subseteq Kept(memo)

\* A call that reads no plane, or only what it finds.
LEMMA NothingRead ==
  ASSUME ShownInv, MemoInv(memo'), Kept(memo') = Kept(memo), NEW planes,
         shown' = shown \/ StillShown(planes)
  PROVE  ShownInv'
BY DEF ShownInv, StillShown, Kept

\* A read of one plane, that is refused.
LEMMA RefusedReadStep ==
  ASSUME ShownInv, NEW plane \in Planes, StillShown({plane}),
         RefusedRead(memo, plane) \/ RefusedRead(Unpin(memo), plane)
  PROVE  ShownInv'
<1>1. MemoInv(memo)
  BY DEF ShownInv
<1>2. MemoInv(Unpin(memo)) /\ Kept(Unpin(memo)) = Kept(memo)
  BY <1>1, PinMemo
<1>3. MemoInv(memo') /\ Kept(memo') = Kept(memo)
  BY <1>1, <1>2, UnpinUnlessMemo DEF RefusedRead
<1> QED BY <1>3, NothingRead

\* A read of one plane: the map stays on screen when it is of that plane alone, or
\* when nothing left the memo.
LEMMA ReadStep ==
  ASSUME ShownInv, NEW plane \in Planes, shown' = {plane} \/ StillShown({plane}),
         memo' = ReadAlone(memo, plane) \/ memo' = ReadAlone(Unpin(memo), plane)
  PROVE  ShownInv'
<1>1. MemoInv(memo)
  BY DEF ShownInv
<1>2. MemoInv(Unpin(memo)) /\ Kept(Unpin(memo)) = Kept(memo)
  BY <1>1, PinMemo
<1>3. /\ MemoInv(memo') /\ plane \in Kept(memo')
      /\ plane \in Kept(memo) => Kept(memo') = Kept(memo)
  BY <1>1, <1>2, ReadAloneMemo
<1>4. shown' \subseteq Kept(memo')
  BY <1>3 DEF ShownInv, StillShown
<1> QED BY <1>3, <1>4 DEF ShownInv, Kept

\* Two planes combined.
LEMMA CombineStep ==
  ASSUME ShownInv, NEW a \in Planes, NEW b \in Planes,
         shown' = {a, b} \/ StillShown({a, b}), Combine(a, b)
  PROVE  ShownInv'
<1>1. MemoInv(memo) /\ memo' = Read(Read(Pin(memo, a, b), a), b)
  BY DEF ShownInv, Combine, PairRead
<1>2. /\ MemoInv(memo') /\ {a, b} \subseteq Kept(memo')
      /\ {a, b} \subseteq Kept(memo) => Kept(memo') = Kept(memo)
  BY <1>1, PairReadMemo
<1>3. shown' \subseteq Kept(memo')
  BY <1>2 DEF ShownInv, StillShown
<1> QED BY <1>2, <1>3 DEF ShownInv, Kept

\* Two planes not combined.
LEMMA RefuseCombineStep ==
  ASSUME ShownInv, NEW a \in Planes, NEW b \in Planes, RefuseCombine(a, b)
  PROVE  ShownInv'
<1> PICK pinned : pinned = Pin(memo, a, b)
  OBVIOUS
<1> PICK first : first = Read(pinned, a)
  OBVIOUS
<1> PICK both : both = Read(Read(Pin(memo, a, b), a), b)
  OBVIOUS
<1>1. MemoInv(memo) /\ shown \subseteq Kept(memo) /\ StillShown({a, b})
  BY DEF ShownInv, RefuseCombine
<1>2. /\ MemoInv(pinned) /\ Kept(pinned) = Kept(memo)
      /\ MemoInv(first) /\ MemoInv(both)
      /\ {a, b} \subseteq Kept(memo) => Kept(first) = Kept(memo) /\ Kept(both) = Kept(memo)
  <2>1. MemoInv(pinned) /\ Kept(pinned) = Kept(memo)
    BY <1>1, PinMemo
  <2>2. first = Read(Pin(memo, a, b), a) /\ both = Read(Read(Pin(memo, a, b), a), b)
    OBVIOUS
  <2>3. /\ MemoInv(first) /\ MemoInv(both)
        /\ {a, b} \subseteq Kept(memo) => Kept(first) = Kept(memo) /\ Kept(both) = Kept(memo)
    BY <1>1, <2>2, PairReadMemo
  <2> QED BY <2>1, <2>3
<1>3. \/ a \notin Kept(pinned) /\ memo' = Unpin(pinned)
      \/ b \notin Kept(first) /\ memo' = Unpin(first)
      \/ memo' = Unpin(both)
  BY DEF RefuseCombine, RefusedPair, PairRead
<1>4. /\ MemoInv(Unpin(pinned)) /\ Kept(Unpin(pinned)) = Kept(pinned)
      /\ MemoInv(Unpin(first)) /\ Kept(Unpin(first)) = Kept(first)
      /\ MemoInv(Unpin(both)) /\ Kept(Unpin(both)) = Kept(both)
  BY <1>2, PinMemo
<1>5. MemoInv(memo')
  BY <1>3, <1>4
<1>6. shown' \subseteq Kept(memo')
  BY <1>1, <1>2, <1>3, <1>4 DEF StillShown
<1> QED BY <1>5, <1>6 DEF ShownInv, Kept

-----------------------------------------------------------------------------
(* The types of the warps.                                                  *)

WarpTypes ==
  /\ warps.plan \subseteq MadeThings /\ AtMostOne(warps.plan)
  /\ warps.target \subseteq MadeThings /\ AtMostOne(warps.target)
  /\ answer \subseteq [asked : Requests, got : Requests, made : {"none", "plan", "target"}]
  /\ planned \subseteq Requests

\* What is made for a request of the panel is of the request's type.
LEMMA MadeForType ==
  ASSUME NEW request \in Requests
  PROVE  Raster(request) \in Requests /\ MadeFor(request) \in MadeThings
<1>1. Raster(request) \in Requests
  BY DEF Raster, FromGrid, Requests, Resamplings
<1> QED BY <1>1 DEF MadeFor, MadeThings

\* Whatever a call asks of the warp memo.
LEMMA WarpTypesStep ==
  ASSUME WarpTypes, NEW request \in Requests,
         Projected(request) \/ OnTarget(request) \/ Bare(request) \/ NoAnswer
  PROVE  WarpTypes'
<1>1. Raster(request) \in Requests /\ MadeFor(request) \in MadeThings
  BY MadeForType
<1>2. CASE NoAnswer
  BY <1>2 DEF WarpTypes, NoAnswer
<1>3. CASE FromSource(request)
  BY <1>3 DEF WarpTypes, FromSource, Answer
<1>4. CASE FromKept(request, PlanFor(request)) \/ FromKept(request, TargetFor(request))
  <2>1. PICK k \in warps.plan \cup warps.target : Answer(request, k.raster, "none")
    BY <1>4 DEF FromKept, PlanFor, TargetFor
  <2>2. k.raster \in Requests
    BY <2>1 DEF WarpTypes, MadeThings
  <2>3. UNCHANGED <<warps, planned>>
    BY <1>4 DEF FromKept
  <2> QED BY <2>1, <2>2, <2>3 DEF WarpTypes, Answer
<1>5. CASE Bare(request)
  BY <1>1, <1>5 DEF WarpTypes, Bare, Answer
<1>6. ASSUME NEW made \in {"plan", "target"}, Answer(request, Raster(request), made),
             warps'.plan \in {warps.plan, {MadeFor(request)}},
             warps'.target \in {warps.target, {MadeFor(request)}},
             planned' \in {planned, {Raster(request)}}
      PROVE  WarpTypes'
  BY <1>1, <1>6 DEF WarpTypes, Answer, AtMostOne
<1>7. CASE MakePlan(request)
  <2>1. CASE OverTheBudget(request)
    BY <1>5, <2>1 DEF OverTheBudget
  <2>2. CASE ~OverTheBudget(request)
    <3>1. /\ Answer(request, Raster(request), "plan") /\ planned' = {Raster(request)}
          /\ warps' = [plan |-> {MadeFor(request)}, target |-> warps.target]
      BY <1>7, <2>2 DEF MakePlan
    <3>2. warps'.plan = {MadeFor(request)} /\ warps'.target = warps.target
      BY <3>1
    <3> QED BY <1>6, <3>1, <3>2
  <2> QED BY <2>1, <2>2
<1>8. CASE MakeTarget(request)
  <2>1. /\ Answer(request, Raster(request), "target") /\ planned' = planned
        /\ warps' = [plan |-> warps.plan, target |-> {MadeFor(request)}]
    BY <1>8 DEF MakeTarget
  <2>2. warps'.plan = warps.plan /\ warps'.target = {MadeFor(request)}
    BY <2>1
  <2> QED BY <1>6, <2>1, <2>2
<1> QED BY <1>2, <1>3, <1>4, <1>5, <1>7, <1>8 DEF Projected, OnTarget

-----------------------------------------------------------------------------
(* The invariant of the handle.                                             *)

HandleInv == ShownInv /\ WarpTypes /\ refused \in BOOLEAN

\* Every call keeps it.
LEMMA HandleStep == HandleInv /\ Next => HandleInv'
<1> SUFFICES ASSUME HandleInv, Next PROVE HandleInv'
  OBVIOUS
<1> USE DEF HandleInv
<1>1. ASSUME NEW plane \in Planes, NEW r \in RequestsOn(plane, Views) PROVE r \in Requests
  BY DEF RequestsOn
<1>2. ASSUME NoAnswer PROVE WarpTypes'
  BY <1>2 DEF WarpTypes, NoAnswer
<1>3. ASSUME NEW a \in Planes, ReadSlice(a) PROVE HandleInv'
  BY <1>2, <1>3, RefusedReadStep, ReadStep DEF ReadSlice
<1>4. ASSUME NEW r \in Requests, NEW planes, Draw(r, planes)
      PROVE  WarpTypes' /\ (shown' = planes \/ StillShown(planes))
  BY <1>2, <1>4, WarpTypesStep DEF Draw, RefuseWarp
<1>5. ASSUME NEW r \in Requests, Locate(r) PROVE WarpTypes'
  BY <1>2, <1>5, WarpTypesStep DEF Locate, RefuseWarp
<1>6. ASSUME NEW a \in Planes, NEW r \in Requests, RenderSlice(a, r) PROVE HandleInv'
  BY <1>2, <1>4, <1>6, RefusedReadStep, ReadStep DEF RenderSlice
<1>7. ASSUME NEW a \in Planes, NEW r \in Requests, LocateSlice(a, r) PROVE HandleInv'
  BY <1>5, <1>7, ReadStep DEF LocateSlice
<1>8. ASSUME NEW r \in Requests, ProjectOverlay(r) PROVE HandleInv'
  BY <1>5, <1>8, WarpTypesStep, NothingRead DEF ProjectOverlay, ShownInv
<1>9. ASSUME NEW a \in Planes, NEW b \in Planes, RefuseCombine(a, b) PROVE HandleInv'
  BY <1>2, <1>9, RefuseCombineStep DEF RefuseCombine
<1>10. ASSUME NEW a \in Planes, NEW b \in Planes, ReadCombined(a, b) PROVE HandleInv'
  BY <1>2, <1>10, CombineStep DEF ReadCombined, Combine
<1>11. ASSUME NEW a \in Planes, NEW b \in Planes, NEW r \in Requests, RenderCombined(a, b, r)
       PROVE  HandleInv'
  BY <1>4, <1>11, CombineStep DEF RenderCombined, Combine
<1>12. ASSUME NEW a \in Planes, NEW b \in Planes, NEW r \in Requests, LocateCombined(a, b, r)
       PROVE  HandleInv'
  BY <1>5, <1>12, CombineStep DEF LocateCombined, Combine
<1> QED BY <1>1, <1>3, <1>6, <1>7, <1>8, <1>9, <1>10, <1>11, <1>12 DEF Next, Step

\* The invariant of every behaviour.
LEMMA HandleInvariant == Spec => []HandleInv
<1>1. Init => HandleInv
  <2> SUFFICES ASSUME Init PROVE HandleInv
    OBVIOUS
  <2>1. memo = [entries |-> <<>>, pair |-> {}] /\ memo.entries = <<>> /\ memo.pair = {}
    BY DEF Init, EmptyLru
  <2>2. IsEntries(<<>>)
    BY DEF IsEntries, Distinct
  <2>3. IsFiniteSet({}) /\ Cardinality({}) = 0
    BY FS_EmptySet
  <2>4. MemoInv(memo)
    BY <2>1, <2>2, <2>3, BudgetAssumption DEF MemoInv
  <2>5. WarpTypes
    BY DEF Init, EmptyWarps, WarpTypes, AtMostOne
  <2> QED BY <2>4, <2>5 DEF Init, HandleInv, ShownInv
<1>2. HandleInv /\ UNCHANGED vars => HandleInv'
  BY DEF HandleInv, ShownInv, WarpTypes, vars, Kept
<1> QED  BY <1>1, <1>2, HandleStep, PTL DEF Spec

\* For every plane, weight, grid and view: every variable keeps its type.
THEOREM HandleTypeCorrect == Spec => []TypeOK
<1>1. ASSUME HandleInv PROVE TypeOK
  <2>1. memo.entries \in Seq(Planes) /\ memo.pair \subseteq Planes /\ Cardinality(memo.pair) <= 2
    BY <1>1 DEF HandleInv, ShownInv, MemoInv, IsEntries
  <2>2. shown \subseteq Planes
    <3> PICK s : s = memo.entries
      OBVIOUS
    <3>1. s \in Seq(Planes) /\ shown \subseteq ToSet(s)
      BY <1>1, <2>1 DEF HandleInv, ShownInv, Kept
    <3>2. ToSet(s) \subseteq Planes
      BY <3>1 DEF ToSet
    <3> QED BY <3>1, <3>2
  <2>3. WarpTypes /\ refused \in BOOLEAN
    BY <1>1 DEF HandleInv
  <2> QED BY <2>1, <2>2, <2>3 DEF WarpTypes, TypeOK
<1> QED  BY <1>1, HandleInvariant, PTL

\* For every weight and both budgets: the planes of the map on screen stay decoded
\* while no call names another.
THEOREM ShownMapAlwaysDecoded == Spec => []ShownMapStaysDecoded
<1>1. HandleInv => ShownMapStaysDecoded
  BY DEF HandleInv, ShownInv, ShownMapStaysDecoded
<1> QED  BY <1>1, HandleInvariant, PTL

\* For every weight and both budgets: no plane is kept twice, and past the cell
\* budget there are at most two.
THEOREM NeverMoreThanTwoPastTheBudget == Spec => []AtMostTwoPastTheBudget
<1>1. HandleInv => AtMostTwoPastTheBudget
  BY EntriesCounted DEF HandleInv, ShownInv, MemoInv, AtMostTwoPastTheBudget, Kept
<1> QED  BY <1>1, HandleInvariant, PTL
=============================================================================
