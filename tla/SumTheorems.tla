----------------------------- MODULE SumTheorems -----------------------------
(***************************************************************************)
(* Sums of naturals over a finite set, as the bytes of a memo add up       *)
(* (SumFunctionOnSet of the community modules), and the two principles     *)
(* they rest on: a set of naturals has a least element, and a set that     *)
(* holds 0 and every successor holds every natural.  Both are stated of    *)
(* sets, so that a proof by induction is one about the set of the numbers  *)
(* its claim holds of.                                                     *)
(***************************************************************************)
EXTENDS Integers, FiniteSets, Functions, FiniteSetTheorems, WellFoundedInduction, TLAPS

\* A nonempty set of naturals has a least element.
LEMMA LeastNatural ==
  ASSUME NEW T \in SUBSET Nat, T # {}
  PROVE  \E m \in T : \A n \in T : m <= n
<1>1. PICK m \in T : \A n \in T : <<n, m>> \notin OpToRel(<, Nat)
  BY NatLessThanWellFounded, WFMin
<1>2. ASSUME NEW n \in T, n < m PROVE FALSE
  <2>1. <<n, m>> \in Nat \X Nat /\ <<n, m>>[1] < <<n, m>>[2]
    BY <1>2
  <2> QED BY <1>1, <2>1 DEF OpToRel
<1> QED BY <1>2

\* Induction over the naturals.
LEMMA Induction ==
  ASSUME NEW T, 0 \in T, \A n \in Nat : n \in T => n + 1 \in T
  PROVE  \A n \in Nat : n \in T
<1> SUFFICES ASSUME Nat \ T # {} PROVE FALSE
  OBVIOUS
<1>1. PICK m \in Nat \ T : \A n \in Nat \ T : m <= n
  BY LeastNatural
<1>2. m # 0 /\ m - 1 \in Nat
  OBVIOUS
<1>3. m - 1 \in T
  BY <1>1, <1>2
<1> QED BY <1>2, <1>3

\* f[n] is h of n and f[n - 1], from f[0] = x.
Recurs(f, h, x, N) == f[0] = x /\ \A n \in 1 .. N : f[n] = h[<<n, f[n - 1]>>]

\* A recursive function of the numbers to N exists, and is of the type each of its
\* steps keeps.
LEMMA Recursion ==
  ASSUME NEW S, NEW N \in Nat, NEW h \in [(1 .. N) \X S -> S], NEW x \in S
  PROVE  \E f \in [0 .. N -> S] : Recurs(f, h, x, N)
<1> DEFINE RightTo(f, m) == f[0] = x /\ \A n \in 1 .. N : n <= m => f[n] = h[<<n, f[n - 1]>>]
           T == {m \in Nat : \E f \in [0 .. N -> S] : RightTo(f, m)}
<1>1. 0 \in T
  <2> DEFINE f == [n \in 0 .. N |-> x]
  <2>1. f \in [0 .. N -> S] /\ RightTo(f, 0)
    OBVIOUS
  <2> QED BY <2>1
<1>2. ASSUME NEW m \in Nat, m \in T PROVE m + 1 \in T
  <2>1. PICK f \in [0 .. N -> S] : RightTo(f, m)
    BY <1>2
  <2> DEFINE g == [n \in 0 .. N |-> IF n = m + 1 THEN h[<<m + 1, f[m]>>] ELSE f[n]]
  <2>2. CASE m + 1 > N
    <3>1. RightTo(f, m + 1)
      BY <2>1, <2>2
    <3> QED BY <3>1
  <2>3. CASE m + 1 <= N
    <3>1. g \in [0 .. N -> S]
      BY <2>3
    <3>2. RightTo(g, m + 1)
      <4>1. g[m + 1] = h[<<m + 1, f[m]>>] /\ g[0] = x
        BY <2>1, <2>3
      <4>2. \A n \in 0 .. N : n <= m => g[n] = f[n]
        BY <2>3
      <4>3. ASSUME NEW n \in 1 .. N, n <= m + 1 PROVE g[n] = h[<<n, g[n - 1]>>]
        <5>1. CASE n = m + 1
          <6>1. g[m] = f[m]
            BY <2>3, <4>2
          <6>2. n - 1 = m /\ <<n, f[m]>> = <<m + 1, f[m]>>
            BY <5>1
          <6> HIDE DEF g
          <6>3. g[n - 1] = f[m] /\ g[n] = h[<<m + 1, f[m]>>]
            BY <4>1, <5>1, <6>1, <6>2
          <6> QED BY <6>2, <6>3
        <5>2. CASE n <= m
          <6>1. n \in 0 .. N /\ n - 1 \in 0 .. N /\ n - 1 <= m
            BY <5>2
          <6>2. g[n] = f[n] /\ g[n - 1] = f[n - 1]
            BY <4>2, <5>2, <6>1
          <6> HIDE DEF g
          <6> QED BY <2>1, <5>2, <6>2
        <5> QED BY <4>3, <5>1, <5>2
      <4> HIDE DEF g
      <4> QED BY <4>1, <4>3
    <3> HIDE DEF g, RightTo
    <3>3. \E e \in [0 .. N -> S] : RightTo(e, m + 1)
      BY <3>1, <3>2
    <3> QED BY <3>3
  <2> QED BY <2>2, <2>3
<1>3. N \in T
  <2> HIDE DEF T
  <2>1. \A n \in Nat : n \in T
    BY <1>1, <1>2, Induction
  <2> QED BY <2>1
<1>4. PICK f \in [0 .. N -> S] : RightTo(f, N)
  BY <1>3
<1>5. Recurs(f, h, x, N)
  BY <1>4 DEF Recurs
<1> QED BY <1>5

\* f is h applied 0 to N times to x.
Iterates(f, h, x, N) == f[0] = x /\ \A n \in 1 .. N : f[n] = h[f[n - 1]]

\* A function of a set into itself can be applied again and again.
LEMMA Iteration ==
  ASSUME NEW S, NEW h \in [S -> S], NEW x \in S, NEW N \in Nat
  PROVE  \E f \in [0 .. N -> S] : Iterates(f, h, x, N)
<1> DEFINE g == [w \in (1 .. N) \X S |-> h[w[2]]]
<1>1. g \in [(1 .. N) \X S -> S]
  OBVIOUS
<1>2. PICK f \in [0 .. N -> S] : Recurs(f, g, x, N)
  <2> HIDE DEF g
  <2> QED BY <1>1, Recursion
<1>3. ASSUME NEW n \in 1 .. N PROVE f[n] = h[f[n - 1]]
  <2> PICK w : w = <<n, f[n - 1]>>
    OBVIOUS
  <2>1. f[n - 1] \in S
    BY <1>2
  <2>2. w \in (1 .. N) \X S /\ w[2] = f[n - 1] /\ f[n] = g[w]
    BY <1>2, <2>1 DEF Recurs
  <2>3. g[w] = h[w[2]]
    BY <2>2
  <2> QED BY <2>2, <2>3
<1>4. Iterates(f, h, x, N)
  BY <1>2, <1>3 DEF Recurs, Iterates
<1> QED BY <1>2, <1>4

-----------------------------------------------------------------------------
(* The recursion of a sum                                                  *)

Sum(f, S) == SumFunctionOnSet(f, S)

Picked(s) == CHOOSE y \in s : TRUE
SumStep(f, g, s) == IF s = {} THEN 0 ELSE f[Picked(s)] + g[s \ {Picked(s)}]

\* g is the sum of f over every subset of S.
Sums(f, g, S) == g = [s \in SUBSET S |-> SumStep(f, g, s)]

Naturals(f, S) == \A y \in S : f[y] \in Nat

\* One element fewer.
LEMMA PickedOut ==
  ASSUME NEW S, IsFiniteSet(S), NEW s \in SUBSET S, s # {}
  PROVE  /\ Picked(s) \in s /\ s \ {Picked(s)} \in SUBSET S
         /\ IsFiniteSet(s) /\ Cardinality(s) \in Nat \ {0}
         /\ Cardinality(s \ {Picked(s)}) = Cardinality(s) - 1
<1>1. Picked(s) \in s
  BY DEF Picked
<1>2. IsFiniteSet(s) /\ Cardinality(s) \in Nat /\ Cardinality(s) # 0
  BY FS_Subset, FS_CardinalityType, FS_EmptySet
<1>3. Cardinality(s \ {Picked(s)}) = Cardinality(s) - 1
  BY <1>1, <1>2, FS_RemoveElement
<1> QED BY <1>1, <1>2, <1>3

\* The recursion has a solution: one that is right up to a cardinality extends
\* to the next.
LEMMA SumsExist ==
  ASSUME NEW f, NEW S, IsFiniteSet(S), Naturals(f, S)
  PROVE  \E g : Sums(f, g, S) /\ g \in [SUBSET S -> Nat]
<1> DEFINE RightTo(g, n) == \A s \in SUBSET S : Cardinality(s) <= n => g[s] = SumStep(f, g, s)
           T == {n \in Nat : \E g \in [SUBSET S -> Nat] : RightTo(g, n)}
<1>1. \A s \in SUBSET S : Cardinality(s) \in Nat /\ (Cardinality(s) = 0 <=> s = {})
  BY FS_Subset, FS_CardinalityType, FS_EmptySet
<1>2. 0 \in T
  <2> DEFINE zero == [s \in SUBSET S |-> 0]
  <2>1. zero \in [SUBSET S -> Nat]
    OBVIOUS
  <2>2. RightTo(zero, 0)
    BY <1>1 DEF SumStep
  <2> QED BY <2>1, <2>2
<1>3. ASSUME NEW n \in Nat, n \in T PROVE n + 1 \in T
  <2>1. PICK g \in [SUBSET S -> Nat] : RightTo(g, n)
    BY <1>3
  <2> DEFINE h == [s \in SUBSET S |-> IF Cardinality(s) <= n THEN g[s] ELSE SumStep(f, g, s)]
  <2>2. h \in [SUBSET S -> Nat]
    <3>1. ASSUME NEW s \in SUBSET S PROVE SumStep(f, g, s) \in Nat
      <4>1. CASE s = {}
        BY <4>1 DEF SumStep
      <4>2. CASE s # {}
        <5>1. Picked(s) \in S /\ s \ {Picked(s)} \in SUBSET S
          BY <4>2, PickedOut
        <5>2. f[Picked(s)] \in Nat /\ g[s \ {Picked(s)}] \in Nat
          BY <5>1 DEF Naturals
        <5> QED BY <4>2, <5>2 DEF SumStep
      <4> QED BY <4>1, <4>2
    <3> QED BY <3>1
  <2>3. ASSUME NEW s \in SUBSET S, Cardinality(s) <= n + 1
        PROVE  h[s] = SumStep(f, g, s) /\ SumStep(f, h, s) = SumStep(f, g, s)
    <3>1. h[s] = SumStep(f, g, s)
      BY <2>1
    <3>2. CASE s = {}
      BY <3>1, <3>2 DEF SumStep
    <3>3. CASE s # {}
      <4>1. /\ s \ {Picked(s)} \in SUBSET S
            /\ Cardinality(s \ {Picked(s)}) <= n
        BY <2>3, <3>3, PickedOut
      <4>2. h[s \ {Picked(s)}] = g[s \ {Picked(s)}]
        BY <4>1
      <4> QED BY <3>1, <3>3, <4>2 DEF SumStep
    <3> QED BY <3>2, <3>3
  <2>4. RightTo(h, n + 1)
    BY <2>3
  <2> HIDE DEF h, RightTo
  <2>5. \E k \in [SUBSET S -> Nat] : RightTo(k, n + 1)
    BY <2>2, <2>4
  <2> QED BY <2>5
<1>4. Cardinality(S) \in T
  <2> HIDE DEF T
  <2>1. \A n \in Nat : n \in T
    BY <1>2, <1>3, Induction
  <2> QED BY <1>1, <2>1
<1>5. PICK g \in [SUBSET S -> Nat] : RightTo(g, Cardinality(S))
  BY <1>4
<1>6. \A s \in SUBSET S : g[s] = SumStep(f, g, s)
  BY <1>5, FS_Subset
<1> QED BY <1>6 DEF Sums

\* The sum over a set is what any solution gives it.
LEMMA SumsAgree ==
  ASSUME NEW f, NEW S, IsFiniteSet(S), NEW U, S \subseteq U, NEW g, NEW h,
         Sums(f, g, S), Sums(f, h, U), NEW t \in SUBSET S
  PROVE  g[t] = h[t]
<1> DEFINE T == {n \in Nat : \A s \in SUBSET S : Cardinality(s) = n => g[s] = h[s]}
<1>1. \A s \in SUBSET S : g[s] = SumStep(f, g, s) /\ h[s] = SumStep(f, h, s)
  BY DEF Sums
<1>2. 0 \in T
  <2>1. ASSUME NEW s \in SUBSET S, Cardinality(s) = 0 PROVE s = {}
    BY <2>1, FS_Subset, FS_EmptySet
  <2> QED BY <1>1, <2>1 DEF SumStep
<1>3. ASSUME NEW n \in Nat, n \in T PROVE n + 1 \in T
  <2>1. ASSUME NEW s \in SUBSET S, Cardinality(s) = n + 1 PROVE g[s] = h[s]
    <3>1. s # {}
      BY <2>1, FS_EmptySet
    <3>2. s \ {Picked(s)} \in SUBSET S /\ Cardinality(s \ {Picked(s)}) = n
      BY <2>1, <3>1, PickedOut
    <3>3. g[s \ {Picked(s)}] = h[s \ {Picked(s)}]
      BY <1>3, <3>2
    <3> QED BY <1>1, <3>1, <3>3 DEF SumStep
  <2> QED BY <2>1
<1>4. Cardinality(t) \in T
  <2> HIDE DEF T
  <2>1. \A n \in Nat : n \in T
    BY <1>2, <1>3, Induction
  <2>2. Cardinality(t) \in Nat
    BY FS_Subset, FS_CardinalityType
  <2> QED BY <2>1, <2>2
<1> QED BY <1>4

\* A sum is a solution's value.
LEMMA SumIsOfSums ==
  ASSUME NEW f, NEW S, IsFiniteSet(S), Naturals(f, S)
  PROVE  \E g : Sums(f, g, S) /\ Sum(f, S) = g[S]
<1> DEFINE g == CHOOSE g : Sums(f, g, S)
<1>1. Sums(f, g, S)
  BY SumsExist
<1>2. Sum(f, S) = g[S]
  BY DEF Sum, SumFunctionOnSet, FoldFunctionOnSet, MapThenFoldSet, Sums, SumStep, Picked
<1> QED BY <1>1, <1>2

-----------------------------------------------------------------------------
(* What a sum is                                                           *)

\* Over nothing.
LEMMA SumEmpty == ASSUME NEW f PROVE Sum(f, {}) = 0
<1>1. IsFiniteSet({}) /\ Naturals(f, {})
  BY FS_EmptySet DEF Naturals
<1>2. PICK g : Sums(f, g, {}) /\ Sum(f, {}) = g[{}]
  BY <1>1, SumIsOfSums
<1> QED BY <1>2 DEF Sums, SumStep

\* Over the rest, and one element that CHOOSE picks.
LEMMA SumPicked ==
  ASSUME NEW f, NEW S, IsFiniteSet(S), Naturals(f, S), S # {}
  PROVE  Sum(f, S) = f[Picked(S)] + Sum(f, S \ {Picked(S)})
<1> DEFINE R == S \ {Picked(S)}
<1>1. PICK g : Sums(f, g, S) /\ Sum(f, S) = g[S]
  BY SumIsOfSums
<1>2. R \in SUBSET S /\ IsFiniteSet(R) /\ Naturals(f, R)
  BY PickedOut, FS_Subset DEF Naturals
<1>3. PICK h : Sums(f, h, R) /\ Sum(f, R) = h[R]
  BY <1>2, SumIsOfSums
<1>4. g[R] = h[R]
  BY <1>1, <1>2, <1>3, SumsAgree
<1>5. g[S] = f[Picked(S)] + g[R]
  BY <1>1 DEF Sums, SumStep
<1> QED BY <1>1, <1>3, <1>4, <1>5

\* A sum of naturals is a natural.
LEMMA SumNatural ==
  ASSUME NEW f, NEW S, IsFiniteSet(S), Naturals(f, S)
  PROVE  Sum(f, S) \in Nat
<1>1. PICK g \in [SUBSET S -> Nat] : Sums(f, g, S)
  BY SumsExist
<1>2. PICK h : Sums(f, h, S) /\ Sum(f, S) = h[S]
  BY SumIsOfSums
<1>3. g[S] = h[S]
  BY <1>1, <1>2, SumsAgree
<1> QED BY <1>1, <1>2, <1>3

\* Over the rest, and any element: whichever is picked first, the sum of the
\* others is the same.
LEMMA SumRemove ==
  ASSUME NEW f, NEW S, IsFiniteSet(S), Naturals(f, S), NEW x \in S
  PROVE  Sum(f, S) = f[x] + Sum(f, S \ {x})
<1> DEFINE T == {n \in Nat : \A s \in SUBSET S : Cardinality(s) = n =>
                                \A y \in s : Sum(f, s) = f[y] + Sum(f, s \ {y})}
<1>1. \A s \in SUBSET S : /\ IsFiniteSet(s) /\ Cardinality(s) \in Nat /\ Naturals(f, s)
                          /\ Cardinality(s) = 0 => s = {}
  BY FS_Subset, FS_CardinalityType, FS_EmptySet DEF Naturals
<1>2. 0 \in T
  BY <1>1
<1>3. ASSUME NEW n \in Nat, n \in T PROVE n + 1 \in T
  <2>1. ASSUME NEW s \in SUBSET S, Cardinality(s) = n + 1, NEW y \in s
        PROVE  Sum(f, s) = f[y] + Sum(f, s \ {y})
    <3> DEFINE c == Picked(s)
               both == (s \ {y}) \ {c}
    <3>1. c \in s
      BY DEF Picked
    <3>2. Sum(f, s) = f[c] + Sum(f, s \ {c})
      BY <1>1, SumPicked
    <3>3. CASE y = c
      BY <3>2, <3>3
    <3>4. CASE y # c
      <4>1. /\ s \ {c} \in SUBSET S /\ s \ {y} \in SUBSET S /\ both \in SUBSET S
            /\ y \in s \ {c} /\ c \in s \ {y}
            /\ (s \ {c}) \ {y} = both
        BY <3>1, <3>4
      <4>2. Cardinality(s \ {c}) = n /\ Cardinality(s \ {y}) = n
        BY <1>1, <2>1, <3>1, FS_RemoveElement
      <4>3. Sum(f, s \ {c}) = f[y] + Sum(f, both)
        <5>1. \A t \in SUBSET S : Cardinality(t) = n =>
                 \A z \in t : Sum(f, t) = f[z] + Sum(f, t \ {z})
          BY <1>3
        <5> HIDE DEF both, c
        <5> QED BY <4>1, <4>2, <5>1
      <4>4. Sum(f, s \ {y}) = f[c] + Sum(f, both)
        BY <1>3, <4>1, <4>2
      <4>5. f[y] \in Nat /\ f[c] \in Nat /\ Sum(f, both) \in Nat
        BY <1>1, <3>1, <4>1, SumNatural DEF Naturals
      <4> HIDE DEF both, c
      <4> QED BY <3>2, <4>3, <4>4, <4>5
    <3> QED BY <3>3, <3>4
  <2> QED BY <2>1
<1>4. Cardinality(S) \in T
  <2> HIDE DEF T
  <2>1. \A n \in Nat : n \in T
    BY <1>2, <1>3, Induction
  <2> QED BY <1>1, <2>1
<1> QED BY <1>4

\* One element more.
LEMMA SumAdd ==
  ASSUME NEW f, NEW S, IsFiniteSet(S), NEW x, x \notin S, Naturals(f, S \cup {x})
  PROVE  Sum(f, S \cup {x}) = f[x] + Sum(f, S)
<1>1. IsFiniteSet(S \cup {x}) /\ (S \cup {x}) \ {x} = S
  BY FS_AddElement
<1> QED BY <1>1, SumRemove

\* Functions that agree on a set have one sum over it.
LEMMA SumSame ==
  ASSUME NEW f, NEW g, NEW S, IsFiniteSet(S), Naturals(f, S), \A y \in S : f[y] = g[y]
  PROVE  Sum(f, S) = Sum(g, S)
<1> DEFINE T == {n \in Nat : \A s \in SUBSET S : Cardinality(s) = n => Sum(f, s) = Sum(g, s)}
<1>1. \A s \in SUBSET S : /\ IsFiniteSet(s) /\ Cardinality(s) \in Nat
                          /\ Naturals(f, s) /\ Naturals(g, s)
                          /\ Cardinality(s) = 0 => s = {}
  BY FS_Subset, FS_CardinalityType, FS_EmptySet DEF Naturals
<1>2. 0 \in T
  BY <1>1, SumEmpty
<1>3. ASSUME NEW n \in Nat, n \in T PROVE n + 1 \in T
  <2>1. ASSUME NEW s \in SUBSET S, Cardinality(s) = n + 1 PROVE Sum(f, s) = Sum(g, s)
    <3>1. s # {}
      BY <2>1, FS_EmptySet
    <3>2. /\ Picked(s) \in s /\ s \ {Picked(s)} \in SUBSET S
          /\ Cardinality(s \ {Picked(s)}) = n
      BY <2>1, <3>1, PickedOut
    <3>3. /\ Sum(f, s) = f[Picked(s)] + Sum(f, s \ {Picked(s)})
          /\ Sum(g, s) = g[Picked(s)] + Sum(g, s \ {Picked(s)})
      BY <1>1, <3>1, SumPicked
    <3>4. Sum(f, s \ {Picked(s)}) = Sum(g, s \ {Picked(s)})
      BY <1>3, <3>2
    <3> QED BY <3>2, <3>3, <3>4
  <2> QED BY <2>1
<1>4. Cardinality(S) \in T
  <2> HIDE DEF T
  <2>1. \A n \in Nat : n \in T
    BY <1>2, <1>3, Induction
  <2> QED BY <1>1, <2>1
<1> QED BY <1>4

\* A sum over the names of elements is the sum over the elements, when no two
\* names are of one element.
LEMMA SumRenamed ==
  ASSUME NEW f, NEW m, NEW S, IsFiniteSet(S), Naturals([u \in S |-> f[m[u]]], S),
         \A u, v \in S : m[u] = m[v] => u = v
  PROVE  /\ IsFiniteSet({m[u] : u \in S})
         /\ Sum([u \in S |-> f[m[u]]], S) = Sum(f, {m[u] : u \in S})
<1> DEFINE of == [u \in S |-> f[m[u]]]
           T == {n \in Nat : \A s \in SUBSET S : Cardinality(s) = n =>
                   /\ IsFiniteSet({m[u] : u \in s})
                   /\ Sum(of, s) = Sum(f, {m[u] : u \in s})}
<1>1. \A s \in SUBSET S : /\ IsFiniteSet(s) /\ Cardinality(s) \in Nat /\ Naturals(of, s)
                          /\ Cardinality(s) = 0 => s = {}
  BY FS_Subset, FS_CardinalityType, FS_EmptySet DEF Naturals
<1>2. 0 \in T
  <2>1. {m[u] : u \in {}} = {}
    OBVIOUS
  <2> QED BY <1>1, <2>1, SumEmpty, FS_EmptySet
<1>3. ASSUME NEW n \in Nat, n \in T PROVE n + 1 \in T
  <2>1. ASSUME NEW s \in SUBSET S, Cardinality(s) = n + 1
        PROVE  /\ IsFiniteSet({m[u] : u \in s})
               /\ Sum(of, s) = Sum(f, {m[u] : u \in s})
    <3> DEFINE c == Picked(s)
               rest == s \ {c}
               names == {m[u] : u \in rest}
    <3>1. s # {}
      BY <2>1, FS_EmptySet
    <3>2. c \in s /\ rest \in SUBSET S /\ Cardinality(rest) = n
      BY <2>1, <3>1, PickedOut
    <3>3. Sum(of, s) = of[c] + Sum(of, rest)
      BY <1>1, <3>1, SumPicked
    <3>4. IsFiniteSet(names) /\ Sum(of, rest) = Sum(f, names)
      BY <1>3, <3>2
    <3>5. {m[u] : u \in s} = names \cup {m[c]} /\ m[c] \notin names
      BY <3>2
    <3>6. Naturals(f, names \cup {m[c]})
      BY <3>2 DEF Naturals
    <3>7. Sum(f, names \cup {m[c]}) = f[m[c]] + Sum(f, names)
      BY <3>4, <3>5, <3>6, SumAdd
    <3>8. of[c] = f[m[c]]
      BY <3>2
    <3>9. IsFiniteSet(names \cup {m[c]})
      BY <3>4, FS_AddElement
    <3> HIDE DEF names, rest, c, of
    <3> QED BY <3>3, <3>4, <3>5, <3>7, <3>8, <3>9
  <2> QED BY <2>1
<1>4. Cardinality(S) \in T
  <2> HIDE DEF T
  <2>1. \A n \in Nat : n \in T
    BY <1>2, <1>3, Induction
  <2> QED BY <1>1, <2>1
<1> QED BY <1>4

\* The sum over the whole is that over a part and over the rest.
LEMMA SumSplit ==
  ASSUME NEW f, NEW S, IsFiniteSet(S), Naturals(f, S), NEW P \in SUBSET S
  PROVE  Sum(f, S) = Sum(f, P) + Sum(f, S \ P)
<1> DEFINE T == {n \in Nat : \A p \in SUBSET S : Cardinality(p) = n =>
                                Sum(f, S) = Sum(f, p) + Sum(f, S \ p)}
<1>1. \A p \in SUBSET S : /\ IsFiniteSet(p) /\ Cardinality(p) \in Nat /\ Naturals(f, p)
                          /\ Sum(f, p) \in Nat
                          /\ Cardinality(p) = 0 => p = {}
  BY FS_Subset, FS_CardinalityType, FS_EmptySet, SumNatural DEF Naturals
<1>2. 0 \in T
  <2>1. S \ {} = S /\ S \in SUBSET S
    OBVIOUS
  <2> QED BY <1>1, <2>1, SumEmpty
<1>3. ASSUME NEW n \in Nat, n \in T PROVE n + 1 \in T
  <2>1. ASSUME NEW p \in SUBSET S, Cardinality(p) = n + 1
        PROVE  Sum(f, S) = Sum(f, p) + Sum(f, S \ p)
    <3> DEFINE c == Picked(p)
               q == p \ {c}
    <3>1. p # {}
      BY <2>1, FS_EmptySet
    <3>2. c \in p /\ q \in SUBSET S /\ Cardinality(q) = n
      BY <2>1, <3>1, PickedOut
    <3>3. Sum(f, p) = f[c] + Sum(f, q)
      BY <1>1, <3>1, SumPicked
    <3>4. Sum(f, S) = Sum(f, q) + Sum(f, S \ q)
      BY <1>3, <3>2
    <3>5. (S \ q) \ {c} = S \ p /\ c \in S \ q /\ S \ q \in SUBSET S /\ S \ p \in SUBSET S
      BY <3>2
    <3>6. Sum(f, S \ q) = f[c] + Sum(f, S \ p)
      <4> HIDE DEF q, c
      <4> QED BY <1>1, <3>5, SumRemove
    <3>7. f[c] \in Nat /\ Sum(f, q) \in Nat /\ Sum(f, S \ p) \in Nat
      BY <1>1, <3>2, <3>5 DEF Naturals
    <3> HIDE DEF q, c
    <3> QED BY <3>3, <3>4, <3>6, <3>7
  <2> QED BY <2>1
<1>4. Cardinality(P) \in T
  <2> HIDE DEF T
  <2>1. \A n \in Nat : n \in T
    BY <1>2, <1>3, Induction
  <2> QED BY <1>1, <2>1
<1> QED BY <1>4
=============================================================================
