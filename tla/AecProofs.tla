------------------------------ MODULE AecProofs -------------------------------
(***************************************************************************)
(* What the decoder of fieldglass-aec promises whatever its input, for     *)
(* every coding and count: TypeOK and WithinMaxSamples.                    *)
(***************************************************************************)
EXTENDS AecDecoder, SumTheorems, SequenceTheorems

-----------------------------------------------------------------------------
(* Powers of two, as the numbers of subsets they are.                      *)

LEMMA PowerOfSubsets ==
  ASSUME NEW n \in Nat
  PROVE  /\ IsFiniteSet(SUBSET (1 .. n)) /\ Cardinality(SUBSET (1 .. n)) = 2 ^ n
         /\ 2 ^ n \in Nat
<1>1. IsFiniteSet(1 .. n) /\ Cardinality(1 .. n) = n
  BY FS_Interval
<1> QED BY <1>1, FS_SUBSET, FS_CardinalityType

\* Every subset of 1 .. n + 1 is one of 1 .. n, with n + 1 or without.
LEMMA PowerDoubles ==
  ASSUME NEW n \in Nat
  PROVE  2 ^ (n + 1) = 2 * 2 ^ n
<1> DEFINE S == SUBSET (1 .. n)
           With == {s \cup {n + 1} : s \in S}
           f == [s \in S |-> s \cup {n + 1}]
<1>1. SUBSET (1 .. n + 1) = S \cup With
  <2>1. 1 .. n + 1 = (1 .. n) \cup {n + 1}
    OBVIOUS
  <2>2. ASSUME NEW t \in SUBSET (1 .. n + 1), n + 1 \in t PROVE t \in With
    <3>1. t \ {n + 1} \in S /\ t = (t \ {n + 1}) \cup {n + 1}
      BY <2>1, <2>2
    <3> QED BY <3>1
  <2>3. ASSUME NEW t \in SUBSET (1 .. n + 1), n + 1 \notin t PROVE t \in S
    BY <2>1, <2>3
  <2>4. S \cup With \subseteq SUBSET (1 .. n + 1)
    BY <2>1
  <2> QED BY <2>2, <2>3, <2>4
<1>2. \A s \in S : n + 1 \notin s
  OBVIOUS
<1>3. S \cap With = {}
  BY <1>2
<1>4. f \in Bijection(S, With)
  <2>1. f \in [S -> With]
    OBVIOUS
  <2>2. ASSUME NEW s \in S, NEW t \in S, f[s] = f[t] PROVE s = t
    <3>1. s \cup {n + 1} = t \cup {n + 1} /\ n + 1 \notin s /\ n + 1 \notin t
      BY <1>2, <2>2
    <3> QED BY <3>1
  <2>3. \A w \in With : \E s \in S : f[s] = w
    OBVIOUS
  <2> HIDE DEF f, With, S
  <2> QED BY <2>1, <2>2, <2>3 DEF Bijection, Injection, Surjection, IsInjective
<1>5. IsFiniteSet(S) /\ Cardinality(S) = 2 ^ n /\ 2 ^ n \in Nat
  BY PowerOfSubsets
<1> HIDE DEF S, With, f
<1>6. IsFiniteSet(With) /\ Cardinality(With) = 2 ^ n
  BY <1>4, <1>5, FS_Bijection DEF ExistsBijection
<1>7. Cardinality(S \cup With) = Cardinality(S) + Cardinality(With) - Cardinality({})
  BY <1>3, <1>5, <1>6, FS_Union
<1>8. Cardinality(SUBSET (1 .. n + 1)) = 2 ^ (n + 1) /\ Cardinality({}) = 0
  BY PowerOfSubsets, FS_EmptySet
<1> PICK a, b : a = 2 ^ n /\ b = 2 ^ (n + 1)
  OBVIOUS
<1>9. b = a + a - 0 /\ a \in Nat
  BY <1>1, <1>5, <1>6, <1>7, <1>8
<1>10. b = 2 * a
  BY <1>9
<1> QED BY <1>10

LEMMA Powers ==
  ASSUME NEW n \in Nat
  PROVE  /\ 2 ^ n \in Nat \ {0} /\ 2 ^ (n + 1) = 2 * 2 ^ n
         /\ n # 0 => 2 ^ n = 2 * 2 ^ (n - 1)
<1> DEFINE T == {k \in Nat : 2 ^ k \in Nat \ {0}}
<1>1. 0 \in T
  <2>1. 2 ^ 0 = 1
    OBVIOUS
  <2> QED BY <2>1
<1>2. ASSUME NEW k \in Nat, k \in T PROVE k + 1 \in T
  BY <1>2, PowerDoubles
<1>3. n \in T
  <2> HIDE DEF T
  <2> QED BY <1>1, <1>2, Induction
<1>4. n # 0 => 2 ^ n = 2 * 2 ^ (n - 1)
  <2> SUFFICES ASSUME n # 0 PROVE 2 ^ n = 2 * 2 ^ (n - 1)
    OBVIOUS
  <2>1. n - 1 \in Nat /\ (n - 1) + 1 = n
    OBVIOUS
  <2>2. 2 ^ ((n - 1) + 1) = 2 * 2 ^ (n - 1)
    BY <2>1, PowerDoubles
  <2> QED BY <2>1, <2>2
<1> QED BY <1>3, <1>4, PowerDoubles

LEMMA PowersMultiply ==
  ASSUME NEW m \in Nat, NEW n \in Nat
  PROVE  2 ^ (m + n) = 2 ^ m * 2 ^ n
<1> DEFINE T == {k \in Nat : 2 ^ (m + k) = 2 ^ m * 2 ^ k}
<1>1. 0 \in T
  <2>1. 2 ^ 0 = 1 /\ m + 0 = m /\ 2 ^ m \in Nat
    BY Powers
  <2> QED BY <2>1
<1>2. ASSUME NEW k \in Nat, k \in T PROVE k + 1 \in T
  <2> PICK a, b : a = 2 ^ m /\ b = 2 ^ k
    OBVIOUS
  <2>1. a \in Nat /\ b \in Nat /\ 2 ^ (k + 1) = 2 * b /\ 2 ^ (m + k) = a * b
    BY <1>2, Powers
  <2>2. m + (k + 1) = (m + k) + 1 /\ m + k \in Nat
    OBVIOUS
  <2>3. 2 ^ ((m + k) + 1) = 2 * 2 ^ (m + k)
    BY <2>2, Powers
  <2>4. 2 ^ (m + (k + 1)) = a * (2 * b)
    BY <2>1, <2>2, <2>3
  <2> QED BY <2>1, <2>4
<1> HIDE DEF T
<1>3. n \in T
  BY <1>1, <1>2, Induction
<1> QED BY <1>3 DEF T

-----------------------------------------------------------------------------
(* Reading numbers of bits.                                                *)

IsBits(s) == s \in Seq({0, 1})

\* The number of the first i bits is twice that of the first i - 1, and the bit.
LEMMA NumberUnfolds ==
  ASSUME NEW s, IsBits(s)
  PROVE  \E v \in [0 .. Len(s) -> Nat] :
           /\ v[0] = 0 /\ \A i \in 1 .. Len(s) : v[i] = 2 * v[i - 1] + s[i]
           /\ Number(s) = v[Len(s)]
<1> PICK N \in Nat : N = Len(s)
  BY DEF IsBits
<1>1. \A i \in 1 .. N : s[i] \in {0, 1}
  BY DEF IsBits
<1> DEFINE h == [w \in (1 .. N) \X Nat |-> 2 * w[2] + s[w[1]]]
<1>2. h \in [(1 .. N) \X Nat -> Nat]
  BY <1>1
<1>3. \A i \in 1 .. N : \A x \in Nat : h[<<i, x>>] = 2 * x + s[i]
  <2> TAKE i \in 1 .. N
  <2> TAKE x \in Nat
  <2> PICK w : w = <<i, x>>
    OBVIOUS
  <2>1. w \in (1 .. N) \X Nat /\ w[1] = i /\ w[2] = x
    OBVIOUS
  <2>2. h[w] = 2 * w[2] + s[w[1]]
    BY <2>1
  <2> QED BY <2>1, <2>2
<1> HIDE DEF h
<1>4. PICK f \in [0 .. N -> Nat] : f[0] = 0 /\ \A i \in 1 .. N : f[i] = h[<<i, f[i - 1]>>]
  <2>1. PICK f \in [0 .. N -> Nat] : Recurs(f, h, 0, N)
    BY <1>2, Recursion
  <2> QED BY <2>1 DEF Recurs
<1>5. f = [i \in 0 .. N |-> IF i = 0 THEN 0 ELSE 2 * f[i - 1] + s[i]]
  <2>1. ASSUME NEW i \in 1 .. N PROVE f[i] = 2 * f[i - 1] + s[i]
    <3>1. f[i - 1] \in Nat
      BY <1>4
    <3> QED BY <1>3, <1>4, <3>1
  <2> QED BY <1>4, <2>1
<1> DEFINE value == CHOOSE value : value = [i \in 0 .. N |-> IF i = 0 THEN 0 ELSE 2 * value[i - 1] + s[i]]
<1>6. value = [i \in 0 .. N |-> IF i = 0 THEN 0 ELSE 2 * value[i - 1] + s[i]]
  BY <1>5
<1>7. Number(s) = value[N]
  BY DEF Number
<1> HIDE DEF value
<1>8. value[0] = 0 /\ \A i \in 1 .. N : value[i] = 2 * value[i - 1] + s[i]
  BY <1>6
<1>9. \A i \in Nat : i \in {n \in Nat : n <= N => value[n] \in Nat}
  <2> DEFINE T == {n \in Nat : n <= N => value[n] \in Nat}
  <2>1. 0 \in T
    BY <1>8
  <2>2. ASSUME NEW n \in Nat, n \in T PROVE n + 1 \in T
    <3> SUFFICES ASSUME n + 1 <= N PROVE value[n + 1] \in Nat
      OBVIOUS
    <3>1. n + 1 \in 1 .. N /\ (n + 1) - 1 = n /\ value[n] \in Nat
      BY <2>2
    <3>2. value[n + 1] = 2 * value[n] + s[n + 1]
      BY <1>8, <3>1
    <3> QED BY <1>1, <3>1, <3>2
  <2> HIDE DEF T
  <2>3. \A i \in Nat : i \in T
    BY <2>1, <2>2, Induction
  <2> QED BY <2>3 DEF T
<1>10. value \in [0 .. N -> Nat]
  BY <1>6, <1>9
<1> QED BY <1>7, <1>8, <1>10

\* A number of so many bits.
LEMMA NumberBound ==
  ASSUME NEW s, IsBits(s)
  PROVE  Number(s) \in 0 .. 2 ^ Len(s) - 1
<1> PICK N \in Nat : N = Len(s)
  BY DEF IsBits
<1>1. \A i \in 1 .. N : s[i] \in {0, 1}
  BY DEF IsBits
<1>2. PICK v \in [0 .. N -> Nat] :
        /\ v[0] = 0 /\ \A i \in 1 .. N : v[i] = 2 * v[i - 1] + s[i]
        /\ Number(s) = v[N]
  BY NumberUnfolds
<1> DEFINE T == {n \in Nat : n <= N => v[n] < 2 ^ n}
<1>3. 0 \in T
  <2>1. 2 ^ 0 = 1
    OBVIOUS
  <2> QED BY <1>2, <2>1
<1>4. ASSUME NEW n \in Nat, n \in T PROVE n + 1 \in T
  <2> SUFFICES ASSUME n + 1 <= N PROVE v[n + 1] < 2 ^ (n + 1)
    OBVIOUS
  <2> PICK a, b : a = 2 ^ n /\ b = 2 ^ (n + 1)
    OBVIOUS
  <2>1. n + 1 \in 1 .. N /\ (n + 1) - 1 = n /\ v[n] \in Nat /\ v[n] < a
    BY <1>4
  <2>2. v[n + 1] = 2 * v[n] + s[n + 1]
    BY <1>2, <2>1
  <2>3. a \in Nat /\ b = 2 * a
    BY Powers
  <2>4. v[n + 1] < b
    BY <1>1, <2>1, <2>2, <2>3
  <2> QED BY <2>4
<1> HIDE DEF T
<1>5. N \in T
  BY <1>3, <1>4, Induction
<1> PICK c : c = 2 ^ N
  OBVIOUS
<1>6. c \in Nat /\ v[N] \in Nat /\ v[N] < c
  BY <1>5, Powers DEF T
<1> QED BY <1>2, <1>6

\* A field is read of the bits that are there.
LEMMA FieldsRead ==
  ASSUME NEW in, IsBits(in), NEW at \in Nat, NEW count \in Nat, NEW width \in Nat,
         NEW f \in Fields(in, at, count, width)
  PROVE  /\ f.codes \in Seq(0 .. 2 ^ width - 1) /\ Len(f.codes) = count
         /\ f.at = at + count * width /\ f.at \in Nat /\ f.at <= Len(in)
<1> DEFINE code(i) == Number(SubSeq(in, at + (i - 1) * width + 1, at + i * width))
<1>1. /\ ~(at + count * width > Len(in))
      /\ f = [codes |-> [i \in 1 .. count |-> code(i)], at |-> at + count * width]
  BY DEF Fields
<1>2. count * width \in Nat /\ Len(in) \in Nat
  BY DEF IsBits
<1>3. ASSUME NEW i \in 1 .. count PROVE code(i) \in 0 .. 2 ^ width - 1
  <2> PICK a, b : a = at + (i - 1) * width + 1 /\ b = at + i * width
    OBVIOUS
  <2> PICK before, after, whole : before = (i - 1) * width /\ after = i * width /\ whole = count * width
    OBVIOUS
  <2>1. before \in Nat /\ after = before + width /\ after <= whole /\ whole \in Nat
    OBVIOUS
  <2>2. a \in Nat /\ b \in Nat /\ 1 <= a /\ b <= Len(in) /\ b - a + 1 = width
    <3>1. a = at + before + 1 /\ b = at + after /\ at + whole <= Len(in)
      BY <1>1, <1>2
    <3> QED BY <1>2, <2>1, <3>1
  <2>3. \A j \in a .. b : in[j] \in {0, 1}
    BY <2>2 DEF IsBits
  <2>4. IsBits(SubSeq(in, a, b)) /\ Len(SubSeq(in, a, b)) = width
    <3> PICK sub : sub = SubSeq(in, a, b)
      OBVIOUS
    <3>1. sub \in Seq({0, 1}) /\ Len(sub) = IF a <= b THEN b - a + 1 ELSE 0
      BY <2>2, <2>3, SubSeqProperties
    <3>2. Len(sub) = width
      BY <2>2, <3>1
    <3> QED BY <3>1, <3>2 DEF IsBits
  <2> QED BY <2>4, NumberBound
<1> HIDE DEF code
<1>4. f.codes = [i \in 1 .. count |-> code(i)] /\ f.at = at + count * width
  BY <1>1
<1>5. f.codes \in [1 .. count -> 0 .. 2 ^ width - 1]
  BY <1>3, <1>4
<1> QED BY <1>1, <1>2, <1>4, <1>5

\* Past the input once no one is left, and after every place in it.
LEMMA NextEndAfter ==
  ASSUME NEW in, IsBits(in), NEW at \in 0 .. Len(in) + 1, NEW end, end = NextEnd(in, at)
  PROVE  /\ end \in 0 .. Len(in) + 1
         /\ end <= Len(in) => at < end /\ in[end] = 1
         /\ \A i \in at + 1 .. end - 1 : in[i] # 1
<1> DEFINE ones == {i \in at + 1 .. Len(in) : in[i] = 1}
<1>1. Len(in) \in Nat
  BY DEF IsBits
<1>2. CASE ones = {}
  <2>1. end = Len(in) + 1
    BY <1>2 DEF NextEnd
  <2> QED BY <1>1, <1>2, <2>1
<1>3. CASE ones # {}
  <2>1. end = Min(ones)
    BY <1>3 DEF NextEnd
  <2>2. \E x \in ones : \A y \in ones : x <= y
    <3>1. ones \in SUBSET Nat
      BY <1>1
    <3> HIDE DEF ones
    <3> QED BY <1>3, <3>1, LeastNatural
  <2>3. end \in ones /\ \A y \in ones : end <= y
    BY <2>1, <2>2 DEF Min
  <2> QED BY <1>1, <2>3
<1> QED BY <1>2, <1>3

\* The ends of the fundamental sequences that f was read of.
EndsOf(e, f, in, at, count) ==
  /\ e \in [0 .. count -> 0 .. Len(in)] /\ e[0] = at
  /\ \A i \in 1 .. count : e[i] = NextEnd(in, e[i - 1]) /\ e[i - 1] < e[i]
  /\ f.codes = [i \in 1 .. count |-> e[i] - e[i - 1] - 1] /\ f.at = e[count]

LEMMA EndsUnfold ==
  ASSUME NEW in, IsBits(in), NEW at \in 0 .. Len(in), NEW count \in Nat,
         NEW f \in FundamentalSequences(in, at, count)
  PROVE  \E e : EndsOf(e, f, in, at, count)
<1> PICK L \in Nat : L = Len(in)
  BY DEF IsBits
<1> DEFINE S == 0 .. L + 1
           h == [w \in (1 .. count) \X S |-> NextEnd(in, w[2])]
<1>1. \A x \in S : NextEnd(in, x) \in S
  BY NextEndAfter
<1>2. h \in [(1 .. count) \X S -> S]
  BY <1>1
<1>3. \A i \in 1 .. count : \A x \in S : h[<<i, x>>] = NextEnd(in, x)
  <2> TAKE i \in 1 .. count
  <2> TAKE x \in S
  <2> PICK w : w = <<i, x>>
    OBVIOUS
  <2>1. w \in (1 .. count) \X S /\ w[2] = x
    OBVIOUS
  <2>2. h[w] = NextEnd(in, w[2])
    BY <2>1
  <2> QED BY <2>1, <2>2
<1>4. at \in S
  OBVIOUS
<1> HIDE DEF h, S
<1>5. PICK g \in [0 .. count -> S] : Recurs(g, h, at, count)
  BY <1>2, <1>4, Recursion
<1>6. g = [i \in 0 .. count |-> IF i = 0 THEN at ELSE NextEnd(in, g[i - 1])]
  <2>1. ASSUME NEW i \in 1 .. count PROVE g[i] = NextEnd(in, g[i - 1])
    <3>1. g[i - 1] \in S
      BY <1>5
    <3> QED BY <1>3, <1>5, <3>1 DEF Recurs
  <2> QED BY <1>5, <2>1 DEF Recurs
<1> DEFINE end == CHOOSE end : end = [i \in 0 .. count |-> IF i = 0 THEN at ELSE NextEnd(in, end[i - 1])]
<1>7. end = [i \in 0 .. count |-> IF i = 0 THEN at ELSE NextEnd(in, end[i - 1])]
  BY <1>6
<1>8. /\ ~(end[count] > L)
      /\ f = [codes |-> [i \in 1 .. count |-> end[i] - end[i - 1] - 1], at |-> end[count]]
  BY DEF FundamentalSequences
<1> HIDE DEF end
<1>9. end[0] = at /\ \A i \in 1 .. count : end[i] = NextEnd(in, end[i - 1])
  BY <1>7
<1>10. \A n \in 0 .. count : end[n] \in S
  <2> DEFINE T == {n \in Nat : n <= count => end[n] \in S}
  <2>1. 0 \in T
    BY <1>4, <1>9
  <2>2. ASSUME NEW n \in Nat, n \in T PROVE n + 1 \in T
    <3> SUFFICES ASSUME n + 1 <= count PROVE end[n + 1] \in S
      OBVIOUS
    <3>1. n + 1 \in 1 .. count /\ (n + 1) - 1 = n /\ end[n] \in S
      BY <2>2
    <3>2. end[n + 1] = NextEnd(in, end[n])
      BY <1>9, <3>1
    <3> QED BY <1>1, <3>1, <3>2
  <2> HIDE DEF T
  <2>3. \A i \in Nat : i \in T
    BY <2>1, <2>2, Induction
  <2> QED BY <2>3 DEF T
<1>11. \A n \in 0 .. count : end[n] \in 0 .. L
  <2> DEFINE T == {n \in Nat : n <= count => end[count - n] \in 0 .. L}
  <2>1. 0 \in T
    <3>1. end[count] \in 0 .. L
      BY <1>8, <1>10 DEF S
    <3> QED BY <3>1
  <2>2. ASSUME NEW n \in Nat, n \in T PROVE n + 1 \in T
    <3> SUFFICES ASSUME n + 1 <= count PROVE end[count - (n + 1)] \in 0 .. L
      OBVIOUS
    <3> PICK i : i = count - n
      OBVIOUS
    <3>1. i \in 1 .. count /\ i - 1 \in 0 .. count /\ i - 1 = count - (n + 1) /\ end[i] \in 0 .. L
      BY <2>2
    <3>2. end[i - 1] \in 0 .. L + 1 /\ end[i] = NextEnd(in, end[i - 1])
      BY <1>9, <1>10, <3>1 DEF S
    <3>3. end[i - 1] < end[i]
      BY <3>1, <3>2, NextEndAfter
    <3>4. end[i - 1] \in 0 .. L
      BY <3>1, <3>2, <3>3
    <3> QED BY <3>1, <3>4
  <2> HIDE DEF T
  <2>3. \A i \in Nat : i \in T
    BY <2>1, <2>2, Induction
  <2>4. ASSUME NEW n \in 0 .. count PROVE end[n] \in 0 .. L
    <3>1. count - n \in Nat /\ count - n <= count /\ count - (count - n) = n
      OBVIOUS
    <3>2. count - n \in T
      BY <2>3, <3>1
    <3> QED BY <3>1, <3>2 DEF T
  <2> QED BY <2>4
<1>12. ASSUME NEW i \in 1 .. count PROVE end[i - 1] < end[i]
  <2>1. end[i - 1] \in 0 .. L /\ end[i] \in 0 .. L /\ end[i] = NextEnd(in, end[i - 1])
    BY <1>9, <1>11
  <2> QED BY <2>1, NextEndAfter
<1>13. end \in [0 .. count -> 0 .. L]
  BY <1>7, <1>11
<1>14. f.codes = [i \in 1 .. count |-> end[i] - end[i - 1] - 1] /\ f.at = end[count]
  BY <1>8
<1>15. EndsOf(end, f, in, at, count)
  BY <1>9, <1>12, <1>13, <1>14 DEF EndsOf
<1> QED BY <1>15

\* Each sequence takes a bit more than the zeros it counts.
LEMMA FundamentalRead ==
  ASSUME NEW in, IsBits(in), NEW at \in 0 .. Len(in), NEW count \in Nat,
         NEW f \in FundamentalSequences(in, at, count)
  PROVE  /\ f.codes \in Seq(Nat) /\ Len(f.codes) = count
         /\ f.at \in at + count .. Len(in)
         /\ count = 1 => f.at = at + f.codes[1] + 1
<1> DEFINE L == Len(in)
<1>0. L \in Nat
  BY DEF IsBits
<1>1. PICK e : EndsOf(e, f, in, at, count)
  BY EndsUnfold
<1>2. /\ e \in [0 .. count -> 0 .. L] /\ e[0] = at
      /\ \A i \in 1 .. count : e[i] = NextEnd(in, e[i - 1]) /\ e[i - 1] < e[i]
      /\ f.codes = [i \in 1 .. count |-> e[i] - e[i - 1] - 1] /\ f.at = e[count]
  BY <1>1 DEF EndsOf
<1> HIDE DEF L
<1>3. ASSUME NEW i \in 1 .. count PROVE e[i] - e[i - 1] - 1 \in Nat
  <2>1. i - 1 \in 0 .. count /\ e[i] \in 0 .. L /\ e[i - 1] \in 0 .. L /\ e[i - 1] < e[i]
    BY <1>0, <1>2
  <2> QED BY <2>1
<1>4. f.codes \in [1 .. count -> Nat]
  BY <1>2, <1>3
<1> DEFINE T == {n \in Nat : n <= count => e[n] >= at + n}
<1>5. 0 \in T
  BY <1>2
<1>6. ASSUME NEW n \in Nat, n \in T PROVE n + 1 \in T
  <2> SUFFICES ASSUME n + 1 <= count PROVE e[n + 1] >= at + (n + 1)
    OBVIOUS
  <2>1. n + 1 \in 1 .. count /\ (n + 1) - 1 = n /\ e[n] >= at + n /\ n \in 0 .. count
    BY <1>6
  <2>2. e[n] < e[n + 1] /\ e[n] \in 0 .. L /\ e[n + 1] \in 0 .. L
    BY <1>2, <2>1
  <2> QED BY <2>1, <2>2
<1> HIDE DEF T
<1>7. count \in T
  BY <1>5, <1>6, Induction
<1>8. f.at \in at + count .. L
  BY <1>0, <1>2, <1>7 DEF T, L
<1>9. count = 1 => f.at = at + f.codes[1] + 1
  <2> SUFFICES ASSUME count = 1 PROVE f.at = at + f.codes[1] + 1
    OBVIOUS
  <2>1. f.codes[1] = e[1] - e[0] - 1 /\ f.at = e[1] /\ e[1] \in Nat /\ e[0] = at
    BY <1>2
  <2> QED BY <2>1
<1> QED BY <1>4, <1>8, <1>9 DEF L

-----------------------------------------------------------------------------
(* The codes of one CDS.                                                   *)

LEMMA ShapeOf ==
  ASSUME NEW p, ParamShape(p)
  PROVE  /\ p.n \in 1 .. 32 /\ p.n \in Nat /\ p.block \in 2 .. 256 /\ p.block \in Nat
         /\ p.rsi \in 1 .. 4096 /\ p.rsi \in Nat
         /\ {p.preprocess, p.signed, p.restricted, p.pad} \subseteq BOOLEAN
<1>1. p.n \in 1 .. 32 /\ p.block \in 2 .. 256 /\ p.rsi \in 1 .. 4096
  BY DEF ParamShape
<1>2. p.n \in Nat /\ p.block \in Nat
  BY <1>1
<1>4. p.rsi \in Nat
  <2> DEFINE Intervals == 1 .. 4096
  <2>1. p.rsi \in Intervals /\ \A rsi \in Intervals : rsi \in Nat
    BY <1>1
  <2> HIDE DEF Intervals
  <2> QED BY <2>1
<1>3. {p.preprocess, p.signed, p.restricted, p.pad} \subseteq BOOLEAN
  BY DEF ParamShape
<1> QED BY <1>1, <1>2, <1>3, <1>4

LEMMA WidthsOf ==
  ASSUME NEW p, ParamShape(p)
  PROVE  /\ IdLen(p) \in 1 .. 5 /\ IdLen(p) \in Nat
         /\ MaxCode(p) \in Nat \ {0} /\ MaxCode(p) = 2 ^ p.n - 1
<1>1. p.n \in 1 .. 32 /\ p.restricted \in BOOLEAN
  BY ShapeOf
<1>2. IdLen(p) \in 1 .. 5 /\ IdLen(p) \in Nat
  <2>1. CASE p.restricted /\ p.n <= 2
    BY <1>1, <2>1 DEF IdLen
  <2>2. CASE p.restricted /\ p.n \in 3 .. 4
    BY <1>1, <2>2 DEF IdLen
  <2>3. CASE ~(p.restricted /\ p.n <= 4)
    BY <1>1, <2>3 DEF IdLen
  <2> QED BY <1>1, <2>1, <2>2, <2>3
<1>3. MaxCode(p) \in Nat \ {0} /\ MaxCode(p) = 2 ^ p.n - 1
  <2> PICK a, b : a = 2 ^ p.n /\ b = 2 ^ (p.n - 1)
    OBVIOUS
  <2>1. a = 2 * b /\ b \in Nat \ {0}
    BY <1>1, Powers
  <2>2. MaxCode(p) = a - 1
    BY DEF MaxCode
  <2> QED BY <2>1, <2>2
<1> QED BY <1>2, <1>3

\* So many codes of the width.
AreCodes(codes, p, count) == codes \in Seq(0 .. MaxCode(p)) /\ Len(codes) = count

\* What is read of a block: as many codes as are wanted, of the width.
BlockOf(cds, in, p, want) ==
  AreCodes(cds.codes, p, want) /\ cds.blocks = 0 /\ cds.at \in IdLen(p) .. Len(in)

LEMMA UncompressedRead ==
  ASSUME NEW p, ParamShape(p), NEW in, IsBits(in), NEW want \in Nat,
         NEW cds \in Uncompressed(in, p, want)
  PROVE  BlockOf(cds, in, p, want)
<1>1. PICK raw \in Fields(in, IdLen(p), want, p.n) : cds = Block(raw.codes, raw.at)
  BY DEF Uncompressed
<1>2. p.n \in Nat /\ IdLen(p) \in Nat
  BY ShapeOf, WidthsOf
<1> PICK taken : taken = want * p.n
  OBVIOUS
<1>3. taken \in Nat
  BY <1>2
<1>4. /\ raw.codes \in Seq(0 .. MaxCode(p)) /\ Len(raw.codes) = want
      /\ raw.at = IdLen(p) + taken /\ raw.at \in Nat /\ raw.at <= Len(in)
  BY <1>2, FieldsRead DEF MaxCode
<1>5. raw.at \in IdLen(p) .. Len(in)
  <2>1. Len(in) \in Nat
    BY DEF IsBits
  <2> QED BY <1>2, <1>3, <1>4, <2>1
<1> QED BY <1>1, <1>4, <1>5 DEF BlockOf, AreCodes, Block

\* A reference sample, or none, after an identifier.
LEMMA ReferenceRead ==
  ASSUME NEW p, ParamShape(p), NEW in, IsBits(in), NEW hasRef \in BOOLEAN, NEW at \in Nat,
         NEW ref \in Fields(in, at, References(hasRef), p.n)
  PROVE  /\ ref.codes \in Seq(0 .. MaxCode(p)) /\ Len(ref.codes) = References(hasRef)
         /\ References(hasRef) \in {0, 1} /\ ref.at \in at .. Len(in)
<1>1. References(hasRef) \in {0, 1}
  BY DEF References
<1>2. p.n \in Nat
  BY ShapeOf
<1> DEFINE refs == References(hasRef)
<1> HIDE DEF refs
<1>3. /\ ref.codes \in Seq(0 .. 2 ^ p.n - 1) /\ Len(ref.codes) = refs
      /\ ref.at = at + refs * p.n /\ ref.at \in Nat /\ ref.at <= Len(in)
  <2>1. refs \in Nat /\ ref \in Fields(in, at, refs, p.n)
    BY <1>1 DEF refs
  <2> QED BY <1>2, <2>1, FieldsRead
<1> PICK taken : taken = refs * p.n
  OBVIOUS
<1>4. taken \in Nat
  BY <1>1, <1>2 DEF refs
<1>5. ref.at \in at .. Len(in)
  <2>1. Len(in) \in Nat
    BY DEF IsBits
  <2> QED BY <1>3, <1>4, <2>1
<1> QED BY <1>1, <1>3, <1>5 DEF refs, MaxCode

\* The codes of a reference sample and of what follows it.
LEMMA CodesJoin ==
  ASSUME NEW p, NEW codes, NEW before \in Nat, AreCodes(codes, p, before),
         NEW count \in Nat, NEW rest \in [1 .. count -> 0 .. MaxCode(p)]
  PROVE  AreCodes(codes \o rest, p, before + count)
<1> DEFINE S == 0 .. MaxCode(p)
<1> HIDE DEF S
<1>1. codes \in Seq(S) /\ Len(codes) = before /\ rest \in [1 .. count -> S]
  BY DEF AreCodes, S
<1>2. rest \in Seq(S) /\ Len(rest) = count
  BY <1>1
<1>3. codes \o rest \in Seq(S) /\ Len(codes \o rest) = before + count
  BY <1>1, <1>2, ConcatProperties
<1> QED BY <1>3 DEF AreCodes, S

\* A high part that fits and k low bits make a code of the width.
LEMMA SplitCodeFits ==
  ASSUME NEW p, ParamShape(p), NEW k \in Nat, k <= p.n,
         NEW high \in Nat, high <= MaxCode(p) \div 2 ^ k, NEW low \in 0 .. 2 ^ k - 1
  PROVE  high * 2 ^ k + low \in 0 .. MaxCode(p)
<1> PICK a, b, c : a = 2 ^ (p.n - k) /\ b = 2 ^ k /\ c = 2 ^ p.n
  OBVIOUS
<1>1. p.n \in Nat /\ p.n - k \in Nat /\ (p.n - k) + k = p.n
  BY ShapeOf
<1>2. a \in Nat \ {0} /\ b \in Nat \ {0} /\ c = a * b
  <2>1. 2 ^ ((p.n - k) + k) = 2 ^ (p.n - k) * 2 ^ k
    BY <1>1, PowersMultiply
  <2> QED BY <1>1, <2>1, Powers
<1>3. high <= (c - 1) \div b /\ low \in 0 .. b - 1 /\ MaxCode(p) = c - 1
  BY DEF MaxCode
<1>4. high <= a - 1
  <2> PICK q : q = (c - 1) \div b
    OBVIOUS
  <2>1. q \in Int /\ q * b <= c - 1
    BY <1>2
  <2>2. ASSUME q >= a PROVE FALSE
    <3>1. q * b >= a * b
      BY <1>2, <2>1, <2>2
    <3> PICK qb, ab : qb = q * b /\ ab = a * b
      OBVIOUS
    <3>2. qb \in Int /\ ab \in Int /\ qb >= ab /\ qb <= ab - 1
      BY <1>2, <2>1, <3>1
    <3> QED BY <3>2
  <2> QED BY <1>2, <1>3, <2>1, <2>2
<1>5. high * b <= (a - 1) * b /\ (a - 1) * b = c - b /\ high * b \in Nat
  BY <1>2, <1>4
<1> PICK m : m = high * b
  OBVIOUS
<1>6. m + low \in 0 .. c - 1
  BY <1>2, <1>3, <1>5
<1> QED BY <1>3, <1>6

LEMMA SplitRead ==
  ASSUME NEW p, ParamShape(p), NEW in, IsBits(in), NEW k \in Nat, NEW hasRef \in BOOLEAN,
         NEW want \in 1 .. p.block, NEW cds \in Split(in, p, k, hasRef, want)
  PROVE  BlockOf(cds, in, p, want)
<1> PICK n, block, idLen, max, L :
      n = p.n /\ block = p.block /\ idLen = IdLen(p) /\ max = MaxCode(p) /\ L = Len(in)
  OBVIOUS
<1>1. /\ n \in Nat /\ block \in Nat /\ idLen \in Nat /\ max \in Nat /\ L \in Nat
      /\ want \in 1 .. block
  BY ShapeOf, WidthsOf DEF IsBits
<1> DEFINE refs == References(hasRef)
           Coded(high, low) == [i \in 1 .. want - refs |->
                                  high[i] * 2 ^ k + IF k = 0 THEN 0 ELSE low[i]]
           Lows(high) == {l \in Fields(in, high.at, IF k = 0 THEN 0 ELSE want - refs, k) :
                            k > p.n => \A i \in 1 .. want - refs :
                                         Coded(high.codes, l.codes)[i] <= MaxCode(p)}
           Highs(ref) == {h \in FundamentalSequences(in, ref.at, p.block - refs) :
                            \A i \in DOMAIN h.codes : h.codes[i] <= MaxCode(p) \div 2 ^ k}
           Refs == Fields(in, IdLen(p), refs, p.n)
           Of(ref, high, low) == cds = Block(ref.codes \o Coded(high.codes, low.codes), low.at)
<1>2. cds \in UNION UNION {{{Block(ref.codes \o Coded(high.codes, low.codes), low.at)
                               : low \in Lows(high)} : high \in Highs(ref)} : ref \in Refs}
  BY DEF Split
<1> HIDE DEF Coded, Lows, Highs, Refs, refs
<1>3. PICK ref \in Refs : \E high \in Highs(ref) : \E low \in Lows(high) : Of(ref, high, low)
  BY <1>2
<1>4. PICK high \in Highs(ref) : \E low \in Lows(high) : Of(ref, high, low)
  BY <1>3
<1>5. PICK low \in Lows(high) : Of(ref, high, low)
  BY <1>4
<1>6. /\ ref.codes \in Seq(0 .. max) /\ Len(ref.codes) = refs
      /\ refs \in {0, 1} /\ ref.at \in idLen .. L
  BY <1>1, ReferenceRead DEF Refs, refs
<1> PICK start : start = ref.at
  OBVIOUS
<1> DEFINE rest == want - refs
           more == block - refs
<1>7. more \in Nat /\ rest \in Nat /\ rest <= more
  BY <1>1, <1>6
<1>8. start \in Nat /\ start \in 0 .. L /\ idLen <= start
  BY <1>1, <1>6
<1> HIDE DEF rest, more
<1>9. high.codes \in Seq(Nat) /\ Len(high.codes) = more /\ high.at \in start + more .. L
  <2>1. high \in FundamentalSequences(in, start, more)
    BY DEF Highs, more
  <2> QED BY <1>7, <1>8, <2>1, FundamentalRead
<1>10. \A i \in 1 .. rest : high.codes[i] \in Nat /\ high.codes[i] <= max \div 2 ^ k
  BY <1>7, <1>9 DEF Highs
<1> PICK middle : middle = high.at
  OBVIOUS
<1>11. middle \in Nat /\ idLen <= middle
  BY <1>1, <1>7, <1>8, <1>9
<1> DEFINE lows == IF k = 0 THEN 0 ELSE rest
<1>12. lows \in Nat /\ low \in Fields(in, middle, lows, k)
  BY <1>7 DEF Lows, rest
<1> HIDE DEF lows
<1>13. /\ low.codes \in Seq(0 .. 2 ^ k - 1) /\ Len(low.codes) = lows
       /\ low.at = middle + lows * k /\ low.at <= L
  BY <1>11, <1>12, FieldsRead
<1>14. low.at \in idLen .. L
  <2> PICK taken : taken = lows * k
    OBVIOUS
  <2>1. taken \in Nat
    BY <1>12
  <2>2. low.at = middle + taken /\ low.at <= L
    BY <1>13
  <2> QED BY <1>1, <1>11, <2>1, <2>2
<1>15. \A i \in 1 .. rest : (IF k = 0 THEN 0 ELSE low.codes[i]) \in 0 .. 2 ^ k - 1
  <2>1. CASE k = 0
    <3>1. 2 ^ 0 = 1
      OBVIOUS
    <3> QED BY <2>1, <3>1
  <2>2. CASE k # 0
    BY <1>7, <1>13, <2>2 DEF lows
  <2> QED BY <2>1, <2>2
<1> DEFINE coded == Coded(high.codes, low.codes)
<1>16. coded \in [1 .. rest -> 0 .. MaxCode(p)]
  <2> SUFFICES ASSUME NEW i \in 1 .. rest
               PROVE  high.codes[i] * 2 ^ k + (IF k = 0 THEN 0 ELSE low.codes[i]) \in 0 .. max
    BY DEF Coded, rest
  <2> PICK h, l : h = high.codes[i] /\ l = IF k = 0 THEN 0 ELSE low.codes[i]
    OBVIOUS
  <2>1. h \in Nat /\ h <= max \div 2 ^ k /\ l \in 0 .. 2 ^ k - 1
    BY <1>10, <1>15
  <2>2. CASE k <= n
    BY <2>1, <2>2, SplitCodeFits
  <2>3. CASE ~(k <= n)
    <3>0. k > p.n /\ i \in 1 .. want - refs
      BY <1>1, <2>3 DEF rest
    <3>1. h * 2 ^ k + l <= max
      BY <3>0 DEF Lows, Coded
    <3> PICK b : b = 2 ^ k
      OBVIOUS
    <3> PICK c : c = h * b
      OBVIOUS
    <3>2. b \in Nat
      BY Powers
    <3>3. c \in Nat /\ l \in Nat
      BY <2>1, <3>2
    <3>4. c + l <= max
      BY <3>1
    <3> QED BY <1>1, <3>3, <3>4
  <2> QED BY <2>2, <2>3
<1> HIDE DEF coded
<1>17. AreCodes(ref.codes \o coded, p, want)
  <2>1. AreCodes(ref.codes, p, refs) /\ refs \in Nat
    BY <1>6 DEF AreCodes
  <2>2. AreCodes(ref.codes \o coded, p, refs + rest)
    BY <1>7, <1>16, <2>1, CodesJoin
  <2>3. refs + rest = want
    BY <1>1, <1>6 DEF rest
  <2> QED BY <2>2, <2>3
<1>18. cds = Block(ref.codes \o coded, low.at)
  BY <1>5 DEF coded
<1> QED BY <1>14, <1>17, <1>18 DEF BlockOf, Block

\* The product of two numbers in a row is even.
LEMMA ProductEven ==
  ASSUME NEW s \in Nat
  PROVE  \E q \in Nat : s * (s + 1) = 2 * q
<1> DEFINE T == {n \in Nat : \E q \in Nat : n * (n + 1) = 2 * q}
<1>1. 0 \in T
  <2>1. 0 * (0 + 1) = 2 * 0
    OBVIOUS
  <2> QED BY <2>1
<1>2. ASSUME NEW n \in Nat, n \in T PROVE n + 1 \in T
  <2>1. PICK q \in Nat : n * (n + 1) = 2 * q
    BY <1>2
  <2> PICK r : r = q + n + 1
    OBVIOUS
  <2>2. (n + 1) * ((n + 1) + 1) = 2 * r /\ r \in Nat
    BY <2>1
  <2>3. \E t \in Nat : (n + 1) * ((n + 1) + 1) = 2 * t
    BY <2>2, Zenon
  <2>4. n + 1 \in Nat
    OBVIOUS
  <2> QED BY <2>3, <2>4, Zenon
<1> HIDE DEF T
<1>3. s \in T
  BY <1>1, <1>2, Induction
<1> QED BY <1>3 DEF T

\* The pair of a code word is of natural numbers.
LEMMA PairRead ==
  ASSUME NEW c \in Nat
  PROVE  \E x \in Nat, y \in Nat : SePair(c) = <<x, y>>
<1> DEFINE T == {s \in Nat : 2 * c < (s + 1) * (s + 2)}
           IsSum(s) == s * (s + 1) <= 2 * c /\ 2 * c < (s + 1) * (s + 2)
           sum == CHOOSE s \in 0 .. c : IsSum(s)
           b == c - (sum * (sum + 1)) \div 2
<1>1. \E s \in 0 .. c : IsSum(s)
  <2>1. c \in T
    <3>1. (c + 1) * (c + 2) = c * c + 3 * c + 2 /\ c * c \in Nat
      OBVIOUS
    <3> PICK q : q = c * c
      OBVIOUS
    <3>2. 2 * c < q + 3 * c + 2
      BY <3>1
    <3> QED BY <3>1, <3>2
  <2>2. PICK m \in T : \A s \in T : m <= s
    <3>1. T \in SUBSET Nat /\ T # {}
      BY <2>1
    <3> HIDE DEF T
    <3> QED BY <3>1, LeastNatural
  <2>3. m \in 0 .. c
    BY <2>1, <2>2
  <2>4. m * (m + 1) <= 2 * c
    <3>1. CASE m = 0
      BY <3>1
    <3>2. CASE m # 0
      <4>1. m - 1 \in Nat /\ m - 1 \notin T
        BY <2>2, <3>2
      <4>2. ~(2 * c < ((m - 1) + 1) * ((m - 1) + 2))
        BY <4>1
      <4>3. ((m - 1) + 1) * ((m - 1) + 2) = m * (m + 1)
        BY <2>3
      <4> PICK q : q = m * (m + 1)
        OBVIOUS
      <4>4. q \in Nat /\ ~(2 * c < q)
        BY <2>3, <4>2, <4>3
      <4> QED BY <4>4
    <3> QED BY <3>1, <3>2
  <2> QED BY <2>2, <2>3, <2>4
<1>2. sum \in 0 .. c /\ IsSum(sum)
  BY <1>1
<1> HIDE DEF sum
<1>3. PICK q \in Nat : sum * (sum + 1) = 2 * q
  BY <1>2, ProductEven
<1>4. (sum + 1) * (sum + 2) = sum * (sum + 1) + 2 * (sum + 1)
  BY <1>2
<1>5. (sum * (sum + 1)) \div 2 = q
  BY <1>3
<1> PICK t : t = (sum + 1) * (sum + 2)
  OBVIOUS
<1>6. 2 * q <= 2 * c /\ 2 * c < t /\ t = 2 * q + 2 * (sum + 1) /\ sum \in Nat /\ b = c - q
  BY <1>2, <1>3, <1>4, <1>5
<1>7. b \in Nat /\ sum - b \in Nat
  BY <1>6
<1>8. SePair(c) = <<sum - b, b>>
  BY DEF SePair, sum
<1> HIDE DEF b
<1> QED BY <1>7, <1>8

LEMMA SecondExtensionRead ==
  ASSUME NEW p, ParamShape(p), NEW in, IsBits(in), NEW hasRef \in BOOLEAN,
         NEW want \in 1 .. p.block, NEW cds \in SecondExtension(in, p, hasRef, want)
  PROVE  BlockOf(cds, in, p, want)
<1> PICK idLen, max, L : idLen = IdLen(p) /\ max = MaxCode(p) /\ L = Len(in)
  OBVIOUS
<1>1. idLen \in Nat /\ max \in Nat /\ L \in Nat /\ want \in Nat \ {0}
  BY ShapeOf, WidthsOf DEF IsBits
<1> DEFINE refs == References(hasRef)
           pairs == IF want > refs THEN (want + 1) \div 2 ELSE 0
           Coded(words) == [i \in 1 .. want - refs |->
                              SePair(words[(i + refs + 1) \div 2])[2 - ((i + refs) % 2)]]
           Words(ref) == {w \in FundamentalSequences(in, ref.at, pairs) :
                            /\ hasRef /\ pairs > 0 => SePair(w.codes[1])[1] = 0
                            /\ \A i \in 1 .. want - refs : Coded(w.codes)[i] <= MaxCode(p)}
           Refs == Fields(in, IdLen(p) + 1, refs, p.n)
           Of(ref, words) == cds = Block(ref.codes \o Coded(words.codes), words.at)
<1>2. cds \in UNION {{Block(ref.codes \o Coded(words.codes), words.at) : words \in Words(ref)}
                       : ref \in Refs}
  BY DEF SecondExtension
<1> HIDE DEF Coded, Words, Refs, refs, pairs
<1>3. PICK ref \in Refs : \E words \in Words(ref) : Of(ref, words)
  BY <1>2
<1>4. PICK words \in Words(ref) : Of(ref, words)
  BY <1>3
<1>5. AreCodes(ref.codes, p, refs) /\ refs \in {0, 1} /\ ref.at \in idLen + 1 .. L
  <2>1. idLen + 1 \in Nat /\ ref \in Fields(in, idLen + 1, References(hasRef), p.n)
    BY <1>1 DEF Refs, refs
  <2> QED BY <2>1, ReferenceRead DEF refs, AreCodes
<1> PICK start : start = ref.at
  OBVIOUS
<1> DEFINE rest == want - refs
<1>6. rest \in Nat /\ refs + rest = want /\ pairs \in Nat /\ start \in 0 .. L /\ idLen <= start
  BY <1>1, <1>5 DEF pairs
<1> HIDE DEF rest
<1>7. words.codes \in Seq(Nat) /\ Len(words.codes) = pairs /\ words.at \in start + pairs .. L
  <2>1. words \in FundamentalSequences(in, start, pairs)
    BY DEF Words
  <2> QED BY <1>6, <2>1, FundamentalRead
<1>8. words.at \in idLen .. L
  BY <1>1, <1>6, <1>7
<1> DEFINE coded == Coded(words.codes)
<1>9. coded \in [1 .. rest -> 0 .. MaxCode(p)]
  <2> SUFFICES ASSUME NEW i \in 1 .. rest PROVE coded[i] \in 0 .. max
    BY DEF Coded, rest
  <2>1. coded[i] <= max
    BY DEF Words, rest
  <2> PICK at, half : at = (i + refs + 1) \div 2 /\ half = 2 - ((i + refs) % 2)
    OBVIOUS
  <2>2. at \in 1 .. pairs /\ half \in {1, 2}
    BY <1>1, <1>5, <1>6 DEF pairs, rest
  <2>3. words.codes[at] \in Nat
    BY <1>6, <1>7, <2>2
  <2>4. coded[i] = SePair(words.codes[at])[half]
    BY DEF Coded, rest
  <2>5. PICK x \in Nat, y \in Nat : SePair(words.codes[at]) = <<x, y>>
    BY <2>3, PairRead
  <2>6. coded[i] \in Nat
    BY <2>2, <2>4, <2>5
  <2> HIDE DEF coded
  <2> QED BY <1>1, <2>1, <2>6
<1> HIDE DEF coded
<1>10. AreCodes(ref.codes \o coded, p, want)
  <2>1. refs \in Nat
    BY <1>5
  <2>2. AreCodes(ref.codes \o coded, p, refs + rest)
    BY <1>5, <1>6, <1>9, <2>1, CodesJoin
  <2> QED BY <1>6, <2>2
<1>11. cds = Block(ref.codes \o coded, words.at)
  BY <1>4 DEF coded
<1> QED BY <1>8, <1>10, <1>11 DEF BlockOf, Block

\* What is read of a run of zero blocks: a reference sample if there is one, at
\* least one block and no more than the interval has left, and of the input at
\* least a 64th part of an identifier and six bits for each.
RunOf(cds, in, p, hasRef, done) ==
  /\ AreCodes(cds.codes, p, References(hasRef))
  /\ cds.blocks \in 1 .. p.rsi - done /\ cds.at \in IdLen(p) .. Len(in)
  /\ cds.blocks * (IdLen(p) + 6) <= 64 * cds.at

LEMMA RunBlocksRead ==
  ASSUME NEW p, ParamShape(p), NEW done \in 0 .. p.rsi - 1, NEW fs \in Nat,
         NEW blocks \in ZeroRunBlocks(p, fs, done)
  PROVE  /\ blocks \in 1 .. p.rsi - done
         /\ blocks * (IdLen(p) + 6) <= 64 * (IdLen(p) + fs + 2)
<1> DEFINE left == p.rsi - done
           ending == SegmentBlocks - (done % SegmentBlocks)
           run == IF fs + 1 = Ros THEN Smaller(left, ending)
                  ELSE IF fs + 1 < Ros THEN fs + 1 ELSE fs
<1>1. blocks = run /\ fs <= MaxZeroRunFs /\ blocks <= left
  BY DEF ZeroRunBlocks
<1>2. left \in Nat \ {0} /\ ending \in 1 .. 64
  BY ShapeOf DEF SegmentBlocks
<1> HIDE DEF left, ending
<1>3. /\ fs = 4 => blocks \in 1 .. 64
      /\ fs < 4 => blocks = fs + 1
      /\ fs > 4 => blocks = fs
      /\ fs <= 63
  BY <1>1, <1>2 DEF Ros, MaxZeroRunFs, Smaller
<1>4. blocks \in 1 .. left
  BY <1>1, <1>2, <1>3
<1>5. blocks * (IdLen(p) + 6) <= 64 * (IdLen(p) + fs + 2)
  <2> SUFFICES ASSUME NEW idLen \in 1 .. 5 PROVE blocks * (idLen + 6) <= 64 * (idLen + fs + 2)
    BY WidthsOf
  <2>1. blocks \in Nat /\ blocks <= 64
    BY <1>3
  <2>2. CASE fs >= 4
    <3>1. blocks * (idLen + 6) <= 64 * (idLen + 6)
      BY <2>1
    <3> PICK m : m = blocks * (idLen + 6)
      OBVIOUS
    <3>2. m \in Nat /\ m <= 64 * (idLen + 6)
      BY <2>1, <3>1
    <3> QED BY <2>2, <3>2
  <2>3. CASE fs < 4
    <3>1. blocks * (idLen + 6) <= 4 * (idLen + 6)
      BY <1>3, <2>3
    <3> PICK m : m = blocks * (idLen + 6)
      OBVIOUS
    <3>2. m \in Nat /\ m <= 4 * (idLen + 6)
      BY <2>1, <3>1
    <3> QED BY <2>3, <3>2
  <2> QED BY <2>2, <2>3
<1> QED BY <1>4, <1>5 DEF left

LEMMA ZeroRunRead ==
  ASSUME NEW p, ParamShape(p), NEW in, IsBits(in), NEW hasRef \in BOOLEAN,
         NEW done \in 0 .. p.rsi - 1, NEW cds \in ZeroRun(in, p, hasRef, done)
  PROVE  RunOf(cds, in, p, hasRef, done)
<1> PICK idLen, L : idLen = IdLen(p) /\ L = Len(in)
  OBVIOUS
<1>0. \A i, s, z \in Nat, m \in Int :
        i + 1 <= s /\ m <= 64 * (i + z + 2) => m <= 64 * (s + z + 1)
  OBVIOUS
<1>1. idLen \in Nat /\ L \in Nat
  BY WidthsOf DEF IsBits
<1> DEFINE Runs(fs) == ZeroRunBlocks(p, fs.codes[1], done)
           Codes(ref) == FundamentalSequences(in, ref.at, 1)
           Refs == Fields(in, IdLen(p) + 1, References(hasRef), p.n)
           Of(ref, fs, blocks) == cds = [codes |-> ref.codes, blocks |-> blocks, at |-> fs.at]
<1>2. cds \in UNION UNION {{{[codes |-> ref.codes, blocks |-> blocks, at |-> fs.at]
                               : blocks \in Runs(fs)} : fs \in Codes(ref)} : ref \in Refs}
  BY DEF ZeroRun
<1> HIDE DEF Runs, Codes, Refs
<1>3. PICK ref \in Refs : \E fs \in Codes(ref) : \E blocks \in Runs(fs) : Of(ref, fs, blocks)
  BY <1>2
<1>4. PICK fs \in Codes(ref) : \E blocks \in Runs(fs) : Of(ref, fs, blocks)
  BY <1>3
<1>5. PICK blocks \in Runs(fs) : Of(ref, fs, blocks)
  BY <1>4
<1>6. AreCodes(ref.codes, p, References(hasRef)) /\ ref.at \in idLen + 1 .. L
  <2>1. idLen + 1 \in Nat /\ ref \in Fields(in, idLen + 1, References(hasRef), p.n)
    BY <1>1 DEF Refs
  <2> QED BY <2>1, ReferenceRead DEF AreCodes
<1> PICK start, zeros, at : start = ref.at /\ zeros = fs.codes[1] /\ at = fs.at
  OBVIOUS
<1>7. start \in 0 .. L /\ start \in Nat /\ idLen + 1 <= start
  BY <1>1, <1>6
<1>8. zeros \in Nat /\ at = start + zeros + 1 /\ at <= L
  <2> DEFINE one == 1
  <2>1. fs \in FundamentalSequences(in, start, one) /\ one \in Nat
    BY DEF Codes
  <2> HIDE DEF one
  <2>2. /\ fs.codes \in Seq(Nat) /\ Len(fs.codes) = one /\ fs.at \in start + one .. L
        /\ one = 1 => fs.at = start + fs.codes[1] + 1
    BY <1>7, <2>1, FundamentalRead
  <2>3. fs.codes[1] \in Nat
    BY <2>2 DEF one
  <2>4. at = start + zeros + 1 /\ at \in start + 1 .. L
    BY <2>2 DEF one
  <2> QED BY <1>1, <1>7, <2>3, <2>4
<1>9. blocks \in 1 .. p.rsi - done /\ blocks * (idLen + 6) <= 64 * (idLen + zeros + 2)
  <2>1. blocks \in ZeroRunBlocks(p, zeros, done)
    BY DEF Runs
  <2> QED BY <1>8, <2>1, RunBlocksRead
<1>10. at \in idLen .. L /\ blocks * (idLen + 6) <= 64 * at
  <2>1. blocks * (idLen + 6) \in Int
    BY <1>1, <1>9, ShapeOf
  <2>2. at \in idLen .. L
    BY <1>1, <1>7, <1>8
  <2>3. blocks * (idLen + 6) <= 64 * (start + zeros + 1)
    BY <1>0, <1>1, <1>7, <1>8, <1>9, <2>1
  <2> QED BY <1>8, <2>2, <2>3
<1>11. cds.codes = ref.codes /\ cds.blocks = blocks /\ cds.at = at
  BY <1>5
<1> QED BY <1>6, <1>9, <1>10, <1>11 DEF RunOf

\* What one CDS is read as: a block or a run.
LEMMA CdsRead ==
  ASSUME NEW p, ParamShape(p), NEW in, IsBits(in), NEW hasRef \in BOOLEAN,
         NEW want \in 1 .. p.block, NEW done \in 0 .. p.rsi - 1,
         NEW cds \in Cds(in, p, hasRef, want, done)
  PROVE  BlockOf(cds, in, p, want) \/ RunOf(cds, in, p, hasRef, done)
<1> DEFINE Found(id) ==
             CASE id.codes[1] = IdUncompressed(p) -> Uncompressed(in, p, want)
               [] id.codes[1] = 0 ->
                    UNION {IF selector.codes[1] = 1 THEN SecondExtension(in, p, hasRef, want)
                                                    ELSE ZeroRun(in, p, hasRef, done)
                             : selector \in Fields(in, id.at, 1, 1)}
               [] OTHER -> Split(in, p, id.codes[1] - 1, hasRef, want)
           Ids == Fields(in, 0, 1, IdLen(p))
<1>1. cds \in UNION {Found(id) : id \in Ids}
  BY DEF Cds
<1>2. PICK id \in Ids : cds \in Found(id)
  <2> HIDE DEF Found, Ids
  <2> QED BY <1>1
<1>3. IdLen(p) \in Nat /\ want \in Nat
  BY ShapeOf, WidthsOf
<1>4. id.codes[1] \in Nat
  <2> DEFINE one == 1
             zero == 0
             S == 0 .. 2 ^ IdLen(p) - 1
  <2>1. one \in Nat /\ zero \in Nat /\ id \in Fields(in, zero, one, IdLen(p))
    OBVIOUS
  <2>2. \A x \in S : x \in Nat
    OBVIOUS
  <2> HIDE DEF one, zero
  <2>3. id.codes \in Seq(S) /\ Len(id.codes) = one
    BY <1>3, <2>1, FieldsRead
  <2> HIDE DEF S
  <2>4. id.codes[1] \in S
    BY <2>3 DEF one
  <2> QED BY <2>2, <2>4
<1>5. CASE id.codes[1] = IdUncompressed(p) /\ id.codes[1] # 0
  <2>1. cds \in Uncompressed(in, p, want)
    BY <1>2, <1>5
  <2> QED BY <1>3, <2>1, UncompressedRead
<1>6. CASE id.codes[1] = 0
  <2>1. IdUncompressed(p) # 0
    <3> PICK a, b : a = 2 ^ IdLen(p) /\ b = 2 ^ (IdLen(p) - 1)
      OBVIOUS
    <3>1. IdLen(p) \in 1 .. 5
      BY WidthsOf
    <3>2. a = 2 * b /\ b \in Nat
      BY <3>1, Powers
    <3> QED BY <3>2 DEF IdUncompressed
  <2>2. cds \in UNION {IF selector.codes[1] = 1 THEN SecondExtension(in, p, hasRef, want)
                                                ELSE ZeroRun(in, p, hasRef, done)
                         : selector \in Fields(in, id.at, 1, 1)}
    BY <1>2, <1>6, <2>1
  <2>3. cds \in SecondExtension(in, p, hasRef, want) \/ cds \in ZeroRun(in, p, hasRef, done)
    BY <2>2
  <2> QED BY <2>3, SecondExtensionRead, ZeroRunRead
<1>7. CASE id.codes[1] # IdUncompressed(p) /\ id.codes[1] # 0
  <2>1. cds \in Split(in, p, id.codes[1] - 1, hasRef, want) /\ id.codes[1] - 1 \in Nat
    BY <1>2, <1>4, <1>7
  <2> QED BY <2>1, SplitRead
<1> QED BY <1>5, <1>6, <1>7

-----------------------------------------------------------------------------
(* The samples the codes stand for.                                        *)

\* A code stands for a sample, whatever the sample before it.
LEMMA UnmapInRange ==
  ASSUME NEW p, ParamShape(p), NEW last \in Lowest(p) .. Highest(p), NEW d \in 0 .. MaxCode(p)
  PROVE  Unmap(p, last, d) \in Lowest(p) .. Highest(p)
<1> PICK w, all : w = 2 ^ (p.n - 1) /\ all = 2 ^ p.n
  OBVIOUS
<1>1. w \in Nat \ {0} /\ all = 2 * w
  <2>1. p.n \in 1 .. 32
    BY ShapeOf
  <2> QED BY <2>1, Powers
<1>2. MaxCode(p) = 2 * w - 1
  BY <1>1 DEF MaxCode
<1>3. CASE p.signed
  <2>1. Lowest(p) = -w /\ Highest(p) = w - 1
    BY <1>1, <1>3 DEF Lowest, Highest
  <2>2. Unmap(p, last, d) = UnmapSigned(last, d, w - 1)
    BY <1>3, <2>1 DEF Unmap
  <2>3. ASSUME NEW x \in -w .. w - 1, NEW c \in 0 .. 2 * w - 1
        PROVE  UnmapSigned(x, c, w - 1) \in -w .. w - 1
    BY <1>1 DEF UnmapSigned, PredictionError
  <2> QED BY <1>2, <2>1, <2>2, <2>3
<1>4. CASE ~p.signed
  <2>1. Lowest(p) = 0 /\ Highest(p) = 2 * w - 1
    BY <1>1, <1>4 DEF Lowest, Highest
  <2>2. Unmap(p, last, d) = UnmapUnsigned(last, d, 2 * w - 1)
    BY <1>4, <2>1 DEF Unmap
  <2>3. ASSUME NEW x \in 0 .. 2 * w - 1, NEW c \in 0 .. 2 * w - 1
        PROVE  UnmapUnsigned(x, c, 2 * w - 1) \in 0 .. 2 * w - 1
    <3>1. (2 * w - 1) \div 2 + 1 = w
      BY <1>1
    <3>2. CASE x >= w
      BY <1>1, <3>1, <3>2 DEF UnmapUnsigned, PredictionError
    <3>3. CASE x < w
      BY <1>1, <3>1, <3>3 DEF UnmapUnsigned, PredictionError
    <3> QED BY <3>2, <3>3, <1>1
  <2> QED BY <1>2, <2>1, <2>2, <2>3
<1> QED BY <1>3, <1>4

LEMMA SamplesOf ==
  ASSUME NEW p, ParamShape(p)
  PROVE  /\ 0 \in Samples(p) /\ Samples(p) \subseteq Int
         /\ p.preprocess => /\ Samples(p) = Lowest(p) .. Highest(p)
                            /\ \A raw \in 0 .. MaxCode(p) : Reference(p, raw) \in Samples(p)
         /\ ~p.preprocess => Samples(p) = 0 .. MaxCode(p)
<1> PICK w, all : w = 2 ^ (p.n - 1) /\ all = 2 ^ p.n
  OBVIOUS
<1>1. w \in Nat \ {0} /\ all = 2 * w
  <2>1. p.n \in 1 .. 32
    BY ShapeOf
  <2> QED BY <2>1, Powers
<1>2. MaxCode(p) = 2 * w - 1
  BY <1>1 DEF MaxCode
<1>3. /\ p.signed => Lowest(p) = -w /\ Highest(p) = w - 1
      /\ ~p.signed => Lowest(p) = 0 /\ Highest(p) = 2 * w - 1
  BY <1>1 DEF Lowest, Highest
<1>4. 0 \in Lowest(p) .. Highest(p) /\ Lowest(p) .. Highest(p) \subseteq Int
  BY <1>1, <1>3
<1>5. 0 \in 0 .. MaxCode(p) /\ 0 .. MaxCode(p) \subseteq Int
  BY <1>1, <1>2
<1>6. ASSUME NEW raw \in 0 .. MaxCode(p) PROVE Reference(p, raw) \in Lowest(p) .. Highest(p)
  <2>1. Reference(p, raw) = IF p.signed /\ raw > Highest(p) THEN raw - 2 * w ELSE raw
    BY <1>1 DEF Reference
  <2>2. raw \in 0 .. 2 * w - 1
    BY <1>2
  <2>3. CASE p.signed
    <3>1. Lowest(p) = -w /\ Highest(p) = w - 1
      BY <1>3, <2>3
    <3> QED BY <1>1, <2>1, <2>2, <2>3, <3>1
  <2>4. CASE ~p.signed
    <3>1. Lowest(p) = 0 /\ Highest(p) = 2 * w - 1
      BY <1>3, <2>4
    <3> QED BY <1>1, <2>1, <2>2, <2>4, <3>1
  <2> QED BY <2>3, <2>4
<1> QED BY <1>4, <1>5, <1>6 DEF Samples

\* As many samples as codes.
LEMMA PostprocessedSamples ==
  ASSUME NEW p, ParamShape(p), NEW codes, NEW count \in Nat, AreCodes(codes, p, count),
         NEW hasRef \in BOOLEAN, NEW last \in Samples(p)
  PROVE  /\ Postprocessed(p, codes, hasRef, last) \in Seq(Samples(p))
         /\ Len(Postprocessed(p, codes, hasRef, last)) = count
<1>1. codes \in Seq(0 .. MaxCode(p)) /\ Len(codes) = count /\ codes \in [1 .. count -> 0 .. MaxCode(p)]
  <2> DEFINE S == 0 .. MaxCode(p)
  <2> HIDE DEF S
  <2>1. codes \in Seq(S) /\ Len(codes) = count
    BY DEF AreCodes, S
  <2>2. codes \in [1 .. count -> S]
    BY <2>1
  <2> QED BY <2>1, <2>2 DEF S
<1>2. p.preprocess \in BOOLEAN
  BY ShapeOf
<1>3. CASE ~p.preprocess
  <2>1. Postprocessed(p, codes, hasRef, last) = codes
    BY <1>3 DEF Postprocessed
  <2> QED BY <1>1, <1>3, <2>1, SamplesOf
<1>4. CASE p.preprocess
  <2> DEFINE S == Samples(p)
             After(i, x) == IF hasRef /\ i = 1 THEN Reference(p, codes[1]) ELSE Unmap(p, x, codes[i])
             h == [w \in (1 .. count) \X S |-> After(w[1], w[2])]
  <2>1. ASSUME NEW i \in 1 .. count, NEW x \in S PROVE After(i, x) \in S
    <3>1. codes[i] \in 0 .. MaxCode(p)
      BY <1>1
    <3>2. S = Lowest(p) .. Highest(p) /\ (i = 1 => Reference(p, codes[1]) \in S)
      BY <1>4, <3>1, SamplesOf
    <3>3. Unmap(p, x, codes[i]) \in S
      BY <3>1, <3>2, UnmapInRange
    <3> QED BY <3>2, <3>3
  <2> HIDE DEF After, S
  <2>2. h \in [(1 .. count) \X S -> S]
    BY <2>1
  <2>3. ASSUME NEW i \in 1 .. count, NEW x \in S PROVE h[<<i, x>>] = After(i, x)
    <3> PICK w : w = <<i, x>>
      OBVIOUS
    <3>1. w \in (1 .. count) \X S /\ w[1] = i /\ w[2] = x
      OBVIOUS
    <3>2. h[w] = After(w[1], w[2])
      BY <3>1
    <3> QED BY <3>1, <3>2
  <2>4. last \in S
    BY DEF S
  <2> HIDE DEF h
  <2>5. PICK g \in [0 .. count -> S] : Recurs(g, h, last, count)
    BY <2>2, <2>4, Recursion
  <2>6. g = [i \in 0 .. count |-> IF i = 0 THEN last ELSE After(i, g[i - 1])]
    <3>1. ASSUME NEW i \in 1 .. count PROVE g[i] = After(i, g[i - 1])
      <4>1. g[i - 1] \in S
        BY <2>5
      <4> QED BY <2>3, <2>5, <4>1 DEF Recurs
    <3> QED BY <2>5, <3>1 DEF Recurs
  <2> DEFINE sample == CHOOSE sample :
               sample = [i \in 0 .. count |-> IF i = 0 THEN last ELSE After(i, sample[i - 1])]
  <2>7. sample = [i \in 0 .. count |-> IF i = 0 THEN last ELSE After(i, sample[i - 1])]
    BY <2>6
  <2>8. Postprocessed(p, codes, hasRef, last) = [i \in 1 .. count |-> sample[i]]
    <3>1. Postprocessed(p, codes, hasRef, last) = [i \in DOMAIN codes |-> sample[i]]
      BY <1>1, <1>4 DEF Postprocessed, After
    <3> HIDE DEF sample
    <3> QED BY <1>1, <3>1
  <2> HIDE DEF sample
  <2>9. sample[0] = last /\ \A i \in 1 .. count : sample[i] = After(i, sample[i - 1])
    BY <2>7
  <2>10. \A i \in 0 .. count : sample[i] \in S
    <3> DEFINE T == {n \in Nat : n <= count => sample[n] \in S}
    <3>1. 0 \in T
      BY <2>4, <2>9
    <3>2. ASSUME NEW n \in Nat, n \in T PROVE n + 1 \in T
      <4> SUFFICES ASSUME n + 1 <= count PROVE sample[n + 1] \in S
        OBVIOUS
      <4>1. n + 1 \in 1 .. count /\ (n + 1) - 1 = n /\ sample[n] \in S
        BY <3>2
      <4>2. sample[n + 1] = After(n + 1, sample[n])
        BY <2>9, <4>1
      <4> QED BY <2>1, <4>1, <4>2
    <3> HIDE DEF T
    <3>3. \A i \in Nat : i \in T
      BY <3>1, <3>2, Induction
    <3> QED BY <3>3 DEF T
  <2>11. [i \in 1 .. count |-> sample[i]] \in Seq(S)
         /\ Len([i \in 1 .. count |-> sample[i]]) = count
    BY <2>10
  <2> QED BY <2>8, <2>11 DEF S
<1> QED BY <1>2, <1>3, <1>4

-----------------------------------------------------------------------------
(* The encoder writes bits.                                                *)

LEMMA BitsJoin ==
  ASSUME NEW s, NEW t, IsBits(s), IsBits(t)
  PROVE  IsBits(s \o t)
BY ConcatProperties DEF IsBits

LEMMA NumberBitsAre ==
  ASSUME NEW v \in Int, NEW width \in Nat
  PROVE  IsBits(NumberBits(v, width))
<1>1. ASSUME NEW i \in 1 .. width PROVE (v \div 2 ^ (width - i)) % 2 \in {0, 1}
  <2> PICK k, w : k = width - i /\ w = 2 ^ k
    OBVIOUS
  <2>1. k \in Nat
    OBVIOUS
  <2>2. w \in Nat \ {0}
    BY <2>1, Powers
  <2> PICK q : q = v \div w
    OBVIOUS
  <2>3. q \in Int
    BY <2>2
  <2>4. q % 2 \in {0, 1}
    BY <2>3
  <2> QED BY <2>4
<1>2. NumberBits(v, width) \in [1 .. width -> {0, 1}]
  BY <1>1 DEF NumberBits
<1> QED BY <1>2 DEF IsBits

LEMMA SequenceBitsAre ==
  ASSUME NEW v \in Int
  PROVE  IsBits(SequenceBits(v))
<1> PICK n \in Nat : 1 .. v + 1 = 1 .. n
  <2>1. CASE v + 1 \in Nat
    BY <2>1
  <2>2. CASE v + 1 \notin Nat
    <3>1. 1 .. v + 1 = 1 .. 0
      BY <2>2
    <3> QED BY <3>1
  <2> QED BY <2>1, <2>2
<1>1. SequenceBits(v) \in [1 .. n -> {0, 1}]
  BY DEF SequenceBits
<1> QED BY <1>1 DEF IsBits

LEMMA FlattenBits ==
  ASSUME NEW n \in Nat, NEW seqs, seqs \in [1 .. n -> Seq({0, 1})]
  PROVE  IsBits(FlattenSeq(seqs))
<1>1. Len(seqs) = n /\ seqs \in Seq(Seq({0, 1}))
  OBVIOUS
<1>2. CASE n = 0
  <2>1. FlattenSeq(seqs) = seqs /\ seqs = <<>>
    BY <1>1, <1>2 DEF FlattenSeq
  <2> QED BY <2>1 DEF IsBits
<1>3. CASE n # 0
  <2> DEFINE S == Seq({0, 1})
             h == [w \in (1 .. n - 1) \X S |-> w[2] \o seqs[w[1] + 1]]
  <2>1. ASSUME NEW i \in 1 .. n - 1, NEW x \in S PROVE x \o seqs[i + 1] \in S
    <3>1. i + 1 \in 1 .. n
      OBVIOUS
    <3>2. seqs[i + 1] \in S
      BY <3>1
    <3> QED BY <3>2, ConcatProperties
  <2>2. h \in [(1 .. n - 1) \X S -> S]
    <3> HIDE DEF S
    <3> QED BY <2>1
  <2>3. ASSUME NEW i \in 1 .. n - 1, NEW x \in S PROVE h[<<i, x>>] = x \o seqs[i + 1]
    <3> HIDE DEF S
    <3> PICK w : w = <<i, x>>
      OBVIOUS
    <3>1. w \in (1 .. n - 1) \X S /\ w[1] = i /\ w[2] = x
      OBVIOUS
    <3>2. h[w] = w[2] \o seqs[w[1] + 1]
      BY <3>1
    <3> QED BY <3>1, <3>2
  <2>4. seqs[1] \in S /\ n - 1 \in Nat
    BY <1>3
  <2> HIDE DEF h, S
  <2>5. PICK g \in [0 .. n - 1 -> S] : Recurs(g, h, seqs[1], n - 1)
    BY <2>2, <2>4, Recursion
  <2> DEFINE f == [i \in 1 .. n |-> g[i - 1]]
  <2>6. f = [i \in 1 .. n |-> IF i = 1 THEN seqs[i] ELSE f[i - 1] \o seqs[i]]
    <3>1. f[1] = seqs[1]
      BY <1>3, <2>5 DEF Recurs
    <3>2. ASSUME NEW i \in 1 .. n, i # 1 PROVE f[i] = f[i - 1] \o seqs[i]
      <4> PICK j : j = i - 1
        OBVIOUS
      <4>1. j \in 1 .. n - 1 /\ j - 1 \in 0 .. n - 1 /\ j \in 1 .. n /\ j + 1 = i
        BY <3>2
      <4>2. g[j] = h[<<j, g[j - 1]>>] /\ g[j - 1] \in S
        BY <2>5, <4>1 DEF Recurs
      <4>3. g[j] = g[j - 1] \o seqs[j + 1]
        BY <2>3, <4>1, <4>2
      <4>4. f[i] = g[j] /\ f[j] = g[j - 1]
        BY <4>1
      <4> QED BY <4>1, <4>3, <4>4
    <3> QED BY <3>1, <3>2
  <2> DEFINE flatten == CHOOSE flatten :
               flatten = [i \in 1 .. n |-> IF i = 1 THEN seqs[i] ELSE flatten[i - 1] \o seqs[i]]
  <2>7. flatten = [i \in 1 .. n |-> IF i = 1 THEN seqs[i] ELSE flatten[i - 1] \o seqs[i]]
    <3> HIDE DEF f
    <3> QED BY <2>6
  <2>8. FlattenSeq(seqs) = flatten[n]
    BY <1>1, <1>3 DEF FlattenSeq
  <2> HIDE DEF flatten
  <2>9. flatten[1] = seqs[1] /\ \A i \in 2 .. n : flatten[i] = flatten[i - 1] \o seqs[i]
    <3>1. 1 \in 1 .. n
      BY <1>3
    <3>2. flatten[1] = seqs[1]
      BY <2>7, <3>1
    <3>3. ASSUME NEW i \in 2 .. n PROVE flatten[i] = flatten[i - 1] \o seqs[i]
      <4>1. i \in 1 .. n /\ i # 1
        OBVIOUS
      <4> QED BY <2>7, <4>1
    <3> QED BY <3>2, <3>3
  <2> DEFINE T == {k \in Nat : k + 1 <= n => flatten[k + 1] \in S}
  <2>10. 0 \in T
    BY <2>4, <2>9
  <2>11. ASSUME NEW k \in Nat, k \in T PROVE k + 1 \in T
    <3> SUFFICES ASSUME (k + 1) + 1 <= n PROVE flatten[(k + 1) + 1] \in S
      OBVIOUS
    <3>1. (k + 1) + 1 \in 2 .. n /\ ((k + 1) + 1) - 1 = k + 1 /\ flatten[k + 1] \in S /\ k + 1 \in 1 .. n - 1
      BY <2>11
    <3>2. flatten[(k + 1) + 1] = flatten[k + 1] \o seqs[(k + 1) + 1]
      BY <2>9, <3>1
    <3> QED BY <2>1, <3>1, <3>2
  <2> HIDE DEF T
  <2>12. \A k \in Nat : k \in T
    BY <2>10, <2>11, Induction
  <2>13. n - 1 \in T /\ (n - 1) + 1 = n
    BY <2>4, <2>12
  <2>14. flatten[n] \in S
    BY <2>13 DEF T
  <2> QED BY <2>8, <2>14 DEF IsBits, S
<1> QED BY <1>2, <1>3

LEMMA BoundsAreIntegers ==
  ASSUME NEW p, ParamShape(p)
  PROVE  Lowest(p) \in Int /\ Highest(p) \in Int /\ 2 ^ p.n \in Nat
<1> PICK w, all : w = 2 ^ (p.n - 1) /\ all = 2 ^ p.n
  OBVIOUS
<1>1. w \in Nat /\ all \in Nat
  <2>1. p.n \in 1 .. 32
    BY ShapeOf
  <2> QED BY <2>1, Powers
<1> QED BY <1>1 DEF Lowest, Highest

\* The codes of a block are integers, as many as its samples.
LEMMA CodesAreIntegers ==
  ASSUME NEW p, ParamShape(p), NEW samples \in [1 .. p.block -> Samples(p)],
         NEW hasRef \in BOOLEAN, NEW last \in Int
  PROVE  CodesOf(p, samples, hasRef, last) \in [1 .. p.block -> Int]
<1>1. samples \in [1 .. p.block -> Int]
  BY SamplesOf
<1>2. ASSUME NEW x \in Int, NEW y \in Int PROVE Mapped(p, x, y) \in Int /\ Raw(p, y) \in Int
  <2> PICK low, high, all : low = Lowest(p) /\ high = Highest(p) /\ all = 2 ^ p.n
    OBVIOUS
  <2>1. low \in Int /\ high \in Int /\ all \in Int
    BY BoundsAreIntegers
  <2>2. Mapped(p, x, y) \in Int
    BY <2>1 DEF Mapped, Smaller
  <2>3. Raw(p, y) \in Int
    BY <2>1 DEF Raw
  <2> QED BY <2>2, <2>3
<1>3. ASSUME NEW i \in 1 .. p.block
      PROVE  (IF i = 1 THEN IF hasRef THEN Raw(p, samples[1]) ELSE Mapped(p, last, samples[1])
              ELSE Mapped(p, samples[i - 1], samples[i])) \in Int
  <2>1. p.block \in Nat
    BY ShapeOf
  <2>2. samples[i] \in Int
    BY <1>1
  <2>3. CASE i = 1
    BY <1>2, <2>2, <2>3
  <2>4. CASE i # 1
    <3>1. i - 1 \in 1 .. p.block
      BY <2>1, <2>4
    <3>2. samples[i - 1] \in Int
      BY <1>1, <3>1
    <3> QED BY <1>2, <2>2, <2>4, <3>2
  <2> QED BY <2>3, <2>4
<1>4. DOMAIN samples = 1 .. p.block
  OBVIOUS
<1> QED BY <1>1, <1>3, <1>4 DEF CodesOf

LEMMA CodingsAreBits ==
  ASSUME NEW p, ParamShape(p), NEW n \in Nat \ {0}, NEW codes \in [1 .. n -> Int],
         NEW hasRef \in BOOLEAN, NEW bits \in Codings(p, codes, hasRef)
  PROVE  IsBits(bits)
<1>1. p.n \in Nat /\ IdLen(p) \in Nat /\ IdUncompressed(p) \in Int
  <2>1. p.n \in Nat /\ IdLen(p) \in Nat
    BY ShapeOf, WidthsOf
  <2> PICK a : a = 2 ^ IdLen(p)
    OBVIOUS
  <2>2. a \in Nat
    BY <2>1, Powers
  <2> QED BY <2>1, <2>2 DEF IdUncompressed
<1>2. \A id \in Int : IsBits(Identifier(p, id))
  BY <1>1, NumberBitsAre DEF Identifier
<1>3. codes \in Seq(Int) /\ Len(codes) = n /\ codes[1] \in Int /\ Tail(codes) \in Seq(Int)
  <2>1. codes \in Seq(Int) /\ Len(codes) = n /\ codes # <<>>
    OBVIOUS
  <2>2. 1 \in 1 .. n
    OBVIOUS
  <2> QED BY <2>1, <2>2, HeadTailProperties
<1>4. IsBits(ReferenceBits(p, codes, hasRef))
  <2>1. IsBits(<<>>)
    BY DEF IsBits
  <2> QED BY <1>1, <1>3, <2>1, NumberBitsAre DEF ReferenceBits
<1>5. ASSUME NEW m \in Nat, NEW f, f \in [1 .. m -> Seq({0, 1})] PROVE IsBits(FlattenSeq(f))
  BY <1>5, FlattenBits
<1>6. CASE bits = Identifier(p, IdUncompressed(p)) \o RawBits(p, codes)
  <2> DEFINE f == [i \in DOMAIN codes |-> NumberBits(codes[i], p.n)]
  <2>1. f \in [1 .. n -> Seq({0, 1})]
    BY <1>1, NumberBitsAre DEF IsBits
  <2>2. IsBits(FlattenSeq(f))
    BY <1>5, <2>1
  <2> QED BY <1>1, <1>2, <1>6, <2>2, BitsJoin DEF RawBits
<1>7. ASSUME NEW k \in Nat, bits = SplitBits(p, codes, hasRef, k) PROVE IsBits(bits)
  <2> DEFINE errors == Errors(codes, hasRef)
             f == [i \in DOMAIN errors |-> SequenceBits(errors[i] \div 2 ^ k)]
             g == [i \in DOMAIN errors |-> NumberBits(errors[i] % (2 ^ k), k)]
  <2>1. errors \in Seq(Int)
    BY <1>3 DEF Errors
  <2> HIDE DEF errors
  <2>2. PICK m \in Nat : DOMAIN errors = 1 .. m /\ \A i \in 1 .. m : errors[i] \in Int
    BY <2>1
  <2>3. ASSUME NEW i \in 1 .. m
        PROVE  IsBits(SequenceBits(errors[i] \div 2 ^ k)) /\ IsBits(NumberBits(errors[i] % (2 ^ k), k))
    <3> PICK w, e : w = 2 ^ k /\ e = errors[i]
      OBVIOUS
    <3>1. w \in Nat \ {0} /\ e \in Int
      BY <2>2, Powers
    <3>2. e \div w \in Int /\ e % w \in Int
      BY <3>1
    <3> QED BY <3>2, SequenceBitsAre, NumberBitsAre
  <2>4. f \in [1 .. m -> Seq({0, 1})] /\ g \in [1 .. m -> Seq({0, 1})]
    BY <2>2, <2>3 DEF IsBits
  <2>5. IsBits(FlattenSeq(f)) /\ IsBits(FlattenSeq(g))
    BY <1>5, <2>4
  <2>6. IsBits(Identifier(p, k + 1))
    BY <1>2
  <2>7. bits = Identifier(p, k + 1) \o ReferenceBits(p, codes, hasRef)
                 \o FlattenSeq(f) \o FlattenSeq(g)
    BY <1>7 DEF SplitBits, errors
  <2> HIDE DEF f, g
  <2> QED BY <1>4, <2>5, <2>6, <2>7, BitsJoin
<1>8. CASE bits = ExtensionBits(p, codes, hasRef)
  <2> DEFINE all == IF hasRef THEN <<0>> \o Tail(codes) ELSE codes
             Word(a, b) == ((a + b) * (a + b + 1)) \div 2 + b
             f == [i \in 1 .. Len(all) \div 2 |-> SequenceBits(Word(all[2 * i - 1], all[2 * i]))]
  <2>1. all \in Seq(Int)
    <3>1. <<0>> \in Seq(Int)
      OBVIOUS
    <3>2. <<0>> \o Tail(codes) \in Seq(Int)
      BY <1>3, <3>1, ConcatProperties
    <3> QED BY <1>3, <3>2
  <2> HIDE DEF all
  <2>2. PICK m \in Nat : m = Len(all) \div 2
    BY <2>1
  <2>3. ASSUME NEW a \in Int, NEW b \in Int PROVE IsBits(SequenceBits(Word(a, b)))
    <3> PICK q : q = (a + b) * (a + b + 1)
      OBVIOUS
    <3>1. q \in Int
      OBVIOUS
    <3>2. q \div 2 + b \in Int
      BY <3>1
    <3>3. Word(a, b) \in Int
      BY <3>2
    <3> HIDE DEF Word
    <3> QED BY <3>3, SequenceBitsAre
  <2> HIDE DEF Word
  <2>4. ASSUME NEW i \in 1 .. m PROVE IsBits(SequenceBits(Word(all[2 * i - 1], all[2 * i])))
    <3>1. 2 * i - 1 \in 1 .. Len(all) /\ 2 * i \in 1 .. Len(all)
      <4> PICK L \in Nat : L = Len(all)
        BY <2>1
      <4>1. m = L \div 2
        BY <2>2
      <4>2. 2 * m <= L
        BY <4>1
      <4> QED BY <4>2
    <3>2. all[2 * i - 1] \in Int /\ all[2 * i] \in Int
      BY <2>1, <3>1
    <3> QED BY <2>3, <3>2
  <2>5. f \in [1 .. m -> Seq({0, 1})]
    BY <2>2, <2>4 DEF IsBits
  <2>6. IsBits(FlattenSeq(f)) /\ IsBits(<<1>>) /\ IsBits(Identifier(p, 0))
    <3>1. IsBits(<<1>>)
      BY DEF IsBits
    <3>2. IsBits(FlattenSeq(f))
      BY <1>5, <2>5
    <3>3. IsBits(Identifier(p, 0))
      BY <1>2
    <3> QED BY <3>1, <3>2, <3>3
  <2>7. bits = Identifier(p, 0) \o <<1>> \o ReferenceBits(p, codes, hasRef) \o FlattenSeq(f)
    BY <1>8 DEF ExtensionBits, all, Word
  <2> HIDE DEF f
  <2> QED BY <1>4, <2>6, <2>7, BitsJoin
<1>9. \/ bits = Identifier(p, IdUncompressed(p)) \o RawBits(p, codes)
      \/ \E k \in Nat : bits = SplitBits(p, codes, hasRef, k)
      \/ bits = ExtensionBits(p, codes, hasRef)
  BY <1>1 DEF Codings
<1> QED BY <1>6, <1>7, <1>8, <1>9

-----------------------------------------------------------------------------
(* The inductive invariant.  The sink has had at most a block of samples   *)
(* for each block that the bits read can be of: an identifier and six bits *)
(* for 64 of them.                                                         *)

States(p, count) ==
  [blocks : 0 .. p.rsi, last : Samples(p), produced : 0 .. count, read : Nat,
   status : {"reading", "failed"},
   given : [samples : Seq(Samples(p)), value : Samples(p), times : Nat]]

PaidFor(d, p) ==
  \E blocks \in Nat : /\ d.produced <= blocks * p.block
                      /\ blocks * (IdLen(p) + 6) <= 64 * d.read

SettingInv == setting \in Settings
EncoderInv == IsBits(input) /\ source.last \in Int
DecoderInv == decoder \in States(Par, Count) /\ PaidFor(decoder, Par)
AecInv == SettingInv /\ EncoderInv /\ DecoderInv

LEMMA SettingShape ==
  ASSUME SettingInv
  PROVE  /\ ParamShape(Par) /\ Count \in Nat \ {0}
         /\ setting.blocks \subseteq [1 .. Par.block -> Samples(Par)]
         /\ setting.references \subseteq Samples(Par)
         /\ NoiseOf[setting] \subseteq Seq({0, 1})
BY SettingsAssumption DEF SettingInv, Par, Count

LEMMA InitKeeps == Init => AecInv
<1> SUFFICES ASSUME Init PROVE AecInv
  OBVIOUS
<1>1. SettingInv
  BY DEF Init, SettingInv
<1> USE DEF Init
<1>2. EncoderInv
  <2>1. source.last \in Int
    OBVIOUS
  <2>2. input = <<>> \/ input \in NoiseOf[setting]
    OBVIOUS
  <2>3. NoiseOf[setting] \subseteq Seq({0, 1}) /\ <<>> \in Seq({0, 1})
    BY <1>1, SettingShape
  <2> QED BY <2>1, <2>2, <2>3 DEF EncoderInv, IsBits
<1>3. decoder \in States(Par, Count)
  <2>1. 0 \in 0 .. Par.rsi /\ 0 \in 0 .. Count /\ 0 \in Samples(Par)
    BY <1>1, SettingShape, SamplesOf, ShapeOf
  <2> QED BY <2>1 DEF States, Given
<1>4. PaidFor(decoder, Par)
  <2> PICK block, bits : block = Par.block /\ bits = IdLen(Par) + 6
    OBVIOUS
  <2>1. block \in Nat /\ bits \in Nat
    BY <1>1, SettingShape, ShapeOf, WidthsOf
  <2>2. decoder.produced <= 0 * block /\ 0 * bits <= 64 * decoder.read
    BY <2>1
  <2> QED BY <2>2 DEF PaidFor
<1> QED BY <1>1, <1>2, <1>3, <1>4 DEF AecInv, DecoderInv

\* Blocks that are paid for, and more blocks that are.
Pay(blocks, block, produced, unit, bits) ==
  /\ {blocks, block, produced, unit, bits} \subseteq Nat
  /\ produced <= blocks * block /\ blocks * unit <= 64 * bits

LEMMA PaidForMore ==
  ASSUME NEW u, NEW blocks, NEW block, NEW unit, NEW produced, NEW more, NEW read, NEW bits,
         Pay(u, block, produced, unit, read), Pay(blocks, block, more, unit, bits)
  PROVE  Pay(u + blocks, block, produced + more, unit, read + bits)
<1>0. /\ u \in Nat /\ blocks \in Nat /\ block \in Nat /\ unit \in Nat
      /\ produced \in Nat /\ more \in Nat /\ read \in Nat /\ bits \in Nat
      /\ produced <= u * block /\ more <= blocks * block
      /\ u * unit <= 64 * read /\ blocks * unit <= 64 * bits
  BY DEF Pay
<1>1. (u + blocks) * block = u * block + blocks * block /\ u * block \in Nat /\ blocks * block \in Nat
  BY <1>0
<1>2. (u + blocks) * unit = u * unit + blocks * unit /\ u * unit \in Nat /\ blocks * unit \in Nat
  BY <1>0
<1>3. produced + more <= (u + blocks) * block
  <2> PICK x, y : x = u * block /\ y = blocks * block
    OBVIOUS
  <2>1. x \in Nat /\ y \in Nat /\ produced <= x /\ more <= y /\ (u + blocks) * block = x + y
    BY <1>0, <1>1
  <2>2. produced + more <= x + y
    BY <1>0, <2>1
  <2> QED BY <2>1, <2>2
<1>4. (u + blocks) * unit <= 64 * (read + bits)
  <2> PICK x, y : x = u * unit /\ y = blocks * unit
    OBVIOUS
  <2>1. x \in Nat /\ y \in Nat /\ x <= 64 * read /\ y <= 64 * bits /\ (u + blocks) * unit = x + y
    BY <1>0, <1>2
  <2>2. x + y <= 64 * (read + bits)
    BY <1>0, <2>1
  <2> QED BY <2>1, <2>2
<1>5. {u + blocks, block, produced + more, unit, read + bits} \subseteq Nat
  BY <1>0
<1> QED BY <1>3, <1>4, <1>5 DEF Pay

\* A CDS of so many blocks that the interval has left, that gives no more than
\* they hold and than is asked for, and whose bits pay for them.
Fits(samples, value, times, blocks, last, bits) ==
  /\ samples \in Seq(Samples(Par)) /\ value \in Samples(Par) /\ times \in Nat
  /\ last \in Samples(Par) /\ bits \in Nat
  /\ blocks \in 1 .. Par.rsi - Begun(decoder.blocks)
  /\ Len(samples) + times <= Count - decoder.produced
  /\ Len(samples) + times <= blocks * Par.block
  /\ blocks * (IdLen(Par) + 6) <= 64 * bits

LEMMA DeliveredKeeps ==
  ASSUME AecInv, NEW samples, NEW value, NEW times, NEW blocks, NEW last, NEW bits,
         Fits(samples, value, times, blocks, last, bits),
         NEW d, d = Delivered(Given(samples, value, times), blocks, last, bits)
  PROVE  d \in States(Par, Count) /\ PaidFor(d, Par)
<1>0. /\ samples \in Seq(Samples(Par)) /\ value \in Samples(Par) /\ times \in Nat
      /\ last \in Samples(Par) /\ bits \in Nat
      /\ blocks \in 1 .. Par.rsi - Begun(decoder.blocks)
      /\ Len(samples) + times <= Count - decoder.produced
      /\ Len(samples) + times <= blocks * Par.block
      /\ blocks * (IdLen(Par) + 6) <= 64 * bits
  BY DEF Fits
<1>1. ParamShape(Par) /\ Count \in Nat
  BY SettingShape DEF AecInv
<1> PICK p, count : p = Par /\ count = Count
  OBVIOUS
<1> PICK rsi, block, idLen : rsi = p.rsi /\ block = p.block /\ idLen = IdLen(p)
  OBVIOUS
<1>2. rsi \in Nat /\ block \in Nat /\ idLen \in Nat
  BY <1>1, ShapeOf, WidthsOf
<1>3. decoder \in States(p, count) /\ PaidFor(decoder, p)
  BY DEF AecInv, DecoderInv
<1> DEFINE begun == Begun(decoder.blocks)
           more == Len(samples) + times
<1>4. /\ decoder.blocks \in 0 .. rsi /\ decoder.produced \in 0 .. count /\ decoder.read \in Nat
      /\ decoder.status \in {"reading", "failed"}
  BY <1>3 DEF States
<1>5. begun \in 0 .. rsi
  BY <1>2, <1>4 DEF Begun
<1>6. more \in Nat /\ more <= count - decoder.produced /\ more <= blocks * block
  BY <1>0
<1>7. d = [blocks |-> begun + blocks, last |-> last, produced |-> decoder.produced + more,
           read |-> decoder.read + bits, status |-> decoder.status,
           given |-> Given(samples, value, times)]
  <2>1. Given(samples, value, times).samples = samples /\ Given(samples, value, times).times = times
    BY DEF Given
  <2>2. decoder.produced + Len(samples) + times = decoder.produced + more
    BY <1>0, <1>4
  <2> QED BY <1>3, <2>1, <2>2 DEF Delivered, States
<1> HIDE DEF begun, more
<1>8. d \in States(p, count)
  <2>1. begun + blocks \in 0 .. rsi
    BY <1>0, <1>2, <1>5 DEF begun
  <2>2. decoder.produced + more \in 0 .. count /\ decoder.read + bits \in Nat
    <3> DEFINE produced == decoder.produced
               read == decoder.read
    <3>1. produced \in 0 .. count /\ count \in Nat /\ read \in Nat /\ more <= count - produced
      BY <1>1, <1>4, <1>6
    <3> HIDE DEF produced, read
    <3>2. produced + more \in 0 .. count /\ read + bits \in Nat
      BY <1>0, <1>6, <3>1
    <3> QED BY <3>2 DEF produced, read
  <2>3. Given(samples, value, times) \in [samples : Seq(Samples(p)), value : Samples(p), times : Nat]
    BY <1>0 DEF Given
  <2>4. last \in Samples(p)
    BY <1>0
  <2> QED BY <1>4, <1>7, <2>1, <2>2, <2>3, <2>4 DEF States
<1>9. PaidFor(d, p)
  <2>1. PICK u \in Nat : decoder.produced <= u * block /\ u * (idLen + 6) <= 64 * decoder.read
    BY <1>3 DEF PaidFor
  <2>2. blocks \in Nat
    BY <1>0, <1>2, <1>5 DEF begun
  <2> DEFINE unit == idLen + 6
             produced == decoder.produced
             read == decoder.read
             size == block
             taken == blocks
  <2>3. produced <= u * size /\ more <= taken * size /\ u * unit <= 64 * read /\ taken * unit <= 64 * bits
    <3>1. blocks * unit <= 64 * bits
      BY <1>0
    <3>2. more <= taken * size
      BY <1>6
    <3> QED BY <2>1, <3>1, <3>2
  <2>4. unit \in Nat /\ produced \in Nat /\ read \in Nat /\ more \in Nat /\ size \in Nat /\ taken \in Nat
    <3>1. produced \in Nat
      BY <1>4
    <3>2. unit \in Nat
      BY <1>2
    <3> QED BY <1>0, <1>2, <1>4, <1>6, <2>2, <3>1, <3>2
  <2> HIDE DEF unit, produced, read, size, taken
  <2>5. Pay(u + taken, size, produced + more, unit, read + bits)
    <3>1. Pay(u, size, produced, unit, read) /\ Pay(taken, size, more, unit, bits)
      BY <1>0, <2>3, <2>4 DEF Pay
    <3> QED BY <3>1, PaidForMore
  <2>6. u + blocks \in Nat /\ d.produced = decoder.produced + more /\ d.read = decoder.read + bits
    BY <1>7, <2>2
  <2> QED BY <2>5, <2>6 DEF PaidFor, Pay, unit, produced, read, size, taken
<1> QED BY <1>8, <1>9

\* What is written are bits, and the padding after a full interval.
LEMMA WriteKeeps ==
  ASSUME AecInv, NEW bits, IsBits(bits), NEW given, NEW blocks, NEW last \in Int,
         Write(bits, given, blocks, last)
  PROVE  AecInv'
<1> USE DEF AecInv
<1>1. UNCHANGED <<setting, decoder>> /\ source'.last = last
  BY DEF Write
<1>2. PICK fill \in Nat : input' = input \o bits \o [i \in 1 .. fill |-> 0]
  <2> DEFINE full == source.blocks + blocks = Par.rsi
             used == Written + Len(bits)
             fill == IF full /\ Par.pad THEN (8 - (used % 8)) % 8 ELSE 0
  <2>1. used \in Int
    <3>1. Len(bits) \in Nat /\ Len(input) \in Nat
      BY DEF EncoderInv, IsBits
    <3>2. decoder.read \in Nat
      BY DEF DecoderInv, States
    <3> QED BY <3>1, <3>2 DEF Written
  <2>2. input' = input \o bits \o [i \in 1 .. fill |-> 0]
    BY DEF Write
  <2> HIDE DEF used, full
  <2>3. fill \in Nat
    BY <2>1
  <2> HIDE DEF fill
  <2> QED BY <2>2, <2>3
<1>3. IsBits(input')
  <2> DEFINE zeros == [i \in 1 .. fill |-> 0]
  <2>1. IsBits(zeros)
    <3>1. zeros \in [1 .. fill -> {0, 1}]
      OBVIOUS
    <3> QED BY <1>2, <3>1 DEF IsBits
  <2> HIDE DEF zeros
  <2>2. input' = input \o bits \o zeros
    BY <1>2 DEF zeros
  <2> QED BY <2>1, <2>2, BitsJoin DEF EncoderInv
<1>4. SettingInv'
  BY <1>1 DEF SettingInv
<1>5. DecoderInv'
  BY <1>1 DEF DecoderInv, Par, Count
<1> QED BY <1>1, <1>3, <1>4, <1>5 DEF EncoderInv

LEMMA CodeBlockKeeps ==
  ASSUME AecInv, NEW samples \in setting.blocks, CodeBlock(samples)
  PROVE  AecInv'
<1>1. ParamShape(Par) /\ samples \in [1 .. Par.block -> Samples(Par)] /\ source.last \in Int
  BY SettingShape DEF AecInv, EncoderInv
<1>2. Starts \in BOOLEAN /\ Par.block \in Nat \ {0} /\ Par.block \in 1 .. Par.block
  <2>1. Par.block \in 2 .. 256
    BY <1>1, ShapeOf
  <2>2. \A b \in 2 .. 256 : b \in Nat \ {0} /\ b \in 1 .. b
    OBVIOUS
  <2>3. Par.preprocess \in BOOLEAN
    BY <1>1, ShapeOf
  <2>4. Starts \in BOOLEAN
    BY <2>3 DEF Starts
  <2> QED BY <2>1, <2>2, <2>4, Zenon
<1>3. PICK bits \in Codings(Par, CodesOf(Par, samples, Starts, source.last), Starts) :
        Write(bits, Given(samples, 0, 0), 1, IF Par.preprocess THEN samples[Par.block] ELSE 0)
  BY DEF CodeBlock
<1> DEFINE codes == CodesOf(Par, samples, Starts, source.last)
<1>4. codes \in [1 .. Par.block -> Int]
  BY <1>1, <1>2, CodesAreIntegers
<1> HIDE DEF codes
<1>5. IsBits(bits)
  <2>1. bits \in Codings(Par, codes, Starts)
    BY DEF codes
  <2> QED BY <1>1, <1>2, <1>4, <2>1, CodingsAreBits
<1>6. (IF Par.preprocess THEN samples[Par.block] ELSE 0) \in Int
  <2>1. samples[Par.block] \in Samples(Par)
    BY <1>1, <1>2
  <2>2. samples[Par.block] \in Int
    BY <1>1, <2>1, SamplesOf
  <2> QED BY <2>2
<1> QED BY <1>3, <1>5, <1>6, WriteKeeps

LEMMA CodeRunKeeps ==
  ASSUME AecInv, NEW blocks, CodeRun(blocks)
  PROVE  AecInv'
<1>1. ParamShape(Par) /\ setting.references \subseteq Samples(Par) /\ source.last \in Int
  BY SettingShape DEF AecInv, EncoderInv
<1>2. PICK fs \in RunCodes(Par, blocks, source.blocks),
           value \in IF Starts THEN setting.references ELSE {source.last} :
        Write(Identifier(Par, 0) \o <<0>>
                \o (IF Starts THEN NumberBits(Raw(Par, value), Par.n) ELSE <<>>)
                \o SequenceBits(fs),
              IF Starts THEN Given(<<value>>, value, blocks * Par.block - 1)
                        ELSE Given(<<>>, value, blocks * Par.block),
              blocks, value)
  BY DEF CodeRun
<1>3. fs \in Int /\ value \in Int
  <2>1. fs \in 0 .. 3 \/ fs = 4 \/ fs \in 5 .. 63
    BY DEF RunCodes
  <2>2. Samples(Par) \subseteq Int
    BY <1>1, SamplesOf
  <2> QED BY <1>1, <2>1, <2>2
<1>4. IsBits(Identifier(Par, 0)) /\ IsBits(<<0>>) /\ IsBits(SequenceBits(fs))
  <2>1. IsBits(<<0>>)
    BY DEF IsBits
  <2>2. IsBits(Identifier(Par, 0))
    BY <1>1, WidthsOf, NumberBitsAre DEF Identifier
  <2>3. IsBits(SequenceBits(fs))
    BY <1>3, SequenceBitsAre
  <2> QED BY <2>1, <2>2, <2>3
<1> DEFINE reference == IF Starts THEN NumberBits(Raw(Par, value), Par.n) ELSE <<>>
<1>5. IsBits(reference)
  <2>1. Raw(Par, value) \in Int
    <3> PICK all : all = 2 ^ Par.n
      OBVIOUS
    <3>1. all \in Int
      BY <1>1, BoundsAreIntegers
    <3> QED BY <1>3, <3>1 DEF Raw
  <2>2. IsBits(NumberBits(Raw(Par, value), Par.n)) /\ IsBits(<<>>)
    <3>1. IsBits(<<>>)
      BY DEF IsBits
    <3> QED BY <1>1, <2>1, <3>1, ShapeOf, NumberBitsAre
  <2> QED BY <2>2
<1> HIDE DEF reference
<1>6. IsBits(Identifier(Par, 0) \o <<0>> \o reference \o SequenceBits(fs))
  BY <1>4, <1>5, BitsJoin
<1> QED BY <1>2, <1>3, <1>6, WriteKeeps DEF reference

LEMMA CutShortKeeps ==
  ASSUME AecInv, CutShort
  PROVE  AecInv'
<1> USE DEF AecInv
<1>1. UNCHANGED <<setting, source, decoder>>
  BY DEF CutShort
<1>2. PICK len \in 0 .. Len(input) - 1 : input' = SubSeq(input, 1, len)
  BY DEF CutShort
<1>3. IsBits(input')
  <2>1. \A i \in 1 .. len : input[i] \in {0, 1}
    BY DEF EncoderInv, IsBits
  <2> QED BY <1>2, <2>1, SubSeqProperties DEF IsBits
<1>4. SettingInv'
  BY <1>1 DEF SettingInv
<1>5. DecoderInv'
  BY <1>1 DEF DecoderInv, Par, Count
<1> QED BY <1>1, <1>3, <1>4, <1>5 DEF EncoderInv

\* What a block, or a run, gives.
LEMMA CdsKeeps ==
  ASSUME AecInv, decoder.produced < Count, NEW in, IsBits(in), NEW pad \in Nat,
         NEW done, done = Begun(decoder.blocks),
         NEW hasRef, hasRef = HasReference(done),
         NEW want, want = Smaller(Par.block, Count - decoder.produced),
         NEW cds \in Cds(in, Par, hasRef, want, done),
         NEW samples, samples = Postprocessed(Par, cds.codes, hasRef, decoder.last),
         NEW d, d = IF cds.blocks = 0 THEN OfBlock(samples, pad + cds.at)
                    ELSE OfRun(samples, cds.blocks, pad + cds.at)
  PROVE  d \in States(Par, Count) /\ PaidFor(d, Par) /\ cds.at \in Nat
<1>1. ParamShape(Par) /\ Count \in Nat
  BY SettingShape DEF AecInv
<1>2. /\ decoder.produced \in 0 .. Count /\ decoder.blocks \in 0 .. Par.rsi
      /\ decoder.last \in Samples(Par)
  BY DEF AecInv, DecoderInv, States
<1> PICK rsi, block, idLen, L : rsi = Par.rsi /\ block = Par.block /\ idLen = IdLen(Par) /\ L = Len(in)
  OBVIOUS
<1>3. rsi \in Nat \ {0} /\ block \in Nat \ {0} /\ idLen \in 1 .. 5 /\ L \in Nat
  <2> DEFINE Rsis == 1 .. 4096
             Sizes == 2 .. 256
  <2>1. Par.rsi \in Rsis /\ Par.block \in Sizes /\ IdLen(Par) \in 1 .. 5
    BY <1>1, ShapeOf, WidthsOf
  <2>2. Len(in) \in Nat
    BY DEF IsBits
  <2>3. Rsis \subseteq Nat \ {0} /\ Sizes \subseteq Nat \ {0}
    OBVIOUS
  <2> HIDE DEF Rsis, Sizes
  <2> QED BY <2>1, <2>2, <2>3, Zenon
<1>4. done \in 0 .. rsi - 1
  BY <1>2, <1>3 DEF Begun
<1> PICK left : left = Count - decoder.produced
  OBVIOUS
<1>5. left \in Nat \ {0} /\ want \in 1 .. block /\ want <= left
  <2>1. ASSUME NEW produced \in 0 .. Count, produced < Count PROVE Count - produced \in Nat \ {0}
    BY <1>1, <2>1
  <2>2. left \in Nat \ {0}
    BY <1>2, <2>1
  <2>3. want = Smaller(block, left)
    OBVIOUS
  <2> QED BY <1>3, <2>2, <2>3 DEF Smaller
<1>6. hasRef \in BOOLEAN
  <2>1. Par.preprocess \in BOOLEAN
    BY <1>1, ShapeOf
  <2> QED BY <2>1 DEF HasReference
<1>7. BlockOf(cds, in, Par, want) \/ RunOf(cds, in, Par, hasRef, done)
  BY <1>1, <1>4, <1>5, <1>6, CdsRead
<1>8. cds.at \in idLen .. L /\ cds.at \in Nat /\ pad + cds.at \in Nat /\ idLen <= pad + cds.at
  <2>1. cds.at \in idLen .. L
    BY <1>7 DEF BlockOf, RunOf
  <2>2. \A at \in idLen .. L : at \in Nat /\ pad + at \in Nat /\ idLen <= pad + at
    BY <1>3
  <2> QED BY <2>1, <2>2
<1> PICK bits : bits = pad + cds.at
  OBVIOUS
<1>9. ASSUME NEW count \in Nat, AreCodes(cds.codes, Par, count)
      PROVE  samples \in Seq(Samples(Par)) /\ Len(samples) = count
  BY <1>1, <1>2, <1>6, <1>9, PostprocessedSamples
<1>10. 0 \in Samples(Par)
  BY <1>1, SamplesOf
<1>11. CASE BlockOf(cds, in, Par, want)
  <2>1. samples \in Seq(Samples(Par)) /\ Len(samples) = want
    BY <1>5, <1>9, <1>11 DEF BlockOf
  <2> DEFINE last == IF Par.preprocess THEN samples[Len(samples)] ELSE decoder.last
  <2>2. last \in Samples(Par)
    <3>1. samples[want] \in Samples(Par)
      BY <1>5, <2>1
    <3> QED BY <1>2, <2>1, <3>1
  <2> HIDE DEF last
  <2>3. d = Delivered(Given(samples, 0, 0), 1, last, bits)
    BY <1>11 DEF BlockOf, OfBlock, last
  <2>4. 1 \in 1 .. Par.rsi - Begun(decoder.blocks)
    BY <1>3, <1>4
  <2>5. Len(samples) + 0 <= Count - decoder.produced /\ Len(samples) + 0 <= 1 * Par.block
    BY <1>3, <1>5, <2>1
  <2>6. 1 * (IdLen(Par) + 6) <= 64 * bits
    <3>1. \A n \in 1 .. 5, m \in Nat : n <= m => 1 * (n + 6) <= 64 * m
      OBVIOUS
    <3> QED BY <1>3, <1>8, <3>1
  <2>7. bits \in Nat /\ 0 \in Nat
    BY <1>8
  <2>8. Fits(samples, 0, 0, 1, last, bits)
    BY <1>10, <2>1, <2>2, <2>4, <2>5, <2>6, <2>7 DEF Fits
  <2> QED BY <1>8, <2>3, <2>8, DeliveredKeeps
<1>12. CASE RunOf(cds, in, Par, hasRef, done)
  <2> DEFINE blocks == cds.blocks
             refs == References(hasRef)
  <2>1. /\ AreCodes(cds.codes, Par, refs) /\ blocks \in 1 .. rsi - done
        /\ blocks * (idLen + 6) <= 64 * cds.at
    BY <1>12 DEF RunOf
  <2> HIDE DEF blocks, refs
  <2>2. refs \in {0, 1} /\ blocks \in Nat \ {0}
    BY <1>3, <1>4, <2>1 DEF References, refs
  <2>3. samples \in Seq(Samples(Par)) /\ Len(samples) = refs
    BY <1>9, <2>1, <2>2
  <2> DEFINE value == IF samples # <<>> THEN samples[1] ELSE decoder.last
             rest == Count - decoder.produced - Len(samples)
             times == Smaller(blocks * Par.block - Len(samples), rest)
  <2>4. value \in Samples(Par)
    BY <1>2, <2>3
  <2>5. d = Delivered(Given(samples, value, times), blocks, value, bits)
    BY <2>2 DEF OfRun, blocks
  <2>6. times \in Nat /\ refs + times <= left /\ refs + times <= blocks * block
    <3> PICK all : all = blocks * block
      OBVIOUS
    <3>1. all \in Nat \ {0}
      BY <1>3, <2>2
    <3>2. rest = left - refs
      BY <1>1, <1>2, <2>2, <2>3
    <3>3. times = Smaller(all - refs, left - refs)
      BY <2>3, <3>2
    <3> HIDE DEF times
    <3>4. ASSUME NEW r \in {0, 1}, NEW m \in Nat \ {0}, NEW n \in Nat \ {0}
          PROVE  LET t == Smaller(m - r, n - r) IN t \in Nat /\ r + t <= n /\ r + t <= m
      BY DEF Smaller
    <3> QED BY <1>5, <2>2, <3>1, <3>3, <3>4
  <2> HIDE DEF value, times
  <2>7. blocks * (IdLen(Par) + 6) <= 64 * bits
    <3> PICK paid : paid = blocks * (idLen + 6)
      OBVIOUS
    <3>1. paid \in Nat /\ paid <= 64 * cds.at
      BY <1>3, <2>1, <2>2
    <3>2. \A at \in Nat : paid <= 64 * at => paid <= 64 * (pad + at)
      BY <3>1
    <3> QED BY <1>8, <3>1, <3>2
  <2>8. Len(samples) + times <= Count - decoder.produced /\ Len(samples) + times <= blocks * Par.block
    BY <2>3, <2>6
  <2>9. blocks \in 1 .. Par.rsi - Begun(decoder.blocks)
    BY <2>1
  <2>10. bits \in Nat
    BY <1>8
  <2>11. d \in States(Par, Count) /\ PaidFor(d, Par)
    <3>1. Fits(samples, value, times, blocks, value, bits)
      BY <2>3, <2>4, <2>6, <2>7, <2>8, <2>9, <2>10 DEF Fits
    <3> QED BY <2>5, <3>1, DeliveredKeeps
  <2> QED BY <1>8, <2>11
<1> QED BY <1>7, <1>8, <1>11, <1>12

LEMMA ReadKeeps ==
  ASSUME AecInv, Read
  PROVE  AecInv'
<1> DEFINE done == Begun(decoder.blocks)
           pad == Padding(decoder.blocks, decoder.read)
           hasRef == HasReference(done)
           want == Smaller(Par.block, Count - decoder.produced)
           in == SubSeq(input, pad + 1, Len(input))
           found == Cds(in, Par, hasRef, want, done)
           After(cds, samples) ==
             /\ decoder' = IF cds.blocks = 0 THEN OfBlock(samples, pad + cds.at)
                           ELSE OfRun(samples, cds.blocks, pad + cds.at)
             /\ input' = SubSeq(in, cds.at + 1, Len(in))
<1>1. UNCHANGED <<setting, source>> /\ decoder.produced < Count
  BY DEF Read, Reads
<1>2. \/ decoder' = [decoder EXCEPT !.status = "failed"] /\ input' = <<>>
      \/ \E cds \in found :
           After(cds, Postprocessed(Par, cds.codes, hasRef, decoder.last))
  BY DEF Read
<1>3. pad \in Nat
  <2>1. decoder.read \in Nat
    BY DEF AecInv, DecoderInv, States
  <2> QED BY <2>1 DEF Padding
<1>4. ASSUME NEW s, IsBits(s), NEW m \in Nat PROVE IsBits(SubSeq(s, m + 1, Len(s)))
  <2> PICK L : L = Len(s)
    OBVIOUS
  <2>1. L \in Nat /\ \A i \in m + 1 .. L : s[i] \in {0, 1}
    BY <1>4 DEF IsBits
  <2> QED BY <2>1, SubSeqProperties DEF IsBits
<1> HIDE DEF pad
<1>5. IsBits(in)
  BY <1>3, <1>4 DEF AecInv, EncoderInv
<1> HIDE DEF in, After, found, done, hasRef, want
<1>6. IsBits(input') /\ decoder' \in States(Par, Count) /\ PaidFor(decoder', Par)
  <2>1. CASE decoder' = [decoder EXCEPT !.status = "failed"] /\ input' = <<>>
    <3>1. decoder \in States(Par, Count) /\ PaidFor(decoder, Par)
      BY DEF AecInv, DecoderInv
    <3>2. decoder' \in States(Par, Count)
      BY <2>1, <3>1 DEF States
    <3>3. decoder'.produced = decoder.produced /\ decoder'.read = decoder.read
      BY <2>1, <3>1 DEF States
    <3> QED BY <2>1, <3>1, <3>2, <3>3 DEF IsBits, PaidFor
  <2>2. ASSUME NEW cds \in found,
               After(cds, Postprocessed(Par, cds.codes, hasRef, decoder.last))
        PROVE  IsBits(input') /\ decoder' \in States(Par, Count) /\ PaidFor(decoder', Par)
    <3> DEFINE samples == Postprocessed(Par, cds.codes, hasRef, decoder.last)
    <3>1. decoder' = IF cds.blocks = 0 THEN OfBlock(samples, pad + cds.at)
                     ELSE OfRun(samples, cds.blocks, pad + cds.at)
      BY <2>2 DEF After
    <3> HIDE DEF samples
    <3>2. decoder' \in States(Par, Count) /\ PaidFor(decoder', Par) /\ cds.at \in Nat
      BY <1>1, <1>3, <1>5, <3>1, CdsKeeps DEF found, done, hasRef, want, samples
    <3>3. IsBits(input')
      BY <1>4, <1>5, <2>2, <3>2 DEF After
    <3> QED BY <3>2, <3>3
  <2> QED BY <1>2, <2>1, <2>2
<1>7. Par' = Par /\ Count' = Count
  BY <1>1 DEF Par, Count
<1>8. SettingInv' /\ EncoderInv' /\ DecoderInv'
  BY <1>1, <1>6, <1>7 DEF AecInv, SettingInv, EncoderInv, DecoderInv
<1> QED BY <1>8 DEF AecInv

LEMMA AecInvAlways == Spec => []AecInv
<1>1. AecInv /\ [Next]_vars => AecInv'
  <2> SUFFICES ASSUME AecInv, [Next]_vars PROVE AecInv'
    OBVIOUS
  <2>1. ASSUME NEW samples \in setting.blocks, CodeBlock(samples) PROVE AecInv'
    BY <2>1, CodeBlockKeeps
  <2>2. ASSUME NEW blocks \in setting.runs, CodeRun(blocks) PROVE AecInv'
    BY <2>2, CodeRunKeeps
  <2>3. CASE CutShort
    BY <2>3, CutShortKeeps
  <2>4. CASE Read
    BY <2>4, ReadKeeps
  <2>5. CASE UNCHANGED vars
    BY <2>5 DEF vars, AecInv, SettingInv, EncoderInv, DecoderInv, Par, Count
  <2> QED BY <2>1, <2>2, <2>3, <2>4, <2>5 DEF Next
<1> QED BY <1>1, InitKeeps, PTL DEF Spec

(* Whatever the input, the coding and the count: an interval never holds   *)
(* more than its blocks, the sink never gets more samples than were asked  *)
(* for, and each of them is of the width and sign asked for (Kernel::run). *)
THEOREM DecoderTypeCorrect == Spec => []TypeOK
<1>1. AecInv => TypeOK
  <2> SUFFICES ASSUME AecInv PROVE TypeOK
    OBVIOUS
  <2>1. decoder \in States(Par, Count)
    BY DEF AecInv, DecoderInv
  <2>2. decoder.given \in [samples : Seq(Samples(Par)), value : Samples(Par), times : Nat]
    BY <2>1 DEF States
  <2>3. \A i \in DOMAIN decoder.given.samples : decoder.given.samples[i] \in Samples(Par)
    <3> PICK samples : samples = decoder.given.samples
      OBVIOUS
    <3>1. samples \in Seq(Samples(Par))
      BY <2>2
    <3>2. \A i \in DOMAIN samples : samples[i] \in Samples(Par)
      BY <3>1
    <3> QED BY <3>2
  <2> QED BY <2>1, <2>2, <2>3 DEF TypeOK, States
<1> QED BY <1>1, AecInvAlways, PTL

(* However many samples the bits decode to, max_samples of those bits is   *)
(* no fewer: a caller that refuses a count past it refuses no stream that  *)
(* decodes.                                                                *)
THEOREM NeverMoreThanMaxSamples == Spec => []WithinMaxSamples
<1>1. AecInv => WithinMaxSamples
  <2> SUFFICES ASSUME AecInv PROVE WithinMaxSamples
    OBVIOUS
  <2> DEFINE block == Par.block
             unit == IdLen(Par) + 6
             produced == decoder.produced
             bits == decoder.read
  <2>1. block \in Nat /\ unit \in Nat \ {0} /\ produced \in Int /\ bits \in Nat
    <3>1. ParamShape(Par) /\ decoder \in States(Par, Count) /\ Count \in Nat
      BY SettingShape DEF AecInv, DecoderInv
    <3>2. produced \in Int /\ bits \in Nat
      BY <3>1 DEF States
    <3>3. IdLen(Par) \in Nat /\ block \in Nat
      BY <3>1, ShapeOf, WidthsOf
    <3> QED BY <3>2, <3>3
  <2>2. PICK u \in Nat : produced <= u * block /\ u * unit <= 64 * bits
    BY DEF AecInv, DecoderInv, PaidFor
  <2> HIDE DEF block, unit, produced, bits
  <2>3. u <= (bits * 64) \div unit
    <3> PICK all, q : all = bits * 64 /\ q = all \div unit
      OBVIOUS
    <3>1. all \in Nat /\ u * unit <= all
      BY <2>1, <2>2
    <3>2. q \in Nat /\ all < (q + 1) * unit
      BY <2>1, <3>1
    <3>3. ASSUME u >= q + 1 PROVE FALSE
      <4>1. u * unit >= (q + 1) * unit
        BY <2>1, <3>2, <3>3
      <4> QED BY <2>1, <3>1, <3>2, <4>1
    <3> QED BY <3>2, <3>3
  <2>4. produced <= ((bits * 64) \div unit) * block
    <3> PICK q : q = (bits * 64) \div unit
      OBVIOUS
    <3>1. q \in Nat /\ u <= q
      BY <2>1, <2>3
    <3>2. u * block <= q * block /\ u * block \in Nat /\ q * block \in Nat
      BY <2>1, <3>1
    <3> QED BY <2>1, <2>2, <3>2
  <2> QED BY <2>4 DEF WithinMaxSamples, MaxSamples, SegmentBlocks, block, unit, produced, bits
<1> QED BY <1>1, AecInvAlways, PTL
=============================================================================
