------------------------------- MODULE AecCode -------------------------------
(***************************************************************************)
(* Adaptive entropy coding (CCSDS 121.0-B-3) as fieldglass-aec decodes it: *)
(* one coded data set (CDS) from the bits at the head of an input, and the *)
(* samples its codes stand for (decode.rs, bits.rs).                       *)
(*                                                                         *)
(* A read that can fail is the set of what it reads: empty when the input  *)
(* ends first or the code is invalid.  `at` is how many bits come before.  *)
(***************************************************************************)
EXTENDS Integers, SequencesExt

Ros == 5              \* the zero-run code for "the rest of this segment"
SegmentBlocks == 64
MaxZeroRunFs == 63

(* Params: n bits a sample, J samples a block, blocks a reference sample   *)
(* interval, and the flags.                                                *)
ParamShape(p) ==
  /\ p.n \in 1 .. 32 /\ p.block \in 2 .. 256 /\ p.block % 2 = 0 /\ p.rsi \in 1 .. 4096
  /\ {p.preprocess, p.signed, p.restricted, p.pad} \subseteq BOOLEAN
  /\ p.restricted => p.n \notin 5 .. 8

IdLen(p) ==
  CASE p.restricted /\ p.n <= 2 -> 1
    [] p.restricted /\ p.n \in 3 .. 4 -> 2
    [] ~(p.restricted /\ p.n <= 4) /\ p.n <= 8 -> 3
    [] p.n \in 9 .. 16 -> 4
    [] p.n > 16 -> 5

IdUncompressed(p) == 2 ^ IdLen(p) - 1
MaxCode(p) == 2 ^ p.n - 1

-----------------------------------------------------------------------------
(* BitReader. *)

Number(bits) ==
  LET value[i \in 0 .. Len(bits)] == IF i = 0 THEN 0 ELSE 2 * value[i - 1] + bits[i]
  IN  value[Len(bits)]

\* `count` numbers of `width` bits each.
Fields(in, at, count, width) ==
  IF at + count * width > Len(in) THEN {}
  ELSE {[codes |-> [i \in 1 .. count |->
                      Number(SubSeq(in, at + (i - 1) * width + 1, at + i * width))],
         at |-> at + count * width]}

\* The end of the fundamental sequence after a place: its one, if there is one.
NextEnd(in, at) ==
  LET ones == {i \in at + 1 .. Len(in) : in[i] = 1}
  IN  IF ones = {} THEN Len(in) + 1 ELSE Min(ones)

\* `count` fundamental sequences: the zeros before each of the next ones.
FundamentalSequences(in, at, count) ==
  LET end[i \in 0 .. count] == IF i = 0 THEN at ELSE NextEnd(in, end[i - 1])
  IN  IF end[count] > Len(in) THEN {}
      ELSE {[codes |-> [i \in 1 .. count |-> end[i] - end[i - 1] - 1], at |-> end[count]]}

-----------------------------------------------------------------------------
(* One CDS: `want` codes of a block, of which the first is a reference     *)
(* sample when hasRef, or a run of zero blocks after that reference.       *)

Smaller(a, b) == IF a <= b THEN a ELSE b
References(hasRef) == IF hasRef THEN 1 ELSE 0
Block(codes, at) == [codes |-> codes, blocks |-> 0, at |-> at]

Uncompressed(in, p, want) == {Block(raw.codes, raw.at) : raw \in Fields(in, IdLen(p), want, p.n)}

\* Every sample's high part, those past `want` too, then k low bits of each wanted one.
Split(in, p, k, hasRef, want) ==
  LET refs == References(hasRef)
      Coded(high, low) == [i \in 1 .. want - refs |->
                             high[i] * 2 ^ k + IF k = 0 THEN 0 ELSE low[i]]
  IN  UNION UNION
        {{{Block(ref.codes \o Coded(high.codes, low.codes), low.at)
             : low \in {l \in Fields(in, high.at, IF k = 0 THEN 0 ELSE want - refs, k) :
                          k > p.n => \A i \in 1 .. want - refs :
                                       Coded(high.codes, l.codes)[i] <= MaxCode(p)}}
            : high \in {h \in FundamentalSequences(in, ref.at, p.block - refs) :
                          \A i \in DOMAIN h.codes : h.codes[i] <= MaxCode(p) \div 2 ^ k}}
           : ref \in Fields(in, IdLen(p), refs, p.n)}

\* se_pair: the pair (a, b) of codeword (a + b)(a + b + 1) / 2 + b.
SePair(codeword) ==
  LET sum == CHOOSE s \in 0 .. codeword :
               s * (s + 1) <= 2 * codeword /\ 2 * codeword < (s + 1) * (s + 2)
      b == codeword - (sum * (sum + 1)) \div 2
  IN  <<sum - b, b>>

\* Pairs of codes; beside a reference sample the first of the pair must be 0.
SecondExtension(in, p, hasRef, want) ==
  LET refs == References(hasRef)
      pairs == IF want > refs THEN (want + 1) \div 2 ELSE 0
      Coded(words) == [i \in 1 .. want - refs |->
                         SePair(words[(i + refs + 1) \div 2])[2 - ((i + refs) % 2)]]
  IN  UNION
        {{Block(ref.codes \o Coded(words.codes), words.at)
            : words \in {w \in FundamentalSequences(in, ref.at, pairs) :
                           /\ hasRef /\ pairs > 0 => SePair(w.codes[1])[1] = 0
                           /\ \A i \in 1 .. want - refs : Coded(w.codes)[i] <= MaxCode(p)}}
           : ref \in Fields(in, IdLen(p) + 1, refs, p.n)}

ZeroRunBlocks_PastTheInterval(p, fs, done) ==
  {IF fs + 1 = Ros THEN Smaller(p.rsi - done, SegmentBlocks - (done % SegmentBlocks))
   ELSE IF fs + 1 < Ros THEN fs + 1 ELSE fs}

ZeroRunBlocks_RestOfTheInterval(p, fs, done) ==
  LET left == p.rsi - done
      run == IF fs + 1 = Ros THEN left ELSE IF fs + 1 < Ros THEN fs + 1 ELSE fs
  IN  {blocks \in {run} : fs <= MaxZeroRunFs /\ blocks <= left}

\* zero_run_blocks
ZeroRunBlocks(p, fs, done) ==
  LET left == p.rsi - done
      run == IF fs + 1 = Ros
             THEN Smaller(left, SegmentBlocks - (done % SegmentBlocks))
             ELSE IF fs + 1 < Ros THEN fs + 1 ELSE fs
  IN  {blocks \in {run} : fs <= MaxZeroRunFs /\ blocks <= left}

ZeroRun(in, p, hasRef, done) ==
  UNION UNION
    {{{[codes |-> ref.codes, blocks |-> blocks, at |-> fs.at]
         : blocks \in ZeroRunBlocks(p, fs.codes[1], done)}
        : fs \in FundamentalSequences(in, ref.at, 1)}
       : ref \in Fields(in, IdLen(p) + 1, References(hasRef), p.n)}

\* cds: by its identifier, and the selector bit of the low-entropy options.
Cds(in, p, hasRef, want, done) ==
  UNION
    {CASE id.codes[1] = IdUncompressed(p) -> Uncompressed(in, p, want)
       [] id.codes[1] = 0 ->
            UNION {IF selector.codes[1] = 1 THEN SecondExtension(in, p, hasRef, want)
                                            ELSE ZeroRun(in, p, hasRef, done)
                     : selector \in Fields(in, id.at, 1, 1)}
       [] OTHER -> Split(in, p, id.codes[1] - 1, hasRef, want)
       : id \in Fields(in, 0, 1, IdLen(p))}

-----------------------------------------------------------------------------
(* From codes to samples.  A signed sample is the integer it stands for.   *)

Lowest(p) == IF p.signed THEN -(2 ^ (p.n - 1)) ELSE 0
Highest(p) == IF p.signed THEN 2 ^ (p.n - 1) - 1 ELSE 2 ^ p.n - 1

PredictionError(d) == IF d % 2 = 0 THEN d \div 2 ELSE -((d + 1) \div 2)

UnmapUnsigned(last, d, xmax) ==
  LET near == IF last >= xmax \div 2 + 1 THEN xmax ELSE 0
      distance == IF near = 0 THEN last ELSE near - last
  IN  IF (d + 1) \div 2 <= distance THEN last + PredictionError(d)
      ELSE IF near = 0 THEN d ELSE near - d

UnmapSigned(last, d, xmax) ==
  IF last < 0
  THEN IF (d + 1) \div 2 <= xmax + last + 1 THEN last + PredictionError(d) ELSE d - xmax - 1
  ELSE IF (d + 1) \div 2 <= xmax - last THEN last + PredictionError(d) ELSE xmax - d

Unmap(p, last, d) ==
  IF p.signed THEN UnmapSigned(last, d, Highest(p)) ELSE UnmapUnsigned(last, d, Highest(p))

Reference(p, raw) == IF p.signed /\ raw > Highest(p) THEN raw - 2 ^ p.n ELSE raw

\* Each sample from the one before it, the reference sample from itself.
Postprocessed(p, codes, hasRef, last) ==
  LET sample[i \in 0 .. Len(codes)] ==
        IF i = 0 THEN last
        ELSE IF hasRef /\ i = 1 THEN Reference(p, codes[1]) ELSE Unmap(p, sample[i - 1], codes[i])
  IN  IF p.preprocess THEN [i \in DOMAIN codes |-> sample[i]] ELSE codes

-----------------------------------------------------------------------------
\* max_samples: the most that this many bits can decode to.
MaxSamples(p, bits) == ((bits * SegmentBlocks) \div (IdLen(p) + 6)) * p.block
=============================================================================
