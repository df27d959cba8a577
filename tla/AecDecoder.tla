----------------------------- MODULE AecDecoder -----------------------------
(***************************************************************************)
(* fieldglass-aec's decoder (Kernel::run, decode.rs) reading what an       *)
(* encoder of the standard writes, one coded data set (CDS) at a time.     *)
(*                                                                         *)
(* The decoder is one call over the whole input.  Here the encoder may be  *)
(* at most MaxAhead CDSs ahead of it, so that what is still to be read is  *)
(* all that need be kept: a CDS is read from its own bits only.  The input *)
(* may be cut short at any byte, or be bytes that no encoder wrote.  The   *)
(* two errors of a read, Truncated and InvalidCode, are one "failed".      *)
(***************************************************************************)
EXTENDS AecCode

CONSTANTS
  Settings,  \* what is decoded: parameters, count, blocks and options of the encoder
  NoiseOf,   \* a setting to the inputs tried that no encoder wrote
  MaxAhead   \* CDSs written and not read

\* The samples a coding stands for.
Samples(p) == IF p.preprocess THEN Lowest(p) .. Highest(p) ELSE 0 .. MaxCode(p)

ASSUME SettingsAssumption ==
  /\ MaxAhead \in Nat \ {0}
  /\ \A s \in Settings :
       /\ ParamShape(s.params) /\ s.count \in Nat \ {0}
       /\ s.blocks \subseteq [1 .. s.params.block -> Samples(s.params)]
       /\ s.references \subseteq Samples(s.params)
       /\ NoiseOf[s] \subseteq Seq({0, 1})

VARIABLES
  setting,
  source,   \* the encoder: blocks of its interval, last sample, samples written
  input,    \* the bits not read
  due,      \* what the CDSs not read were written from
  cut,      \* no more is written: the input ends here
  decoder   \* blocks_in_rsi, last, produced, bits read; what the last CDS gave
vars == <<setting, source, input, due, cut, decoder>>

Par == setting.params
Count == setting.count

\* What a sink is given for a CDS: its samples, then a value repeated.
Given(samples, value, times) == [samples |-> samples, value |-> value, times |-> times]

-----------------------------------------------------------------------------
(* The encoder, as the standard defines it (CCSDS 121.0-B-3, 3 to 5).      *)

\* 4.4: the mapped error of a sample after another.
Mapped(p, last, x) ==
  LET delta == x - last
      theta == Smaller(last - Lowest(p), Highest(p) - last)
      size == IF delta < 0 THEN -delta ELSE delta
  IN  IF size > theta THEN theta + size
      ELSE IF delta < 0 THEN 2 * size - 1 ELSE 2 * size

Raw(p, x) == IF x < 0 THEN x + 2 ^ p.n ELSE x

CodesOf(p, samples, hasRef, last) ==
  IF ~p.preprocess THEN samples
  ELSE [i \in DOMAIN samples |->
          IF i = 1 THEN IF hasRef THEN Raw(p, samples[1]) ELSE Mapped(p, last, samples[1])
          ELSE Mapped(p, samples[i - 1], samples[i])]

NumberBits(v, width) == [i \in 1 .. width |-> (v \div 2 ^ (width - i)) % 2]
SequenceBits(v) == [i \in 1 .. v + 1 |-> IF i = v + 1 THEN 1 ELSE 0]
Identifier(p, id) == NumberBits(id, IdLen(p))
RawBits(p, codes) == FlattenSeq([i \in DOMAIN codes |-> NumberBits(codes[i], p.n)])

\* Codes past the reference sample, and the reference sample alone.
Errors(codes, hasRef) == IF hasRef THEN Tail(codes) ELSE codes
ReferenceBits(p, codes, hasRef) == IF hasRef THEN NumberBits(codes[1], p.n) ELSE <<>>

SplitBits(p, codes, hasRef, k) ==
  LET errors == Errors(codes, hasRef)
  IN  Identifier(p, k + 1) \o ReferenceBits(p, codes, hasRef)
        \o FlattenSeq([i \in DOMAIN errors |-> SequenceBits(errors[i] \div 2 ^ k)])
        \o FlattenSeq([i \in DOMAIN errors |-> NumberBits(errors[i] % (2 ^ k), k)])

ExtensionBits(p, codes, hasRef) ==
  LET all == IF hasRef THEN <<0>> \o Tail(codes) ELSE codes
      Word(a, b) == ((a + b) * (a + b + 1)) \div 2 + b
  IN  Identifier(p, 0) \o <<1>> \o ReferenceBits(p, codes, hasRef)
        \o FlattenSeq([i \in 1 .. Len(all) \div 2 |-> SequenceBits(Word(all[2 * i - 1], all[2 * i]))])

\* 3.4: every coding of a block that the setting's encoder tries.
Codings(p, codes, hasRef) ==
  {Identifier(p, IdUncompressed(p)) \o RawBits(p, codes) : o \in setting.options \cap {"uncompressed"}}
  \cup {SplitBits(p, codes, hasRef, k) :
          k \in IF "split" \in setting.options THEN 0 .. IdUncompressed(p) - 2 ELSE {}}
  \cup {ExtensionBits(p, codes, hasRef) : o \in setting.options \cap {"extension"}}

\* Table 3-2: the fundamental sequences that stand for a run of zero blocks.
RunCodes(p, blocks, done) ==
  {fs \in 0 .. 3 : blocks = fs + 1}
  \cup {fs \in {4} : blocks = Smaller(p.rsi - done, 64 - (done % 64))}
  \cup {fs \in 5 .. 63 : blocks = fs}

-----------------------------------------------------------------------------
(* The encoder's steps.  An interval that is full is followed by another,  *)
(* from the next byte if intervals are padded.                             *)

Written == decoder.read + Len(input)
Starts == Par.preprocess /\ source.blocks = 0

Write(bits, given, blocks, last) ==
  LET full == source.blocks + blocks = Par.rsi
      fill == IF full /\ Par.pad THEN (8 - ((Written + Len(bits)) % 8)) % 8 ELSE 0
  IN  /\ input' = input \o bits \o [i \in 1 .. fill |-> 0]
      /\ due' = Append(due, given)
      /\ source' = [blocks |-> IF full THEN 0 ELSE source.blocks + blocks, last |-> last,
                    written |-> source.written + blocks * Par.block]
      /\ UNCHANGED <<setting, cut, decoder>>

MayWrite == ~cut /\ Len(due) < MaxAhead /\ source.written < Count

CodeBlock(samples) ==
  /\ MayWrite
  /\ \E bits \in Codings(Par, CodesOf(Par, samples, Starts, source.last), Starts) :
       Write(bits, Given(samples, 0, 0), 1, IF Par.preprocess THEN samples[Par.block] ELSE 0)

\* A run of blocks whose every code is 0, after a reference sample if one is due.
CodeRun(blocks) ==
  /\ MayWrite /\ source.blocks + blocks <= Par.rsi
  /\ \E fs \in RunCodes(Par, blocks, source.blocks),
        value \in IF Starts THEN setting.references ELSE {source.last} :
       Write(Identifier(Par, 0) \o <<0>>
               \o (IF Starts THEN NumberBits(Raw(Par, value), Par.n) ELSE <<>>)
               \o SequenceBits(fs),
             IF Starts THEN Given(<<value>>, value, blocks * Par.block - 1)
                       ELSE Given(<<>>, value, blocks * Par.block),
             blocks, value)

\* The input ends at a byte before the encoder is done.
CutShort ==
  /\ ~cut /\ due # <<>>
  /\ \E len \in 0 .. Len(input) - 1 :
       (decoder.read + len) % 8 = 0 /\ input' = SubSeq(input, 1, len)
  /\ cut' = TRUE
  /\ UNCHANGED <<setting, source, due, decoder>>

-----------------------------------------------------------------------------
(* The decoder: one turn of the loop in Kernel::run. *)

\* A full interval is followed by another, from the next byte if they are padded.
Begun(done) == IF done = Par.rsi THEN 0 ELSE done
Padding(done, position) ==
  IF done = Par.rsi /\ Par.pad THEN (8 - (position % 8)) % 8 ELSE 0
HasReference(done) == Par.preprocess /\ done = 0

Reads == decoder.status = "reading" /\ decoder.produced < Count /\ (due # <<>> \/ cut)

Delivered(given, blocks, last, bits) ==
  [decoder EXCEPT !.blocks = Begun(@) + blocks, !.last = last, !.read = @ + bits,
                  !.produced = @ + Len(given.samples) + given.times, !.given = given]

OfBlock(samples, bits) ==
  Delivered(Given(samples, 0, 0), 1,
            IF Par.preprocess THEN samples[Len(samples)] ELSE decoder.last, bits)

OfRun_NoReference(samples, blocks, bits) ==
  LET value == IF samples # <<>> THEN samples[1] ELSE decoder.last
      rest == Count - decoder.produced - Len(samples)
  IN  Delivered(Given(samples, value, Smaller(blocks * Par.block, rest)), blocks, value, bits)

OfRun(samples, blocks, bits) ==
  LET value == IF samples # <<>> THEN samples[1] ELSE decoder.last
      rest == Count - decoder.produced - Len(samples)
  IN  Delivered(Given(samples, value, Smaller(blocks * Par.block - Len(samples), rest)),
                blocks, value, bits)

Read ==
  /\ Reads
  /\ LET done == Begun(decoder.blocks)
         pad == Padding(decoder.blocks, decoder.read)
         hasRef == HasReference(done)
         want == Smaller(Par.block, Count - decoder.produced)
     IN  \E in \in {SubSeq(input, pad + 1, Len(input))} :
         \E found \in {Cds(in, Par, hasRef, want, done)} :
           \/ /\ found = {}
              /\ decoder' = [decoder EXCEPT !.status = "failed"]
              /\ input' = <<>>
           \/ \E cds \in found :
              \E samples \in {Postprocessed(Par, cds.codes, hasRef, decoder.last)} :
                /\ decoder' = IF cds.blocks = 0 THEN OfBlock(samples, pad + cds.at)
                              ELSE OfRun(samples, cds.blocks, pad + cds.at)
                /\ input' = SubSeq(in, cds.at + 1, Len(in))
  /\ due' = IF due = <<>> THEN <<>> ELSE Tail(due)
  /\ UNCHANGED <<setting, source, cut>>

-----------------------------------------------------------------------------
Init ==
  /\ setting \in Settings
  /\ source = [blocks |-> 0, last |-> 0, written |-> 0]
  /\ due = <<>>
  /\ \/ input = <<>> /\ cut = FALSE
     \/ input \in NoiseOf[setting] /\ cut = TRUE
  /\ decoder = [blocks |-> 0, last |-> 0, produced |-> 0, read |-> 0, status |-> "reading",
                given |-> Given(<<>>, 0, 0)]

Next ==
  \/ \E samples \in setting.blocks : CodeBlock(samples)
  \/ \E blocks \in setting.runs : CodeRun(blocks)
  \/ CutShort
  \/ Read

Spec == Init /\ [][Next]_vars

-----------------------------------------------------------------------------
(* Properties. *)

(* Whatever the input: an interval never holds more than its blocks, the   *)
(* sink never gets more than was asked for, and every sample it gets is    *)
(* one of the width and sign asked for.                                    *)
TypeOK ==
  /\ decoder.blocks \in 0 .. Par.rsi
  /\ decoder.produced \in 0 .. Count
  /\ decoder.read \in Nat
  /\ decoder.last \in Samples(Par)
  /\ \A i \in DOMAIN decoder.given.samples : decoder.given.samples[i] \in Samples(Par)
  /\ decoder.given.value \in Samples(Par)
  /\ decoder.given.times \in Nat
  /\ decoder.status \in {"reading", "failed"}

\* What of a CDS was asked for.
Wanted(given, limit) ==
  LET kept == Smaller(Len(given.samples), limit)
  IN  Given(SubSeq(given.samples, 1, kept), given.value, Smaller(given.times, limit - kept))

(* Read in order, the samples are those the encoder coded, by whichever    *)
(* option, run length and interval; an input that was cut short gives the  *)
(* samples before the cut or an error, and never others (bits.rs:6,        *)
(* ADR-0012).                                                              *)
DeliversTheSource ==
  [][decoder' # decoder /\ due # <<>> =>
       IF decoder'.status = "failed" THEN cut
       ELSE decoder'.given = Wanted(Head(due), Count - decoder.produced)]_vars

(* No input decodes to more samples than max_samples says its bits can, so *)
(* a caller may refuse a larger count before it allocates.                 *)
WithinMaxSamples == decoder.produced <= MaxSamples(Par, decoder.read)
=============================================================================
