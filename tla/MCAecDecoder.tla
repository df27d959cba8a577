---------------------------- MODULE MCAecDecoder ----------------------------
(***************************************************************************)
(* Small codings for AecDecoder: intervals of two or three blocks with     *)
(* every block of small samples under every option, and intervals of more  *)
(* than two segments with every run length.                                *)
(***************************************************************************)
EXTENDS AecDecoder, TLC

Params(n, block, rsi, flags) ==
  [n |-> n, block |-> block, rsi |-> rsi, preprocess |-> "preprocess" \in flags,
   signed |-> "signed" \in flags, restricted |-> "restricted" \in flags, pad |-> "pad" \in flags]

AllBlocks(values, len) == [1 .. len -> values]
Every == {"uncompressed", "split", "extension"}

Short(params, count, values) ==
  [params |-> params, count |-> count, blocks |-> AllBlocks(values, params.block),
   options |-> Every, runs |-> 1 .. params.rsi, references |-> values]

\* An interval of more than a segment: runs of every length, and one kind of block.
Long(params, count) ==
  [params |-> params, count |-> count, blocks |-> {[i \in 1 .. params.block |-> 1]},
   options |-> {"uncompressed"}, runs |-> {4, 60, 63, 64}, references |-> {1}]

MCSettings ==
  {Short(Params(2, 2, 2, {"preprocess"}), 7, 0 .. 3),
   Short(Params(2, 2, 2, {"preprocess", "signed", "pad"}), 5, -2 .. 1),
   Short(Params(2, 2, 2, {"restricted"}), 3, 0 .. 3),
   Short(Params(3, 2, 2, {"preprocess", "restricted"}), 3, {0, 3, 7}),
   Short(Params(1, 4, 2, {"preprocess", "signed"}), 6, -1 .. 0),
   Long(Params(9, 2, 67, {"preprocess"}), 150),
   Long(Params(1, 2, 70, {"restricted"}), 150)}

Bytes == {NumberBits(b, 8) : b \in 0 .. 255}
MCNoiseOf ==
  [s \in MCSettings |-> Bytes \cup {b \o NumberBits(c, 8) : b \in Bytes, c \in {8, 85, 240}}]
=============================================================================
