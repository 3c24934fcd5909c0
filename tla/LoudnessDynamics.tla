--------------------------- MODULE LoudnessDynamics ---------------------------
(***************************************************************************)
(* LoudnessDynamicsAnalyzer on stereo frames: 100 ms sub-blocks for the    *)
(* gated loudness and 3 s blocks for the dynamic range, cut out of the     *)
(* stream of frames whatever blocks the pipeline hands over.               *)
(*                                                                         *)
(* A frame is its greatest magnitude and the sum of both.  The K-weighting *)
(* filters are left out, so a frame has one energy for both purposes, and  *)
(* so is the interpolated true peak.  Sums stay sums: where the code       *)
(* compares logarithms of means, products are compared.                    *)
(***************************************************************************)
EXTENDS Integers, SequencesExt

CONSTANTS
  SubLen, DrLen,  \* frames of a sub-block and of a dynamic-range block
  AbsoluteGate,   \* energy of a window that is at -70 LUFS
  GateRatio,      \* 10 in the code: 10 LU below
  TopShare        \* 5 in the code: the loudest fifth

ASSUME LoudnessAssumption ==
  /\ SubLen \in Nat \ {0} /\ DrLen \in Nat \ {0}
  /\ AbsoluteGate \in Nat /\ GateRatio \in Nat \ {0} /\ TopShare \in Nat \ {0}

Channels == 2
Energy(f) == f.peak * f.peak + (f.sum - f.peak) * (f.sum - f.peak)
EnergyOf(frames) == FoldLeft(LAMBDA e, f : e + Energy(f), 0, frames)

-----------------------------------------------------------------------------
(* The analyzer. *)

NoCut == [pos |-> 0, sum |-> 0, blocks |-> <<>>]

\* begin()
Begin == [peak |-> 0, sumSq |-> 0, frames |-> 0, sub |-> NoCut, dr |-> NoCut]

\* Mutant: the sum of a block is carried into the next.
SplitCarrying(cut, len, f) ==
  IF cut.pos + 1 >= len
  THEN [pos |-> 0, sum |-> cut.sum + Energy(f),
        blocks |-> Append(cut.blocks, cut.sum + Energy(f))]
  ELSE [pos |-> cut.pos + 1, sum |-> cut.sum + Energy(f), blocks |-> cut.blocks]

Split(cut, len, f) ==
  IF cut.pos + 1 >= len
  THEN [pos |-> 0, sum |-> 0, blocks |-> Append(cut.blocks, cut.sum + Energy(f))]
  ELSE [pos |-> cut.pos + 1, sum |-> cut.sum + Energy(f), blocks |-> cut.blocks]

Hear(meter, f) ==
  [peak |-> IF f.peak > meter.peak THEN f.peak ELSE meter.peak,
   sumSq |-> meter.sumSq + Energy(f),
   frames |-> meter.frames + 1,
   sub |-> Split(meter.sub, SubLen, f),
   dr |-> Split(meter.dr, DrLen, f)]

\* processBlock()
MeterBlock(meter, block) == FoldLeft(Hear, meter, block)

\* The windows of four sub-blocks.
Windows(sub) ==
  [i \in 1 .. Len(sub) - 3 |-> sub[i + 3] + sub[i + 2] + sub[i + 1] + sub[i]]

Audible(w) == {i \in DOMAIN w : w[i] > 0 /\ w[i] >= AbsoluteGate}

Sum(w, some) == MapThenSumSet(LAMBDA i : w[i], some)

\* Mutant: the relative gate is above the mean instead of below it.
AboveMean(w) ==
  LET abs == Audible(w)
  IN  {i \in abs : w[i] * Cardinality(abs) >= Sum(w, abs) * GateRatio}

\* The windows the loudness is the mean of; without any it is -70 LUFS.
Gated(w) ==
  LET abs == Audible(w)
  IN  {i \in abs : w[i] * Cardinality(abs) * GateRatio >= Sum(w, abs)}

\* Blocks of the dynamic range, and the samples in each; a track shorter than a
\* block is one.
DrBlocks(meter) ==
  IF meter.dr.blocks = <<>> /\ meter.frames > 0
  THEN [blocks |-> <<meter.sumSq>>, len |-> meter.frames * Channels]
  ELSE [blocks |-> meter.dr.blocks, len |-> DrLen * Channels]

\* Indices of the loudest blocks: a share of them, but at least one.
Loudest(blocks) ==
  LET n == Len(blocks) \div TopShare
  IN  CHOOSE top \in kSubset(IF n = 0 THEN 1 ELSE n, DOMAIN blocks) :
        \A i \in top, j \in DOMAIN blocks \ top : blocks[i] >= blocks[j]
=============================================================================
