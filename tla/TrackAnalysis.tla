---------------------------- MODULE TrackAnalysis ----------------------------
(***************************************************************************)
(* AnalysisPipeline::analyze hands every block to its analyzers, one after *)
(* the other: ConformTrack's silence detector and the loudness and         *)
(* dynamics analyzer.                                                      *)
(***************************************************************************)
EXTENDS ConformTrack, LoudnessDynamics

\* A frame's sum is that of its two magnitudes, its peak the greater of them.
ASSUME StereoAssumption ==
  \A f \in Frames : f.peak <= f.sum /\ f.sum <= Channels * f.peak

VARIABLE meter

Handed == SubSeq(file', Len(file) + 1, Len(file'))

\* The analyzers are gone when the analysis is over.
Measure ==
  meter' = IF pc' = "analyze" THEN MeterBlock(meter, Handed) ELSE Begin

AnalysisInit == Init /\ meter = Begin
AnalysisNext == Next /\ Measure
AnalysisSpec == AnalysisInit /\ [][AnalysisNext]_<<vars, meter>>

-----------------------------------------------------------------------------
(* Properties. *)

\* The blocks a length cuts a track into, and what is left over.
Pieces(frames, len) ==
  [pos |-> Len(frames) % len,
   sum |-> EnergyOf(SubSeq(frames, Len(frames) - (Len(frames) % len) + 1, Len(frames))),
   blocks |-> [k \in 1 .. Len(frames) \div len |->
                 EnergyOf(SubSeq(frames, (k - 1) * len + 1, k * len))]]

\* LoudnessDynamicsAnalyzer.cpp:104-116: sub-blocks and dynamic-range blocks run on
\* across the blocks the pipeline hands over; each frame is in exactly one of
\* each kind, and what is left over is in none.
MeterIgnoresBlocks ==
  pc = "analyze" =>
    /\ meter.sub = Pieces(file, SubLen) /\ meter.dr = Pieces(file, DrLen)
    /\ meter.sumSq = EnergyOf(file) /\ meter.frames = Len(file)

\* LoudnessDynamicsAnalyzer.cpp:135-181, wherever the track ends: the relative gate
\* never leaves a track without a loudness that the absolute gate let through, and
\* only raises it, up to the loudest window; and the dynamic range is never negative.
MeasuresAreInRange ==
  pc = "analyze" =>
    LET w    == Windows(meter.sub.blocks)
        abs  == Audible(w)
        kept == Gated(w)
        dr   == DrBlocks(meter)
        top  == Loudest(dr.blocks)
    IN  /\ abs # {} =>
             /\ kept # {}
             /\ Sum(w, kept) * Cardinality(abs) >= Sum(w, abs) * Cardinality(kept)
             /\ \E i \in kept : Sum(w, kept) <= w[i] * Cardinality(kept)
        /\ dr.blocks # <<>> =>
             Sum(dr.blocks, top) <= meter.peak * meter.peak * Cardinality(top) * dr.len
=============================================================================
