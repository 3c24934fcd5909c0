---------------------------- MODULE MCConformTrack ----------------------------
(***************************************************************************)
(* ConformTrack for TLC: a clock of 8 milliseconds to the second, 12       *)
(* frames to the second, so that neither divides the other; frames that    *)
(* are silent, silent with some noise, quiet and loud.                     *)
(***************************************************************************)
EXTENDS TrackAnalysis

Sounds == {[peak |-> 0, sum |-> 0], [peak |-> 1, sum |-> 2],
           [peak |-> 2, sum |-> 2], [peak |-> 3, sum |-> 5]}

\* An ordinary track, one that is too loud, one whose peak forbids the gain it
\* needs, a quiet one beyond the clamp, and silence.
Levels == {[lufs |-> -1000, truePeak |-> -400], [lufs |-> -600, truePeak |-> 50],
           [lufs |-> -1400, truePeak |-> -105], [lufs |-> -4000, truePeak |-> -3000],
           [lufs |-> 0, truePeak |-> -12000]}

MCCeiling == -100
MCTarget == -800
=============================================================================
