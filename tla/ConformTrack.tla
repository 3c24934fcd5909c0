----------------------------- MODULE ConformTrack -----------------------------
(***************************************************************************)
(* One track from its analysis to its conforming copy: SilenceDetector,    *)
(* block by block, ProcessingEngine::plan, and the trimming of             *)
(* ProcessingEngine::process, for a profile that keeps the sample rate.    *)
(*                                                                         *)
(* A frame is what the code compares of it: its greatest magnitude over    *)
(* the channels and the sum of them.  Frames are counted from 0, as in the *)
(* code: frame i of a buffer b is b[i + 1].  Levels are integers, decibels *)
(* hundredths; what LoudnessDynamicsAnalyzer measures is an input.         *)
(***************************************************************************)
EXTENDS Integers, Sequences, FiniteSets, FiniteSetsExt

CONSTANTS
  Rate,       \* frames per second
  Second,     \* milliseconds per second: 1000 in the code
  MinMs,      \* AnalysisConfig::silenceMinDurationMs
  Threshold,  \* a frame above it is not silent
  Ambiguous,  \* a frame below it is quiet
  LeadIn,     \* SilencePolicy::leadInMs of the profile
  Target,     \* loudnessTargetLufs of the profile, 0 for none
  Clamp, Ceiling, Tiny,  \* 24, -1 and 0.05 dB in the code
  Frames,     \* the kinds of frames that occur
  Measures,   \* the measurements that occur
  MaxBlock, MaxFrames  \* bounds

ASSUME ConformAssumption ==
  /\ Rate \in Nat \ {0} /\ Second \in Nat \ {0}
  /\ MinMs \in Nat /\ LeadIn \in Nat
  /\ Threshold \in Nat /\ Ambiguous \in Nat
  /\ Target \in Int /\ Clamp \in Nat /\ Ceiling \in Int /\ Tiny \in Nat
  /\ Frames \subseteq [peak : Nat, sum : Nat]
  /\ Measures \subseteq [lufs : Int, truePeak : Int]
  /\ MaxBlock \in Nat /\ MaxFrames \in Nat

VARIABLES
  pc,
  file,      \* the frames of the source, as far as they have been decoded
  stale,     \* the source was replaced since its analysis
  totalFrames, firstLoud, lastLoud, quietFrames,  \* SilenceDetector
  analysis,  \* AnalysisResult and the duration in the track's row
  applyTrim, \* ProcessingOptions::applyTrim
  change,    \* ProcessingChange
  window,    \* the frames the output is made of: start, and one past the end
  out        \* the output

detector == <<totalFrames, firstLoud, lastLoud, quietFrames>>
vars == <<pc, file, stale, detector, analysis, applyTrim, change, window, out>>

NoAnalysis ==
  [lead |-> 0, trail |-> 0, ambiguous |-> FALSE, lufs |-> 0, truePeak |-> 0, ms |-> 0]
NoChange ==
  [trimmed |-> FALSE, lead |-> 0, tail |-> 0, gain |-> 0, limited |-> FALSE, ms |-> 0,
   passthrough |-> FALSE]

\* SilenceDetector::begin
Init ==
  /\ pc = "analyze"
  /\ file = <<>>
  /\ stale = FALSE
  /\ totalFrames = 0 /\ quietFrames = 0
  /\ firstLoud = -1 /\ lastLoud = -1
  /\ analysis = NoAnalysis
  /\ applyTrim = FALSE
  /\ change = NoChange
  /\ window = <<0, 0>>
  /\ out = <<>>

-----------------------------------------------------------------------------
(* Analysis. *)

Loud(f) == f.peak > Threshold
LoudIn(b) == {i \in 0 .. Len(b) - 1 : Loud(b[i + 1])}
QuietIn(b) == {i \in LoudIn(b) : b[i + 1].peak < Ambiguous}

\* Mutant: the index of a frame is its index in the block.
ProcessBlockLocal(block) ==
  LET loud == LoudIn(block) IN
  /\ firstLoud' = IF firstLoud < 0 /\ loud # {} THEN Min(loud) ELSE firstLoud
  /\ lastLoud' = IF loud # {} THEN Max(loud) ELSE lastLoud
  /\ quietFrames' = quietFrames + Cardinality(QuietIn(block))
  /\ totalFrames' = totalFrames + Len(block)

\* Mutant: the first loud frame is the last block's.
ProcessBlockForgets(block) ==
  LET loud == LoudIn(block) IN
  /\ firstLoud' = IF loud # {} THEN totalFrames + Min(loud) ELSE firstLoud
  /\ lastLoud' = IF loud # {} THEN totalFrames + Max(loud) ELSE lastLoud
  /\ quietFrames' = quietFrames + Cardinality(QuietIn(block))
  /\ totalFrames' = totalFrames + Len(block)

ProcessBlock(block) ==
  LET loud == LoudIn(block) IN
  /\ firstLoud' = IF firstLoud < 0 /\ loud # {} THEN totalFrames + Min(loud) ELSE firstLoud
  /\ lastLoud' = IF loud # {} THEN totalFrames + Max(loud) ELSE lastLoud
  /\ quietFrames' = quietFrames + Cardinality(QuietIn(block))
  /\ totalFrames' = totalFrames + Len(block)

\* AnalysisPipeline::analyze hands over the next block.
Block(n) ==
  /\ pc = "analyze"
  /\ Len(file) + n <= MaxFrames
  /\ \E block \in [1 .. n -> Frames] : file' = file \o block /\ ProcessBlock(block)
  /\ UNCHANGED <<pc, stale, analysis, applyTrim, change, window, out>>

ToMs(frames) == (frames * Second) \div Rate

\* A run shorter than the minimum is not padding.
Gate(ms) == IF ms >= MinMs THEN ms ELSE 0

\* Mutant: the last loud frame counts as trailing silence.
SilenceOffByOne(m) ==
  [lead |-> Gate(ToMs(firstLoud)), trail |-> Gate(ToMs(totalFrames - lastLoud)),
   ambiguous |-> quietFrames > Rate \div 4,
   lufs |-> m.lufs, truePeak |-> m.truePeak, ms |-> ToMs(totalFrames)]

\* finalize(); a track without a loud frame is leading silence altogether.
Silence(m) ==
  [lead |-> IF firstLoud < 0 THEN ToMs(totalFrames) ELSE Gate(ToMs(firstLoud)),
   trail |-> IF firstLoud < 0 THEN 0 ELSE Gate(ToMs(totalFrames - 1 - lastLoud)),
   ambiguous |-> firstLoud >= 0 /\ quietFrames > Rate \div 4,
   lufs |-> m.lufs, truePeak |-> m.truePeak, ms |-> ToMs(totalFrames)]

Finalize ==
  /\ pc = "analyze"
  /\ \E m \in Measures : analysis' = Silence(m)
  /\ pc' = "plan"
  /\ UNCHANGED <<file, stale, detector, applyTrim, change, window, out>>

\* Meanwhile the source is replaced by a shorter one.
Replace(n) ==
  /\ pc = "process" /\ n < Len(file)
  /\ file' = SubSeq(file, 1, n)
  /\ stale' = TRUE
  /\ UNCHANGED <<pc, detector, analysis, applyTrim, change, window, out>>

-----------------------------------------------------------------------------
(* Planning. *)

TrimLead == Max({0, analysis.lead - LeadIn})

\* Mutant: only a track with padding at both ends is trimmed.
TrimsBothEnds == ~analysis.ambiguous /\ TrimLead > 0 /\ analysis.trail > 0

Trims == ~analysis.ambiguous /\ (TrimLead > 0 \/ analysis.trail > 0)

Normalizes == Target # 0 /\ analysis.lufs < 0
Wanted == Max({-Clamp, Min({Clamp, Target - analysis.lufs})})

\* Mutant: the peak before the gain is compared with the ceiling.
LimitsLoudOnly == analysis.truePeak > Ceiling

Limits == analysis.truePeak + Wanted > Ceiling
Gain == IF Limits THEN Ceiling - analysis.truePeak ELSE Wanted

\* Mutant: the planned duration is short of the leading silence only.
PlannedLeadOnly(trims) == Max({0, analysis.ms - (IF trims THEN TrimLead ELSE 0)})

Planned(trims) ==
  Max({0, analysis.ms - (IF trims THEN TrimLead + analysis.trail ELSE 0)})

\* plan(); whether container, rate and bit depth agree with the profile is an input.
Plan(trim, normalize, conforming) ==
  LET trims == trim /\ Trims
      gain == IF normalize /\ Normalizes /\ (Gain > Tiny \/ Gain < -Tiny) THEN Gain ELSE 0
  IN
  /\ pc = "plan"
  /\ applyTrim' = trim
  /\ change' = [trimmed |-> trims,
                lead |-> IF trims THEN TrimLead ELSE 0,
                tail |-> IF trims THEN analysis.trail ELSE 0,
                gain |-> gain,
                limited |-> normalize /\ Normalizes /\ Limits,
                ms |-> Planned(trims),
                passthrough |-> conforming /\ ~trims /\ gain = 0]
  /\ pc' = "process"
  /\ UNCHANGED <<file, stale, detector, analysis, window, out>>

-----------------------------------------------------------------------------
(* Processing. *)

FromMs(ms) == (ms * Rate) \div Second

\* A millisecond's frames.
SnapWindow == Rate \div Second

\* The frame nearest to silence in the window around idx, the first of several.
SnapToZeroCrossing(b, idx) ==
  LET near == Max({0, idx - SnapWindow}) .. Min({Len(b), idx + SnapWindow + 1}) - 1
      quietest == {i \in near : \A j \in near : b[i + 1].sum <= b[j + 1].sum}
  IN  IF near = {} THEN idx ELSE Min(quietest)

\* Mutant: the start is not kept within the file.
StartUnchecked(b, frames) == SnapToZeroCrossing(b, frames)

Start(b, frames) == SnapToZeroCrossing(b, Min({frames, Len(b)}))

\* One past the last frame kept; not before the start.
Stop(b, start, frames) ==
  LET lastKeep == Len(b) - Min({frames, Len(b) - start})
  IN  IF lastKeep > start THEN Max({start, SnapToZeroCrossing(b, lastKeep)}) ELSE start

\* trimSilence
Window(b) ==
  LET start == Start(b, FromMs(change.lead))
  IN  IF b = <<>> \/ ~change.trimmed THEN <<0, Len(b)>>
      ELSE <<start, Stop(b, start, FromMs(change.tail))>>

\* process(): a copy, or decoding, trim and encoding; gain leaves the frames.
Process ==
  /\ pc = "process"
  /\ window' = Window(file)
  /\ out' = SubSeq(file, window'[1] + 1, window'[2])
  /\ change' = IF change.passthrough
               THEN [change EXCEPT !.ms = analysis.ms]
               ELSE [change EXCEPT !.ms = ToMs(Len(out'))]
  /\ pc' = "done"
  /\ UNCHANGED <<file, stale, detector, analysis, applyTrim>>

Next ==
  \/ \E n \in 1 .. MaxBlock : Block(n)
  \/ Finalize
  \/ \E trim, normalize, conforming \in BOOLEAN : Plan(trim, normalize, conforming)
  \/ \E n \in 0 .. MaxFrames : Replace(n)
  \/ Process

Spec == Init /\ [][Next]_vars

-----------------------------------------------------------------------------
(* Properties. *)

TypeOK ==
  /\ pc \in {"analyze", "plan", "process", "done"}
  /\ file \in Seq(Frames) /\ out \in Seq(Frames)
  /\ stale \in BOOLEAN /\ applyTrim \in BOOLEAN
  /\ totalFrames \in Nat /\ quietFrames \in 0 .. totalFrames
  /\ firstLoud \in -1 .. lastLoud /\ lastLoud \in -1 .. totalFrames - 1
  /\ analysis \in [lead : Nat, trail : Nat, ambiguous : BOOLEAN, lufs : Int,
                   truePeak : Int, ms : Nat]
  /\ change \in [trimmed : BOOLEAN, lead : Nat, tail : Nat, gain : Int,
                 limited : BOOLEAN, ms : Nat, passthrough : BOOLEAN]
  /\ window \in Nat \X Nat

\* SilenceDetector.cpp:18-33: however the frames are cut into blocks, the boundaries
\* and the count of quiet frames are those of the whole track.
DetectionIgnoresBlocks ==
  ~stale =>
    /\ totalFrames = Len(file)
    /\ quietFrames = Cardinality(QuietIn(file))
    /\ IF LoudIn(file) = {} THEN firstLoud = -1 /\ lastLoud = -1
       ELSE firstLoud = Min(LoudIn(file)) /\ lastLoud = Max(LoudIn(file))

\* Whatever was analysed and whatever is there now, trimming reads no frame that
\* the file does not have, and never a negative number of them.
WindowInsideFile ==
  pc = "done" => 0 <= window[1] /\ window[1] <= window[2] /\ window[2] <= Len(file)

Cut == {i \in LoudIn(file) : i < window[1] \/ i >= window[2]}

\* Rounding to milliseconds and back and snapping to a zero crossing cost no music
\* but what lies within a millisecond of its first and its last frame.
MusicSurvives ==
  pc = "done" /\ ~stale =>
    \A i \in Cut : i < firstLoud + SnapWindow \/ i > lastLoud - SnapWindow

\* A millisecond lost in rounding, and the frames snapping and flooring may move.
Slack == 1 + ToMs(SnapWindow + 1)

\* Trimming does what it was asked for: unless it cut into the music, a new analysis
\* of the output finds hardly more silence than the lead-in.
SilenceIsRemoved ==
  pc = "done" /\ ~stale /\ applyTrim /\ ~analysis.ambiguous /\ firstLoud >= 0 /\ Cut = {} =>
    /\ Gate(ToMs(Min(LoudIn(out)))) <= LeadIn + Slack
    /\ Gate(ToMs(Len(out) - 1 - Max(LoudIn(out)))) <= Slack

\* ProcessingEngine.h:37-39: the dry run of plan() announces the duration that
\* process() makes, but for a few milliseconds.
DryRunTellsDuration ==
  [][pc = "process" /\ pc' = "done" /\ ~stale =>
       change'.ms - change.ms \in -(1 + 2 * ToMs(SnapWindow + 1)) .. 1 + 2 * ToMs(SnapWindow + 1)]_vars

\* ProcessingEngine.cpp:53-66: applied gain leaves the true peak at or below the
\* ceiling and never makes a track louder than the target; a track is made quieter
\* only if it is too loud or its peak is too high.
GainIsSafe ==
  change.gain # 0 =>
    /\ analysis.truePeak + change.gain <= Ceiling
    /\ change.gain > 0 => analysis.lufs + change.gain <= Target
    /\ change.gain < 0 => analysis.lufs > Target \/ analysis.truePeak > Ceiling
=============================================================================
