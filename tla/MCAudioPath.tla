----------------------------- MODULE MCAudioPath -----------------------------
(***************************************************************************)
(* AudioPath for TLC: sizes modulo 32, so that eight frames of two 16-bit   *)
(* samples, or four of two 32-bit ones, are more than a header can say.    *)
(***************************************************************************)
EXTENDS AudioPath

\* Integers and floats; mono and stereo; a depth nothing reads.
Formats == {[float |-> FALSE, channels |-> c, rate |-> r, bits |-> b] :
              c \in {1, 2}, r \in {2, 3}, b \in {8, 16, 24}}
           \cup {[float |-> TRUE, channels |-> 2, rate |-> 2, bits |-> 32]}
           \cup {[float |-> FALSE, channels |-> 1, rate |-> 2, bits |-> 20]}

\* A chunk of odd size may come before the samples, and a program that did not
\* know the size of what it wrote has said more.
WavSource(f, frames, odd, size) ==
  LET data == 36 + (IF odd THEN ChunkHeader + Padded(3) ELSE 0) IN
  [container |-> "wav", frames |-> frames,
   wav |-> [chunks |-> <<Fmt(RiffHeader, f)>>
                       \o (IF odd THEN <<Other(36, "other", 3)>> ELSE <<>>)
                       \o <<Other(data, "data", size)>>,
            len |-> data + ChunkHeader + frames * FrameBytes(f)]]

WavSources ==
  {WavSource(f, n, odd, n * FrameBytes(f)) : f \in Formats, n \in {0, 5}, odd \in BOOLEAN}
  \cup {WavSource(f, n, FALSE, Word - 1) : f \in Formats, n \in {3}}

\* FLAC of 16 and of 24 bits and MP3, as FFmpeg decodes them: raw is what the
\* container says, bits the width of the decoder's samples.
Other3 == {<<"audio", "audio", "audio">>, <<"audio", "other", "audio">>,
           <<"bad", "audio", "other">>}
OtherSource(container, raw, bits, ps) ==
  [container |-> container, raw |-> raw, packets |-> ps,
   fmt |-> [float |-> FALSE, channels |-> 2, rate |-> 3, bits |-> bits]]

MCSources ==
  WavSources
  \cup {OtherSource("flac", 16, 16, ps) : ps \in Other3}
  \cup {OtherSource("flac", 24, 32, ps) : ps \in Other3}
  \cup {OtherSource("mp3", 0, 32, ps) : ps \in Other3}

\* Club / USB and Archival / Lossless, and what a profile may say besides.
MCProfiles ==
  {[container |-> "wav", rate |-> r, bits |-> b] : r \in {0, 2}, b \in {0, 16, 32}}
  \cup {[container |-> c, rate |-> 0, bits |-> 0] : c \in {"flac", ""}}
=============================================================================
