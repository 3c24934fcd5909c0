------------------------------- MODULE AudioPath -------------------------------
(***************************************************************************)
(* A file on its way through import and ProcessingEngine: its format is    *)
(* probed into the library, plan() decides what has to change, process()   *)
(* copies it or decodes, resamples and encodes it; and the output may be   *)
(* imported in its turn.                                                   *)
(*                                                                         *)
(* A source is a WAV file (WavIo), or a file of another container, which   *)
(* FfmpegDecoder reads packet by packet; FFmpeg itself is external.        *)
(* Buffers are numbers of frames.  Trimming, which is ConformTrack's, and  *)
(* errors of the file system, which are ApplyProfile's, are left out but   *)
(* for a writer that is stopped.                                           *)
(***************************************************************************)
EXTENDS WavIo

CONSTANTS
  Profiles,  \* container, rate and bits of the profiles that occur
  Sources,   \* the files that occur
  Delay,     \* bound: frames a decoder holds back
  None

ASSUME AudioAssumption ==
  /\ Delay \in Nat
  /\ Profiles \subseteq [container : STRING, rate : Nat, bits : Nat]
  /\ \A s \in Sources :
       /\ s.container \in STRING
       /\ s.container = "wav" => IsWav(s.wav)
       /\ s.container # "wav" =>
            s.fmt \in Format /\ s.raw \in Nat /\ s.packets \in Seq(STRING)

\* A WAV file of n frames, whoever made it: its chunks lie end to end, one of them is
\* the format and one the samples; n whole frames are announced and there, and more
\* are not announced or are not there.
Holds(file, n) ==
  LET c == file.chunks IN
  /\ c # <<>> /\ c[1].at = RiffHeader
  /\ \A i \in 1 .. Len(c) - 1 : c[i + 1].at = c[i].at + ChunkHeader + Padded(c[i].size)
  /\ \E fmt, data \in DOMAIN c :
       LET size == FrameBytes(c[fmt].fmt)
           body == file.len - (c[data].at + ChunkHeader)
       IN  /\ \A i \in DOMAIN c : (c[i].id = "fmt" <=> i = fmt) /\ (c[i].id = "data" <=> i = data)
           /\ c[fmt].size >= FmtBytes /\ c[fmt].at + ChunkHeader + FmtBytes <= file.len
           /\ c[fmt].fmt.channels > 0 /\ c[fmt].fmt.bits >= 8
           /\ n * size <= c[data].size /\ n * size <= body
           /\ c[data].size < (n + 1) * size \/ body < (n + 1) * size

\* What the number of frames of a source says; only EveryFrameIsRead is about it.
ASSUME FramesAssumption ==
  \A s \in Sources : s.container = "wav" => s.frames \in Nat /\ Holds(s.wav, s.frames)

VARIABLES
  pc,
  profile,
  source,
  row,      \* Track::format
  stale,    \* the source was replaced since its import
  change,   \* ProcessingChange
  packets,  \* what the demuxer has not delivered yet
  held,     \* frames in the decoder
  pcm,      \* frames in the buffer
  out,      \* the output file
  wrote     \* format and frames that were to be written to it

vars == <<pc, profile, source, row, stale, change, packets, held, pcm, out, wrote>>

Init ==
  /\ pc = "import"
  /\ profile \in Profiles
  /\ source = None /\ row = None /\ change = None
  /\ stale = FALSE
  /\ packets = <<>> /\ held = 0 /\ pcm = 0
  /\ out = None /\ wrote = None

-----------------------------------------------------------------------------
(* AudioDecoder: what a file is taken for. *)

Row(container, f) ==
  [container |-> container, float |-> f.float, channels |-> f.channels,
   rate |-> f.rate, bits |-> f.bits]

CanProbe(file) == file.container = "wav" => ProbeWav(file.wav).ok

\* probeFormat
Probe(file) ==
  IF file.container = "wav" THEN Row("wav", ProbeWav(file.wav).fmt)
  ELSE Row(file.container, [file.fmt EXCEPT !.bits = file.raw])

\* AudioDecoder::format, of a decoder that has been opened.
Opened(file) ==
  IF file.container = "wav" THEN Probe(file) ELSE Row(file.container, file.fmt)

\* Import, as far as it reads the file.
Import(file) ==
  /\ pc = "import"
  /\ CanProbe(file)
  /\ source' = file
  /\ row' = Probe(file)
  /\ pc' = "row"
  /\ UNCHANGED <<profile, stale, change, packets, held, pcm, out, wrote>>

\* Another file takes the source's place.
Replace(file) ==
  /\ pc = "row" /\ ~stale
  /\ file.container = source.container /\ CanProbe(file)
  /\ source' = file
  /\ stale' = TRUE
  /\ UNCHANGED <<pc, profile, row, change, packets, held, pcm, out, wrote>>

-----------------------------------------------------------------------------
(* plan(): what has to change of the format. *)

Keep(wanted, is) == IF wanted > 0 THEN wanted ELSE is

Planned(t, p, touched) ==
  LET rate == Keep(p.rate, t.rate)
      bits == Keep(p.bits, t.bits)
      container == IF p.container = "" THEN t.container ELSE p.container
  IN  [container |-> container, rate |-> rate, bits |-> bits,
       passthrough |-> /\ container = t.container
                       /\ rate = t.rate /\ bits = t.bits
                       /\ ~touched]

\* Whether the track is trimmed or its gain changed is ConformTrack's.
Plan(touched) ==
  /\ pc = "row"
  /\ change' = Planned(row, profile, touched)
  /\ pc' = "process"
  /\ UNCHANGED <<profile, source, row, stale, packets, held, pcm, out, wrote>>

-----------------------------------------------------------------------------
(* process() *)

\* A conforming file is copied.
Copy ==
  /\ pc = "process" /\ change.passthrough
  /\ out' = source
  /\ pc' = "done"
  /\ UNCHANGED <<profile, source, row, stale, change, packets, held, pcm, wrote>>

Stop ==
  /\ pc' = "failed"
  /\ UNCHANGED <<profile, source, row, stale, change, packets, held, pcm, out, wrote>>

\* WavDecoder::readAll
DecodeWav ==
  /\ pc = "process" /\ ~change.passthrough /\ source.container = "wav"
  /\ \/ ~ReadWav(source.wav).ok /\ Stop
     \/ /\ ReadWav(source.wav).ok
        /\ pcm' = ReadWav(source.wav).frames
        /\ pc' = "encode"
        /\ UNCHANGED <<profile, source, row, stale, change, packets, held, out, wrote>>

\* FfmpegDecoder::decode, up to its loop.
OpenOther ==
  /\ pc = "process" /\ ~change.passthrough /\ source.container # "wav"
  /\ packets' = source.packets
  /\ pc' = "decode"
  /\ UNCHANGED <<profile, source, row, stale, change, held, pcm, out, wrote>>

\* A packet of the stream gives a frame, sooner or later; the loop takes what the
\* decoder has ready.  A packet of another stream is skipped, and so is one the
\* decoder refuses.
DecodePacket ==
  /\ pc = "decode" /\ packets # <<>>
  /\ packets' = Tail(packets)
  /\ IF Head(packets) = "audio"
     THEN \E h \in 0 .. Min2(Delay, held + 1) : held' = h /\ pcm' = pcm + (held + 1 - h)
     ELSE UNCHANGED <<held, pcm>>
  /\ UNCHANGED <<pc, profile, source, row, stale, change, out, wrote>>

\* Mutant: the decoder is not asked for what it holds back.
FlushNothing ==
  /\ pc = "decode" /\ packets = <<>>
  /\ held' = 0
  /\ pc' = "encode"
  /\ UNCHANGED <<profile, source, row, stale, change, packets, pcm, out, wrote>>

\* The end of the file: the decoder gives what it holds back.
Flush ==
  /\ pc = "decode" /\ packets = <<>>
  /\ pcm' = pcm + held
  /\ held' = 0
  /\ pc' = "encode"
  /\ UNCHANGED <<profile, source, row, stale, change, packets, out, wrote>>

\* resample(): the next whole number of frames; the quotient of the rates is
\* rounded, which may add one to a whole number.
Resampled(frames, from, to) ==
  LET exact == (frames * to + from - 1) \div from
  IN  IF frames = 0 \/ from <= 0 \/ from = to THEN {frames}
      ELSE exact .. exact + (IF (frames * to) % from = 0 THEN 1 ELSE 0)

\* Mutant: what plan() made of the row decides, not the file.
EncodingOfRow(src) ==
  [float |-> FALSE, channels |-> src.channels, rate |-> src.rate,
   bits |-> IF change.bits > 0 THEN change.bits ELSE 16]

\* The format that is written: the profile's, where it says one, or the source's.
Encoding(src) ==
  LET float == profile.bits = 0 /\ src.float
      kept  == Keep(src.bits, 16)
  IN  [float |-> float, channels |-> src.channels,
       rate |-> Keep(profile.rate, src.rate),
       bits |-> IF float THEN 32 ELSE Keep(profile.bits, kept)]

\* Mutant: any depth is written.
CanEncodeAnyDepth(f) == change.container = "wav" /\ f.channels > 0

\* encodeToFile: only WAV, in the depths writeWav knows.
CanEncode(f) == change.container = "wav" /\ Writable(f)

\* resample, encodeToFile and writeWav; the writer may be stopped at any byte.
Encode ==
  /\ pc = "encode"
  /\ LET src == Opened(source)
         f   == Encoding(src)
     IN  \/ ~CanEncode(f) /\ Stop
         \/ /\ CanEncode(f)
            /\ \E n \in Resampled(pcm, src.rate, f.rate) :
                 \E len \in 0 .. Written(f, n) :
                   /\ wrote' = [fmt |-> f, frames |-> n]
                   /\ out' = [container |-> "wav", wav |-> WriteWav(f, n, len)]
                   /\ pc' = IF len = Written(f, n) THEN "done" ELSE "torn"
            /\ change' = [change EXCEPT
                            !.rate = IF f.rate # src.rate THEN f.rate ELSE @,
                            !.bits = f.bits]
            /\ UNCHANGED <<profile, source, row, stale, packets, held, pcm>>

Next ==
  \/ \E file \in Sources : Import(file) \/ Replace(file)
  \/ \E touched \in BOOLEAN : Plan(touched)
  \/ Copy \/ DecodeWav \/ OpenOther \/ DecodePacket \/ Flush \/ Encode

Spec == Init /\ [][Next]_vars

-----------------------------------------------------------------------------
(* Properties. *)

Stages == {"import", "row", "process", "decode", "encode", "done", "torn", "failed"}

TypeOK ==
  /\ pc \in Stages
  /\ profile \in Profiles
  /\ source \in Sources \cup {None}
  /\ row \in [container : STRING, float : BOOLEAN, channels : Nat, rate : Nat, bits : Nat]
             \cup {None}
  /\ stale \in BOOLEAN
  /\ change \in [container : STRING, rate : Nat, bits : Nat, passthrough : BOOLEAN]
                \cup {None}
  /\ held \in 0 .. Delay /\ pcm \in Nat
  /\ wrote # None =>
       /\ wrote.fmt \in Format /\ Writable(wrote.fmt) /\ wrote.frames \in Nat
       /\ out = [container |-> "wav", wav |-> WriteWav(wrote.fmt, wrote.frames, out.wav.len)]
       /\ out.wav.len \in 0 .. Written(wrote.fmt, wrote.frames)

Audio(ps) == Cardinality({i \in DOMAIN ps : ps[i] = "audio"})

\* The samples of an output that are too many for its header (WavIo.cpp:211) are
\* the case in which a reader misses some.
Fits == wrote.frames * FrameBytes(wrote.fmt) < Word

\* WavIo.cpp:205-275, read back by :63-98: of an output, however far the writer came,
\* no frame is read that was not written, and, up to the size a header can say,
\* every whole frame that is there is; of a complete one the header tells as many.
OutputReadsBack ==
  wrote # None =>
    LET file == out.wav
        r    == ReadWav(file)
    IN  /\ r.ok => r.fmt = wrote.fmt /\ r.frames <= wrote.frames
        /\ Fits =>
             /\ r.ok <=> file.len >= SmallestFile
             /\ r.ok => r.frames = (file.len - SmallestFile) \div FrameBytes(wrote.fmt)
             /\ pc = "done" => ProbeWav(file).frames = wrote.frames

\* FfmpegDecoder.cpp:139-149 and WavIo.cpp:63-98: every frame of a source is
\* decoded, behind chunks of any size, with more samples announced than there are,
\* or held back by FFmpeg's decoder; and of an output what there is.
EveryFrameIsRead ==
  /\ pc = "encode" =>
       pcm = IF source.container = "wav" THEN source.frames ELSE Audio(source.packets)
  /\ source # None /\ source.container = "wav" /\ Probe(source).bits \in Depths =>
       ReadWav(source.wav).ok
  /\ OutputReadsBack

\* ProcessingEngine.h:33-36: what process() reports, and the audit log records, is
\* what an import of the output finds, and the output conforms: processing it
\* again for the same profile is a copy.  A source that was replaced since its
\* import is reported as it was then when it is copied or keeps its rate
\* (ProcessingEngine.cpp:84-91, 106-111).  It is what plan() announced, too, but
\* for the depth, kept, of a file whose decoder gives wider samples than it has
\* (FfmpegDecoder.cpp:161 and 195).
ReportedOutputConforms ==
  pc = "done" /\ (stale => ~change.passthrough /\ profile.rate > 0) =>
    LET t == Probe(out) IN
    /\ change.container = t.container /\ change.rate = t.rate /\ change.bits = t.bits
    /\ Planned(t, profile, FALSE).passthrough
    /\ ~stale => change.rate = Keep(profile.rate, row.rate)
    /\ ~stale /\ Opened(source).bits = row.bits => change.bits = Keep(profile.bits, row.bits)
=============================================================================
