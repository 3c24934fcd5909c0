--------------------------- MODULE AudioPath_proofs ---------------------------
(***************************************************************************)
(* Proofs about WavIo and AudioPath, for every word width, number of       *)
(* frames, source and profile: types, that what writeWav left behind, as   *)
(* far as it got, reads back, that process() reports what it wrote, and    *)
(* that every frame of a source is decoded.                                *)
(***************************************************************************)
EXTENDS AudioPath, DataLemmas

-----------------------------------------------------------------------------
(* What writeWav leaves behind. *)

\* The only element of a set is its greatest.
LEMMA MaxOfOne ==
  ASSUME NEW x \in Int
  PROVE  Max({x}) = x
BY DEF Max

\* What can be written has frames of some size.
LEMMA FrameSize ==
  ASSUME NEW f \in Format, Writable(f)
  PROVE  FrameBytes(f) \in Nat \ {0}
<1>1. f.channels \in Nat \ {0} /\ f.bits \in {16, 24, 32}
  BY DEF Format, Writable
<1>2. f.bits \div 8 \in {2, 3, 4}
  BY <1>1
<1>3. ASSUME NEW k \in {2, 3, 4}, NEW c \in Nat \ {0} PROVE k * c \in Nat \ {0}
  BY <1>3
<1>4. QED
  BY <1>1, <1>2, <1>3 DEF FrameBytes

\* Quotients by the size of a frame.
LEMMA Quotient ==
  ASSUME NEW b \in Nat \ {0}, NEW x \in Nat, NEW n \in Nat
  PROVE  /\ x \div b \in Nat
         /\ x <= n * b => x \div b <= n
         /\ (n * b) \div b = n
<1>1. x \div b \in Nat /\ b * (x \div b) <= x
  OBVIOUS
<1>2. x <= n * b => x \div b <= n
  <2>1. ASSUME x <= n * b PROVE b * (x \div b) <= b * n
    BY <1>1, <2>1
  <2>2. QED
    BY <1>1, <2>1, Cancel
<1>3. (n * b) \div b = n
  <2> DEFINE q == (n * b) \div b
  <2>1. n * b \in Nat
    OBVIOUS
  <2>2. q \in Nat /\ b * q <= n * b /\ n * b < b * (q + 1)
    BY <2>1
  <2> HIDE DEF q
  <2>3. b * q <= b * n
    BY <2>2
  <2>4. q <= n
    BY <2>2, <2>3, Cancel
  <2>5. n < q + 1
    <3> SUFFICES ASSUME q + 1 <= n PROVE FALSE
      BY <2>2
    <3>1. (q + 1) * b <= n * b
      BY <2>2, Grow
    <3>2. QED
      BY <2>1, <2>2, <3>1
  <2>6. QED
    BY <2>2, <2>4, <2>5 DEF q
<1>4. QED
  BY <1>1, <1>2, <1>3

\* A reader comes to both chunks of what was written, if the writer came as far.
LEMMA WrittenChunks ==
  ASSUME NEW f \in Format, NEW n \in Nat, NEW len \in Nat, len >= SmallestFile
  PROVE  LET file == WriteWav(f, n, len) IN
         /\ Met(file) = {1, 2}
         /\ FmtsRead(file) = {1} /\ FmtsProbed(file) = {1} /\ DataMet(file) = {2}
<1> DEFINE file == WriteWav(f, n, len)
           c == file.chunks
<1> USE DEF RiffHeader, ChunkHeader, FmtBytes, SmallestFile
<1>1. /\ DOMAIN c = {1, 2} /\ file.len = len
      /\ c[1] = [id |-> "fmt", at |-> 12, size |-> 16, fmt |-> f]
      /\ c[2] = [id |-> "data", at |-> 36, size |-> DataBytes(f, n), fmt |-> Unread]
  BY DEF WriteWav, Fmt, Other
<1>2. c[1].id = "fmt" /\ c[1].at = 12 /\ c[1].size = 16 /\ c[2].id = "data" /\ c[2].at = 36
  BY <1>1
<1> HIDE DEF file
<1>3. Step(c[1]) = 36
  BY <1>2 DEF Step, Padded
<1>4. Met(file) = {1, 2}
  <2>1. Met(file) \subseteq {1, 2}
    BY <1>1 DEF Met
  <2>2. 1 \in Met(file)
    BY <1>1, <1>2 DEF Met
  <2>3. 2 \in Met(file)
    <3>1. \A k \in 1 .. 2 - 1 : Step(c[k]) = c[k + 1].at
      BY <1>2, <1>3
    <3>2. c[2].at + ChunkHeader <= file.len /\ c[1].at = RiffHeader /\ 2 \in DOMAIN c
      BY <1>1, <1>2
    <3>3. QED
      BY <3>1, <3>2 DEF Met
  <2>4. QED
    BY <2>1, <2>2, <2>3
<1>5. Body(file, 1) = len - 20 /\ There(file, 1) = 16
  BY <1>1, <1>2 DEF Body, There, Min2
<1>6. FmtsRead(file) = {1} /\ FmtsProbed(file) = {1} /\ DataMet(file) = {2}
  BY <1>2, <1>4, <1>5 DEF FmtsRead, FmtsProbed, DataMet
<1>7. QED
  BY <1>4, <1>6 DEF file

\* However far the writer came: what is read is what was written, never more of it,
\* and what the header cannot tell is the only thing that is missed.
LEMMA WrittenReads ==
  ASSUME NEW f \in Format, Writable(f), NEW n \in Nat, NEW len \in 0 .. Written(f, n)
  PROVE  LET file == WriteWav(f, n, len)
             r    == ReadWav(file)
         IN  /\ r.ok => r.fmt = f /\ r.frames \in Nat /\ r.frames <= n
             /\ n * FrameBytes(f) < Word =>
                  /\ r.ok <=> file.len >= SmallestFile
                  /\ r.ok => r.frames = (file.len - SmallestFile) \div FrameBytes(f)
<1> DEFINE file == WriteWav(f, n, len)
           b == FrameBytes(f)
           d == DataBytes(f, n)
<1>1. b \in Nat \ {0} /\ n * b \in Nat
  BY FrameSize
<1>2. len \in Nat /\ len <= SmallestFile + n * b
  BY <1>1 DEF Written, SmallestFile
<1>3. d \in Nat /\ d <= n * b /\ (n * b < Word => d = n * b)
  BY <1>1, WordAssumption DEF DataBytes
<1>4. file.len = len
  BY DEF WriteWav
<1> HIDE DEF b, d
<1>5. CASE len < SmallestFile
  <2>1. ReadWav(file) = Failed
    BY <1>2, <1>4, <1>5 DEF ReadWav, SmallestFile
  <2>2. QED
    BY <1>2, <1>4, <1>5, <2>1 DEF Failed, SmallestFile
<1>6. CASE len >= SmallestFile
  <2>1. FmtsRead(file) = {1} /\ DataMet(file) = {2}
    BY <1>2, <1>6, WrittenChunks
  <2>2. Max(FmtsRead(file)) = 1 /\ Max(DataMet(file)) = 2
    BY <2>1, MaxOfOne
  <2>3. file.chunks[1].fmt = f /\ file.chunks[2].size = d /\ file.chunks[2].at = 36
    BY DEF WriteWav, Fmt, Other, d, RiffHeader, ChunkHeader, FmtBytes
  <2>4. There(file, 2) = Min2(d, len - SmallestFile)
    BY <1>2, <1>4, <2>3 DEF There, Body, ChunkHeader, SmallestFile
  <2>5. f.channels > 0 /\ f.bits >= 8 /\ f.bits \in Depths
    BY DEF Writable, Depths
  <2> DEFINE t == There(file, 2)
             m == t \div b
  <2>6. ReadWav(file) = [ok |-> TRUE, fmt |-> f, frames |-> m]
    <3>1. FmtsRead(file) # {} /\ DataMet(file) # {} /\ file.len >= SmallestFile
      BY <1>4, <1>6, <2>1
    <3>2. QED
      BY <2>2, <2>3, <2>5, <3>1 DEF ReadWav, b
  <2>7. t \in Nat /\ t <= n * b /\ (n * b < Word => t = len - SmallestFile)
    <3>1. len - SmallestFile \in Nat /\ len - SmallestFile <= n * b
      BY <1>1, <1>2, <1>6 DEF SmallestFile
    <3>2. QED
      BY <1>1, <1>3, <2>4, <3>1 DEF Min2
  <2> HIDE DEF t
  <2>8. m \in Nat /\ m <= n
    BY <1>1, <2>7, Quotient
  <2>9. n * b < Word => m = (len - SmallestFile) \div b
    BY <2>7
  <2> HIDE DEF m
  <2>10. QED
    BY <1>4, <1>6, <2>6, <2>8, <2>9 DEF b
<1>7. QED
  BY <1>2, <1>5, <1>6 DEF SmallestFile

\* A complete file is probed as what it is.
LEMMA WrittenProbes ==
  ASSUME NEW f \in Format, Writable(f), NEW n \in Nat
  PROVE  LET p == ProbeWav(WriteWav(f, n, Written(f, n))) IN
         /\ p.ok /\ p.fmt = f
         /\ n * FrameBytes(f) < Word => p.frames = n
<1> DEFINE file == WriteWav(f, n, Written(f, n))
           b == FrameBytes(f)
           d == DataBytes(f, n)
<1>1. b \in Nat \ {0} /\ n * b \in Nat
  BY FrameSize
<1>2. d \in Nat /\ (n * b < Word => d = n * b)
  BY <1>1, WordAssumption DEF DataBytes
<1>3. Written(f, n) \in Nat /\ Written(f, n) >= SmallestFile
  BY <1>1 DEF Written, SmallestFile
<1>4. FmtsProbed(file) = {1} /\ DataMet(file) = {2}
  BY <1>3, WrittenChunks
<1>5. Max(FmtsProbed(file)) = 1 /\ Max(DataMet(file)) = 2
  BY <1>4, MaxOfOne
<1>6. /\ file.chunks[1].fmt = f /\ file.chunks[2].size = d /\ file.chunks[1].at = 12
      /\ file.len = Written(f, n)
  BY DEF WriteWav, Fmt, Other, RiffHeader, ChunkHeader, FmtBytes
<1> HIDE DEF b, d
<1>7. FmtCut(f, Body(file, 1)) = f
  <2>1. Body(file, 1) \in Nat /\ Body(file, 1) >= 16
    BY <1>3, <1>6 DEF Body, ChunkHeader, SmallestFile
  <2>2. ASSUME NEW k \in Nat, k >= 16 PROVE FmtCut(f, k) = f
    BY <2>2 DEF FmtCut, Format, FmtBytes
  <2>3. QED
    BY <2>1, <2>2
<1>8. ProbeWav(file) = [ok |-> TRUE, fmt |-> f, frames |-> d \div b]
  <2>1. FrameBytes(f) # 0 /\ FmtsProbed(file) # {} /\ DataMet(file) # {}
    BY <1>1, <1>4 DEF b
  <2>2. QED
    BY <1>5, <1>6, <1>7, <2>1 DEF ProbeWav, b
<1>9. n * b < Word => d \div b = n
  BY <1>1, <1>2, Quotient
<1>10. QED
  BY <1>8, <1>9 DEF b

-----------------------------------------------------------------------------
(* What a reader makes of any file. *)

Rows == [container : STRING, float : BOOLEAN, channels : Nat, rate : Nat, bits : Nat]
Changes == [container : STRING, rate : Nat, bits : Nat, passthrough : BOOLEAN]

\* The last of some chunks is one of them.
LEMMA LastChunk ==
  ASSUME NEW file, IsWav(file), NEW T \in SUBSET DOMAIN file.chunks, T # {}
  PROVE  /\ Max(T) \in T
         /\ file.chunks[Max(T)] \in [id : STRING, at : Nat, size : Nat, fmt : Format]
<1>1. DOMAIN file.chunks = 1 .. Len(file.chunks) /\ Len(file.chunks) \in Nat
  BY DEF IsWav
<1>2. T \in SUBSET Nat /\ \A t \in T : t <= Len(file.chunks)
  BY <1>1
<1>3. Max(T) \in T
  BY <1>1, <1>2, MaxOf
<1> DEFINE C == [id : STRING, at : Nat, size : Nat, fmt : Format]
<1>4. file.chunks \in Seq(C)
  BY DEF IsWav
<1>5. ASSUME NEW S, NEW q \in Seq(S), NEW i \in DOMAIN q PROVE q[i] \in S
  BY <1>5
<1> HIDE DEF C
<1>6. file.chunks[Max(T)] \in C
  BY <1>3, <1>4, <1>5
<1>7. QED
  BY <1>3, <1>6 DEF C

\* Whatever file there is, probing it gives a format.
LEMMA ProbeType ==
  ASSUME NEW file, IsWav(file)
  PROVE  ProbeWav(file).fmt \in Format
<1>1. CASE FmtsProbed(file) = {}
  BY <1>1 DEF ProbeWav, Failed, Unread, Format
<1>2. CASE FmtsProbed(file) # {}
  <2> DEFINE i == Max(FmtsProbed(file))
             f == FmtCut(file.chunks[i].fmt, Body(file, i))
  <2>1. file.chunks[i].fmt \in Format
    BY <1>2, LastChunk DEF FmtsProbed, Met
  <2>2. ASSUME NEW g \in Format, NEW k PROVE FmtCut(g, k) \in Format
    BY DEF FmtCut, Format
  <2>3. f \in Format
    BY <2>1, <2>2
  <2>4. ProbeWav(file).fmt = f
    BY <1>2 DEF ProbeWav
  <2>5. QED
    BY <2>3, <2>4
<1>3. QED
  BY <1>1, <1>2

\* Whatever file can be read has a number of frames.
LEMMA ReadType ==
  ASSUME NEW file, IsWav(file), ReadWav(file).ok
  PROVE  ReadWav(file).frames \in Nat
<1> DEFINE i == Max(FmtsRead(file))
           k == Max(DataMet(file))
           f == file.chunks[i].fmt
           m == There(file, k) \div FrameBytes(f)
<1>1. /\ FmtsRead(file) # {} /\ DataMet(file) # {} /\ f.channels > 0 /\ f.bits >= 8
      /\ ReadWav(file) = [ok |-> TRUE, fmt |-> f, frames |-> m]
  BY DEF ReadWav, Failed
<1>2. f \in Format
  BY <1>1, LastChunk DEF FmtsRead, Met
<1>3. k \in Met(file) /\ file.chunks[k] \in [id : STRING, at : Nat, size : Nat, fmt : Format]
  BY <1>1, LastChunk DEF DataMet, Met
<1>4. FrameBytes(f) \in Nat \ {0}
  <2>1. f.bits \div 8 \in Nat \ {0} /\ f.channels \in Nat \ {0}
    BY <1>1, <1>2 DEF Format
  <2>2. \A x \in Nat \ {0}, y \in Nat \ {0} : x * y \in Nat \ {0}
    OBVIOUS
  <2>3. QED
    BY <2>1, <2>2 DEF FrameBytes
<1>5. There(file, k) \in Nat
  <2>1. file.chunks[k].at + ChunkHeader <= file.len /\ file.len \in Nat
    BY <1>3 DEF Met, IsWav
  <2>2. QED
    BY <1>3, <2>1 DEF There, Body, Min2, ChunkHeader
<1> HIDE DEF f, k
<1>6. m \in Nat
  BY <1>4, <1>5, Quotient
<1>7. QED
  BY <1>1, <1>6

\* The rows of the library.
LEMMA RowTypes ==
  ASSUME NEW s \in Sources
  PROVE  /\ Probe(s) \in Rows /\ Opened(s) \in Rows
         /\ Probe(s).container = s.container /\ Opened(s).container = s.container
         /\ Probe(s).rate = Opened(s).rate
<1>1. ASSUME NEW c \in STRING, NEW f \in Format
      PROVE  /\ Row(c, f) \in Rows /\ Row(c, f).container = c /\ Row(c, f).rate = f.rate
  BY <1>1 DEF Row, Rows, Format
<1>2. s.container \in STRING
  BY AudioAssumption
<1>3. CASE s.container = "wav"
  BY <1>1, <1>2, <1>3, ProbeType, AudioAssumption DEF Probe, Opened
<1>4. CASE s.container # "wav"
  <2>1. s.fmt \in Format /\ s.raw \in Nat
    BY <1>4, AudioAssumption
  <2>2. [s.fmt EXCEPT !.bits = s.raw] \in Format /\ [s.fmt EXCEPT !.bits = s.raw].rate = s.fmt.rate
    BY <2>1 DEF Format
  <2>3. QED
    BY <1>1, <1>2, <1>4, <2>1, <2>2 DEF Probe, Opened
<1>5. QED
  BY <1>3, <1>4

\* What plan() makes of a row.
LEMMA PlannedType ==
  ASSUME NEW t \in Rows, NEW p \in Profiles, NEW touched \in BOOLEAN
  PROVE  Planned(t, p, touched) \in Changes
<1>1. p \in [container : STRING, rate : Nat, bits : Nat]
  BY AudioAssumption
<1>2. Keep(p.rate, t.rate) \in Nat /\ Keep(p.bits, t.bits) \in Nat
  BY <1>1 DEF Keep, Rows
<1>3. QED
  BY <1>1, <1>2 DEF Planned, Changes, Rows

\* What process() writes.
LEMMA EncodingType ==
  ASSUME NEW p \in Profiles, profile = p, NEW src \in Rows
  PROVE  Encoding(src) \in Format
<1>1. p \in [container : STRING, rate : Nat, bits : Nat]
  BY AudioAssumption
<1>2. Keep(p.rate, src.rate) \in Nat /\ Keep(p.bits, Keep(src.bits, 16)) \in Nat
  BY <1>1 DEF Keep, Rows
<1>3. QED
  BY <1>2 DEF Encoding, Format, Rows

\* A resampled buffer has a number of frames.
LEMMA ResampledType ==
  ASSUME NEW frames \in Nat, NEW from \in Nat, NEW to \in Nat, NEW n \in Resampled(frames, from, to)
  PROVE  n \in Nat
<1>1. CASE frames = 0 \/ from <= 0 \/ from = to
  BY <1>1 DEF Resampled
<1>2. CASE ~(frames = 0 \/ from <= 0 \/ from = to)
  <2>1. frames * to \in Nat /\ from \in Nat \ {0}
    BY <1>2
  <2> DEFINE exact == (frames * to + from - 1) \div from
  <2>2. exact \in Nat
    <3>1. frames * to + from - 1 \in Nat
      BY <2>1
    <3>2. QED
      BY <2>1, <3>1, Quotient
  <2>3. \E k \in {0, 1} : n \in exact .. exact + k
    BY <1>2 DEF Resampled
  <2> HIDE DEF exact
  <2>4. QED
    BY <2>2, <2>3
<1>3. QED
  BY <1>1, <1>2

-----------------------------------------------------------------------------
(* The invariant. *)

\* The row is what the file was when it was imported.
RowInv ==
  pc # "import" =>
    /\ source \in Sources /\ row \in Rows /\ row.container = source.container
    /\ ~stale => row = Probe(source)

PlanInv ==
  pc \in {"process", "decode", "encode"} =>
    \E touched \in BOOLEAN : change = Planned(row, profile, touched)

\* Nothing is written before the end, and a run that is done has written all.
WroteInv ==
  /\ pc \notin {"done", "torn"} => wrote = None
  /\ wrote # None /\ pc = "done" => out.wav.len = Written(wrote.fmt, wrote.frames)

Inv == TypeOK /\ RowInv /\ PlanInv /\ WroteInv

\* The invariant holds before the import.
LEMMA InvInit == Init => Inv
<1> SUFFICES ASSUME Init PROVE Inv
  OBVIOUS
<1>1. Delay \in Nat
  BY AudioAssumption
<1>2. TypeOK
  <2>1. held \in 0 .. Delay /\ pcm \in Nat
    BY <1>1 DEF Init
  <2>2. /\ pc = "import" /\ profile \in Profiles /\ source = None /\ row = None
        /\ change = None /\ stale = FALSE /\ wrote = None
    BY DEF Init
  <2>3. QED
    BY <2>1, <2>2, Zenon DEF TypeOK, Stages
<1>3. RowInv /\ PlanInv /\ WroteInv
  BY DEF Init, RowInv, PlanInv, WroteInv
<1>4. QED
  BY <1>2, <1>3 DEF Inv

\* The output is typed: nothing is written yet, or what was stays.
WroteOK ==
  wrote # None =>
    /\ wrote.fmt \in Format /\ Writable(wrote.fmt) /\ wrote.frames \in Nat
    /\ out = [container |-> "wav", wav |-> WriteWav(wrote.fmt, wrote.frames, out.wav.len)]
    /\ out.wav.len \in 0 .. Written(wrote.fmt, wrote.frames)

\* What encoding makes of a plan, if it writes anything.
LEMMA EncodeEffect ==
  ASSUME Inv, Encode, pc' # "failed"
  PROVE  LET src == Opened(source)
             f   == Encoding(src)
         IN  /\ source \in Sources /\ src \in Rows /\ f \in Format /\ CanEncode(f)
             /\ pc = "encode" /\ profile \in Profiles /\ pcm \in Nat
             /\ change \in Changes /\ pc' \in {"done", "torn"}
             /\ \E n \in Nat : \E len \in 0 .. Written(f, n) :
                  /\ wrote' = [fmt |-> f, frames |-> n]
                  /\ out' = [container |-> "wav", wav |-> WriteWav(f, n, len)]
                  /\ pc' = "done" => len = Written(f, n)
             /\ change' = [change EXCEPT !.rate = IF f.rate # src.rate THEN f.rate ELSE @,
                                         !.bits = f.bits]
             /\ UNCHANGED <<profile, source, row, stale, packets, held, pcm>>
<1> DEFINE src == Opened(source)
           f   == Encoding(src)
<1>1. pc = "encode" /\ source \in Sources /\ row \in Rows /\ pcm \in Nat /\ profile \in Profiles
  BY DEF Inv, RowInv, TypeOK, Encode
<1>2. src \in Rows
  BY <1>1, RowTypes
<1>3. f \in Format
  BY <1>1, <1>2, EncodingType
<1>4. change \in Changes
  <2>1. PICK touched \in BOOLEAN : change = Planned(row, profile, touched)
    BY <1>1 DEF Inv, PlanInv
  <2>2. QED
    BY <1>1, <2>1, PlannedType
<1>5. /\ CanEncode(f)
      /\ \E n \in Resampled(pcm, src.rate, f.rate) :
           \E len \in 0 .. Written(f, n) :
             /\ wrote' = [fmt |-> f, frames |-> n]
             /\ out' = [container |-> "wav", wav |-> WriteWav(f, n, len)]
             /\ pc' = IF len = Written(f, n) THEN "done" ELSE "torn"
      /\ change' = [change EXCEPT !.rate = IF f.rate # src.rate THEN f.rate ELSE @,
                                  !.bits = f.bits]
      /\ UNCHANGED <<profile, source, row, stale, packets, held, pcm>>
  BY DEF Encode, Stop
<1>6. src.rate \in Nat /\ f.rate \in Nat
  BY <1>2, <1>3 DEF Rows, Format
<1>7. Resampled(pcm, src.rate, f.rate) \subseteq Nat
  BY <1>1, <1>6, ResampledType
<1> HIDE DEF src, f
<1>8. pc' \in {"done", "torn"}
  BY <1>5
<1>9. \E n \in Nat : \E len \in 0 .. Written(f, n) :
         /\ wrote' = [fmt |-> f, frames |-> n]
         /\ out' = [container |-> "wav", wav |-> WriteWav(f, n, len)]
         /\ pc' = "done" => len = Written(f, n)
  <2>1. PICK n \in Resampled(pcm, src.rate, f.rate) :
          \E len \in 0 .. Written(f, n) :
             /\ wrote' = [fmt |-> f, frames |-> n]
             /\ out' = [container |-> "wav", wav |-> WriteWav(f, n, len)]
             /\ pc' = IF len = Written(f, n) THEN "done" ELSE "torn"
    BY <1>5
  <2>2. PICK len \in 0 .. Written(f, n) :
             /\ wrote' = [fmt |-> f, frames |-> n]
             /\ out' = [container |-> "wav", wav |-> WriteWav(f, n, len)]
             /\ pc' = IF len = Written(f, n) THEN "done" ELSE "torn"
    BY <2>1
  <2>3. n \in Nat /\ (pc' = "done" => len = Written(f, n))
    BY <1>7, <2>2
  <2>4. QED
    BY <2>2, <2>3
<1>10. QED
  BY <1>1, <1>2, <1>3, <1>4, <1>5, <1>8, <1>9 DEF src, f

\* Every step keeps the invariant.
LEMMA InvStep == Inv /\ [Next]_vars => Inv'
<1> SUFFICES ASSUME Inv, [Next]_vars PROVE Inv'
  OBVIOUS
<1>0. TypeOK /\ RowInv /\ PlanInv /\ WroteInv /\ Delay \in Nat
  BY AudioAssumption DEF Inv
<1>a. /\ pc \in Stages /\ profile \in Profiles /\ source \in Sources \cup {None}
      /\ row \in Rows \cup {None} /\ stale \in BOOLEAN /\ change \in Changes \cup {None}
      /\ held \in 0 .. Delay /\ pcm \in Nat /\ WroteOK
  BY <1>0, Zenon DEF TypeOK, Rows, Changes, WroteOK
<1>b. ASSUME /\ pc' \in Stages /\ profile' \in Profiles /\ source' \in Sources \cup {None}
             /\ row' \in Rows \cup {None} /\ stale' \in BOOLEAN /\ change' \in Changes \cup {None}
             /\ held' \in 0 .. Delay /\ pcm' \in Nat /\ WroteOK'
      PROVE TypeOK'
  BY <1>b, Zenon DEF TypeOK, Rows, Changes, WroteOK
<1>1. ASSUME NEW file \in Sources, Import(file) PROVE Inv'
  <2>1. Probe(file) \in Rows /\ Probe(file).container = file.container
    BY RowTypes
  <2>2. WroteOK' /\ WroteInv'
    BY <1>0, <1>a, <1>1 DEF Import, WroteOK, WroteInv
  <2>3. TypeOK'
    BY <1>a, <1>b, <1>1, <2>1, <2>2 DEF Import, Stages
  <2>4. RowInv' /\ PlanInv'
    BY <1>1, <2>1 DEF Import, RowInv, PlanInv
  <2>5. QED
    BY <2>2, <2>3, <2>4 DEF Inv
<1>2. ASSUME NEW file \in Sources, Replace(file) PROVE Inv'
  <2>1. /\ pc = "row" /\ pc' = pc /\ source' = file /\ stale' = TRUE
        /\ file.container = source.container
        /\ UNCHANGED <<profile, row, change, held, pcm, out, wrote>>
    BY <1>2 DEF Replace
  <2>2. WroteOK' /\ WroteInv'
    BY <1>0, <1>a, <2>1 DEF WroteOK, WroteInv
  <2>3. TypeOK'
    BY <1>a, <1>b, <2>1, <2>2
  <2>4. RowInv' /\ PlanInv'
    BY <1>0, <2>1 DEF RowInv, PlanInv
  <2>5. QED
    BY <2>2, <2>3, <2>4 DEF Inv
<1>3. ASSUME NEW touched \in BOOLEAN, Plan(touched) PROVE Inv'
  <2>1. /\ pc = "row" /\ pc' = "process" /\ change' = Planned(row, profile, touched)
        /\ UNCHANGED <<profile, source, row, stale, held, pcm, out, wrote>>
    BY <1>3 DEF Plan
  <2>2. RowInv' /\ row \in Rows
    BY <1>0, <2>1 DEF RowInv
  <2>3. change' \in Changes
    BY <1>a, <2>1, <2>2, PlannedType
  <2>4. WroteOK' /\ WroteInv'
    BY <1>0, <1>a, <2>1 DEF WroteOK, WroteInv
  <2>5. TypeOK'
    BY <1>a, <1>b, <2>1, <2>3, <2>4 DEF Stages
  <2>6. PlanInv'
    BY <2>1 DEF PlanInv
  <2>7. QED
    BY <2>2, <2>4, <2>5, <2>6 DEF Inv
<1>4. CASE Copy
  <2>1. /\ pc = "process" /\ pc' = "done" /\ wrote = None
        /\ UNCHANGED <<profile, source, row, stale, change, held, pcm, wrote>>
    BY <1>0, <1>4 DEF Copy, WroteInv
  <2>2. WroteOK' /\ WroteInv'
    BY <2>1 DEF WroteOK, WroteInv
  <2>3. TypeOK'
    BY <1>a, <1>b, <2>1, <2>2 DEF Stages
  <2>4. RowInv' /\ PlanInv'
    BY <1>0, <2>1 DEF RowInv, PlanInv
  <2>5. QED
    BY <2>2, <2>3, <2>4 DEF Inv
<1>5. ASSUME pc \in {"process", "decode", "encode"},
             pc' \in {"decode", "encode", "failed"}, held' \in 0 .. Delay, pcm' \in Nat,
             UNCHANGED <<profile, source, row, stale, change, out, wrote>>
      PROVE Inv'
  <2>1. WroteOK' /\ WroteInv'
    BY <1>0, <1>a, <1>5 DEF WroteOK, WroteInv
  <2>2. TypeOK'
    BY <1>a, <1>b, <1>5, <2>1 DEF Stages
  <2>3. RowInv' /\ PlanInv'
    BY <1>0, <1>5 DEF RowInv, PlanInv
  <2>4. QED
    BY <2>1, <2>2, <2>3 DEF Inv
<1>6. CASE DecodeWav
  <2>1. CASE Stop
    BY <1>5, <1>6, <1>a, <2>1 DEF DecodeWav, Stop
  <2>2. CASE ReadWav(source.wav).ok /\ pcm' = ReadWav(source.wav).frames /\ pc' = "encode"
             /\ UNCHANGED <<profile, source, row, stale, change, packets, held, out, wrote>>
    <3>1. pc = "process" /\ source.container = "wav"
      BY <1>6 DEF DecodeWav
    <3>2. IsWav(source.wav)
      BY <1>0, <3>1, AudioAssumption DEF RowInv
    <3>3. pcm' \in Nat
      BY <2>2, <3>2, ReadType
    <3>4. QED
      BY <1>5, <1>a, <2>2, <3>1, <3>3
  <2>3. QED
    BY <1>6, <2>1, <2>2 DEF DecodeWav
<1>7. CASE OpenOther
  BY <1>5, <1>7, <1>a DEF OpenOther
<1>8. CASE DecodePacket
  <2>1. /\ pc = "decode" /\ pc' = pc
        /\ UNCHANGED <<profile, source, row, stale, change, out, wrote>>
    BY <1>8 DEF DecodePacket
  <2>2. CASE UNCHANGED <<held, pcm>>
    BY <1>5, <1>a, <2>1, <2>2
  <2>3. CASE \E h \in 0 .. Min2(Delay, held + 1) : held' = h /\ pcm' = pcm + (held + 1 - h)
    <3>1. PICK h \in 0 .. Min2(Delay, held + 1) : held' = h /\ pcm' = pcm + (held + 1 - h)
      BY <2>3
    <3>2. h \in 0 .. Delay /\ h <= held + 1 /\ held \in Nat
      BY <1>0, <1>a, <3>1 DEF Min2
    <3>3. held' \in 0 .. Delay /\ pcm' \in Nat
      BY <1>a, <3>1, <3>2
    <3>4. QED
      BY <1>5, <2>1, <3>3
  <2>4. QED
    BY <1>8, <2>2, <2>3 DEF DecodePacket
<1>9. CASE Flush
  <2>1. /\ pc = "decode" /\ pc' = "encode" /\ held' = 0 /\ pcm' = pcm + held
        /\ UNCHANGED <<profile, source, row, stale, change, out, wrote>>
    BY <1>9 DEF Flush
  <2>2. held' \in 0 .. Delay /\ pcm' \in Nat
    BY <1>0, <1>a, <2>1
  <2>3. QED
    BY <1>5, <2>1, <2>2
<1>10. CASE Encode
  <2>1. CASE pc' = "failed"
    <3>1. Stop
      BY <1>10, <2>1 DEF Encode
    <3>2. QED
      BY <1>5, <1>10, <1>a, <3>1 DEF Encode, Stop
  <2>2. CASE pc' # "failed"
    <3> DEFINE src == Opened(source)
               f   == Encoding(src)
    <3>1. /\ src \in Rows /\ f \in Format /\ CanEncode(f) /\ pc = "encode"
          /\ change \in Changes /\ pc' \in {"done", "torn"}
          /\ change' = [change EXCEPT !.rate = IF f.rate # src.rate THEN f.rate ELSE @,
                                      !.bits = f.bits]
          /\ UNCHANGED <<profile, source, row, stale, held, pcm>>
      BY <1>10, <2>2, EncodeEffect
    <3>a. PICK n \in Nat : \E len \in 0 .. Written(f, n) :
                  /\ wrote' = [fmt |-> f, frames |-> n]
                  /\ out' = [container |-> "wav", wav |-> WriteWav(f, n, len)]
                  /\ pc' = "done" => len = Written(f, n)
      BY <1>10, <2>2, EncodeEffect
    <3>2. PICK len \in 0 .. Written(f, n) :
                  /\ wrote' = [fmt |-> f, frames |-> n]
                  /\ out' = [container |-> "wav", wav |-> WriteWav(f, n, len)]
                  /\ pc' = "done" => len = Written(f, n)
      BY <3>a
    <3>3. Writable(f)
      BY <3>1 DEF CanEncode
    <3> HIDE DEF src, f
    <3>4. out'.wav.len = len
      BY <3>2 DEF WriteWav
    <3>5. WroteOK' /\ WroteInv'
      BY <3>1, <3>2, <3>3, <3>4 DEF WroteOK, WroteInv
    <3>6. change' \in Changes
      BY <3>1 DEF Changes, Format
    <3>7. TypeOK'
      BY <1>a, <1>b, <3>1, <3>5, <3>6 DEF Stages
    <3>8. RowInv' /\ PlanInv'
      BY <1>0, <3>1 DEF RowInv, PlanInv
    <3>9. QED
      BY <3>5, <3>7, <3>8 DEF Inv
  <2>3. QED
    BY <2>1, <2>2
<1>11. CASE UNCHANGED vars
  <2>1. WroteOK' /\ WroteInv'
    BY <1>0, <1>a, <1>11 DEF vars, WroteOK, WroteInv
  <2>2. TypeOK'
    BY <1>a, <1>b, <1>11, <2>1 DEF vars
  <2>3. RowInv' /\ PlanInv'
    BY <1>0, <1>11 DEF vars, RowInv, PlanInv
  <2>4. QED
    BY <2>1, <2>2, <2>3 DEF Inv
<1>12. QED
  BY <1>1, <1>2, <1>3, <1>4, <1>6, <1>7, <1>8, <1>9, <1>10, <1>11 DEF Next

\* Every reachable state satisfies the invariant.
LEMMA Invariance == Spec => []Inv
BY InvInit, InvStep, PTL DEF Spec

-----------------------------------------------------------------------------
\* Stages, formats, buffers and the output keep their types.
THEOREM TypeCorrect == Spec => []TypeOK
<1>1. Inv => TypeOK
  BY DEF Inv
<1>2. QED
  BY Invariance, <1>1, PTL

\* Of what writeWav left behind, wherever it was stopped, no frame is read that was
\* not written, and up to the size the header's word can say, every whole frame is.
THEOREM OutputsReadBack == Spec => []OutputReadsBack
<1>1. Inv => OutputReadsBack
  <2> SUFFICES ASSUME Inv, wrote # None PROVE OutputReadsBack
    BY DEF OutputReadsBack
  <2> DEFINE f == wrote.fmt
             n == wrote.frames
             len == out.wav.len
  <2>1. /\ f \in Format /\ Writable(f) /\ n \in Nat /\ len \in 0 .. Written(f, n)
        /\ out = [container |-> "wav", wav |-> WriteWav(f, n, len)]
        /\ pc = "done" => len = Written(f, n)
    BY Zenon DEF Inv, TypeOK, WroteInv
  <2>2. out.wav = WriteWav(f, n, len)
    BY <2>1
  <2> HIDE DEF f, n, len
  <2>3. /\ ReadWav(out.wav).ok => ReadWav(out.wav).fmt = f /\ ReadWav(out.wav).frames <= n
        /\ n * FrameBytes(f) < Word =>
             /\ ReadWav(out.wav).ok <=> out.wav.len >= SmallestFile
             /\ ReadWav(out.wav).ok =>
                  ReadWav(out.wav).frames = (out.wav.len - SmallestFile) \div FrameBytes(f)
    BY <2>1, <2>2, WrittenReads
  <2>4. pc = "done" /\ n * FrameBytes(f) < Word => ProbeWav(out.wav).frames = n
    BY <2>1, <2>2, WrittenProbes
  <2>5. QED
    BY <2>3, <2>4 DEF OutputReadsBack, Fits, f, n
<1>2. QED
  BY Invariance, <1>1, PTL

-----------------------------------------------------------------------------
(* What is reported. *)

\* What decoders give: samples of some width, and floats of 32 bits.
Ordinary ==
  \A s \in Sources : Opened(s).bits > 0 /\ (Opened(s).float => Opened(s).bits = 32)

\* A copy conforms, and is what the library has of the source.
LEMMA CopyReports ==
  ASSUME Inv, Copy
  PROVE  ReportedOutputConforms'
<1>1. /\ pc = "process" /\ change.passthrough /\ out' = source
      /\ UNCHANGED <<profile, source, row, stale, change>>
  BY DEF Copy
<1>2. CASE stale
  BY <1>1, <1>2 DEF ReportedOutputConforms
<1>3. CASE ~stale
  <2>1. row \in Rows /\ row = Probe(source) /\ profile \in Profiles
    BY <1>1, <1>3 DEF Inv, RowInv, TypeOK
  <2>2. PICK touched \in BOOLEAN : change = Planned(row, profile, touched)
    BY <1>1 DEF Inv, PlanInv
  <2>3. Probe(out)' = row /\ Opened(source)' = Opened(source)
    BY <1>1, <2>1 DEF Probe, Opened
  <2>4. /\ change.container = row.container
        /\ change.rate = row.rate /\ change.rate = Keep(profile.rate, row.rate)
        /\ change.bits = row.bits /\ change.bits = Keep(profile.bits, row.bits)
        /\ Planned(row, profile, FALSE).passthrough
    BY <1>1, <2>2 DEF Planned
  <2>5. QED
    BY <1>1, <2>3, <2>4 DEF ReportedOutputConforms
<1>4. QED
  BY <1>2, <1>3 DEF Inv, TypeOK

\* What is encoded is what the profile says, or else what the file has.
LEMMA EncodeReports ==
  ASSUME Ordinary, Inv, Encode, pc' = "done"
  PROVE  ReportedOutputConforms'
<1> DEFINE src == Opened(source)
           f   == Encoding(src)
<1>1. /\ source \in Sources /\ src \in Rows /\ f \in Format /\ CanEncode(f)
      /\ pc = "encode" /\ profile \in Profiles /\ change \in Changes
      /\ change' = [change EXCEPT !.rate = IF f.rate # src.rate THEN f.rate ELSE @,
                                  !.bits = f.bits]
      /\ UNCHANGED <<profile, source, row, stale>>
  BY EncodeEffect
<1>2. PICK n \in Nat : \E len \in 0 .. Written(f, n) :
          /\ wrote' = [fmt |-> f, frames |-> n]
          /\ out' = [container |-> "wav", wav |-> WriteWav(f, n, len)]
          /\ pc' = "done" => len = Written(f, n)
  BY EncodeEffect
<1>3. out' = [container |-> "wav", wav |-> WriteWav(f, n, Written(f, n))]
  BY <1>2
<1>4. Writable(f) /\ change.container = "wav"
  BY <1>1 DEF CanEncode
<1>5. profile \in [container : STRING, rate : Nat, bits : Nat]
  BY <1>1, AudioAssumption
<1>6. src.bits > 0 /\ (src.float => src.bits = 32) /\ src.bits \in Nat /\ src.rate \in Nat
  BY <1>1 DEF Ordinary, Rows
<1>7. f.rate = Keep(profile.rate, src.rate) /\ f.bits = Keep(profile.bits, src.bits)
  BY <1>5, <1>6 DEF Encoding, Keep
<1>8. PICK touched \in BOOLEAN : change = Planned(row, profile, touched)
  BY <1>1 DEF Inv, PlanInv
<1>9. /\ profile.container = "" \/ profile.container = "wav"
      /\ change.rate = Keep(profile.rate, row.rate)
      /\ row \in Rows
  BY <1>1, <1>4, <1>8 DEF Planned, Inv, RowInv
<1> HIDE DEF f
<1>10. Probe(out') = Row("wav", f)
  BY <1>1, <1>3, <1>4, WrittenProbes DEF Probe
<1>11. /\ Row("wav", f).container = "wav" /\ Row("wav", f).rate = f.rate
       /\ Row("wav", f).bits = f.bits
  BY DEF Row
<1>12. /\ change'.container = "wav" /\ change'.bits = f.bits
       /\ change'.rate = IF f.rate # src.rate THEN f.rate ELSE change.rate
  <2> HIDE DEF src
  <2>1. QED
    BY <1>1, <1>4 DEF Changes
<1>13. Planned(Row("wav", f), profile, FALSE).passthrough
  BY <1>5, <1>6, <1>7, <1>9, <1>11 DEF Planned, Keep
<1>14. ~stale => row.rate = src.rate
  BY <1>1, RowTypes DEF Inv, RowInv
<1>15. stale => stale' /\ profile' = profile
  BY <1>1
<1>16. ASSUME stale => profile.rate > 0
       PROVE change'.rate = f.rate /\ (~stale => f.rate = Keep(profile.rate, row.rate))
  BY <1>5, <1>7, <1>9, <1>12, <1>14, <1>16 DEF Keep, Inv, TypeOK
<1>17. Opened(source)' = src
  BY <1>1 DEF Opened, Probe
<1> HIDE DEF src
<1>18. QED
  BY <1>1, <1>7, <1>10, <1>11, <1>12, <1>13, <1>16, <1>17 DEF ReportedOutputConforms

\* The report of process(), which the audit log keeps, is what an import of the
\* output finds, and a second run for the same profile would only copy it.
THEOREM ReportsAreTrue ==
  ASSUME Ordinary
  PROVE  Spec => []ReportedOutputConforms
<1>1. Init => ReportedOutputConforms
  BY DEF Init, ReportedOutputConforms
<1>2. Inv /\ ReportedOutputConforms /\ [Next]_vars => ReportedOutputConforms'
  <2> SUFFICES ASSUME Inv, ReportedOutputConforms, [Next]_vars
               PROVE  ReportedOutputConforms'
    OBVIOUS
  <2>1. CASE Copy
    BY <2>1, CopyReports
  <2>2. CASE Encode
    <3>1. CASE pc' = "done"
      BY <2>2, <3>1, EncodeReports
    <3>2. CASE pc' # "done"
      BY <3>2 DEF ReportedOutputConforms
    <3>3. QED
      BY <3>1, <3>2
  <2>3. CASE UNCHANGED vars
    BY <2>3 DEF vars, ReportedOutputConforms, Probe, Opened, Planned
  <2>4. ASSUME \/ \E file \in Sources : Import(file) \/ Replace(file)
               \/ \E touched \in BOOLEAN : Plan(touched)
               \/ DecodeWav \/ OpenOther \/ DecodePacket \/ Flush
        PROVE pc' # "done"
    BY <2>4 DEF Import, Replace, Plan, DecodeWav, Stop, OpenOther, DecodePacket, Flush
  <2>5. QED
    BY <2>1, <2>2, <2>3, <2>4 DEF Next, ReportedOutputConforms
<1>3. QED
  BY <1>1, <1>2, Invariance, PTL DEF Spec

-----------------------------------------------------------------------------
(* Every frame. *)

Chunks == [id : STRING, at : Nat, size : Nat, fmt : Format]

\* Chunks that lie end to end do not overlap.
LEMMA ChunksApart ==
  ASSUME NEW c \in Seq(Chunks),
         \A i \in 1 .. Len(c) - 1 : c[i + 1].at = c[i].at + ChunkHeader + Padded(c[i].size)
  PROVE  \A k, j \in 1 .. Len(c) : k < j => c[j].at >= c[k].at + ChunkHeader + c[k].size
<1> USE DEF ChunkHeader
<1>1. Len(c) \in Nat /\ \A i \in 1 .. Len(c) : c[i] \in Chunks
  OBVIOUS
<1>2. \A i \in 1 .. Len(c) : c[i].at \in Nat /\ c[i].size \in Nat
  BY <1>1 DEF Chunks
<1>3. \A i \in 1 .. Len(c) : Padded(c[i].size) \in Nat /\ Padded(c[i].size) >= c[i].size
  <2> TAKE i \in 1 .. Len(c)
  <2>1. c[i].size % 2 \in 0 .. 1
    BY <1>2
  <2> QED BY <1>2, <2>1 DEF Padded
<1> DEFINE T == {j \in Nat : j <= Len(c) =>
                   \A k \in 1 .. Len(c) : k < j => c[j].at >= c[k].at + 8 + c[k].size}
<1>4. 0 \in T
  OBVIOUS
<1>5. ASSUME NEW j \in Nat, j \in T
      PROVE  j + 1 \in T
  <2> SUFFICES ASSUME j + 1 <= Len(c), NEW k \in 1 .. Len(c), k < j + 1
               PROVE  c[j + 1].at >= c[k].at + 8 + c[k].size
    OBVIOUS
  <2>1. j \in 1 .. Len(c) /\ j \in 1 .. Len(c) - 1 /\ j + 1 \in 1 .. Len(c)
    BY <1>1
  <2>2. c[j + 1].at = c[j].at + 8 + Padded(c[j].size)
    BY <2>1
  <2>3. CASE k = j
    BY <1>2, <1>3, <2>1, <2>2, <2>3
  <2>4. CASE k < j
    <3>1. c[j].at >= c[k].at + 8 + c[k].size
      BY <1>5, <2>1, <2>4
    <3>2. Padded(c[j].size) \in Nat /\ c[j].at \in Nat /\ c[k].at \in Nat /\ c[k].size \in Nat
      BY <1>2, <1>3, <2>1
    <3> DEFINE x == c[j].at
               y == c[k].at
               p == Padded(c[j].size)
               q == c[k].size
    <3>3. c[j + 1].at = x + 8 + p /\ x >= y + 8 + q /\ x \in Nat /\ y \in Nat /\ p \in Nat /\ q \in Nat
      BY <2>2, <3>1, <3>2
    <3> HIDE DEF x, y, p, q
    <3>4. x + 8 + p >= y + 8 + q
      BY <3>3
    <3>5. c[j + 1].at >= y + 8 + q
      BY <3>3, <3>4
    <3> QED BY <3>5 DEF y, q
  <2> QED BY <2>1, <2>3, <2>4
<1> HIDE DEF T
<1>6. \A j \in Nat : j \in T
  BY <1>4, <1>5, Induction
<1>7. ASSUME NEW k \in 1 .. Len(c), NEW j \in 1 .. Len(c), k < j
      PROVE  c[j].at >= c[k].at + 8 + c[k].size
  <2>1. j \in Nat /\ j <= Len(c)
    BY <1>1
  <2> QED BY <1>6, <1>7, <2>1 DEF T
<1> QED BY <1>7

\* Of a file of n frames, wherever its chunks lie and whatever they announce, n are
\* read, unless their depth is one that nothing reads.
LEMMA HoldsReads ==
  ASSUME NEW file, IsWav(file), NEW n \in Nat, Holds(file, n)
  PROVE  /\ ReadWav(file).ok => ReadWav(file).frames = n
         /\ ProbeWav(file).fmt.bits \in Depths => ReadWav(file).ok
<1> USE DEF RiffHeader, ChunkHeader, FmtBytes, SmallestFile
<1> DEFINE c == file.chunks
           size(f) == FrameBytes(c[f].fmt)
           body(d) == file.len - (c[d].at + ChunkHeader)
<1>1. PICK fmt \in DOMAIN c, data \in DOMAIN c :
        /\ \A i \in DOMAIN c : (c[i].id = "fmt" <=> i = fmt) /\ (c[i].id = "data" <=> i = data)
        /\ c[fmt].size >= FmtBytes /\ c[fmt].at + ChunkHeader + FmtBytes <= file.len
        /\ c[fmt].fmt.channels > 0 /\ c[fmt].fmt.bits >= 8
        /\ n * size(fmt) <= c[data].size /\ n * size(fmt) <= body(data)
        /\ c[data].size < (n + 1) * size(fmt) \/ body(data) < (n + 1) * size(fmt)
  BY DEF Holds
<1> DEFINE f == c[fmt].fmt
           b == size(fmt)
           rest == body(data)
<1>2. /\ c \in Seq(Chunks) /\ file.len \in Nat /\ c # <<>> /\ c[1].at = 12
      /\ \A i \in 1 .. Len(c) - 1 : c[i + 1].at = c[i].at + ChunkHeader + Padded(c[i].size)
  BY DEF Holds, IsWav, Chunks
<1>3. DOMAIN c = 1 .. Len(c) /\ Len(c) \in Nat /\ \A i \in DOMAIN c : c[i] \in Chunks
  <2> HIDE DEF c
  <2> QED BY <1>2
<1>4. \A i \in DOMAIN c : c[i].at \in Nat /\ c[i].size \in Nat /\ c[i].fmt \in Format
  <2> HIDE DEF c
  <2> QED BY <1>3 DEF Chunks
<1>5. \A k, j \in DOMAIN c : k < j => c[j].at >= c[k].at + 8 + c[k].size
  <2> HIDE DEF c
  <2> QED BY <1>2, <1>3, ChunksApart
<1>6. f.channels \in Nat \ {0} /\ f.bits \in Nat /\ f.bits >= 8 /\ b \in Nat \ {0}
  <2>1. f \in Format
    BY <1>4
  <2>2. f.channels \in Nat \ {0} /\ f.bits \in Nat /\ f.bits >= 8
    BY <1>1, <2>1 DEF Format
  <2>3. f.bits \div 8 \in Nat \ {0}
    BY <2>2
  <2>4. \A x, y \in Nat \ {0} : x * y \in Nat \ {0}
    OBVIOUS
  <2> QED BY <2>2, <2>3, <2>4 DEF FrameBytes
<1>7. n * b \in Nat /\ rest \in Nat /\ n * b <= rest
  <2>1. n * b <= rest /\ rest \in Int
    BY <1>1, <1>2, <1>4
  <2> HIDE DEF b, rest
  <2>2. n * b \in Nat
    BY <1>6
  <2> QED BY <2>1, <2>2
<1>8. \A i \in DOMAIN c : c[i].at + 8 <= file.len => i \in Met(file)
  <2>1. ASSUME NEW i \in DOMAIN c, NEW k \in 1 .. i - 1
        PROVE  Step(c[k]) = c[k + 1].at
    <3>1. k \in 1 .. Len(c) - 1
      BY <1>3
    <3> QED BY <1>2, <3>1 DEF Step
  <2> HIDE DEF c
  <2> QED BY <1>2, <2>1 DEF Met, c
<1>9. fmt \in Met(file) /\ data \in Met(file) /\ Met(file) \subseteq DOMAIN c
  <2>1. c[fmt].at + 8 <= file.len
    BY <1>1, <1>2, <1>4
  <2>2. c[data].at + 8 <= file.len
    BY <1>2, <1>4, <1>7
  <2> QED BY <1>8, <2>1, <2>2 DEF Met
<1>10. file.len >= 44
  <2>1. fmt # data
    BY <1>1
  <2>2. c[fmt].at >= 12 /\ c[data].at >= 12
    <3>1. ASSUME NEW i \in DOMAIN c
          PROVE  c[i].at >= 12
      <4>1. 1 \in DOMAIN c /\ (i = 1 \/ 1 < i)
        BY <1>2, <1>3
      <4> HIDE DEF c
      <4> QED BY <1>2, <1>4, <1>5, <4>1
    <3> QED BY <3>1
  <2> DEFINE x == c[fmt].at
             y == c[data].at
             v == c[fmt].size
             w == c[data].size
             l == file.len
  <2>0. x \in Nat /\ y \in Nat /\ v \in Nat /\ w \in Nat /\ l \in Nat
    BY <1>2, <1>4
  <2>3. y + 8 <= l /\ x + 24 <= l /\ v >= 16
    <3>1. v >= 16
      BY <1>1
    <3>2. x + 8 + 16 <= l
      BY <1>1
    <3>3. l - (y + 8) >= 0
      BY <1>7
    <3> HIDE DEF x, y, v, w, l
    <3> QED BY <2>0, <3>1, <3>2, <3>3
  <2>4. fmt \in Nat /\ data \in Nat
    BY <1>3
  <2>5. CASE fmt < data
    <3>1. y >= x + 8 + v /\ x >= 12
      BY <1>5, <2>2, <2>5
    <3> HIDE DEF x, y, v, w, l
    <3>2. l >= 44
      BY <2>0, <2>3, <3>1
    <3> QED BY <3>2 DEF l
  <2>6. CASE data < fmt
    <3>1. x >= y + 8 + w /\ y >= 12
      BY <1>5, <2>2, <2>6
    <3> HIDE DEF x, y, v, w, l
    <3>2. l >= 44
      BY <2>0, <2>3, <3>1
    <3> QED BY <3>2 DEF l
  <2> QED BY <2>1, <2>4, <2>5, <2>6
<1>11. There(file, fmt) >= 16 /\ Body(file, fmt) \in Nat /\ Body(file, fmt) >= 16
  <2>1. Body(file, fmt) \in Nat /\ Body(file, fmt) >= 16 /\ c[fmt].size >= 16
    <3> DEFINE x == c[fmt].at
               l == file.len
    <3>1. x \in Nat /\ l \in Nat /\ x + 8 + 16 <= l /\ c[fmt].size >= 16
      BY <1>1, <1>2, <1>4
    <3>2. Body(file, fmt) = l - (x + 8)
      BY DEF Body
    <3> HIDE DEF x, l
    <3>3. l - (x + 8) \in Nat /\ l - (x + 8) >= 16
      BY <3>1
    <3> QED BY <3>1, <3>2, <3>3
  <2> QED BY <1>4, <2>1 DEF There, Min2
<1>12. FmtsRead(file) = {fmt} /\ FmtsProbed(file) = {fmt} /\ DataMet(file) = {data}
  BY <1>1, <1>9, <1>11 DEF FmtsRead, FmtsProbed, DataMet
<1>13. Max(FmtsRead(file)) = fmt /\ Max(FmtsProbed(file)) = fmt /\ Max(DataMet(file)) = data
  <2>1. fmt \in Int /\ data \in Int
    BY <1>3
  <2> QED BY <1>12, <2>1, MaxOfOne
<1>14. There(file, data) \div b = n
  <2> DEFINE t == There(file, data)
  <2>1. t = Min2(c[data].size, rest)
    BY DEF There, Body
  <2>2. c[data].size \in Nat /\ n * b <= c[data].size
        /\ (c[data].size < (n + 1) * b \/ rest < (n + 1) * b)
    BY <1>1, <1>4
  <2> HIDE DEF t, b, rest, c
  <2>3. (n + 1) * b = n * b + b
    BY <1>6
  <2>4. t \in Nat /\ n * b <= t /\ t < n * b + b
    BY <1>6, <1>7, <2>1, <2>2, <2>3 DEF Min2
  <2>5. t = n * b + (t - n * b) /\ t - n * b \in 0 .. b - 1
    <3> DEFINE p == n * b
    <3>1. p \in Nat /\ p <= t /\ t < p + b
      BY <1>7, <2>4
    <3> HIDE DEF p
    <3>2. t = p + (t - p) /\ t - p \in 0 .. b - 1
      BY <1>6, <2>4, <3>1
    <3> QED BY <3>2 DEF p
  <2>6. t \div b = n
    BY <1>6, <2>4, <2>5, EuclidUnique
  <2> QED BY <2>6 DEF t
<1>15. ReadWav(file) = IF n = 0 \/ f.bits \in Depths
                       THEN [ok |-> TRUE, fmt |-> f, frames |-> n] ELSE Failed
  <2>1. FmtsRead(file) # {} /\ DataMet(file) # {} /\ f.channels > 0
    BY <1>6, <1>12
  <2> QED BY <1>6, <1>10, <1>13, <1>14, <2>1 DEF ReadWav
<1>16. ProbeWav(file).fmt.bits = f.bits
  <2>1. FmtsProbed(file) # {}
    BY <1>12
  <2>2. ProbeWav(file).fmt = FmtCut(f, Body(file, fmt))
    BY <1>13, <2>1 DEF ProbeWav
  <2>3. FmtCut(f, Body(file, fmt)).bits = f.bits
    BY <1>11 DEF FmtCut
  <2> QED BY <2>2, <2>3
<1> HIDE DEF f
<1> QED BY <1>15, <1>16 DEF Failed

\* A packet taken from the front.
LEMMA AudioTail ==
  ASSUME NEW ps \in Seq(STRING), ps # <<>>
  PROVE  /\ Tail(ps) \in Seq(STRING) /\ Audio(Tail(ps)) \in Nat
         /\ Audio(ps) = Audio(Tail(ps)) + (IF Head(ps) = "audio" THEN 1 ELSE 0)
<1> DEFINE A == {i \in DOMAIN ps : ps[i] = "audio"}
           t == Tail(ps)
           B == {i \in DOMAIN t : t[i] = "audio"}
           C == A \ {1}
           g == [i \in B |-> i + 1]
<1>1. /\ Len(ps) \in Nat \ {0} /\ DOMAIN ps = 1 .. Len(ps) /\ Head(ps) = ps[1]
      /\ t \in Seq(STRING) /\ Len(t) = Len(ps) - 1 /\ DOMAIN t = 1 .. Len(ps) - 1
      /\ \A i \in 1 .. Len(ps) - 1 : t[i] = ps[i + 1]
  <2>1. t \in Seq(STRING) /\ Len(t) = Len(ps) - 1 /\ \A i \in 1 .. Len(t) : t[i] = ps[i + 1]
    BY HeadTailProperties
  <2> HIDE DEF t
  <2>2. Len(ps) \in Nat \ {0} /\ DOMAIN ps = 1 .. Len(ps) /\ Head(ps) = ps[1]
    BY EmptySeq
  <2>3. DOMAIN t = 1 .. Len(t)
    BY <2>1
  <2> QED BY <2>1, <2>2, <2>3
<1> HIDE DEF t
<1>2. IsFiniteSet(A) /\ IsFiniteSet(B)
  <2>1. A \in SUBSET (1 .. Len(ps)) /\ B \in SUBSET (1 .. Len(ps) - 1)
    BY <1>1
  <2>2. IsFiniteSet(1 .. Len(ps)) /\ IsFiniteSet(1 .. Len(ps) - 1)
    BY <1>1, FS_Interval
  <2> QED BY <2>1, <2>2, FS_Subset
<1>3. g \in Bijection(B, C)
  <2>1. ASSUME NEW i \in B
        PROVE  i + 1 \in C
    BY <1>1
  <2>2. ASSUME NEW j \in C
        PROVE  j - 1 \in B /\ j = (j - 1) + 1
    <3>1. j \in 2 .. Len(ps) /\ ps[j] = "audio"
      BY <1>1
    <3>2. j - 1 \in 1 .. Len(ps) - 1 /\ (j - 1) + 1 = j
      BY <1>1, <3>1
    <3> QED BY <1>1, <3>1, <3>2
  <2>3. \A i, j \in B : i + 1 = j + 1 => i = j
    BY <1>1
  <2> HIDE DEF B, C
  <2>4. g \in [B -> C]
    BY <2>1
  <2>5. g \in Injection(B, C)
    BY <2>3, <2>4 DEF Injection, IsInjective
  <2>6. g \in Surjection(B, C)
    BY <2>2, <2>4 DEF Surjection
  <2> QED BY <2>5, <2>6 DEF Bijection
<1>4. Cardinality(C) = Cardinality(B) /\ Cardinality(B) \in Nat
  <2>1. ExistsBijection(B, C)
    BY <1>3 DEF ExistsBijection
  <2> HIDE DEF B, C
  <2> QED BY <1>2, <2>1, FS_Bijection, FS_CardinalityType
<1>5. Audio(ps) = Cardinality(A) /\ Audio(Tail(ps)) = Cardinality(B)
  BY DEF Audio, t
<1>6. CASE Head(ps) = "audio"
  <2>1. 1 \in A
    BY <1>1, <1>6
  <2> HIDE DEF A, B
  <2>2. Cardinality(C) = Cardinality(A) - 1 /\ Cardinality(A) \in Nat
    BY <1>2, <2>1, FS_RemoveElement, FS_CardinalityType
  <2> QED BY <1>1, <1>4, <1>5, <1>6, <2>2 DEF t
<1>7. CASE Head(ps) # "audio"
  <2>1. C = A
    BY <1>1, <1>7
  <2> HIDE DEF A, B, C
  <2> QED BY <1>1, <1>4, <1>5, <1>7, <2>1 DEF t
<1> QED BY <1>6, <1>7

\* What the decoder has of a file: what it gave and what it holds back.
FrameInv ==
  /\ pc \in {"import", "row", "process"} => pcm = 0 /\ held = 0
  /\ pc = "decode" =>
       /\ source.container # "wav" /\ packets \in Seq(STRING)
       /\ pcm + held + Audio(packets) = Audio(source.packets)
  /\ pc = "encode" =>
       pcm = IF source.container = "wav" THEN source.frames ELSE Audio(source.packets)

LEMMA FrameStep == Inv /\ FrameInv /\ [Next]_vars => FrameInv'
<1> SUFFICES ASSUME Inv, FrameInv, [Next]_vars PROVE FrameInv'
  OBVIOUS
<1>0. held \in Nat /\ pcm \in Nat /\ (pc # "import" => source \in Sources)
  <2>1. held \in 0 .. Delay /\ pcm \in Nat
    BY DEF Inv, TypeOK
  <2> QED BY <2>1, AudioAssumption DEF Inv, RowInv
<1>1. ASSUME NEW file \in Sources, Import(file) \/ Replace(file) PROVE FrameInv'
  BY <1>1 DEF Import, Replace, FrameInv
<1>2. ASSUME NEW touched \in BOOLEAN, Plan(touched) PROVE FrameInv'
  BY <1>2 DEF Plan, FrameInv
<1>3. CASE Copy
  BY <1>3 DEF Copy, FrameInv
<1>4. CASE DecodeWav
  <2>1. CASE Stop
    BY <2>1 DEF Stop, FrameInv
  <2>2. CASE ~Stop
    <3>1. /\ pc = "process" /\ source.container = "wav" /\ ReadWav(source.wav).ok
          /\ pcm' = ReadWav(source.wav).frames /\ pc' = "encode" /\ source' = source
      BY <1>4, <2>2 DEF DecodeWav
    <3>2. /\ IsWav(source.wav) /\ source.frames \in Nat /\ Holds(source.wav, source.frames)
      BY <1>0, <3>1, AudioAssumption, FramesAssumption
    <3>3. pcm' = source.frames
      BY <3>1, <3>2, HoldsReads
    <3> QED BY <3>1, <3>3 DEF FrameInv
  <2> QED BY <2>1, <2>2
<1>5. CASE OpenOther
  <2>1. /\ pc = "process" /\ pc' = "decode" /\ source.container # "wav"
        /\ packets' = source.packets /\ UNCHANGED <<source, pcm, held>>
    BY <1>5 DEF OpenOther
  <2>2. pcm = 0 /\ held = 0 /\ source.packets \in Seq(STRING)
    BY <1>0, <2>1, AudioAssumption DEF FrameInv
  <2>3. Audio(source.packets) \in Nat
    <3>1. DOMAIN source.packets = 1 .. Len(source.packets) /\ Len(source.packets) \in Nat
      BY <2>2
    <3>2. IsFiniteSet(1 .. Len(source.packets))
      BY <3>1, FS_Interval
    <3>3. {i \in DOMAIN source.packets : source.packets[i] = "audio"}
            \in SUBSET (1 .. Len(source.packets))
      BY <3>1
    <3> QED BY <3>2, <3>3, FS_Subset, FS_CardinalityType DEF Audio
  <2>4. pcm' + held' + Audio(packets') = Audio(source'.packets)
    <3>1. pcm' = 0 /\ held' = 0 /\ packets' = source.packets /\ source' = source
      BY <2>1, <2>2
    <3>2. 0 + 0 + Audio(source.packets) = Audio(source.packets)
      BY <2>3
    <3> QED BY <3>1, <3>2
  <2> QED BY <2>1, <2>2, <2>4 DEF FrameInv
<1>6. CASE DecodePacket
  <2>1. /\ pc = "decode" /\ pc' = "decode" /\ packets # <<>> /\ packets' = Tail(packets)
        /\ source' = source
    BY <1>6 DEF DecodePacket
  <2>2. /\ source.container # "wav" /\ packets \in Seq(STRING)
        /\ pcm + held + Audio(packets) = Audio(source.packets)
    BY <2>1 DEF FrameInv
  <2>3. /\ packets' \in Seq(STRING) /\ Audio(packets') \in Nat
        /\ Audio(packets) = Audio(packets') + (IF Head(packets) = "audio" THEN 1 ELSE 0)
    BY <2>1, <2>2, AudioTail
  <2>4. pcm' + held' + Audio(packets') = pcm + held + Audio(packets)
    <3>1. CASE Head(packets) = "audio"
      <4>1. PICK h \in 0 .. Min2(Delay, held + 1) : held' = h /\ pcm' = pcm + (held + 1 - h)
        BY <1>6, <3>1 DEF DecodePacket
      <4>2. h \in Int
        OBVIOUS
      <4> QED BY <1>0, <2>3, <3>1, <4>1, <4>2
    <3>2. CASE Head(packets) # "audio"
      <4>1. held' = held /\ pcm' = pcm
        BY <1>6, <3>2 DEF DecodePacket
      <4> QED BY <1>0, <2>3, <3>2, <4>1
    <3> QED BY <3>1, <3>2
  <2> QED BY <2>1, <2>2, <2>3, <2>4 DEF FrameInv
<1>7. CASE Flush
  <2>1. /\ pc = "decode" /\ pc' = "encode" /\ packets = <<>> /\ pcm' = pcm + held
        /\ source' = source
    BY <1>7 DEF Flush
  <2>2. source.container # "wav" /\ pcm + held + Audio(packets) = Audio(source.packets)
    BY <2>1 DEF FrameInv
  <2>3. Audio(packets) = 0
    <3>1. {i \in DOMAIN packets : packets[i] = "audio"} = {}
      BY <2>1
    <3> QED BY <3>1, FS_EmptySet DEF Audio
  <2>4. pcm' = Audio(source.packets)
    BY <1>0, <2>1, <2>2, <2>3
  <2> QED BY <2>1, <2>2, <2>4 DEF FrameInv
<1>8. CASE Encode
  <2>1. pc' \in {"done", "torn", "failed"}
    BY <1>8 DEF Encode, Stop
  <2> QED BY <2>1 DEF FrameInv
<1>9. CASE UNCHANGED vars
  BY <1>9 DEF vars, FrameInv
<1> QED BY <1>1, <1>2, <1>3, <1>4, <1>5, <1>6, <1>7, <1>8, <1>9 DEF Next

\* FfmpegDecoder.cpp:139-149 and WavIo.cpp:63-98: for any chunks, packets, delays and
\* profiles, every frame of a source is decoded, and of an output what there is.
THEOREM FramesAreRead == Spec => []EveryFrameIsRead
<1>1. Init => FrameInv
  BY DEF Init, FrameInv
<1>2. Inv /\ FrameInv /\ OutputReadsBack => EveryFrameIsRead
  <2> SUFFICES ASSUME Inv, FrameInv, OutputReadsBack PROVE EveryFrameIsRead
    OBVIOUS
  <2>1. ASSUME source # None, source.container = "wav", Probe(source).bits \in Depths
        PROVE  ReadWav(source.wav).ok
    <3>1. source \in Sources
      BY <2>1 DEF Inv, TypeOK
    <3>2. /\ IsWav(source.wav) /\ source.frames \in Nat /\ Holds(source.wav, source.frames)
      BY <2>1, <3>1, AudioAssumption, FramesAssumption
    <3>3. Probe(source).bits = ProbeWav(source.wav).fmt.bits
      BY <2>1 DEF Probe, Row
    <3> QED BY <2>1, <3>2, <3>3, HoldsReads
  <2> QED BY <2>1 DEF EveryFrameIsRead, FrameInv
<1> QED BY <1>1, <1>2, FrameStep, Invariance, OutputsReadBack, PTL DEF Spec

-----------------------------------------------------------------------------
(* Outputs as sources. *)

\* What a writer left, once its header is whole, is a file of the frames there are.
LEMMA WrittenHolds ==
  ASSUME NEW f \in Format, Writable(f), NEW n \in Nat, n * FrameBytes(f) < Word,
         NEW len \in 0 .. Written(f, n), len >= SmallestFile
  PROVE  LET m == (len - SmallestFile) \div FrameBytes(f)
         IN  m \in Nat /\ Holds(WriteWav(f, n, len), m)
<1> USE DEF RiffHeader, ChunkHeader, FmtBytes, SmallestFile
<1> DEFINE file == WriteWav(f, n, len)
           c == file.chunks
           b == FrameBytes(f)
           there == len - SmallestFile
           m == there \div b
<1>1. b \in Nat \ {0} /\ n * b \in Nat
  BY FrameSize
<1>2. there \in Nat /\ there <= n * b
  <2>1. len <= SmallestFile + n * b /\ len \in Nat
    BY <1>1 DEF Written
  <2> HIDE DEF b
  <2> QED BY <1>1, <2>1
<1>3. DataBytes(f, n) = n * b
  BY <1>1, WordAssumption DEF DataBytes
<1>4. m \in Nat /\ m * b <= there /\ there < (m + 1) * b
  <2> HIDE DEF b, there
  <2>1. /\ m \in Nat /\ there % b \in 0 .. b - 1 /\ m * b \in Nat
        /\ there = m * b + (there % b)
    BY <1>1, <1>2, Euclid
  <2> DEFINE r == there % b
             p == m * b
  <2>2. (m + 1) * b = p + b
    BY <1>1, <2>1
  <2>3. r \in 0 .. b - 1 /\ p \in Nat /\ there = p + r
    BY <2>1
  <2> HIDE DEF r, p
  <2>4. p <= there /\ there < p + b
    BY <1>1, <2>3
  <2> QED BY <2>1, <2>2, <2>4 DEF p
<1>5. /\ c # <<>> /\ Len(c) = 2 /\ DOMAIN c = {1, 2} /\ file.len = len
      /\ c[1] = [id |-> "fmt", at |-> 12, size |-> 16, fmt |-> f]
      /\ c[2] = [id |-> "data", at |-> 36, size |-> n * b, fmt |-> Unread]
  BY <1>3 DEF WriteWav, Fmt, Other
<1>6. \A i \in 1 .. Len(c) - 1 : c[i + 1].at = c[i].at + ChunkHeader + Padded(c[i].size)
  <2>1. Padded(16) = 16
    BY DEF Padded
  <2>2. c[2].at = c[1].at + ChunkHeader + Padded(c[1].size)
    BY <1>5, <2>1
  <2> HIDE DEF c
  <2> QED BY <1>5, <2>2
<1>7. \A i \in {1, 2} : (c[i].id = "fmt" <=> i = 1) /\ (c[i].id = "data" <=> i = 2)
  BY <1>5
<1>8. f.channels > 0 /\ f.bits >= 8
  BY DEF Writable
<1>9. FrameBytes(c[1].fmt) = b /\ file.len - (c[2].at + ChunkHeader) = there
  BY <1>2, <1>5
<1>10. c[1].size >= FmtBytes /\ c[1].at + ChunkHeader + FmtBytes <= file.len
       /\ c[1].fmt.channels > 0 /\ c[1].fmt.bits >= 8
  BY <1>5, <1>8
<1>11. m * b <= c[2].size
  <2> DEFINE p == m * b
             q == n * b
  <2>1. p \in Int
    BY <1>1, <1>4
  <2>2. c[2].size = q /\ p <= there /\ there <= q /\ q \in Nat /\ there \in Nat
    BY <1>1, <1>2, <1>4, <1>5
  <2> HIDE DEF p, q, there
  <2>3. p <= q
    BY <2>1, <2>2
  <2> QED BY <2>2, <2>3 DEF p
<1> HIDE DEF m, there, b, c
<1>12. Holds(file, m)
  <2>1. c[1].at = RiffHeader /\ c # <<>>
    BY <1>5
  <2>2. \E fmt, data \in DOMAIN c :
          LET size == FrameBytes(c[fmt].fmt)
              body == file.len - (c[data].at + ChunkHeader)
          IN  /\ \A i \in DOMAIN c : (c[i].id = "fmt" <=> i = fmt) /\ (c[i].id = "data" <=> i = data)
              /\ c[fmt].size >= FmtBytes /\ c[fmt].at + ChunkHeader + FmtBytes <= file.len
              /\ c[fmt].fmt.channels > 0 /\ c[fmt].fmt.bits >= 8
              /\ m * size <= c[data].size /\ m * size <= body
              /\ c[data].size < (m + 1) * size \/ body < (m + 1) * size
    <3>1. 1 \in DOMAIN c /\ 2 \in DOMAIN c
      BY <1>5
    <3> USE <3>1
    <3> WITNESS 1 \in DOMAIN c
    <3> WITNESS 2 \in DOMAIN c
    <3> QED BY <1>4, <1>5, <1>7, <1>9, <1>10, <1>11
  <2> HIDE DEF file
  <2> QED BY <1>6, <2>1, <2>2 DEF Holds, c
<1> QED BY <1>4, <1>12 DEF m, there, b

\* Of an output whose header is there and can say its size, what FramesAssumption
\* says of a source.
OutputHoldsItsFrames ==
  wrote # None /\ Fits /\ out.wav.len >= SmallestFile =>
    /\ (out.wav.len - SmallestFile) \div FrameBytes(wrote.fmt) \in Nat
    /\ Holds(out.wav, (out.wav.len - SmallestFile) \div FrameBytes(wrote.fmt))

\* WavIo.cpp:205-275: whatever was written and wherever the writer stopped, the output
\* is a file of which FramesAreRead speaks, and may be the source of a next run.
THEOREM OutputsAreSources == Spec => []OutputHoldsItsFrames
<1>1. Inv => OutputHoldsItsFrames
  <2> SUFFICES ASSUME Inv, wrote # None, Fits, out.wav.len >= SmallestFile
               PROVE  /\ (out.wav.len - SmallestFile) \div FrameBytes(wrote.fmt) \in Nat
                      /\ Holds(out.wav, (out.wav.len - SmallestFile) \div FrameBytes(wrote.fmt))
    BY DEF OutputHoldsItsFrames
  <2> DEFINE f == wrote.fmt
             n == wrote.frames
             len == out.wav.len
  <2>1. /\ f \in Format /\ Writable(f) /\ n \in Nat /\ len \in 0 .. Written(f, n)
        /\ out = [container |-> "wav", wav |-> WriteWav(f, n, len)]
    BY Zenon DEF Inv, TypeOK, WroteInv
  <2>2. out.wav = WriteWav(f, n, len) /\ len >= SmallestFile /\ n * FrameBytes(f) < Word
    BY <2>1 DEF Fits
  <2> HIDE DEF f, n, len
  <2>3. /\ (len - SmallestFile) \div FrameBytes(f) \in Nat
        /\ Holds(WriteWav(f, n, len), (len - SmallestFile) \div FrameBytes(f))
    BY <2>1, <2>2, WrittenHolds
  <2> QED BY <2>2, <2>3 DEF f, n, len
<1> QED BY Invariance, <1>1, PTL
=============================================================================
