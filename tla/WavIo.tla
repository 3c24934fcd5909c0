-------------------------------- MODULE WavIo --------------------------------
(***************************************************************************)
(* The files of WavIo.cpp: writeWav, readWav and probeWav.                 *)
(*                                                                         *)
(* A file is the list of its chunks, each with its offset and the size its *)
(* header declares, and the number of bytes that are there, which is less  *)
(* than what was written when the writer died.  Samples are counted, not   *)
(* looked at: a reader that loses its way among them finds no chunk.       *)
(***************************************************************************)
EXTENDS Integers, Sequences, FiniteSetsExt

CONSTANT Word  \* sizes in a header are modulo this: 2^32 in the code

ASSUME WordAssumption == Word \in Nat /\ Word > 16

RiffHeader == 12
ChunkHeader == 8
FmtBytes == 16
SmallestFile == 44

\* A chunk begins at an even offset.
Padded(size) == size + (size % 2)

FrameBytes(f) == (f.bits \div 8) * f.channels

Format == [float : BOOLEAN, channels : Nat, rate : Nat, bits : Nat]

\* Files there can be.
IsWav(file) ==
  /\ file.chunks \in Seq([id : STRING, at : Nat, size : Nat, fmt : Format])
  /\ file.len \in Nat

Unread == [float |-> FALSE, channels |-> 0, rate |-> 0, bits |-> 0]

-----------------------------------------------------------------------------
(* Writing. *)

Fmt(at, f) == [id |-> "fmt", at |-> at, size |-> FmtBytes, fmt |-> f]
Other(at, id, size) == [id |-> id, at |-> at, size |-> size, fmt |-> Unread]

\* dataBytes, an uint32_t.
DataBytes(f, frames) == (frames * FrameBytes(f)) % Word

\* The bytes written, header and samples.
Written(f, frames) == SmallestFile + frames * FrameBytes(f)

Writable(f) == f.channels > 0 /\ f.bits \in {16, 24, 32}

\* writeWav, as far as it got.
WriteWav(f, frames, len) ==
  [chunks |-> <<Fmt(RiffHeader, f),
                Other(RiffHeader + ChunkHeader + FmtBytes, "data", DataBytes(f, frames))>>,
   len |-> len]

-----------------------------------------------------------------------------
(* Reading. *)

Min2(a, b) == IF a < b THEN a ELSE b

\* Mutant: the byte that pads an odd chunk is not skipped.
StepUnpadded(chunk) == chunk.at + ChunkHeader + chunk.size

\* Where a reader looks for the next chunk.
Step(chunk) == chunk.at + ChunkHeader + Padded(chunk.size)

\* The chunks a reader comes to.
Met(file) ==
  {i \in DOMAIN file.chunks :
     /\ file.chunks[i].at + ChunkHeader <= file.len
     /\ file.chunks[1].at = RiffHeader
     /\ \A k \in 1 .. i - 1 : Step(file.chunks[k]) = file.chunks[k + 1].at}

Body(file, i) == file.len - (file.chunks[i].at + ChunkHeader)

\* Mutant: truncation is not tolerated.
DeclaredSize(file, i) == file.chunks[i].size

\* chunkSize in readWav, which tolerates truncation.
There(file, i) == Min2(file.chunks[i].size, Body(file, i))

FmtsRead(file) ==
  {i \in Met(file) : file.chunks[i].id = "fmt" /\ There(file, i) >= FmtBytes}
DataMet(file) == {i \in Met(file) : file.chunks[i].id = "data"}

\* The samples it can read.
Depths == {8, 16, 24, 32}

Failed == [ok |-> FALSE, fmt |-> Unread, frames |-> 0]

\* readWav; the last chunk of a kind counts.
ReadWav(file) ==
  LET f == file.chunks[Max(FmtsRead(file))].fmt
      frames == There(file, Max(DataMet(file))) \div FrameBytes(f)
  IN  IF /\ file.len >= SmallestFile
         /\ FmtsRead(file) # {} /\ DataMet(file) # {}
         /\ f.channels > 0 /\ f.bits >= 8
         /\ frames = 0 \/ f.bits \in Depths
      THEN [ok |-> TRUE, fmt |-> f, frames |-> frames]
      ELSE Failed

\* The fields of a format of which n bytes are there; the others read as 0.
FmtCut(f, n) ==
  [float    |-> n >= 2 /\ f.float,
   channels |-> IF n >= 4 THEN f.channels ELSE 0,
   rate     |-> IF n >= 8 THEN f.rate ELSE 0,
   bits     |-> IF n >= FmtBytes THEN f.bits ELSE 0]

FmtsProbed(file) ==
  {i \in Met(file) : file.chunks[i].id = "fmt" /\ file.chunks[i].size >= FmtBytes}

\* probeWav: sizes are believed, and a file without samples is one of no frames.
ProbeWav(file) ==
  LET i == Max(FmtsProbed(file))
      f == FmtCut(file.chunks[i].fmt, Body(file, i))
  IN  IF FmtsProbed(file) = {} THEN Failed
      ELSE [ok |-> TRUE, fmt |-> f,
            frames |-> IF DataMet(file) = {} \/ FrameBytes(f) = 0 THEN 0
                       ELSE file.chunks[Max(DataMet(file))].size \div FrameBytes(f)]
=============================================================================
