------------------------- MODULE ApplyProfile_proofs -------------------------
(***************************************************************************)
(* Proofs about ApplyProfile.  LoopInv is inductive with TypeOK wherever   *)
(* the output goes; when no output folder is ever imported, ApartInv is    *)
(* too, and with it DoneSoFar if files can always be closed.               *)
(***************************************************************************)
EXTENDS ApplyProfile, SequenceTheorems, TLAPS

\* Imports and output folders are kept apart.
Apart == ImportDirs \cap OutDirs = {}

Inv == TypeOK /\ LoopInv /\ AuditedOutputsExist

Rows == [source : Path, output : Path \cup {None}]

LEMMA TrackRows ==
  ASSUME TypeOK
  PROVE  /\ Len(tracks) \in Nat /\ DOMAIN tracks = 1 .. Len(tracks)
         /\ tracks \in Seq(Rows)
         /\ \A n \in DOMAIN tracks : tracks[n] \in Rows
<1>1. tracks \in Seq(Rows)
  BY DEF TypeOK, Rows
<1> QED BY <1>1, ElementOfSeq

LEMMA OutPathIsPath ==
  ASSUME NEW p \in Path, TypeOK
  PROVE  OutPath(p) \in Path
BY ApplyAssumption DEF OutPath, TypeOK, Path

LEMMA SourceIsPath ==
  ASSUME Inv, pc \in Working \/ (pc = "next" /\ i <= Len(all))
  PROVE  /\ i \in DOMAIN all /\ i \in DOMAIN tracks
         /\ Source \in Path /\ Source \in DOMAIN disk
         /\ Source = tracks[i].source
<1>1. i <= Len(all) /\ i \in Nat /\ i >= 1 /\ Len(all) \in Nat
  BY DEF Inv, TypeOK, LoopInv
<1>2. i \in DOMAIN all /\ i \in DOMAIN tracks
  BY <1>1 DEF Inv, TypeOK
<1>3. all[i] \in Path /\ all[i] = tracks[i].source /\ tracks[i].source \in DOMAIN disk
  BY <1>2 DEF Inv, TypeOK, LoopInv
<1> QED BY <1>2, <1>3 DEF Source

LEMMA PutGrows ==
  ASSUME NEW p, NEW c, Put(p, c)
  PROVE  /\ DOMAIN disk' = DOMAIN disk \cup {p}
         /\ disk'[p] = c
         /\ \A q \in DOMAIN disk : q # p => disk'[q] = disk[q]
BY DEF Put

LEMMA ProcessedIsContent ==
  ASSUME NEW c \in Content
  PROVE  /\ Processed(c) \in Content
         /\ Processed(c).whole = c.whole
         /\ c.rounds = 0 => Processed(c).rounds <= 1
<1>1. c.rounds \in 0 .. MaxRounds /\ MaxRounds \in Nat \ {0} /\ c.whole \in BOOLEAN
  BY ApplyAssumption DEF Content
<1> DEFINE n == IF c.rounds < MaxRounds THEN c.rounds + 1 ELSE c.rounds
<1>2. n \in 0 .. MaxRounds /\ (c.rounds = 0 => n <= 1)
  BY <1>1
<1>3. Processed(c) = [c EXCEPT !.rounds = n]
  BY DEF Processed
<1> HIDE DEF n
<1>4. [c EXCEPT !.rounds = n] \in Content
  BY <1>2 DEF Content
<1>5. [c EXCEPT !.rounds = n].whole = c.whole /\ [c EXCEPT !.rounds = n].rounds = n
  BY DEF Content
<1> QED BY <1>2, <1>3, <1>4, <1>5

LEMMA InitInv == Init => Inv
<1> SUFFICES ASSUME Init PROVE Inv
  OBVIOUS
<1>1. \A p \in Files : Original(p) \in Content
  BY ApplyAssumption DEF Original, Content
<1>2. TypeOK
  <2>1. DOMAIN disk = Files /\ \A p \in DOMAIN disk : disk[p] \in Content
    BY <1>1 DEF Init
  <2>2. /\ tracks \in Seq([source : Path, output : Path \cup {None}])
        /\ all \in Seq(Path) /\ Len(all) = 0 /\ Len(tracks) = 0
    BY DEF Init
  <2>3. i \in 1 .. Len(all) + 1 /\ failed \in 0 .. i - 1
    BY <2>2 DEF Init
  <2>4. runs \in 0 .. MaxRuns /\ faults \in 0 .. MaxFaults
    BY ApplyAssumption DEF Init
  <2>5. /\ audit \subseteq Nat \X DOMAIN tracks /\ DOMAIN disk \subseteq Path
        /\ pc \in {"idle", "next"} \cup Working
        /\ buffer \in Content \cup {None} /\ outDir \in OutDirs /\ cancel \in BOOLEAN
    BY <2>1, ApplyAssumption DEF Init
  <2> QED BY <2>1, <2>2, <2>3, <2>4, <2>5 DEF TypeOK
<1>3. LoopInv /\ AuditedOutputsExist
  BY DEF Init, LoopInv, AuditedOutputsExist, Working
<1> QED BY <1>2, <1>3 DEF Inv

\* Steps that change none of disk, tracks, audit, the snapshot and outDir, and
\* are not in the middle of a track afterwards.
LEMMA QuietStep ==
  ASSUME Inv,
         UNCHANGED <<disk, tracks, audit, all, outDir, runs>>,
         pc' \in {"idle", "next"},
         i' \in 1 .. Len(all) + 1, failed' \in 0 .. i' - 1,
         buffer' \in Content \cup {None},
         cancel' \in BOOLEAN, faults' \in 0 .. MaxFaults
  PROVE  Inv'
<1>1. TypeOK'
  BY DEF Inv, TypeOK, Working, Content
<1>2. LoopInv' /\ AuditedOutputsExist'
  BY DEF Inv, LoopInv, AuditedOutputsExist, Working
<1> QED BY <1>1, <1>2 DEF Inv

LEMMA CaughtStep ==
  ASSUME Inv, pc \in Working, Caught, faults' \in 0 .. MaxFaults
  PROVE  Inv'
<1>1. i' \in 1 .. Len(all) + 1 /\ failed' \in 0 .. i' - 1
  BY DEF Inv, TypeOK, LoopInv, Caught
<1>2. /\ UNCHANGED <<disk, tracks, audit, all, outDir, runs>>
      /\ pc' \in {"idle", "next"}
      /\ buffer' \in Content \cup {None} /\ cancel' \in BOOLEAN
  BY DEF Inv, TypeOK, Caught, run, db
<1> QED BY <1>1, <1>2, QuietStep

LEMMA ImportStep ==
  ASSUME Inv, NEW p \in DOMAIN disk, Import(p)
  PROVE  Inv'
<1> DEFINE row == [source |-> p, output |-> None]
<1>1. tracks' = Append(tracks, row) /\ row \in [source : Path, output : Path \cup {None}]
  BY DEF Import, Inv, TypeOK
<1>2. /\ tracks' \in Seq([source : Path, output : Path \cup {None}])
      /\ Len(tracks') = Len(tracks) + 1
      /\ \A n \in DOMAIN tracks : n \in DOMAIN tracks' /\ tracks'[n] = tracks[n]
      /\ tracks'[Len(tracks) + 1] = row
      /\ DOMAIN tracks' = DOMAIN tracks \cup {Len(tracks) + 1}
  BY <1>1 DEF Inv, TypeOK
<1>3. UNCHANGED <<disk, audit, pc, i, all, outDir, runs, buffer, failed, cancel, faults>>
  BY DEF Import, run
<1>4. \A n \in DOMAIN all : n \in DOMAIN tracks
  BY DEF Inv, TypeOK
<1>5. TypeOK'
  BY <1>2, <1>3 DEF Inv, TypeOK, Working, Content
<1>6. LoopInv'
  <2>1. \A n \in DOMAIN tracks' : tracks'[n].source \in DOMAIN disk'
    BY <1>2, <1>3 DEF Inv, LoopInv
  <2>2. \A n \in DOMAIN all' : all'[n] = tracks'[n].source
    BY <1>2, <1>3, <1>4 DEF Inv, LoopInv
  <2>3. pc = "audit" => tracks'[i].output \in DOMAIN disk
    BY <1>2, SourceIsPath DEF Inv, LoopInv, Working
  <2>4. Source' = Source
    BY <1>3 DEF Source
  <2>5. OutPath(Source)' = OutPath(Source)
    BY <1>3, <2>4 DEF OutPath
  <2> QED BY <1>3, <2>1, <2>2, <2>3, <2>5 DEF Inv, LoopInv, Content
<1>7. AuditedOutputsExist'
  BY <1>2, <1>3 DEF Inv, TypeOK, AuditedOutputsExist
<1> QED BY <1>5, <1>6, <1>7 DEF Inv

LEMMA StartStep ==
  ASSUME Inv, NEW d \in OutDirs, Start(d)
  PROVE  Inv'
<1>1. /\ all' = [n \in 1 .. Len(tracks) |-> tracks[n].source]
      /\ Len(all') = Len(tracks) /\ DOMAIN all' = DOMAIN tracks
      /\ all' \in Seq(Path)
      /\ \A n \in DOMAIN all' : all'[n] = tracks[n].source
  <2>1. DOMAIN tracks = 1 .. Len(tracks) /\ Len(tracks) \in Nat
    BY TrackRows DEF Inv
  <2>2. \A n \in DOMAIN tracks : tracks[n].source \in Path
    BY TrackRows DEF Inv, Rows
  <2>3. all' = [n \in 1 .. Len(tracks) |-> tracks[n].source]
    BY <2>1 DEF Start
  <2> QED BY <2>1, <2>2, <2>3
<1>2. /\ UNCHANGED <<disk, tracks, audit, buffer, faults>>
      /\ i' = 1 /\ failed' = 0 /\ cancel' = FALSE /\ pc' = "next"
      /\ outDir' = d /\ runs' = runs + 1 /\ runs < MaxRuns
  BY DEF Start, db
<1>3. TypeOK'
  <2>1. Len(all') \in Nat
    BY <1>1, TrackRows DEF Inv
  <2>2. i' \in 1 .. Len(all') + 1 /\ failed' \in 0 .. i' - 1
    BY <1>2, <2>1
  <2>3. runs' \in 0 .. MaxRuns
    BY <1>2, ApplyAssumption DEF Inv, TypeOK
  <2>4. Len(all') <= Len(tracks')
    BY <1>1, <1>2, TrackRows DEF Inv
  <2> QED BY <1>1, <1>2, <2>2, <2>3, <2>4 DEF Inv, TypeOK, Content, Working
<1>4. LoopInv' /\ AuditedOutputsExist'
  BY <1>1, <1>2 DEF Inv, LoopInv, AuditedOutputsExist, Working
<1> QED BY <1>3, <1>4 DEF Inv

LEMMA NextInv == Inv /\ [Next]_vars => Inv'
<1> SUFFICES ASSUME Inv, [Next]_vars PROVE Inv'
  OBVIOUS
<1>1. CASE \E p \in DOMAIN disk : Import(p)
  BY <1>1, ImportStep
<1>2. CASE \E d \in OutDirs : Start(d)
  BY <1>2, StartStep
<1>3. CASE EndRun
  BY <1>3, QuietStep DEF EndRun, Inv, TypeOK, run, db
<1>4. CASE Cancel
  <2>1. TypeOK'
    BY <1>4 DEF Cancel, Inv, TypeOK, run, db, Working, Content
  <2>2. LoopInv' /\ AuditedOutputsExist'
    BY <1>4 DEF Cancel, Inv, LoopInv, AuditedOutputsExist, run, db, Working, Content,
                Source, OutPath
  <2> QED BY <2>1, <2>2 DEF Inv
<1>5. CASE Plan
  <2>1. pc' \in {"copy", "read"}
    BY <1>5 DEF Plan
  <2>2. UNCHANGED <<disk, tracks, audit, all, outDir, runs, i, buffer, failed, cancel,
                    faults>>
    BY <1>5 DEF Plan, run, db
  <2>3. TypeOK'
    BY <2>1, <2>2 DEF Inv, TypeOK, Working, Content
  <2>4. LoopInv' /\ AuditedOutputsExist'
    BY <1>5, <2>1, <2>2 DEF Plan, Inv, LoopInv, AuditedOutputsExist, Working
  <2> QED BY <2>3, <2>4 DEF Inv
<1>6. CASE Read \/ Copy
  <2>1. disk[Source] \in Content /\ i <= Len(all)
    BY <1>6, SourceIsPath DEF Read, Copy, Inv, TypeOK, LoopInv, Working
  <2>2. buffer' \in Content /\ pc' = "open"
    BY <1>6, <2>1, ProcessedIsContent DEF Read, Copy
  <2>3. UNCHANGED <<disk, tracks, audit, all, outDir, runs, i, failed, cancel, faults>>
    BY <1>6 DEF Read, Copy, run, db
  <2>4. TypeOK'
    BY <2>2, <2>3 DEF Inv, TypeOK, Working, Content
  <2>5. LoopInv' /\ AuditedOutputsExist'
    BY <2>1, <2>2, <2>3 DEF Inv, LoopInv, AuditedOutputsExist, Working, Content
  <2> QED BY <2>4, <2>5 DEF Inv
<1>7. CASE Open \/ Write
  <2>1. PICK c \in Content : Put(OutPath(Source), c)
    <3>1. buffer \in Content
      BY <1>7 DEF Open, Write, Inv, LoopInv
    <3>2. [buffer EXCEPT !.whole = FALSE] \in Content
      BY <3>1 DEF Content
    <3> QED BY <1>7, <3>1, <3>2 DEF Open, Write
  <2>2. /\ pc' \in {"write", "record"}
        /\ buffer' \in Content \cup {None}
        /\ pc' = "write" => buffer' \in Content
    BY <1>7 DEF Open, Write, Inv, LoopInv
  <2>3. UNCHANGED <<tracks, audit, all, outDir, runs, i, failed, cancel, faults>>
    BY <1>7 DEF Open, Write, run, db
  <2>4. /\ DOMAIN disk' = DOMAIN disk \cup {OutPath(Source)}
        /\ \A p \in DOMAIN disk' : disk'[p] \in Content
        /\ DOMAIN disk' \subseteq Path
    <3>1. OutPath(Source) \in Path
      BY <1>7, OutPathIsPath, SourceIsPath DEF Inv, Open, Write, Working
    <3>2. /\ DOMAIN disk' = DOMAIN disk \cup {OutPath(Source)}
          /\ disk'[OutPath(Source)] = c
          /\ \A q \in DOMAIN disk : q # OutPath(Source) => disk'[q] = disk[q]
      BY <2>1, PutGrows
    <3>3. DOMAIN disk \subseteq Path /\ \A p \in DOMAIN disk : disk[p] \in Content
      BY DEF Inv, TypeOK
    <3> QED BY <3>1, <3>2, <3>3
  <2>5. TypeOK'
    BY <2>2, <2>3, <2>4 DEF Inv, TypeOK, Working, Content
  <2>6. OutPath(Source)' = OutPath(Source) /\ i <= Len(all)
    BY <1>7, <2>3 DEF OutPath, Source, Open, Write, Inv, LoopInv, Working
  <2>7. LoopInv'
    BY <2>2, <2>3, <2>4, <2>6 DEF Inv, LoopInv, Working, Content
  <2>8. AuditedOutputsExist'
    BY <2>3, <2>4 DEF Inv, AuditedOutputsExist
  <2> QED BY <2>5, <2>7, <2>8 DEF Inv
<1>8. CASE Record
  <2> DEFINE out == OutPath(Source)
  <2>1. out \in Path /\ out \in DOMAIN disk /\ i \in DOMAIN tracks /\ i <= Len(all)
    BY <1>8, OutPathIsPath, SourceIsPath DEF Record, Inv, LoopInv, Working
  <2>2. /\ tracks' = [tracks EXCEPT ![i].output = out] /\ pc' = "audit"
        /\ UNCHANGED <<disk, audit, all, outDir, runs, i, buffer, failed, cancel, faults>>
    BY <1>8 DEF Record, run
  <2>3. /\ tracks' \in Seq([source : Path, output : Path \cup {None}])
        /\ Len(tracks') = Len(tracks) /\ DOMAIN tracks' = DOMAIN tracks
        /\ \A n \in DOMAIN tracks : /\ tracks'[n].source = tracks[n].source
                                    /\ n # i => tracks'[n].output = tracks[n].output
        /\ tracks'[i].output = out
    <3>1. /\ DOMAIN tracks = 1 .. Len(tracks) /\ Len(tracks) \in Nat
          /\ \A n \in DOMAIN tracks : tracks[n] \in Rows
      BY TrackRows DEF Inv
    <3>2. [tracks[i] EXCEPT !.output = out] \in Rows
      BY <2>1, <3>1 DEF Rows
    <3>3. /\ tracks' = [n \in 1 .. Len(tracks) |->
                         IF n = i THEN [tracks[i] EXCEPT !.output = out] ELSE tracks[n]]
          /\ \A n \in DOMAIN tracks : tracks'[n] \in Rows
      BY <2>1, <2>2, <3>1, <3>2
    <3>4. tracks' \in Seq(Rows) /\ Len(tracks') = Len(tracks)
      BY <3>1, <3>3
    <3>5. \A n \in DOMAIN tracks : tracks[n].source = tracks'[n].source
      BY <3>1, <3>3 DEF Rows
    <3>6. tracks'[i].output = out
      BY <2>1, <3>1, <3>3 DEF Rows
    <3> QED BY <3>1, <3>3, <3>4, <3>5, <3>6 DEF Rows
  <2>4. TypeOK'
    BY <2>2, <2>3 DEF Inv, TypeOK, Working, Content
  <2>5. \A n \in DOMAIN all : n \in DOMAIN tracks
    BY DEF Inv, TypeOK
  <2>6. LoopInv'
    BY <2>1, <2>2, <2>3, <2>5 DEF Inv, LoopInv, Working
  <2>7. AuditedOutputsExist'
    BY <2>1, <2>2, <2>3 DEF Inv, TypeOK, AuditedOutputsExist
  <2> QED BY <2>4, <2>6, <2>7 DEF Inv
<1>9. CASE Audit
  <2>1. i \in DOMAIN tracks /\ i <= Len(all) /\ tracks[i].output \in DOMAIN disk
    BY <1>9, SourceIsPath DEF Audit, Inv, LoopInv, Working
  <2>2. /\ audit' = audit \cup {<<runs, i>>} /\ i' = i + 1 /\ pc' = "next"
        /\ UNCHANGED <<disk, tracks, all, outDir, runs, buffer, failed, cancel, faults>>
    BY <1>9 DEF Audit, run
  <2>3. TypeOK'
    BY <2>1, <2>2 DEF Inv, TypeOK, Content, Working
  <2>4. LoopInv' /\ AuditedOutputsExist'
    BY <2>1, <2>2 DEF Inv, LoopInv, AuditedOutputsExist, Working
  <2> QED BY <2>3, <2>4 DEF Inv
<1>10. CASE CopyOntoItself \/ RejectTorn \/ Fails
  <2>1. pc \in Working /\ Caught /\ faults' \in 0 .. MaxFaults
    BY <1>10, ApplyAssumption DEF CopyOntoItself, RejectTorn, Fails, Working, Inv, TypeOK
  <2> QED BY <2>1, CaughtStep
<1>13. CASE LosesTail
  <2>1. /\ pc = "write" /\ pc' = "record" /\ buffer' = None /\ faults' \in 0 .. MaxFaults
        /\ UNCHANGED <<disk, tracks, audit, all, i, outDir, runs, failed, cancel>>
    BY <1>13, ApplyAssumption DEF LosesTail, Inv, TypeOK, db, run
  <2>2. TypeOK'
    BY <2>1 DEF Inv, TypeOK, Working, Content
  <2>3. LoopInv' /\ AuditedOutputsExist'
    BY <2>1 DEF Inv, LoopInv, AuditedOutputsExist, Working, OutPath, Source
  <2> QED BY <2>2, <2>3 DEF Inv
<1>11. CASE Crash
  <2>1. faults' \in 0 .. MaxFaults
    BY <1>11, ApplyAssumption DEF Crash, Inv, TypeOK
  <2> QED BY <1>11, <2>1, QuietStep DEF Crash, Inv, TypeOK, run, db
<1>12. CASE UNCHANGED vars
  <2>1. TypeOK'
    BY <1>12 DEF vars, Inv, TypeOK, run, db, Working, Content
  <2>2. LoopInv' /\ AuditedOutputsExist'
    BY <1>12 DEF vars, Inv, LoopInv, AuditedOutputsExist, run, db, Working, Content,
                 Source, OutPath
  <2> QED BY <2>1, <2>2 DEF Inv
<1> QED BY <1>1, <1>2, <1>3, <1>4, <1>5, <1>6, <1>7, <1>8, <1>9, <1>10, <1>11, <1>12,
     <1>13 DEF Next, Step

LEMMA Invariance == Spec => []Inv
<1>1. Init => Inv
  BY InitInv
<1>2. Inv /\ [Next]_vars => Inv'
  BY NextInv
<1> QED BY <1>1, <1>2, PTL DEF Spec

\* Every value has its type, wherever the outputs go.
THEOREM TypeCorrect == Spec => []TypeOK
<1>1. Inv => TypeOK
  BY DEF Inv
<1> QED BY <1>1, Invariance, PTL

\* The audit log never speaks of a track without a recorded output that exists.
THEOREM AuditNeverAhead == Spec => []AuditedOutputsExist
<1>1. Inv => AuditedOutputsExist
  BY DEF Inv
<1> QED BY <1>1, Invariance, PTL

\* As long as nothing failed, the only torn file is the one being written, and
\* what is to be written is complete.
WholeInv ==
  faults = 0 =>
    /\ \A p \in DOMAIN disk : disk[p].whole \/ (pc = "write" /\ p = OutPath(Source))
    /\ pc \in {"open", "write"} => buffer.whole

LEMMA WholeStep ==
  ASSUME Inv, WholeInv, [Next]_vars
  PROVE  WholeInv'
<1>0. faults \in Nat /\ MaxFaults \in Nat
  BY ApplyAssumption DEF Inv, TypeOK
<1>1. CASE Fails \/ LosesTail \/ Crash
  BY <1>0, <1>1 DEF Fails, LosesTail, Crash, WholeInv
<1>2. CASE \E d \in OutDirs : Start(d)
  BY <1>2 DEF Start, WholeInv
<1>3. CASE (\E p \in DOMAIN disk : Import(p)) \/ Cancel \/ UNCHANGED vars
  <2>1. UNCHANGED <<disk, pc, all, i, outDir, buffer, faults>>
    BY <1>3 DEF Import, Cancel, vars, run
  <2>2. OutPath(Source)' = OutPath(Source)
    BY <2>1 DEF OutPath, Source
  <2> QED BY <2>1, <2>2 DEF WholeInv
<1>4. CASE EndRun \/ Plan \/ Record \/ Audit \/ CopyOntoItself \/ RejectTorn
  <2>1. pc # "write" /\ pc' \notin {"open", "write"} /\ UNCHANGED <<disk, faults>>
    BY <1>4 DEF EndRun, Plan, Record, Audit, CopyOntoItself, RejectTorn, Caught
  <2> QED BY <2>1 DEF WholeInv
<1>5. CASE Read \/ Copy
  <2>1. pc # "write" /\ pc' = "open" /\ UNCHANGED <<disk, faults>>
    BY <1>5 DEF Read, Copy
  <2>2. Source \in DOMAIN disk /\ disk[Source] \in Content
    BY <1>5, SourceIsPath DEF Read, Copy, Working, Inv, TypeOK
  <2>3. buffer'.whole = disk[Source].whole
    BY <1>5, <2>2, ProcessedIsContent DEF Read, Copy
  <2> QED BY <2>1, <2>2, <2>3 DEF WholeInv
<1>6. CASE Open
  <2>1. /\ pc = "open" /\ pc' = "write"
        /\ UNCHANGED <<all, i, outDir, buffer, faults>>
        /\ DOMAIN disk' = DOMAIN disk \cup {OutPath(Source)}
        /\ \A q \in DOMAIN disk : q # OutPath(Source) => disk'[q] = disk[q]
    BY <1>6, PutGrows DEF Open, run
  <2>2. OutPath(Source)' = OutPath(Source)
    BY <2>1 DEF OutPath, Source
  <2> QED BY <2>1, <2>2 DEF WholeInv
<1>7. CASE Write
  <2>1. /\ pc = "write" /\ pc' = "record" /\ UNCHANGED faults
        /\ DOMAIN disk' = DOMAIN disk \cup {OutPath(Source)}
        /\ disk'[OutPath(Source)] = buffer
        /\ \A q \in DOMAIN disk : q # OutPath(Source) => disk'[q] = disk[q]
    BY <1>7, PutGrows DEF Write
  <2> QED BY <2>1 DEF WholeInv
<1> QED BY <1>1, <1>2, <1>3, <1>4, <1>5, <1>6, <1>7 DEF Next, Step

\* Wherever the outputs go: a run in which nothing failed, cancelled or not, ends
\* without a partly written file.
THEOREM NothingIsTorn == Spec => []CancelLeavesNoTornFile
<1>1. Init => WholeInv
  BY DEF Init, WholeInv, Original
<1>2. Inv /\ WholeInv /\ [Next]_vars => WholeInv'
  BY WholeStep
<1>3. WholeInv => CancelLeavesNoTornFile
  BY DEF WholeInv, CancelLeavesNoTornFile
<1> QED BY <1>1, <1>2, <1>3, Invariance, PTL DEF Spec

-----------------------------------------------------------------------------
(* Output folders apart from imported ones. *)

Clean == \A p \in DOMAIN disk : disk[p].rounds <= 1

ApartAll == Inv /\ ApartInv /\ Clean

LEMMA SourceIsClean ==
  ASSUME Apart, Inv, ApartInv, pc \in Working \/ (pc = "next" /\ i <= Len(all))
  PROVE  /\ disk[Source] = Original(Source) /\ Source.dir \notin OutDirs
         /\ OutPath(Source) # Source
<1>1. Source \in DOMAIN disk /\ i \in DOMAIN tracks /\ Source = tracks[i].source
  BY SourceIsPath
<1>2. Source.dir \in ImportDirs
  BY <1>1 DEF ApartInv
<1>3. Source.dir \notin OutDirs
  BY <1>2 DEF Apart
<1>4. OutPath(Source).dir \in OutDirs
  BY DEF OutPath, Inv, TypeOK
<1> QED BY <1>1, <1>3, <1>4 DEF ApartInv

LEMMA ApartInit == Init => ApartAll
<1> SUFFICES ASSUME Init PROVE ApartAll
  OBVIOUS
<1>1. Inv
  BY InitInv
<1>2. ApartInv /\ Clean
  BY DEF Init, ApartInv, Clean, Original
<1> QED BY <1>1, <1>2 DEF ApartAll

LEMMA ApartStep ==
  ASSUME Apart, ApartAll, [Next]_vars
  PROVE  ApartInv' /\ Clean'
<1> USE DEF ApartAll
<1>1. CASE \E p \in DOMAIN disk : Import(p)
  <2>1. PICK p \in DOMAIN disk : Import(p)
    BY <1>1
  <2>2. /\ p.dir \in ImportDirs
        /\ tracks' = Append(tracks, [source |-> p, output |-> None])
        /\ UNCHANGED <<disk, pc, buffer>>
    BY <2>1 DEF Import
  <2>3. \A n \in DOMAIN tracks' : tracks'[n].source.dir \in ImportDirs
    BY <2>2, TrackRows DEF Inv, ApartInv
  <2> QED BY <2>2, <2>3 DEF ApartInv, Clean
<1>2. CASE \E d \in OutDirs : Start(d)
  BY <1>2 DEF Start, ApartInv, Clean, db
<1>3. CASE EndRun \/ Plan \/ Audit \/ Cancel \/ Crash \/ LosesTail
  BY <1>3 DEF LosesTail, EndRun, Plan, Audit, Cancel, Crash, ApartInv, Clean, db, run
<1>4. CASE Read \/ Copy
  <2>1. disk[Source] = Original(Source) /\ disk[Source] \in Content
    BY <1>4, SourceIsClean, SourceIsPath DEF Read, Copy, Working, Inv, TypeOK
  <2>2. buffer'.rounds <= 1 /\ buffer'.whole
    BY <1>4, <2>1, ProcessedIsContent DEF Read, Copy, Original
  <2>3. UNCHANGED <<disk, tracks>>
    BY <1>4 DEF Read, Copy, db
  <2> QED BY <2>2, <2>3 DEF ApartInv, Clean
<1>5. CASE Open \/ Write
  <2>1. PICK c : Put(OutPath(Source), c) /\ c.rounds <= 1
    <3>1. buffer \in Content /\ buffer.rounds <= 1
      BY <1>5 DEF Open, Write, Inv, LoopInv, ApartInv
    <3>2. [buffer EXCEPT !.whole = FALSE].rounds <= 1
      BY <3>1 DEF Content
    <3> QED BY <1>5, <3>1, <3>2 DEF Open, Write
  <2>2. OutPath(Source).dir \in OutDirs
    BY DEF OutPath, Inv, TypeOK
  <2>3. /\ DOMAIN disk' = DOMAIN disk \cup {OutPath(Source)}
        /\ disk'[OutPath(Source)] = c
        /\ \A q \in DOMAIN disk : q # OutPath(Source) => disk'[q] = disk[q]
    BY <2>1, PutGrows
  <2>4. /\ UNCHANGED tracks
        /\ pc' \in {"open", "write"} => /\ buffer' = buffer
                                        /\ buffer.rounds <= 1 /\ buffer.whole
    BY <1>5 DEF Open, Write, db, ApartInv
  <2>5. Clean'
    BY <2>1, <2>3 DEF Clean
  <2> QED BY <2>2, <2>3, <2>4, <2>5 DEF ApartInv
<1>6. CASE Record
  <2>1. /\ tracks' = [tracks EXCEPT ![i].output = OutPath(Source)]
        /\ UNCHANGED <<disk, buffer>> /\ pc' = "audit"
    BY <1>6 DEF Record
  <2>2. \A n \in DOMAIN tracks' : tracks'[n].source = tracks[n].source
    BY <2>1, TrackRows DEF Inv, Rows
  <2>3. DOMAIN tracks' = DOMAIN tracks
    BY <2>1
  <2> QED BY <2>1, <2>2, <2>3 DEF ApartInv, Clean
<1>7. CASE CopyOntoItself \/ RejectTorn \/ Fails
  BY <1>7 DEF CopyOntoItself, RejectTorn, Fails, Caught, ApartInv, Clean, db
<1>8. CASE UNCHANGED vars
  BY <1>8 DEF vars, ApartInv, Clean, db
<1> QED BY <1>1, <1>2, <1>3, <1>4, <1>5, <1>6, <1>7, <1>8 DEF Next, Step

\* What DoneSoFar says of one track.
Done(n) ==
  /\ tracks[n].output = OutPath(all[n])
  /\ tracks[n].output \in DOMAIN disk
  /\ <<runs, n>> \in audit
  /\ disk[tracks[n].output].whole \/ (pc = "write" /\ OutPath(Source) = tracks[n].output)

\* Steps between two tracks, or within one, that touch no file and no row.
LEMMA DoneQuiet ==
  ASSUME Inv, DoneSoFar,
         UNCHANGED <<disk, tracks, audit, all, i, outDir, runs, failed>>,
         pc' # "idle" \/ i > Len(all) => pc # "idle" \/ i > Len(all),
         pc # "write" \/ pc' = pc,
         pc' \in {"record", "audit"} => pc' = pc
  PROVE  DoneSoFar'
<1>1. OutPath(Source)' = OutPath(Source) /\ \A n \in 1 .. i - 1 : OutPath(all[n])' = OutPath(all[n])
  BY DEF OutPath, Source
<1> QED BY <1>1 DEF DoneSoFar

LEMMA DoneStep ==
  ASSUME Apart, ~CloseCanFail, ApartAll, DoneSoFar, [Next]_vars
  PROVE  DoneSoFar'
<1> USE DEF ApartAll
<1>0. /\ i \in Nat /\ Len(all) \in Nat /\ Len(tracks) \in Nat
      /\ i <= Len(all) + 1 /\ Len(all) <= Len(tracks) /\ failed \in Nat
      /\ DOMAIN tracks = 1 .. Len(tracks) /\ DOMAIN all = 1 .. Len(all)
  BY TrackRows DEF Inv, TypeOK
<1>1. CASE \E p \in DOMAIN disk : Import(p)
  <2>1. PICK p \in DOMAIN disk : Import(p)
    BY <1>1
  <2>2. /\ tracks' = Append(tracks, [source |-> p, output |-> None])
        /\ UNCHANGED <<disk, audit, pc, all, i, outDir, runs, failed>>
    BY <2>1 DEF Import, run
  <2>3. \A n \in DOMAIN tracks : tracks'[n] = tracks[n]
    BY <2>2, TrackRows DEF Inv
  <2>4. \A n \in 1 .. i - 1 : n \in DOMAIN tracks /\ OutPath(all[n])' = OutPath(all[n])
    BY <1>0, <2>2 DEF OutPath
  <2>5. pc = "audit" => i \in DOMAIN tracks
    BY SourceIsPath DEF Working
  <2>6. OutPath(Source)' = OutPath(Source)
    BY <2>2 DEF OutPath, Source
  <2> QED BY <2>2, <2>3, <2>4, <2>5, <2>6 DEF DoneSoFar
<1>2. CASE \E d \in OutDirs : Start(d)
  BY <1>2 DEF Start, DoneSoFar
<1>3. CASE EndRun \/ Plan \/ Read \/ Copy \/ Cancel
  BY <1>3, DoneQuiet DEF EndRun, Plan, Read, Copy, Cancel, db, run
<1>4. CASE Open
  <2> DEFINE out == OutPath(Source)
  <2>1. /\ pc = "open" /\ pc' = "write"
        /\ UNCHANGED <<tracks, audit, all, i, outDir, runs, failed>>
        /\ DOMAIN disk' = DOMAIN disk \cup {out}
        /\ \A q \in DOMAIN disk : q # out => disk'[q] = disk[q]
    BY <1>4, PutGrows DEF Open, db, run
  <2>2. out' = out /\ \A n \in 1 .. i - 1 : OutPath(all[n])' = OutPath(all[n])
    BY <2>1 DEF OutPath, Source
  <2>3. ASSUME failed = 0, NEW n \in 1 .. i - 1 PROVE Done(n)'
    <3>1. tracks[n].output = OutPath(all[n]) /\ tracks[n].output \in DOMAIN disk
          /\ <<runs, n>> \in audit /\ disk[tracks[n].output].whole
      BY <2>1, <2>3 DEF DoneSoFar
    <3> QED BY <2>1, <2>2, <3>1 DEF Done
  <2> QED BY <2>1, <2>3 DEF DoneSoFar, Done
<1>5. CASE Write
  <2> DEFINE out == OutPath(Source)
  <2>1. /\ pc = "write" /\ pc' = "record"
        /\ UNCHANGED <<tracks, audit, all, i, outDir, runs, failed>>
        /\ DOMAIN disk' = DOMAIN disk \cup {out}
        /\ \A q \in DOMAIN disk : q # out => disk'[q] = disk[q]
        /\ disk'[out] = buffer
    BY <1>5, PutGrows DEF Write, db, run
  <2>2. out' = out /\ \A n \in 1 .. i - 1 : OutPath(all[n])' = OutPath(all[n])
    BY <2>1 DEF OutPath, Source
  <2>3. disk'[out].whole
    BY <2>1 DEF ApartInv
  <2>4. ASSUME failed = 0, NEW n \in 1 .. i - 1 PROVE Done(n)'
    <3>1. /\ tracks[n].output = OutPath(all[n]) /\ tracks[n].output \in DOMAIN disk
          /\ <<runs, n>> \in audit
          /\ disk[tracks[n].output].whole \/ out = tracks[n].output
      BY <2>1, <2>4 DEF DoneSoFar
    <3> QED BY <2>1, <2>2, <2>3, <3>1 DEF Done
  <2> QED BY <2>1, <2>2, <2>3, <2>4 DEF DoneSoFar, Done
<1>6. CASE Record
  <2> DEFINE out == OutPath(Source)
  <2>1. /\ pc = "record" /\ pc' = "audit"
        /\ tracks' = [tracks EXCEPT ![i].output = out]
        /\ UNCHANGED <<disk, audit, all, i, outDir, runs, failed>>
    BY <1>6 DEF Record, run
  <2>2. out' = out /\ \A n \in 1 .. i - 1 : OutPath(all[n])' = OutPath(all[n])
    BY <2>1 DEF OutPath, Source
  <2>3. i \in DOMAIN tracks
    BY <2>1, SourceIsPath DEF Working
  <2>4. /\ tracks'[i].output = out
        /\ \A n \in DOMAIN tracks : n # i => tracks'[n] = tracks[n]
    BY <2>1, <2>3, TrackRows DEF Inv, Rows
  <2>5. ASSUME failed = 0, NEW n \in 1 .. i - 1 PROVE Done(n)'
    <3>1. /\ tracks[n].output = OutPath(all[n]) /\ tracks[n].output \in DOMAIN disk
          /\ <<runs, n>> \in audit /\ disk[tracks[n].output].whole
      BY <2>1, <2>5 DEF DoneSoFar
    <3>2. n \in DOMAIN tracks /\ n # i
      BY <1>0
    <3> QED BY <2>1, <2>2, <2>4, <3>1, <3>2 DEF Done
  <2>6. failed = 0 => disk[out].whole
    BY <2>1 DEF DoneSoFar
  <2> QED BY <2>1, <2>2, <2>4, <2>5, <2>6 DEF DoneSoFar, Done
<1>7. CASE Audit
  <2>1. /\ pc = "audit" /\ pc' = "next" /\ i' = i + 1
        /\ audit' = audit \cup {<<runs, i>>}
        /\ UNCHANGED <<disk, tracks, all, outDir, runs, failed>>
    BY <1>7 DEF Audit, run
  <2>2. \A n \in 1 .. i : OutPath(all[n])' = OutPath(all[n])
    BY <2>1 DEF OutPath
  <2>3. ASSUME failed = 0, NEW n \in 1 .. i PROVE Done(n)'
    <3>1. /\ tracks[n].output = OutPath(all[n]) /\ tracks[n].output \in DOMAIN disk
          /\ disk[tracks[n].output].whole
          /\ n # i => <<runs, n>> \in audit
      <4>1. CASE n = i
        BY <2>1, <2>3, <4>1 DEF DoneSoFar, Source, Inv, LoopInv
      <4>2. CASE n # i
        BY <1>0, <2>1, <2>3, <4>2 DEF DoneSoFar
      <4> QED BY <4>1, <4>2
    <3> QED BY <2>1, <2>2, <3>1 DEF Done
  <2>4. 1 .. i' - 1 = 1 .. i
    BY <1>0, <2>1
  <2> QED BY <2>1, <2>3, <2>4 DEF DoneSoFar, Done
<1>8. CASE CopyOntoItself \/ RejectTorn \/ Fails
  BY <1>0, <1>8 DEF CopyOntoItself, RejectTorn, Fails, Caught, DoneSoFar
<1>9. CASE Crash
  <2>1. pc' = "idle" /\ UNCHANGED <<disk, tracks, audit, all, i, outDir, runs, failed>>
    BY <1>9 DEF Crash, db, run
  <2>2. i > Len(all) => pc # "write"
    BY <1>0 DEF Inv, LoopInv, Working
  <2>3. CASE i > Len(all)
    BY <2>1, <2>2, <2>3, DoneQuiet, <1>9 DEF Crash
  <2>4. CASE ~(i > Len(all))
    BY <2>1, <2>4 DEF DoneSoFar
  <2> QED BY <2>3, <2>4
<1>10. CASE UNCHANGED vars
  BY <1>10, DoneQuiet DEF vars, db, run
<1>11. ~LosesTail
  BY DEF LosesTail
<1> QED BY <1>1, <1>2, <1>3, <1>4, <1>5, <1>6, <1>7, <1>8, <1>9, <1>10, <1>11
     DEF Next, Step

LEMMA ApartInvariance ==
  ASSUME Apart
  PROVE  Spec => []ApartAll
<1>1. Init => ApartAll
  BY ApartInit
<1>2. ApartAll /\ [Next]_vars => ApartAll'
  BY NextInv, ApartStep DEF ApartAll
<1> QED BY <1>1, <1>2, PTL DEF Spec

\* With output folders that are never imported, no behaviour, whatever fails,
\* crashes or is repeated, changes the file a track was imported from.
THEOREM SourcesStayIntact ==
  ASSUME Apart
  PROVE  Spec => []SourcesIntact
<1>1. ApartAll => SourcesIntact
  <2> SUFFICES ASSUME ApartAll, NEW n \in DOMAIN tracks
               PROVE  disk[tracks[n].source] = Original(tracks[n].source)
    BY DEF SourcesIntact
  <2>1. tracks[n].source \in DOMAIN disk
    BY DEF ApartAll, Inv, LoopInv
  <2>2. tracks[n].source.dir \notin OutDirs
    BY DEF ApartAll, ApartInv, Apart
  <2> QED BY <2>1, <2>2 DEF ApartAll, ApartInv
<1> QED BY <1>1, ApartInvariance, PTL

\* And no output goes through gain and trim twice.
THEOREM ProcessedOnce ==
  ASSUME Apart
  PROVE  Spec => []NoSecondPass
<1>1. ApartAll => NoSecondPass
  BY DEF ApartAll, Clean, NoSecondPass
<1> QED BY <1>1, ApartInvariance, PTL

\* And, unless a file cannot even be closed, a run reported without a failure has
\* left the whole library complete, recorded and audited, whatever it started from.
THEOREM SuccessIsComplete ==
  ASSUME Apart, ~CloseCanFail
  PROVE  Spec => []SuccessMeansAllRecorded
<1>1. Init => DoneSoFar
  BY DEF Init, DoneSoFar
<1>2. ApartAll /\ DoneSoFar /\ [Next]_vars => DoneSoFar'
  BY DoneStep
<1>3. ApartAll /\ DoneSoFar => SuccessMeansAllRecorded
  <2> SUFFICES ASSUME ApartAll, DoneSoFar, pc = "idle", i > Len(all), failed = 0,
                      NEW n \in DOMAIN all
               PROVE  /\ tracks[n].output = OutPath(all[n])
                      /\ disk[tracks[n].output].whole
                      /\ <<runs, n>> \in audit
    BY DEF SuccessMeansAllRecorded
  <2>1. n \in 1 .. i - 1
    BY DEF ApartAll, Inv, TypeOK
  <2> QED BY <2>1 DEF ApartAll, DoneSoFar
<1> QED BY <1>1, <1>2, <1>3, ApartInvariance, PTL DEF Spec
=============================================================================
