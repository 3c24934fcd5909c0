---------------------------- MODULE ApplyProfile ----------------------------
(***************************************************************************)
(* Applying a profile to the library: the loop of cmdApply (CLI) and       *)
(* ProcessController::run (GUI), ProcessingEngine::process and the files   *)
(* it reads and writes, setOutputPath and the audit log.  Runs follow one  *)
(* another; files are imported in between and meanwhile; the user cancels; *)
(* a step fails (the catch of the loop) or the process dies.               *)
(*                                                                         *)
(* A file's content is where its audio came from, how many times it was    *)
(* processed (a second pass repeats gain and trim computed for the first   *)
(* one's input; counted up to MaxRounds) and whether it is complete.       *)
(***************************************************************************)
EXTENDS Naturals, Sequences

CONSTANTS Files,       \* the music files that exist at first
          Container,   \* the profile's container, also the output's extension
          ImportDirs,  \* folders that get imported
          OutDirs,     \* output folders the user picks
          None,        \* no output_path, no buffer
          CloseCanFail, \* whether the last flush, in the stream's destructor, may fail
          MaxTracks, MaxRuns, MaxFaults, MaxRounds  \* bounds

Path == [dir : STRING, stem : STRING, ext : STRING]

ASSUME ApplyAssumption ==
  /\ Files \subseteq Path
  /\ Container \in STRING
  /\ OutDirs \subseteq STRING
  /\ None \notin Path
  /\ CloseCanFail \in BOOLEAN
  /\ MaxRuns \in Nat /\ MaxFaults \in Nat
  /\ MaxRounds \in Nat \ {0}

VARIABLES disk,    \* the files that exist, with their content
          tracks,  \* table track: source_path and output_path, by id
          audit,   \* audit entries: the run that made them and the track
          pc,      \* where the loop is
          all,     \* the source paths tracks.all() returned at the start
          i,       \* the loop's index
          outDir, buffer, failed, cancel, runs, faults

run  == <<all, outDir, runs>>
db   == <<tracks, audit>>
vars == <<disk, db, pc, i, run, buffer, failed, cancel, faults>>

Original(p) == [from |-> p, rounds |-> 0, whole |-> TRUE]

\* A file is created or replaced.
Put(p, content) ==
  disk' = [q \in DOMAIN disk \cup {p} |-> IF q = p THEN content ELSE disk[q]]

Init ==
  /\ disk = [p \in Files |-> Original(p)]
  /\ tracks = <<>>
  /\ audit = {}
  /\ pc = "idle"
  /\ all = <<>>
  /\ i = 1
  /\ outDir \in OutDirs
  /\ buffer = None
  /\ failed = 0
  /\ cancel = FALSE
  /\ runs = 0
  /\ faults = 0

-----------------------------------------------------------------------------
\* An import, perhaps of another process, adds a file it finds; source_path is
\* not unique, so a folder imported again adds its files again.
Import(p) ==
  /\ p.dir \in ImportDirs
  /\ Len(tracks) < MaxTracks
  /\ tracks' = Append(tracks, [source |-> p, output |-> None])
  /\ UNCHANGED <<disk, audit, pc, i, run, buffer, failed, cancel, faults>>

\* An unknown profile ends the run before it has touched anything: no step.
Start(d) ==
  /\ pc = "idle"
  /\ runs < MaxRuns
  /\ runs' = runs + 1
  /\ outDir' = d
  /\ all' = [n \in DOMAIN tracks |-> tracks[n].source]
  /\ i' = 1
  /\ failed' = 0
  /\ cancel' = FALSE
  /\ pc' = "next"
  /\ UNCHANGED <<disk, db, buffer, faults>>

\* MainWindow::cancelWork; the loop looks only between two tracks.
Cancel ==
  /\ pc # "idle"
  /\ cancel' = TRUE
  /\ UNCHANGED <<disk, db, pc, i, run, buffer, failed, faults>>

-----------------------------------------------------------------------------
Source == all[i]

\* Mutant: the output goes next to the source.
OutPathBesideSource(p) == [dir |-> p.dir, stem |-> p.stem, ext |-> Container]

OutPath(p) == [dir |-> outDir, stem |-> p.stem, ext |-> Container]

EndRun ==
  /\ pc = "next"
  /\ i > Len(all) \/ cancel
  /\ pc' = "idle"
  /\ UNCHANGED <<disk, db, i, run, buffer, failed, cancel, faults>>

\* plan(): a track that already conforms is copied, any other is converted.
\* Whether one conforms depends on format, analysis and profile; one in another
\* container never does.
Plan ==
  /\ pc = "next"
  /\ i <= Len(all) /\ ~cancel
  /\ \/ Source.ext = Container /\ pc' = "copy"
     \/ pc' = "read"
  /\ UNCHANGED <<disk, db, i, run, buffer, failed, cancel, faults>>

\* What decoding, trim, resampling and gain make of a file.
Processed(c) ==
  [c EXCEPT !.rounds = IF c.rounds < MaxRounds THEN c.rounds + 1 ELSE c.rounds]

\* Mutant: a track that has an output is processed from there.
ReadLatest ==
  /\ pc = "read"
  /\ buffer' = Processed(IF tracks[i].output \in DOMAIN disk
                         THEN disk[tracks[i].output] ELSE disk[Source])
  /\ pc' = "open"
  /\ UNCHANGED <<disk, db, i, run, failed, cancel, faults>>

\* readAll(): the whole source is in memory before the output is opened.  A
\* truncated file is read as far as it goes ("tolerate truncation").
Read ==
  /\ pc = "read"
  /\ buffer' = Processed(disk[Source])
  /\ pc' = "open"
  /\ UNCHANGED <<disk, db, i, run, failed, cancel, faults>>

\* copy_file(overwrite_existing), from one file to another.
Copy ==
  /\ pc = "copy"
  /\ OutPath(Source) # Source
  /\ buffer' = disk[Source]
  /\ pc' = "open"
  /\ UNCHANGED <<disk, db, i, run, failed, cancel, faults>>

\* The output is created, or truncated.
Open ==
  /\ pc = "open"
  /\ Put(OutPath(Source), [buffer EXCEPT !.whole = FALSE])
  /\ pc' = "write"
  /\ UNCHANGED <<db, i, run, buffer, failed, cancel, faults>>

\* Mutant: the writer looks at the cancel flag too.
WriteUnlessCancelled ==
  /\ pc = "write"
  /\ IF cancel THEN UNCHANGED disk ELSE Put(OutPath(Source), buffer)
  /\ pc' = IF cancel THEN "idle" ELSE "record"
  /\ buffer' = None
  /\ UNCHANGED <<db, i, run, failed, cancel, faults>>

Write ==
  /\ pc = "write"
  /\ Put(OutPath(Source), buffer)
  /\ buffer' = None
  /\ pc' = "record"
  /\ UNCHANGED <<db, i, run, failed, cancel, faults>>

\* setOutputPath(t.id, outPath)
Record ==
  /\ pc = "record"
  /\ tracks' = [tracks EXCEPT ![i].output = OutPath(Source)]
  /\ pc' = "audit"
  /\ UNCHANGED <<disk, audit, i, run, buffer, failed, cancel, faults>>

\* audit.insert(entry); ++processed
Audit ==
  /\ pc = "audit"
  /\ audit' = audit \cup {<<runs, i>>}
  /\ i' = i + 1
  /\ pc' = "next"
  /\ UNCHANGED <<disk, tracks, run, buffer, failed, cancel, faults>>

-----------------------------------------------------------------------------
(* Failures: the catch of the loop counts the track and goes on. *)

Caught ==
  /\ failed' = failed + 1
  /\ i' = i + 1
  /\ buffer' = None
  /\ pc' = "next"
  /\ UNCHANGED <<disk, db, run, cancel>>

Working == {"copy", "read", "open", "write", "record", "audit"}

\* Mutant: a failure is logged but not counted.
FailsUncounted ==
  /\ pc \in Working
  /\ faults < MaxFaults
  /\ faults' = faults + 1
  /\ i' = i + 1
  /\ buffer' = None
  /\ pc' = "next"
  /\ UNCHANGED <<disk, db, run, failed, cancel>>

\* Mutant: the catch is around process() alone, and the entry is made anyway.
FailsButAudits ==
  /\ pc \in Working
  /\ faults < MaxFaults
  /\ faults' = faults + 1
  /\ failed' = failed + 1
  /\ buffer' = None
  /\ pc' = "audit"
  /\ UNCHANGED <<disk, db, i, run, cancel>>

\* Mutant: the catch advances the loop, which the loop then does again.
FailsAndSkips ==
  /\ pc \in Working
  /\ faults < MaxFaults
  /\ faults' = faults + 1
  /\ failed' = failed + 1
  /\ i' = i + 2
  /\ buffer' = None
  /\ pc' = "next"
  /\ UNCHANGED <<disk, db, run, cancel>>

\* Any step may throw: unreadable source, unsupported container or bit depth,
\* full disk, locked database.  A failed write leaves what it has written.
Fails ==
  /\ pc \in Working
  /\ faults < MaxFaults
  /\ faults' = faults + 1
  /\ Caught

\* writeWav looks at the stream before it is closed: when the disk is full only
\* for the rest it flushes then, nobody notices and the track counts as processed.
\* copy_file checks that too.
LosesTail ==
  /\ pc = "write"
  /\ buffer.rounds > 0
  /\ CloseCanFail
  /\ faults < MaxFaults
  /\ faults' = faults + 1
  /\ buffer' = None
  /\ pc' = "record"
  /\ UNCHANGED <<disk, db, i, run, failed, cancel>>

\* copy_file refuses to copy a file onto itself.
CopyOntoItself ==
  /\ pc = "copy"
  /\ OutPath(Source) = Source
  /\ Caught
  /\ UNCHANGED faults

\* A source truncated within its header is rejected.
RejectTorn ==
  /\ pc = "read"
  /\ ~disk[Source].whole
  /\ Caught
  /\ UNCHANGED faults

\* The process dies; files and committed rows stay.
Crash ==
  /\ pc # "idle"
  /\ faults < MaxFaults
  /\ faults' = faults + 1
  /\ pc' = "idle"
  /\ buffer' = None
  /\ UNCHANGED <<disk, db, i, run, failed, cancel>>

Step ==
  \/ EndRun \/ Plan \/ Read \/ Copy \/ Open \/ Write \/ Record \/ Audit
  \/ CopyOntoItself \/ RejectTorn

Next ==
  \/ \E p \in DOMAIN disk : Import(p)
  \/ \E d \in OutDirs : Start(d)
  \/ Step \/ Cancel \/ Fails \/ LosesTail \/ Crash

Spec == Init /\ [][Next]_vars

-----------------------------------------------------------------------------
(* Properties. *)

Content == [from : Files, rounds : 0 .. MaxRounds, whole : BOOLEAN]

TypeOK ==
  /\ DOMAIN disk \subseteq Path
  /\ \A p \in DOMAIN disk : disk[p] \in Content
  /\ tracks \in Seq([source : Path, output : Path \cup {None}])
  /\ audit \subseteq Nat \X DOMAIN tracks
  /\ pc \in {"idle", "next"} \cup Working
  /\ all \in Seq(Path) /\ Len(all) <= Len(tracks)
  /\ i \in 1 .. Len(all) + 1
  /\ outDir \in OutDirs
  /\ buffer \in Content \cup {None}
  /\ failed \in 0 .. i - 1
  /\ cancel \in BOOLEAN
  /\ runs \in 0 .. MaxRuns
  /\ faults \in 0 .. MaxFaults

\* What the loop relies on between its steps: the snapshot it works from still
\* describes the tracks, and each step finds what the one before it left.
LoopInv ==
  /\ \A n \in DOMAIN tracks : tracks[n].source \in DOMAIN disk
  /\ \A n \in DOMAIN all : all[n] = tracks[n].source
  /\ pc \in Working => i <= Len(all)
  /\ pc \in {"open", "write"} => buffer \in Content
  /\ pc \in {"write", "record"} => OutPath(Source) \in DOMAIN disk
  /\ pc = "audit" => tracks[i].output \in DOMAIN disk

\* What a run without failures has done so far: each track it has passed is
\* recorded, audited, and complete unless its output is being written again.
DoneSoFar ==
  (pc # "idle" \/ i > Len(all)) /\ failed = 0 =>
    /\ \A n \in 1 .. i - 1 :
         /\ tracks[n].output = OutPath(all[n])
         /\ tracks[n].output \in DOMAIN disk
         /\ <<runs, n>> \in audit
         /\ \/ disk[tracks[n].output].whole
            \/ pc = "write" /\ OutPath(Source) = tracks[n].output
    /\ pc \in {"record", "audit"} => disk[OutPath(Source)].whole
    /\ pc = "audit" => tracks[i].output = OutPath(Source)

\* With output folders apart from the imported ones: no run touches a folder that
\* gets imported, and what is about to be written was processed once.
ApartInv ==
  /\ \A p \in DOMAIN disk : p.dir \notin OutDirs => disk[p] = Original(p)
  /\ \A n \in DOMAIN tracks : tracks[n].source.dir \in ImportDirs
  /\ pc \in {"open", "write"} => buffer.rounds <= 1 /\ buffer.whole

\* Track.h:10-11, "leaving sourcePath untouched": the file a track was imported
\* from stays what it was, through failures, crashes and runs.
SourcesIntact ==
  \A n \in DOMAIN tracks : disk[tracks[n].source] = Original(tracks[n].source)

\* However often the library is processed, no output has gone through gain and
\* trim twice: they were computed for the source, not for an earlier output.
NoSecondPass == \A p \in DOMAIN disk : disk[p].rounds <= 1

\* An audit entry speaks of a track whose output path is recorded and exists.
AuditedOutputsExist ==
  \A e \in audit : tracks[e[2]].output \in DOMAIN disk

\* JobControl.h:8-9, of the GUI's own flag: without a failure or crash, a run
\* that has ended, cancelled or not, leaves no partly written file.
CancelLeavesNoTornFile ==
  pc = "idle" /\ faults = 0 => \A p \in DOMAIN disk : disk[p].whole

\* A run that went through with "0 failed" has given every track that was there
\* when it started a complete output, a recorded path and an entry of this run,
\* and so repaired whatever an earlier run left behind, provided that a file that
\* was written is also closed without an error.
SuccessMeansAllRecorded ==
  pc = "idle" /\ i > Len(all) /\ failed = 0 =>
    \A n \in DOMAIN all : /\ tracks[n].output = OutPath(all[n])
                          /\ disk[tracks[n].output].whole
                          /\ <<runs, n>> \in audit

\* ProcessController.h:13-14: after such a run the output of a track is made
\* from that track's source.
EachTrackHasItsOwnOutput ==
  pc = "idle" /\ i > Len(all) /\ failed = 0 =>
    \A n \in DOMAIN all : disk[tracks[n].output].from = disk[all[n]].from
=============================================================================
