---------------------------- MODULE ImportAnalyze ----------------------------
(***************************************************************************)
(* Filling the library: cmdImport and cmdAnalyze of the CLI and the GUI's  *)
(* ImportController::run, by several processes on one database, while the  *)
(* user replaces music files.                                              *)
(*                                                                         *)
(* The CLI imports rows and analyses them later: all tracks of a snapshot, *)
(* in a parallel batch (see ParallelFor) whose results it then stores one  *)
(* by one.  The GUI inserts a row and analyses it at once.  Every SQL      *)
(* statement commits by itself; a step may fail, and a process that dies   *)
(* is one that takes no further step.                                      *)
(*                                                                         *)
(* A file's content is the number of times it was replaced.  A decoder     *)
(* reads the header when it is opened and the samples in readAll().        *)
(***************************************************************************)
EXTENDS Naturals, Sequences, FiniteSets

CONSTANTS Files,      \* decodable files of the folder; others are skipped
          CliImports, \* runs of "djcli import"
          GuiImports, \* jobs of ImportController
          Analyses,   \* runs of "djcli analyze"
          None,       \* no result, no file
          MaxEdits    \* bound: times a file is replaced

Imports == CliImports \cup GuiImports
Procs == Imports \cup Analyses

Versions == 0 .. MaxEdits

\* A file being read: its header, and its samples once they are read.
Reading == [of : Files, head : Versions, made : Versions \cup {None}]

ASSUME ImportAssumption ==
  /\ CliImports \cap GuiImports = {}
  /\ Imports \cap Analyses = {}
  /\ IsFiniteSet(Files)
  /\ MaxEdits \in Nat
  /\ None \notin Versions \cup Reading

VARIABLES disk,    \* what each file contains
          tracks,  \* table track: source_path, its format's content, the inserter
          results, \* table analysis_result, by track id
          pc,
          todo,    \* an import: files the iteration has not come to
          work,    \* an import: what it reads, None between two files
          id,      \* an import: the row it has inserted for that, or 0
          all,     \* an analysis: ids and paths of the tracks it goes through
          items,   \* an analysis: the batch's items, by index
          at,      \* an analysis: the next item to store
          good, failed  \* what the run counts

db    == <<tracks, results>>
loop  == <<todo, work, id>>
batch == <<all, items, at>>
count == <<good, failed>>
vars  == <<disk, db, pc, loop, batch, count>>

Init ==
  /\ disk = [f \in Files |-> 0]
  /\ tracks = <<>>
  /\ results = <<>>
  /\ pc = [p \in Procs |-> "next"]
  /\ todo = [p \in Imports |-> Files]
  /\ work = [p \in Imports |-> None]
  /\ id = [p \in Imports |-> 0]
  /\ all = [a \in Analyses |-> <<>>]
  /\ items = [a \in Analyses |-> <<>>]
  /\ at = [a \in Analyses |-> 1]
  /\ good = [p \in Procs |-> 0]
  /\ failed = [p \in Procs |-> 0]

Goto(p, label) == pc' = [pc EXCEPT ![p] = label]
OneMore(n, p) == [n EXCEPT ![p] = @ + 1]

\* The user replaces a file, until one has been replaced MaxEdits times.
Replace(f) ==
  /\ \A g \in Files : disk[g] < MaxEdits
  /\ disk' = [disk EXCEPT ![f] = @ + 1]
  /\ UNCHANGED <<db, pc, loop, batch, count>>

Open(f) == [of |-> f, head |-> disk[f], made |-> None]
Read(r) == [r EXCEPT !.made = disk[r.of]]

-----------------------------------------------------------------------------
(* Importing a folder. *)

\* The iteration comes to a file, in the directory's order; probeFormat, or
\* openDecoder and format(), reads its header.
Probe(p, f) ==
  /\ pc[p] = "next"
  /\ f \in todo[p]
  /\ todo' = [todo EXCEPT ![p] = @ \ {f}]
  /\ work' = [work EXCEPT ![p] = Open(f)]
  /\ Goto(p, "insert")
  /\ UNCHANGED <<disk, db, id, batch, count>>

InsertRow(p) ==
  /\ tracks' = Append(tracks, [source |-> work[p].of, seen |-> work[p].head, by |-> p])
  /\ results' = Append(results, None)

\* The locals of the loop's body go out of scope.
BodyEnds(p) ==
  /\ work' = [work EXCEPT ![p] = None]
  /\ id' = [id EXCEPT ![p] = 0]
  /\ Goto(p, "next")

\* cmdImport: TrackRepository::insert, and the file is done with.
InsertOnly(p) ==
  /\ p \in CliImports /\ pc[p] = "insert"
  /\ InsertRow(p)
  /\ good' = OneMore(good, p)
  /\ BodyEnds(p)
  /\ UNCHANGED <<disk, todo, batch, failed>>

\* Mutant: a row counts as imported at once.
InsertAndCount(p) ==
  /\ p \in GuiImports /\ pc[p] = "insert"
  /\ InsertRow(p)
  /\ good' = OneMore(good, p)
  /\ id' = [id EXCEPT ![p] = Len(tracks')]
  /\ Goto(p, "analyze")
  /\ UNCHANGED <<disk, todo, work, batch, failed>>

\* ImportController: insert, which returns the row's id, then the analysis.
Insert(p) ==
  /\ p \in GuiImports /\ pc[p] = "insert"
  /\ InsertRow(p)
  /\ id' = [id EXCEPT ![p] = Len(tracks')]
  /\ Goto(p, "analyze")
  /\ UNCHANGED <<disk, todo, work, batch, count>>

\* pipeline.analyze(*decoder)
Analyze(p) ==
  /\ pc[p] = "analyze"
  /\ work' = [work EXCEPT ![p] = Read(@)]
  /\ Goto(p, "upsert")
  /\ UNCHANGED <<disk, db, todo, id, batch, count>>

\* Mutant: the id is the greatest one in the table.
UpsertLatest(p) ==
  /\ pc[p] = "upsert"
  /\ results' = [results EXCEPT ![Len(tracks)] = work[p]]
  /\ good' = OneMore(good, p)
  /\ BodyEnds(p)
  /\ UNCHANGED <<disk, tracks, todo, batch, failed>>

\* Mutant: a plain INSERT, into a table that has no UNIQUE(track_id).
UpsertInserts(p) ==
  /\ pc[p] = "upsert"
  /\ results' = Append(results, work[p])
  /\ good' = OneMore(good, p)
  /\ BodyEnds(p)
  /\ UNCHANGED <<disk, tracks, todo, batch, failed>>

\* results.upsert(id, r); ++imported
Upsert(p) ==
  /\ pc[p] = "upsert"
  /\ results' = [results EXCEPT ![id[p]] = work[p]]
  /\ good' = OneMore(good, p)
  /\ BodyEnds(p)
  /\ UNCHANGED <<disk, tracks, todo, batch, failed>>

\* No readable header: nothing is inserted.
ProbeFails(p, f) ==
  /\ pc[p] = "next"
  /\ f \in todo[p]
  /\ todo' = [todo EXCEPT ![p] = @ \ {f}]
  /\ failed' = OneMore(failed, p)
  /\ UNCHANGED <<disk, db, pc, work, id, batch, good>>

\* A step after it throws, a decoder's or a statement: the file counts as failed;
\* a row that is there stays.
FileFails(p) ==
  /\ p \in Imports /\ pc[p] \in {"insert", "analyze", "upsert"}
  /\ failed' = OneMore(failed, p)
  /\ BodyEnds(p)
  /\ UNCHANGED <<disk, db, todo, batch, good>>

\* The end of the folder, a directory that cannot be read, or a cancel (GUI):
\* files may be left out without being counted.
EndImport(p) ==
  /\ p \in Imports /\ pc[p] = "next"
  /\ Goto(p, "done")
  /\ UNCHANGED <<disk, db, loop, batch, count>>

-----------------------------------------------------------------------------
(* djcli analyze *)

Item(state, r) == [state |-> state, result |-> r]

\* tracks.all(), ordered by id, and AnalysisBatch::run's items.
Snapshot(a) ==
  /\ a \in Analyses /\ pc[a] = "next"
  /\ all' = [all EXCEPT ![a] = [i \in DOMAIN tracks |-> [id |-> i, path |-> tracks[i].source]]]
  /\ items' = [items EXCEPT ![a] = [i \in DOMAIN tracks |-> Item("pending", None)]]
  /\ Goto(a, "batch")
  /\ UNCHANGED <<disk, db, loop, at, count>>

\* A thread of the batch comes to an item, or fails to open its file.  Items are
\* started in any order, for nobody knows which thread goes on first.
OpenItem(a, i) ==
  /\ pc[a] = "batch" /\ items[a][i].state = "pending"
  /\ \E r \in {Item("open", Open(all[a][i].path)), Item("failed", None)} :
       items' = [items EXCEPT ![a][i] = r]
  /\ UNCHANGED <<disk, db, pc, loop, all, at, count>>

\* Its analysis ends, well or not.
ReadItem(a, i) ==
  /\ pc[a] = "batch" /\ items[a][i].state = "open"
  /\ \E r \in {Item("ok", Read(items[a][i].result)), Item("failed", None)} :
       items' = [items EXCEPT ![a][i] = r]
  /\ UNCHANGED <<disk, db, pc, loop, all, at, count>>

\* parallelFor returns when each item has ended (BatchSpec); nobody cancels it.
BatchReturns(a) ==
  /\ pc[a] = "batch"
  /\ \A i \in DOMAIN items[a] : items[a][i].state \in {"ok", "failed"}
  /\ Goto(a, "store")
  /\ UNCHANGED <<disk, db, loop, batch, count>>

Storing(a) == pc[a] = "store" /\ at[a] <= Len(all[a])
Stored(a) == items[a][at[a]]
TrackId(a) == all[a][at[a]].id

Store(a) ==
  /\ Storing(a) /\ Stored(a).state = "ok"
  /\ results' = [results EXCEPT ![TrackId(a)] = Stored(a).result]
  /\ good' = OneMore(good, a)
  /\ at' = OneMore(at, a)
  /\ UNCHANGED <<disk, tracks, pc, loop, all, items, failed>>

\* Nothing to store.
CountFailed(a) ==
  /\ Storing(a) /\ Stored(a).state = "failed"
  /\ failed' = OneMore(failed, a)
  /\ at' = OneMore(at, a)
  /\ UNCHANGED <<disk, db, pc, loop, all, items, good>>

\* Mutant: the loop goes on after a failed upsert without counting it.
StoreSkips(a) ==
  /\ Storing(a) /\ Stored(a).state = "ok"
  /\ at' = OneMore(at, a)
  /\ UNCHANGED <<disk, db, pc, loop, all, items, count>>

\* upsert throws, and nothing catches it before runCli: the results of all the
\* tracks from here on are dropped, and the exit code says so.
StoreFails(a) ==
  /\ Storing(a) /\ Stored(a).state = "ok"
  /\ Goto(a, "error")
  /\ items' = [items EXCEPT ![a] = <<>>]
  /\ UNCHANGED <<disk, db, loop, all, at, count>>

EndAnalysis(a) ==
  /\ pc[a] = "store" /\ at[a] > Len(all[a])
  /\ Goto(a, "done")
  /\ items' = [items EXCEPT ![a] = <<>>]
  /\ UNCHANGED <<disk, db, loop, all, at, count>>

-----------------------------------------------------------------------------
Import(p) ==
  \/ \E f \in Files : Probe(p, f) \/ ProbeFails(p, f)
  \/ InsertOnly(p) \/ Insert(p) \/ Analyze(p) \/ Upsert(p) \/ FileFails(p)
  \/ EndImport(p)

Analysis(a) ==
  \/ Snapshot(a)
  \/ \E i \in DOMAIN items[a] : OpenItem(a, i) \/ ReadItem(a, i)
  \/ BatchReturns(a) \/ Store(a) \/ CountFailed(a) \/ StoreFails(a) \/ EndAnalysis(a)

Next ==
  \/ \E f \in Files : Replace(f)
  \/ \E p \in Imports : Import(p)
  \/ \E a \in Analyses : Analysis(a)

Spec == Init /\ [][Next]_vars

-----------------------------------------------------------------------------
(* Properties. *)

Row == [source : Files, seen : Versions, by : Imports]
Listed == [id : Nat, path : Files]
BatchItem == [state : {"pending", "open", "ok", "failed"}, result : Reading \cup {None}]
Labels == {"next", "insert", "analyze", "upsert", "batch", "store", "done", "error"}

TypeOK ==
  /\ disk \in [Files -> Versions]
  /\ tracks \in Seq(Row)
  /\ results \in Seq(Reading \cup {None}) /\ Len(results) = Len(tracks)
  /\ pc \in [Procs -> Labels]
  /\ todo \in [Imports -> SUBSET Files]
  /\ work \in [Imports -> Reading \cup {None}]
  /\ id \in [Imports -> Nat]
  /\ all \in [Analyses -> Seq(Listed)]
  /\ items \in [Analyses -> Seq(BatchItem)]
  /\ at \in [Analyses -> Nat \ {0}]
  /\ good \in [Procs -> Nat]
  /\ failed \in [Procs -> Nat]

\* A reading belongs to a track: it was made of the track's file, and not before
\* the row's format was read.
Fits(r, t) ==
  /\ r.of = tracks[t].source
  /\ tracks[t].seen <= r.head
  /\ r.made # None => r.head <= r.made

\* Nothing that is in work is newer than the files, or belongs to another track;
\* and of a run that stores, what it has passed without a failure is stored.
Current(r) == r \in Reading /\ r.head <= disk[r.of]

RowInv == \A t \in DOMAIN tracks : tracks[t].seen <= disk[tracks[t].source]

WorkInv ==
  \A p \in Imports :
    /\ pc[p] \in {"insert", "analyze", "upsert"} => Current(work[p])
    /\ pc[p] \in {"analyze", "upsert"} =>
         id[p] \in DOMAIN tracks /\ Fits(work[p], id[p])
    /\ pc[p] = "insert" => work[p].made = None
    /\ pc[p] = "upsert" => work[p].made # None

AllInv ==
  \A a \in Analyses : \A i \in DOMAIN all[a] :
    /\ all[a][i].id \in DOMAIN tracks
    /\ tracks[all[a][i].id].source = all[a][i].path

ItemInv ==
  \A a \in Analyses : pc[a] \in {"batch", "store"} =>
    /\ DOMAIN items[a] = DOMAIN all[a]
    /\ \A i \in DOMAIN all[a] :
         /\ items[a][i].state \in {"open", "ok"} =>
              Current(items[a][i].result) /\ Fits(items[a][i].result, all[a][i].id)
         /\ items[a][i].state = "ok" => items[a][i].result.made # None

StoreInv ==
  \A a \in Analyses :
    /\ pc[a] \in {"next", "batch"} => at[a] = 1
    /\ pc[a] = "done" => at[a] > Len(all[a])
    /\ pc[a] \in {"store", "done"} /\ failed[a] = 0 =>
         \A i \in DOMAIN all[a] : i < at[a] => results[all[a][i].id] # None

\* However imports and analyses overlap, a stored result was computed from the
\* file of its own track, completely, and from nothing older than the row: the
\* ids of the snapshot, the indices of the batch and lastInsertRowId agree.
ResultsBelongToTheirTracks ==
  \A t \in DOMAIN results :
    results[t] # None => Fits(results[t], t) /\ results[t].made # None

Mine(p) == {t \in DOMAIN tracks : tracks[t].by = p}

\* What an import reports holds: "imported" are rows it has added, with a result
\* in the GUI, and every row it left without one is among "failed".
ImportReportIsTrue ==
  \A p \in Imports : pc[p] = "done" =>
    /\ p \in CliImports => good[p] = Cardinality(Mine(p))
    /\ p \in GuiImports =>
         /\ good[p] <= Cardinality({t \in Mine(p) : results[t] # None})
         /\ Cardinality({t \in Mine(p) : results[t] = None}) <= failed[p]
    /\ todo[p] = {} => good[p] + failed[p] = Cardinality(Files)

\* An analysis that ends with "failed 0" leaves every track that was there when
\* it began with a result.
SuccessMeansAllAnalysed ==
  \A a \in Analyses : pc[a] = "done" /\ failed[a] = 0 =>
    \A i \in DOMAIN all[a] : results[all[a][i].id] # None

\* A failed or aborted analysis takes no earlier result away.
AnalysedStaysAnalysed ==
  [][\A t \in DOMAIN results : results[t] # None => results'[t] # None]_vars
=============================================================================
