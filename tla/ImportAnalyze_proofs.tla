------------------------- MODULE ImportAnalyze_proofs -------------------------
(***************************************************************************)
(* Proofs about ImportAnalyze, for any folder, any number of imports and   *)
(* analyses and any number of edits: types, that results belong to their   *)
(* tracks, that an analysis without failures leaves no track out, that     *)
(* none takes a result away, and that what an import counts is so.         *)
(***************************************************************************)
EXTENDS ImportAnalyze, SequenceTheorems, FiniteSetTheorems, TLAPS

-----------------------------------------------------------------------------
(* Types. *)

\* What is read of a file has the type of a reading.
LEMMA OpenType ==
  ASSUME TypeOK, NEW f \in Files
  PROVE  Open(f) \in Reading
BY DEF TypeOK, Open, Reading

LEMMA ReadType ==
  ASSUME TypeOK, NEW r \in Reading
  PROVE  Read(r) \in Reading
BY DEF TypeOK, Read, Reading

\* A row and its empty result are appended together.
LEMMA InsertTypes ==
  ASSUME TypeOK, NEW p \in Imports, work[p] \in Reading, InsertRow(p)
  PROVE  /\ tracks' \in Seq(Row)
         /\ results' \in Seq(Reading \cup {None})
         /\ Len(results') = Len(tracks')
         /\ Len(tracks') = Len(tracks) + 1
         /\ \A t \in DOMAIN tracks : tracks'[t] = tracks[t] /\ results'[t] = results[t]
         /\ tracks'[Len(tracks')] = [source |-> work[p].of, seen |-> work[p].head, by |-> p]
         /\ results'[Len(tracks')] = None
<1> DEFINE row == [source |-> work[p].of, seen |-> work[p].head, by |-> p]
<1>1. row \in Row
  BY DEF Row, Reading, Versions
<1>2. tracks \in Seq(Row) /\ results \in Seq(Reading \cup {None}) /\ Len(results) = Len(tracks)
  BY DEF TypeOK
<1>3. tracks' = Append(tracks, row) /\ results' = Append(results, None)
  BY DEF InsertRow
<1> HIDE DEF row
<1>4. QED
  BY <1>1, <1>2, <1>3 DEF row

LEMMA TypeInit == Init => TypeOK
BY ImportAssumption DEF Init, TypeOK, Versions, Procs, Labels

LEMMA TypeStep == TypeOK /\ WorkInv /\ AllInv /\ ItemInv /\ [Next]_vars => TypeOK'
<1> SUFFICES ASSUME TypeOK, WorkInv, AllInv, ItemInv, [Next]_vars
             PROVE  TypeOK'
  OBVIOUS
<1> USE DEF TypeOK, Goto, OneMore, BodyEnds, db, loop, batch, count
<1>0. /\ Imports \subseteq Procs /\ Analyses \subseteq Procs
      /\ {"next", "insert", "analyze", "upsert"} \subseteq Labels
      /\ {"batch", "store", "done", "error"} \subseteq Labels
  BY DEF Procs, Labels
<1>1. ASSUME NEW f \in Files, Replace(f)
      PROVE  TypeOK'
  BY <1>0, <1>1, ImportAssumption DEF Replace, Versions
<1>2. ASSUME NEW p \in Imports, NEW f \in Files, Probe(p, f)
      PROVE  TypeOK'
  <2>1. Open(f) \in Reading
    BY OpenType
  <2>2. QED
    BY <1>0, <1>2, <2>1 DEF Probe
<1>3. ASSUME NEW p \in Imports, NEW f \in Files, ProbeFails(p, f)
      PROVE  TypeOK'
  BY <1>0, <1>3 DEF ProbeFails
<1>4. ASSUME NEW p \in Imports, InsertOnly(p)
      PROVE  TypeOK'
  <2>1. work[p] \in Reading /\ InsertRow(p)
    BY <1>0, <1>4 DEF InsertOnly, WorkInv, Current
  <2>2. tracks' \in Seq(Row) /\ results' \in Seq(Reading \cup {None})
        /\ Len(results') = Len(tracks')
    BY <2>1, InsertTypes
  <2>3. QED
    BY <1>0, <1>4, <2>2 DEF InsertOnly
<1>5. ASSUME NEW p \in Imports, Insert(p)
      PROVE  TypeOK'
  <2>1. work[p] \in Reading /\ InsertRow(p)
    BY <1>0, <1>5 DEF Insert, WorkInv, Current
  <2>2. tracks' \in Seq(Row) /\ results' \in Seq(Reading \cup {None})
        /\ Len(results') = Len(tracks')
    BY <2>1, InsertTypes
  <2>3. Len(tracks') \in Nat
    BY <2>2
  <2>4. QED
    BY <1>0, <1>5, <2>2, <2>3 DEF Insert
<1>6. ASSUME NEW p \in Imports, Analyze(p)
      PROVE  TypeOK'
  <2>1. work[p] \in Reading
    BY <1>0, <1>6 DEF Analyze, WorkInv, Current
  <2>2. Read(work[p]) \in Reading
    BY <2>1, ReadType
  <2>3. QED
    BY <1>0, <1>6, <2>2 DEF Analyze
<1>7. ASSUME NEW p \in Imports, Upsert(p)
      PROVE  TypeOK'
  <2>1. work[p] \in Reading /\ id[p] \in DOMAIN tracks
    BY <1>0, <1>7 DEF Upsert, WorkInv, Current
  <2>2. results' \in Seq(Reading \cup {None}) /\ Len(results') = Len(tracks)
    BY <1>0, <1>7, <2>1, ExceptSeq DEF Upsert
  <2>3. QED
    BY <1>0, <1>7, <2>2 DEF Upsert
<1>8. ASSUME NEW p \in Imports, FileFails(p)
      PROVE  TypeOK'
  BY <1>0, <1>8 DEF FileFails
<1>9. ASSUME NEW p \in Imports, EndImport(p)
      PROVE  TypeOK'
  BY <1>0, <1>9 DEF EndImport
<1>10. ASSUME NEW a \in Analyses, Snapshot(a)
       PROVE  TypeOK'
  <2>1. [i \in DOMAIN tracks |-> [id |-> i, path |-> tracks[i].source]]
          \in Seq(Listed)
    <3>1. \A i \in DOMAIN tracks : tracks[i] \in Row
      OBVIOUS
    <3>2. \A i \in DOMAIN tracks : [id |-> i, path |-> tracks[i].source] \in Listed
      BY <3>1 DEF Row, Listed
    <3>3. QED
      BY <3>2
  <2>2. Item("pending", None) \in BatchItem
    BY DEF Item, BatchItem
  <2>3. [i \in DOMAIN tracks |-> Item("pending", None)] \in Seq(BatchItem)
    BY <2>2
  <2>4. QED
    BY <1>0, <1>10, <2>1, <2>3 DEF Snapshot
<1>11. ASSUME NEW a \in Analyses, NEW i \in DOMAIN items[a], OpenItem(a, i) \/ ReadItem(a, i)
       PROVE  TypeOK'
  <2>1. ASSUME NEW r \in BatchItem, items' = [items EXCEPT ![a][i] = r]
        PROVE  items' \in [Analyses -> Seq(BatchItem)]
    <3>1. items[a] \in Seq(BatchItem) /\ i \in 1 .. Len(items[a])
      OBVIOUS
    <3>2. [items[a] EXCEPT ![i] = r] \in Seq(BatchItem)
      BY <3>1, ExceptSeq
    <3>3. QED
      BY <2>1, <3>2
  <2>2. Item("failed", None) \in BatchItem
    BY DEF Item, BatchItem
  <2>3. CASE OpenItem(a, i)
    <3>1. Item("open", Open(all[a][i].path)) \in BatchItem
      <4>1. all[a][i] \in Listed
        BY <2>3 DEF OpenItem, ItemInv
      <4>2. Open(all[a][i].path) \in Reading
        BY <4>1, OpenType DEF Listed
      <4>3. QED
        BY <4>2 DEF Item, BatchItem
    <3>2. items' \in [Analyses -> Seq(BatchItem)]
      BY <2>1, <2>2, <2>3, <3>1 DEF OpenItem
    <3>3. QED
      BY <2>3, <3>2 DEF OpenItem
  <2>4. CASE ReadItem(a, i)
    <3>1. Item("ok", Read(items[a][i].result)) \in BatchItem
      <4>1. items[a][i].result \in Reading
        BY <2>4 DEF ReadItem, ItemInv, Current
      <4>2. QED
        BY <4>1, ReadType DEF Item, BatchItem
    <3>2. items' \in [Analyses -> Seq(BatchItem)]
      BY <2>1, <2>2, <2>4, <3>1 DEF ReadItem
    <3>3. QED
      BY <2>4, <3>2 DEF ReadItem
  <2>5. QED
    BY <1>11, <2>3, <2>4
<1>12. ASSUME NEW a \in Analyses, BatchReturns(a)
       PROVE  TypeOK'
  BY <1>0, <1>12 DEF BatchReturns
<1>13. ASSUME NEW a \in Analyses, Store(a)
       PROVE  TypeOK'
  <2>1. Stored(a).result \in Reading \cup {None}
    <3>1. at[a] \in DOMAIN items[a]
      BY <1>13 DEF Store, Storing, ItemInv
    <3>2. items[a][at[a]] \in BatchItem
      BY <3>1
    <3>3. QED
      BY <3>2 DEF Stored, BatchItem
  <2>2. TrackId(a) \in DOMAIN tracks
    BY <1>13 DEF Store, Storing, TrackId, AllInv
  <2>3. results' \in Seq(Reading \cup {None}) /\ Len(results') = Len(tracks)
    BY <1>13, <2>1, <2>2, ExceptSeq DEF Store
  <2>4. QED
    BY <1>0, <1>13, <2>3 DEF Store
<1>14. ASSUME NEW a \in Analyses, CountFailed(a)
       PROVE  TypeOK'
  BY <1>0, <1>14 DEF CountFailed, Storing
<1>15. ASSUME NEW a \in Analyses, StoreFails(a) \/ EndAnalysis(a)
       PROVE  TypeOK'
  <2>1. <<>> \in Seq(BatchItem)
    OBVIOUS
  <2>2. items' \in [Analyses -> Seq(BatchItem)]
    BY <1>15, <2>1 DEF StoreFails, EndAnalysis
  <2>3. pc' \in [Procs -> Labels]
    BY <1>0, <1>15 DEF StoreFails, EndAnalysis
  <2>4. QED
    BY <1>15, <2>2, <2>3 DEF StoreFails, EndAnalysis
<1>16. CASE UNCHANGED vars
  BY <1>0, <1>16 DEF vars
<1>17. QED
  BY <1>1, <1>2, <1>3, <1>4, <1>5, <1>6, <1>7, <1>8, <1>9, <1>10, <1>11, <1>12,
     <1>13, <1>14, <1>15, <1>16 DEF Next, Import, Analysis

-----------------------------------------------------------------------------
(* What any step does to the files and the tables, and to one process. *)

Parts == RowInv /\ WorkInv /\ AllInv /\ ItemInv /\ StoreInv

\* Files get newer; rows stay.
LEMMA Grows ==
  ASSUME TypeOK, WorkInv, [Next]_vars
  PROVE  /\ \A f \in Files : disk[f] <= disk'[f]
         /\ \A t \in DOMAIN tracks : t \in DOMAIN tracks' /\ tracks'[t] = tracks[t]
<1> USE DEF db
<1>1. ASSUME NEW f \in Files, Replace(f)
      PROVE  tracks' = tracks /\ \A g \in Files : disk[g] <= disk'[g]
  BY <1>1 DEF Replace, TypeOK, Versions
<1>2. ASSUME NEW p \in Imports, InsertOnly(p) \/ Insert(p)
      PROVE  /\ disk' = disk
             /\ \A t \in DOMAIN tracks : t \in DOMAIN tracks' /\ tracks'[t] = tracks[t]
  <2>1. work[p] \in Reading /\ InsertRow(p)
    BY <1>2 DEF InsertOnly, Insert, WorkInv, Current
  <2>2. /\ tracks' \in Seq(Row) /\ Len(tracks') = Len(tracks) + 1
        /\ \A t \in DOMAIN tracks : tracks'[t] = tracks[t]
    BY <2>1, InsertTypes
  <2>3. DOMAIN tracks \subseteq DOMAIN tracks'
    BY <2>2 DEF TypeOK
  <2>4. QED
    BY <1>2, <2>2, <2>3 DEF InsertOnly, Insert
<1>3. ASSUME NEW p \in Imports,
             \/ \E f \in Files : Probe(p, f) \/ ProbeFails(p, f)
             \/ Analyze(p) \/ Upsert(p) \/ FileFails(p) \/ EndImport(p)
      PROVE  disk' = disk /\ tracks' = tracks
  BY <1>3 DEF Probe, ProbeFails, Analyze, Upsert, FileFails, EndImport
<1>4. ASSUME NEW a \in Analyses, Analysis(a)
      PROVE  disk' = disk /\ tracks' = tracks
  BY <1>4 DEF Analysis, Snapshot, OpenItem, ReadItem, BatchReturns, Store, CountFailed,
     StoreFails, EndAnalysis
<1>5. \A f \in Files : disk[f] <= disk[f]
  BY DEF TypeOK, Versions
<1>6. CASE UNCHANGED vars
  BY <1>5, <1>6 DEF vars
<1>7. QED
  BY <1>1, <1>2, <1>3, <1>4, <1>5, <1>6 DEF Next, Import

\* A result is either left alone, new and empty, or made from its track's file.
LEMMA ResultStep ==
  ASSUME TypeOK, Parts, [Next]_vars
  PROVE  /\ \A t \in DOMAIN results : t \in DOMAIN results'
         /\ \A t \in DOMAIN results' :
              \/ t \in DOMAIN results /\ results'[t] = results[t]
              \/ t \notin DOMAIN results /\ results'[t] = None
              \/ /\ t \in DOMAIN results
                 /\ results'[t] \in Reading /\ results'[t].made # None
                 /\ Fits(results'[t], t)
<1> USE DEF db, Parts
<1> DEFINE Good(t) ==
             \/ t \in DOMAIN results /\ results'[t] = results[t]
             \/ t \notin DOMAIN results /\ results'[t] = None
             \/ /\ t \in DOMAIN results
                /\ results'[t] \in Reading /\ results'[t].made # None
                /\ Fits(results'[t], t)
<1> DEFINE Goal == (\A t \in DOMAIN results : t \in DOMAIN results')
                   /\ \A t \in DOMAIN results' : Good(t)
<1>1. CASE results' = results
  BY <1>1
<1>2. ASSUME NEW p \in Imports, InsertOnly(p) \/ Insert(p)
      PROVE  Goal
  <2>1. work[p] \in Reading /\ InsertRow(p)
    BY <1>2 DEF InsertOnly, Insert, WorkInv, Current
  <2>2. /\ results' \in Seq(Reading \cup {None}) /\ Len(results') = Len(results) + 1
        /\ \A t \in DOMAIN results : results'[t] = results[t]
        /\ results'[Len(results')] = None
    <3>1. Len(results) = Len(tracks) /\ DOMAIN results = DOMAIN tracks
      BY DEF TypeOK
    <3>2. QED
      BY <2>1, <3>1, InsertTypes
  <2>3. DOMAIN results = 1 .. Len(results) /\ DOMAIN results' = 1 .. Len(results) + 1
        /\ Len(results) \in Nat
    BY <2>2 DEF TypeOK
  <2>4. QED
    BY <2>2, <2>3
<1>3. ASSUME NEW p \in Imports, Upsert(p)
      PROVE  Goal
  <2>1. /\ work[p] \in Reading /\ work[p].made # None
        /\ id[p] \in DOMAIN results /\ Fits(work[p], id[p])
    BY <1>3 DEF Upsert, WorkInv, Current, TypeOK
  <2>2. results' = [results EXCEPT ![id[p]] = work[p]]
    BY <1>3 DEF Upsert
  <2>3. QED
    BY <2>1, <2>2
<1>4. ASSUME NEW a \in Analyses, Store(a)
      PROVE  Goal
  <2>1. at[a] \in DOMAIN all[a] /\ pc[a] = "store"
    BY <1>4 DEF Store, Storing, TypeOK
  <2>2. /\ Stored(a).result \in Reading /\ Stored(a).result.made # None
        /\ Fits(Stored(a).result, TrackId(a))
    BY <1>4, <2>1 DEF Store, Stored, TrackId, ItemInv, Current
  <2>3. TrackId(a) \in DOMAIN results
    BY <2>1 DEF TrackId, AllInv, TypeOK
  <2>4. results' = [results EXCEPT ![TrackId(a)] = Stored(a).result]
    BY <1>4 DEF Store
  <2>5. QED
    BY <2>2, <2>3, <2>4
<1>5. ASSUME NEW p \in Imports,
             \/ \E f \in Files : Probe(p, f) \/ ProbeFails(p, f)
             \/ Analyze(p) \/ FileFails(p) \/ EndImport(p)
      PROVE  results' = results
  BY <1>5 DEF Probe, ProbeFails, Analyze, FileFails, EndImport
<1>6. ASSUME NEW a \in Analyses,
             \/ Snapshot(a) \/ BatchReturns(a) \/ CountFailed(a) \/ StoreFails(a)
             \/ EndAnalysis(a)
             \/ \E i \in DOMAIN items[a] : OpenItem(a, i) \/ ReadItem(a, i)
      PROVE  results' = results
  BY <1>6 DEF Snapshot, OpenItem, ReadItem, BatchReturns, CountFailed, StoreFails, EndAnalysis
<1>7. ASSUME NEW f \in Files, Replace(f)
      PROVE  results' = results
  BY <1>7 DEF Replace
<1>8. CASE UNCHANGED vars
  BY <1>1, <1>8 DEF vars
<1> HIDE DEF Goal
<1>9. Goal
  BY <1>1, <1>2, <1>3, <1>4, <1>5, <1>6, <1>7, <1>8 DEF Next, Import, Analysis, Goal
<1>10. QED
  BY <1>9 DEF Goal

\* What is current stays so while files get newer.
LEMMA StaysCurrent ==
  ASSUME TypeOK, TypeOK', Parts, [Next]_vars, NEW r, Current(r)
  PROVE  r \in Reading /\ r.head <= disk'[r.of]
<1>1. r.of \in Files /\ r.head \in Versions
  BY DEF Current, Reading
<1>2. disk[r.of] \in Versions /\ disk'[r.of] \in Versions
  BY <1>1 DEF TypeOK
<1>3. disk[r.of] <= disk'[r.of]
  BY <1>1, Grows DEF Parts
<1>4. QED
  BY <1>1, <1>2, <1>3 DEF Current, Versions

\* What one import can do in a step.
LEMMA ImportSteps ==
  ASSUME TypeOK, Parts, [Next]_vars, NEW p \in Imports
  PROVE  \/ pc'[p] = pc[p] /\ work'[p] = work[p] /\ id'[p] = id[p]
         \/ pc'[p] \in {"next", "done"}
         \/ \E f \in Files : Probe(p, f)
         \/ Insert(p)
         \/ Analyze(p)
<1> USE DEF TypeOK, loop, Goto, BodyEnds
<1>0. p \in Procs /\ \A a \in Analyses : a # p /\ a \in Procs
  BY ImportAssumption DEF Procs
<1>1. ASSUME NEW q \in Imports, q # p, Import(q)
      PROVE  pc'[p] = pc[p] /\ work'[p] = work[p] /\ id'[p] = id[p]
  BY <1>0, <1>1 DEF Import, Probe, ProbeFails, InsertOnly, Insert, Analyze, Upsert,
     FileFails, EndImport
<1>2. CASE InsertOnly(p) \/ Upsert(p) \/ FileFails(p) \/ EndImport(p)
  BY <1>0, <1>2 DEF InsertOnly, Upsert, FileFails, EndImport
<1>3. ASSUME NEW f \in Files, ProbeFails(p, f)
      PROVE  pc'[p] = pc[p] /\ work'[p] = work[p] /\ id'[p] = id[p]
  BY <1>3 DEF ProbeFails
<1>4. ASSUME NEW a \in Analyses, Analysis(a)
      PROVE  pc'[p] = pc[p] /\ work'[p] = work[p] /\ id'[p] = id[p]
  BY <1>0, <1>4 DEF Analysis, Snapshot, OpenItem, ReadItem, BatchReturns, Store,
     CountFailed, StoreFails, EndAnalysis
<1>5. ASSUME NEW f \in Files, Replace(f)
      PROVE  pc'[p] = pc[p] /\ work'[p] = work[p] /\ id'[p] = id[p]
  BY <1>5 DEF Replace
<1>6. CASE UNCHANGED vars
  BY <1>6 DEF vars
<1>7. QED
  BY <1>1, <1>2, <1>3, <1>4, <1>5, <1>6 DEF Next, Import

\* What one analysis can do in a step.
LEMMA AnalysisSteps ==
  ASSUME TypeOK, Parts, [Next]_vars, NEW a \in Analyses
  PROVE  \/ /\ pc'[a] = pc[a] /\ all'[a] = all[a] /\ items'[a] = items[a]
            /\ at'[a] = at[a] /\ failed'[a] = failed[a]
         \/ Analysis(a)
<1> USE DEF TypeOK, batch, count, Goto, BodyEnds, OneMore
<1>0. a \in Procs /\ \A p \in Imports : a # p /\ p \in Procs
  BY ImportAssumption DEF Procs
<1> DEFINE Same == /\ pc'[a] = pc[a] /\ all'[a] = all[a] /\ items'[a] = items[a]
                   /\ at'[a] = at[a] /\ failed'[a] = failed[a]
<1>1. ASSUME NEW p \in Imports, Import(p)
      PROVE  Same
  BY <1>0, <1>1 DEF Import, Probe, ProbeFails, InsertOnly, Insert, Analyze, Upsert,
     FileFails, EndImport
<1>2. ASSUME NEW b \in Analyses, b # a, Analysis(b)
      PROVE  Same
  BY <1>0, <1>2 DEF Analysis, Snapshot, OpenItem, ReadItem, BatchReturns, Store,
     CountFailed, StoreFails, EndAnalysis
<1>3. ASSUME NEW f \in Files, Replace(f)
      PROVE  Same
  BY <1>3 DEF Replace
<1>4. CASE UNCHANGED vars
  BY <1>4 DEF vars
<1>5. QED
  BY <1>1, <1>2, <1>3, <1>4 DEF Next

-----------------------------------------------------------------------------
(* The parts of the invariant, one by one. *)

LEMMA PartsInit == Init => Parts
BY DEF Init, Parts, RowInv, WorkInv, AllInv, ItemInv, StoreInv, Procs

LEMMA RowStep ==
  ASSUME TypeOK, TypeOK', Parts, [Next]_vars
  PROVE  RowInv'
<1> SUFFICES ASSUME NEW t \in DOMAIN tracks'
             PROVE  tracks'[t].seen <= disk'[tracks'[t].source]
  BY DEF RowInv
<1> USE DEF Parts
<1>1. CASE t \in DOMAIN tracks
  <2>1. tracks[t] \in Row
    BY <1>1 DEF TypeOK
  <2>2. tracks[t].source \in Files /\ tracks[t].seen \in Versions
    BY <2>1 DEF Row
  <2>3. tracks[t].seen <= disk[tracks[t].source]
    BY <1>1 DEF RowInv
  <2>4. disk[tracks[t].source] <= disk'[tracks[t].source]
    BY <2>2, Grows
  <2>5. disk[tracks[t].source] \in Versions /\ disk'[tracks[t].source] \in Versions
    BY <2>2 DEF TypeOK
  <2>6. tracks'[t] = tracks[t]
    BY <1>1, Grows
  <2>7. QED
    BY <2>2, <2>3, <2>4, <2>5, <2>6 DEF Versions
<1>2. ASSUME NEW p \in Imports, InsertOnly(p) \/ Insert(p), t \notin DOMAIN tracks
      PROVE  tracks'[t].seen <= disk'[tracks'[t].source]
  <2>1. Current(work[p]) /\ InsertRow(p) /\ disk' = disk
    BY <1>2 DEF InsertOnly, Insert, WorkInv
  <2>2. /\ Len(tracks') = Len(tracks) + 1 /\ tracks' \in Seq(Row)
        /\ tracks'[Len(tracks')] = [source |-> work[p].of, seen |-> work[p].head, by |-> p]
    BY <2>1, InsertTypes DEF Current
  <2>3. t = Len(tracks')
    BY <1>2, <2>2 DEF TypeOK
  <2>4. QED
    BY <2>1, <2>2, <2>3 DEF Current
<1>3. ASSUME NEW p \in Imports,
             \/ \E f \in Files : Probe(p, f) \/ ProbeFails(p, f)
             \/ Analyze(p) \/ Upsert(p) \/ FileFails(p) \/ EndImport(p)
      PROVE  tracks' = tracks
  BY <1>3 DEF Probe, ProbeFails, Analyze, Upsert, FileFails, EndImport, db
<1>4. ASSUME NEW a \in Analyses, Analysis(a)
      PROVE  tracks' = tracks
  BY <1>4 DEF Analysis, Snapshot, OpenItem, ReadItem, BatchReturns, Store, CountFailed,
     StoreFails, EndAnalysis, db
<1>5. ASSUME NEW f \in Files, Replace(f)
      PROVE  tracks' = tracks
  BY <1>5 DEF Replace, db
<1>6. CASE UNCHANGED vars
  BY <1>1, <1>6 DEF vars, db
<1>7. QED
  BY <1>1, <1>2, <1>3, <1>4, <1>5, <1>6 DEF Next, Import

LEMMA WorkStep ==
  ASSUME TypeOK, TypeOK', Parts, [Next]_vars
  PROVE  WorkInv'
<1> SUFFICES ASSUME NEW p \in Imports
             PROVE  /\ pc'[p] \in {"insert", "analyze", "upsert"} => Current(work[p])'
                    /\ pc'[p] \in {"analyze", "upsert"} =>
                         id'[p] \in DOMAIN tracks' /\ Fits(work[p], id[p])'
                    /\ pc'[p] = "insert" => work'[p].made = None
                    /\ pc'[p] = "upsert" => work'[p].made # None
  BY DEF WorkInv
<1> USE DEF Parts
<1>0. p \in Procs
  BY DEF Procs
<1>1. CASE pc'[p] = pc[p] /\ work'[p] = work[p] /\ id'[p] = id[p]
  <2>1. Current(work[p]) => Current(work[p])'
    BY <1>1, StaysCurrent DEF Current
  <2>2. ASSUME id[p] \in DOMAIN tracks, Fits(work[p], id[p])
        PROVE  id'[p] \in DOMAIN tracks' /\ Fits(work[p], id[p])'
    BY <1>1, <2>2, Grows DEF Fits
  <2>3. QED
    BY <1>1, <2>1, <2>2 DEF WorkInv
<1>2. CASE pc'[p] \in {"next", "done"}
  BY <1>2
<1>3. ASSUME NEW f \in Files, Probe(p, f)
      PROVE  pc'[p] = "insert" /\ Current(work[p])' /\ work'[p].made = None
  <2>1. pc'[p] = "insert" /\ work'[p] = Open(f) /\ disk' = disk
    BY <1>0, <1>3 DEF Probe, Goto, TypeOK
  <2>2. disk[f] \in Versions
    BY DEF TypeOK
  <2>3. Open(f) \in Reading /\ Open(f).head = disk[f] /\ Open(f).of = f
        /\ Open(f).made = None
    BY OpenType DEF Open
  <2>4. QED
    BY <2>1, <2>2, <2>3 DEF Current, Versions
<1>4. CASE Insert(p)
  <2>1. Current(work[p]) /\ work[p] \in Reading /\ InsertRow(p)
    BY <1>4 DEF Insert, WorkInv, Current
  <2>2. pc'[p] = "analyze" /\ work' = work /\ disk' = disk /\ id'[p] = Len(tracks')
    BY <1>0, <1>4 DEF Insert, Goto, TypeOK
  <2>3. /\ Len(tracks') = Len(tracks) + 1 /\ tracks' \in Seq(Row)
        /\ tracks'[Len(tracks')] = [source |-> work[p].of, seen |-> work[p].head, by |-> p]
    BY <2>1, InsertTypes
  <2>4. id'[p] \in DOMAIN tracks'
    BY <2>2, <2>3 DEF TypeOK
  <2>5. work[p].made = None
    BY <1>4 DEF Insert, WorkInv
  <2>6. QED
    BY <2>1, <2>2, <2>3, <2>4, <2>5 DEF Current, Fits, Reading, Versions
<1>5. CASE Analyze(p)
  <2>1. /\ Current(work[p]) /\ id[p] \in DOMAIN tracks /\ Fits(work[p], id[p])
        /\ work[p] \in Reading
    BY <1>5 DEF Analyze, WorkInv, Current
  <2>2. /\ pc'[p] = "upsert" /\ work'[p] = Read(work[p]) /\ disk' = disk
        /\ id' = id /\ tracks' = tracks
    BY <1>0, <1>5 DEF Analyze, Goto, TypeOK, db
  <2>3. /\ Read(work[p]) \in Reading /\ Read(work[p]).of = work[p].of
        /\ Read(work[p]).head = work[p].head /\ Read(work[p]).made = disk[work[p].of]
    BY <2>1, ReadType DEF Read, Reading
  <2>4. disk[work[p].of] # None
    BY <2>1, ImportAssumption DEF Reading, TypeOK
  <2>5. QED
    BY <2>1, <2>2, <2>3, <2>4 DEF Current, Fits
<1>6. QED
  BY <1>1, <1>2, <1>3, <1>4, <1>5, ImportSteps

LEMMA AllStep ==
  ASSUME TypeOK, TypeOK', Parts, [Next]_vars
  PROVE  AllInv'
<1> SUFFICES ASSUME NEW a \in Analyses, NEW i \in DOMAIN all'[a]
             PROVE  /\ all'[a][i].id \in DOMAIN tracks'
                    /\ tracks'[all'[a][i].id].source = all'[a][i].path
  BY DEF AllInv
<1> USE DEF Parts
<1>1. CASE all'[a] = all[a]
  BY <1>1, Grows DEF AllInv
<1>2. CASE Snapshot(a)
  BY <1>2, Grows DEF Snapshot, TypeOK
<1>3. CASE Analysis(a) /\ ~Snapshot(a)
  BY <1>1, <1>3 DEF Analysis, OpenItem, ReadItem, BatchReturns, Store, CountFailed, StoreFails,
     EndAnalysis, batch
<1>4. QED
  BY <1>1, <1>2, <1>3, AnalysisSteps

LEMMA ItemStep ==
  ASSUME TypeOK, TypeOK', Parts, [Next]_vars
  PROVE  ItemInv'
<1> DEFINE Fine(i, a) ==
             /\ items[a][i].state \in {"open", "ok"} =>
                  Current(items[a][i].result) /\ Fits(items[a][i].result, all[a][i].id)
             /\ items[a][i].state = "ok" => items[a][i].result.made # None
<1> SUFFICES ASSUME NEW a \in Analyses, pc'[a] \in {"batch", "store"}
             PROVE  /\ DOMAIN items'[a] = DOMAIN all'[a]
                    /\ \A i \in DOMAIN all'[a] : Fine(i, a)'
  BY DEF ItemInv
<1> USE DEF Parts
<1>0. a \in Procs
  BY DEF Procs
\* An item that is left alone keeps what it has.
<1>1. ASSUME pc[a] \in {"batch", "store"}, all'[a] = all[a],
             NEW i \in DOMAIN all[a], items'[a][i] = items[a][i]
      PROVE  Fine(i, a)'
  <2>1. Fine(i, a)
    BY <1>1 DEF ItemInv
  <2>2. all[a][i].id \in DOMAIN tracks
    BY DEF AllInv
  <2>3. all[a][i].id \in DOMAIN tracks' /\ tracks'[all[a][i].id] = tracks[all[a][i].id]
    BY <2>2, Grows
  <2>4. Current(items[a][i].result) => Current(items[a][i].result)'
    BY <1>1, StaysCurrent DEF Current
  <2>5. QED
    BY <1>1, <2>1, <2>3, <2>4 DEF Fits
<1>2. ASSUME pc[a] \in {"batch", "store"}, all'[a] = all[a], items'[a] = items[a]
      PROVE  /\ DOMAIN items'[a] = DOMAIN all'[a]
             /\ \A i \in DOMAIN all'[a] : Fine(i, a)'
  BY <1>1, <1>2 DEF ItemInv
<1>3. CASE pc'[a] = pc[a] /\ all'[a] = all[a] /\ items'[a] = items[a]
  BY <1>2, <1>3
<1>4. CASE BatchReturns(a) \/ Store(a) \/ CountFailed(a)
  BY <1>0, <1>2, <1>4 DEF BatchReturns, Store, CountFailed, Storing, batch
<1>5. CASE Snapshot(a)
  <2>1. /\ all'[a] = [i \in DOMAIN tracks |-> [id |-> i, path |-> tracks[i].source]]
        /\ items'[a] = [i \in DOMAIN tracks |-> Item("pending", None)]
    BY <1>5 DEF Snapshot, TypeOK
  <2>2. QED
    BY <2>1 DEF Item
<1>6. ASSUME NEW i \in DOMAIN items[a], OpenItem(a, i) \/ ReadItem(a, i)
      PROVE  /\ DOMAIN items'[a] = DOMAIN all'[a]
             /\ \A j \in DOMAIN all'[a] : Fine(j, a)'
  <2>1. /\ pc[a] = "batch" /\ all' = all /\ tracks' = tracks /\ disk' = disk
        /\ \E r : items' = [items EXCEPT ![a][i] = r]
    BY <1>6 DEF OpenItem, ReadItem, db
  <2>2. /\ DOMAIN items'[a] = DOMAIN items[a]
        /\ \A j \in DOMAIN items[a] : j # i => items'[a][j] = items[a][j]
    BY <2>1 DEF TypeOK
  <2>3. DOMAIN items[a] = DOMAIN all[a]
    BY <2>1 DEF ItemInv
  <2>4. \A j \in DOMAIN all[a] : j # i => Fine(j, a)'
    BY <1>1, <2>1, <2>2, <2>3
  <2>5. all[a][i] \in Listed /\ all[a][i].id \in DOMAIN tracks
        /\ tracks[all[a][i].id].source = all[a][i].path
    BY <2>3 DEF AllInv, TypeOK
  <2>6. CASE OpenItem(a, i)
    <3> DEFINE f == all[a][i].path
    <3>1. items'[a][i] \in {Item("open", Open(f)), Item("failed", None)}
      BY <2>6 DEF OpenItem, TypeOK
    <3>2. f \in Files /\ disk[f] \in Versions
      BY <2>5 DEF Listed, TypeOK
    <3>3. tracks[all[a][i].id].seen <= disk[f]
      BY <2>5 DEF RowInv
    <3> HIDE DEF f
    <3>4. /\ Open(f) \in Reading /\ Open(f).of = f /\ Open(f).head = disk[f]
          /\ Open(f).made = None /\ disk[f] <= disk[f]
      BY <3>2, OpenType DEF Open, Versions
    <3>5. tracks'[all[a][i].id].source = f
      BY <2>1, <2>5 DEF f
    <3>6. ASSUME items'[a][i] = Item("failed", None)
          PROVE  Fine(i, a)'
      BY <3>6 DEF Item
    <3>7. ASSUME items'[a][i] = Item("open", Open(f))
          PROVE  Fine(i, a)'
      <4>1. items'[a][i].state = "open" /\ items'[a][i].result = Open(f)
        BY <3>7 DEF Item
      <4>2. QED
        BY <2>1, <3>3, <3>4, <3>5, <4>1 DEF Current, Fits
    <3>8. QED
      BY <2>1, <2>2, <2>3, <2>4, <3>1, <3>6, <3>7
  <2>7. CASE ReadItem(a, i)
    <3> DEFINE r == items[a][i].result
    <3>1. /\ items'[a][i] \in {Item("ok", Read(r)), Item("failed", None)}
          /\ items[a][i].state = "open"
      BY <2>7 DEF ReadItem, TypeOK
    <3>2. Current(r) /\ Fits(r, all[a][i].id)
      BY <2>1, <2>3, <3>1 DEF ItemInv
    <3>3. r \in Reading
      BY <3>2 DEF Current
    <3>4. /\ Read(r) \in Reading /\ Read(r).of = r.of /\ Read(r).head = r.head
          /\ Read(r).made = disk[r.of]
      BY <3>3, ReadType DEF Read, Reading
    <3>5. disk[r.of] # None
      BY <3>3, ImportAssumption DEF Reading, TypeOK
    <3> HIDE DEF r
    <3>6. /\ Read(r) \in Reading /\ Read(r).head <= disk'[Read(r).of]
          /\ Read(r).of = tracks'[all[a][i].id].source
          /\ tracks'[all[a][i].id].seen <= Read(r).head
          /\ Read(r).head <= Read(r).made
      BY <2>1, <3>2, <3>4, <3>5 DEF Current, Fits
    <3>7. Fine(i, a)'
      BY <2>1, <3>1, <3>4, <3>5, <3>6 DEF Item, Current, Fits
    <3>8. QED
      BY <2>1, <2>2, <2>3, <2>4, <3>7
  <2>8. QED
    BY <1>6, <2>6, <2>7
<1>7. CASE StoreFails(a) \/ EndAnalysis(a)
  BY <1>0, <1>7 DEF StoreFails, EndAnalysis, Goto, TypeOK
<1>8. QED
  BY <1>3, <1>4, <1>5, <1>6, <1>7, AnalysisSteps DEF Analysis

LEMMA StoreStep ==
  ASSUME TypeOK, TypeOK', Parts, [Next]_vars
  PROVE  StoreInv'
<1> SUFFICES ASSUME NEW a \in Analyses
             PROVE  /\ pc'[a] \in {"next", "batch"} => at'[a] = 1
                    /\ pc'[a] = "done" => at'[a] > Len(all'[a])
                    /\ pc'[a] \in {"store", "done"} /\ failed'[a] = 0 =>
                         \A i \in DOMAIN all'[a] : i < at'[a] => results'[all'[a][i].id] # None
  BY DEF StoreInv
<1> USE DEF Parts
<1>0. a \in Procs
  BY DEF Procs
\* What is stored stays stored.
<1>1. \A t \in DOMAIN results : results[t] # None => results'[t] # None
  BY ResultStep, ImportAssumption
<1>2. \A i \in DOMAIN all[a] : all[a][i].id \in DOMAIN results
  BY DEF AllInv, TypeOK
<1>3. CASE /\ pc'[a] = pc[a] /\ all'[a] = all[a] /\ at'[a] = at[a] /\ failed'[a] = failed[a]
  BY <1>1, <1>2, <1>3 DEF StoreInv
<1>4. CASE Snapshot(a)
  BY <1>0, <1>4 DEF Snapshot, Goto, TypeOK, StoreInv
<1>5. CASE \E i \in DOMAIN items[a] : OpenItem(a, i) \/ ReadItem(a, i)
  BY <1>3, <1>5 DEF OpenItem, ReadItem, count
<1>6. CASE BatchReturns(a)
  BY <1>0, <1>6 DEF BatchReturns, Goto, TypeOK, StoreInv, batch, count
<1>7. CASE Store(a)
  <2>1. /\ pc'[a] = "store" /\ pc[a] = "store" /\ all' = all /\ failed' = failed
        /\ at'[a] = at[a] + 1 /\ at[a] \in DOMAIN all[a]
        /\ results' = [results EXCEPT ![TrackId(a)] = Stored(a).result]
    BY <1>7 DEF Store, Storing, OneMore, TypeOK
  <2>2. Stored(a).result \in Reading
    BY <1>7, <2>1 DEF Store, Stored, ItemInv, Current
  <2>3. results'[all[a][at[a]].id] # None
    BY <1>2, <2>1, <2>2, ImportAssumption DEF TrackId
  <2>4. ASSUME NEW i \in DOMAIN all[a], i < at[a] + 1, failed[a] = 0
        PROVE  results'[all[a][i].id] # None
    <3>1. i < at[a] \/ i = at[a]
      BY <2>4 DEF TypeOK
    <3>2. QED
      BY <1>1, <1>2, <2>1, <2>3, <2>4, <3>1 DEF StoreInv
  <2>5. QED
    BY <2>1, <2>4
<1>8. CASE CountFailed(a)
  <2>1. pc'[a] = "store" /\ failed'[a] # 0
    BY <1>0, <1>8 DEF CountFailed, Storing, OneMore, TypeOK
  <2>2. QED
    BY <2>1
<1>9. CASE StoreFails(a)
  BY <1>0, <1>9 DEF StoreFails, Goto, TypeOK
<1>10. CASE EndAnalysis(a)
  <2>1. /\ pc[a] = "store" /\ pc'[a] = "done" /\ all' = all /\ at' = at
        /\ failed' = failed /\ at[a] > Len(all[a])
    BY <1>0, <1>10 DEF EndAnalysis, Goto, TypeOK, count
  <2>2. QED
    BY <1>1, <1>2, <2>1 DEF StoreInv
<1>11. QED
  BY <1>3, <1>4, <1>5, <1>6, <1>7, <1>8, <1>9, <1>10, AnalysisSteps DEF Analysis

LEMMA BelongStep ==
  ASSUME TypeOK, Parts, ResultsBelongToTheirTracks, [Next]_vars
  PROVE  ResultsBelongToTheirTracks'
<1> SUFFICES ASSUME NEW t \in DOMAIN results', results'[t] # None
             PROVE  /\ results'[t].of = tracks'[t].source
                    /\ tracks'[t].seen <= results'[t].head
                    /\ results'[t].head <= results'[t].made
                    /\ results'[t].made # None
  BY DEF ResultsBelongToTheirTracks, Fits
<1>1. t \in DOMAIN results /\ Fits(results'[t], t) /\ results'[t].made # None
  BY ResultStep DEF ResultsBelongToTheirTracks
<1>2. t \in DOMAIN tracks
  BY <1>1 DEF TypeOK
<1>3. QED
  BY <1>1, <1>2, Grows DEF Fits, Parts

-----------------------------------------------------------------------------
(* What an import counts. *)

\* The row in work is left out: an analysis may store its result before p does.
With(p) == {t \in Mine(p) : t # id[p] /\ results[t] # None}
Without(p) == {t \in Mine(p) : t # id[p] /\ results[t] = None}

\* A file is either to come, in work, or counted.
InWork(p) == IF pc[p] \in {"insert", "analyze", "upsert"} THEN 1 ELSE 0

CountsHold(p) ==
  /\ pc[p] \in {"next", "insert", "analyze", "upsert", "done"}
  /\ p \in CliImports => /\ pc[p] \notin {"analyze", "upsert"}
                         /\ good[p] = Cardinality(Mine(p))
  /\ pc[p] \in {"analyze", "upsert"} => id[p] \in Mine(p)
  /\ pc[p] \in {"next", "insert", "done"} => id[p] = 0
  /\ p \in GuiImports => /\ good[p] <= Cardinality(With(p))
                         /\ Cardinality(Without(p)) <= failed[p]
  /\ pc[p] # "done" \/ todo[p] = {} =>
       good[p] + failed[p] + Cardinality(todo[p]) + InWork(p) = Cardinality(Files)

CountInv == \A p \in Imports : CountsHold(p)


\* What is counted is finite: rows are numbered from 1, files are a folder's.
LEMMA CountsFinite ==
  ASSUME TypeOK, NEW p \in Imports
  PROVE  /\ IsFiniteSet(Mine(p)) /\ IsFiniteSet(With(p)) /\ IsFiniteSet(Without(p))
         /\ IsFiniteSet(todo[p])
         /\ Cardinality(Mine(p)) \in Nat /\ Cardinality(With(p)) \in Nat
         /\ Cardinality(Without(p)) \in Nat /\ Cardinality(todo[p]) \in Nat
         /\ Cardinality(Files) \in Nat
         /\ Len(tracks) \in Nat /\ DOMAIN tracks = 1 .. Len(tracks) /\ 0 \notin DOMAIN tracks
<1>1. Len(tracks) \in Nat /\ DOMAIN tracks = 1 .. Len(tracks)
  BY DEF TypeOK
<1>2. IsFiniteSet(DOMAIN tracks)
  BY <1>1, FS_Interval
<1>3. /\ Mine(p) \in SUBSET DOMAIN tracks /\ With(p) \in SUBSET DOMAIN tracks
      /\ Without(p) \in SUBSET DOMAIN tracks
  BY DEF Mine, With, Without
<1>4. IsFiniteSet(Mine(p)) /\ IsFiniteSet(With(p)) /\ IsFiniteSet(Without(p))
  BY <1>2, <1>3, FS_Subset
<1>5. IsFiniteSet(Files) /\ todo[p] \in SUBSET Files
  BY ImportAssumption DEF TypeOK
<1>6. IsFiniteSet(todo[p])
  BY <1>5, FS_Subset
<1>7. QED
  BY <1>1, <1>4, <1>5, <1>6, FS_CardinalityType

\* As long as p's rows and the one in work are the same, rows only gain results.
LEMMA ResultsAreGained ==
  ASSUME TypeOK, TypeOK', Parts, [Next]_vars, NEW p \in Imports,
         Mine(p)' = Mine(p), id'[p] = id[p]
  PROVE  /\ Cardinality(With(p)) <= Cardinality(With(p)')
         /\ Cardinality(Without(p)') <= Cardinality(Without(p))
<1>1. \A t \in Mine(p) : t \in DOMAIN results /\ (results[t] # None => results'[t] # None)
  BY ResultStep, ImportAssumption DEF Mine, TypeOK
<1>2. With(p) \in SUBSET With(p)' /\ Without(p)' \in SUBSET Without(p)
  BY <1>1 DEF With, Without
<1>3. IsFiniteSet(With(p)') /\ IsFiniteSet(Without(p))
  <2>1. IsFiniteSet(Without(p))
    BY CountsFinite
  <2>2. IsFiniteSet(DOMAIN tracks')
    BY FS_Interval DEF TypeOK
  <2>3. With(p)' \in SUBSET DOMAIN tracks'
    BY DEF With, Mine
  <2>4. QED
    BY <2>1, <2>2, <2>3, FS_Subset
<1>4. QED
  BY <1>2, <1>3, FS_Subset

\* A step that is not p's leaves its counters, and adds no row of p.
LEMMA OthersCount ==
  ASSUME TypeOK, TypeOK', Parts, [Next]_vars, NEW p \in Imports, CountsHold(p),
         Mine(p)' = Mine(p), id'[p] = id[p], pc'[p] = pc[p], todo'[p] = todo[p],
         good'[p] = good[p], failed'[p] = failed[p]
  PROVE  CountsHold(p)'
<1>1. /\ Cardinality(With(p)) <= Cardinality(With(p)')
      /\ Cardinality(Without(p)') <= Cardinality(Without(p))
  BY ResultsAreGained
<1>2. /\ Cardinality(With(p)) \in Nat /\ Cardinality(Without(p)) \in Nat
      /\ Cardinality(With(p)') \in Nat /\ Cardinality(Without(p)') \in Nat
  <2>1. IsFiniteSet(DOMAIN tracks')
    BY FS_Interval DEF TypeOK
  <2>2. With(p)' \in SUBSET DOMAIN tracks' /\ Without(p)' \in SUBSET DOMAIN tracks'
    BY DEF With, Without, Mine
  <2>3. QED
    BY <2>1, <2>2, CountsFinite, FS_Subset, FS_CardinalityType
<1>3. good[p] \in Nat /\ failed[p] \in Nat
  BY DEF TypeOK, Procs
<1>4. p \in GuiImports => /\ good'[p] <= Cardinality(With(p)')
                          /\ Cardinality(Without(p)') <= failed'[p]
  BY <1>1, <1>2, <1>3 DEF CountsHold
<1>5. InWork(p)' = InWork(p) /\ Mine(p)' = Mine(p)
  BY DEF InWork
<1>6. QED
  BY <1>4, <1>5 DEF CountsHold

\* The row an import adds.
LEMMA OwnRow ==
  ASSUME TypeOK, TypeOK', NEW p \in Imports, work[p] \in Reading, InsertRow(p)
  PROVE  /\ Len(tracks) + 1 \notin DOMAIN tracks /\ Len(tracks') = Len(tracks) + 1
         /\ Mine(p)' = Mine(p) \cup {Len(tracks) + 1}
         /\ \A q \in Imports \ {p} : Mine(q)' = Mine(q)
         /\ \A t \in DOMAIN tracks : results'[t] = results[t]
<1>1. /\ Len(tracks') = Len(tracks) + 1
      /\ \A t \in DOMAIN tracks : tracks'[t] = tracks[t] /\ results'[t] = results[t]
      /\ tracks'[Len(tracks) + 1] = [source |-> work[p].of, seen |-> work[p].head, by |-> p]
  BY InsertTypes
<1>2. /\ Len(tracks) \in Nat /\ DOMAIN tracks = 1 .. Len(tracks)
      /\ DOMAIN tracks' = 1 .. Len(tracks')
  BY DEF TypeOK
<1>3. DOMAIN tracks' = DOMAIN tracks \cup {Len(tracks) + 1} /\ Len(tracks) + 1 \notin DOMAIN tracks
  BY <1>1, <1>2
<1>4. tracks'[Len(tracks) + 1].by = p
  BY <1>1
<1>5. QED
  BY <1>1, <1>3, <1>4 DEF Mine

\* What an import's own step does to what it counts.
LEMMA OwnCount ==
  ASSUME TypeOK, TypeOK', Parts, [Next]_vars, NEW p \in Imports, CountsHold(p), Import(p)
  PROVE  CountsHold(p)'
<1> USE DEF Goto, OneMore, BodyEnds, db, loop, batch, count
<1>0. /\ p \in Procs /\ good[p] \in Nat /\ failed[p] \in Nat /\ pc \in [Procs -> Labels]
      /\ todo \in [Imports -> SUBSET Files] /\ id \in [Imports -> Nat]
      /\ good \in [Procs -> Nat] /\ failed \in [Procs -> Nat]
      /\ CliImports \cap GuiImports = {}
  BY ImportAssumption DEF TypeOK, Procs
<1>F. /\ IsFiniteSet(Mine(p)) /\ IsFiniteSet(With(p)) /\ IsFiniteSet(Without(p))
      /\ IsFiniteSet(todo[p])
      /\ Cardinality(Mine(p)) \in Nat /\ Cardinality(With(p)) \in Nat
      /\ Cardinality(Without(p)) \in Nat /\ Cardinality(todo[p]) \in Nat
      /\ Cardinality(Files) \in Nat
      /\ Len(tracks) \in Nat /\ 0 \notin DOMAIN tracks
  BY CountsFinite
<1> DEFINE Balance == good[p] + failed[p] + Cardinality(todo[p]) + InWork(p) = Cardinality(Files)
<1>1. ASSUME NEW f \in Files, Probe(p, f) \/ ProbeFails(p, f)
      PROVE  CountsHold(p)'
  <2>1. /\ pc[p] = "next" /\ f \in todo[p] /\ todo'[p] = todo[p] \ {f} /\ id' = id
        /\ tracks' = tracks /\ results' = results /\ good' = good
    BY <1>0, <1>1 DEF Probe, ProbeFails
  <2>2. Cardinality(todo'[p]) = Cardinality(todo[p]) - 1
    BY <1>F, <2>1, FS_RemoveElement
  <2>3. \/ pc'[p] = "insert" /\ failed'[p] = failed[p]
        \/ pc'[p] = "next" /\ failed'[p] = failed[p] + 1
    BY <1>0, <1>1 DEF Probe, ProbeFails
  <2>4. Mine(p)' = Mine(p) /\ With(p)' = With(p) /\ Without(p)' = Without(p)
    BY <2>1 DEF Mine, With, Without
  <2>5. Balance
    BY <2>1 DEF CountsHold
  <2>6. Balance'
    BY <1>0, <1>F, <2>1, <2>2, <2>3, <2>5 DEF InWork
  <2>7. p \in GuiImports => /\ good'[p] <= Cardinality(With(p)')
                            /\ Cardinality(Without(p)') <= failed'[p]
    BY <1>0, <1>F, <2>1, <2>3, <2>4 DEF CountsHold
  <2>8. QED
    BY <2>1, <2>3, <2>4, <2>6, <2>7 DEF CountsHold
<1>2. CASE InsertOnly(p)
  <2>1. work[p] \in Reading /\ InsertRow(p) /\ p \in CliImports /\ pc[p] = "insert"
    BY <1>2 DEF InsertOnly, Parts, WorkInv, Current
  <2>2. /\ pc'[p] = "next" /\ id'[p] = 0 /\ todo' = todo /\ failed' = failed
        /\ good'[p] = good[p] + 1
    BY <1>0, <1>2 DEF InsertOnly
  <2>3. Len(tracks) + 1 \notin Mine(p) /\ Mine(p)' = Mine(p) \cup {Len(tracks) + 1}
    BY <2>1, OwnRow DEF Mine
  <2>4. Cardinality(Mine(p)') = Cardinality(Mine(p)) + 1
    BY <1>F, <2>3, FS_AddElement
  <2>5. Balance
    BY <2>1 DEF CountsHold
  <2>6. Balance'
    BY <1>0, <1>F, <2>1, <2>2, <2>5 DEF InWork
  <2>7. p \notin GuiImports /\ good[p] = Cardinality(Mine(p))
    BY <1>0, <2>1 DEF CountsHold
  <2>8. QED
    BY <2>2, <2>4, <2>6, <2>7 DEF CountsHold
<1>3. CASE Insert(p)
  <2>1. work[p] \in Reading /\ InsertRow(p) /\ p \in GuiImports /\ pc[p] = "insert"
    BY <1>3 DEF Insert, Parts, WorkInv, Current
  <2>2. /\ pc'[p] = "analyze" /\ id'[p] = Len(tracks') /\ todo' = todo
        /\ failed' = failed /\ good' = good
    BY <1>0, <1>3 DEF Insert
  <2>3. /\ Len(tracks) + 1 \notin DOMAIN tracks /\ Len(tracks') = Len(tracks) + 1
        /\ Mine(p)' = Mine(p) \cup {Len(tracks) + 1}
        /\ \A t \in DOMAIN tracks : results'[t] = results[t]
    BY <2>1, OwnRow
  <2>4. id[p] = 0 /\ Mine(p) \subseteq DOMAIN tracks
    BY <2>1 DEF CountsHold, Mine
  <2>5. With(p)' = With(p) /\ Without(p)' = Without(p)
    BY <1>F, <2>2, <2>3, <2>4 DEF With, Without
  <2>6. Balance
    BY <2>1 DEF CountsHold
  <2>7. Balance'
    BY <2>1, <2>2, <2>6 DEF InWork
  <2>8. p \notin CliImports /\ id'[p] \in Mine(p)'
    BY <1>0, <2>1, <2>2, <2>3
  <2>9. QED
    BY <2>1, <2>2, <2>5, <2>7, <2>8 DEF CountsHold
<1>4. CASE Analyze(p)
  <2>1. /\ pc[p] = "analyze" /\ pc'[p] = "upsert" /\ id' = id /\ todo' = todo
        /\ tracks' = tracks /\ results' = results /\ good' = good /\ failed' = failed
    BY <1>0, <1>4 DEF Analyze
  <2>2. /\ Mine(p)' = Mine(p) /\ With(p)' = With(p) /\ Without(p)' = Without(p)
        /\ InWork(p)' = InWork(p)
    BY <2>1 DEF Mine, With, Without, InWork
  <2>3. QED
    BY <2>1, <2>2 DEF CountsHold
<1>5. CASE Upsert(p)
  <2>1. /\ pc[p] = "upsert" /\ pc'[p] = "next" /\ id'[p] = 0 /\ todo' = todo
        /\ tracks' = tracks /\ results' = [results EXCEPT ![id[p]] = work[p]]
        /\ good'[p] = good[p] + 1 /\ failed' = failed
    BY <1>0, <1>5 DEF Upsert
  <2>2. work[p] # None /\ id[p] \in Mine(p) /\ p \notin CliImports
    BY <2>1, ImportAssumption DEF CountsHold, Parts, WorkInv, Current
  <2>3. Mine(p)' = Mine(p) /\ Mine(p) \subseteq DOMAIN tracks /\ DOMAIN results = DOMAIN tracks
    BY <2>1 DEF Mine, TypeOK
  <2>4. id[p] \notin With(p) /\ With(p)' = With(p) \cup {id[p]} /\ Without(p)' = Without(p)
    BY <1>F, <2>1, <2>2, <2>3 DEF With, Without
  <2>5. Cardinality(With(p)') = Cardinality(With(p)) + 1
    BY <1>F, <2>4, FS_AddElement
  <2>6. Balance
    BY <2>1 DEF CountsHold
  <2>7. Balance'
    BY <1>0, <1>F, <2>1, <2>6 DEF InWork
  <2>8. p \in GuiImports => /\ good'[p] <= Cardinality(With(p)')
                            /\ Cardinality(Without(p)') <= failed'[p]
    BY <1>0, <1>F, <2>1, <2>4, <2>5 DEF CountsHold
  <2>9. QED
    BY <2>1, <2>2, <2>7, <2>8 DEF CountsHold
<1>6. CASE FileFails(p)
  <2>1. /\ pc[p] \in {"insert", "analyze", "upsert"} /\ pc'[p] = "next" /\ id'[p] = 0
        /\ todo' = todo /\ tracks' = tracks /\ results' = results
        /\ good' = good /\ failed'[p] = failed[p] + 1
    BY <1>0, <1>6 DEF FileFails
  <2>2. Mine(p)' = Mine(p)
    BY <2>1 DEF Mine
  <2>3. With(p) \subseteq With(p)' /\ Without(p)' \subseteq Without(p) \cup {id[p]}
    BY <1>F, <2>1, <2>2 DEF With, Without, Mine
  <2>4. IsFiniteSet(With(p)') /\ Cardinality(With(p)') \in Nat
        /\ Cardinality(Without(p)') \in Nat
    <3>1. With(p)' \in SUBSET Mine(p) /\ Without(p)' \in SUBSET Mine(p)
      BY <2>2 DEF With, Without
    <3>2. QED
      BY <1>F, <3>1, FS_Subset, FS_CardinalityType
  <2>5. Cardinality(With(p)) <= Cardinality(With(p)')
    BY <2>3, <2>4, FS_Subset
  <2>6. Cardinality(Without(p)') <= Cardinality(Without(p)) + 1
    <3>1. /\ IsFiniteSet(Without(p) \cup {id[p]})
          /\ Cardinality(Without(p) \cup {id[p]})
               \in {Cardinality(Without(p)), Cardinality(Without(p)) + 1}
      <4>1. IsFiniteSet(Without(p))
        BY <1>F
      <4>2. QED
        BY <4>1, FS_AddElement
    <3>2. Cardinality(Without(p)') <= Cardinality(Without(p) \cup {id[p]})
      BY <2>3, <3>1, FS_Subset
    <3>3. QED
      BY <1>F, <2>4, <3>1, <3>2
  <2>7. Balance
    BY <2>1 DEF CountsHold
  <2>8. Balance'
    BY <1>0, <1>F, <2>1, <2>7 DEF InWork
  <2>9. p \in GuiImports => /\ good'[p] <= Cardinality(With(p)')
                            /\ Cardinality(Without(p)') <= failed'[p]
    BY <1>0, <1>F, <2>1, <2>4, <2>5, <2>6 DEF CountsHold
  <2>10. QED
    BY <2>1, <2>2, <2>8, <2>9 DEF CountsHold
<1>7. CASE EndImport(p)
  <2>1. /\ pc[p] = "next" /\ pc'[p] = "done" /\ id' = id /\ todo' = todo
        /\ tracks' = tracks /\ results' = results /\ good' = good /\ failed' = failed
    BY <1>0, <1>7 DEF EndImport
  <2>2. /\ Mine(p)' = Mine(p) /\ With(p)' = With(p) /\ Without(p)' = Without(p)
        /\ InWork(p)' = InWork(p)
    BY <2>1 DEF Mine, With, Without, InWork
  <2>3. QED
    BY <2>1, <2>2 DEF CountsHold
<1>8. QED
  BY <1>1, <1>2, <1>3, <1>4, <1>5, <1>6, <1>7 DEF Import

LEMMA CountStep ==
  ASSUME TypeOK, TypeOK', Parts, CountInv, [Next]_vars
  PROVE  CountInv'
<1> SUFFICES ASSUME NEW p \in Imports
             PROVE  CountsHold(p)'
  BY DEF CountInv
<1> USE DEF Goto, OneMore, BodyEnds, db, loop, batch, count
<1> DEFINE Same == /\ id'[p] = id[p] /\ pc'[p] = pc[p] /\ todo'[p] = todo[p]
                   /\ good'[p] = good[p] /\ failed'[p] = failed[p]
<1>0. /\ p \in Procs /\ \A a \in Analyses : a # p /\ a \in Procs
      /\ pc \in [Procs -> Labels] /\ good \in [Procs -> Nat] /\ failed \in [Procs -> Nat]
      /\ todo \in [Imports -> SUBSET Files] /\ id \in [Imports -> Nat]
      /\ Imports \subseteq Procs
  BY ImportAssumption DEF Procs, TypeOK
<1>1. CASE Import(p)
  BY <1>1, OwnCount DEF CountInv
<1>2. ASSUME NEW q \in Imports, q # p, Import(q)
      PROVE  Same /\ Mine(p)' = Mine(p)
  <2>1. Same
    BY <1>0, <1>2 DEF Import, Probe, ProbeFails, InsertOnly, Insert, Analyze, Upsert,
       FileFails, EndImport
  <2>2. CASE InsertOnly(q) \/ Insert(q)
    <3>1. work[q] \in Reading /\ InsertRow(q)
      BY <2>2 DEF InsertOnly, Insert, Parts, WorkInv, Current
    <3>2. QED
      BY <1>2, <2>1, <3>1, OwnRow
  <2>3. CASE tracks' = tracks
    BY <2>1, <2>3 DEF Mine
  <2>4. QED
    BY <1>2, <2>2, <2>3 DEF Import, Probe, ProbeFails, Analyze, Upsert, FileFails, EndImport
<1>3. ASSUME NEW a \in Analyses, Analysis(a)
      PROVE  Same /\ Mine(p)' = Mine(p)
  <2>1. tracks' = tracks /\ Same
    BY <1>0, <1>3 DEF Analysis, Snapshot, OpenItem, ReadItem, BatchReturns, Store,
       CountFailed, StoreFails, EndAnalysis
  <2>2. QED
    BY <2>1 DEF Mine
<1>4. ASSUME NEW f \in Files, Replace(f)
      PROVE  Same /\ Mine(p)' = Mine(p)
  BY <1>4 DEF Replace, Mine
<1>5. CASE UNCHANGED vars
  BY <1>5, OthersCount DEF vars, Mine, CountInv
<1>6. CASE Same /\ Mine(p)' = Mine(p)
  BY <1>6, OthersCount DEF CountInv
<1> HIDE DEF Same
<1>7. QED
  BY <1>1, <1>2, <1>3, <1>4, <1>5, <1>6 DEF Next

LEMMA CountInit == Init => CountInv
<1> SUFFICES ASSUME Init, NEW p \in Imports
             PROVE  CountsHold(p)
  BY DEF CountInv
<1>1. /\ p \in Procs /\ tracks = <<>> /\ pc[p] = "next" /\ todo[p] = Files /\ id[p] = 0
      /\ good[p] = 0 /\ failed[p] = 0
  BY DEF Init, Procs
<1>2. Mine(p) = {} /\ With(p) = {} /\ Without(p) = {}
  BY <1>1 DEF Mine, With, Without
<1>3. Cardinality({}) = 0 /\ Cardinality(Files) \in Nat
  BY FS_EmptySet, FS_CardinalityType, ImportAssumption
<1>4. QED
  BY <1>1, <1>2, <1>3 DEF CountsHold, InWork

-----------------------------------------------------------------------------
(* The theorems. *)

Inv == TypeOK /\ Parts /\ ResultsBelongToTheirTracks /\ CountInv

LEMMA Invariance == Spec => []Inv
<1>1. Init => Inv
  BY TypeInit, PartsInit, CountInit DEF Init, Inv, ResultsBelongToTheirTracks
<1>2. Inv /\ [Next]_vars => Inv'
  <2> SUFFICES ASSUME Inv, [Next]_vars
               PROVE  Inv'
    OBVIOUS
  <2>1. TypeOK'
    BY TypeStep DEF Inv, Parts
  <2>2. Parts'
    BY <2>1, RowStep, WorkStep, AllStep, ItemStep, StoreStep DEF Inv, Parts
  <2>3. QED
    BY <2>1, <2>2, BelongStep, CountStep DEF Inv
<1>3. QED
  BY <1>1, <1>2, PTL DEF Spec

\* Files, rows, results and each run's locals keep their types, for any number of
\* runs and files.
THEOREM TypeCorrect == Spec => []TypeOK
BY Invariance, PTL DEF Inv

\* A stored result was computed from its own track's file (CliCommands.cpp:161,
\* ImportController.cpp:56), however many runs overlap.
THEOREM Belonging == Spec => []ResultsBelongToTheirTracks
BY Invariance, PTL DEF Inv

\* "failed 0" of cmdAnalyze means that no track it saw is without a result.
THEOREM NothingLeftOut == Spec => []SuccessMeansAllAnalysed
<1>1. Inv => SuccessMeansAllAnalysed
  <2> SUFFICES ASSUME Inv, NEW a \in Analyses, pc[a] = "done", failed[a] = 0,
                      NEW i \in DOMAIN all[a]
               PROVE  results[all[a][i].id] # None
    BY DEF SuccessMeansAllAnalysed
  <2>1. i < at[a]
    BY DEF Inv, Parts, StoreInv, TypeOK
  <2>2. QED
    BY <2>1 DEF Inv, Parts, StoreInv
<1>2. QED
  BY <1>1, Invariance, PTL

\* The "imported" and "failed" of cmdImport and of ImportController::run account for
\* every file and every row, whoever analyses the rows meanwhile.
THEOREM ReportIsTrue == Spec => []ImportReportIsTrue
<1>1. Inv => ImportReportIsTrue
  <2> SUFFICES ASSUME Inv, NEW p \in Imports, pc[p] = "done"
               PROVE  /\ p \in CliImports => good[p] = Cardinality(Mine(p))
                      /\ p \in GuiImports =>
                           /\ good[p] <= Cardinality({t \in Mine(p) : results[t] # None})
                           /\ Cardinality({t \in Mine(p) : results[t] = None}) <= failed[p]
                      /\ todo[p] = {} => good[p] + failed[p] = Cardinality(Files)
    BY DEF ImportReportIsTrue
  <2>1. CountsHold(p) /\ TypeOK
    BY DEF Inv, CountInv
  <2>2. id[p] = 0 /\ 0 \notin Mine(p)
    BY <2>1, CountsFinite DEF CountsHold, Mine
  <2>3. /\ With(p) = {t \in Mine(p) : results[t] # None}
        /\ Without(p) = {t \in Mine(p) : results[t] = None}
    BY <2>2 DEF With, Without
  <2>4. good[p] \in Nat /\ failed[p] \in Nat
    BY <2>1 DEF TypeOK, Procs
  <2>5. ASSUME todo[p] = {}
        PROVE  good[p] + failed[p] = Cardinality(Files)
    <3>1. /\ good[p] + failed[p] + Cardinality(todo[p]) + InWork(p) = Cardinality(Files)
          /\ InWork(p) = 0
      BY <2>1, <2>5 DEF CountsHold, InWork
    <3>2. Cardinality(todo[p]) = 0
      BY <2>5, FS_EmptySet
    <3>3. QED
      BY <2>4, <3>1, <3>2
  <2>6. QED
    BY <2>1, <2>3, <2>5 DEF CountsHold
<1>2. QED
  BY <1>1, Invariance, PTL

\* upsert only ever replaces a result by a result (AnalysisResultRepository.cpp:33).
THEOREM ResultsStay == Spec => AnalysedStaysAnalysed
<1>1. Inv /\ [Next]_vars => [\A t \in DOMAIN results : results[t] # None => results'[t] # None]_vars
  BY ResultStep, ImportAssumption DEF Inv
<1>2. QED
  BY <1>1, Invariance, PTL DEF Spec, AnalysedStaysAnalysed
=============================================================================
