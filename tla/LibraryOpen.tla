----------------------------- MODULE LibraryOpen -----------------------------
(***************************************************************************)
(* Opening the library database: Database's constructor, migrate() and     *)
(* ProfileRepository::seedDefaultsIfEmpty(), as openLibrary (CLI) and      *)
(* AppDatabase (GUI) call them, by several processes on one file.          *)
(*                                                                         *)
(* No explicit transaction is used, so every SQL statement commits by      *)
(* itself: one action is one statement.  SQLite in WAL mode is external    *)
(* and modelled by what the code relies on.  A writer without an open read *)
(* waits for the write lock (busy_timeout).  A connection that holds an    *)
(* open read statement keeps its snapshot: when another connection has     *)
(* committed since, its own write fails at once (SQLITE_BUSY_SNAPSHOT),    *)
(* and Statement::step() throws DbError.  seedDefaultsIfEmpty holds such a *)
(* statement, the COUNT it steps once, over all its inserts.               *)
(***************************************************************************)
EXTENDS Naturals, Sequences, SequencesExt

CONSTANTS Openers,      \* processes that open the library
          NumDefaults,  \* number of default profiles
          MaxFaults     \* bound: crashes and failed statements in a behaviour

ASSUME LibraryAssumption ==
  /\ NumDefaults \in Nat \ {0}
  /\ MaxFaults \in Nat

VARIABLES version,   \* PRAGMA user_version
          objects,   \* tables and indexes in the file
          profiles,  \* rows of target_profile, in id order, as default numbers
          pc,        \* where each process is
          v,         \* migrate()'s local v
          at,        \* next statement of the script, or next default to insert
          stale,     \* another connection committed since the open read began
          faults

file  == <<version, objects, profiles>>
local == <<pc, v, at>>
vars  == <<file, local, stale, faults>>

\* kSchemaVersion, and the statements of kSchemaV1 and kSchemaV2.
SchemaVersion == 2
Script == << <<"track", "audit_log_entry", "idx_audit_track">>,
             <<"analysis_result", "target_profile", "idx_analysis_track">> >>

Init ==
  /\ version = 0
  /\ objects = {}
  /\ profiles = <<>>
  /\ pc = [o \in Openers |-> "closed"]
  /\ v = [o \in Openers |-> 0]
  /\ at = [o \in Openers |-> 1]
  /\ stale = [o \in Openers |-> FALSE]
  /\ faults = 0

Goto(o, label) == pc' = [pc EXCEPT ![o] = label]

\* o commits: every other open snapshot becomes stale.
Commit(o) == stale' = [p \in Openers |-> stale[p] \/ (p # o /\ pc[p] = "seed")]

-----------------------------------------------------------------------------
(* Database(path): open, busy_timeout, WAL, foreign keys. *)
Connect(o) ==
  /\ pc[o] \in {"closed", "failed"}
  /\ Goto(o, "version")
  /\ UNCHANGED <<file, v, at, stale, faults>>

(* migrate() *)

ReadVersion(o) ==
  /\ pc[o] = "version"
  /\ v' = [v EXCEPT ![o] = version]
  /\ at' = [at EXCEPT ![o] = 1]
  /\ Goto(o, IF version < SchemaVersion THEN "exec" ELSE "count")
  /\ UNCHANGED <<file, stale, faults>>

\* The statement of the script for version v + 1 that o is at.
Statement(o) == Script[v[o] + 1][at[o]]

NextStatement(o) ==
  IF at[o] < Len(Script[v[o] + 1])
  THEN at' = [at EXCEPT ![o] = @ + 1] /\ UNCHANGED pc
  ELSE at' = [at EXCEPT ![o] = 1] /\ Goto(o, "stamp")

\* Mutant: CREATE without IF NOT EXISTS.
ExecPlainCreate(o) ==
  /\ pc[o] = "exec"
  /\ IF Statement(o) \in objects
     THEN Goto(o, "failed") /\ UNCHANGED <<objects, at, stale>>
     ELSE /\ objects' = objects \cup {Statement(o)}
          /\ Commit(o)
          /\ NextStatement(o)
  /\ UNCHANGED <<version, profiles, v, faults>>

\* CREATE ... IF NOT EXISTS; one that finds the object writes nothing.
Exec(o) ==
  /\ pc[o] = "exec"
  /\ objects' = objects \cup {Statement(o)}
  /\ IF Statement(o) \in objects THEN UNCHANGED stale ELSE Commit(o)
  /\ NextStatement(o)
  /\ UNCHANGED <<version, profiles, v, faults>>

\* Mutant: the stored version is incremented instead of set.
StampIncrement(o) ==
  /\ pc[o] = "stamp"
  /\ version' = version + 1
  /\ v' = [v EXCEPT ![o] = v[o] + 1]
  /\ Goto(o, IF v[o] + 1 < SchemaVersion THEN "exec" ELSE "count")
  /\ Commit(o)
  /\ UNCHANGED <<objects, profiles, at, faults>>

\* Mutant: stamps the version that all the scripts together would give.
StampLatest(o) ==
  /\ pc[o] = "stamp"
  /\ version' = SchemaVersion
  /\ v' = [v EXCEPT ![o] = v[o] + 1]
  /\ Goto(o, IF v[o] + 1 < SchemaVersion THEN "exec" ELSE "count")
  /\ Commit(o)
  /\ UNCHANGED <<objects, profiles, at, faults>>

Stamp(o) ==
  /\ pc[o] = "stamp"
  /\ version' = v[o] + 1
  /\ v' = [v EXCEPT ![o] = v[o] + 1]
  /\ Goto(o, IF v[o] + 1 < SchemaVersion THEN "exec" ELSE "count")
  /\ Commit(o)
  /\ UNCHANGED <<objects, profiles, at, faults>>

(* seedDefaultsIfEmpty() *)

\* Mutant: the test of the count lets zero rows pass as seeded.
CountAnyRows(o) ==
  /\ pc[o] = "count"
  /\ "target_profile" \in objects
  /\ Goto(o, "open")
  /\ UNCHANGED <<file, v, at, stale, faults>>

\* SELECT COUNT(*): with rows the statement is finalized and the open succeeds;
\* without, the statement stays open at its row while the defaults go in.  The
\* statement cannot be prepared when the table is missing.
CountProfiles(o) ==
  /\ pc[o] = "count"
  /\ Goto(o, IF "target_profile" \notin objects THEN "failed"
             ELSE IF profiles # <<>> THEN "open" ELSE "seed")
  /\ stale' = [stale EXCEPT ![o] = FALSE]
  /\ UNCHANGED <<file, v, at, faults>>

\* The write is accepted: the snapshot is current and the name is not taken.
MayInsert(o) == ~stale[o] /\ at[o] \notin ToSet(profiles)

\* Mutant: neither the snapshot nor the UNIQUE constraint rejects a row.
InsertUnchecked(o) ==
  /\ pc[o] = "seed"
  /\ profiles' = Append(profiles, at[o])
  /\ Commit(o)
  /\ IF at[o] < NumDefaults
     THEN at' = [at EXCEPT ![o] = @ + 1] /\ UNCHANGED pc
     ELSE Goto(o, "open") /\ UNCHANGED at
  /\ UNCHANGED <<version, objects, v, faults>>

Insert(o) ==
  /\ pc[o] = "seed"
  /\ MayInsert(o)
  /\ profiles' = Append(profiles, at[o])
  /\ Commit(o)
  /\ IF at[o] < NumDefaults
     THEN at' = [at EXCEPT ![o] = @ + 1] /\ UNCHANGED pc
     ELSE Goto(o, "open") /\ UNCHANGED at
  /\ UNCHANGED <<version, objects, v, faults>>

\* Statement::step() throws, and the open with it: what went in before stays.
InsertFails(o) ==
  /\ pc[o] = "seed"
  /\ ~MayInsert(o)
  /\ Goto(o, "failed")
  /\ UNCHANGED <<file, v, at, stale, faults>>

-----------------------------------------------------------------------------
\* The session ends.
Close(o) ==
  /\ pc[o] = "open"
  /\ Goto(o, "closed")
  /\ UNCHANGED <<file, v, at, stale, faults>>

\* The process dies, or a statement fails and the open throws: what has been
\* committed stays.
Fault(o) ==
  /\ pc[o] \notin {"closed", "failed", "open"}
  /\ faults < MaxFaults
  /\ faults' = faults + 1
  /\ Goto(o, "failed")
  /\ UNCHANGED <<file, v, at, stale>>

Opening(o) ==
  \/ Connect(o) \/ ReadVersion(o) \/ Exec(o) \/ Stamp(o)
  \/ CountProfiles(o) \/ Insert(o) \/ InsertFails(o)

Next == \E o \in Openers : Opening(o) \/ Close(o) \/ Fault(o)

Spec == Init /\ [][Next]_vars

\* A process keeps running, and whoever could not open the library tries again.
FairSpec == Spec /\ \A o \in Openers : WF_vars(Opening(o))

-----------------------------------------------------------------------------
(* Properties. *)

\* What version k of the schema consists of.
Objects(k) == {Script[k][s] : s \in DOMAIN Script[k]}

TypeOK ==
  /\ version \in 0 .. SchemaVersion
  /\ objects \subseteq Objects(1) \cup Objects(2)
  /\ profiles \in Seq(1 .. NumDefaults) /\ Len(profiles) <= NumDefaults
  /\ pc \in [Openers -> {"closed", "version", "exec", "stamp", "count", "seed",
                         "open", "failed"}]
  /\ v \in [Openers -> 0 .. SchemaVersion]
  /\ at \in [Openers -> Nat \ {0}]
  /\ stale \in [Openers -> BOOLEAN]
  /\ faults \in 0 .. MaxFaults

\* Whatever processes interleave or die, user_version never claims a schema the
\* file does not have, although it can go backwards (Schema.cpp:85-97): that is
\* what makes it safe to migrate again after a crash.
VersionNeverAhead == \A k \in 1 .. version : Objects(k) \subseteq objects

\* A successful open has the whole schema and at least one profile to work with.
OpenLibraryIsUsable ==
  \A o \in Openers : pc[o] = "open" =>
    /\ Objects(1) \cup Objects(2) \subseteq objects
    /\ profiles # <<>>

\* Two processes never mix their seeding: the rows are the first defaults, each
\* once, in their order, however many processes saw the table empty.
ProfilesArePrefixOfDefaults == \A n \in DOMAIN profiles : profiles[n] = n

\* No crash or failure leaves a file that cannot be opened any more, and two
\* processes that open it at once do not keep each other out.
EveryOpenSucceedsInTheEnd ==
  \A o \in Openers : pc[o] = "version" ~> pc[o] = "open"

\* CliCommands.cpp:91 and AppDatabase.h:11: the library that was opened is seeded
\* with the default profiles.  Stated for when nobody is seeding any more, so
\* that what is missing stays missing.
OpenLibraryIsSeeded ==
  (\E o \in Openers : pc[o] = "open") /\ (\A o \in Openers : pc[o] # "seed")
    => Len(profiles) = NumDefaults
=============================================================================
