-------------------------- MODULE LibraryOpen_proofs --------------------------
(***************************************************************************)
(* Proofs about LibraryOpen for any number of processes, default profiles  *)
(* and faults: migration is safe to repeat and to interleave, and seeding  *)
(* is never mixed.                                                         *)
(***************************************************************************)
EXTENDS LibraryOpen, TLAPS

\* A process in migrate() has created what its script lists up to the statement
\* it is at; one beyond migrate() relies on the whole schema.
ScriptOk(o) ==
  /\ pc[o] = "exec" =>
       /\ v[o] < SchemaVersion
       /\ at[o] <= Len(Script[v[o] + 1])
       /\ \A k \in 1 .. v[o] : Objects(k) \subseteq objects
       /\ \A s \in 1 .. (at[o] - 1) : Script[v[o] + 1][s] \in objects
  /\ pc[o] = "stamp" =>
       /\ v[o] < SchemaVersion
       /\ \A k \in 1 .. (v[o] + 1) : Objects(k) \subseteq objects
  /\ pc[o] \in {"count", "seed", "open"} =>
       \A k \in 1 .. SchemaVersion : Objects(k) \subseteq objects

\* A process whose snapshot is current knows every row: it inserted them all.
SeedOk(o) ==
  /\ pc[o] \in {"stamp", "count"} => at[o] = 1
  /\ pc[o] = "seed" => at[o] <= NumDefaults
  /\ pc[o] = "seed" /\ ~stale[o] => Len(profiles) = at[o] - 1
  /\ pc[o] = "open" => profiles # <<>>

ScriptInv == \A o \in Openers : ScriptOk(o)
SeedInv   == ProfilesArePrefixOfDefaults /\ \A o \in Openers : SeedOk(o)

Labels == {"closed", "version", "exec", "stamp", "count", "seed", "open", "failed"}

Inv == TypeOK /\ VersionNeverAhead /\ ScriptInv /\ SeedInv

LEMMA ScriptShape ==
  /\ SchemaVersion = 2
  /\ Len(Script[1]) = 3 /\ Len(Script[2]) = 3
  /\ \A k \in 1 .. 2 : Objects(k) = {Script[k][s] : s \in 1 .. 3}
  /\ \A k \in 1 .. 2 : \A s \in 1 .. 3 : Script[k][s] \in Objects(k)
BY DEF SchemaVersion, Script, Objects

LEMMA InitInv == Init => Inv
<1> SUFFICES ASSUME Init PROVE Inv
  OBVIOUS
<1>1. TypeOK
  BY LibraryAssumption DEF Init, TypeOK, SchemaVersion
<1>2. VersionNeverAhead
  BY DEF Init, VersionNeverAhead
<1>3. ScriptInv /\ SeedInv
  BY DEF Init, ScriptInv, SeedInv, ScriptOk, SeedOk, ProfilesArePrefixOfDefaults
<1> QED
  BY <1>1, <1>2, <1>3 DEF Inv

\* What a process knows survives the steps of the others: the file only grows, and
\* a snapshot that was taken only becomes stale.
LEMMA OthersKeep ==
  ASSUME Inv, NEW p \in Openers,
         pc'[p] = pc[p], v'[p] = v[p], at'[p] = at[p],
         objects \subseteq objects',
         profiles # <<>> => profiles' # <<>>,
         profiles' = profiles \/ (pc[p] = "seed" => stale'[p]),
         stale[p] => stale'[p],
         stale[p] \in BOOLEAN, stale'[p] \in BOOLEAN
  PROVE  ScriptOk(p)' /\ SeedOk(p)'
<1>1. ScriptOk(p) /\ SeedOk(p)
  BY DEF Inv, ScriptInv, SeedInv
<1>2. ScriptOk(p)'
  BY <1>1 DEF ScriptOk
<1>3. SeedOk(p)'
  BY <1>1 DEF SeedOk
<1> QED
  BY <1>2, <1>3

LEMMA CommitEffect ==
  ASSUME TypeOK, NEW o \in Openers, Commit(o) \/ UNCHANGED stale
  PROVE  /\ stale' \in [Openers -> BOOLEAN]
         /\ \A p \in Openers : stale[p] => stale'[p]
BY DEF Commit, TypeOK

\* A statement of the script: o gets one further, everybody keeps what they have.
LEMMA ExecStep == ASSUME Inv, NEW o \in Openers, Exec(o) PROVE Inv'
<1> DEFINE S == Script[v[o] + 1]
<1>1. TypeOK /\ VersionNeverAhead /\ ScriptOk(o) /\ SeedOk(o) /\ SeedInv
  BY DEF Inv, ScriptInv, SeedInv
<1>2. pc[o] = "exec" /\ v[o] \in 0 .. 1 /\ at[o] \in Nat \ {0}
  BY <1>1, ScriptShape DEF Exec, ScriptOk, TypeOK
<1>3. /\ Len(S) = 3
      /\ Objects(v[o] + 1) = {S[s] : s \in 1 .. 3}
      /\ Objects(v[o] + 1) \in {Objects(1), Objects(2)}
  <2>1. v[o] + 1 = 1 \/ v[o] + 1 = 2
    BY <1>2
  <2> QED
    BY <2>1, ScriptShape
<1>4. at[o] \in 1 .. 3
  BY <1>1, <1>2, <1>3 DEF ScriptOk
<1>5. /\ objects' = objects \cup {S[at[o]]}
      /\ UNCHANGED <<version, profiles, v, faults>>
      /\ Commit(o) \/ UNCHANGED stale
  BY DEF Exec, Statement
<1>6. \/ /\ at[o] < 3 /\ at' = [at EXCEPT ![o] = at[o] + 1] /\ pc' = pc
      \/ /\ at[o] = 3 /\ at' = [at EXCEPT ![o] = 1]
         /\ pc' = [pc EXCEPT ![o] = "stamp"]
  BY <1>3, <1>4 DEF Exec, NextStatement, Goto
<1>7. /\ stale' \in [Openers -> BOOLEAN]
      /\ \A p \in Openers : stale[p] => stale'[p]
  BY <1>1, <1>5, CommitEffect
<1>8. TypeOK'
  <2>1. objects' \subseteq Objects(1) \cup Objects(2)
    BY <1>1, <1>3, <1>4, <1>5 DEF TypeOK
  <2>2. at' \in [Openers -> Nat \ {0}] /\ pc' \in [Openers -> Labels]
    <3>1. at[o] + 1 \in Nat \ {0}
      BY <1>2
    <3>2. pc' \in [Openers -> Labels]
      BY <1>1, <1>6 DEF TypeOK, Labels
    <3>3. at' \in [Openers -> Nat \ {0}]
      <4>1. at \in [Openers -> Nat \ {0}]
        BY <1>1 DEF TypeOK
      <4>2. 1 \in Nat \ {0}
        OBVIOUS
      <4>3. \E n \in Nat \ {0} : at' = [at EXCEPT ![o] = n]
        BY <1>6, <3>1, <4>2
      <4> QED
        BY <4>1, <4>3
    <3> QED
      BY <3>2, <3>3
  <2> QED
    BY <1>1, <1>5, <1>7, <2>1, <2>2 DEF TypeOK, Labels
<1>9. VersionNeverAhead'
  BY <1>1, <1>5 DEF VersionNeverAhead
<1>10. ScriptOk(o)'
  <2>1. \A s \in 1 .. at[o] : S[s] \in objects'
    BY <1>1, <1>2, <1>4, <1>5 DEF ScriptOk
  <2>2. \A k \in 1 .. v[o] : Objects(k) \subseteq objects'
    BY <1>1, <1>2, <1>5 DEF ScriptOk
  <2>3. v'[o] = v[o] /\ v[o] < SchemaVersion
    BY <1>2, <1>5, ScriptShape
  <2>4. CASE at[o] < 3
    <3>1. pc'[o] = "exec" /\ at'[o] = at[o] + 1
      BY <1>1, <1>2, <1>6, <2>4 DEF TypeOK
    <3>2. at'[o] <= Len(S) /\ at'[o] - 1 = at[o]
      BY <1>3, <1>4, <2>4, <3>1
    <3> QED
      BY <2>1, <2>2, <2>3, <3>1, <3>2 DEF ScriptOk
  <2>5. CASE at[o] = 3
    <3>1. pc'[o] = "stamp"
      BY <1>1, <1>6, <2>5 DEF TypeOK
    <3>2. Objects(v[o] + 1) \subseteq objects'
      BY <1>3, <2>1, <2>5
    <3>3. \A k \in 1 .. (v[o] + 1) : Objects(k) \subseteq objects'
      BY <1>2, <2>2, <3>2
    <3> QED
      BY <2>3, <3>1, <3>3 DEF ScriptOk
  <2> QED
    BY <1>6, <2>4, <2>5
<1>11. SeedOk(o)'
  BY <1>1, <1>2, <1>6 DEF SeedOk, TypeOK
<1>12. ASSUME NEW p \in Openers, p # o PROVE ScriptOk(p)' /\ SeedOk(p)'
  <2>1. pc'[p] = pc[p] /\ at'[p] = at[p]
    BY <1>1, <1>6, <1>12 DEF TypeOK
  <2> QED
    BY <1>1, <1>5, <1>7, <2>1, OthersKeep DEF TypeOK
<1> QED
  BY <1>1, <1>5, <1>8, <1>9, <1>10, <1>11, <1>12
     DEF Inv, ScriptInv, SeedInv, ProfilesArePrefixOfDefaults

\* A stamp may lower the version, but names only what o has seen created.
LEMMA StampStep == ASSUME Inv, NEW o \in Openers, Stamp(o) PROVE Inv'
<1>1. TypeOK /\ VersionNeverAhead /\ ScriptOk(o) /\ SeedOk(o) /\ SeedInv
  BY DEF Inv, ScriptInv, SeedInv
<1>2. pc[o] = "stamp" /\ v[o] \in 0 .. 1 /\ at[o] = 1
  BY <1>1, ScriptShape DEF Stamp, ScriptOk, SeedOk, TypeOK
<1>3. /\ version' = v[o] + 1
      /\ v' = [v EXCEPT ![o] = v[o] + 1]
      /\ pc' = [pc EXCEPT ![o] = IF v[o] + 1 < 2 THEN "exec" ELSE "count"]
      /\ Commit(o)
      /\ UNCHANGED <<objects, profiles, at, faults>>
  BY ScriptShape DEF Stamp, Goto
<1>4. /\ stale' \in [Openers -> BOOLEAN]
      /\ \A p \in Openers : stale[p] => stale'[p]
  BY <1>1, <1>3, CommitEffect
<1>5. \A k \in 1 .. (v[o] + 1) : Objects(k) \subseteq objects
  BY <1>1, <1>2 DEF ScriptOk
<1>6. TypeOK'
  <2>1. pc' \in [Openers -> Labels] /\ v' \in [Openers -> 0 .. SchemaVersion]
    BY <1>1, <1>2, <1>3, ScriptShape DEF TypeOK, Labels
  <2>2. version' \in 0 .. SchemaVersion
    BY <1>2, <1>3, ScriptShape
  <2> QED
    BY <1>1, <1>3, <1>4, <2>1, <2>2 DEF TypeOK, Labels
<1>7. VersionNeverAhead'
  BY <1>3, <1>5 DEF VersionNeverAhead
<1>8. ScriptOk(o)'
  <2>1. /\ v'[o] = v[o] + 1 /\ at'[o] = 1
        /\ v[o] = 0 => pc'[o] = "exec"
        /\ v[o] = 1 => pc'[o] = "count"
    BY <1>1, <1>2, <1>3 DEF TypeOK
  <2>2. CASE v[o] = 0
    <3>1. v'[o] < SchemaVersion /\ at'[o] <= Len(Script[v'[o] + 1])
      BY <2>1, <2>2, ScriptShape
    <3> QED
      BY <1>3, <1>5, <2>1, <2>2, <3>1 DEF ScriptOk
  <2>3. CASE v[o] = 1
    BY <1>3, <1>5, <2>1, <2>3, ScriptShape DEF ScriptOk
  <2> QED
    BY <1>2, <2>2, <2>3
<1>9. SeedOk(o)'
  BY <1>1, <1>2, <1>3 DEF SeedOk, TypeOK
<1>10. ASSUME NEW p \in Openers, p # o PROVE ScriptOk(p)' /\ SeedOk(p)'
  <2>1. pc'[p] = pc[p] /\ v'[p] = v[p]
    BY <1>1, <1>3, <1>10 DEF TypeOK
  <2> QED
    BY <1>1, <1>3, <1>4, <2>1, OthersKeep DEF TypeOK
<1> QED
  BY <1>1, <1>3, <1>6, <1>7, <1>8, <1>9, <1>10
     DEF Inv, ScriptInv, SeedInv, ProfilesArePrefixOfDefaults

\* An insert makes every other open snapshot stale.
LEMMA InsertStep == ASSUME Inv, NEW o \in Openers, Insert(o) PROVE Inv'
<1>1. TypeOK /\ VersionNeverAhead /\ ScriptOk(o) /\ SeedOk(o) /\ SeedInv
  BY DEF Inv, ScriptInv, SeedInv
<1>2. /\ pc[o] = "seed" /\ ~stale[o]
      /\ profiles' = Append(profiles, at[o])
      /\ Commit(o)
      /\ UNCHANGED <<version, objects, v, faults>>
  BY DEF Insert, MayInsert
<1>3. /\ Len(profiles) = at[o] - 1 /\ at[o] <= NumDefaults /\ at[o] \in Nat \ {0}
      /\ profiles \in Seq(1 .. NumDefaults)
  BY <1>1, <1>2 DEF SeedOk, TypeOK
<1>4. \/ /\ at[o] < NumDefaults /\ at' = [at EXCEPT ![o] = at[o] + 1] /\ pc' = pc
      \/ /\ at[o] = NumDefaults /\ at' = at /\ pc' = [pc EXCEPT ![o] = "open"]
  BY <1>3, LibraryAssumption DEF Insert, Goto
<1>5. /\ profiles' \in Seq(1 .. NumDefaults)
      /\ Len(profiles') = at[o]
      /\ profiles'[at[o]] = at[o]
      /\ \A n \in 1 .. (at[o] - 1) : profiles'[n] = profiles[n]
      /\ profiles' # <<>>
  BY <1>2, <1>3, LibraryAssumption
<1>6. /\ stale' \in [Openers -> BOOLEAN]
      /\ \A p \in Openers : stale[p] => stale'[p]
      /\ \A p \in Openers : p # o /\ pc[p] = "seed" => stale'[p]
  BY <1>1, <1>2, CommitEffect DEF Commit
<1>7. TypeOK'
  <2>1. at' \in [Openers -> Nat \ {0}] /\ pc' \in [Openers -> Labels]
    <3>1. at[o] + 1 \in Nat \ {0}
      BY <1>3
    <3>2. pc' \in [Openers -> Labels]
      BY <1>1, <1>4 DEF TypeOK, Labels
    <3>3. at' \in [Openers -> Nat \ {0}]
      BY <1>1, <1>4, <3>1 DEF TypeOK
    <3> QED
      BY <3>2, <3>3
  <2>2. Len(profiles') <= NumDefaults
    BY <1>3, <1>5
  <2> QED
    BY <1>1, <1>2, <1>5, <1>6, <2>1, <2>2 DEF TypeOK, Labels
<1>8. VersionNeverAhead'
  BY <1>1, <1>2 DEF VersionNeverAhead
<1>9. ProfilesArePrefixOfDefaults'
  <2>1. \A n \in 1 .. (at[o] - 1) : profiles[n] = n
    BY <1>1, <1>3 DEF SeedInv, ProfilesArePrefixOfDefaults
  <2>2. DOMAIN profiles' = 1 .. at[o]
    BY <1>5
  <2> QED
    BY <1>3, <1>5, <2>1, <2>2 DEF ProfilesArePrefixOfDefaults
<1>10. ScriptOk(o)'
  BY <1>1, <1>2, <1>4 DEF ScriptOk, TypeOK
<1>11. SeedOk(o)'
  <2>1. CASE at[o] < NumDefaults
    <3>1. pc'[o] = "seed" /\ at'[o] = at[o] + 1
      BY <1>1, <1>2, <1>4, <2>1 DEF TypeOK
    <3> QED
      BY <1>3, <1>5, <2>1, <3>1, LibraryAssumption DEF SeedOk
  <2>2. CASE at[o] = NumDefaults
    <3>1. pc'[o] = "open"
      BY <1>1, <1>4, <2>2, LibraryAssumption DEF TypeOK
    <3> QED
      BY <1>5, <3>1 DEF SeedOk
  <2> QED
    BY <1>4, <2>1, <2>2
<1>12. ASSUME NEW p \in Openers, p # o PROVE ScriptOk(p)' /\ SeedOk(p)'
  <2>1. pc'[p] = pc[p] /\ at'[p] = at[p]
    BY <1>1, <1>4, <1>12 DEF TypeOK
  <2> QED
    BY <1>1, <1>2, <1>5, <1>6, <1>12, <2>1, OthersKeep DEF TypeOK
<1> QED
  BY <1>7, <1>8, <1>9, <1>10, <1>11, <1>12 DEF Inv, ScriptInv, SeedInv

\* Every other step moves one process and leaves the file alone.
LEMMA LocalStep ==
  ASSUME Inv, NEW o \in Openers,
         Connect(o) \/ ReadVersion(o) \/ CountProfiles(o) \/ InsertFails(o)
           \/ Close(o) \/ Fault(o)
  PROVE  Inv'
<1>1. TypeOK /\ VersionNeverAhead /\ ScriptOk(o) /\ SeedOk(o) /\ SeedInv
  BY DEF Inv, ScriptInv, SeedInv
<1>2. /\ UNCHANGED <<version, objects, profiles>>
      /\ pc' = [pc EXCEPT ![o] = pc'[o]]
      /\ v' = [v EXCEPT ![o] = v'[o]]
      /\ at' = [at EXCEPT ![o] = at'[o]]
      /\ stale' = [stale EXCEPT ![o] = stale'[o]]
  BY <1>1 DEF Connect, ReadVersion, CountProfiles, InsertFails, Close, Fault, Goto,
              file, TypeOK
<1>3. /\ pc'[o] \in Labels /\ v'[o] \in 0 .. SchemaVersion
      /\ at'[o] \in Nat \ {0} /\ stale'[o] \in BOOLEAN
      /\ ScriptOk(o)' /\ SeedOk(o)'
  <2>1. CASE Connect(o) \/ InsertFails(o) \/ Close(o) \/ Fault(o)
    <3>1. pc'[o] \in {"version", "failed", "closed"} /\ UNCHANGED <<v, at, stale>>
      BY <1>1, <2>1 DEF Connect, InsertFails, Close, Fault, Goto, TypeOK
    <3> QED
      BY <1>1, <3>1 DEF ScriptOk, SeedOk, TypeOK, Labels
  <2>2. CASE ReadVersion(o)
    <3>1. /\ v'[o] = version /\ at'[o] = 1 /\ stale'[o] = stale[o]
          /\ version < 2 => pc'[o] = "exec"
          /\ version = 2 => pc'[o] = "count"
          /\ version \in 0 .. 2
      BY <1>1, <2>2, ScriptShape DEF ReadVersion, Goto, TypeOK
    <3>2. CASE version < 2
      <4>1. version + 1 = 1 \/ version + 1 = 2
        BY <3>1, <3>2
      <4>2. Len(Script[version + 1]) = 3
        BY <4>1, ScriptShape
      <4> QED
        BY <1>1, <1>2, <3>1, <3>2, <4>2, ScriptShape
           DEF ScriptOk, SeedOk, TypeOK, Labels, VersionNeverAhead
    <3>3. CASE version = 2
      BY <1>1, <1>2, <3>1, <3>3, ScriptShape
         DEF ScriptOk, SeedOk, TypeOK, Labels, VersionNeverAhead
    <3> QED
      BY <3>1, <3>2, <3>3
  <2>3. CASE CountProfiles(o)
    <3>1. /\ pc[o] = "count" /\ at[o] = 1
          /\ UNCHANGED <<objects, profiles, v, at>>
          /\ pc'[o] \in {"failed", "open", "seed"}
          /\ pc'[o] = "open" => profiles # <<>>
          /\ pc'[o] = "seed" => profiles = <<>>
          /\ stale'[o] = FALSE
      BY <1>1, <2>3 DEF CountProfiles, Goto, TypeOK, SeedOk, file
    <3>2. pc'[o] \in Labels /\ v'[o] \in 0 .. SchemaVersion /\ at'[o] \in Nat \ {0}
      BY <1>1, <3>1 DEF TypeOK, Labels
    <3>3. ScriptOk(o)'
      BY <1>1, <3>1 DEF ScriptOk
    <3>4. profiles = <<>> => Len(profiles) = 0
      OBVIOUS
    <3>5. SeedOk(o)'
      BY <3>1, <3>4, LibraryAssumption DEF SeedOk
    <3> QED
      BY <3>1, <3>2, <3>3, <3>5
  <2> QED
    BY <2>1, <2>2, <2>3
<1>4. faults' \in 0 .. MaxFaults
  BY <1>1, LibraryAssumption DEF Connect, ReadVersion, CountProfiles, InsertFails,
                                 Close, Fault, TypeOK
<1>5. TypeOK'
  BY <1>1, <1>2, <1>3, <1>4 DEF TypeOK, Labels
<1>6. ASSUME NEW p \in Openers, p # o PROVE ScriptOk(p)' /\ SeedOk(p)'
  <2>1. pc'[p] = pc[p] /\ v'[p] = v[p] /\ at'[p] = at[p] /\ stale'[p] = stale[p]
    BY <1>1, <1>2, <1>6 DEF TypeOK
  <2> QED
    BY <1>1, <1>2, <2>1, OthersKeep DEF TypeOK
<1> QED
  BY <1>1, <1>2, <1>3, <1>5, <1>6
     DEF Inv, ScriptInv, SeedInv, VersionNeverAhead, ProfilesArePrefixOfDefaults

LEMMA Invariance == Spec => []Inv
<1>1. Inv /\ [Next]_vars => Inv'
  <2> SUFFICES ASSUME Inv, [Next]_vars PROVE Inv'
    OBVIOUS
  <2>1. CASE UNCHANGED vars
    BY <2>1 DEF vars, file, local, Inv, TypeOK, VersionNeverAhead, ScriptInv, SeedInv,
                ScriptOk, SeedOk, ProfilesArePrefixOfDefaults
  <2>2. CASE Next
    BY <2>2, ExecStep, StampStep, InsertStep, LocalStep DEF Next, Opening
  <2> QED
    BY <2>1, <2>2
<1> QED
  BY <1>1, InitInv, PTL DEF Spec

\* Type correctness, for every number of processes and faults.
THEOREM TypeCorrect == Spec => []TypeOK
BY Invariance, PTL DEF Inv

\* The stored version never claims more than the file has, whatever crashes and
\* however many processes migrate at once.
THEOREM MigrationIsSafe == Spec => []VersionNeverAhead
BY Invariance, PTL DEF Inv

\* Concurrent seeding leaves a prefix of the defaults, each profile once.
THEOREM SeedingNeverMixes == Spec => []ProfilesArePrefixOfDefaults
BY Invariance, PTL DEF Inv, SeedInv

\* Whoever has opened the library finds the schema and a profile.
THEOREM OpenedIsUsable == Spec => []OpenLibraryIsUsable
<1>1. Inv => OpenLibraryIsUsable
  BY ScriptShape DEF Inv, ScriptInv, SeedInv, ScriptOk, SeedOk, OpenLibraryIsUsable
<1> QED
  BY <1>1, Invariance, PTL
=============================================================================
