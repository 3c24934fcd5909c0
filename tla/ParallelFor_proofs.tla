-------------------------- MODULE ParallelFor_proofs --------------------------
(***************************************************************************)
(* Proofs about ParallelFor for every number of items, threads and         *)
(* controllers: the inductive invariant, the safety properties that follow *)
(* from it, and that the threads implement BatchSpec.                      *)
(***************************************************************************)
EXTENDS ParallelFor, FiniteSetTheorems, TLAPS

\* The part of TypeOK that is inductive by itself: the counters' upper bound
\* needs the counting argument.
TypeInv ==
  /\ paused \in BOOLEAN /\ cancelled \in BOOLEAN
  /\ mutex \in Workers \cup {Free}
  /\ asleep \subseteq Workers
  /\ call \in [Controllers -> {"idle", "clear", "notify"}]
  /\ pool \in 0 .. Count
  /\ main \in {"spawn", "join", "returned", "threw", "aborted"}
  /\ spawned \in 0 .. pool
  /\ pc \in [Workers -> Labels]
  /\ idx \in [Workers -> Nat]
  /\ next \in Nat
  /\ item \in [Items -> {"pending", "running"} \cup Outcomes]
  /\ completed \in Nat /\ failed \in Nat
  /\ progress \in Workers \cup {Free}
  /\ seen \in [Workers -> [completed : Nat \cup {-1}, failed : Nat \cup {-1}]]
  /\ report \in [completed : Nat, failed : Nat]
  /\ late \in [Workers -> Nat]

LEMMA InitType == Init => TypeInv
<1> SUFFICES ASSUME Init PROVE TypeInv
  OBVIOUS
<1>1. pool \in 0 .. Count
  BY ParallelForAssumption DEF Init, PoolSize
<1>2. /\ main \in {"returned", "spawn"}
      /\ spawned = 0
  BY DEF Init
<1>3. pc \in [Workers -> Labels]
  BY DEF Init, Labels
<1>4. item \in [Items -> {"pending", "running"} \cup Outcomes]
  BY DEF Init
<1>5. seen \in [Workers -> [completed : Nat \cup {-1}, failed : Nat \cup {-1}]]
  BY DEF Init, NotLoaded
<1>6. /\ paused \in BOOLEAN /\ cancelled \in BOOLEAN
      /\ mutex \in Workers \cup {Free}
      /\ asleep \subseteq Workers
      /\ call \in [Controllers -> {"idle", "clear", "notify"}]
  BY DEF Init, JobInit
<1> QED
  BY <1>1, <1>2, <1>3, <1>4, <1>5, <1>6 DEF Init, TypeInv

LEMMA NextType == TypeInv /\ [Next]_vars => TypeInv'
<1> SUFFICES ASSUME TypeInv, [Next]_vars PROVE TypeInv'
  OBVIOUS
<1> USE DEF TypeInv, Labels, Goto, jvars, pvars
<1>1. CASE MainStep
  <2>1. ASSUME NEW w \in Workers, Spawn(w) PROVE TypeInv'
    <3>1. spawned' \in 0 .. pool
      BY <2>1 DEF Spawn, Workers
    <3> QED
      BY <2>1, <3>1 DEF Spawn
  <2> QED
    BY <1>1, <2>1 DEF MainStep, StartJoining, Join
<1>2. CASE SpawnFails
  BY <1>2 DEF SpawnFails
<1>3. ASSUME NEW w \in Workers, CheckSteps(w) PROVE TypeInv'
  <2>1. CASE CheckCancelled(w)
    BY <2>1 DEF CheckCancelled, ThreadOnly
  <2>2. CASE LockControl(w)
    BY <2>2 DEF LockControl, Lock, ThreadOnly
  <2>3. CASE TestPasses(w)
    BY <2>3 DEF TestPasses, Unlock, ThreadOnly
  <2>4. CASE TestBlocks(w)
    BY <2>4 DEF TestBlocks, ThreadOnly
  <2>5. CASE Block(w)
    BY <2>5 DEF Block, Sleep, ThreadOnly
  <2>6. CASE Recheck(w)
    BY <2>6 DEF Recheck, ThreadOnly
  <2> QED
    BY <1>3, <2>1, <2>2, <2>3, <2>4, <2>5, <2>6 DEF CheckSteps
<1>4. ASSUME NEW w \in Workers, ItemSteps(w) PROVE TypeInv'
  <2>1. CASE Claim(w)
    <3>1. idx' \in [Workers -> Nat] /\ next' \in Nat
      BY <2>1 DEF Claim
    <3>2. late' \in [Workers -> Nat]
      BY <2>1 DEF Claim
    <3>3. item' \in [Items -> {"pending", "running"} \cup Outcomes]
      BY <2>1 DEF Claim
    <3>4. pc' \in [Workers -> Labels]
      BY <2>1 DEF Claim
    <3> QED
      BY <2>1, <3>1, <3>2, <3>3, <3>4 DEF Claim
  <2>2. CASE Work(w)
    <3>1. item' \in [Items -> {"pending", "running"} \cup Outcomes]
      BY <2>2 DEF Work
    <3> QED
      BY <2>2, <3>1 DEF Work
  <2>3. CASE CountItem(w)
    <3>1. completed' \in Nat /\ failed' \in Nat
      BY <2>3 DEF CountItem
    <3> QED
      BY <2>3, <3>1 DEF CountItem
  <2>4. CASE EnterProgress(w)
    BY <2>4 DEF EnterProgress
  <2>5. CASE LoadCompleted(w)
    BY <2>5 DEF LoadCompleted
  <2>6. CASE LoadFailed(w)
    BY <2>6 DEF LoadFailed
  <2>7. CASE Report(w)
    BY <2>7 DEF Report, NotLoaded
  <2> QED
    BY <1>4, <2>1, <2>2, <2>3, <2>4, <2>5, <2>6, <2>7 DEF ItemSteps
<1>5. ASSUME NEW w \in Workers, Wakeup(w) PROVE TypeInv'
  BY <1>5 DEF Wakeup, SpuriousWakeup
<1>6. ASSUME NEW c \in Controllers, Controller(c) PROVE TypeInv'
  <2>1. CASE PauseBatch(c)
    BY <2>1 DEF PauseBatch, Pause
  <2>2. CASE ResumeBatch(c)
    BY <2>2 DEF ResumeBatch, Resume
  <2>3. CASE CancelBatch(c)
    BY <2>3 DEF CancelBatch, CancelStore
  <2>4. CASE FinishBatchCall(c)
    BY <2>4 DEF FinishBatchCall, FinishCall, CancelClear, NotifyAll
  <2> QED
    BY <1>6, <2>1, <2>2, <2>3, <2>4 DEF Controller
<1>7. CASE UNCHANGED vars
  BY <1>7 DEF vars
<1> QED
  BY <1>1, <1>2, <1>3, <1>4, <1>5, <1>6, <1>7 DEF Next, ThreadStep, Dead

-----------------------------------------------------------------------------
(* What the steps that start, count and report no item do. *)

Between == {"check", "lock", "asleep", "test", "block", "recheck"}

LEMMA CheckStepsEffect ==
  ASSUME TypeInv, NEW w \in Workers, CheckSteps(w)
  PROVE  /\ pc[w] \in Between
         /\ UNCHANGED <<paused, cancelled, call>>
         /\ UNCHANGED ThreadOnly
         /\ pc' = [pc EXCEPT ![w] = pc'[w]]
         /\ pc'[w] \in Between \cup {"claim", "done"}
         /\ pc'[w] = "done" => cancelled
         /\ pc'[w] = "claim" => pc[w] = "recheck" /\ ~cancelled
         /\ pc'[w] = "recheck" => MayPass
<1> USE DEF Between, Goto, jvars, TypeInv, ThreadOnly
<1>1. CASE CheckCancelled(w)
  BY <1>1 DEF CheckCancelled
<1>2. CASE LockControl(w)
  BY <1>2 DEF LockControl, Lock
<1>3. CASE TestPasses(w)
  BY <1>3 DEF TestPasses, Unlock
<1>4. CASE TestBlocks(w)
  BY <1>4 DEF TestBlocks
<1>5. CASE Block(w)
  BY <1>5 DEF Block, Sleep
<1>6. CASE Recheck(w)
  BY <1>6 DEF Recheck
<1> QED
  BY <1>1, <1>2, <1>3, <1>4, <1>5, <1>6 DEF CheckSteps

LEMMA MainEffect ==
  ASSUME TypeInv, ExitInv, MainStep \/ SpawnFails
  PROVE  /\ UNCHANGED <<jvars, pool, idx, next, item, completed, failed, progress,
                        seen, report, late>>
         /\ \/ pc' = pc
            \/ \E w \in Workers : /\ pc[w] = "unborn"
                                  /\ pc' = [pc EXCEPT ![w] = "check"]
<1>1. ASSUME NEW w \in Workers, Spawn(w)
      PROVE  /\ UNCHANGED <<jvars, pool, idx, next, item, completed, failed,
                            progress, seen, report, late>>
             /\ pc[w] = "unborn"
             /\ pc' = [pc EXCEPT ![w] = "check"]
  <2>1. w > spawned
    BY <1>1 DEF Spawn, TypeInv
  <2> QED
    BY <1>1, <2>1 DEF Spawn, Goto, ExitInv
<1>2. CASE StartJoining \/ Join \/ SpawnFails
  BY <1>2 DEF StartJoining, Join, SpawnFails
<1> QED
  BY <1>1, <1>2 DEF MainStep

LEMMA ControllerEffect ==
  ASSUME NEW c \in Controllers, Controller(c)
  PROVE  UNCHANGED <<pool, main, spawned, pc, idx, next, item, completed, failed,
                     progress, seen, report>>
BY DEF Controller, PauseBatch, ResumeBatch, CancelBatch, FinishBatchCall, pvars

\* The items and their owners are of no concern to any other step.
OthersKeep == UNCHANGED <<next, item, idx, completed, failed>>

LEMMA OthersKeepItems ==
  ASSUME TypeInv, ExitInv, [Next]_vars,
         \A w \in Workers : ~Claim(w) /\ ~Work(w) /\ ~CountItem(w)
  PROVE  /\ OthersKeep
         /\ \A w \in Workers : pc'[w] \in {"work", "count"} => pc'[w] = pc[w]
         /\ \A w \in Workers : pc[w] \in {"work", "count"} => pc'[w] = pc[w]
<1> USE DEF OthersKeep, TypeInv
<1>1. CASE MainStep \/ SpawnFails
  BY <1>1, MainEffect
<1>2. ASSUME NEW w \in Workers, CheckSteps(w)
      PROVE  /\ OthersKeep
             /\ \A v \in Workers : pc'[v] \in {"work", "count"} => pc'[v] = pc[v]
             /\ \A v \in Workers : pc[v] \in {"work", "count"} => pc'[v] = pc[v]
  BY <1>2, CheckStepsEffect DEF Between, ThreadOnly
<1>3. ASSUME NEW w \in Workers, ItemSteps(w)
      PROVE  /\ OthersKeep
             /\ \A v \in Workers : pc'[v] \in {"work", "count"} => pc'[v] = pc[v]
             /\ \A v \in Workers : pc[v] \in {"work", "count"} => pc'[v] = pc[v]
  <2>1. CASE EnterProgress(w)
    BY <2>1 DEF EnterProgress, Goto
  <2>2. CASE LoadCompleted(w) \/ LoadFailed(w)
    BY <2>2 DEF LoadCompleted, LoadFailed
  <2>3. CASE Report(w)
    BY <2>3 DEF Report, Goto
  <2> QED
    BY <1>3, <2>1, <2>2, <2>3 DEF ItemSteps
<1>4. ASSUME NEW w \in Workers, Wakeup(w)
      PROVE  UNCHANGED <<pc, next, item, idx, completed, failed>>
  BY <1>4 DEF Wakeup, pvars
<1>5. ASSUME NEW c \in Controllers, Controller(c)
      PROVE  UNCHANGED <<pc, next, item, idx, completed, failed>>
  BY <1>5, ControllerEffect
<1>6. CASE UNCHANGED vars
  BY <1>6 DEF vars, pvars
<1> QED
  BY <1>1, <1>2, <1>3, <1>4, <1>5, <1>6 DEF Next, ThreadStep, Dead

-----------------------------------------------------------------------------
(* Claims and owners. *)

LEMMA ItemsAndWorkers ==
  /\ Workers \subseteq Nat \ {0}
  /\ Items = {i \in Nat : i < Count}
BY ParallelForAssumption DEF Workers, Items

LEMMA ClaimStep == TypeInv /\ ClaimInv /\ OwnerInv /\ ExitInv /\ [Next]_vars => ClaimInv'
<1> SUFFICES ASSUME TypeInv, ClaimInv, OwnerInv, ExitInv, [Next]_vars PROVE ClaimInv'
  OBVIOUS
<1> USE ItemsAndWorkers, ParallelForAssumption DEF TypeInv, ClaimInv
<1>1. ASSUME NEW w \in Workers, Claim(w) PROVE ClaimInv'
  BY <1>1 DEF Claim
<1>2. ASSUME NEW w \in Workers, Work(w) PROVE ClaimInv'
  <2>1. PICK o \in Outcomes : item' = [item EXCEPT ![idx[w]] = o]
    BY <1>2 DEF Work
  <2>2. idx[w] \in Items /\ item[idx[w]] = "running" /\ next' = next
    BY <1>2 DEF Work, OwnerInv
  <2> QED
    BY <2>1, <2>2 DEF Outcomes
<1>3. ASSUME NEW w \in Workers, CountItem(w) PROVE ClaimInv'
  BY <1>3 DEF CountItem
<1>4. CASE \A w \in Workers : ~Claim(w) /\ ~Work(w) /\ ~CountItem(w)
  BY <1>4, OthersKeepItems DEF OthersKeep
<1> QED
  BY <1>1, <1>2, <1>3, <1>4

LEMMA OwnerStep == TypeInv /\ ClaimInv /\ OwnerInv /\ ExitInv /\ [Next]_vars => OwnerInv'
<1> SUFFICES ASSUME TypeInv, ClaimInv, OwnerInv, ExitInv, [Next]_vars PROVE OwnerInv'
  OBVIOUS
<1> USE DEF TypeInv, OwnerInv
<1>1. ASSUME NEW w \in Workers, Claim(w) PROVE OwnerInv'
  <2>1. CASE next >= Count
    BY <1>1, <2>1 DEF Claim, Goto
  <2>2. CASE ~(next >= Count)
    <3>1. /\ next \in Items
          /\ pc[w] = "claim"
          /\ pc' = [pc EXCEPT ![w] = "work"]
          /\ idx' = [idx EXCEPT ![w] = next]
          /\ item' = [item EXCEPT ![next] = "running"]
      BY <1>1, <2>2, ItemsAndWorkers, ParallelForAssumption DEF Claim, Goto
    <3>2. item[next] = "pending"
      BY <3>1 DEF ClaimInv
    <3>3. \A v \in Workers : pc[v] \in {"work", "count"} => idx[v] # next
      BY <3>2 DEF Outcomes
    <3> QED
      BY <3>1, <3>2, <3>3
  <2> QED
    BY <2>1, <2>2
<1>2. ASSUME NEW w \in Workers, Work(w) PROVE OwnerInv'
  <2>1. PICK o \in Outcomes : item' = [item EXCEPT ![idx[w]] = o]
    BY <1>2 DEF Work
  <2>2. /\ pc[w] = "work" /\ idx' = idx
        /\ pc' = [pc EXCEPT ![w] = "count"]
    BY <1>2 DEF Work, Goto
  <2>3. o # "running" /\ idx[w] \in Items
    BY <2>2 DEF Outcomes
  <2>4. \A v \in Workers : v # w /\ pc[v] \in {"work", "count"} => idx[v] # idx[w]
    BY <2>2
  <2> QED
    BY <2>1, <2>2, <2>3, <2>4
<1>3. ASSUME NEW w \in Workers, CountItem(w) PROVE OwnerInv'
  <2>1. /\ pc[w] = "count" /\ idx' = idx /\ item' = item
        /\ pc' = [pc EXCEPT ![w] = "progress"]
    BY <1>3 DEF CountItem, Goto
  <2> QED
    BY <2>1
<1>4. CASE \A w \in Workers : ~Claim(w) /\ ~Work(w) /\ ~CountItem(w)
  BY <1>4, OthersKeepItems DEF OthersKeep
<1> QED
  BY <1>1, <1>2, <1>3, <1>4

-----------------------------------------------------------------------------
(* Why a thread leaves its loop, and when the caller goes on. *)

OnItem == {"claim", "work", "count", "progress", "load"}

LEMMA ItemStepsEffect ==
  ASSUME TypeInv, NEW w \in Workers, ItemSteps(w)
  PROVE  /\ pc[w] \in OnItem
         /\ UNCHANGED <<jvars, pool, main, spawned>>
         /\ next' >= next
         /\ pc' = [pc EXCEPT ![w] = pc'[w]]
         /\ pc'[w] \in (OnItem \ {"claim"}) \cup {"check", "done"}
         /\ pc'[w] = "done" => next >= Count
<1> USE DEF OnItem, Goto, TypeInv
<1>1. CASE Claim(w)
  BY <1>1 DEF Claim
<1>2. CASE Work(w)
  BY <1>2 DEF Work
<1>3. CASE CountItem(w)
  BY <1>3 DEF CountItem
<1>4. CASE EnterProgress(w)
  BY <1>4 DEF EnterProgress
<1>5. CASE LoadCompleted(w) \/ LoadFailed(w)
  BY <1>5 DEF LoadCompleted, LoadFailed
<1>6. CASE Report(w)
  BY <1>6 DEF Report
<1> QED
  BY <1>1, <1>2, <1>3, <1>4, <1>5, <1>6 DEF ItemSteps

LEMMA ExitStep == TypeInv /\ ExitInv /\ [Next]_vars => ExitInv'
<1> SUFFICES ASSUME TypeInv, ExitInv, [Next]_vars PROVE ExitInv'
  OBVIOUS
<1> USE DEF TypeInv, ExitInv
<1>1. ASSUME NEW w \in Workers, Spawn(w) PROVE ExitInv'
  <2>1. /\ main = "spawn" /\ w = spawned + 1 /\ spawned' = w
        /\ pc' = [pc EXCEPT ![w] = "check"]
        /\ UNCHANGED <<jvars, pool, main, next>>
    BY <1>1 DEF Spawn, Goto
  <2>2. \A v \in Workers : pc'[v] = "unborn" <=> v > spawned'
    BY <2>1, ItemsAndWorkers
  <2> QED
    BY <2>1, <2>2 DEF jvars
<1>2. CASE StartJoining \/ Join \/ SpawnFails
  BY <1>2 DEF StartJoining, Join, SpawnFails, jvars
<1>3. ASSUME NEW w \in Workers, CheckSteps(w) PROVE ExitInv'
  <2>1. main # "returned"
    BY <1>3, CheckStepsEffect, ItemsAndWorkers DEF Between
  <2> QED
    BY <1>3, <2>1, CheckStepsEffect DEF Between, ThreadOnly
<1>4. ASSUME NEW w \in Workers, ItemSteps(w) PROVE ExitInv'
  <2>1. main # "returned"
    BY <1>4, ItemStepsEffect, ItemsAndWorkers DEF OnItem
  <2>2. next' \in Nat
    BY NextType
  <2>3. spawned # 0
    BY <1>4, ItemStepsEffect, ItemsAndWorkers DEF OnItem
  <2> QED
    BY <1>4, <2>1, <2>2, <2>3, ItemStepsEffect, ParallelForAssumption DEF OnItem, jvars
<1>5. ASSUME NEW w \in Workers, Wakeup(w) PROVE ExitInv'
  BY <1>5 DEF Wakeup, SpuriousWakeup, pvars
<1>6. ASSUME NEW c \in Controllers, Controller(c) PROVE ExitInv'
  <2>1. cancelled => cancelled'
    BY <1>6 DEF Controller, PauseBatch, ResumeBatch, CancelBatch, FinishBatchCall,
                Pause, Resume, CancelStore, FinishCall, CancelClear, NotifyAll
  <2> QED
    BY <1>6, <2>1, ControllerEffect
<1>7. CASE UNCHANGED vars
  BY <1>7 DEF vars, pvars, jvars
<1> QED
  BY <1>1, <1>2, <1>3, <1>4, <1>5, <1>6, <1>7 DEF Next, MainStep, ThreadStep, Dead

-----------------------------------------------------------------------------
(* At most one late item per thread. *)

LEMMA LateStep == TypeInv /\ ExitInv /\ LateInv /\ [Next]_vars => LateInv'
<1> SUFFICES ASSUME TypeInv, ExitInv, LateInv, [Next]_vars PROVE LateInv'
  OBVIOUS
<1> USE DEF TypeInv, LateInv, Halted
<1>1. CASE MainStep \/ SpawnFails
  BY <1>1, MainEffect DEF jvars
<1>2. ASSUME NEW w \in Workers, CheckSteps(w) PROVE LateInv'
  <2>1. UNCHANGED <<late, paused, cancelled, call>>
    BY <1>2, CheckStepsEffect DEF ThreadOnly
  <2>2. late[w] = 1 => pc'[w] # "claim" /\ (pc'[w] = "recheck" => cancelled)
    BY <1>2, CheckStepsEffect DEF MayPass
  <2> QED
    BY <1>2, <2>1, <2>2, CheckStepsEffect
<1>3. ASSUME NEW w \in Workers, ItemSteps(w) PROVE LateInv'
  <2>1. CASE Claim(w)
    <3>1. late[w] = 0
      BY <2>1 DEF Claim
    <3>2. \A v \in Workers : v # w => late'[v] = late[v] /\ pc'[v] = pc[v]
      BY <2>1 DEF Claim, Goto
    <3>3. /\ late'[w] \in {0, 1} /\ (~Halted => late'[w] = 0)
          /\ pc'[w] \notin {"claim", "recheck"}
      BY <2>1, <3>1 DEF Claim, Goto
    <3> QED
      BY <2>1, <3>2, <3>3 DEF Claim, jvars
  <2>2. CASE ~Claim(w)
    <3>1. UNCHANGED <<late, jvars>>
      BY <1>3, <2>2 DEF ItemSteps, Work, CountItem, EnterProgress, LoadCompleted,
                        LoadFailed, Report
    <3>2. /\ pc' = [pc EXCEPT ![w] = pc'[w]]
          /\ pc'[w] \notin {"claim", "recheck"}
      BY <1>3, ItemStepsEffect DEF OnItem
    <3>3. UNCHANGED <<late, paused, cancelled, call>>
      BY <3>1 DEF jvars
    <3>4. \A v \in Workers : v # w => pc'[v] = pc[v]
      BY <3>2
    <3> QED
      BY <3>2, <3>3, <3>4
  <2> QED
    BY <2>1, <2>2
<1>4. ASSUME NEW w \in Workers, Wakeup(w) PROVE LateInv'
  BY <1>4 DEF Wakeup, SpuriousWakeup, pvars
<1>5. ASSUME NEW c \in Controllers, Controller(c) PROVE LateInv'
  <2>1. CASE PauseBatch(c)
    BY <2>1 DEF PauseBatch, Pause, pvars
  <2>2. CASE ResumeBatch(c)
    BY <2>2 DEF ResumeBatch, Resume
  <2>3. CASE CancelBatch(c)
    BY <2>3 DEF CancelBatch, CancelStore, pvars
  <2>4. CASE FinishBatchCall(c)
    BY <2>4 DEF FinishBatchCall, FinishCall, CancelClear, NotifyAll, pvars
  <2> QED
    BY <1>5, <2>1, <2>2, <2>3, <2>4 DEF Controller
<1>6. CASE UNCHANGED vars
  BY <1>6 DEF vars, pvars, jvars
<1> QED
  BY <1>1, <1>2, <1>3, <1>4, <1>5, <1>6 DEF Next, ThreadStep, Dead

-----------------------------------------------------------------------------
(* The counters. *)

LEMMA CountedFinite ==
  ASSUME NEW os
  PROVE  /\ IsFiniteSet(Counted(os))
         /\ Cardinality(Counted(os)) \in 0 .. Count
<1>1. IsFiniteSet(Items) /\ Cardinality(Items) = Count
  BY FS_Interval, ParallelForAssumption DEF Items
<1>2. Counted(os) \in SUBSET Items
  BY DEF Counted
<1> QED
  BY <1>1, <1>2, FS_Subset, FS_CardinalityType, ParallelForAssumption

\* CountItem adds the item its thread owns to one of the two sets.
LEMMA CountItemCounts ==
  ASSUME TypeInv, OwnerInv, NEW w \in Workers, CountItem(w), NEW os
  PROVE  /\ idx[w] \notin Counted(os)
         /\ Counted(os)' = IF item[idx[w]] \in os
                           THEN Counted(os) \cup {idx[w]}
                           ELSE Counted(os)
<1>1. /\ pc[w] = "count" /\ pc' = [pc EXCEPT ![w] = "progress"]
      /\ UNCHANGED <<item, idx>>
      /\ idx[w] \in Items
  BY DEF CountItem, Goto, OwnerInv
<1>2. \A v \in Workers : v # w /\ pc[v] = "count" => idx[v] # idx[w]
  BY <1>1 DEF OwnerInv
<1> QED
  BY <1>1, <1>2 DEF Counted, TypeInv

LEMMA CountStep ==
  TypeInv /\ ClaimInv /\ OwnerInv /\ ExitInv /\ CountInv /\ [Next]_vars => CountInv'
<1> SUFFICES ASSUME TypeInv, ClaimInv, OwnerInv, ExitInv, CountInv, [Next]_vars
             PROVE  CountInv'
  OBVIOUS
<1> DEFINE Good == {"ok"}
           Bad == {"error", "blank"}
           SameSets == Counted(Good)' = Counted(Good) /\ Counted(Bad)' = Counted(Bad)
<1>1. ASSUME NEW w \in Workers, Claim(w) PROVE CountInv'
  <2>1. CASE next >= Count
    <3>1. /\ pc[w] = "claim" /\ pc' = [pc EXCEPT ![w] = "done"]
          /\ UNCHANGED <<item, idx, completed, failed>>
      BY <1>1, <2>1 DEF Claim, Goto
    <3>2. SameSets
      BY <3>1 DEF Counted, TypeInv
    <3> QED
      BY <3>1, <3>2 DEF CountInv
  <2>2. CASE ~(next >= Count)
    <3>1. /\ next \in Items
          /\ pc[w] = "claim" /\ pc' = [pc EXCEPT ![w] = "work"]
          /\ idx' = [idx EXCEPT ![w] = next]
          /\ item' = [item EXCEPT ![next] = "running"]
          /\ UNCHANGED <<completed, failed>>
      BY <1>1, <2>2, ItemsAndWorkers, ParallelForAssumption DEF Claim, Goto, TypeInv
    <3>2. item[next] = "pending"
      BY <3>1 DEF ClaimInv, TypeInv
    <3>3. \A i \in Items : item'[i] \in Good \cup Bad <=> item[i] \in Good \cup Bad
      BY <3>1, <3>2 DEF TypeInv
    <3>4. \A i \in Items : item[i] \in Good \cup Bad => item'[i] = item[i]
      BY <3>1, <3>2 DEF TypeInv
    <3>5. \A v \in Workers : (pc'[v] = "count" <=> pc[v] = "count")
                             /\ (pc[v] = "count" => idx'[v] = idx[v])
      BY <3>1 DEF TypeInv
    <3>6. \A i \in Items :
             (\A v \in Workers : pc'[v] = "count" => idx'[v] # i)
             <=> (\A v \in Workers : pc[v] = "count" => idx[v] # i)
      BY <3>5
    <3>7. SameSets
      BY <3>3, <3>4, <3>6 DEF Counted
    <3> QED
      BY <3>1, <3>7 DEF CountInv
  <2> QED
    BY <2>1, <2>2
<1>2. ASSUME NEW w \in Workers, Work(w) PROVE CountInv'
  <2>1. PICK o \in Outcomes : item' = [item EXCEPT ![idx[w]] = o]
    BY <1>2 DEF Work
  <2>2. /\ pc[w] = "work" /\ pc' = [pc EXCEPT ![w] = "count"]
        /\ UNCHANGED <<idx, completed, failed>>
        /\ idx[w] \in Items /\ item[idx[w]] = "running"
    BY <1>2 DEF Work, Goto, OwnerInv
  <2>3. \A i \in Items : i # idx[w] => item'[i] = item[i]
    BY <2>1, <2>2 DEF TypeInv
  <2>4. SameSets
    BY <2>2, <2>3 DEF Counted, TypeInv
  <2> QED
    BY <2>2, <2>4 DEF CountInv
<1>3. ASSUME NEW w \in Workers, CountItem(w) PROVE CountInv'
  <2>1. item[idx[w]] \in Outcomes
    BY <1>3 DEF OwnerInv, CountItem
  <2>2. /\ idx[w] \notin Counted(Good) /\ idx[w] \notin Counted(Bad)
        /\ Counted(Good)' = IF item[idx[w]] \in Good
                            THEN Counted(Good) \cup {idx[w]} ELSE Counted(Good)
        /\ Counted(Bad)' = IF item[idx[w]] \in Bad
                           THEN Counted(Bad) \cup {idx[w]} ELSE Counted(Bad)
    BY <1>3, CountItemCounts
  <2>3. /\ Cardinality(Counted(Good) \cup {idx[w]}) = Cardinality(Counted(Good)) + 1
        /\ Cardinality(Counted(Bad) \cup {idx[w]}) = Cardinality(Counted(Bad)) + 1
    BY <2>2, CountedFinite, FS_AddElement
  <2>4. CASE item[idx[w]] = "ok"
    <3>1. completed' = completed + 1 /\ failed' = failed
      BY <1>3, <2>4 DEF CountItem
    <3> QED
      BY <2>2, <2>3, <2>4, <3>1 DEF CountInv
  <2>5. CASE item[idx[w]] # "ok"
    <3>1. completed' = completed /\ failed' = failed + 1
      BY <1>3, <2>5 DEF CountItem
    <3>2. item[idx[w]] \in Bad /\ item[idx[w]] \notin Good
      BY <2>1, <2>5 DEF Outcomes
    <3> QED
      BY <2>2, <2>3, <3>1, <3>2 DEF CountInv
  <2> QED
    BY <2>4, <2>5
<1>4. CASE \A w \in Workers : ~Claim(w) /\ ~Work(w) /\ ~CountItem(w)
  <2>1. SameSets /\ UNCHANGED <<completed, failed>>
    BY <1>4, OthersKeepItems DEF OthersKeep, Counted
  <2> QED
    BY <2>1 DEF CountInv
<1> QED
  BY <1>1, <1>2, <1>3, <1>4

-----------------------------------------------------------------------------
(* The progress reports. *)

LEMMA ReportStep == TypeInv /\ ExitInv /\ ReportInv /\ [Next]_vars => ReportInv'
<1> SUFFICES ASSUME TypeInv, ExitInv, ReportInv, [Next]_vars PROVE ReportInv'
  OBVIOUS
<1> USE DEF TypeInv, ReportInv
<1> DEFINE Kept == UNCHANGED <<completed, failed, progress, seen, report>>
           Reporting == {"progress", "load"}
<1>1. ASSUME Kept, NEW w \in Workers, pc' = [pc EXCEPT ![w] = pc'[w]],
             pc[w] \notin Reporting, pc'[w] \notin Reporting
      PROVE  ReportInv'
  <2>1. \A v \in Workers : /\ pc'[v] = "load" <=> pc[v] = "load"
                           /\ pc'[v] = "progress" <=> pc[v] = "progress"
    BY <1>1
  <2> QED
    BY <1>1, <2>1
<1>2. CASE MainStep \/ SpawnFails
  <2>1. CASE pc' = pc
    BY <1>2, <2>1, MainEffect
  <2>2. ASSUME NEW w \in Workers, pc[w] = "unborn", pc' = [pc EXCEPT ![w] = "check"]
        PROVE  ReportInv'
    BY <1>1, <1>2, <2>2, MainEffect
  <2> QED
    BY <1>2, <2>1, <2>2, MainEffect
<1>3. ASSUME NEW w \in Workers, CheckSteps(w) PROVE ReportInv'
  BY <1>1, <1>3, CheckStepsEffect DEF Between, ThreadOnly
<1>4. ASSUME NEW w \in Workers, ItemSteps(w) PROVE ReportInv'
  <2>1. CASE Claim(w)
    BY <1>1, <2>1 DEF Claim, Goto
  <2>2. CASE Work(w)
    BY <1>1, <2>2 DEF Work, Goto
  <2>3. CASE CountItem(w)
    <3>1. /\ pc[w] = "count" /\ pc' = [pc EXCEPT ![w] = "progress"]
          /\ UNCHANGED <<progress, seen, report>>
          /\ completed' \in Nat /\ completed' >= completed
          /\ failed' \in Nat /\ failed' >= failed
      BY <2>3 DEF CountItem, Goto
    <3>2. pc'[w] = "progress"
      BY <3>1
    <3>3. \A v \in Workers : pc'[v] = "load" <=> pc[v] = "load"
      BY <3>1
    <3>4. \A v \in Workers :
            /\ seen'[v].completed # -1 =>
                 seen'[v].completed \in report'.completed .. completed'
            /\ seen'[v].failed # -1 =>
                 seen'[v].failed \in report'.failed .. failed'
      BY <3>1
    <3> QED
      BY <3>1, <3>2, <3>3, <3>4
  <2>4. CASE EnterProgress(w)
    <3>1. /\ pc[w] = "progress" /\ progress = Free /\ progress' = w
          /\ pc' = [pc EXCEPT ![w] = "load"]
          /\ UNCHANGED <<seen, report, completed, failed>>
      BY <2>4 DEF EnterProgress, Goto
    <3>2. \A v \in Workers : pc[v] # "load"
      BY <3>1, ItemsAndWorkers DEF Free
    <3>3. \A v \in Workers : seen[v] = NotLoaded
      BY <3>2
    <3> QED
      BY <3>1, <3>2, <3>3 DEF NotLoaded
  <2>5. CASE LoadCompleted(w)
    BY <2>5 DEF LoadCompleted
  <2>6. CASE LoadFailed(w)
    BY <2>6 DEF LoadFailed
  <2>7. CASE Report(w)
    <3>1. /\ pc[w] = "load" /\ pc' = [pc EXCEPT ![w] = "check"]
          /\ seen[w].completed # -1 /\ seen[w].failed # -1
          /\ report' = seen[w]
          /\ seen' = [seen EXCEPT ![w] = NotLoaded]
          /\ progress' = Free
          /\ UNCHANGED <<completed, failed>>
      BY <2>7 DEF Report, Goto
    <3>2. progress = w /\ \A v \in Workers : pc[v] = "load" => v = w
      BY <3>1
    <3>3. \A v \in Workers : pc'[v] # "load" /\ seen'[v] = NotLoaded
      BY <3>1, <3>2
    <3>4. report'.completed <= completed /\ report'.failed <= failed
      BY <3>1
    <3>5. (\A v \in Workers : pc'[v] \notin Reporting) =>
            report' = [completed |-> completed, failed |-> failed]
      <4> SUFFICES ASSUME \A v \in Workers : pc'[v] # "progress"
                   PROVE  report' = [completed |-> completed, failed |-> failed]
        OBVIOUS
      <4>1. \A v \in Workers : pc[v] # "progress"
        BY <3>1
      <4>2. seen[w].completed = completed /\ seen[w].failed = failed
        BY <3>1, <4>1
      <4> QED
        BY <3>1, <4>2
    <3> QED
      BY <3>1, <3>3, <3>4, <3>5, ItemsAndWorkers DEF Free, NotLoaded
  <2> QED
    BY <1>4, <2>1, <2>2, <2>3, <2>4, <2>5, <2>6, <2>7 DEF ItemSteps
<1>5. ASSUME NEW w \in Workers, Wakeup(w) PROVE ReportInv'
  BY <1>5 DEF Wakeup, pvars
<1>6. ASSUME NEW c \in Controllers, Controller(c) PROVE ReportInv'
  BY <1>6, ControllerEffect
<1>7. CASE UNCHANGED vars
  BY <1>7 DEF vars, pvars
<1> QED
  BY <1>2, <1>3, <1>4, <1>5, <1>6, <1>7 DEF Next, ThreadStep, Dead

-----------------------------------------------------------------------------
(* The overshoot of next. *)

Done == {w \in Workers : pc[w] = "done"}

LEMMA DoneFinite ==
  /\ IsFiniteSet(Done) /\ Cardinality(Done) \in Nat
  /\ IsFiniteSet(Done') /\ Cardinality(Done') \in Nat
<1>1. IsFiniteSet(Workers)
  BY FS_Interval, ParallelForAssumption DEF Workers
<1>2. Done \in SUBSET Workers /\ Done' \in SUBSET Workers
  BY DEF Done, Workers
<1> QED
  BY <1>1, <1>2, FS_Subset, FS_CardinalityType

LEMMA OvershootStep ==
  TypeInv /\ ExitInv /\ OvershootInv /\ [Next]_vars => OvershootInv'
<1> SUFFICES ASSUME TypeInv, ExitInv, OvershootInv, [Next]_vars PROVE OvershootInv'
  OBVIOUS
<1> USE ParallelForAssumption DEF TypeInv
<1>0. next <= Count + Cardinality(Done)
  BY DEF OvershootInv, Done
<1>1. SUFFICES next' <= Count + Cardinality(Done')
  BY DEF OvershootInv, Done, Workers
<1>2. ASSUME Done \subseteq Done', next' = next PROVE next' <= Count + Cardinality(Done')
  BY <1>0, <1>2, DoneFinite, FS_Subset
<1>3. ASSUME NEW w \in Workers, Claim(w) PROVE next' <= Count + Cardinality(Done')
  <2>1. CASE next >= Count
    <3>1. /\ pc[w] = "claim" /\ pc' = [pc EXCEPT ![w] = "done"]
          /\ next' = next + 1
      BY <1>3, <2>1 DEF Claim, Goto
    <3>2. w \notin Done /\ Done' = Done \cup {w}
      BY <3>1 DEF Done, Workers
    <3> QED
      BY <1>0, <3>1, <3>2, DoneFinite, FS_AddElement
  <2>2. CASE ~(next >= Count)
    <3>1. next' = next + 1
      BY <1>3 DEF Claim
    <3> QED
      BY <2>2, <3>1, DoneFinite
  <2> QED
    BY <2>1, <2>2
<1>4. CASE MainStep \/ SpawnFails
  <2>1. next' = next /\ \A v \in Workers : pc[v] = "done" => pc'[v] = "done"
    BY <1>4, MainEffect
  <2> QED
    BY <1>2, <2>1 DEF Done, Workers
<1>5. ASSUME NEW w \in Workers, CheckSteps(w) PROVE next' <= Count + Cardinality(Done')
  <2>1. next' = next /\ \A v \in Workers : pc[v] = "done" => pc'[v] = "done"
    BY <1>5, CheckStepsEffect DEF Between, ThreadOnly
  <2> QED
    BY <1>2, <2>1 DEF Done, Workers
<1>6. ASSUME NEW w \in Workers, ItemSteps(w), ~Claim(w)
      PROVE  next' <= Count + Cardinality(Done')
  <2>1. next' = next
    BY <1>6 DEF ItemSteps, Work, CountItem, EnterProgress, LoadCompleted, LoadFailed,
                Report
  <2>2. \A v \in Workers : pc[v] = "done" => pc'[v] = "done"
    BY <1>6, ItemStepsEffect DEF OnItem
  <2> QED
    BY <1>2, <2>1, <2>2 DEF Done, Workers
<1>7. ASSUME NEW w \in Workers, Wakeup(w) PROVE next' <= Count + Cardinality(Done')
  BY <1>2, <1>7 DEF Wakeup, pvars, Done, Workers
<1>8. ASSUME NEW c \in Controllers, Controller(c)
      PROVE  next' <= Count + Cardinality(Done')
  BY <1>2, <1>8, ControllerEffect DEF Done, Workers
<1>9. CASE UNCHANGED vars
  BY <1>2, <1>9 DEF vars, pvars, Done, Workers
<1> QED
  BY <1>3, <1>4, <1>5, <1>6, <1>7, <1>8, <1>9 DEF Next, ThreadStep, Dead

-----------------------------------------------------------------------------
(* The inductive invariant. *)

LEMMA InitInv == Init => Inv
<1> SUFFICES ASSUME Init PROVE Inv
  OBVIOUS
<1> USE DEF Init
<1>1. ClaimInv
  BY ItemsAndWorkers DEF ClaimInv
<1>2. OwnerInv
  BY DEF OwnerInv
<1>3. ExitInv
  <2>1. \A t, h \in Nat : Count > 0 => PoolSize(t, h) > 0
    BY ParallelForAssumption DEF PoolSize
  <2>2. Count > 0 => pool > 0
    BY <2>1, ParallelForAssumption
  <2>3. Count = 0 => pool = 0
    BY InitType, ParallelForAssumption DEF TypeInv
  <2> QED
    BY <2>2, <2>3, ItemsAndWorkers, ParallelForAssumption DEF ExitInv
<1>4. LateInv
  BY DEF LateInv, JobInit
<1>5. CountInv
  <2>1. Counted({"ok"}) = {} /\ Counted({"error", "blank"}) = {}
    BY DEF Counted
  <2> QED
    BY <2>1, FS_EmptySet DEF CountInv
<1>6. ReportInv
  BY ItemsAndWorkers DEF ReportInv, NotLoaded, Free
<1>7. OvershootInv
  BY DoneFinite, ParallelForAssumption DEF OvershootInv, Done
<1> QED
  BY <1>1, <1>2, <1>3, <1>4, <1>5, <1>6, <1>7 DEF Inv

LEMMA NextInv == TypeInv /\ Inv /\ [Next]_vars => Inv'
BY ClaimStep, OwnerStep, ExitStep, LateStep, CountStep, ReportStep, OvershootStep
   DEF Inv

\* The types and the inductive invariant of parallelFor hold in every behaviour,
\* whatever the number of items, threads and controllers.
THEOREM Invariance == Spec => [](TypeInv /\ Inv)
<1>1. Init => TypeInv /\ Inv
  BY InitType, InitInv
<1>2. TypeInv /\ Inv /\ [Next]_vars => (TypeInv /\ Inv)'
  BY NextType, NextInv
<1> QED
  BY <1>1, <1>2, PTL DEF Spec

\* Type correctness, with completed and failed bounded by the number of items:
\* no item is counted twice.
THEOREM TypeCorrect == Spec => []TypeOK
<1>1. TypeInv /\ Inv => TypeOK
  <2> SUFFICES ASSUME TypeInv, Inv PROVE TypeOK
    OBVIOUS
  <2>1. completed \in 0 .. Count /\ failed \in 0 .. Count
    BY CountedFinite DEF Inv, CountInv
  <2>2. report.completed \in -1 .. Count /\ report.failed \in -1 .. Count
    BY <2>1, ParallelForAssumption DEF TypeInv, Inv, ReportInv
  <2>3. \A w \in Workers : /\ seen[w].completed \in -1 .. Count
                           /\ seen[w].failed \in -1 .. Count
    BY <2>1, ParallelForAssumption DEF TypeInv, Inv, ReportInv
  <2>4. report \in Counters /\ seen \in [Workers -> Counters]
    BY <2>2, <2>3 DEF TypeInv, Counters
  <2> QED
    BY <2>1, <2>4 DEF TypeInv, TypeOK
<1> QED
  BY <1>1, Invariance, PTL

\* When parallelFor returns, completed and failed are the numbers of items that
\* ended well and badly, and the last report carried both.
THEOREM CountsAreFinal == Spec => []FinalCounts
<1>1. TypeInv /\ Inv => FinalCounts
  <2> SUFFICES ASSUME TypeInv, Inv, main = "returned"
               PROVE  /\ completed = Cardinality({i \in Items : item[i] = "ok"})
                      /\ failed = Cardinality({i \in Items : item[i] \in {"error", "blank"}})
                      /\ report = [completed |-> completed, failed |-> failed]
    BY DEF FinalCounts
  <2>1. \A w \in Workers : pc[w] \in {"done", "unborn"}
    BY ItemsAndWorkers DEF TypeInv, Inv, ExitInv
  <2>2. /\ Counted({"ok"}) = {i \in Items : item[i] = "ok"}
        /\ Counted({"error", "blank"}) = {i \in Items : item[i] \in {"error", "blank"}}
    BY <2>1 DEF Counted
  <2> QED
    BY <2>1, <2>2 DEF Inv, CountInv, ReportInv
<1> QED
  BY <1>1, Invariance, PTL

\* No thread starts a second item after a pause or a cancellation.
THEOREM LateItemBound == Spec => []AtMostOneLateItem
<1>1. TypeInv /\ Inv => AtMostOneLateItem
  BY DEF Inv, LateInv, AtMostOneLateItem
<1> QED
  BY <1>1, Invariance, PTL

\* Claiming past the end is bounded by the number of threads.
THEOREM OvershootBound == Spec => []OvershootBounded
<1>1. TypeInv /\ Inv => OvershootBounded
  <2> SUFFICES ASSUME TypeInv, Inv PROVE OvershootBounded
    OBVIOUS
  <2>1. ASSUME NEW w \in Workers, pc[w] = "done" PROVE w \in 1 .. pool
    <3>1. ~(w > spawned)
      BY <2>1 DEF Inv, ExitInv
    <3>2. w \in Nat \ {0} /\ spawned \in Nat /\ pool \in Nat /\ spawned <= pool
      BY ItemsAndWorkers, ParallelForAssumption DEF TypeInv
    <3> QED
      BY <3>1, <3>2
  <2>2. Cardinality(Done) <= pool
    <3>1. Done \in SUBSET (1 .. pool)
      BY <2>1 DEF Done
    <3>2. pool \in Nat
      BY ParallelForAssumption DEF TypeInv
    <3>3. IsFiniteSet(1 .. pool) /\ Cardinality(1 .. pool) = pool
      BY <3>2, FS_Interval
    <3> QED
      BY <3>1, <3>3, FS_Subset
  <2> QED
    BY <2>2, DoneFinite, ParallelForAssumption DEF Inv, OvershootInv, OvershootBounded,
                                                  TypeInv, Done
<1> QED
  BY <1>1, Invariance, PTL

\* Reported progress never goes backwards.
THEOREM ReportsMonotone == Spec => ReportsNeverDecrease
<1> DEFINE Step == /\ report'.completed >= report.completed
                   /\ report'.failed >= report.failed
<1>1. TypeInv /\ Inv /\ [Next]_vars => [Step]_vars
  <2> SUFFICES ASSUME TypeInv, Inv, [Next]_vars PROVE Step
    OBVIOUS
  <2>1. ASSUME NEW w \in Workers, Report(w) PROVE Step
    <3>1. /\ report' = seen[w]
          /\ seen[w].completed # -1 /\ seen[w].failed # -1
      BY <2>1 DEF Report
    <3> QED
      BY <3>1 DEF TypeInv, Inv, ReportInv
  <2>2. CASE \A w \in Workers : ~Report(w)
    <3>1. report' = report
      <4>1. CASE MainStep \/ SpawnFails
        BY <4>1, MainEffect DEF Inv
      <4>2. ASSUME NEW w \in Workers, CheckSteps(w) PROVE report' = report
        BY <4>2, CheckStepsEffect DEF ThreadOnly
      <4>3. ASSUME NEW w \in Workers, ItemSteps(w) PROVE report' = report
        BY <2>2, <4>3 DEF ItemSteps, Claim, Work, CountItem, EnterProgress,
                          LoadCompleted, LoadFailed
      <4>4. ASSUME NEW w \in Workers, Wakeup(w) PROVE report' = report
        BY <4>4 DEF Wakeup, pvars
      <4>5. ASSUME NEW c \in Controllers, Controller(c) PROVE report' = report
        BY <4>5, ControllerEffect
      <4>6. CASE UNCHANGED vars
        BY <4>6 DEF vars, pvars
      <4> QED
        BY <4>1, <4>2, <4>3, <4>4, <4>5, <4>6 DEF Next, ThreadStep, Dead
    <3> QED
      BY <3>1 DEF TypeInv
  <2> QED
    BY <2>1, <2>2
<1>2. Spec => [][Step]_vars
  BY <1>1, Invariance, PTL DEF Spec
<1> QED
  BY <1>2 DEF ReportsNeverDecrease

-----------------------------------------------------------------------------
(* The threads implement the abstract batch. *)

\* parallelFor and its threads implement BatchSpec: every step starts or ends one
\* item, cancels, ends the call, or leaves the abstract state alone.
THEOREM Implementation == Spec => ImplementsBatch
<1>1. Init => Batch!BatchInit
  BY ItemsAndWorkers, ParallelForAssumption DEF Init, JobInit, Batch!BatchInit
<1>2. TypeInv /\ Inv /\ [Next]_vars => [Batch!BatchNext]_(Batch!bvars)
  <2> SUFFICES ASSUME TypeInv, Inv, [Next]_vars
               PROVE  Batch!BatchNext \/ UNCHANGED Batch!bvars
    OBVIOUS
  <2>1. ClaimInv /\ OwnerInv /\ ExitInv
    BY DEF Inv
  <2> DEFINE Same == UNCHANGED <<item, cancelled, main>>
  <2>2. Same => UNCHANGED Batch!bvars
    BY DEF Batch!bvars
  <2>3. ASSUME NEW w \in Workers, pc[w] \notin {"unborn", "done"}, main # "aborted"
        PROVE  main \in {"spawn", "join"}
    BY <2>1, <2>3, ItemsAndWorkers DEF ExitInv, TypeInv
  <2>4. CASE MainStep
    <3>1. ASSUME NEW w \in Workers, Spawn(w) PROVE Same
      BY <3>1 DEF Spawn, jvars
    <3>2. CASE StartJoining
      BY <3>2 DEF StartJoining, jvars, Batch!bvars
    <3>3. CASE Join
      <4>1. /\ main = "join" /\ main' = "returned" /\ UNCHANGED <<item, cancelled>>
            /\ \A w \in 1 .. pool : pc[w] = "done"
        BY <3>3 DEF Join, jvars
      <4>2. \A w \in Workers : pc[w] \notin {"work", "count"}
        BY <4>1, <2>1, ItemsAndWorkers DEF ExitInv, TypeInv
      <4>3. \A i \in Items : item[i] # "running"
        BY <4>2, <2>1 DEF OwnerInv
      <4>4. cancelled \/ next >= Count
        <5>1. CASE Count = 0
          BY <5>1 DEF TypeInv
        <5>2. CASE Count # 0
          <6>1. 1 \in 1 .. pool /\ 1 \in Workers
            BY <5>2, <2>1, ParallelForAssumption DEF ExitInv, TypeInv, Workers
          <6> QED
            BY <6>1, <4>1, <2>1 DEF ExitInv
        <5> QED
          BY <5>1, <5>2
      <4>5. cancelled \/ \A i \in Items : item[i] # "pending"
        BY <4>4, <2>1, ItemsAndWorkers, ParallelForAssumption DEF ClaimInv, TypeInv
      <4>6. Batch!Return
        BY <4>1, <4>3, <4>5 DEF Batch!Return
      <4> QED
        BY <4>6 DEF Batch!BatchNext
    <3> QED
      BY <2>2, <2>4, <3>1, <3>2, <3>3 DEF MainStep
  <2>5. CASE SpawnFails
    <3>1. /\ main = "spawn" /\ UNCHANGED <<item, cancelled>>
          /\ main' = IF spawned = 0 THEN "threw" ELSE "aborted"
      BY <2>5 DEF SpawnFails, jvars
    <3>2. spawned = 0 => \A i \in Items : item[i] = "pending"
      BY <2>1, ItemsAndWorkers DEF ExitInv, ClaimInv
    <3> QED
      BY <3>1, <3>2 DEF Batch!GiveUp, Batch!BatchNext
  <2>6. ASSUME NEW w \in Workers, CheckSteps(w) PROVE Same
    BY <2>6, CheckStepsEffect DEF ThreadOnly
  <2>7. ASSUME NEW w \in Workers, ItemSteps(w), main # "aborted"
        PROVE  Batch!BatchNext \/ Same
    <3>1. main \in {"spawn", "join"} /\ UNCHANGED <<cancelled, main>>
      BY <2>3, <2>7, ItemStepsEffect DEF OnItem, jvars
    <3>2. CASE Claim(w)
      <4>1. CASE next >= Count
        BY <3>1, <3>2, <4>1 DEF Claim
      <4>2. CASE ~(next >= Count)
        <5>1. next \in Items /\ item[next] = "pending"
          BY <4>2, <2>1, ItemsAndWorkers, ParallelForAssumption DEF ClaimInv, TypeInv
        <5>2. item' = [item EXCEPT ![next] = "running"]
          BY <3>2, <4>2 DEF Claim
        <5>3. Batch!StartItem(next)
          BY <3>1, <5>1, <5>2 DEF Batch!StartItem
        <5> QED
          BY <5>1, <5>3 DEF Batch!BatchNext
      <4> QED
        BY <4>1, <4>2
    <3>3. CASE Work(w)
      <4>1. idx[w] \in Items /\ item[idx[w]] = "running"
        BY <3>3, <2>1 DEF Work, OwnerInv
      <4>2. Batch!FinishItem(idx[w])
        BY <3>1, <3>3, <4>1 DEF Work, Batch!FinishItem
      <4> QED
        BY <4>1, <4>2 DEF Batch!BatchNext
    <3>4. CASE ~Claim(w) /\ ~Work(w)
      BY <2>7, <3>1, <3>4 DEF ItemSteps, CountItem, EnterProgress, LoadCompleted,
                              LoadFailed, Report
    <3> QED
      BY <3>2, <3>3, <3>4
  <2>8. ASSUME NEW w \in Workers, Wakeup(w) PROVE Same
    BY <2>8 DEF Wakeup, SpuriousWakeup, pvars
  <2>9. ASSUME NEW c \in Controllers, Controller(c) PROVE Batch!BatchNext \/ Same
    <3>1. UNCHANGED <<item, main>>
      BY <2>9, ControllerEffect
    <3>2. cancelled' = cancelled \/ cancelled' = TRUE
      BY <2>9 DEF Controller, PauseBatch, ResumeBatch, CancelBatch, FinishBatchCall,
                  Pause, Resume, CancelStore, FinishCall, CancelClear, NotifyAll
    <3> QED
      BY <3>1, <3>2 DEF Batch!Stop, Batch!BatchNext
  <2>10. CASE UNCHANGED vars
    BY <2>2, <2>10 DEF vars, pvars, jvars
  <2> QED
    BY <2>2, <2>4, <2>5, <2>6, <2>7, <2>8, <2>9, <2>10 DEF Next, ThreadStep, Dead
<1> QED
  BY <1>1, <1>2, Invariance, PTL DEF Spec, ImplementsBatch, Batch!BatchSafe
=============================================================================
