----------------------------- MODULE ParallelFor -----------------------------
(***************************************************************************)
(* djcore::parallelFor over a JobControl, with the worker AnalysisBatch    *)
(* gives it.  The threads share three atomics (next, completed, failed), a *)
(* mutex around the progress callback and the JobControl's own mutex; one  *)
(* action is one access to shared state.  item stands for                  *)
(* AnalysisBatch's items vector: each worker writes only the entry it      *)
(* claimed.                                                                *)
(***************************************************************************)
EXTENDS Integers, FiniteSets, JobControl

CONSTANTS Count,           \* number of items
          ThreadArgs,      \* values of the parameter threads (0: use the hardware's)
          HardwareCounts   \* values of hardware_concurrency() (0: unknown)

ASSUME ParallelForAssumption ==
  /\ Count \in Nat
  /\ ThreadArgs \subseteq Nat
  /\ HardwareCounts \subseteq Nat

Items   == 0 .. (Count - 1)
Workers == 1 .. Count    \* at most one thread per item

\* The worker returns true; it catches a std::exception and returns false; it
\* lets anything else escape to parallelFor's catch (...).
Outcomes == {"ok", "error", "blank"}

VARIABLES pool,        \* number of threads to start
          main,        \* the calling thread: "spawn", "join" or how it ended
          spawned,     \* threads started so far
          pc,          \* where each thread is in run()
          idx,         \* local i of each thread
          next,        \* the shared claim counter
          item,        \* what became of each item
          completed, failed,
          progress,    \* holder of progressMutex, or Free
          seen,        \* the counters a thread has loaded for its report
          report,      \* arguments of the last onProgress call
          late         \* history: items each thread started while Halted

pvars == <<pool, main, spawned, pc, idx, next, item, completed, failed,
           progress, seen, report, late>>
vars  == <<jvars, pvars>>

-----------------------------------------------------------------------------
(* Start and end of the call. *)

PoolSize(threads, hw) ==
  LET n == IF threads # 0 THEN threads ELSE hw
      m == IF n = 0 THEN 1 ELSE n
  IN  IF m > Count THEN Count ELSE m

NotLoaded == [completed |-> -1, failed |-> -1]

Init ==
  /\ JobInit
  /\ pool \in {PoolSize(t, h) : t \in ThreadArgs, h \in HardwareCounts}
  /\ main = IF Count = 0 THEN "returned" ELSE "spawn"
  /\ spawned = 0
  /\ pc = [w \in Workers |-> "unborn"]
  /\ idx = [w \in Workers |-> 0]
  /\ next = 0
  /\ item = [i \in Items |-> "pending"]
  /\ completed = 0
  /\ failed = 0
  /\ progress = Free
  /\ seen = [w \in Workers |-> NotLoaded]
  /\ report = [completed |-> 0, failed |-> 0]
  /\ late = [w \in Workers |-> 0]

Goto(w, label) == pc' = [pc EXCEPT ![w] = label]

Spawn(w) ==
  /\ main = "spawn"
  /\ w = spawned + 1
  /\ w <= pool
  /\ spawned' = w
  /\ Goto(w, "check")
  /\ UNCHANGED <<jvars, pool, main, idx, next, item, completed, failed,
                 progress, seen, report, late>>

\* std::thread's constructor throws.  With threads already in the pool the
\* vector of joinable threads is destroyed and std::terminate ends the process.
SpawnFails ==
  /\ main = "spawn"
  /\ spawned < pool
  /\ main' = IF spawned = 0 THEN "threw" ELSE "aborted"
  /\ UNCHANGED <<jvars, pool, spawned, pc, idx, next, item, completed, failed,
                 progress, seen, report, late>>

StartJoining ==
  /\ main = "spawn"
  /\ spawned = pool
  /\ main' = "join"
  /\ UNCHANGED <<jvars, pool, spawned, pc, idx, next, item, completed, failed,
                 progress, seen, report, late>>

\* Mutant: only the last thread of the pool is joined.
JoinLast ==
  /\ main = "join"
  /\ pc[pool] = "done"
  /\ main' = "returned"
  /\ UNCHANGED <<jvars, pool, spawned, pc, idx, next, item, completed, failed,
                 progress, seen, report, late>>

Join ==
  /\ main = "join"
  /\ \A w \in 1 .. pool : pc[w] = "done"
  /\ main' = "returned"
  /\ UNCHANGED <<jvars, pool, spawned, pc, idx, next, item, completed, failed,
                 progress, seen, report, late>>

-----------------------------------------------------------------------------
(* One thread's loop: the pause and cancel checks. *)

ThreadOnly == <<pool, main, spawned, idx, next, item, completed, failed,
                progress, seen, report, late>>

CheckCancelled(w) ==
  /\ pc[w] = "check"
  /\ Goto(w, IF cancelled THEN "done" ELSE "lock")
  /\ UNCHANGED <<jvars, ThreadOnly>>

LockControl(w) ==
  /\ \/ pc[w] = "lock"
     \/ pc[w] = "asleep" /\ w \notin asleep
  /\ Lock(w)
  /\ Goto(w, "test")
  /\ UNCHANGED ThreadOnly

TestPasses(w) ==
  /\ pc[w] = "test"
  /\ MayPass
  /\ Unlock(w)
  /\ Goto(w, "recheck")
  /\ UNCHANGED ThreadOnly

TestBlocks(w) ==
  /\ pc[w] = "test"
  /\ ~MayPass
  /\ Goto(w, "block")
  /\ UNCHANGED <<jvars, ThreadOnly>>

Block(w) ==
  /\ pc[w] = "block"
  /\ Sleep(w)
  /\ Goto(w, "asleep")
  /\ UNCHANGED ThreadOnly

\* Mutant: the second isCancelled() is missing, so a thread woken by cancel()
\* goes on to claim an item.
RecheckMissing(w) ==
  /\ pc[w] = "recheck"
  /\ Goto(w, "claim")
  /\ UNCHANGED <<jvars, ThreadOnly>>

Recheck(w) ==
  /\ pc[w] = "recheck"
  /\ Goto(w, IF cancelled THEN "done" ELSE "claim")
  /\ UNCHANGED <<jvars, ThreadOnly>>

Wakeup(w) ==
  /\ SpuriousWakeup(w)
  /\ UNCHANGED pvars

-----------------------------------------------------------------------------
(* One thread's loop: claim, work, count, report. *)

Claim(w) ==
  /\ pc[w] = "claim"
  /\ next' = next + 1
  /\ IF next >= Count
     THEN /\ Goto(w, "done")
          /\ UNCHANGED <<idx, item, late>>
     ELSE /\ Goto(w, "work")
          /\ idx' = [idx EXCEPT ![w] = next]
          /\ item' = [item EXCEPT ![next] = "running"]
          /\ late' = IF Halted THEN [late EXCEPT ![w] = @ + 1] ELSE late
  /\ UNCHANGED <<jvars, pool, main, spawned, completed, failed, progress, seen,
                 report>>

Work(w) ==
  /\ pc[w] = "work"
  /\ \E o \in Outcomes : item' = [item EXCEPT ![idx[w]] = o]
  /\ Goto(w, "count")
  /\ UNCHANGED <<jvars, pool, main, spawned, idx, next, completed, failed,
                 progress, seen, report, late>>

\* Mutant: only a failure the worker itself reports is counted.
CountCaught(w) ==
  /\ pc[w] = "count"
  /\ completed' = IF item[idx[w]] = "ok" THEN completed + 1 ELSE completed
  /\ failed'    = IF item[idx[w]] = "error" THEN failed + 1 ELSE failed
  /\ Goto(w, "progress")
  /\ UNCHANGED <<jvars, pool, main, spawned, idx, next, item, progress, seen,
                 report, late>>

\* Mutant: catch (...) counts the failure itself and the code below it again.
CountTwice(w) ==
  /\ pc[w] = "count"
  /\ IF item[idx[w]] = "ok"
     THEN completed' = completed + 1 /\ UNCHANGED failed
     ELSE /\ failed' = IF item[idx[w]] = "blank" THEN failed + 2 ELSE failed + 1
          /\ UNCHANGED completed
  /\ Goto(w, "progress")
  /\ UNCHANGED <<jvars, pool, main, spawned, idx, next, item, progress, seen,
                 report, late>>

CountItem(w) ==
  /\ pc[w] = "count"
  /\ IF item[idx[w]] = "ok"
     THEN completed' = completed + 1 /\ UNCHANGED failed
     ELSE failed' = failed + 1 /\ UNCHANGED completed
  /\ Goto(w, "progress")
  /\ UNCHANGED <<jvars, pool, main, spawned, idx, next, item, progress, seen,
                 report, late>>

\* Mutant: the callback is not serialised.
EnterProgressUnlocked(w) ==
  /\ pc[w] = "progress"
  /\ progress' = w
  /\ Goto(w, "load")
  /\ UNCHANGED <<jvars, pool, main, spawned, idx, next, item, completed, failed,
                 seen, report, late>>

EnterProgress(w) ==
  /\ pc[w] = "progress"
  /\ progress = Free
  /\ progress' = w
  /\ Goto(w, "load")
  /\ UNCHANGED <<jvars, pool, main, spawned, idx, next, item, completed, failed,
                 seen, report, late>>

\* The two arguments of onProgress are loaded in an order C++ leaves open.
LoadCompleted(w) ==
  /\ pc[w] = "load"
  /\ seen[w].completed = -1
  /\ seen' = [seen EXCEPT ![w].completed = completed]
  /\ UNCHANGED <<jvars, pool, main, spawned, pc, idx, next, item, completed,
                 failed, progress, report, late>>

LoadFailed(w) ==
  /\ pc[w] = "load"
  /\ seen[w].failed = -1
  /\ seen' = [seen EXCEPT ![w].failed = failed]
  /\ UNCHANGED <<jvars, pool, main, spawned, pc, idx, next, item, completed,
                 failed, progress, report, late>>

Report(w) ==
  /\ pc[w] = "load"
  /\ seen[w].completed # -1
  /\ seen[w].failed # -1
  /\ report' = seen[w]
  /\ seen' = [seen EXCEPT ![w] = NotLoaded]
  /\ progress' = Free
  /\ Goto(w, "check")
  /\ UNCHANGED <<jvars, pool, main, spawned, idx, next, item, completed, failed,
                 late>>

-----------------------------------------------------------------------------
(* The controllers, from outside the pool.  late is reset when a resume    *)
(* ends a pause.                                                           *)

PauseBatch(c) == Pause(c) /\ UNCHANGED pvars

ResumeBatch(c) ==
  /\ Resume(c)
  /\ late' = IF cancelled THEN late ELSE [w \in Workers |-> 0]
  /\ UNCHANGED <<pool, main, spawned, pc, idx, next, item, completed, failed,
                 progress, seen, report>>

CancelBatch(c) == CancelStore(c) /\ UNCHANGED pvars

FinishBatchCall(c) == FinishCall(c) /\ UNCHANGED pvars

-----------------------------------------------------------------------------
CheckSteps(w) ==
  \/ CheckCancelled(w) \/ LockControl(w) \/ TestPasses(w) \/ TestBlocks(w)
  \/ Block(w) \/ Recheck(w)

ItemSteps(w) ==
  \/ Claim(w) \/ Work(w) \/ CountItem(w) \/ EnterProgress(w)
  \/ LoadCompleted(w) \/ LoadFailed(w) \/ Report(w)

ThreadStep(w) == main # "aborted" /\ (CheckSteps(w) \/ ItemSteps(w))

MainStep == (\E w \in Workers : Spawn(w)) \/ StartJoining \/ Join

Controller(c) ==
  /\ main # "aborted"
  /\ PauseBatch(c) \/ ResumeBatch(c) \/ CancelBatch(c) \/ FinishBatchCall(c)

\* std::terminate ended the process.
Dead == main = "aborted" /\ UNCHANGED vars

Next ==
  \/ MainStep
  \/ SpawnFails
  \/ \E w \in Workers : ThreadStep(w) \/ (main # "aborted" /\ Wakeup(w))
  \/ \E c \in Controllers : Controller(c)
  \/ Dead

Spec == Init /\ [][Next]_vars

(* Every thread runs: the caller, the pool, and a controller that is       *)
(* inside resume() or cancel().  No mutex needs to be fair: each is held   *)
(* for a bounded number of steps and every thread locks a bounded number   *)
(* of times per item.  Nobody has to call resume or cancel, and thread     *)
(* creation and spurious wakeups happen or not.                            *)
Fairness ==
  /\ WF_vars(MainStep)
  /\ \A w \in Workers : WF_vars(ThreadStep(w))
  /\ \A c \in Controllers : WF_vars(main # "aborted" /\ FinishBatchCall(c))

FairSpec == Spec /\ Fairness

-----------------------------------------------------------------------------
(* Properties. *)

Labels == {"unborn", "check", "lock", "test", "block", "asleep", "recheck",
           "claim", "work", "count", "progress", "load", "done"}

Counters == [completed : -1 .. Count, failed : -1 .. Count]

\* Every variable has the shape the code gives it.  completed and failed stay
\* within [0, Count] although nothing in the code bounds them.
TypeOK ==
  /\ paused \in BOOLEAN /\ cancelled \in BOOLEAN
  /\ mutex \in Workers \cup {Free}
  /\ asleep \subseteq Workers
  /\ call \in [Controllers -> {"idle", "clear", "notify"}]
  /\ pool \in 0 .. Count
  /\ main \in {"spawn", "join", "returned", "threw", "aborted"}
  /\ spawned \in 0 .. pool
  /\ pc \in [Workers -> Labels]
  /\ idx \in [Workers -> Nat]
  /\ next \in Nat
  /\ item \in [Items -> {"pending", "running"} \cup Outcomes]
  /\ completed \in 0 .. Count /\ failed \in 0 .. Count
  /\ progress \in Workers \cup {Free}
  /\ seen \in [Workers -> Counters]
  /\ report \in Counters
  /\ late \in [Workers -> Nat]

(* The inductive invariant behind the safety properties, part by part.     *)

\* Items are claimed in the order of their index, and only claiming changes
\* an item from pending.
ClaimInv == \A i \in Items : item[i] = "pending" <=> i >= next

\* An item being worked on or waiting to be counted has exactly one owner.
OwnerInv ==
  /\ \A w \in Workers : pc[w] \in {"work", "count"} => idx[w] \in Items
  /\ \A w \in Workers : pc[w] = "work" => item[idx[w]] = "running"
  /\ \A w \in Workers : pc[w] = "count" => item[idx[w]] \in Outcomes
  /\ \A i \in Items : item[i] = "running" =>
                          \E w \in Workers : pc[w] = "work" /\ idx[w] = i
  /\ \A w, v \in Workers :
       /\ pc[w] \in {"work", "count"}
       /\ pc[v] \in {"work", "count"}
       /\ idx[w] = idx[v]
       => w = v

\* A thread leaves its loop for one of two reasons; the caller goes on when all
\* the threads it started have left.
ExitInv ==
  /\ \A w \in Workers : pc[w] = "done" => cancelled \/ next >= Count
  /\ Count > 0 => pool > 0
  /\ \A w \in Workers : pc[w] = "unborn" <=> w > spawned
  /\ main \in {"join", "returned"} => spawned = pool
  /\ main = "returned" => \A w \in 1 .. pool : pc[w] = "done"
  /\ spawned = 0 => next = 0
  /\ main = "threw" => spawned = 0

\* Whoever has started an item since the halt cannot claim another one.
LateInv ==
  /\ \A c \in Controllers : call[c] = "clear" => cancelled
  /\ \A w \in Workers :
       /\ ~Halted => late[w] = 0
       /\ late[w] \in {0, 1}
       /\ late[w] = 1 => /\ pc[w] # "claim"
                         /\ pc[w] = "recheck" => cancelled

\* The items with an outcome in os that CountItem has counted.
Counted(os) == {i \in Items : /\ item[i] \in os
                              /\ \A w \in Workers : pc[w] = "count" => idx[w] # i}

CountInv ==
  /\ completed = Cardinality(Counted({"ok"}))
  /\ failed = Cardinality(Counted({"error", "blank"}))

\* The thread in the critical section has loaded values between the last report
\* and the counters, and misses only what a waiting thread will report.
ReportInv ==
  /\ \A w \in Workers : pc[w] = "load" <=> progress = w
  /\ \A w \in Workers : pc[w] # "load" => seen[w] = NotLoaded
  /\ report.completed <= completed /\ report.failed <= failed
  /\ \A w \in Workers :
       /\ seen[w].completed # -1 => seen[w].completed \in report.completed .. completed
       /\ seen[w].failed # -1 => seen[w].failed \in report.failed .. failed
  /\ (\A v \in Workers : pc[v] # "progress") =>
       \A w \in Workers : pc[w] = "load" =>
         /\ seen[w].completed \in {-1, completed}
         /\ seen[w].failed \in {-1, failed}
  /\ (\A v \in Workers : pc[v] \notin {"progress", "load"}) =>
       report = [completed |-> completed, failed |-> failed]

\* Every increment of next beyond Count ended a thread.
OvershootInv ==
  next <= Count + Cardinality({w \in Workers : pc[w] = "done"})

Inv == /\ ClaimInv /\ OwnerInv /\ ExitInv /\ LateInv
       /\ CountInv /\ ReportInv /\ OvershootInv

\* parallelFor returns with every item accounted for once: completed and failed
\* are the numbers of items that ended well and badly, and the last onProgress
\* call (ParallelFor.cpp:45-48) carried exactly these totals.
FinalCounts ==
  main = "returned" =>
    /\ completed = Cardinality({i \in Items : item[i] = "ok"})
    /\ failed = Cardinality({i \in Items : item[i] \in {"error", "blank"}})
    /\ report = [completed |-> completed, failed |-> failed]

\* ParallelFor.h:14-15, "Cancellation/pause are checked between items": after
\* pause() or cancel() has taken effect a thread starts at most one more item,
\* the one whose checks it had already passed, until a resume() ends the pause.
AtMostOneLateItem == \A w \in Workers : late[w] <= 1

\* Threads that find no item left go on incrementing next (ParallelFor.cpp:31):
\* each does so once, so the counter stays below Count + pool.
OvershootBounded == next <= Count + pool

\* The progress a caller displays never goes backwards: neither argument of
\* onProgress is ever smaller than in the call before.
ReportsNeverDecrease ==
  [][/\ report'.completed >= report.completed
     /\ report'.failed >= report.failed]_vars

\* The abstract promise: at most one run per item, no item left running or
\* unstarted (unless cancelled) at the return, nothing changed afterwards.
Batch == INSTANCE BatchSpec WITH
           stopped <- cancelled,
           call <- IF main \in {"spawn", "join"} THEN "running" ELSE main

ImplementsBatch == Batch!BatchSafe

\* cancel() ends the batch: no thread sleeps through it, whatever the
\* controllers did before and do after it.
CancelEndsBatch ==
  cancelled ~> main \in {"returned", "threw", "aborted"}

\* A batch that is not left paused finishes: resume() wakes every sleeper.
FinishesUnlessPaused ==
  <>[]~paused => <>(main \in {"returned", "threw", "aborted"})
=============================================================================
