------------------------------ MODULE JobControl ------------------------------
(***************************************************************************)
(* djcore::JobControl: the cooperative pause/resume/cancel token.  paused  *)
(* is guarded by mutex; cancelled is atomic and is stored before the mutex *)
(* is taken; the condition variable is the set of threads asleep on it.    *)
(*                                                                         *)
(* A controller's critical section is one step that needs the mutex free:  *)
(* nothing it does inside depends on another thread.  A waiter's critical  *)
(* section is split, because cancel() stores cancelled without the mutex   *)
(* and can do so between the predicate's evaluation and the sleep.         *)
(***************************************************************************)
EXTENDS Naturals

CONSTANTS Controllers   \* the threads that call pause, resume and cancel

VARIABLES paused, cancelled,
          mutex,        \* the waiter that holds it, or Free
          asleep,       \* the threads blocked in cv_.wait
          call          \* where each controller is in its call

jvars == <<paused, cancelled, mutex, asleep, call>>

Free == 0

JobInit ==
  /\ paused = FALSE
  /\ cancelled = FALSE
  /\ mutex = Free
  /\ asleep = {}
  /\ call = [c \in Controllers |-> "idle"]

\* No new item may be started.
Halted == paused \/ cancelled

-----------------------------------------------------------------------------
(* The controllers' calls. *)

Pause(c) ==
  /\ call[c] = "idle"
  /\ mutex = Free
  /\ paused' = TRUE
  /\ UNCHANGED <<cancelled, mutex, asleep, call>>

\* Mutant: resume() clears the flag and forgets to notify.
ResumeSilently(c) ==
  /\ call[c] = "idle"
  /\ mutex = Free
  /\ paused' = FALSE
  /\ UNCHANGED <<cancelled, mutex, asleep, call>>

Resume(c) ==
  /\ call[c] = "idle"
  /\ mutex = Free
  /\ paused' = FALSE
  /\ call' = [call EXCEPT ![c] = "notify"]
  /\ UNCHANGED <<cancelled, mutex, asleep>>

\* cancel(), first statement: the atomic store, before the mutex.
CancelStore(c) ==
  /\ call[c] = "idle"
  /\ cancelled' = TRUE
  /\ call' = [call EXCEPT ![c] = "clear"]
  /\ UNCHANGED <<paused, mutex, asleep>>

\* Mutant: cancel() clears paused_ without taking the mutex.
CancelClearUnlocked(c) ==
  /\ call[c] = "clear"
  /\ paused' = FALSE
  /\ call' = [call EXCEPT ![c] = "notify"]
  /\ UNCHANGED <<cancelled, mutex, asleep>>

\* cancel(), the critical section.
CancelClear(c) ==
  /\ call[c] = "clear"
  /\ mutex = Free
  /\ paused' = FALSE
  /\ call' = [call EXCEPT ![c] = "notify"]
  /\ UNCHANGED <<cancelled, mutex, asleep>>

\* The notify_all that ends resume() and cancel(), after the mutex is released.
NotifyAll(c) ==
  /\ call[c] = "notify"
  /\ asleep' = {}
  /\ call' = [call EXCEPT ![c] = "idle"]
  /\ UNCHANGED <<paused, cancelled, mutex>>

FinishCall(c) == CancelClear(c) \/ NotifyAll(c)

-----------------------------------------------------------------------------
(* The steps of waitWhilePaused() in thread t. *)

Lock(t) ==
  /\ mutex = Free
  /\ mutex' = t
  /\ UNCHANGED <<paused, cancelled, asleep, call>>

Unlock(t) ==
  /\ mutex = t
  /\ mutex' = Free
  /\ UNCHANGED <<paused, cancelled, asleep, call>>

\* The condition variable's predicate.
MayPass == ~paused \/ cancelled

\* cv_.wait releases the mutex and blocks in one step.
Sleep(t) ==
  /\ mutex = t
  /\ mutex' = Free
  /\ asleep' = asleep \cup {t}
  /\ UNCHANGED <<paused, cancelled, call>>

\* The C++ standard lets a wait end without a notification.
SpuriousWakeup(t) ==
  /\ t \in asleep
  /\ asleep' = asleep \ {t}
  /\ UNCHANGED <<paused, cancelled, mutex, call>>
=============================================================================
