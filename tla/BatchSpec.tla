------------------------------ MODULE BatchSpec ------------------------------
(***************************************************************************)
(* What djcore::parallelFor promises its caller, without its threads: each *)
(* item is handed to the worker at most once, an item that was started is  *)
(* finished before the call returns, the call leaves items unstarted only  *)
(* when it was cancelled, and nothing about an item changes afterwards.    *)
(***************************************************************************)
CONSTANTS Items,     \* the item indices [0, count)
          Outcomes   \* how worker(i) may end

VARIABLES item,      \* item[i]: "pending", "running" or an outcome
          stopped,   \* the caller asked for cancellation
          call       \* "running", "returned", "threw" or "aborted"

bvars == <<item, stopped, call>>

BatchInit ==
  /\ item = [i \in Items |-> "pending"]
  /\ stopped = FALSE
  /\ call = IF Items = {} THEN "returned" ELSE "running"

StartItem(i) ==
  /\ call = "running"
  /\ item[i] = "pending"
  /\ item' = [item EXCEPT ![i] = "running"]
  /\ UNCHANGED <<stopped, call>>

FinishItem(i) ==
  /\ call = "running"
  /\ item[i] = "running"
  /\ \E o \in Outcomes : item' = [item EXCEPT ![i] = o]
  /\ UNCHANGED <<stopped, call>>

Stop ==
  /\ stopped' = TRUE
  /\ UNCHANGED <<item, call>>

Return ==
  /\ call = "running"
  /\ \A i \in Items : item[i] # "running"
  /\ stopped \/ \A i \in Items : item[i] # "pending"
  /\ call' = "returned"
  /\ UNCHANGED <<item, stopped>>

\* A thread could not be created: the call throws before any item was started,
\* or std::terminate ends the whole process.
GiveUp ==
  /\ call = "running"
  /\ \/ /\ call' = "threw"
        /\ \A i \in Items : item[i] = "pending"
     \/ call' = "aborted"
  /\ UNCHANGED <<item, stopped>>

BatchNext ==
  \/ \E i \in Items : StartItem(i) \/ FinishItem(i)
  \/ Stop
  \/ Return
  \/ GiveUp

BatchSafe == BatchInit /\ [][BatchNext]_bvars
=============================================================================
