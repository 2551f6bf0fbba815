------------------------------- MODULE TaskPool -------------------------------
(***************************************************************************)
(* What the chunk queue of one batch job promises, without its Redis keys: *)
(* a pool of tasks, each leased to one worker at a time and at most        *)
(* MaxTries times, that ends done or failed.  Done is final, failed is     *)
(* reached only by the MaxTries-th lost lease, and nothing is done before  *)
(* it has been leased.  ChunkQueue is shown to implement this module.      *)
(***************************************************************************)
EXTENDS Naturals

CONSTANTS Tasks,     \* the chunks of the job
          MaxTries   \* CHUNK_MAX_RETRIES

VARIABLES task,      \* where each task is
          tries      \* the leases each open task has lost so far

poolVars == <<task, tries>>

State == {"ready", "leased", "done", "failed", "gone"}

PoolTypeOK == /\ task \in [Tasks -> State]
              /\ tries \in [Tasks -> 0..MaxTries]

PoolInit == /\ task = [t \in Tasks |-> "ready"]
            /\ tries = [t \in Tasks |-> 0]

-----------------------------------------------------------------------------
\* A worker is given a ready task.
Lease(t) == /\ task[t] = "ready"
            /\ task' = [task EXCEPT ![t] = "leased"]
            /\ UNCHANGED tries

\* Where losing its lease takes a task.
AfterLoss(t) == IF tries[t] + 1 < MaxTries THEN "ready" ELSE "failed"

Lost(S) == [t \in Tasks |-> IF t \in S THEN AfterLoss(t) ELSE task[t]]

CountLost(S) == tries' = [t \in Tasks |-> IF t \in S THEN tries[t] + 1 ELSE tries[t]]

\* Some leases are lost together.
Lose(S) == /\ \A t \in S : task[t] = "leased"
           /\ task' = Lost(S)
           /\ CountLost(S)

\* Some leases are lost and one of the tasks goes straight to another worker.
Relet(S, t) == /\ \A s \in S : task[s] = "leased"
               /\ Lost(S)[t] = "ready"
               /\ task' = [Lost(S) EXCEPT ![t] = "leased"]
               /\ CountLost(S)

\* A worker reports a task it was given, however late: it may have lost the
\* lease (ready, failed) meanwhile.
Finish(t) == /\ \/ task[t] = "leased"
                \/ task[t] \in {"ready", "failed"} /\ tries[t] > 0
             /\ task' = [task EXCEPT ![t] = "done"]
             /\ tries' = [tries EXCEPT ![t] = 0]

\* The job's keys are removed.
Retire == /\ task' = [t \in Tasks |-> "gone"]
          /\ tries' = [t \in Tasks |-> 0]

PoolNext == \/ \E t \in Tasks : Lease(t) \/ Finish(t)
            \/ \E S \in SUBSET Tasks : Lose(S)
            \/ \E S \in SUBSET Tasks, t \in Tasks : Relet(S, t)
            \/ Retire

PoolSpec == PoolInit /\ [][PoolNext]_poolVars
===============================================================================
