------------------------ MODULE AgentQueueRefinement ------------------------
(***************************************************************************)
(* AgentQueue implements WorkQueue.  A row that is "running" is held while *)
(* it is in the batch of a live cycle and waits, for its lease to lapse,   *)
(* when that cycle is gone.                                                *)
(***************************************************************************)
EXTENDS AgentQueue

Held(j) == \E w \in Worker : j \in jobBatch[w]

ItemState(j) ==
    CASE jobStatus[j] = "none"                -> "absent"
      [] jobStatus[j] \in {"pending", "retry"} -> "waiting"
      [] jobStatus[j] = "running"             -> IF Held(j) THEN "held" ELSE "waiting"
      [] jobStatus[j] = "completed"           -> "done"
      [] jobStatus[j] = "failed"              -> "dead"
      [] OTHER                                -> "withdrawn"

Queue == INSTANCE WorkQueue WITH
    Item <- Job,
    Budget <- MaxJobAttempts,
    MaxClaims <- MaxJobAttempts + MaxAborts,
    state <- [j \in Job |-> ItemState(j)],
    held <- jobBatch,
    claims <- jobAttempts

\* Every behaviour of the leased queue is one of the abstract queue: one holder at
\* a time, a verdict only from the holder, burial only once the budget is spent.
ImplementsWorkQueue == Queue!Spec
=============================================================================
