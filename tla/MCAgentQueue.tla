--------------------------- MODULE MCAgentQueue ---------------------------
(***************************************************************************)
(* Small instances of AgentQueue for TLC.  The scenario of every run: the  *)
(* scan pipeline enqueues snapshot_ready, whose job enqueues a second      *)
(* event; the API enqueues a job of its own with a better priority.        *)
(***************************************************************************)
EXTENDS AgentQueueRefinement, TLC

CONSTANTS w1, w2, snapshot, candidate, scan

MCWorker == {w1, w2}
MCEvent == {snapshot, candidate}
MCDirect == {scan}
MCExternal == {snapshot}
MCProduces == [j \in Job |-> {candidate} \ {j}]
MCPriority == [j \in Job |-> IF j = scan THEN 1 ELSE 2]
MCNothing == {}

\* The second event is final or of a type no branch handles.
MCKindFinal == [e \in MCEvent |-> IF e = snapshot THEN "job" ELSE "final"]
MCKindUnknown == [e \in MCEvent |-> IF e = snapshot THEN "job" ELSE "unknown"]

\* A merge may delete the API's job and the second event.
MCDoomed == {candidate, scan}

Cycles == Permutations({w1, w2})
=============================================================================
