-------------------------- MODULE AgentQueueProofs --------------------------
(***************************************************************************)
(* Proofs about AgentQueue for every set of cycles, events and jobs, every *)
(* batch limit and budget, and every watchdog shorter than the lease.      *)
(***************************************************************************)
EXTENDS AgentQueueRefinement, TLAPS

USE SetsAssumption, TimeAssumption, BoundAssumption

-----------------------------------------------------------------------------
(* Type correctness *)

LEMMA TypeInit == Init => TypeOK
  BY DEF Init, TypeOK, EvStatus, JobStatus, Job

LEMMA BackoffIsNat == ASSUME NEW n \in Nat PROVE Backoff(n) \in Nat
<1>1. n * RetryStep \in Nat
  OBVIOUS
<1> QED BY <1>1 DEF Backoff

LEMMA TypeStep == TypeOK /\ [Next]_vars => TypeOK'
<1> SUFFICES ASSUME TypeOK, [Next]_vars PROVE TypeOK'
  OBVIOUS
<1> USE DEF TypeOK, EvStatus, JobStatus, evVars, jobVars, cycleVars
<1>1. ASSUME NEW e \in Event, EnqueueEvent(e) PROVE TypeOK'
  BY <1>1 DEF EnqueueEvent, EventsAfterEnqueue
<1>2. ASSUME NEW j \in Job, EnqueueAgentJob(j) PROVE TypeOK'
  BY <1>2 DEF EnqueueAgentJob
<1>3. CASE MergeDuplicates
  BY <1>3 DEF MergeDuplicates
<1>4. ASSUME NEW w \in Worker, RunAgentJobs(w) PROVE TypeOK'
  BY <1>4 DEF RunAgentJobs, Takes
<1>5. ASSUME NEW w \in Worker, ClaimPendingJobs(w) PROVE TypeOK'
  BY <1>5 DEF ClaimPendingJobs, Takes, Counted
<1>6. ASSUME NEW w \in Worker, NEW e \in Event, DispatchOneEvent(w, e) PROVE TypeOK'
  <2>1. e \in Job
    BY DEF Job
  <2>2. /\ evStatus' \in [Event -> EvStatus]
        /\ jobStatus' \in [Job -> JobStatus]
        /\ UNCHANGED <<jobAttempts, jobWait, jobLease>>
    BY <1>6, <2>1 DEF DispatchOneEvent, DispatchOutcome
  <2> QED BY <1>6, <2>2 DEF DispatchOneEvent, DropEvent
<1>7. ASSUME NEW w \in Worker, NEW e \in Event, MarkEventFailed(w, e) PROVE TypeOK'
  <2> Backoff(evAttempts[e] + 1) \in Nat
    BY BackoffIsNat
  <2> QED BY <1>7 DEF MarkEventFailed, EventVerdict, DropEvent
<1>8. ASSUME NEW w \in Worker, NEW e \in Event, EventGone(w, e) PROVE TypeOK'
  BY <1>8 DEF EventGone, DropEvent
<1>9. ASSUME NEW w \in Worker, NEW j \in Job, StartJob(w, j) PROVE TypeOK'
  BY <1>9 DEF StartJob
<1>10. ASSUME NEW w \in Worker, NEW j \in Job, JobGone(w, j) PROVE TypeOK'
  BY <1>10 DEF JobGone
<1>11. ASSUME NEW w \in Worker, CompleteJob(w) PROVE TypeOK'
  BY <1>11 DEF CompleteJob, EventsAfterEnqueue, LeaveJob
<1>12. ASSUME NEW w \in Worker, MarkJobFailed(w) PROVE TypeOK'
  <2> cur[w] \in Job
    BY <1>12 DEF MarkJobFailed
  <2> Backoff(IF jobAttempts[cur[w]] > 1 THEN jobAttempts[cur[w]] ELSE 1) \in Nat
    BY BackoffIsNat
  <2> QED BY <1>12 DEF MarkJobFailed, JobVerdict, LeaveJob
<1>13. ASSUME NEW w \in Worker, FailedJobGone(w) PROVE TypeOK'
  BY <1>13 DEF FailedJobGone, LeaveJob
<1>14. ASSUME NEW w \in Worker, EndCycle(w) PROVE TypeOK'
  BY <1>14 DEF EndCycle
<1>15. ASSUME NEW w \in Worker, Abort(w) PROVE TypeOK'
  BY <1>15 DEF Abort
<1>16. CASE Tick
  BY <1>16 DEF Tick, Decrement
<1>17. CASE UNCHANGED vars
  BY <1>17 DEF vars
<1> QED
  BY <1>1, <1>2, <1>3, <1>4, <1>5, <1>6, <1>7, <1>8, <1>9, <1>10, <1>11, <1>12,
     <1>13, <1>14, <1>15, <1>16, <1>17
  DEF Next, Produce, Cycle, Crash, WatchdogFires, StaleRowCommit

\* Every state of the queue is well typed: each status is one the columns admit
\* and every countdown stays within the lease and the watchdog.
THEOREM TypeCorrect == Spec => []TypeOK
  BY TypeInit, TypeStep, PTL DEF Spec

-----------------------------------------------------------------------------
(* Leases exclude: no row is in the hands of two live cycles *)

LEMMA LeaseInit == Init => LeaseInv
  BY DEF Init, LeaseInv, BatchesInPhase, LeasesOutliveCycles, LeaseExclusive

\* A row that may be claimed is in nobody's batch: its lease has lapsed, and the
\* lease outlives the watchdog of whoever held it.
LEMMA ClaimableIsFree ==
  ASSUME TypeOK, LeaseInv, NEW w \in Worker
  PROVE  /\ \A e \in evBatch[w] : ~EventClaimable(e)
         /\ \A j \in jobBatch[w] : ~JobClaimable(j)
<1>1. ASSUME NEW e \in evBatch[w] PROVE ~EventClaimable(e)
  <2>1. evWait[e] \in Nat /\ deadline[w] \in Nat /\ e \in Event
    BY <1>1 DEF TypeOK
  <2> QED BY <1>1, <2>1 DEF LeaseInv, LeasesOutliveCycles, EventClaimable
<1>2. ASSUME NEW j \in jobBatch[w] PROVE ~JobClaimable(j)
  <2>1. jobLease[j] \in Nat /\ deadline[w] \in Nat /\ j \in Job
    BY <1>2 DEF TypeOK
  <2> QED BY <1>2, <2>1 DEF LeaseInv, LeasesOutliveCycles, JobClaimable
<1> QED BY <1>1, <1>2

\* The claims and the clock move the leases of many rows at once.
LEMMA RunAgentJobsKeepsLeases ==
  ASSUME TypeOK, LeaseInv, NEW w \in Worker, RunAgentJobs(w)
  PROVE  LeaseInv'
<1> USE DEF TypeOK, LeaseInv
<1>1. PICK S \in SUBSET Event :
        /\ Takes(S, {e \in Event : EventClaimable(e)}, EventLimit)
        /\ evStatus' = [e \in Event |-> IF e \in S THEN "processing" ELSE evStatus[e]]
        /\ evWait' = [e \in Event |-> IF e \in S THEN StaleLease ELSE evWait[e]]
        /\ evBatch' = [evBatch EXCEPT ![w] = S]
  BY DEF RunAgentJobs
<1>2. \A v \in Worker : evBatch[v] \cap S = {}
  BY <1>1, ClaimableIsFree DEF Takes
<1>3. BatchesInPhase'
  BY <1>1 DEF RunAgentJobs, BatchesInPhase, jobVars
<1>4. LeasesOutliveCycles'
  BY <1>1, <1>2 DEF RunAgentJobs, BatchesInPhase, LeasesOutliveCycles, jobVars
<1>5. LeaseExclusive'
  BY <1>1, <1>2 DEF RunAgentJobs, LeaseExclusive
<1> QED BY <1>3, <1>4, <1>5

LEMMA ClaimPendingJobsKeepsLeases ==
  ASSUME TypeOK, LeaseInv, NEW w \in Worker, ClaimPendingJobs(w)
  PROVE  LeaseInv'
<1> USE DEF TypeOK, LeaseInv
<1>1. PICK S \in SUBSET Job :
        /\ S \subseteq {j \in Job : JobClaimable(j)}
        /\ jobStatus' = [j \in Job |-> IF j \in S THEN "running" ELSE jobStatus[j]]
        /\ jobLease' = [j \in Job |-> IF j \in S THEN StaleLease ELSE jobLease[j]]
        /\ jobAttempts' = [j \in Job |->
               IF j \in S THEN Counted(jobAttempts[j]) ELSE jobAttempts[j]]
        /\ jobBatch' = [jobBatch EXCEPT ![w] = S]
  BY DEF ClaimPendingJobs, Takes
<1>2. \A v \in Worker : jobBatch[v] \cap S = {}
  BY <1>1, ClaimableIsFree
<1>3. BatchesInPhase'
  BY <1>1, <1>2 DEF ClaimPendingJobs, BatchesInPhase
<1>4. LeasesOutliveCycles'
  BY <1>1, <1>2 DEF ClaimPendingJobs, LeasesOutliveCycles, evVars
<1>5. LeaseExclusive'
  BY <1>1, <1>2 DEF ClaimPendingJobs, LeaseExclusive
<1> QED BY <1>3, <1>4, <1>5

LEMMA TickKeepsLeases == TypeOK /\ LeaseInv /\ Tick => LeaseInv'
<1> SUFFICES ASSUME TypeOK, LeaseInv, Tick PROVE LeaseInv'
  OBVIOUS
<1> USE DEF TypeOK, LeaseInv
<1>1. \A w \in Worker : pc[w] # "idle" => deadline[w] > 0
  BY DEF Tick, WatchdogsPending
<1>2. BatchesInPhase' /\ LeaseExclusive'
  BY DEF Tick, BatchesInPhase, LeaseExclusive
<1>3. ASSUME NEW w \in Worker, NEW e \in evBatch[w], evStatus[e] # "deleted"
      PROVE  evWait'[e] >= deadline'[w] + (StaleLease - CycleTimeout)
  <2>1. deadline[w] > 0 /\ evWait[e] \in Nat /\ deadline[w] \in Nat
    BY <1>1, <1>3 DEF BatchesInPhase
  <2> QED BY <1>3, <2>1 DEF Tick, Decrement, LeasesOutliveCycles
<1>4. ASSUME NEW w \in Worker, NEW j \in jobBatch[w], jobStatus[j] # "deleted"
      PROVE  jobLease'[j] >= deadline'[w] + (StaleLease - CycleTimeout)
  <2>1. deadline[w] > 0 /\ jobLease[j] \in Nat /\ deadline[w] \in Nat
    BY <1>1, <1>4 DEF BatchesInPhase
  <2> QED BY <1>4, <2>1 DEF Tick, Decrement, LeasesOutliveCycles
<1>5. LeasesOutliveCycles'
  BY <1>3, <1>4 DEF Tick, LeasesOutliveCycles
<1> QED BY <1>2, <1>5

LEMMA LeaseStep == TypeOK /\ LeaseInv /\ [Next]_vars => LeaseInv'
<1> SUFFICES ASSUME TypeOK, LeaseInv, [Next]_vars PROVE LeaseInv'
  OBVIOUS
<1> USE DEF TypeOK, LeaseInv, BatchesInPhase, LeasesOutliveCycles, LeaseExclusive,
            evVars, jobVars, cycleVars
<1>1. ASSUME NEW e \in Event, EnqueueEvent(e) PROVE LeaseInv'
  BY <1>1 DEF EnqueueEvent, EventsAfterEnqueue
<1>2. ASSUME NEW j \in Job, EnqueueAgentJob(j) PROVE LeaseInv'
  BY <1>2 DEF EnqueueAgentJob
<1>3. CASE MergeDuplicates
  BY <1>3 DEF MergeDuplicates
<1>6. ASSUME NEW w \in Worker, NEW e \in Event, DispatchOneEvent(w, e) PROVE LeaseInv'
  <2>1. e \in Job /\ pc[w] = "events" /\ e \in evBatch[w]
    BY <1>6 DEF DispatchOneEvent, Holds, Job
  <2>2. \A v \in Worker : jobStatus[e] = "none" => e \notin jobBatch[v]
    OBVIOUS
  <2>3. /\ \A f \in Event \ {e} : evStatus'[f] = evStatus[f]
        /\ \A j \in Job : j # e \/ jobStatus[e] # "none" => jobStatus'[j] = jobStatus[j]
        /\ UNCHANGED <<jobAttempts, jobWait, jobLease>>
    BY <1>6, <2>1 DEF DispatchOneEvent, DispatchOutcome
  <2> QED BY <1>6, <2>1, <2>2, <2>3 DEF DispatchOneEvent, DropEvent
<1>7. ASSUME NEW w \in Worker, NEW e \in Event, MarkEventFailed(w, e) PROVE LeaseInv'
  BY <1>7 DEF MarkEventFailed, DropEvent, Holds
<1>8. ASSUME NEW w \in Worker, NEW e \in Event, EventGone(w, e) PROVE LeaseInv'
  BY <1>8 DEF EventGone, DropEvent, Holds
<1>9. ASSUME NEW w \in Worker, NEW j \in Job, StartJob(w, j) PROVE LeaseInv'
  BY <1>9 DEF StartJob
<1>10. ASSUME NEW w \in Worker, NEW j \in Job, JobGone(w, j) PROVE LeaseInv'
  BY <1>10 DEF JobGone
<1>11. ASSUME NEW w \in Worker, CompleteJob(w) PROVE LeaseInv'
  BY <1>11 DEF CompleteJob, EventsAfterEnqueue, LeaveJob
<1>12. ASSUME NEW w \in Worker, MarkJobFailed(w) PROVE LeaseInv'
  BY <1>12 DEF MarkJobFailed, LeaveJob
<1>13. ASSUME NEW w \in Worker, FailedJobGone(w) PROVE LeaseInv'
  BY <1>13 DEF FailedJobGone, LeaveJob
<1>14. ASSUME NEW w \in Worker, EndCycle(w) PROVE LeaseInv'
  BY <1>14 DEF EndCycle
<1>15. ASSUME NEW w \in Worker, Abort(w) PROVE LeaseInv'
  BY <1>15 DEF Abort
<1>17. CASE UNCHANGED vars
  BY <1>17 DEF vars
<1> HIDE DEF TypeOK, LeaseInv, BatchesInPhase, LeasesOutliveCycles, LeaseExclusive,
             evVars, jobVars, cycleVars
<1> QED
  BY <1>1, <1>2, <1>3, <1>6, <1>7, <1>8, <1>9, <1>10, <1>11, <1>12, <1>13, <1>14,
     <1>15, <1>17, RunAgentJobsKeepsLeases, ClaimPendingJobsKeepsLeases, TickKeepsLeases
  DEF Next, Produce, Cycle, Crash, WatchdogFires, StaleRowCommit

\* No event and no job is ever in the hands of two live cycles, although nothing
\* compares lease_owner: it is enough that the watchdog is shorter than the lease.
THEOREM LeasesExclude == Spec => []LeaseExclusive
<1>1. Spec => [](TypeOK /\ LeaseInv)
  BY TypeInit, TypeStep, LeaseInit, LeaseStep, PTL DEF Spec
<1>2. LeaseInv => LeaseExclusive
  BY DEF LeaseInv
<1> QED BY <1>1, <1>2, PTL

-----------------------------------------------------------------------------
(* The outbox and the queue agree *)

LEMMA AgreementStep == TypeOK /\ LeaseInv /\ OutboxAgreement /\ [Next]_vars => OutboxAgreement'
<1> SUFFICES ASSUME TypeOK, LeaseInv, OutboxAgreement, [Next]_vars PROVE OutboxAgreement'
  OBVIOUS
<1> USE DEF TypeOK, OutboxAgreement, Job, evVars, jobVars, cycleVars
<1>1. ASSUME NEW e \in Event, EnqueueEvent(e) PROVE OutboxAgreement'
  BY <1>1 DEF EnqueueEvent, EventsAfterEnqueue
<1>2. ASSUME NEW j \in Job, EnqueueAgentJob(j) PROVE OutboxAgreement'
  BY <1>2 DEF EnqueueAgentJob
<1>3. CASE MergeDuplicates
  BY <1>3 DEF MergeDuplicates
<1>4. ASSUME NEW w \in Worker, RunAgentJobs(w) PROVE OutboxAgreement'
  <2>1. PICK S \in SUBSET Event :
          /\ \A e \in S : EventClaimable(e)
          /\ evStatus' = [e \in Event |-> IF e \in S THEN "processing" ELSE evStatus[e]]
    BY <1>4 DEF RunAgentJobs, Takes
  <2>2. jobStatus' = jobStatus
    BY <1>4 DEF RunAgentJobs
  <2>3. \A e \in Event :
          evStatus'[e] # evStatus[e] =>
            evStatus[e] \in {"pending", "processing"} /\ evStatus'[e] = "processing"
    BY <2>1 DEF EventClaimable
  <2> QED BY <2>2, <2>3
<1>5. ASSUME NEW w \in Worker, ClaimPendingJobs(w) PROVE OutboxAgreement'
  <2>1. PICK S \in SUBSET Job :
          /\ \A j \in S : JobClaimable(j)
          /\ jobStatus' = [j \in Job |-> IF j \in S THEN "running" ELSE jobStatus[j]]
    BY <1>5 DEF ClaimPendingJobs, Takes
  <2>2. evStatus' = evStatus
    BY <1>5 DEF ClaimPendingJobs
  <2>3. \A j \in Job : jobStatus'[j] = "none" <=> jobStatus[j] = "none"
    BY <2>1 DEF JobClaimable
  <2> QED BY <2>2, <2>3
<1>6. ASSUME NEW w \in Worker, NEW e \in Event, DispatchOneEvent(w, e) PROVE OutboxAgreement'
  <2>1. evStatus[e] = "processing"
    BY <1>6 DEF DispatchOneEvent, Holds, LeaseInv, LeasesOutliveCycles
  <2> QED BY <1>6, <2>1 DEF DispatchOneEvent, DispatchOutcome
<1>7. ASSUME NEW w \in Worker, NEW e \in Event, MarkEventFailed(w, e) PROVE OutboxAgreement'
  <2>1. evStatus[e] = "processing"
    BY <1>7 DEF MarkEventFailed, Holds, LeaseInv, LeasesOutliveCycles
  <2> QED BY <1>7, <2>1 DEF MarkEventFailed, EventVerdict
<1>8. ASSUME NEW w \in Worker, CompleteJob(w) PROVE OutboxAgreement'
  <2>1. cur[w] \in Job /\ jobStatus[cur[w]] = "running"
    BY <1>8 DEF CompleteJob, LeaseInv, BatchesInPhase, LeasesOutliveCycles
  <2> QED BY <1>8, <2>1 DEF CompleteJob, EventsAfterEnqueue
<1>9. ASSUME NEW w \in Worker, MarkJobFailed(w) PROVE OutboxAgreement'
  <2>1. cur[w] \in Job /\ jobStatus[cur[w]] = "running"
    BY <1>9 DEF MarkJobFailed, LeaseInv, BatchesInPhase, LeasesOutliveCycles
  <2> QED BY <1>9, <2>1 DEF MarkJobFailed, JobVerdict
<1>10. CASE UNCHANGED <<evStatus, jobStatus>>
  BY <1>10
<1> HIDE DEF TypeOK, OutboxAgreement, Job
<1> QED
  BY <1>1, <1>2, <1>3, <1>4, <1>5, <1>6, <1>7, <1>8, <1>9, <1>10
  DEF Next, Produce, Cycle, Crash, WatchdogFires, StaleRowCommit, EventGone, StartJob,
      JobGone, FailedJobGone, EndCycle, Abort, Tick, vars

\* The event's status and the insertion of its job are one transaction: at no
\* committed state, whatever crashed, does one of the two exist without the other.
THEOREM OutboxAgrees == Spec => []OutboxAgreement
<1>1. Init => OutboxAgreement
  BY DEF Init, OutboxAgreement, Job
<1> QED
  BY <1>1, TypeInit, TypeStep, LeaseInit, LeaseStep, AgreementStep, PTL DEF Spec

-----------------------------------------------------------------------------
(* Retry budgets *)

FreshEvents == \A e \in Event : evStatus[e] = "none" => evAttempts[e] = 0

LEMMA BudgetStep ==
  TypeOK /\ LeaseInv /\ RetryBudget /\ FreshEvents /\ [Next]_vars => RetryBudget' /\ FreshEvents'
<1> DEFINE Goal == RetryBudget /\ FreshEvents
<1> SUFFICES ASSUME TypeOK, LeaseInv, Goal, [Next]_vars PROVE Goal'
  OBVIOUS
<1> USE DEF TypeOK, RetryBudget, FreshEvents, evVars, jobVars, cycleVars
<1>1. ASSUME NEW e \in Event, EnqueueEvent(e) PROVE Goal'
  BY <1>1 DEF EnqueueEvent, EventsAfterEnqueue
<1>2. ASSUME NEW j \in Job, EnqueueAgentJob(j) PROVE Goal'
  BY <1>2 DEF EnqueueAgentJob
<1>3. CASE MergeDuplicates
  BY <1>3 DEF MergeDuplicates
<1>4. ASSUME NEW w \in Worker, RunAgentJobs(w) PROVE Goal'
  BY <1>4 DEF RunAgentJobs, Takes, EventClaimable
<1>5. ASSUME NEW w \in Worker, ClaimPendingJobs(w) PROVE Goal'
  BY <1>5 DEF ClaimPendingJobs, Takes, JobClaimable, Counted
<1>6. ASSUME NEW w \in Worker, NEW e \in Event, DispatchOneEvent(w, e) PROVE Goal'
  <2>1. evStatus' = [evStatus EXCEPT ![e] = "dispatched"]
          \/ evStatus' = [evStatus EXCEPT ![e] = "ignored"]
    BY <1>6 DEF DispatchOneEvent, DispatchOutcome
  <2>2. jobStatus' = jobStatus \/ (e \in Job /\ jobStatus' = [jobStatus EXCEPT ![e] = "pending"])
    BY <1>6 DEF DispatchOneEvent, DispatchOutcome, Job
  <2>3. UNCHANGED <<evAttempts, jobAttempts>>
    BY <1>6 DEF DispatchOneEvent, DispatchOutcome
  <2> QED BY <2>1, <2>2, <2>3
<1>7. ASSUME NEW w \in Worker, NEW e \in Event, MarkEventFailed(w, e) PROVE Goal'
  <2>1. evStatus[e] = "processing"
    BY <1>7 DEF MarkEventFailed, Holds, LeaseInv, LeasesOutliveCycles
  <2>2. evAttempts[e] \in Nat /\ evAttempts[e] < MaxEventAttempts
    BY <2>1
  <2>3. /\ evAttempts' = [evAttempts EXCEPT ![e] = @ + 1]
        /\ evStatus' = [evStatus EXCEPT ![e] =
             IF evAttempts[e] + 1 < MaxEventAttempts THEN "pending" ELSE "failed"]
        /\ UNCHANGED <<jobStatus, jobAttempts>>
    BY <1>7 DEF MarkEventFailed, EventVerdict
  <2>4. /\ evAttempts'[e] = evAttempts[e] + 1
        /\ evStatus'[e] \in {"pending", "failed"}
        /\ evStatus'[e] = "pending" => evAttempts[e] + 1 < MaxEventAttempts
        /\ evStatus'[e] = "failed" => evAttempts[e] + 1 = MaxEventAttempts
    BY <2>2, <2>3
  <2>5. \A f \in Event \ {e} : evAttempts'[f] = evAttempts[f] /\ evStatus'[f] = evStatus[f]
    BY <2>3
  <2> QED BY <2>3, <2>4, <2>5
<1>8. ASSUME NEW w \in Worker, CompleteJob(w) PROVE Goal'
  BY <1>8 DEF CompleteJob, EventsAfterEnqueue
<1>9. ASSUME NEW w \in Worker, MarkJobFailed(w) PROVE Goal'
  <2>1. cur[w] \in Job /\ attempt[w] = jobAttempts[cur[w]]
    BY <1>9 DEF MarkJobFailed, LeaseInv, BatchesInPhase
  <2> QED BY <1>9, <2>1 DEF MarkJobFailed, JobVerdict
<1>10. CASE UNCHANGED <<evStatus, evAttempts, jobStatus, jobAttempts>>
  BY <1>10
<1> HIDE DEF TypeOK, Goal
<1> QED
  BY <1>1, <1>2, <1>3, <1>4, <1>5, <1>6, <1>7, <1>8, <1>9, <1>10
  DEF Next, Produce, Cycle, Crash, WatchdogFires, StaleRowCommit, EventGone, StartJob,
      JobGone, FailedJobGone, EndCycle, Abort, Tick, vars

\* Nothing is buried before its budget is spent and nothing is offered again after:
\* exactly MAX_EVENT_ATTEMPTS failed deliveries of an event, four claims of a job.
THEOREM BudgetKept == Spec => []RetryBudget
<1>1. Init => RetryBudget /\ FreshEvents
  BY DEF Init, RetryBudget, FreshEvents
<1> QED
  BY <1>1, TypeInit, TypeStep, LeaseInit, LeaseStep, BudgetStep, PTL DEF Spec

LEMMA ClaimsStep ==
  TypeOK /\ LeaseInv /\ RetryBudget /\ ClaimsPaidFor /\ [Next]_vars => ClaimsPaidFor'
<1> SUFFICES ASSUME TypeOK, LeaseInv, RetryBudget, ClaimsPaidFor, [Next]_vars
             PROVE  ClaimsPaidFor'
  OBVIOUS
<1> USE DEF TypeOK, ClaimsPaidFor, AttemptsBounded, evVars, jobVars, cycleVars
<1>1. ASSUME NEW e \in Event, EnqueueEvent(e) PROVE ClaimsPaidFor'
  BY <1>1 DEF EnqueueEvent
<1>2. ASSUME NEW j \in Job, EnqueueAgentJob(j) PROVE ClaimsPaidFor'
  BY <1>2 DEF EnqueueAgentJob
<1>3. CASE MergeDuplicates
  BY <1>3 DEF MergeDuplicates
<1>4. ASSUME NEW w \in Worker, RunAgentJobs(w) PROVE ClaimsPaidFor'
  BY <1>4 DEF RunAgentJobs
<1>5. ASSUME NEW w \in Worker, ClaimPendingJobs(w) PROVE ClaimsPaidFor'
  <2>1. PICK S \in SUBSET Job :
          /\ S \subseteq {j \in Job : JobClaimable(j)}
          /\ jobStatus' = [j \in Job |-> IF j \in S THEN "running" ELSE jobStatus[j]]
          /\ jobAttempts' = [j \in Job |->
                 IF j \in S THEN Counted(jobAttempts[j]) ELSE jobAttempts[j]]
          /\ jobBatch' = [jobBatch EXCEPT ![w] = S]
    BY <1>5 DEF ClaimPendingJobs, Takes
  <2>2. \A v \in Worker : jobBatch[v] \cap S = {}
    BY <2>1, ClaimableIsFree
  <2>3. aborts < MaxAborts => \A j \in S : jobAttempts[j] < MaxJobAttempts + aborts
    BY <2>1, <2>2 DEF JobClaimable, RetryBudget
  <2>4. jobBatch[w] = {} /\ aborts' = aborts
    BY <1>5 DEF ClaimPendingJobs, LeaseInv, BatchesInPhase
  <2>5. aborts < MaxAborts => \A j \in S : jobAttempts'[j] = jobAttempts[j] + 1
    BY <2>1, <2>3 DEF Counted
  <2>6. ASSUME aborts < MaxAborts, NEW j \in Job
        PROVE  jobAttempts'[j] <= MaxJobAttempts + aborts
    <3>1. CASE j \in S
      <4>1. jobAttempts[j] < MaxJobAttempts + aborts /\ jobAttempts'[j] = jobAttempts[j] + 1
        BY <2>3, <2>5, <2>6, <3>1
      <4>2. jobAttempts[j] \in Nat /\ aborts \in Nat
        OBVIOUS
      <4> HIDE DEF TypeOK, ClaimsPaidFor
      <4> QED BY <4>1, <4>2
    <3>2. CASE j \notin S
      BY <2>1, <2>6, <3>2
    <3> QED BY <3>1, <3>2
  <2>7. ASSUME NEW j \in Job, jobStatus'[j] \in {"none", "pending"}
        PROVE  jobAttempts'[j] = 0
    BY <2>1, <2>7
  <2>8. ASSUME aborts < MaxAborts, NEW j \in Job, jobStatus'[j] = "running",
               \A v \in Worker : j \notin jobBatch'[v]
        PROVE  jobAttempts'[j] < MaxJobAttempts + aborts
    <3>1. j \notin S BY <2>1, <2>8
    <3>2. \A v \in Worker : j \notin jobBatch[v] BY <2>1, <2>4, <2>8
    <3> QED BY <2>1, <2>8, <3>1, <3>2
  <2> QED BY <2>4, <2>6, <2>7, <2>8
<1>6. ASSUME NEW w \in Worker, NEW e \in Event, DispatchOneEvent(w, e) PROVE ClaimsPaidFor'
  <2>1. jobStatus' = jobStatus
          \/ (e \in Job /\ jobStatus[e] = "none" /\ jobStatus' = [jobStatus EXCEPT ![e] = "pending"])
    BY <1>6 DEF DispatchOneEvent, DispatchOutcome, Job
  <2>2. UNCHANGED <<jobAttempts, jobBatch, aborts>>
    BY <1>6 DEF DispatchOneEvent, DispatchOutcome
  <2> QED BY <2>1, <2>2
<1>7. ASSUME NEW w \in Worker, NEW e \in Event, MarkEventFailed(w, e) PROVE ClaimsPaidFor'
  BY <1>7 DEF MarkEventFailed
<1>8. ASSUME NEW w \in Worker, CompleteJob(w) PROVE ClaimsPaidFor'
  BY <1>8 DEF CompleteJob, LeaveJob
<1>9. ASSUME NEW w \in Worker, MarkJobFailed(w) PROVE ClaimsPaidFor'
  BY <1>9 DEF MarkJobFailed, LeaveJob, JobVerdict
<1>10. ASSUME NEW w \in Worker, FailedJobGone(w) PROVE ClaimsPaidFor'
  BY <1>10 DEF FailedJobGone, LeaveJob
<1>11. ASSUME NEW w \in Worker, NEW j \in Job, JobGone(w, j) PROVE ClaimsPaidFor'
  BY <1>11 DEF JobGone
<1>12. ASSUME NEW w \in Worker, Abort(w) PROVE ClaimsPaidFor'
  BY <1>12 DEF Abort
<1>13. CASE UNCHANGED <<jobStatus, jobAttempts, jobBatch, aborts>>
  BY <1>13
<1> HIDE DEF TypeOK, ClaimsPaidFor
<1> QED
  BY <1>1, <1>2, <1>3, <1>4, <1>5, <1>6, <1>7, <1>8, <1>9, <1>10, <1>11, <1>12, <1>13
  DEF Next, Produce, Cycle, Crash, WatchdogFires, StaleRowCommit, EventGone, StartJob,
      EndCycle, Tick, vars

\* However many cycles overlap, and however many cuts are counted (MaxAborts is any
\* number), a job is claimed at most four times plus once for each cycle cut short.
THEOREM ClaimsBounded == Spec => []AttemptsBounded
<1>1. Init => RetryBudget /\ FreshEvents /\ ClaimsPaidFor
  BY DEF Init, RetryBudget, FreshEvents, ClaimsPaidFor, AttemptsBounded
<1>2. ClaimsPaidFor => AttemptsBounded
  BY DEF ClaimsPaidFor
<1> QED
  BY <1>1, <1>2, TypeInit, TypeStep, LeaseInit, LeaseStep, BudgetStep, ClaimsStep, PTL
  DEF Spec

-----------------------------------------------------------------------------
(* Verdicts *)

\* A late cycle never overwrites a verdict: only a running job, and so only the
\* job of the one cycle that holds it, is completed, retried or buried.
THEOREM VerdictsAreFinal == Spec => VerdictsFinal
<1> DEFINE Frame ==
      /\ \A j \in Job : jobStatus'[j] # jobStatus[j] =>
           /\ jobStatus'[j] \in {"completed", "retry", "failed"} => jobStatus[j] = "running"
           /\ jobStatus[j] \in JobTerminal => jobStatus'[j] = "deleted"
      /\ \A e \in Event : evStatus[e] \in EvTerminal /\ evStatus'[e] # evStatus[e]
           => evStatus'[e] = "deleted"
<1>1. ASSUME TypeOK, LeaseInv, [Next]_vars PROVE Frame
  <2> USE <1>1 DEF TypeOK, JobTerminal, EvTerminal, evVars, jobVars, cycleVars
  <2>1. ASSUME NEW e \in Event, EnqueueEvent(e) PROVE Frame
    BY <2>1 DEF EnqueueEvent, EventsAfterEnqueue
  <2>2. ASSUME NEW j \in Job, EnqueueAgentJob(j) PROVE Frame
    BY <2>2 DEF EnqueueAgentJob
  <2>3. CASE MergeDuplicates
    BY <2>3 DEF MergeDuplicates
  <2>4. ASSUME NEW w \in Worker, RunAgentJobs(w) PROVE Frame
    BY <2>4 DEF RunAgentJobs, Takes, EventClaimable
  <2>5. ASSUME NEW w \in Worker, ClaimPendingJobs(w) PROVE Frame
    BY <2>5 DEF ClaimPendingJobs, Takes, JobClaimable
  <2>6. ASSUME NEW w \in Worker, NEW e \in Event, DispatchOneEvent(w, e) PROVE Frame
    <3>1. evStatus[e] = "processing"
      BY <2>6 DEF DispatchOneEvent, Holds, LeaseInv, LeasesOutliveCycles
    <3>2. e \in Job
      BY DEF Job
    <3> QED BY <2>6, <3>1, <3>2 DEF DispatchOneEvent, DispatchOutcome
  <2>7. ASSUME NEW w \in Worker, NEW e \in Event, MarkEventFailed(w, e) PROVE Frame
    <3>1. evStatus[e] = "processing"
      BY <2>7 DEF MarkEventFailed, Holds, LeaseInv, LeasesOutliveCycles
    <3> QED BY <2>7, <3>1 DEF MarkEventFailed
  <2>8. ASSUME NEW w \in Worker, CompleteJob(w) PROVE Frame
    <3>1. cur[w] \in Job /\ jobStatus[cur[w]] = "running"
      BY <2>8 DEF CompleteJob, LeaseInv, BatchesInPhase, LeasesOutliveCycles
    <3> QED BY <2>8, <3>1 DEF CompleteJob, EventsAfterEnqueue
  <2>9. ASSUME NEW w \in Worker, MarkJobFailed(w) PROVE Frame
    <3>1. cur[w] \in Job /\ jobStatus[cur[w]] = "running"
      BY <2>9 DEF MarkJobFailed, LeaseInv, BatchesInPhase, LeasesOutliveCycles
    <3> QED BY <2>9, <3>1 DEF MarkJobFailed, JobVerdict
  <2>10. CASE UNCHANGED <<evStatus, jobStatus>>
    BY <2>10
  <2> HIDE DEF TypeOK, Frame
  <2> QED
    BY <2>1, <2>2, <2>3, <2>4, <2>5, <2>6, <2>7, <2>8, <2>9, <2>10
    DEF Next, Produce, Cycle, Crash, WatchdogFires, StaleRowCommit, EventGone, StartJob,
        JobGone, FailedJobGone, EndCycle, Abort, Tick, vars
<1>2. TypeOK /\ LeaseInv /\ [Next]_vars => [Frame]_vars
  BY <1>1
<1> QED
  BY <1>2, TypeInit, TypeStep, LeaseInit, LeaseStep, PTL DEF Spec, VerdictsFinal

-----------------------------------------------------------------------------
(* AgentQueue implements WorkQueue *)

ItemStates == [j \in Job |-> ItemState(j)]

\* The abstract state of a job depends on its status and on who holds it only.
LEMMA ItemStateIs ==
  ASSUME NEW j \in Job
  PROVE  /\ jobStatus[j] = "none" => ItemState(j) = "absent"
         /\ jobStatus[j] \in {"pending", "retry"} => ItemState(j) = "waiting"
         /\ jobStatus[j] = "running" =>
              ItemState(j) = IF Held(j) THEN "held" ELSE "waiting"
         /\ jobStatus[j] = "completed" => ItemState(j) = "done"
         /\ jobStatus[j] = "failed" => ItemState(j) = "dead"
         /\ jobStatus[j] = "deleted" => ItemState(j) = "withdrawn"
  BY DEF ItemState

LEMMA ItemStateIsNext ==
  ASSUME NEW j \in Job
  PROVE  /\ jobStatus'[j] = "none" => ItemState(j)' = "absent"
         /\ jobStatus'[j] \in {"pending", "retry"} => ItemState(j)' = "waiting"
         /\ jobStatus'[j] = "running" =>
              ItemState(j)' = IF Held(j)' THEN "held" ELSE "waiting"
         /\ jobStatus'[j] = "completed" => ItemState(j)' = "done"
         /\ jobStatus'[j] = "failed" => ItemState(j)' = "dead"
         /\ jobStatus'[j] = "deleted" => ItemState(j)' = "withdrawn"
  BY DEF ItemState

LEMMA ItemStateFrame ==
  ASSUME TypeOK, TypeOK', NEW j \in Job, jobStatus'[j] = jobStatus[j], Held(j)' <=> Held(j)
  PROVE  ItemState(j)' = ItemState(j)
<1>1. jobStatus[j] \in JobStatus
  BY DEF TypeOK
<1> QED
  BY <1>1, ItemStateIs, ItemStateIsNext DEF JobStatus

LEMMA QueueInit == Init => Queue!Init
  BY DEF Init, Queue!Init, ItemState

LEMMA SubmitStep ==
  ASSUME TypeOK, TypeOK', NEW j \in Job, jobStatus[j] = "none",
         jobStatus' = [jobStatus EXCEPT ![j] = "pending"],
         UNCHANGED <<jobAttempts, jobBatch>>
  PROVE  Queue!Submit(j)
<1>1. \A k \in Job : Held(k)' <=> Held(k)
  BY DEF Held
<1>2. \A k \in Job \ {j} : ItemState(k)' = ItemState(k)
  BY <1>1, ItemStateFrame DEF TypeOK
<1>3. ItemState(j) = "absent" /\ ItemState(j)' = "waiting"
  BY ItemStateIs, ItemStateIsNext DEF TypeOK
<1>4. ItemStates' = [ItemStates EXCEPT ![j] = "waiting"]
  BY <1>2, <1>3 DEF ItemStates
<1> QED BY <1>3, <1>4 DEF Queue!Submit, ItemStates

\* A cycle that lets go of a job it holds hands it a verdict.
LEMMA VerdictStep ==
  ASSUME TypeOK, TypeOK', LeaseInv, NEW w \in Worker, NEW j \in jobBatch[w],
         jobStatus[j] = "running",
         NEW s \in {"completed", "retry", "failed"},
         s = "retry" => jobAttempts[j] < MaxJobAttempts,
         s = "failed" => jobAttempts[j] >= MaxJobAttempts,
         jobStatus' = [jobStatus EXCEPT ![j] = s],
         jobBatch' = [jobBatch EXCEPT ![w] = @ \ {j}],
         UNCHANGED jobAttempts
  PROVE  \E a \in {"done", "waiting", "dead"} : Queue!Verdict(w, j, a)
<1> DEFINE a == IF s = "completed" THEN "done" ELSE IF s = "retry" THEN "waiting" ELSE "dead"
<1>1. j \in Job
  BY DEF TypeOK
<1>2. \A k \in Job \ {j} : Held(k)' <=> Held(k)
  BY DEF Held, TypeOK
<1>3. \A k \in Job \ {j} : ItemState(k)' = ItemState(k)
  BY <1>2, ItemStateFrame DEF TypeOK
<1>4. ItemState(j) = "held"
  BY <1>1, ItemStateIs DEF Held
<1>5. ItemState(j)' = a
  BY <1>1, ItemStateIsNext DEF TypeOK
<1>6. ItemStates' = [ItemStates EXCEPT ![j] = a]
  BY <1>1, <1>3, <1>5 DEF ItemStates
<1>7. Queue!Verdict(w, j, a)
  BY <1>1, <1>4, <1>6 DEF Queue!Verdict, ItemStates
<1> QED BY <1>7

LEMMA ForgetStep ==
  ASSUME TypeOK, TypeOK', NEW w \in Worker, NEW j \in jobBatch[w],
         jobStatus[j] = "deleted",
         jobBatch' = [jobBatch EXCEPT ![w] = @ \ {j}],
         UNCHANGED <<jobStatus, jobAttempts>>
  PROVE  Queue!Forget(w, j)
<1>1. j \in Job
  BY DEF TypeOK
<1>2. \A k \in Job \ {j} : Held(k)' <=> Held(k)
  BY DEF Held, TypeOK
<1>3. \A k \in Job \ {j} : ItemState(k)' = ItemState(k)
  BY <1>2, ItemStateFrame
<1>4. ItemState(j) = "withdrawn" /\ ItemState(j)' = "withdrawn"
  BY <1>1, ItemStateIs, ItemStateIsNext
<1>5. ItemStates' = ItemStates
  BY <1>3, <1>4 DEF ItemStates
<1> QED BY <1>1, <1>4, <1>5 DEF Queue!Forget, ItemStates

LEMMA ClaimStep ==
  ASSUME TypeOK, TypeOK', LeaseInv, NEW w \in Worker, ClaimPendingJobs(w)
  PROVE  \E S \in SUBSET Job : Queue!Claim(w, S)
<1>1. PICK S \in SUBSET Job :
        /\ S \subseteq {j \in Job : JobClaimable(j)}
        /\ jobStatus' = [j \in Job |-> IF j \in S THEN "running" ELSE jobStatus[j]]
        /\ jobAttempts' = [j \in Job |->
               IF j \in S THEN Counted(jobAttempts[j]) ELSE jobAttempts[j]]
        /\ jobBatch' = [jobBatch EXCEPT ![w] = S]
  BY DEF ClaimPendingJobs, Takes
<1>2. jobBatch[w] = {} /\ \A v \in Worker : jobBatch[v] \cap S = {}
  BY <1>1, ClaimableIsFree DEF ClaimPendingJobs, LeaseInv, BatchesInPhase
<1>3. \A k \in Job \ S : Held(k)' <=> Held(k)
  BY <1>1, <1>2 DEF Held, TypeOK
<1>4. \A k \in Job \ S : ItemState(k)' = ItemState(k)
  BY <1>1, <1>3, ItemStateFrame
<1>5. \A k \in S : ItemState(k) = "waiting"
  BY <1>1, <1>2, ItemStateIs DEF JobClaimable, Held
<1>6. \A k \in S : ItemState(k)' = "held"
  <2> SUFFICES ASSUME NEW k \in S PROVE ItemState(k)' = "held"
    OBVIOUS
  <2>1. Held(k)'
    BY <1>1 DEF Held, TypeOK
  <2>2. jobStatus'[k] = "running"
    BY <1>1
  <2> QED BY <2>1, <2>2, ItemStateIsNext
<1>7. ItemStates' = [j \in Job |-> IF j \in S THEN "held" ELSE ItemStates[j]]
  BY <1>4, <1>6 DEF ItemStates
<1>8. Queue!Claim(w, S)
  BY <1>1, <1>2, <1>5, <1>7 DEF Queue!Claim, ItemStates, Counted
<1> QED BY <1>8

LEMMA LoseStep ==
  ASSUME TypeOK, TypeOK', LeaseInv, NEW w \in Worker, Abort(w)
  PROVE  Queue!Lose(w)
<1>1. jobBatch' = [jobBatch EXCEPT ![w] = {}] /\ UNCHANGED <<jobStatus, jobAttempts>>
  BY DEF Abort, jobVars
<1>2. \A k \in Job \ jobBatch[w] : Held(k)' <=> Held(k)
  BY <1>1 DEF Held, TypeOK
<1>3. \A k \in Job \ jobBatch[w] : ItemState(k)' = ItemState(k)
  BY <1>1, <1>2, ItemStateFrame
<1>4. ASSUME NEW k \in jobBatch[w], jobStatus[k] = "running"
      PROVE  ItemState(k) = "held" /\ ItemState(k)' = "waiting"
  <2>1. k \in Job /\ Held(k)
    BY <1>4 DEF Held, TypeOK
  <2>2. ~Held(k)'
    BY <1>1, <1>4 DEF Held, TypeOK, LeaseInv, LeaseExclusive
  <2> QED BY <1>1, <1>4, <2>1, <2>2, ItemStateIs, ItemStateIsNext
<1>5. ASSUME NEW k \in jobBatch[w], jobStatus[k] # "running"
      PROVE  ItemState(k) = "withdrawn" /\ ItemState(k)' = "withdrawn"
  <2>1. k \in Job /\ jobStatus[k] = "deleted"
    BY <1>5 DEF TypeOK, LeaseInv, LeasesOutliveCycles
  <2> QED BY <1>1, <2>1, ItemStateIs, ItemStateIsNext
<1>6. ItemStates' = [i \in Job |->
        IF i \in jobBatch[w] /\ ItemStates[i] = "held" THEN "waiting" ELSE ItemStates[i]]
  BY <1>3, <1>4, <1>5 DEF ItemStates
<1> QED BY <1>1, <1>6 DEF Queue!Lose, ItemStates

LEMMA WithdrawStep ==
  ASSUME TypeOK, TypeOK', MergeDuplicates
  PROVE  \E S \in SUBSET Job : Queue!Withdraw(S)
<1>1. \A k \in Job : Held(k)' <=> Held(k)
  BY DEF MergeDuplicates, cycleVars, Held
<1>2. \A k \in Job : k \notin Doomed \/ jobStatus[k] = "none" => jobStatus'[k] = jobStatus[k]
  BY DEF MergeDuplicates
<1>3. \A k \in Job : k \notin Doomed \/ jobStatus[k] = "none" => ItemState(k)' = ItemState(k)
  BY <1>1, <1>2, ItemStateFrame
<1>4. \A k \in Job : jobStatus[k] = "none" <=> ItemState(k) = "absent"
  BY ItemStateIs DEF TypeOK, JobStatus
<1>5. \A k \in Doomed : jobStatus[k] # "none" => ItemState(k)' = "withdrawn"
  BY ItemStateIsNext DEF MergeDuplicates
<1>6. ItemStates' = [i \in Job |->
        IF i \in Doomed /\ ItemStates[i] # "absent" THEN "withdrawn" ELSE ItemStates[i]]
  BY <1>3, <1>4, <1>5 DEF ItemStates
<1>7. Queue!Withdraw(Doomed)
  BY <1>6 DEF Queue!Withdraw, ItemStates, MergeDuplicates, cycleVars
<1> QED BY <1>7

LEMMA SameQueue ==
  ASSUME TypeOK, TypeOK', UNCHANGED <<jobStatus, jobAttempts, jobBatch>>
  PROVE  UNCHANGED Queue!vars
<1>1. \A k \in Job : Held(k)' <=> Held(k)
  BY DEF Held
<1>2. \A k \in Job : ItemState(k)' = ItemState(k)
  BY <1>1, ItemStateFrame
<1> QED BY <1>2 DEF Queue!vars, ItemStates

LEMMA QueueStep ==
  ASSUME TypeOK, TypeOK', LeaseInv, OutboxAgreement, [Next]_vars
  PROVE  [Queue!Next]_Queue!vars
<1> DEFINE Goal == [Queue!Next]_Queue!vars
<1>1. ASSUME NEW j \in Job, EnqueueAgentJob(j) PROVE Goal
  BY <1>1, SubmitStep DEF EnqueueAgentJob, cycleVars, Queue!Next
<1>2. CASE MergeDuplicates
  BY <1>2, WithdrawStep DEF Queue!Next
<1>3. ASSUME NEW w \in Worker, ClaimPendingJobs(w) PROVE Goal
  BY <1>3, ClaimStep DEF Queue!Next
<1>4. ASSUME NEW w \in Worker, NEW e \in Event, DispatchOneEvent(w, e) PROVE Goal
  <2>1. e \in Job /\ UNCHANGED <<jobAttempts, jobBatch>>
    BY <1>4 DEF DispatchOneEvent, DispatchOutcome, Job, jobVars
  <2>2. CASE jobStatus[e] = "none" /\ jobStatus' = [jobStatus EXCEPT ![e] = "pending"]
    BY <2>1, <2>2, SubmitStep DEF Queue!Next
  <2>3. CASE jobStatus' = jobStatus
    BY <2>1, <2>3, SameQueue
  <2> QED BY <1>4, <2>2, <2>3 DEF DispatchOneEvent, DispatchOutcome, jobVars
<1>5. ASSUME NEW w \in Worker, NEW j \in Job, JobGone(w, j) PROVE Goal
  <2>1. Queue!Forget(w, j)
    BY <1>5, ForgetStep DEF JobGone, jobVars
  <2> QED BY <2>1 DEF Queue!Next
<1>6. ASSUME NEW w \in Worker, CompleteJob(w) PROVE Goal
  <2>1. cur[w] \in jobBatch[w] /\ cur[w] \in Job /\ jobStatus[cur[w]] = "running"
    BY <1>6 DEF CompleteJob, LeaseInv, BatchesInPhase, LeasesOutliveCycles, TypeOK
  <2>2. \E a \in {"done", "waiting", "dead"} : Queue!Verdict(w, cur[w], a)
    BY <1>6, <2>1, VerdictStep DEF CompleteJob, LeaveJob
  <2> QED BY <2>1, <2>2 DEF Queue!Next
<1>7. ASSUME NEW w \in Worker, MarkJobFailed(w) PROVE Goal
  <2>1. /\ cur[w] \in jobBatch[w] /\ cur[w] \in Job /\ jobStatus[cur[w]] = "running"
        /\ attempt[w] = jobAttempts[cur[w]] /\ jobAttempts[cur[w]] \in Nat
    BY <1>7 DEF MarkJobFailed, LeaseInv, BatchesInPhase, LeasesOutliveCycles, TypeOK
  <2>2. PICK s \in {"retry", "failed"} :
          /\ s = JobVerdict(attempt[w])
          /\ s = "retry" <=> jobAttempts[cur[w]] < MaxJobAttempts
    BY <2>1 DEF JobVerdict
  <2>3. \E a \in {"done", "waiting", "dead"} : Queue!Verdict(w, cur[w], a)
    <3>1. /\ jobStatus' = [jobStatus EXCEPT ![cur[w]] = s]
          /\ jobBatch' = [jobBatch EXCEPT ![w] = @ \ {cur[w]}]
          /\ UNCHANGED jobAttempts
      BY <1>7, <2>2 DEF MarkJobFailed, LeaveJob
    <3>2. s = "failed" => jobAttempts[cur[w]] >= MaxJobAttempts
      BY <2>1, <2>2
    <3> QED BY <2>1, <2>2, <3>1, <3>2, VerdictStep
  <2> QED BY <2>1, <2>3 DEF Queue!Next
<1>8. ASSUME NEW w \in Worker, FailedJobGone(w) PROVE Goal
  <2>1. cur[w] \in jobBatch[w] /\ cur[w] \in Job
    BY <1>8 DEF FailedJobGone, LeaseInv, BatchesInPhase, TypeOK
  <2>2. Queue!Forget(w, cur[w])
    BY <1>8, <2>1, ForgetStep DEF FailedJobGone, LeaveJob, jobVars
  <2> QED BY <2>1, <2>2 DEF Queue!Next
<1>9. ASSUME NEW w \in Worker, Abort(w) PROVE Goal
  BY <1>9, LoseStep DEF Queue!Next
<1>10. CASE UNCHANGED <<jobStatus, jobAttempts, jobBatch>>
  BY <1>10, SameQueue
<1>11. ASSUME NEW w \in Worker, Cycle(w) PROVE Goal
  BY <1>3, <1>4, <1>5, <1>6, <1>7, <1>8, <1>9, <1>10, <1>11
  DEF Cycle, WatchdogFires, StaleRowCommit, MarkEventFailed, EventGone, StartJob,
      EndCycle, jobVars
<1>12. CASE Produce
  BY <1>1, <1>2, <1>10, <1>12 DEF Produce, EnqueueEvent, jobVars, cycleVars
<1>13. ASSUME NEW w \in Worker, RunAgentJobs(w) \/ Crash(w) PROVE Goal
  BY <1>9, <1>10, <1>13 DEF Crash, RunAgentJobs, jobVars
<1>14. CASE Tick \/ UNCHANGED vars
  BY <1>10, <1>14 DEF Tick, vars, jobVars, cycleVars
<1> QED BY <1>11, <1>12, <1>13, <1>14 DEF Next

\* The job queue, with its leases, watchdogs, crashes, deletions and stale reads,
\* implements the abstract work queue: one holder at a time, verdicts from the
\* holder only, burial after the budget, and return of what a lost holder held.
THEOREM QueueImplemented == Spec => ImplementsWorkQueue
<1>1. Init => OutboxAgreement
  BY DEF Init, OutboxAgreement, Job
<1>2. TypeOK /\ TypeOK' /\ LeaseInv /\ OutboxAgreement /\ [Next]_vars
        => [Queue!Next]_Queue!vars
  BY QueueStep
<1> QED
  BY <1>1, <1>2, TypeInit, TypeStep, LeaseInit, LeaseStep, AgreementStep, QueueInit, PTL
  DEF Spec, ImplementsWorkQueue, Queue!Spec
=============================================================================
