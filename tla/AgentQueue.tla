----------------------------- MODULE AgentQueue -----------------------------
(***************************************************************************)
(* The transactional outbox and the agent-job queue of the sourcing        *)
(* service: sourcing/app/services/job_queue.py, the worker cycle           *)
(* run_agent_job_cycle in agent_pipeline.py and its 900 s watchdog in      *)
(* tasks/agent_jobs.py.                                                    *)
(*                                                                         *)
(* Several cycles may be alive at once: the Railway cron starts one every  *)
(* ten minutes while a cycle may last fifteen, and POST /tasks/agent-jobs  *)
(* starts another inside the web process.  A step of this module is one    *)
(* committed transaction, or one point at which a cycle waits: uncommitted *)
(* work is invisible to the other cycles and is lost with its cycle.       *)
(*                                                                         *)
(* Time is kept as countdowns (ticks until available_at, until a lease     *)
(* lapses, until the watchdog fires), so no bound on time is needed.       *)
(***************************************************************************)
EXTENDS Integers, FiniteSets

CONSTANTS
    Worker,            \* agent-job cycles that may be alive at the same time
    Event,             \* rows of event_outbox, one per dedup_key
    Direct,            \* agent_jobs enqueued directly, one per external_ref
    EventKind,         \* "job": becomes a job; "final": watchlist_update_ready;
                       \* "unknown": a type no branch of the dispatcher handles
    Produces,          \* the events the handler of a job may enqueue
    External,          \* the events enqueued by the scan pipeline and the API
    Priority,          \* agent_jobs.priority
    Doomed,            \* rows that reference an entity a merge script deletes
    EventLimit, JobLimit,              \* the two "limit" arguments
    StaleLease, CycleTimeout,          \* STALE_LEASE_MINUTES and timeout=900
    RetryStep, RetryCap,               \* the 5 and the 60 of min(n * 5, 60)
    MaxEventAttempts, MaxJobAttempts,  \* MAX_EVENT_ATTEMPTS; "attempt < 4"
    Kills,                             \* whether containers are killed under a cycle
    MaxAborts,                         \* bound: cycles cut short that are counted
    NoJob                              \* "this cycle is running no handler"

\* A job created from an event has external_ref "event:<id>", so it is named by
\* its event; uq_agent_jobs_type_external_ref makes the name unique.
Job == Event \cup Direct

ASSUME SetsAssumption ==
    /\ Event \cap Direct = {}
    /\ NoJob \notin Job
    /\ EventKind \in [Event -> {"job", "final", "unknown"}]
    /\ Produces \in [Job -> SUBSET Event]
    /\ External \subseteq Event
    /\ Priority \in [Job -> Nat]
    /\ Doomed \subseteq Job

ASSUME TimeAssumption ==
    /\ StaleLease \in Nat /\ CycleTimeout \in Nat
    /\ 0 < CycleTimeout /\ CycleTimeout < StaleLease
    /\ RetryStep \in Nat /\ RetryCap \in Nat

ASSUME BoundAssumption ==
    /\ EventLimit \in Nat \ {0} /\ JobLimit \in Nat \ {0}
    /\ MaxEventAttempts \in Nat \ {0} /\ MaxJobAttempts \in Nat \ {0}
    /\ MaxAborts \in Nat /\ Kills \in BOOLEAN

\* No backoff grows beyond the attempts that are counted.
ASSUME CountAssumption == (MaxJobAttempts + MaxAborts) * RetryStep >= RetryCap

VARIABLES
    evStatus, evAttempts, evWait,     \* event_outbox rows; evWait: available_at
    jobStatus, jobAttempts,           \* agent_jobs rows
    jobWait, jobLease,                \* available_at; leased_at + the lease
    pc,                               \* where each cycle is
    evBatch, jobBatch,                \* ids claimed and not yet finished
    cur, attempt,                     \* the job being handled, its attempts as read
    expired,                          \* the session was rolled back since the claim
    deadline,                         \* ticks until wait_for cancels the cycle
    aborts                            \* cycles cut short so far, up to MaxAborts

evVars == <<evStatus, evAttempts, evWait>>
jobVars == <<jobStatus, jobAttempts, jobWait, jobLease>>
cycleVars == <<pc, evBatch, jobBatch, cur, attempt, expired, deadline>>
vars == <<evVars, jobVars, cycleVars, aborts>>

EvStatus == {"none", "pending", "processing", "dispatched", "ignored", "failed",
             "deleted"}
JobStatus == {"none", "pending", "running", "retry", "completed", "failed",
              "deleted"}

EvTerminal == {"dispatched", "ignored", "failed", "deleted"}
JobTerminal == {"completed", "failed", "deleted"}

TypeOK ==
    /\ evStatus \in [Event -> EvStatus]
    /\ evAttempts \in [Event -> Nat]
    /\ evWait \in [Event -> Nat]
    /\ jobStatus \in [Job -> JobStatus]
    /\ jobAttempts \in [Job -> Nat]
    /\ jobWait \in [Job -> Nat]
    /\ jobLease \in [Job -> 0..StaleLease]
    /\ pc \in [Worker -> {"idle", "events", "jobs"}]
    /\ evBatch \in [Worker -> SUBSET Event]
    /\ jobBatch \in [Worker -> SUBSET Job]
    /\ cur \in [Worker -> Job \cup {NoJob}]
    /\ attempt \in [Worker -> Nat]
    /\ expired \in [Worker -> BOOLEAN]
    /\ deadline \in [Worker -> 0..CycleTimeout]
    /\ aborts \in Nat

Init ==
    /\ evStatus = [e \in Event |-> "none"]
    /\ evAttempts = [e \in Event |-> 0]
    /\ evWait = [e \in Event |-> 0]
    /\ jobStatus = [j \in Job |-> "none"]
    /\ jobAttempts = [j \in Job |-> 0]
    /\ jobWait = [j \in Job |-> 0]
    /\ jobLease = [j \in Job |-> 0]
    /\ pc = [w \in Worker |-> "idle"]
    /\ evBatch = [w \in Worker |-> {}]
    /\ jobBatch = [w \in Worker |-> {}]
    /\ cur = [w \in Worker |-> NoJob]
    /\ attempt = [w \in Worker |-> 0]
    /\ expired = [w \in Worker |-> FALSE]
    /\ deadline = [w \in Worker |-> 0]
    /\ aborts = 0

-----------------------------------------------------------------------------
(* Producers *)

\* enqueue_event: a dedup_key that already has a row is left alone.
EventsAfterEnqueue(S) ==
    [e \in Event |-> IF e \in S /\ evStatus[e] = "none" THEN "pending"
                                                        ELSE evStatus[e]]

\* The scan pipeline (snapshot_ready) and the Notion webhook commit an event.
EnqueueEvent(e) ==
    /\ e \in External
    /\ evStatus[e] = "none"
    /\ evStatus' = EventsAfterEnqueue({e})
    /\ UNCHANGED <<evAttempts, evWait, jobVars, cycleVars, aborts>>

\* create_source, the Notion reconciliation and the console enqueue a job.
EnqueueAgentJob(j) ==
    /\ j \in Direct
    /\ jobStatus[j] = "none"
    /\ jobStatus' = [jobStatus EXCEPT ![j] = "pending"]
    /\ UNCHANGED <<evVars, jobAttempts, jobWait, jobLease, cycleVars, aborts>>

\* merge_duplicate_entities.py --commit deletes, in one transaction, every event
\* and job of the entities it merges.  Events go first, so a job that still
\* references one of them (agent_jobs.event_id) fails the whole script.
MergeDuplicates ==
    /\ \E j \in Doomed : \/ jobStatus[j] \notin {"none", "deleted"}
                         \/ j \in Event /\ evStatus[j] \notin {"none", "deleted"}
    /\ \A e \in Doomed \cap Event : jobStatus[e] = "none"
    /\ evStatus' = [e \in Event |->
           IF e \in Doomed /\ evStatus[e] # "none" THEN "deleted" ELSE evStatus[e]]
    /\ jobStatus' = [j \in Job |->
           IF j \in Doomed /\ jobStatus[j] # "none" THEN "deleted" ELSE jobStatus[j]]
    /\ UNCHANGED <<evAttempts, evWait, jobAttempts, jobWait, jobLease,
                   cycleVars, aborts>>

-----------------------------------------------------------------------------
(* Claims, leases and backoff *)

\* min(n * 5, 60) minutes.
Backoff(n) == IF n * RetryStep < RetryCap THEN n * RetryStep ELSE RetryCap

EventVerdict_JobVocabulary(n) == IF n < MaxEventAttempts THEN "retry" ELSE "failed"

EventVerdict_OffByOne(n) == IF n <= MaxEventAttempts THEN "pending" ELSE "failed"

\* Where a delivery attempt that failed leaves the event, n being its number.
EventVerdict(n) == IF n < MaxEventAttempts THEN "pending" ELSE "failed"

JobVerdict_Forever(n) == "retry"

\* retry=attempt < 4
JobVerdict(n) == IF n < MaxJobAttempts THEN "retry" ELSE "failed"

EventClaimable_NoReclaim(e) == evStatus[e] = "pending" /\ evWait[e] = 0

\* An event is claimable when it is due, or when its lease, which rides on
\* available_at too, has lapsed.
EventClaimable(e) ==
    /\ evStatus[e] \in {"pending", "processing"}
    /\ evWait[e] = 0

JobClaimable_AnyRunning(j) ==
    \/ jobStatus[j] \in {"pending", "retry"} /\ jobWait[j] = 0
    \/ jobStatus[j] = "running"

JobClaimable_NoReclaim(j) ==
    jobStatus[j] \in {"pending", "retry"} /\ jobWait[j] = 0

\* A job is claimable when it is due, or when its worker's lease has lapsed.
JobClaimable(j) ==
    \/ jobStatus[j] \in {"pending", "retry"} /\ jobWait[j] = 0
    \/ jobStatus[j] = "running" /\ jobLease[j] = 0

\* SELECT ... LIMIT n FOR UPDATE SKIP LOCKED takes as many rows as there are.
Takes(S, C, n) ==
    /\ S \subseteq C
    /\ Cardinality(S) = IF Cardinality(C) < n THEN Cardinality(C) ELSE n

\* dispatch_outbox_events claims a batch and commits the claim before any
\* handler runs.  created_at only breaks ties, so any batch may come first.
\* run_agent_jobs has just armed its watchdog.
RunAgentJobs(w) ==
    /\ pc[w] = "idle"
    /\ \E S \in SUBSET Event :
        /\ Takes(S, {e \in Event : EventClaimable(e)}, EventLimit)
        /\ evStatus' = [e \in Event |-> IF e \in S THEN "processing" ELSE evStatus[e]]
        /\ evWait' = [e \in Event |-> IF e \in S THEN StaleLease ELSE evWait[e]]
        /\ evBatch' = [evBatch EXCEPT ![w] = S]
    /\ pc' = [pc EXCEPT ![w] = "events"]
    /\ expired' = [expired EXCEPT ![w] = FALSE]
    /\ deadline' = [deadline EXCEPT ![w] = CycleTimeout]
    /\ UNCHANGED <<evAttempts, jobVars, jobBatch, cur, attempt, aborts>>

\* One attempt more.  A job that is cut every time is claimed without end: beyond
\* the bound no verdict and no backoff tells one count from the next.
Counted(n) == IF n < MaxJobAttempts + MaxAborts THEN n + 1 ELSE n

\* claim_pending_jobs, committed: the lease starts and the attempt is counted.
\* The objects it loads are fresh in the session.
ClaimPendingJobs(w) ==
    /\ pc[w] = "events" /\ evBatch[w] = {}
    /\ \E S \in SUBSET Job :
        LET claimable == {j \in Job : JobClaimable(j)} IN
        /\ Takes(S, claimable, JobLimit)
        /\ \A j \in S, k \in claimable \ S : Priority[j] <= Priority[k]
        /\ jobStatus' = [j \in Job |-> IF j \in S THEN "running" ELSE jobStatus[j]]
        /\ jobLease' = [j \in Job |-> IF j \in S THEN StaleLease ELSE jobLease[j]]
        /\ jobAttempts' = [j \in Job |->
               IF j \in S THEN Counted(jobAttempts[j]) ELSE jobAttempts[j]]
        /\ jobBatch' = [jobBatch EXCEPT ![w] = S]
    /\ pc' = [pc EXCEPT ![w] = "jobs"]
    /\ expired' = [expired EXCEPT ![w] = FALSE]
    /\ UNCHANGED <<evVars, jobWait, evBatch, cur, attempt, deadline, aborts>>

-----------------------------------------------------------------------------
(* The dispatcher: one event of the batch per transaction *)

Holds(w, e) == pc[w] = "events" /\ e \in evBatch[w]

DropEvent(w, e) == evBatch' = [evBatch EXCEPT ![w] = @ \ {e}]

DispatchOutcome_NoJob(e) ==
    evStatus' = [evStatus EXCEPT ![e] = "dispatched"] /\ UNCHANGED jobVars

\* _dispatch_one_event: the job insert and the event's new status are one
\* transaction.  An insert that meets an existing (job_type, external_ref)
\* creates nothing, and then the event is recorded as ignored.
DispatchOutcome(e) ==
    \/ /\ EventKind[e] = "job" /\ jobStatus[e] = "none"
       /\ jobStatus' = [jobStatus EXCEPT ![e] = "pending"]
       /\ evStatus' = [evStatus EXCEPT ![e] = "dispatched"]
       /\ UNCHANGED <<jobAttempts, jobWait, jobLease>>
    \/ /\ EventKind[e] = "job" /\ jobStatus[e] # "none"
       /\ evStatus' = [evStatus EXCEPT ![e] = "ignored"]
       /\ UNCHANGED jobVars
    \/ /\ EventKind[e] = "final"
       /\ evStatus' = [evStatus EXCEPT ![e] = "dispatched"]
       /\ UNCHANGED jobVars
    \/ /\ EventKind[e] = "unknown"
       /\ evStatus' = [evStatus EXCEPT ![e] = "ignored"]
       /\ UNCHANGED jobVars

DispatchOneEvent(w, e) ==
    /\ Holds(w, e)
    /\ evStatus[e] # "deleted"
    /\ DispatchOutcome(e)
    /\ DropEvent(w, e)
    /\ UNCHANGED <<evAttempts, evWait, pc, jobBatch, cur, attempt, expired,
                   deadline, aborts>>

\* The handler raises (a malformed payload, a database error): the session is
\* rolled back and mark_event_failed counts the delivery attempt.  The branch of
\* a "final" event runs no statement inside the try, so it cannot raise there.
MarkEventFailed(w, e) ==
    /\ Holds(w, e)
    /\ evStatus[e] # "deleted"
    /\ EventKind[e] # "final"
    /\ evAttempts' = [evAttempts EXCEPT ![e] = @ + 1]
    /\ evStatus' = [evStatus EXCEPT ![e] = EventVerdict(evAttempts[e] + 1)]
    /\ evWait' = [evWait EXCEPT ![e] = Backoff(evAttempts[e] + 1)]
    /\ DropEvent(w, e)
    /\ expired' = [expired EXCEPT ![w] = TRUE]
    /\ UNCHANGED <<jobVars, pc, jobBatch, cur, attempt, deadline, aborts>>

\* The row was deleted after the claim.  After a rollback db.get reloads it and
\* finds nothing; otherwise the session still returns its own copy, the job
\* insert breaks its foreign key (or the flush matches no row) inside the try.
EventGone(w, e) ==
    /\ Holds(w, e)
    /\ evStatus[e] = "deleted"
    /\ expired[w] \/ EventKind[e] # "final"
    /\ DropEvent(w, e)
    /\ expired' = [expired EXCEPT ![w] = TRUE]
    /\ UNCHANGED <<evVars, jobVars, pc, jobBatch, cur, attempt, deadline, aborts>>

-----------------------------------------------------------------------------
(* The job loop: one job of the batch per transaction *)

\* The cycle reads the job and enters its handler, which awaits an LLM.  A
\* deleted job is noticed only if a rollback has expired the session's copy.
StartJob(w, j) ==
    /\ pc[w] = "jobs" /\ cur[w] = NoJob /\ j \in jobBatch[w]
    /\ ~(expired[w] /\ jobStatus[j] = "deleted")
    /\ cur' = [cur EXCEPT ![w] = j]
    /\ attempt' = [attempt EXCEPT ![w] = jobAttempts[j]]
    /\ UNCHANGED <<evVars, jobVars, pc, evBatch, jobBatch, expired, deadline, aborts>>

JobGone(w, j) ==
    /\ pc[w] = "jobs" /\ cur[w] = NoJob /\ j \in jobBatch[w]
    /\ expired[w] /\ jobStatus[j] = "deleted"
    /\ jobBatch' = [jobBatch EXCEPT ![w] = @ \ {j}]
    /\ UNCHANGED <<evVars, jobVars, pc, evBatch, cur, attempt, expired, deadline,
                   aborts>>

LeaveJob(w) ==
    /\ jobBatch' = [jobBatch EXCEPT ![w] = @ \ {cur[w]}]
    /\ cur' = [cur EXCEPT ![w] = NoJob]
    /\ attempt' = [attempt EXCEPT ![w] = 0]

\* The handler returns: its writes, the events it enqueued and the job's new
\* status are committed together.
CompleteJob(w) ==
    /\ cur[w] # NoJob
    /\ jobStatus[cur[w]] # "deleted"
    /\ \E S \in SUBSET Produces[cur[w]] : evStatus' = EventsAfterEnqueue(S)
    /\ jobStatus' = [jobStatus EXCEPT ![cur[w]] = "completed"]
    /\ jobLease' = [jobLease EXCEPT ![cur[w]] = 0]
    /\ LeaveJob(w)
    /\ UNCHANGED <<evAttempts, evWait, jobAttempts, jobWait, pc, evBatch, expired,
                   deadline, aborts>>

\* The handler raises: rollback, then mark_job_failed with retry=attempt < 4,
\* where attempt was read before the handler ran.
MarkJobFailed(w) ==
    /\ cur[w] # NoJob
    /\ jobStatus[cur[w]] # "deleted"
    /\ jobStatus' = [jobStatus EXCEPT ![cur[w]] = JobVerdict(attempt[w])]
    /\ jobWait' = [jobWait EXCEPT ![cur[w]] =
           Backoff(IF jobAttempts[cur[w]] > 1 THEN jobAttempts[cur[w]] ELSE 1)]
    /\ jobLease' = [jobLease EXCEPT ![cur[w]] = 0]
    /\ LeaveJob(w)
    /\ expired' = [expired EXCEPT ![w] = TRUE]
    /\ UNCHANGED <<evVars, jobAttempts, pc, evBatch, deadline, aborts>>

\* The handler raises and the reload finds the job deleted: nothing to record.
FailedJobGone(w) ==
    /\ cur[w] # NoJob
    /\ jobStatus[cur[w]] = "deleted"
    /\ LeaveJob(w)
    /\ expired' = [expired EXCEPT ![w] = TRUE]
    /\ UNCHANGED <<evVars, jobVars, pc, evBatch, deadline, aborts>>

\* The batch is done and the cycle returns its counts.
EndCycle(w) ==
    /\ pc[w] = "jobs" /\ jobBatch[w] = {}
    /\ pc' = [pc EXCEPT ![w] = "idle"]
    /\ deadline' = [deadline EXCEPT ![w] = 0]
    /\ expired' = [expired EXCEPT ![w] = FALSE]
    /\ UNCHANGED <<evVars, jobVars, evBatch, jobBatch, cur, attempt, aborts>>

-----------------------------------------------------------------------------
(* Cycles cut short: what was claimed stays "processing" or "running" *)

Abort(w) ==
    /\ pc' = [pc EXCEPT ![w] = "idle"]
    /\ evBatch' = [evBatch EXCEPT ![w] = {}]
    /\ jobBatch' = [jobBatch EXCEPT ![w] = {}]
    /\ cur' = [cur EXCEPT ![w] = NoJob]
    /\ attempt' = [attempt EXCEPT ![w] = 0]
    /\ expired' = [expired EXCEPT ![w] = FALSE]
    /\ deadline' = [deadline EXCEPT ![w] = 0]
    /\ aborts' = IF aborts < MaxAborts THEN aborts + 1 ELSE aborts
    /\ UNCHANGED <<evVars, jobVars>>

\* wait_for cancels the cycle; CancelledError is no Exception, so the handler of
\* the job loop does not see it.
WatchdogFires(w) ==
    /\ pc[w] # "idle" /\ deadline[w] = 0
    /\ Abort(w)

\* The container is killed or redeployed.
Crash(w) ==
    /\ Kills /\ pc[w] # "idle"
    /\ Abort(w)

\* The UPDATE of a deleted row matches nothing, and for a "final" event and for
\* a finished job it is flushed by the commit, outside the try.
StaleRowCommit(w) ==
    /\ \/ \E e \in evBatch[w] : /\ Holds(w, e) /\ EventKind[e] = "final"
                                /\ evStatus[e] = "deleted" /\ ~expired[w]
       \/ cur[w] # NoJob /\ jobStatus[cur[w]] = "deleted"
    /\ Abort(w)

Decrement(n) == IF n > 0 THEN n - 1 ELSE 0

Overrun_NoWatchdog == \A w \in Worker : TRUE

\* Time never passes a watchdog that is due.
WatchdogsPending == \A w \in Worker : pc[w] # "idle" => deadline[w] > 0

Tick ==
    /\ WatchdogsPending
    /\ evWait' = [e \in Event |-> Decrement(evWait[e])]
    /\ jobWait' = [j \in Job |-> Decrement(jobWait[j])]
    /\ jobLease' = [j \in Job |-> Decrement(jobLease[j])]
    /\ deadline' = [w \in Worker |-> Decrement(deadline[w])]
    /\ UNCHANGED <<evStatus, evAttempts, jobStatus, jobAttempts, pc, evBatch,
                   jobBatch, cur, attempt, expired, aborts>>

-----------------------------------------------------------------------------
Produce ==
    \/ \E e \in Event : EnqueueEvent(e)
    \/ \E j \in Job : EnqueueAgentJob(j)
    \/ MergeDuplicates

Cycle(w) ==
    \/ ClaimPendingJobs(w)
    \/ \E e \in Event : DispatchOneEvent(w, e) \/ MarkEventFailed(w, e) \/ EventGone(w, e)
    \/ \E j \in Job : StartJob(w, j) \/ JobGone(w, j)
    \/ CompleteJob(w) \/ MarkJobFailed(w) \/ FailedJobGone(w)
    \/ EndCycle(w)
    \/ WatchdogFires(w)
    \/ StaleRowCommit(w)

Next ==
    \/ Produce
    \/ \E w \in Worker : RunAgentJobs(w) \/ Cycle(w) \/ Crash(w)
    \/ Tick

Spec == Init /\ [][Next]_vars

\* The cron keeps starting cycles, a started cycle keeps taking steps (every LLM
\* call has a timeout), and time passes.  Nothing makes a cycle finish before its
\* watchdog, and crashes and merges owe nothing.
Fairness ==
    /\ \A w \in Worker : WF_vars(RunAgentJobs(w)) /\ WF_vars(Cycle(w))
    /\ WF_vars(Tick)

FairSpec == Spec /\ Fairness
-----------------------------------------------------------------------------
(* What the queue promises *)

\* No event and no job is in the hands of two live cycles: the claim, the lease
\* and the watchdog shorter than the lease together exclude it.  There is no
\* fencing (lease_owner is never compared), so nothing else would.
LeaseExclusive ==
    \A w, v \in Worker :
        w # v => evBatch[w] \cap evBatch[v] = {} /\ jobBatch[w] \cap jobBatch[v] = {}

\* Why: a batch belongs to a cycle in the matching phase, and what it holds stays
\* leased for longer than the cycle's watchdog has left.  Only a deletion can take
\* a row from under its holder.
BatchesInPhase ==
    \A w \in Worker :
        /\ pc[w] # "events" => evBatch[w] = {}
        /\ pc[w] # "jobs" => jobBatch[w] = {}
        /\ cur[w] # NoJob => cur[w] \in jobBatch[w] /\ attempt[w] = jobAttempts[cur[w]]

LeasesOutliveCycles ==
    \A w \in Worker :
        /\ \A e \in evBatch[w] : evStatus[e] # "deleted" =>
             evStatus[e] = "processing" /\ evWait[e] >= deadline[w] + (StaleLease - CycleTimeout)
        /\ \A j \in jobBatch[w] : jobStatus[j] # "deleted" =>
             jobStatus[j] = "running" /\ jobLease[j] >= deadline[w] + (StaleLease - CycleTimeout)

LeaseInv == BatchesInPhase /\ LeasesOutliveCycles /\ LeaseExclusive

\* The outbox and the queue agree: an event that becomes a job is "dispatched"
\* exactly when its job row was inserted, and is never "ignored".
OutboxAgreement ==
    \A e \in Event : EventKind[e] = "job" =>
        /\ evStatus[e] # "ignored"
        /\ evStatus[e] = "dispatched" => jobStatus[e] # "none"
        /\ jobStatus[e] # "none" => evStatus[e] \in {"dispatched", "deleted"}

\* A row is given up only when its budget is spent, and is never offered again
\* once it is.  For events the budget is exact: stranded claims do not spend it.
RetryBudget ==
    /\ \A e \in Event :
        /\ evStatus[e] \in {"pending", "processing"} => evAttempts[e] < MaxEventAttempts
        /\ evStatus[e] = "failed" => evAttempts[e] = MaxEventAttempts
    /\ \A j \in Job :
        /\ jobStatus[j] = "retry" => jobAttempts[j] < MaxJobAttempts
        /\ jobStatus[j] = "failed" => jobAttempts[j] >= MaxJobAttempts

\* A job is claimed more often than its budget only for cycles that were cut
\* short: the claim itself never looks at the attempt count.  (Said while every
\* cut is counted.)
AttemptsBounded ==
    aborts < MaxAborts => \A j \in Job : jobAttempts[j] <= MaxJobAttempts + aborts

\* Its inductive form: a running job that no cycle holds has lost one of them.
ClaimsPaidFor ==
    /\ AttemptsBounded
    /\ \A j \in Job :
        /\ jobStatus[j] \in {"none", "pending"} => jobAttempts[j] = 0
        /\ aborts < MaxAborts /\ jobStatus[j] = "running"
              /\ (\A w \in Worker : j \notin jobBatch[w])
             => jobAttempts[j] < MaxJobAttempts + aborts

\* A verdict on a job falls only on a running job, so a late cycle never
\* overwrites what another one decided; a finished row can only be deleted.
VerdictsFinal ==
    [][/\ \A j \in Job : jobStatus'[j] # jobStatus[j] =>
            /\ jobStatus'[j] \in {"completed", "retry", "failed"} => jobStatus[j] = "running"
            /\ jobStatus[j] \in JobTerminal => jobStatus'[j] = "deleted"
       /\ \A e \in Event : evStatus[e] \in EvTerminal /\ evStatus'[e] # evStatus[e]
            => evStatus'[e] = "deleted"]_vars

\* A cycle is cut short while it dispatches, or with the job in its batch.
CutDispatch == \E w \in Worker : pc[w] = "events" /\ pc'[w] = "idle"

CutJob(j) == \E w \in Worker : j \in jobBatch[w] /\ pc'[w] = "idle"

\* Every event that is enqueued is settled, unless cycles are cut short while they
\* dispatch without end: a dead cycle's claims do not stay "processing" forever.
EventsSettle ==
    []<><<CutDispatch>>_vars \/
        \A e \in Event : evStatus[e] = "pending" ~> evStatus[e] \in EvTerminal

\* Every job is finished, given up or deleted, unless the cycles that hold it are cut
\* short without end, as the watchdog does to a scan that is always longer than it, and
\* to the jobs claimed with it: those, and no others, may be claimed forever and never
\* given up.
JobsSettle ==
    []<><<CutDispatch>>_vars \/
        \A j \in Job : \/ []<><<CutJob(j)>>_vars
                       \/ jobStatus[j] = "pending" ~> jobStatus[j] \in JobTerminal

\* tests/test_agent_job_cycle.py: a job whose write fails for any reason does not
\* take the cycle with it; the remaining jobs of the cycle still run.  So where no
\* container is killed, a cycle that ends before its watchdog leaves no other job.
CycleFinishesBatch ==
    [][\A w \in Worker : deadline[w] > 0 /\ pc'[w] = "idle" =>
         jobBatch[w] \subseteq {cur[w]}]_vars
=============================================================================
