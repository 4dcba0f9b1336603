# Verification of stratum_sourcing

TLA+ models of the stratum_sourcing repository, model-checked with TLC and, for
the properties that matter most, proved with TLAPS. Paths below are relative to
the repository's `src/`; `app/` stands for `src/sourcing/app/`.

## 1. The system

| Part | State it keeps | Operations |
|---|---|---|
| Job queue (`app/services/job_queue.py`, `run_agent_job_cycle` in `agent_pipeline.py`) | tables `event_outbox`, `agent_jobs` | enqueue event / job, claim with a lease, dispatch an event into a job, run a job, retry or dead-letter |
| Scan pipeline (`app/pipeline/`) | `sources`, `scan_runs`, `snapshots`, `findings`; the process-wide embedding cache | start a run, fetch a source, diff, filter, analyze, dedup, store, announce `snapshot_ready` |
| Entity graph (`app/services/agent_pipeline.py`) | `entities`, `entity_mentions`, research snapshots, scores | job handlers: extract, research, score, expand, onboard |
| Signal scans (`signal_engine.py`) | `signals`, `signal_scans`, `signal_results`, `watch_targets` | enqueue behind cooldown and cap, batch the LLM, score |
| Source onboarding and growth (`source_pipeline.py`) | `sources` | classify, create a source from an entity |
| Notion control plane (`notion_control.py`), digest (`slack_bot.py`) | `integration_states`, `notifications`, pages in Notion | reconcile, push pages, post the digest |
| HTTP and console API (`app/api/`) | none of its own | create sources, receive webhooks, trigger tasks, reset findings, read |
| Gateway supervisor (`lexie-new/server.js`) | child process, `gatewayReady`, generation, timers | start, probe, restart, refresh credentials, shut down, proxy |
| Chat client (`lexie-new-frontend`) | session outbox in localStorage, runs, history | queue, send, confirm, recover, merge a stream with the history |
| Console UI (`sourcing-console`) | none | read-only views |

How they interact. A scan commits findings together with a `snapshot_ready` event.
The next agent-job cycle dispatches the event into an `entity_extractor` job, whose
handler enqueues `entity_candidate` events, which become research jobs, then scoring
jobs, then watchlist updates, source expansions and signal scans. All of it goes
through PostgreSQL: there is no in-memory queue, and nothing coordinates the
processes but rows, unique keys, foreign keys and row locks. Railway crons start
each task in a process of its own; `POST /tasks/...` starts the same tasks inside
the web process, which lives on after them.

What is hard here: cycles and runs that overlap with themselves; transactions that
stay open across LLM calls; claims committed before the work; `asyncio.wait_for`
cancelling a cycle or a run at any await; check-then-act against unique keys and
limits; a process-wide cache shared by runs; SQLAlchemy's session copies
(`expire_on_commit=False`, autoflush, UPDATEs of changed attributes only).

What makes each part correct: the queue loses nothing, gives a row to one worker
at a time and gives up only when the budget is spent; the scan pipeline hands every
new block on and stores no story its dedup keys exclude; the entity graph has one
row per entity and counters that match its mentions; signal scans respect cooldown
and cap and score as documented; the control plane creates no page twice; the
supervisor runs one launcher, replaces it when it exits, opens the proxy on its word only
and takes it along when it ends; the outbox confirms
what was delivered and nothing else. PROJECT.json lists the hazards line by line.

## 2. The modules

| Module | What it is |
|---|---|
| `AgentQueue` | the outbox and the job queue, the worker cycle, its watchdog, the merge script |
| `WorkQueue` | abstract specification: what a work queue promises its producers |
| `AgentQueueRefinement` | the mapping from `AgentQueue` to `WorkQueue` |
| `MCAgentQueue` | instances for TLC |
| `AgentQueueProofs` | theorems about `AgentQueue` and the refinement |
| `SourceScan` | runs and scans, diff, dedup, caches |
| `MCSourceScan` | instances for TLC |
| `SourceScanProofs` | theorems about `SourceScan` |
| `EntityGraph` | the extractor, research and scorer handlers on the entity tables |
| `EntityLedger` | abstract specification: what the entity tables promise their readers |
| `EntityGraphRefinement` | the mapping from `EntityGraph` to `EntityLedger` |
| `MCEntityGraph` | an instance for TLC |
| `EntityGraphProofs` | theorems about `EntityGraph` and the refinement |
| `SignalScoring` | tiers, batches, fit, coverage and bands as operators; no state |
| `SignalScan` | triage, signal scans, the console's request, the import and its rollback; EXTENDS `SignalScoring` |
| `MCSignalScan` | an instance for TLC |
| `SignalScoringProofs` | theorems about the scoring operators, induction over finite sets included |
| `SignalScanProofs` | theorems about `SignalScan` |
| `NotionSync` | the control plane, onboarding and self-growth, the digest |
| `MCNotionSync` | an instance for TLC |
| `NotionSyncProofs` | theorems about `NotionSync` |
| `GatewaySupervisor` | the wrapper's launches, probes, restarts and shutdown; checked by its own cfg |
| `GatewaySupervisorProofs` | theorems about `GatewaySupervisor` |

### AgentQueue

One step is one committed transaction, or one point at which a cycle waits.
`evStatus`, `evAttempts`, `evWait` are the columns `status`, `attempts`,
`available_at` of `event_outbox`; `jobStatus`, `jobAttempts`, `jobWait`, `jobLease`
those of `agent_jobs`. A row that was not inserted yet has status "none", a deleted
one "deleted". Since the external_ref of a dispatched job is `event:<id>` and
unique, the job is named by its event. Timestamps are countdowns: `Tick` lowers
all of them, so runs need no bound on time. `RunAgentJobs` is the committed claim
of `dispatch_outbox_events`; `DispatchOneEvent`, `MarkEventFailed` and `EventGone`
are the iterations of its loop; `ClaimPendingJobs` is the second committed claim;
`StartJob` enters a handler and remembers the `attempt` read before it;
`CompleteJob`, `MarkJobFailed`, `FailedJobGone` and `JobGone` are the ways out.
`WatchdogFires` is the 900 s `wait_for`, `Crash` a killed container, and
`StaleRowCommit` the commit that fails outside every try; a cycle may be cut short like
this any number of times. `expired` says whether the session was rolled back since the
claim, which decides whether a deleted row is noticed.

Attempts are counted at every claim and looked at only when a handler fails, so a job
that is always cut is claimed forever with a count that grows. `aborts` and, through
`Counted`, `jobAttempts` stop counting at a bound (`MaxAborts`) beyond which no verdict
and no backoff tells one count from the next (`CountAssumption`); the cuts and the claims
themselves go on.

Abstracted: what handlers do apart from enqueueing events; `lease_owner`, which
no code compares; `created_at`, which orders events of one claim (any batch may
come first). A handler that awaits may be overtaken by anything but its own
watchdog: `Tick` stops at a deadline until the watchdog, which may always fire there, fires
or the cycle ends, because `wait_for` cancels a cycle at its next await. `MergeDuplicates` deletes a
fixed set of rows, `Doomed`; the foreign key from `agent_jobs.event_id` is its guard.

### SourceScan

`Scan` is a pair of a run and a source. `row` keeps what decides about scanning:
`onboarding_status` (active, error, paused), whether `next_ingest_at` has passed
(`due`), and the cooldown. `latest` is the committed good snapshot with the newest
`fetched_at`, which is all `compute_diff` ever reads; `later` and `superseded` keep
just enough of the fetch order to know which commit becomes the newest. `findings`
are pairs of source and story; `today` are those whose dedup hash is of the current
date. `cache` is `_recent_findings_cache`. A scan goes idle, fetch, loaded (snapshot
inserted), diffed (row flushed and locked), analyzed, stored, done; `failed` is the
error path. Uncommitted work lives in the scan's variables and is published at once
by `Publish`, or dropped by `Forget`.

`RowFree` is the row lock: the first query after `source_row` was changed flushes
the UPDATE, and PostgreSQL keeps the row locked until the scan's commit. `copy` is
the row as the session loaded it: SQLAlchemy writes only attributes that differ
from it, so a scan that loaded "active" does not write "active" again.
`handed` is a history variable: the blocks committed scans got from `compute_diff`.
`shows` is a bound, chosen in `Init`: the pages each source may have. A source with none is
paused.

Abstracted: a page is a nonempty set of blocks and a block tells one story;
relevance is fixed per block; the embedding filter may miss a known story
(`Analyze` chooses), the analyzer finds any subset of the stories (a failed call
finds none); the seven-day window, the 200-row limit and dismissed findings of dedup;
sources without a URL. A block that splits differently when its neighbours change,
and an unsplittable page, are not modelled.

### EntityGraph

A handler is one READ COMMITTED transaction that commits with its job's completion, so a
job is `status` and `tries` here; leases are in `AgentQueue`. `Extract`, `LookUp` and
`Touch` are the loop of `process_entity_extractor_job`: choose what was extracted (the LLM,
or the heuristic of `HeuristicEntities`), SELECT the entity, then flush its insert or
update. `draft` and `tally` are the flushed `finding_count` and `source_count` of rows
the transaction has locked; `read` is what the SELECT found, which may be old when
the row's lock is got. `Touch` waits for `Free`; `TouchConflicts` is the unique key,
`DeadlockAborts` PostgreSQL's choice of a victim when workers wait for each other.
`CommitExtraction` publishes rows, mentions and one research event per mention.
`StartResearch`/`SkipResearch`/`CommitResearch` check the cooldown before the LLM and
take effect after it; `CommitScore` is `process_entity_scorer_job` with its event for
the expander. `HandlerRaises` and `CycleDies` lose the transaction and a try.

`EntityLedger` has no jobs, locks or retries: `Extract` is a batch extracted once, in one
step that sets the source counts; `Research` wants a mention and room within the cooldown
(`Limit`, the number of workers); `Age` is time; `Score` wants a research.
`EntityGraphRefinement` takes for extracted the batches whose job has completed, and for
researched the entities that have a scorer job.

Abstracted: texts, tags, the score's numbers; dispatch is immediate (the queue's order
is any order); the expander is in `NotionSync`. `Type` has companies and people only, which
is what the prompt asks for. The column has fourteen types (`models.py:67-82`) and the LLM's
answer is not checked (`agent_pipeline.py:301`): an entity of another type, whose scorer may
raise at its watch target until its job is given up, is not modelled.

### SignalScoring and SignalScan

`SignalScoring` translates `signal_scoring` arithmetic of `signal_engine.py` and of
`score_math.py` with percentages in 1/10000 (`Unit`), rounding included (`RoundDiv`).
`Fit` is the engine's, `ImportFit` the import's.

In `SignalScan` a job is its `external_ref`, company and month, or a forced request. The
triage and a scan both read `watch_targets` (`read`), mean to leave it somehow (`wants`),
flush what differs (`Changes`), which takes the row's lock, and commit; an UPDATE names
only the columns that differ. `ScoreCompany`/`FlushScore`/`CommitScore` are
`process_entity_scorer_job` with `enqueue_signal_scan` and its gates; `StartScan`,
`AllBatchesFail`, `ResultTooLong`, `StoreResults`, `CommitScan` are
`process_signal_scan_job`. `ImportToDb` and `RollbackImport` are the scripts, one
transaction each; `copy` is the metadata a scan writes back whole. The rollback selects by
the import's tag: it deletes the import's scans and the rows without findings that bear the
tag, and takes the tag off the others, whose `eligible` stays as the import wrote it.
`RollbackRemovesTagged` is about what is selected, not about what stays.

Abstracted: prompts and rationales; a batch's failure is a choice; `fresh` keeps whether
a transaction began today, since `now()` is the transaction's.

### NotionSync

One run is a worker with its transactions; calls to Notion are steps of their own that no
rollback undoes. `row` is `sources` (status, active flag, last ingest, text), `notion`, `home`
and `bin` are Notion's pages, databases and trash. Every task starts with
`ensure_control_plane` (`ReadState`, `CreateDatabase`, `UpsertState`), whose upsert of
`integration_states` keeps that row locked until the commit: an accidental mutex
between syncs, exports and reconciliations, on which `OnePagePerRow` and
`CollisionsAreForeign` rest. The pull of statuses is outside it. A full sync
(`RunFullNotionSync`) is `LoadRows`, `UpdatePage`/`CreatePage` per row, `CommitRows`,
then in a transaction of its own `ReadAgain`, `LoadFindings`, pages, `CommitFindings`, `RetrieveStatus` per finding,
`PullStatusUpdates`. A scan with findings exports them itself, without the pull
(`SyncAfterScan`, `CommitAfterScan`). `ReconcileSourceRegistry` is the webhook's and the
control-plane task's; it overwrites rows with what `QueryPages` saw. `ExpandSource` and
`StartOnboarding`/`OnboardSource` are the jobs of `source_pipeline.py`;
`SendMorningDigest`/`PostMessage`/`RecordDigest` the digest. `lost`, `typed`, `diverged`
and `dropped` are histories for the properties.

`Properties` and `NotionSource` are the two conversions, of a row into a page's properties
and back. `build_source_registry_properties` writes thirteen properties. Status, backfill
status and last ingest are modelled one by one. `text` stands for the two free texts, the
notes and the joined secondary URLs, which do not survive the way there and back:
`Shortened` is the cut at 2000 characters, `Stripped` what reading them strips (the notes at
their ends, the URLs line by line, empty lines dropped), `Fitted` both. A long text comes
back "cut", and a reconcile writes it over the row. Not modelled: cadence, strategy and
discovery mode, single choices that come back as they went; the parent source, which is
written and never read; the URL, stripped; the next ingest, written and read like the last
(whether Notion keeps a date's precision is Notion's).

Abstracted: renames and category changes, database ids given in the environment, a missing
parent page (where no lock is taken), pagination, HTTP timeouts (a cut), the webhook's
token and signature; watch targets are there from the start; a digest has one date; a reset that mentions' foreign keys
make fail. A page's `Status` in the model is only what the code reads back.

### GatewaySupervisor

`shuttingDown`, `gatewayProcess`, `gatewayReady`, `restartTimer` and
`gatewayLaunchGeneration` are the variables of `server.js`; `gatewayProcess` is the
generation whose child the wrapper holds. An action is one callback of the event loop, what
runs between two awaits: `Begin` and `Spawn` are `startGateway` before and after its
pre-start stop, `Misses`, `Connects` and `TimesOut` the probe after it, `WatchConnects` and
`WatchTimesOut` the extended monitoring, `ExitEvent` the exit handler, `TimerFires` and
the three `Recheck` actions the restart timer's callback, `Shutdown`, `ServerClosed` and
`Exit` the three parts of `shutdown`. `launch` and `recheck` say where these asynchronous
functions are. `launcher` and `listening` belong to openclaw: a gateway may outlive its
launcher, come back, or vanish, and `openclaw gateway stop` may fail.

Abstracted: time (a probe that has missed once may time out), a spawn that fails (Node ends
the wrapper), what is proxied. The credential refresher's `pkill` is one of the reasons for
which `LauncherExits`. `process.exit` is followed by `Ended`, so deadlock is checked.

## 3. What is checked

| Run | Bounds | Shows |
|---|---|---|
| `agent_queue_safety` | 2 cycles, 2 events, 1 direct job, leases of 2 ticks, watchdog 1, 2 attempts, any number of cycles cut short, 2 of them counted; cycles symmetric; 0.46 M states | `TypeOK`, `LeaseExclusive`, `OutboxAgreement`, `RetryBudget`, `AttemptsBounded`, `VerdictsFinal`, and the refinement `ImplementsWorkQueue` |
| `agent_queue_live` | the same without merges, no cut counted; an event of unknown type; 0.17 M states | `EventsSettle`, `JobsSettle` |
| `agent_queue_merge` | no container killed, merges of one event and one job | violates `CycleFinishesBatch` (finding 1) |
| `scan_overlap` | 2 overlapping runs, 1 source, 2 blocks (one short), 1 fault, resets; runs symmetric; 1.2 M states | `NewsHandedOn`, `NoKeyConflict` |
| `scan_news` | 1 run, 2 faults, no reset, two scopes: 2 sources telling one story of 1 block, or 1 source with 2 blocks (one irrelevant); 0.19 M states | `TypeOK`, `DropsAreKnown`, `NewsReachesPipeline` |
| `scan_diff` | 1 run, 2 blocks, no fault | violates `DiffOnlyNew` (finding 2) |
| `scan_cache` | 1 run, 1 timeout | violates `CacheRebuiltPerRun` (finding 3) |
| `entity_graph` | 2 workers, 1 name of 2 types, 3 findings of 2 sources in 2 batches, 2 tries, 1 fault; 0.44 M states | `TypeOK`, `SourceCountExact`, `MentionedIsCounted`, `SkippedIsScored`, `MentionedIsScored`, and the refinement `ImplementsLedger` |
| `signal_scan` | 2 workers (symmetric), 3 companies, 4 signals of 2 categories, daily limit 1, 2 months, 1 fault, five scopes; 0.69 M states | `TypeOK`, `AutoCapped`, `AutoCooldown`, `FailedScansLeaveNoTrace`, `TargetIsLastWriters`, `RollbackRemovesTagged`, `ScoresAgree`, `UnknownIsNeutral` |
| `signal_column` | 1 worker | violates `AnsweredScanIsKept` (finding 4) |
| `notion_sync` | 2 workers, 3 sources, 1 watch target, 2 findings, at most 3 pages per row, 1 cut, nine scopes; 0.28 M states | `TypeOK`, `OnePagePerRow`, `CollisionsAreForeign`, `RoundTrip`, `DigestOnce`, `GrowthCapped`, `FindingsFollowNotion` |
| `gateway_supervisor` | 4 launches; 84,000 states | `TypeOK`, `OneKeeper`, `ReadyIsCurrent`, `CleanShutdown`, `Recovers` |

Why the bounds are enough. Two workers, cycles or runs make every conflict between
actors appear; a third adds no new kind of pair, and the safety theorems below hold
for any number. Two attempts distinguish the first failure from the last; a
cycle cut short lets a lease lapse and be reclaimed, which is the only way to a
second holder. `AttemptsBounded` compares two counts, so it speaks of states in which both
are still counted (`aborts < MaxAborts`); two counted cuts leave room for a claim that one
of them paid for. The lease must be longer than the watchdog (`TimeAssumption`, 45 min
against 15). Two blocks are needed for a
diff that is neither nothing nor everything; two sources telling one story for
cross-source dedup; two types of one name for the heuristic's mistakes, three findings so
that two batches meet in one entity in either order; two signals of a category, one of
them a veto, so that quotas and tiers differ; a limit of 1 so that two workers overrun it.
Three launches would already show a stale probe of the first beside a restart of the second;
the fourth lets the two happen twice. `MaxAborts` caps a count and no behaviour; `MaxFaults`, `MaxCuts`, `MaxPages`,
`MaxScans`, `MaxLaunch` (the last launch exits only in a shutdown) and the number of months
are the only events capped. Symmetry is used only where no liveness property is checked.
Deadlock is checked in every run.

Scopes. `SignalScan` and `NotionSync` have many kinds of events, few of which interact.
A scope is a set of events and rows that may occur together in one behaviour, chosen in
`Init` and kept; the cfg lists the combinations that meet in the code. `SourceScan`'s
`Shows` does the same for sources and their pages. The theorems hold for any scopes, the
one with everything in it included.

Fairness. `AgentQueue`: the cron keeps starting cycles, a started cycle keeps
moving (LLM calls have timeouts), time passes. Nothing is assumed of crashes, watchdogs, merges,
producers, or of which outcome a step has. A handler that fails spends its job's budget and
cannot do so forever; a cycle that is cut short spends nothing that anybody looks at, and
can be cut forever. So both liveness properties have an alternative: `EventsSettle` that
cycles are cut in their dispatch again and again without end, `JobsSettle` that, or that
cycles which hold the very job are (`CutJob`). Nothing else may keep a job from its verdict:
a lease that lapses, a cut that does not repeat, another job's fate. `SourceScan`: the nightly run is started again whenever none is
alive, runs end, scans continue, `next_ingest_at` and cooldowns pass. A scan's steps
are fair as a whole: which of success or failure happens is not assumed. `EntityGraph`:
weak fairness of starting and continuing jobs, for the same reasons. `NotionSync`: weak
fairness of a run's own steps, strong fairness of starting a full sync on a worker that is
free again and again. The latter is an assumption on operations: the repository starts
`run_notion_sync` by `POST /tasks/notion-sync` and provisions no cron for it.
`SignalScan` has safety properties only. `GatewaySupervisor`: timers fire, probes and stop
commands end (each has a timeout in the code), exits are reported, and the gateway of a
launcher that keeps running comes up some time, which may be after the monitoring gave up.

### Findings

1. **A deleted row takes the cycle down** (`agent_queue_merge`). A job (or a
   `watchlist_update_ready` event) that a script deletes while the cycle holds it is
   not noticed: the session answers `db.get` from its copy, and the UPDATE is flushed by
   the commit at `agent_pipeline.py:771`, outside the try. The test and the comment
   that say the remaining jobs still run cover failures inside the try only.
2. **An unchanged scan makes the next diff a full one** (`scan_diff`). The fast path of
   `compute_diff` stores no block hashes, so after pages A, A, A' all of A' is handed
   to the analyzer, the case the code attributes to old snapshots.
3. **A timed-out run leaves the embedding cache behind** (`scan_cache`), although the
   comment says it is rebuilt per scan run.
4. **A signal that is not applicable cannot be stored** (`signal_column`).
   `signal_results.result` is a `String(12)` and `not_applicable` has 14 characters:
   PostgreSQL refuses the row, the job rolls back all its answers, and the next try asks
   again.

### Observations made while modelling

Not findings with a run of their own; each is in the model or named as abstracted.

- `models.py:530-543` says that an unknown signal earns half credit and names bands
  that `signal_engine.py` does not use; `_compute_recency` in `scorer.py` says an undated
  item is taken for recent and returns 0.3.
- A job that outlasts the 900 s watchdog every time is claimed forever and never given up:
  the cancellation passes by every `except Exception`, and the claim does not look at the
  attempts. TLC shows the loop as soon as `JobsSettle` is stated without its `CutJob`
  alternative. A full scan, eight batches of up to 480 s one after another, can be that
  long. The repository knows: `sourcing/docs/contracts/job-lifecycle.md:36` ("a practical
  absorbing loop"), `error-paths.md` B-01, `FIX-PLAN.md:140` (N2), `DECISIONS-PENDING.md:85`.
- `rollback_import.py:1-5` says "Undo everything import_to_db.py wrote, exactly" and
  "Nothing pre-existing is affected", `sourcing/docs/HANDOFF.md:162` "reverses it exactly".
  It does not, in the code and in the model: eligibility written on rows the crawler had
  made stays, and a scan that overlaps brings back or takes away the metadata key (`stale`).
  `RollbackRemovesTagged` claims less on purpose. A second import of the same pool refreshes
  the cooldown.
- A source whose notes or joined secondary URLs are longer than 2000 characters loses the
  rest when a sync is followed by a reconcile, though nobody has touched its page
  (`Fitted`; `notion_control.py:45` and 458): `RoundTrip` has to allow it.
- The reuse of a scan row across retries and `scan.status = "failed"` are dead code: both
  are rolled back with the raise (`FailedScansLeaveNoTrace`).
- A reconcile takes back what the onboarder and scans wrote after the sync
  (`RoundTrip` says when it does not); since the onboarding job's key is permanent, a
  source set back to "queued" is not onboarded again.
- A page left by a cut sync, or typed by a person for an existing source, makes every
  later reconcile raise until it is trashed; a trashed registry or watch page makes every
  sync raise before the findings' export (`Blocked`). Two digest records of a date make
  the lookup raise.

- The wrapper's supervision ends for good when the restart timer's probe is answered
  (`HandedOver`): a gateway that was only slower to die than its launcher is then not
  replaced, nor is one that the credential refresher kills later, although
  `lexie-new/README.md:122` says that the wrapper respawns what is killed. After a
  hand-over a slow start-up probe of the same launch may still clear `gatewayReady`, and the
  monitoring, which wants a child, never sets it again.
- A start that awaits its pre-start stop spawns during a shutdown (`server.js:640`), and if the
  shutdown has already looked for a child, the launcher is left behind (`CleanShutdown` says
  when not). A recheck or start-up probe that ends during the shutdown may set
  `gatewayReady` again.

## 4. What is proved

For every value of the constants allowed by the modules' assumptions.

`AgentQueueProofs`
- `TypeCorrect`.
- `LeasesExclude`. `LeaseExclusive` alone is not inductive: nothing in it says that
  a held row cannot be claimed. `LeaseInv` adds `BatchesInPhase` and
  `LeasesOutliveCycles`: what a cycle holds is processing or running with a lease at
  least `StaleLease - CycleTimeout` longer than its watchdog has left. So a claimable
  row is in nobody's batch (`ClaimableIsFree`), and `Tick` lowers both sides alike.
- `OutboxAgrees`: inductive given `LeaseInv`, which gives a dispatcher exclusive
  use of its event and so excludes a redelivery into an existing job.
- `BudgetKept`, `ClaimsBounded` (through `ClaimsPaidFor`: a running job that nobody
  holds has lost a holder to a cut), `VerdictsAreFinal`. `ClaimsBounded` is relative to
  the cycles cut short, while these are counted, for any `MaxAborts`; it is no absolute
  bound, and the code has none.
- `QueueImplemented`: initial states map to initial states, each action maps to one of
  `Submit`, `Claim`, `Verdict`, `Lose`, `Withdraw`, `Forget` or a stutter; the claim
  needs `LeaseInv` (a claimable row is waiting), the verdict needs the attempt read
  before the handler to be the current one.

`SourceScanProofs`
- `TypeCorrect`.
- `NothingHidden`, through `HandedInv`: a snapshot's hashes are among its blocks, and
  an open scan's body is covered by its diff and what was handed on before. The
  second part survives other scans because `handed` only grows, and a reset is
  impossible while a scan is open.
- `NoConflict`, through `KeyInv`: a source row has at most one holder.
- `DropsTold`, for systems that never reset (`ASSUME ~Resets`), through `CacheInv`:
  cached stories are in the findings table, which only grows then.

`EntityGraphProofs`
- `TypeCorrect`.
- `SourcesCounted` and `MentionsCounted`, through `HoldInv`: a flushed row has one
  holder, which has counted all mentions it can see, and nobody else can add one; and
  `CountInv`, which relates committed counts to committed mentions.
- `SkipsAreSafe`, through `CoolInv`: a running cooldown implies a scorer.
- `CooldownHolds`, through `FlightInv`: researches inside the cooldown plus those in flight
  are at most the workers.
- `LedgerImplemented`: each commit maps to `Extract`, `Research` or `Score`, `ResearchAges` to
  `Age`, and everything else, rollbacks and deaths included, to a stutter. `Extract` needs the
  exact counts after the step (`CountInv`), `Research` the room (`FlightInv`), and all three
  commits need two more inductive invariants. `HandInv`: a job that runs is in one worker's
  hands, and that worker's mentions are of its own batch; so a commit completes a job that
  was not completed. `OrderInv`: a research job exists for committed mentions only, and a
  scorer job for completed research only; so no retried or skipped job announces a profile
  twice. `HandInv` is inductive only together with `OrderInv`: without it, a research could
  put back to pending a scorer job that another worker runs.
- `GraphScoresAreEarned`: an invariant of the ledger, proved of its four actions and carried
  over to the graph by the refinement.

`SignalScoringProofs`
- The scoring sums and multiplies over finite sets with the folds of the community modules
  (`MapThenFoldSet`), which are defined by CHOOSE. The library's induction theorems are out of the prover's reach, but
  here what is to be shown can be given as a set: `SetInduction` says that a set of subsets
  of `S` that has the empty set and is closed under adding an element has all of `S`.
  `SolutionUnique` and `SolutionExists` give the fold its equation (`FoldEquation`) by that
  induction, `FoldRemove` takes one element out of a commutative fold, and `SumRemove`,
  `SumLinear`, `SumOrder`, `SumJoin` are the arithmetic the scores need.
- `FitIsFraction`, `CoverageIsFraction`: weighted means of fractions are fractions, each
  rounding included (`RoundMonotone`, `RoundWhole`).
- `UnknownNeutral`: an answer that replaces "unknown" moves one category's fit in the
  right direction (`Resolving`); if it is the category's first, the category joins or was
  never in the mean (`FitJoins`), and it joins at an end of the scale. That the weights are
  positive is needed and assumed, as `CATEGORY_WEIGHTS` has it.
- `ImportAgrees`: the two definitions have the same categories, whose fits differ by rounding
  only (`RoundNear`), and a mean of differences of at most one unit is at most one unit.
- `BatchesFit`, `QuotaKept`: ranks are distinct, so that a set of ranks below a bound is not
  larger than the bound.

`SignalScanProofs`
- `TypeCorrect`.
- `NoTrace`, through `ScanInv` and `AskInv`: who may have a row in `signal_scans`.
- `CapOverrunByWorkers`, through `CapInv`: today's automatic jobs plus the workers that
  hold an unpublished one in a fresh transaction are at most `AutoLimit - 1 + |Worker|`.
- `CooldownKept`, through `CoolInv`: a worker that has passed the gate and has changed the
  watch target holds its row, and a scan cannot complete past it. A scan that leaves the
  target as it was takes no lock; hence `quiet` in the property, which the failed
  proof of a simpler statement led to.
- `LastWriter`, through `OverInv`: what a worker read is still the target, unless it was
  overtaken.
- `RollbackRemoves`, through `UndoInv` and `ImportedInv`.
- `ScoresAlwaysAgree` and `UnknownAlwaysNeutral`, from `ImportAgrees` and `UnknownNeutral`: TLC
  evaluates the two for every set of answers about one library of four signals, the theorems
  hold for every library, all weights and all answers.

`NotionSyncProofs`
- `TypeCorrect`, with `StageInv`, `PageInv` and `RowInv`: what a worker has in hand goes
  with its task and place, and a recorded or held page exists and is its row's.
- `OnePageEach` and `CollisionsForeign`, through `Mutex` (the lock of the integration
  row) and `OwnInv` (every page is recorded, held by the lock's owner, lost or typed; a
  held page's row has no other).
- `RoundTrips`, through `AgreeInv`: pages and copies of sources outside `diverged` agree
  with the row, and an open query is up to date. To agree (`Agrees`) is not to be equal:
  what the page gives back is the row, or the row with its text `Fitted`. A page written
  from a row agrees with it (`ThereAndBack`), a row taken from a page too (`ReadBack`).
- `DigestsCapped`, through `DigestInv`; `GrowthIsCapped`, through `GrowthInv`: what is
  grown plus the jobs that have passed the check.

`GatewaySupervisorProofs`
- `TypeCorrect`, with `BoundInv`: the bound on launches never keeps an exit from being
  answered by a restart.
- `KeptByOne`, through `HandleInv` (a child exists exactly if the handle names it, and it
  is the current generation's), `ChainInv` (a start in its pre-start stop, a child, a timer
  and a recheck exclude each other) and `KeptInv` (one of them is there).
- `OpenedByCurrent`: inductive with these.
- `ShutsDownClean`, through `Clean`, which once true stays true: shutting down with no start
  under way, and no child any more once the last stop has begun.

Only model-checked: the liveness properties (`EventsSettle`, `JobsSettle`,
`NewsReachesPipeline`, `MentionedIsScored`, `FindingsFollowNotion`, `Recovers`; fairness and
ENABLED are beyond the prover), and the violations. Every safety property, action property
and refinement that the passing runs check is proved.

## 5. How the models fit together

A committed scan's `snapshot_ready` (`SourceScan`) is an event of `AgentQueue`, whose
dispatch makes the extractor job that `EntityGraph` runs; its last event makes the jobs of
`SignalScan` and `NotionSync`'s `ExpandSource`. Each model takes from the others what it
needs as an assumption: a job is in one worker's hands at a time and is tried a bounded
number of times (proved of `AgentQueue`), a handler is a transaction. `sources` is written
by `SourceScan`'s scans and by `NotionSync`'s reconcile: each has the other's writes as
actions on the columns both use.

## 6. Not modelled

- **The rest of `lexie-new/server.js`**: the proxy's headers, sessions, authentication; and
  `refresh-codex-if-needed.js` but for its kill. The sourcing gateway shim
  (`sourcing/src/server.js`) is a smaller supervisor without generations or recheck.
- **Chat outbox and message stream** (`lexie-new-frontend`): confirmation by content,
  recovery of runs against reloaded history.
- **Findings scorer and stage tracker**: a pure formula, and logging.
- **Fetchers, LLM and ops clients**: I/O, whose outcomes are choices of the models.
- **Upgrades of existing data** by migrations, console reads, UI code, gateway
  authentication and bootstrap scripts: no state that the services above share.
- The composition of `SourceScan`, `AgentQueue` and `EntityGraph` into one behaviour, which
  is beyond TLC at bounds where anything happens.
