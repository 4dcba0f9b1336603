----------------------------- MODULE SignalScan -----------------------------
(***************************************************************************)
(* Scoring companies: the triage scorer (process_entity_scorer_job), the   *)
(* signal scan (enqueue_signal_scan, process_signal_scan_job), the         *)
(* console's scan request, and the scripts import_to_db.py and             *)
(* rollback_import.py, all of which write the same tables.                 *)
(*                                                                         *)
(* A job handler is one READ COMMITTED transaction, committed together     *)
(* with the job.  It reads the company's watch target, flushes a change of *)
(* it, which locks the row, and commits.  A scan opens its transaction     *)
(* before the LLM calls.  The scripts and the console are one step each: a *)
(* script's statements run without a pause, and it waits for row locks.    *)
(***************************************************************************)
EXTENDS SignalScoring

CONSTANTS
    Worker,            \* cycles that may be alive at the same time
    Company,           \* entities of type company, existing and to come
    Known,             \* the companies the crawler has found before
    Triage,            \* the triage scores the articles about a company can give
    Graded,            \* what the candidate pool says of the companies in it
    Answers,           \* what the LLM may say about all signals
    AutoLimit,         \* signal_scan_auto_daily_limit
    MaxTries,          \* claims of a job before it is given up
    Month, Forced,     \* bounds: months that pass; forced requests
    Scopes,            \* bound: what may happen together in one behaviour:
                       \* companies scored and requested, jobs that run, events
    Depths,            \* bound: the scan depths the console asks for
    Faulty,            \* bound: the tasks whose handler may raise or die
    MaxFaults          \* bound: handlers that raise, cycles that die

Pool == DOMAIN Graded

Ref == Month \cup Forced

\* A signal_scan job is its unique external_ref: company and month, or forced.
Job == Company \X Ref

NoJob == <<"none", 0>>

Eligible == {"unset", "yes", "no"}

ASSUME ScanAssumption ==
    /\ IsFiniteSet(Worker) /\ Worker # {} /\ IsFiniteSet(Company) /\ IsFiniteSet(Forced)
    /\ Known \subseteq Company /\ Pool \subseteq Company
    /\ Triage \in [Company -> SUBSET Nat]
    /\ \A c \in Pool : Graded[c].eligible \in {"yes", "no"}
    /\ Answers \subseteq [Signals -> Verdict]
    /\ AutoLimit \in Nat \ {0} /\ MaxTries \in Nat \ {0} /\ MaxFaults \in Nat
    /\ Month = 1 .. Cardinality(Month) /\ IsFiniteSet(Month) /\ Month # {}
    /\ Month \cap Forced = {} /\ Depths \subseteq {"standard", "full"}
    /\ NoJob \notin Job /\ Job \cap Company = {}

Fits(depth) == {Fit(v) : v \in [Scanned(depth) -> Verdict]}

\* The scores that a triage or a scan can give.
Score ==
    {-1, 0} \cup (UNION {Triage[c] : c \in Company}) \cup Fits("standard") \cup Fits("full")

\* A row of watch_targets: what it says, or that there is none.
Target == [score : Score, status : {"none", "active", "watch"}]

NoTarget == [score |-> -1, status |-> "none"]

VARIABLES
    made,              \* entities: who inserted the row, if anyone
    mentioned,         \* entities: finding_count > 0
    eligible,          \* entities: is_eligible
    tag,               \* entities: metadata has the import's key "stratum3"
    triaged,           \* entity_scores: the companies with a row
    target,            \* watch_targets
    scan,              \* signal_scans: the row of each job
    imports,           \* signal_scans: the companies with a row of the import
    recent,            \* the rows younger than the cooldown
    status, tries,     \* agent_jobs: status and attempts that ended badly
    auto, full,        \* the jobs the scorer enqueued; the jobs for a full scan
    today,             \* the jobs created today
    listed,            \* the sources the import adds: in no table, added or scanned
    month,             \* the current month
    cur, pc,           \* the company or job each worker is at, and where
    copy, read,        \* what it has read: metadata's key, or whether an
                       \* entity_scores row exists; the watch target
    fresh,             \* whether its transaction began today
    wants,             \* the watch target it means to leave
    asks,              \* the scan job it has inserted
    faults,            \* handlers that raised and cycles that died, so far
    scope,             \* bound: the scope of the behaviour
    overtaken,         \* history: workers whose read is older than another's commit
    undone, stale,     \* history: rolled back since the last import; lost metadata
    quiet              \* history: scans that found and left the target as they meant it

entityVars == <<made, mentioned, eligible, tag, triaged>>
jobVars == <<status, tries, auto, full, today>>
scanVars == <<scan, imports, recent>>
workVars == <<copy, read, fresh, wants, asks>>
historyVars == <<overtaken, undone, stale, quiet>>
vars == <<entityVars, target, scanVars, jobVars, listed, month, cur, pc, workVars, faults, scope,
          historyVars>>

NoTask == <<"none", 0>>

Scorer(c) == <<"score", c>>
Scanner(j) == <<"scan", j>>

Task == {Scorer(c) : c \in Company} \cup {Scanner(j) : j \in Job}

TypeOK ==
    /\ made \in [Company -> {"none", "crawler", "import"}]
    /\ mentioned \in [Company -> BOOLEAN]
    /\ eligible \in [Company -> Eligible]
    /\ tag \in [Company -> BOOLEAN]
    /\ triaged \subseteq Company
    /\ target \in [Company -> Target]
    /\ scan \in [Job -> {"none", "open", "completed"}]
    /\ imports \subseteq Company /\ recent \subseteq Job \cup Company
    /\ status \in [Job -> {"none", "pending", "running", "completed", "failed"}]
    /\ tries \in [Job -> Nat]
    /\ auto \subseteq Job /\ full \subseteq Job /\ today \subseteq Job
    /\ listed \in {"none", "added", "scanned"} /\ month \in Month
    /\ cur \in [Worker -> Task \cup {NoTask}]
    /\ pc \in [Worker -> {"idle", "asking", "read", "held"}]
    /\ copy \in [Worker -> BOOLEAN]
    /\ read \in [Worker -> Target]
    /\ fresh \in [Worker -> BOOLEAN]
    /\ wants \in [Worker -> Target]
    /\ asks \in [Worker -> Job \cup {NoJob}]
    /\ faults \in Nat /\ scope \in Scopes
    /\ overtaken \subseteq Worker /\ stale \subseteq Company /\ undone \in BOOLEAN
    /\ quiet \subseteq Job

Init ==
    /\ made = [c \in Company |-> IF c \in Known THEN "crawler" ELSE "none"]
    /\ mentioned = [c \in Company |-> c \in Known]
    /\ eligible = [c \in Company |-> "unset"]
    /\ tag = [c \in Company |-> FALSE]
    /\ triaged = {}
    /\ target = [c \in Company |-> NoTarget]
    /\ scan = [j \in Job |-> "none"]
    /\ imports = {} /\ recent = {}
    /\ status = [j \in Job |-> "none"]
    /\ tries = [j \in Job |-> 0]
    /\ auto = {} /\ full = {} /\ today = {}
    /\ listed = "none" /\ month = 1
    /\ cur = [w \in Worker |-> NoTask]
    /\ pc = [w \in Worker |-> "idle"]
    /\ copy = [w \in Worker |-> FALSE]
    /\ read = [w \in Worker |-> NoTarget]
    /\ fresh = [w \in Worker |-> FALSE]
    /\ wants = [w \in Worker |-> NoTarget]
    /\ asks = [w \in Worker |-> NoJob]
    /\ faults = 0 /\ scope \in Scopes
    /\ overtaken = {} /\ stale = {} /\ undone = FALSE /\ quiet = {}

-----------------------------------------------------------------------------
(* Time, and the rest of the service *)

DayTurns ==
    /\ today' = {}
    /\ fresh' = [w \in Worker |-> FALSE]
    /\ UNCHANGED <<entityVars, target, scanVars, status, tries, auto, full, listed, cur, pc,
                   copy, read, wants, asks, faults, historyVars>>

MidnightPasses == "midnight" \in scope.events /\ DayTurns /\ UNCHANGED month

MonthTurns ==
    /\ "month" \in scope.events /\ month + 1 \in Month
    /\ month' = month + 1
    /\ DayTurns

RowsOf(c) == {c} \cup {j \in Job : j[1] = c}

\* signal_scan_cooldown_days pass; no transaction lasts that long.
CooldownEnds(c) ==
    /\ "cooldown" \in scope.events /\ recent \cap RowsOf(c) # {}
    /\ \A j \in Job : j[1] = c => scan[j] # "open"
    /\ recent' = recent \ RowsOf(c)
    /\ today' = {}
    /\ fresh' = [w \in Worker |-> FALSE]
    /\ UNCHANGED <<entityVars, target, scan, imports, status, tries, auto, full, listed, month, cur,
                   pc, copy, read, wants, asks, faults, historyVars>>

\* An extraction finds the company mentioned.
CompanyMentioned(c) ==
    /\ "mention" \in scope.events /\ ~mentioned[c]
    /\ mentioned' = [mentioned EXCEPT ![c] = TRUE]
    /\ made' = [made EXCEPT ![c] = IF @ = "none" THEN "crawler" ELSE @]
    /\ UNCHANGED <<eligible, tag, triaged, target, scanVars, jobVars, listed, month, cur, pc, workVars,
                   faults, historyVars>>

\* The scan pipeline ingests the sources that the import has added.
SourcesScanned ==
    /\ "ingest" \in scope.events /\ listed = "added"
    /\ listed' = "scanned"
    /\ UNCHANGED <<entityVars, target, scanVars, jobVars, month, cur, pc, workVars, faults,
                   historyVars>>

-----------------------------------------------------------------------------
(* Transactions *)

\* The company a worker is at.
About(w) == IF cur[w][1] = "score" THEN cur[w][2] ELSE cur[w][2][1]

Scanning(w) == pc[w] # "idle" /\ cur[w][1] = "scan"

Begin(w, t, p) ==
    /\ pc[w] = "idle"
    /\ cur' = [cur EXCEPT ![w] = t]
    /\ pc' = [pc EXCEPT ![w] = p]
    /\ fresh' = [fresh EXCEPT ![w] = TRUE]

\* The worker's session forgets what it has not committed.
Discard(w) ==
    /\ cur' = [cur EXCEPT ![w] = NoTask]
    /\ pc' = [pc EXCEPT ![w] = "idle"]
    /\ copy' = [copy EXCEPT ![w] = FALSE]
    /\ read' = [read EXCEPT ![w] = NoTarget]
    /\ fresh' = [fresh EXCEPT ![w] = FALSE]
    /\ wants' = [wants EXCEPT ![w] = NoTarget]
    /\ asks' = [asks EXCEPT ![w] = NoJob]

\* The watch target is read here and changed later, under its lock.
ReadTarget(w, c) == read' = [read EXCEPT ![w] = target[c]]

\* Only a change is flushed, and only a flush takes the row's lock; entity_scores,
\* which the scorer always changes, keeps two scorers of a company apart.
Changes(w) == wants[w] # read[w]

Locked(w) ==
    \E v \in Worker \ {w} : /\ pc[v] = "held" /\ About(v) = About(w)
                            /\ Scanning(w) => Changes(v) /\ Changes(w)

\* The INSERT of a row that another transaction has inserted in between.
InsertConflicts(w) ==
    \/ read[w] = NoTarget /\ target[About(w)] # NoTarget
    \/ ~Scanning(w) /\ ~copy[w] /\ About(w) \in triaged

Written_StatusOnce(w) ==
    [score |-> wants[w].score,
     status |-> IF read[w] = NoTarget THEN wants[w].status ELSE target[About(w)].status]

\* An UPDATE names the columns that differ from the copy that was read.
Written(w) ==
    LET old == target[About(w)] IN
    [score |-> IF wants[w].score # read[w].score THEN wants[w].score ELSE old.score,
     status |-> IF wants[w].status # read[w].status THEN wants[w].status ELSE old.status]

CommitTarget(w) ==
    /\ target' = [target EXCEPT ![About(w)] = Written(w)]
    /\ overtaken' = (overtaken \ {w}) \cup
                     {v \in Worker \ {w} : /\ pc[v] \in {"read", "held"} /\ About(v) = About(w)
                                          /\ Changes(w)}

ScanAfterRollback_Kept(w) == scan

\* What a rollback leaves of the scan: its row was not committed.
ScanAfterRollback(w) ==
    IF Scanning(w) THEN [scan EXCEPT ![cur[w][2]] = "none"] ELSE scan

\* The handler raised: rollback, then mark_job_failed.
Rollback(w) ==
    /\ scan' = ScanAfterRollback(w)
    /\ IF Scanning(w)
       THEN LET j == cur[w][2] IN
            /\ tries' = [tries EXCEPT ![j] = @ + 1]
            /\ status' = [status EXCEPT ![j] = IF tries[j] + 1 < MaxTries THEN "pending"
                                               ELSE "failed"]
       ELSE UNCHANGED <<tries, status>>
    /\ Discard(w)
    /\ overtaken' = overtaken \ {w}
    /\ UNCHANGED <<entityVars, target, imports, recent, auto, full, today, listed, month, undone,
                   stale, quiet>>

HandlerRaises(w) ==
    /\ pc[w] # "idle" /\ cur[w] \in Faulty /\ faults < MaxFaults
    /\ Rollback(w)
    /\ faults' = faults + 1

\* The cycle dies; the lease of its job lapses and the job is claimed again.
CycleDies(w) ==
    /\ Scanning(w) /\ cur[w] \in Faulty /\ faults < MaxFaults
    /\ scan' = ScanAfterRollback(w)
    /\ status' = [status EXCEPT ![cur[w][2]] = "pending"]
    /\ Discard(w)
    /\ faults' = faults + 1
    /\ overtaken' = overtaken \ {w}
    /\ UNCHANGED <<entityVars, target, imports, recent, tries, auto, full, today, listed, month,
                   undone, stale, quiet>>

-----------------------------------------------------------------------------
(* enqueue_signal_scan *)

\* A completed scan of any origin, younger than the cooldown.
RecentlyScanned(c) ==
    \/ c \in imports \cap recent
    \/ \E j \in Job \cap recent : j[1] = c

UnderDailyCap_OneMore == Cardinality(today) <= AutoLimit

\* The cap on automatic scans counts every signal_scan job of the day.
UnderDailyCap == Cardinality(today) < AutoLimit

\* The INSERT of a job, which does nothing if its external_ref is taken.
Monthly(c) == IF status[<<c, month>>] = "none" THEN <<c, month>> ELSE NoJob

Enqueue(j, byScorer, isFull, isToday) ==
    /\ status' = [status EXCEPT ![j] = "pending"]
    /\ auto' = IF byScorer THEN auto \cup {j} ELSE auto
    /\ full' = IF isFull THEN full \cup {j} ELSE full
    /\ today' = IF isToday THEN today \cup {j} ELSE today

\* The console's request_scan: one short transaction, waiting for an uncommitted job.
RequestScan(c) ==
    /\ c \in scope.companies /\ made[c] # "none"
    /\ \E depth \in Depths :
          \/ \E f \in Forced : /\ "force" \in scope.events /\ status[<<c, f>>] = "none"
                               /\ Enqueue(<<c, f>>, FALSE, depth = "full", TRUE)
          \/ /\ "request" \in scope.events /\ ~RecentlyScanned(c) /\ Monthly(c) # NoJob
             /\ \A w \in Worker : asks[w] # Monthly(c)
             /\ Enqueue(Monthly(c), FALSE, depth = "full", TRUE)
    /\ UNCHANGED <<entityVars, target, scanVars, tries, listed, month, cur, pc, workVars,
                   faults, historyVars>>

-----------------------------------------------------------------------------
(* process_entity_scorer_job *)

TriageTarget(score) == [score |-> score, status |-> IF score >= 5500 THEN "active" ELSE "watch"]

\* A company that failed the gate scores 0, whatever the articles say.
Gated(c, score) == IF eligible[c] = "no" THEN 0 ELSE score

\* A scorer job exists for a company that was mentioned, any number of times.
ScoreCompany(w, c) ==
    /\ c \in scope.companies /\ mentioned[c]
    /\ Begin(w, Scorer(c), "read")
    /\ \E score \in Triage[c] : wants' = [wants EXCEPT ![w] = TriageTarget(Gated(c, score))]
    /\ copy' = [copy EXCEPT ![w] = c \in triaged]
    /\ ReadTarget(w, c)
    /\ UNCHANGED <<entityVars, target, scanVars, jobVars, listed, month, asks, faults,
                   historyVars>>

Graduates_Anyhow(w) == wants[w].score >= 6000 /\ UnderDailyCap

\* Promising companies graduate to a signal scan.
Graduates(w) == wants[w].score >= 6000 /\ ~RecentlyScanned(About(w)) /\ UnderDailyCap

\* The target is flushed, and with its row locked the scan is asked for.
FlushScore(w) ==
    /\ pc[w] = "read" /\ ~Scanning(w)
    /\ ~Locked(w) /\ ~InsertConflicts(w)
    /\ pc' = [pc EXCEPT ![w] = "held"]
    /\ asks' = [asks EXCEPT ![w] = IF Graduates(w) THEN Monthly(About(w)) ELSE NoJob]
    /\ UNCHANGED <<entityVars, target, scanVars, jobVars, listed, month, cur, copy, read, fresh,
                   wants, faults, historyVars>>

CommitScore(w) ==
    /\ pc[w] = "held" /\ ~Scanning(w)
    /\ CommitTarget(w)
    /\ triaged' = triaged \cup {About(w)}
    /\ IF asks[w] = NoJob THEN UNCHANGED <<status, auto, full, today>>
       ELSE Enqueue(asks[w], TRUE, FALSE, fresh[w])
    /\ Discard(w)
    /\ UNCHANGED <<made, mentioned, eligible, tag, scanVars, tries, listed, month, faults,
                   undone, stale, quiet>>

-----------------------------------------------------------------------------
(* process_signal_scan_job *)

DepthOf(j) == IF j \in full THEN "full" ELSE "standard"

\* The scan row is inserted, which only this transaction sees; no earlier attempt has
\* left one to reuse.  The company exists: the job refers to it.
StartScan(w, j) ==
    /\ j \in scope.jobs /\ status[j] = "pending"
    /\ Begin(w, Scanner(j), "asking")
    /\ status' = [status EXCEPT ![j] = "running"]
    /\ copy' = [copy EXCEPT ![w] = tag[j[1]]]
    /\ scan' = [scan EXCEPT ![j] = "open"]
    /\ UNCHANGED <<entityVars, target, imports, recent, tries, auto, full, today, listed, month, read,
                   wants, asks, faults, historyVars>>

\* Each batch is one LLM call; the signals of one that failed are unknown.
Verdicts(depth) ==
    {[n \in Scanned(depth) |-> IF BatchOf(depth, n) \in answered THEN answer[n]
                               ELSE "unknown"] :
        answer \in Answers, answered \in SUBSET Batches(depth) \ {{}}}

AllBatchesFail(w) ==
    /\ pc[w] = "asking" /\ cur[w] \in Faulty /\ faults < MaxFaults
    /\ Rollback(w)
    /\ faults' = faults + 1

\* signal_results.result holds 12 characters.
Storable(v) == \A n \in DOMAIN v : v[n] # "not_applicable"

\* The INSERT of the results fails, and with it the scan.
ResultTooLong(w) ==
    /\ pc[w] = "asking"
    /\ \E v \in Verdicts(DepthOf(cur[w][2])) : ~Storable(v)
    /\ Rollback(w)
    /\ UNCHANGED faults

ScanTarget_Band(v) == [score |-> Fit(v), status |-> Band(Fit(v), Coverage(v))]

ScanTarget(v) ==
    [score |-> Fit(v),
     status |-> IF Band(Fit(v), Coverage(v)) \in {"strong", "moderate"} THEN "active"
                ELSE "watch"]

\* The LLM has answered: the results are inserted, and the watch target is read.
StoreResults(w) ==
    /\ pc[w] = "asking"
    /\ \E v \in Verdicts(DepthOf(cur[w][2])) :
          Storable(v) /\ wants' = [wants EXCEPT ![w] = ScanTarget(v)]
    /\ ReadTarget(w, About(w))
    /\ pc' = [pc EXCEPT ![w] = "read"]
    /\ UNCHANGED <<entityVars, target, scanVars, jobVars, listed, month, cur, copy, fresh, asks,
                   faults, historyVars>>

\* Target and metadata are flushed and committed; nothing is read in between.
\* metadata is written whole, from the copy of before the LLM calls.
CommitScan(w) ==
    /\ pc[w] = "read" /\ Scanning(w)
    /\ ~Locked(w) /\ ~InsertConflicts(w)
    /\ LET c == About(w)
           j == cur[w][2]
       IN  /\ scan' = [scan EXCEPT ![j] = "completed"]
           /\ recent' = recent \cup {j}
           /\ status' = [status EXCEPT ![j] = "completed"]
           /\ tag' = [tag EXCEPT ![c] = copy[w]]
           /\ stale' = IF tag[c] # copy[w] THEN stale \cup {c} ELSE stale
           /\ quiet' = IF Changes(w) THEN quiet ELSE quiet \cup {j}
    /\ CommitTarget(w)
    /\ Discard(w)
    /\ UNCHANGED <<made, mentioned, eligible, triaged, imports, tries, auto, full, today, listed, month,
                   faults, undone>>

\* A first watch target that two jobs insert: the second one raises.
FlushConflicts(w) ==
    /\ pc[w] = "read" /\ ~Locked(w) /\ InsertConflicts(w)
    /\ Rollback(w)
    /\ UNCHANGED faults

-----------------------------------------------------------------------------
(* import_to_db.py and rollback_import.py *)

\* One transaction over the whole pool; a result that does not fit aborts it.
ImportToDb ==
    /\ "import" \in scope.events
    /\ \A c \in Pool : Storable(Graded[c].verdicts)
    /\ made' = [c \in Company |-> IF c \in Pool /\ made[c] = "none" THEN "import" ELSE made[c]]
    /\ eligible' = [c \in Company |-> IF c \in Pool THEN Graded[c].eligible ELSE eligible[c]]
    /\ tag' = [c \in Company |-> c \in Pool \/ tag[c]]
    /\ imports' = imports \cup {c \in Pool : DOMAIN Graded[c].verdicts # {}}
    /\ recent' = recent \cup {c \in Pool : DOMAIN Graded[c].verdicts # {}}
    /\ listed' = IF listed = "none" THEN "added" ELSE listed
    /\ undone' = FALSE
    /\ UNCHANGED <<mentioned, triaged, target, scan, jobVars, month, cur, pc, workVars, faults, overtaken,
                   stale, quiet>>

Doomed_Watched(c) == tag[c] /\ ~mentioned[c] /\ target[c] # NoTarget

\* What rollback_import takes for a row the import inserted.
Doomed(c) == tag[c] /\ ~mentioned[c]

\* One transaction, which the foreign keys of jobs and snapshots make fail as a
\* whole. A row that stays loses the metadata key and keeps the columns the import
\* has written (eligible): the reversal is not exact.
RollbackImport ==
    /\ "import" \in scope.events /\ listed # "scanned"
    /\ \A c \in Company : Doomed(c) => \A r \in Ref : status[<<c, r>>] = "none"
    /\ made' = [c \in Company |-> IF Doomed(c) THEN "none" ELSE made[c]]
    /\ eligible' = [c \in Company |-> IF Doomed(c) THEN "unset" ELSE eligible[c]]
    /\ target' = [c \in Company |-> IF Doomed(c) THEN NoTarget ELSE target[c]]
    /\ tag' = [c \in Company |-> FALSE]
    /\ imports' = {} /\ recent' = recent \ Company
    /\ listed' = "none"
    /\ undone' = TRUE
    /\ UNCHANGED <<mentioned, triaged, scan, jobVars, month, cur, pc, workVars, faults, overtaken,
                   stale, quiet>>

-----------------------------------------------------------------------------
Work(w) ==
    \/ \E c \in Company : ScoreCompany(w, c)
    \/ FlushScore(w) \/ CommitScore(w)
    \/ \E j \in Job : StartScan(w, j)
    \/ AllBatchesFail(w) \/ ResultTooLong(w) \/ StoreResults(w) \/ CommitScan(w)
    \/ FlushConflicts(w) \/ HandlerRaises(w) \/ CycleDies(w)

Events ==
    \/ MidnightPasses \/ MonthTurns
    \/ \E c \in Company : CooldownEnds(c) \/ CompanyMentioned(c) \/ RequestScan(c)
    \/ SourcesScanned \/ ImportToDb \/ RollbackImport

Next == (Events \/ \E w \in Worker : Work(w)) /\ UNCHANGED scope

Spec == Init /\ [][Next]_vars

-----------------------------------------------------------------------------
(* What scoring promises *)

\* signal_scan_auto_daily_limit is checked before the insert: overlapping cycles
\* overrun it, but never by more than one job each.
AutoCapped == Cardinality(auto \cap today) <= AutoLimit - 1 + Cardinality(Worker)

\* The cooldown is checked before the insert, too, but with the company's watch target
\* locked: no scan completes in between, unless one of the two left the target as it was.
AutoCooldown ==
    [][\A w \in Worker : CommitScore(w) /\ asks[w] # NoJob /\ Changes(w) =>
          \A j \in recent \cap Job : j[1] = About(w) => j \in quiet]_vars

\* A scan that fails, at any point, is rolled back whole: a scan that others see
\* is completed, and the job it belongs to will not run again.
FailedScansLeaveNoTrace ==
    \A j \in Job : \/ scan[j] = "none"
                   \/ scan[j] = "completed" /\ status[j] = "completed"
                   \/ \E w \in Worker : Scanning(w) /\ cur[w][2] = j

\* Triage and scans write the same watch target, naming only the columns that changed:
\* a commit leaves the score and the status it meant, both of them, unless another
\* one changed it between its read and its write.
TargetIsLastWriters ==
    [][\A w \in Worker : CommitScore(w) \/ CommitScan(w) =>
          w \in overtaken \/ target'[About(w)] = wants[w]]_vars

\* After rollback_import what it selects by the import's tag is gone: the import's scans,
\* the metadata key, and the rows the import inserted for companies that no finding
\* mentions. A company whose metadata a scan wrote back from before is excepted; and of
\* the columns the import wrote on a row that stays (eligible) nothing is said: they
\* keep what the import wrote.
RollbackRemovesTagged ==
    undone => \A c \in Company :
        /\ c \notin imports
        /\ tag[c] => c \in stale
        /\ made[c] = "import" => mentioned[c] \/ c \in stale

AgreeingDepths ==
    {depth \in Depth : \A v \in [Scanned(depth) -> Verdict] :
        /\ Fit(v) - ImportFit(v, DOMAIN v) \in {-1, 0, 1}
        /\ Coverage(v) = ImportCoverage(v)}

\* Whatever a scan is answered, score_math makes of it what the engine makes of it, but
\* for the rounding of each category's fit, which the engine does first.
ScoresAgree ==
    \A w \in Worker : pc[w] = "asking" => DepthOf(cur[w][2]) \in AgreeingDepths

NeutralDepths ==
    {depth \in Depth : \A v \in [Scanned(depth) -> Verdict] :
        \A n \in DOMAIN v : v[n] = "unknown" =>
            /\ Fit([v EXCEPT ![n] = "absent"]) <= Fit(v)
            /\ Fit([v EXCEPT ![n] = "confirmed"]) >= Fit(v)}

\* Ignorance never reads as merit: whatever a scan is answered, resolving an unknown
\* signal to its absence never raises the fit, and to its presence never lowers it.
UnknownIsNeutral ==
    \A w \in Worker : pc[w] = "asking" => DepthOf(cur[w][2]) \in NeutralDepths

\* "marking each signal confirmed / absent / unknown / not applicable": a scan that
\* got its answers is stored, whatever they are.
AnsweredScanIsKept ==
    [][\A w \in Worker : pc[w] = "asking" => pc'[w] # "idle" \/ faults' # faults]_vars
=============================================================================
