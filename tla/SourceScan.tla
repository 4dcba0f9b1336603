----------------------------- MODULE SourceScan -----------------------------
(***************************************************************************)
(* The scan pipeline of the sourcing service: run_scan and                 *)
(* _scan_single_source in sourcing/app/pipeline/orchestrator.py, with      *)
(* compute_diff, the block filters, the two dedup layers and the           *)
(* process-wide embedding cache they use.                                  *)
(*                                                                         *)
(* Runs overlap (two crons, and POST /tasks/... inside the web process), a *)
(* run scans its sources concurrently, and each scan is one transaction    *)
(* that stays open across its embedding and LLM calls.  Nothing locks a    *)
(* source on purpose; but the first query after the source row was changed *)
(* makes SQLAlchemy flush the change, and PostgreSQL then keeps that row   *)
(* locked until the scan commits.  SQLAlchemy writes only the attributes   *)
(* that differ from the copy of the row the scan has loaded.               *)
(*                                                                         *)
(* A page is a set of blocks; two findings are the same news when they     *)
(* tell the same story.                                                    *)
(***************************************************************************)
EXTENDS Integers, FiniteSets

CONSTANTS
    Run,               \* runs that may be alive at the same time, in one process
    Nightly,           \* the runs that take every due source
    Source, Block, Story,
    Tells,             \* the story an analyzer can find in a block
    Short,             \* blocks under MIN_DIFF_CHARS by themselves
    Irrelevant,        \* blocks below the relevance threshold
    NotionRow,         \* what a source's page in Notion may say of status and date
    Resets,            \* whether /admin/reset-findings is ever called
    MaxFaults,         \* bound: scans and runs cut short, resets
    Shows,             \* bound: the pages each source may have in a behaviour; a source
                       \* without any is paused
    NoCache            \* "no recent findings are cached"

Status == {"active", "error", "paused"}

ASSUME ScanAssumption ==
    /\ Nightly \subseteq Run
    /\ Tells \in [Block -> Story]
    /\ Short \subseteq Block /\ Irrelevant \subseteq Block
    /\ NotionRow \subseteq [status: Status, due: BOOLEAN]
    /\ Resets \in BOOLEAN /\ MaxFaults \in Nat
    /\ Shows \subseteq [Source -> SUBSET (SUBSET Block \ {{}})]
    /\ \A S \in SUBSET Story : NoCache # S

\* The scan of one source by one run.
Scan == Run \X Source

Cooldown == {"none", "running", "lapsed"}

RowType == [status: Status, due: BOOLEAN, cooldown: Cooldown]

CopyType == [status: Status, cooldown: Cooldown]

SnapshotType == [content: SUBSET Block, hashes: SUBSET Block]

VARIABLES
    page,              \* what each source shows at the moment
    row,               \* the sources table
    latest,            \* per source, the good snapshot with the newest fetched_at
    findings, today,   \* the findings table; the rows whose dedup_hash is of today
    cache,             \* _recent_findings_cache of the process
    running, wiped,    \* live runs; those whose scan_runs row was deleted
    pc,                \* where each scan is
    body, copy,        \* what it fetched, and the source row as it loaded it
    later,             \* the runs that fetched the same source after it
    superseded,        \* a later fetch has been committed already
    diff, hashes,      \* compute_diff: its answer, the block hashes it stores
    news,              \* stories: the analyzer's, then those left after dedup
    stale,             \* the date in its dedup hashes has passed
    handed,            \* history: blocks committed scans got from compute_diff
    faults,            \* cut-short scans and runs, and resets, so far
    shows              \* bound: the pages of the behaviour

scanVars == <<pc, body, copy, later, superseded, diff, hashes, news, stale>>
dbVars == <<row, latest, findings, today, handed>>
runVars == <<running, wiped>>
vars == <<page, dbVars, cache, runVars, scanVars, faults, shows>>

Phase == {"idle", "fetch", "failed", "loaded", "diffed", "analyzed", "stored", "done"}

\* The scan holds the source row: its UPDATE has been flushed.
Holding == {"diffed", "analyzed", "stored"}

\* The scan's session is open: its snapshot row has been inserted.
Open == {"failed", "loaded"} \cup Holding

TypeOK ==
    /\ page \in [Source -> SUBSET Block]
    /\ row \in [Source -> RowType]
    /\ latest \in [Source -> SnapshotType]
    /\ findings \subseteq Source \X Story /\ today \subseteq findings
    /\ cache \in [Source -> {NoCache} \cup SUBSET Story]
    /\ running \subseteq Run /\ wiped \subseteq Run
    /\ pc \in [Scan -> Phase]
    /\ body \in [Scan -> SUBSET Block]
    /\ copy \in [Scan -> CopyType]
    /\ later \in [Scan -> SUBSET Run]
    /\ superseded \in [Scan -> BOOLEAN]
    /\ diff \in [Scan -> SUBSET Block]
    /\ hashes \in [Scan -> SUBSET Block]
    /\ news \in [Scan -> SUBSET Story]
    /\ stale \in [Scan -> BOOLEAN]
    /\ handed \in [Source -> SUBSET Block]
    /\ faults \in Nat /\ shows \in Shows

FreshRow(status) == [status |-> status, due |-> TRUE, cooldown |-> "none"]

NoCopy == [status |-> "active", cooldown |-> "none"]

\* No page is empty, so empty content stands for "no snapshot yet".
NoSnapshot == [content |-> {}, hashes |-> {}]

Init ==
    /\ shows \in Shows
    /\ page \in [Source -> SUBSET Block]
    /\ \A s \in Source : IF shows[s] = {} THEN page[s] = {} ELSE page[s] \in shows[s]
    /\ row = [s \in Source |-> FreshRow(IF shows[s] = {} THEN "paused" ELSE "active")]
    /\ latest = [s \in Source |-> NoSnapshot]
    /\ findings = {} /\ today = {}
    /\ cache = [s \in Source |-> NoCache]
    /\ running = {} /\ wiped = {}
    /\ pc = [x \in Scan |-> "idle"]
    /\ body = [x \in Scan |-> {}]
    /\ copy = [x \in Scan |-> NoCopy]
    /\ later = [x \in Scan |-> {}]
    /\ superseded = [x \in Scan |-> FALSE]
    /\ diff = [x \in Scan |-> {}]
    /\ hashes = [x \in Scan |-> {}]
    /\ news = [x \in Scan |-> {}]
    /\ stale = [x \in Scan |-> FALSE]
    /\ handed = [s \in Source |-> {}]
    /\ faults = 0

-----------------------------------------------------------------------------
(* The world around the scans *)

PageChanges(s) ==
    /\ \E p \in shows[s] : page' = [page EXCEPT ![s] = p]
    /\ UNCHANGED <<dbVars, cache, runVars, scanVars, faults>>

\* next_ingest_at, or the cooldown, comes to lie in the past.
TimePasses(s) ==
    /\ \/ ~row[s].due /\ row' = [row EXCEPT ![s].due = TRUE]
       \/ row[s].cooldown = "running" /\ row' = [row EXCEPT ![s].cooldown = "lapsed"]
    /\ UNCHANGED <<page, latest, findings, today, handed, cache, runVars, scanVars, faults>>

\* dedup_hash covers title, source and the date of the scan.
DayPasses ==
    /\ today' = {}
    /\ stale' = [x \in Scan |-> pc[x] = "stored"]
    /\ UNCHANGED <<page, row, latest, findings, handed, cache, runVars, pc, body, copy,
                   later, superseded, diff, hashes, news, faults>>

RowFree_NoAutoflush(s) == TRUE

\* No open scan has flushed its change to the source's row, which would lock it.
RowFree(s) == \A r \in Run : pc[<<r, s>>] \notin Holding

\* The Notion control plane overwrites status and next_ingest_at with its own.
Reconcile(s) ==
    /\ RowFree(s) /\ shows[s] # {}
    /\ \E n \in NotionRow :
          row' = [row EXCEPT ![s].status = n.status, ![s].due = n.due]
    /\ UNCHANGED <<page, latest, findings, today, handed, cache, runVars, scanVars, faults>>

\* /admin/reset-findings.  An open scan has a snapshot the script does not see,
\* which makes its DELETE FROM scan_runs fail.  The caches are left alone.
ResetFindings ==
    /\ Resets /\ faults < MaxFaults
    /\ \A x \in Scan : pc[x] \notin Open
    /\ latest' = [s \in Source |-> NoSnapshot]
    /\ findings' = {} /\ today' = {}
    /\ handed' = [s \in Source |-> {}]
    /\ wiped' = running
    /\ faults' = faults + 1
    /\ UNCHANGED <<page, row, cache, running, scanVars>>

-----------------------------------------------------------------------------
(* A run *)

DueSources_NeverFailed == {s \in Source : /\ row[s].due
                                          /\ row[s].cooldown = "none"
                                          /\ row[s].status \notin {"paused", "error"}}

DueSources == {s \in Source : /\ row[s].due
                              /\ row[s].cooldown # "running"
                              /\ row[s].status \notin {"paused", "error"}}

\* run_scan selects its sources and commits; a cadence run may name a bucket and
\* a limit, which leaves some of them out.
StartRun(r, S) ==
    /\ r \notin running
    /\ S \subseteq DueSources
    /\ r \in Nightly => S = DueSources
    /\ running' = running \cup {r}
    /\ pc' = [x \in Scan |-> IF x[1] = r /\ x[2] \in S THEN "fetch" ELSE pc[x]]
    /\ UNCHANGED <<page, dbVars, cache, wiped, body, copy, later, superseded, diff,
                   hashes, news, stale, faults>>

Forget(X, phase) ==
    /\ pc' = [x \in Scan |-> IF x \in X THEN phase ELSE pc[x]]
    /\ body' = [x \in Scan |-> IF x \in X THEN {} ELSE body[x]]
    /\ copy' = [x \in Scan |-> IF x \in X THEN NoCopy ELSE copy[x]]
    /\ later' = [x \in Scan |-> IF x \in X THEN {} ELSE later[x]]
    /\ superseded' = [x \in Scan |-> IF x \in X THEN FALSE ELSE superseded[x]]
    /\ diff' = [x \in Scan |-> IF x \in X THEN {} ELSE diff[x]]
    /\ hashes' = [x \in Scan |-> IF x \in X THEN {} ELSE hashes[x]]
    /\ news' = [x \in Scan |-> IF x \in X THEN {} ELSE news[x]]
    /\ stale' = [x \in Scan |-> x \notin X /\ stale[x]]

ScansOf(r) == {r} \X Source

\* gather has returned: the caches of the process are cleared for every run.
EndRun(r) ==
    /\ r \in running
    /\ \A x \in ScansOf(r) : pc[x] \in {"idle", "done"}
    /\ Forget(ScansOf(r), "idle")
    /\ cache' = [s \in Source |-> NoCache]
    /\ running' = running \ {r} /\ wiped' = wiped \ {r}
    /\ UNCHANGED <<page, dbVars, faults>>

\* wait_for cancels the run, and with it gather and every open transaction; what
\* run_scan does after gather is not done.
Timeout(r) ==
    /\ r \in running /\ faults < MaxFaults
    /\ Forget(ScansOf(r), "idle")
    /\ running' = running \ {r} /\ wiped' = wiped \ {r}
    /\ faults' = faults + 1
    /\ UNCHANGED <<page, dbVars, cache>>

\* The process dies.
Restart ==
    /\ running # {} /\ faults < MaxFaults
    /\ Forget(Scan, "idle")
    /\ cache' = [s \in Source |-> NoCache]
    /\ running' = {} /\ wiped' = {}
    /\ faults' = faults + 1
    /\ UNCHANGED <<page, dbVars>>

-----------------------------------------------------------------------------
(* One scan, x = <<run, source>> *)

Loaded(s) == [status |-> row[s].status, cooldown |-> row[s].cooldown]

\* The fetcher answers; the session is opened, the snapshot inserted and the
\* source row loaded.
Fetch(x) ==
    /\ pc[x] = "fetch" /\ x[1] \notin wiped
    /\ pc' = [pc EXCEPT ![x] = "loaded"]
    /\ body' = [body EXCEPT ![x] = page[x[2]]]
    /\ copy' = [copy EXCEPT ![x] = Loaded(x[2])]
    /\ later' = [y \in Scan |->
           IF y[2] = x[2] /\ pc[y] \in Open THEN later[y] \cup {x[1]} ELSE later[y]]
    /\ UNCHANGED <<page, dbVars, cache, runVars, superseded, diff, hashes, news,
                   stale, faults>>

FetchFails(x) ==
    /\ pc[x] = "fetch" /\ x[1] \notin wiped
    /\ pc' = [pc EXCEPT ![x] = "failed"]
    /\ copy' = [copy EXCEPT ![x] = Loaded(x[2])]
    /\ UNCHANGED <<page, dbVars, cache, runVars, body, later, superseded, diff, hashes,
                   news, stale, faults>>

\* The run's row was deleted: the snapshot breaks its foreign key.
RunGone(x) ==
    /\ pc[x] = "fetch" /\ x[1] \in wiped
    /\ Forget({x}, "done")
    /\ UNCHANGED <<page, dbVars, cache, runVars, faults>>

\* Anything else that raises (an embedding call, a database error).
ScanRaises(x) ==
    /\ pc[x] \in {"fetch"} \cup Open /\ faults < MaxFaults
    /\ Forget({x}, "done")
    /\ faults' = faults + 1
    /\ UNCHANGED <<page, dbVars, cache, runVars>>

\* The error path: an error snapshot, the source in "error" for six hours.
CommitError(x) ==
    /\ pc[x] = "failed" /\ RowFree(x[2])
    /\ row' = [row EXCEPT ![x[2]] = [
           status |-> IF copy[x].status = "error" THEN @.status ELSE "error",
           due |-> FALSE, cooldown |-> "running"]]
    /\ Forget({x}, "done")
    /\ UNCHANGED <<page, latest, findings, today, handed, cache, runVars, faults>>

Base_OwnSnapshot(x) == [content |-> body[x], hashes |-> {}]

\* The snapshot compute_diff compares with: the newest good one of another run.
Base(x) == latest[x[2]]

\* compute_diff: nothing, everything, or the blocks whose hash is new.
NewBlocks(x) ==
    IF Base(x).content = body[x] THEN {}
    ELSE IF Base(x).hashes = {} THEN body[x]
    ELSE body[x] \ Base(x).hashes

\* The query of compute_diff first flushes the source row, and so waits for any
\* other scan of the source.  Only the fast path stores no block hashes.
Diff(x) ==
    /\ pc[x] = "loaded" /\ RowFree(x[2])
    /\ pc' = [pc EXCEPT ![x] = "diffed"]
    /\ diff' = [diff EXCEPT ![x] = NewBlocks(x)]
    /\ hashes' = [hashes EXCEPT ![x] = IF Base(x).content = body[x] THEN {} ELSE body[x]]
    /\ UNCHANGED <<page, dbVars, cache, runVars, body, copy, later, superseded, news, stale,
                   faults>>

TooSmall(D) == D \subseteq Short /\ Cardinality(D) < 2

Relevant(D) == D \ Irrelevant

OtherStories_Rows(s) == {g \in findings : g[1] # s}

OtherStories_Uncommitted(s) ==
    {f[2] : f \in {g \in findings : g[1] # s}}
        \cup UNION {news[x] : x \in {y \in Scan : y[2] # s /\ pc[y] = "stored"}}

\* Findings of the other sources, which both dedup filters compare with.
OtherStories(s) == {f[2] : f \in {g \in findings : g[1] # s}}

Known(s, D) == {b \in D : Tells[b] \in OtherStories(s)}

\* A scan commits: the snapshot, the source row, its findings.
Publish(x, stories) ==
    /\ latest' = IF superseded[x] THEN latest
                 ELSE [latest EXCEPT ![x[2]] = [content |-> body[x], hashes |-> hashes[x]]]
    /\ row' = [row EXCEPT ![x[2]] = [
           status |-> IF copy[x].status = "active" THEN @.status ELSE "active",
           due |-> FALSE,
           cooldown |-> IF copy[x].cooldown = "none" THEN @.cooldown ELSE "none"]]
    /\ findings' = findings \cup ({x[2]} \X stories)
    /\ today' = IF stale[x] THEN today ELSE today \cup ({x[2]} \X stories)
    /\ handed' = [handed EXCEPT ![x[2]] = @ \cup diff[x]]
    /\ pc' = [pc EXCEPT ![x] = "done"]
    /\ superseded' = [y \in Scan |->
           y # x /\ (superseded[y] \/ (y[2] = x[2] /\ x[1] \in later[y]))]
    /\ later' = [y \in Scan |->
           IF y = x THEN {} ELSE IF y[2] = x[2] THEN later[y] \ {x[1]} ELSE later[y]]
    /\ body' = [body EXCEPT ![x] = {}]
    /\ copy' = [copy EXCEPT ![x] = NoCopy]
    /\ diff' = [diff EXCEPT ![x] = {}]
    /\ hashes' = [hashes EXCEPT ![x] = {}]
    /\ news' = [news EXCEPT ![x] = {}]
    /\ stale' = [stale EXCEPT ![x] = FALSE]

\* Nothing for the analyzer: no change, too small a change, nothing relevant, or
\* only news that other sources have told.
CommitUnanalyzed(x) ==
    /\ pc[x] = "diffed"
    /\ \/ TooSmall(diff[x])
       \/ Relevant(diff[x]) \subseteq Known(x[2], Relevant(diff[x]))
    /\ Publish(x, {})
    /\ UNCHANGED <<page, cache, runVars, faults>>

\* The analyzer finds some of the stories; a failed LLM call finds none.  The
\* embedding filter may miss a block whose news is known.
Analyze(x) ==
    /\ pc[x] = "diffed" /\ ~TooSmall(diff[x])
    /\ \E dropped \in SUBSET Known(x[2], Relevant(diff[x])) :
          LET novel == Relevant(diff[x]) \ dropped IN
          /\ novel # {}
          /\ \E found \in SUBSET {Tells[b] : b \in novel} :
                news' = [news EXCEPT ![x] = found]
    /\ pc' = [pc EXCEPT ![x] = "analyzed"]
    /\ UNCHANGED <<page, dbVars, cache, runVars, body, copy, later, superseded, diff,
                   hashes, stale, faults>>

\* The store loop: is_duplicate, then is_semantic_duplicate, whose first call
\* caches the findings of the other sources.
Store(x) ==
    /\ pc[x] = "analyzed"
    /\ LET s == x[2]
           fresh == {k \in news[x] : <<s, k>> \notin today}
           recent == IF cache[s] = NoCache THEN OtherStories(s) ELSE cache[s]
       IN /\ cache' = IF fresh = {} THEN cache ELSE [cache EXCEPT ![s] = recent]
          /\ news' = [news EXCEPT ![x] = fresh \ recent]
    /\ pc' = [pc EXCEPT ![x] = "stored"]
    /\ UNCHANGED <<page, dbVars, runVars, body, copy, later, superseded, diff, hashes,
                   stale, faults>>

Commit(x) ==
    /\ pc[x] = "stored"
    /\ Publish(x, news[x])
    /\ UNCHANGED <<page, cache, runVars, faults>>

-----------------------------------------------------------------------------
ScanStep(x) ==
    \/ Fetch(x) \/ FetchFails(x) \/ RunGone(x)
    \/ CommitError(x) \/ Diff(x) \/ CommitUnanalyzed(x)
    \/ Analyze(x) \/ Store(x) \/ Commit(x)

World ==
    \/ \E s \in Source : PageChanges(s) \/ TimePasses(s) \/ Reconcile(s)
    \/ DayPasses \/ ResetFindings

Next ==
    /\ \/ World
       \/ \E r \in Run : \/ \E S \in SUBSET Source : StartRun(r, S)
                         \/ EndRun(r) \/ Timeout(r)
       \/ \E x \in Scan : ScanStep(x) \/ ScanRaises(x)
       \/ Restart
    /\ UNCHANGED shows

Spec == Init /\ [][Next]_vars

\* The crons keep starting runs, what has started goes on, time passes.
Fairness ==
    /\ \A r \in Nightly : WF_vars(StartRun(r, DueSources) /\ UNCHANGED shows)
    /\ \A r \in Run : WF_vars(EndRun(r) /\ UNCHANGED shows)
    /\ \A x \in Scan : WF_vars(ScanStep(x) /\ UNCHANGED shows)
    /\ \A s \in Source : WF_vars(TimePasses(s) /\ UNCHANGED shows)

FairSpec == Spec /\ Fairness
-----------------------------------------------------------------------------
(* What the pipeline promises *)

\* Nothing falls between two snapshots: every block of the snapshot the next diff
\* will be taken against was handed on by a scan that committed.  Scans that fail
\* half-way, overlap, or commit in another order than they fetched do not hide a
\* block from the pipeline.
NewsHandedOn == \A s \in Source : latest[s].content \subseteq handed[s]

\* is_duplicate is a check before an insert into a unique column with awaits in
\* between: the scan never meets the key it has just found absent, which would roll
\* back its snapshot and all its findings.
NoKeyConflict ==
    \A x \in Scan : pc[x] = "stored" =>
        \A k \in news[x] : <<x[2], k>> \notin today

\* Why: a snapshot's hashes are those of its own blocks, and an open scan will hand
\* on every block of its page that was not handed on before.
HandedInv ==
    /\ NewsHandedOn
    /\ \A s \in Source : latest[s].hashes \subseteq latest[s].content
    /\ \A x \in Scan : pc[x] \in Holding =>
          /\ hashes[x] \subseteq body[x]
          /\ body[x] \subseteq diff[x] \cup handed[x[2]]

\* Why NoKeyConflict: a source row has one holder, and dedup_hash names the source.
KeyInv ==
    /\ NoKeyConflict
    /\ \A x, y \in Scan :
          x[2] = y[2] /\ pc[x] \in Holding /\ pc[y] \in Holding => x = y

\* What dedup drops has been told: some source holds the story in the findings
\* table.  The list a scan compares with may be old, but never holds the news of a
\* scan that has not committed.  (Resets break this: they leave the lists alone.)
DropsAreKnown ==
    [][\A x \in Scan : pc[x] = "analyzed" /\ pc'[x] = "stored" =>
         \A k \in news[x] \ news'[x] : \E s \in Source : <<s, k>> \in findings]_vars

\* Its inductive form: the cached lists are no newer than the findings table.
CacheInv ==
    \A s \in Source : cache[s] # NoCache =>
        \A k \in cache[s] : \E o \in Source : <<o, k>> \in findings

\* A block that stays on its page reaches the pipeline, unless the source is put
\* aside: one failed fetch does that for good, whatever the cooldown says.
NewsReachesPipeline ==
    \A s \in Source, b \in Block :
        b \in page[s] ~> b \in handed[s] \/ b \notin page[s] \/ row[s].status # "active"

\* differ.py: "Return only the new / changed blocks to the analyzer".
DiffOnlyNew ==
    [][\A x \in Scan : pc[x] = "loaded" /\ pc'[x] = "diffed" =>
         diff'[x] \cap latest[x[2]].content = {}]_vars

\* deduplicator.py: the cached recent findings are "rebuilt per scan run".
CacheRebuiltPerRun ==
    [][running = {} /\ running' # {} => \A s \in Source : cache[s] = NoCache]_vars
=============================================================================
