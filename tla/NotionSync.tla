------------------------------ MODULE NotionSync ------------------------------
(***************************************************************************)
(* The Notion control plane: ensure_control_plane, reconcile_source_registry*)
(* and run_full_notion_sync (app/services/notion_control.py) with the tasks *)
(* and the webhook that call them; and what else writes the same rows: the  *)
(* onboarder and the self-growth of app/services/source_pipeline.py, scans, *)
(* the API, people at work in Notion.  And the morning digest.              *)
(*                                                                          *)
(* A run is a sequence of READ COMMITTED transactions with calls to Notion  *)
(* in between.  A call to Notion is final, whatever becomes of its          *)
(* transaction.  ensure_control_plane upserts the control plane's row of    *)
(* integration_states, and the row stays locked until the commit.           *)
(***************************************************************************)
EXTENDS Integers, FiniteSets

CONSTANTS
    Worker,            \* runs that may be alive at the same time
    Source,            \* sources: a name and a category, which are unique
    Target,            \* watch targets
    Finding,
    Parent,            \* the source that an entity's candidate source was found in
    Batch,             \* findings exported by one run
    DailyLimit,        \* auto_growth_daily_limit
    ParentLimit,       \* auto_growth_per_parent_limit
    MaxPages,          \* bound: pages made for one row
    MaxScans,          \* bound: scans of a source
    MaxCuts,           \* bound: runs cut short, and resets
    Scopes             \* bound: the events that may happen together in one behaviour, the
                       \* rows they happen to and the texts that are written there

Key == Source \cup Target \cup Finding

\* A page's id: the row it is about, and a number.
Page == Key \X (1 .. MaxPages)

NoPage == <<"none", 0>>

ASSUME NotionAssumption ==
    /\ IsFiniteSet(Worker) /\ Worker # {} /\ IsFiniteSet(Source)
    /\ Source \cap Target = {} /\ Source \cap Finding = {} /\ Target \cap Finding = {}
    /\ Parent \in [Source -> Source]
    /\ Batch \in Nat \ {0} /\ DailyLimit \in Nat \ {0} /\ ParentLimit \in Nat \ {0}
    /\ MaxPages \in Nat \ {0} /\ MaxScans \in Nat /\ MaxCuts \in Nat
    /\ NoPage \notin Page
    /\ \A s \in Scopes : s.texts \subseteq {"plain", "padded", "long"}

OnboardingStatus == {"absent", "new", "queued", "bootstrap_pending", "paused", "active"}

\* The free text of a source or its page, its notes and its secondary URLs: it fits
\* the page as it is, has blanks or empty lines to lose, or has more than the 2000
\* characters a property holds; "cut" is what is left of such a text.
Texts == {"plain", "padded", "long", "cut"}

\* A row of sources: what the registry shows of it.
Row == [status : OnboardingStatus, active : BOOLEAN, ingested : Nat, text : Texts]

Absent == [status |-> "absent", active |-> FALSE, ingested |-> 0, text |-> "plain"]

FindingStatus == {"absent", "new", "dismissed", "deleted"}

\* What a page says: its Status, and for a source its backfill status, its dates and
\* its text.
Text == [shown : {"active", "paused", "candidate", "absent", "new", "dismissed"},
         status : OnboardingStatus, ingested : Nat, text : Texts]

Blank == [shown |-> "absent", status |-> "absent", ingested |-> 0, text |-> "plain"]

VARIABLES
    row,               \* sources
    job,               \* agent_jobs: the onboarder of each source
    grown,             \* sources: those grown today
    marked,            \* findings: status
    page,              \* sources, watch_targets, findings: notion_page_id
    registry,          \* integration_states: the registry database recorded, or 0
    bases,             \* Notion: registry databases, numbered from 1
    notion,            \* Notion: what each page says
    home,              \* Notion: the database each registry page is in
    bin,               \* Notion: pages in the trash
    digests,           \* notifications: records of today's digest
    posts,             \* Slack: today's digests posted
    task, pc,          \* what each worker does, and where it is
    at,                \* the registry database it uses
    todo,              \* the rows it has still to deal with
    copy,              \* the sources it has loaded
    seen,              \* the registry pages it has queried
    held,              \* the pages it has made and not yet recorded
    was, now,          \* the findings' statuses it has loaded; and read from Notion
    cuts,              \* runs cut short and resets so far
    scope,             \* bound: the scope of the behaviour
    lost,              \* history: pages made by a run that did not commit them
    typed,             \* history: pages made by people
    diverged,          \* history: sources changed, here or there, since they agreed
    dropped            \* history: digest records that were lost after the post

tableVars == <<row, job, grown, marked, page, registry, digests>>
notionVars == <<bases, notion, home, bin, posts>>
workVars == <<at, todo, copy, seen, held, was, now>>
historyVars == <<lost, typed, diverged, dropped>>
vars == <<tableVars, notionVars, task, pc, workVars, cuts, scope, historyVars>>

TypeOK ==
    /\ row \in [Source -> Row]
    /\ job \in [Source -> {"none", "pending", "running", "done"}]
    /\ grown \subseteq Source
    /\ marked \in [Finding -> FindingStatus]
    /\ page \in [Key -> Page \cup {NoPage}]
    /\ registry \in Nat /\ bases \in Nat /\ digests \in Nat /\ posts \in Nat
    /\ notion \in [Page -> Text] /\ home \in [Page -> Nat] /\ bin \subseteq Page
    /\ task \in [Worker -> {"none", "sync", "export", "after", "pull", "control", "digest",
                            "grow", "onboard"}]
    /\ pc \in [Worker -> {"idle", "create", "ready", "locked", "open", "posted"}]
    /\ at \in [Worker -> Nat]
    /\ todo \in [Worker -> SUBSET Key]
    /\ copy \in [Worker -> [Source -> Row]]
    /\ seen \in [Worker -> [Page -> Text]]
    /\ held \in [Worker -> SUBSET Page]
    /\ was \in [Worker -> [Finding -> FindingStatus]]
    /\ now \in [Worker -> [Finding -> FindingStatus]]
    /\ cuts \in Nat /\ scope \in Scopes
    /\ lost \subseteq Page /\ typed \subseteq Page /\ diverged \subseteq Source
    /\ dropped \in Nat

\* A scope of "setup" begins without the control plane.
Init ==
    /\ scope \in Scopes
    /\ row = [s \in Source |-> Absent]
    /\ job = [s \in Source |-> "none"]
    /\ grown = {}
    /\ marked = [f \in Finding |-> "absent"]
    /\ page = [k \in Key |-> NoPage]
    /\ bases = IF "setup" \in scope.events THEN 0 ELSE 1
    /\ registry = bases
    /\ notion = [p \in Page |-> Blank]
    /\ home = [p \in Page |-> 0]
    /\ bin = {} /\ digests = 0 /\ posts = 0
    /\ task = [w \in Worker |-> "none"]
    /\ pc = [w \in Worker |-> "idle"]
    /\ at = [w \in Worker |-> 0]
    /\ todo = [w \in Worker |-> {}]
    /\ copy = [w \in Worker |-> [s \in Source |-> Absent]]
    /\ seen = [w \in Worker |-> [p \in Page |-> Blank]]
    /\ held = [w \in Worker |-> {}]
    /\ was = [w \in Worker |-> [f \in Finding |-> "absent"]]
    /\ now = was
    /\ cuts = 0
    /\ lost = {} /\ typed = {} /\ diverged = {} /\ dropped = 0

Exists(s) == row[s] # Absent

Made(p) == notion[p] # Blank

-----------------------------------------------------------------------------
(* What a page says of its row, and what a row takes from its page *)

\* A page holds 2000 characters of the notes and of the URLs.
Shortened(text) == IF text = "long" THEN "cut" ELSE text

\* What is read back is stripped, and the URLs split again into lines that are not empty.
Stripped(text) == IF text = "padded" THEN "plain" ELSE text

\* What becomes of a text that goes to its page and comes back.
Fitted(text) == Stripped(Shortened(text))

Properties_Active(r) ==
    [shown |-> "active", status |-> r.status, ingested |-> r.ingested,
     text |-> Shortened(r.text)]

Properties(r) ==
    [shown |-> IF r.active THEN "active" ELSE "paused", status |-> r.status,
     ingested |-> r.ingested, text |-> Shortened(r.text)]

NotionSource_Status(t) ==
    [status |-> t.shown, active |-> t.shown = "active", ingested |-> t.ingested,
     text |-> Stripped(t.text)]

NotionSource(t) ==
    [status |-> t.status, active |-> t.shown = "active", ingested |-> t.ingested,
     text |-> Stripped(t.text)]

\* Notion makes a page of its own for every call.
MakePage(k, text, base) ==
    \E n \in 1 .. MaxPages :
        /\ ~Made(<<k, n>>) /\ \A m \in 1 .. n - 1 : Made(<<k, m>>)
        /\ notion' = [notion EXCEPT ![<<k, n>>] = text]
        /\ home' = [home EXCEPT ![<<k, n>>] = base]

-----------------------------------------------------------------------------
(* A worker's transaction *)

\* The worker is done; its session forgets what it has not committed.
Rest(w) ==
    /\ task' = [task EXCEPT ![w] = "none"]
    /\ pc' = [pc EXCEPT ![w] = "idle"]
    /\ at' = [at EXCEPT ![w] = 0]
    /\ todo' = [todo EXCEPT ![w] = {}]
    /\ copy' = [copy EXCEPT ![w] = [s \in Source |-> Absent]]
    /\ seen' = [seen EXCEPT ![w] = [p \in Page |-> Blank]]
    /\ held' = [held EXCEPT ![w] = {}]
    /\ was' = [was EXCEPT ![w] = [f \in Finding |-> "absent"]]
    /\ now' = [now EXCEPT ![w] = [f \in Finding |-> "absent"]]

\* The run raises, and takes nothing back in Notion or in Slack; the job queue
\* runs a job again.
Rollback(w) ==
    /\ lost' = lost \cup held[w]
    /\ dropped' = IF pc[w] = "posted" THEN dropped + 1 ELSE dropped
    /\ job' = [s \in Source |-> IF task[w] = "onboard" /\ s \in todo[w] THEN "pending"
                                ELSE job[s]]
    /\ Rest(w)
    /\ UNCHANGED <<row, grown, marked, page, registry, digests, notionVars, typed, diverged>>

\* A time limit, a crash, a call to Notion that failed.
CutShort(w) ==
    /\ "cut" \in scope.events /\ pc[w] # "idle" /\ cuts < MaxCuts
    /\ cuts' = cuts + 1
    /\ Rollback(w)

-----------------------------------------------------------------------------
(* ensure_control_plane *)

\* The registry database is the one recorded, or one that the search finds.
ReadState(w) ==
    \/ /\ registry # 0
       /\ at' = [at EXCEPT ![w] = registry]
       /\ pc' = [pc EXCEPT ![w] = "ready"]
    \/ /\ registry = 0 /\ bases # 0
       /\ \E b \in 1 .. bases : at' = [at EXCEPT ![w] = b]
       /\ pc' = [pc EXCEPT ![w] = "ready"]
    \/ /\ registry = 0 /\ bases = 0
       /\ pc' = [pc EXCEPT ![w] = "create"]
       /\ UNCHANGED at

Begin(w, t) ==
    /\ t \in scope.events /\ pc[w] = "idle"
    /\ task' = [task EXCEPT ![w] = t]
    /\ ReadState(w)
    /\ UNCHANGED <<tableVars, notionVars, todo, copy, seen, held, was, now, cuts, historyVars>>

RunFullNotionSync(w) == Begin(w, "sync")

\* run_scan exports its findings, if it has found any.
SyncAfterScan(w) == Begin(w, "after") /\ \E f \in Finding : marked[f] # "absent"

\* The task of the control plane, and the registry's webhook.
RunNotionControlPlane(w) == Begin(w, "control")

CreateDatabase(w) ==
    /\ pc[w] = "create"
    /\ bases' = bases + 1
    /\ at' = [at EXCEPT ![w] = bases + 1]
    /\ pc' = [pc EXCEPT ![w] = "ready"]
    /\ UNCHANGED <<tableVars, notion, home, bin, posts, task, todo, copy, seen, held, was, now,
                   cuts, historyVars>>

StateFree_SameTask(w) == \A v \in Worker \ {w} : pc[v] # "locked" \/ task[v] # task[w]

StateFree_Unlocked(w) == TRUE

\* upsert_integration_state waits for the lock of the row, and takes it.
StateFree(w) == \A v \in Worker \ {w} : pc[v] # "locked"

UpsertState(w, t) ==
    /\ task[w] = t /\ pc[w] = "ready" /\ StateFree(w)
    /\ pc' = [pc EXCEPT ![w] = "locked"]

-----------------------------------------------------------------------------
(* reconcile_source_registry *)

QueryPages(w) ==
    /\ UpsertState(w, "control")
    /\ seen' = [seen EXCEPT ![w] =
                    [p \in Page |-> IF p[1] \in Source /\ p \notin bin /\ home[p] = at[w]
                                    THEN notion[p] ELSE Blank]]
    /\ UNCHANGED <<tableVars, notionVars, task, at, todo, copy, held, was, now, cuts, historyVars>>

Seen(w) == {p \in Page : seen[w][p] # Blank}

\* A page that no row has recorded is inserted as a new source, whose name and
\* category may be taken.
Collides(w, p) ==
    /\ page[p[1]] # p
    /\ Exists(p[1]) \/ \E q \in Seen(w) \ {p} : q[1] = p[1]

PageOf(w, k) == CHOOSE p \in Seen(w) : p[1] = k

Reconciled(w, s) ==
    IF \E p \in Seen(w) : p[1] = s THEN NotionSource(seen[w][PageOf(w, s)]) ELSE row[s]

Waiting == {"new", "queued", "bootstrap_pending"}

\* The rows are overwritten, the onboarders enqueued and all of it committed.
ReconcileSourceRegistry(w) ==
    /\ task[w] = "control" /\ pc[w] = "locked"
    /\ \A p \in Seen(w) : ~Collides(w, p)
    /\ row' = [s \in Source |-> Reconciled(w, s)]
    /\ job' = [s \in Source |-> IF job[s] = "none" /\ Reconciled(w, s).status \in Waiting
                                THEN "pending" ELSE job[s]]
    /\ page' = [k \in Key |-> IF \E p \in Seen(w) : p[1] = k
                              THEN PageOf(w, k) ELSE page[k]]
    /\ registry' = at[w]
    /\ diverged' = (diverged \ {p[1] : p \in Seen(w)})
                    \cup {p[1] : p \in {q \in Seen(w) : notion[q] # seen[w][q]}}
    /\ Rest(w)
    /\ UNCHANGED <<grown, marked, digests, notionVars, cuts, lost, typed, dropped>>

RegistryCollides(w) ==
    /\ task[w] = "control" /\ pc[w] = "locked"
    /\ \E p \in Seen(w) : Collides(w, p)
    /\ Rollback(w)
    /\ UNCHANGED cuts

-----------------------------------------------------------------------------
(* run_full_notion_sync: sources and watch targets in one transaction, then the *)
(* findings in one, then the statuses                                           *)

\* The rows are loaded; a watch target is there from the start.
LoadRows(w) ==
    /\ UpsertState(w, "sync")
    /\ copy' = [copy EXCEPT ![w] = row]
    /\ todo' = [todo EXCEPT ![w] = {s \in Source : Exists(s)} \cup (Target \cap scope.rows)]
    /\ UNCHANGED <<tableVars, notionVars, task, at, seen, held, was, now, cuts, historyVars>>

\* The findings' transaction begins with the state as it is now.
ReadAgain(w) ==
    /\ task[w] = "export" /\ pc[w] = "open"
    /\ ReadState(w)
    /\ UNCHANGED <<tableVars, notionVars, task, todo, copy, seen, held, was, now, cuts,
                   historyVars>>

\* Findings without a page, at most Batch of them.
Unexported == {f \in Finding : marked[f] = "new" /\ page[f] = NoPage}

LoadFindings(w) ==
    /\ \E t \in {"export", "after"} : UpsertState(w, t)
    /\ \E F \in SUBSET Unexported :
          /\ Cardinality(F) <= Batch
          /\ Cardinality(F) < Batch => F = Unexported
          /\ todo' = [todo EXCEPT ![w] = F]
    /\ was' = [was EXCEPT ![w] = marked]
    /\ UNCHANGED <<tableVars, notionVars, task, at, copy, seen, held, now, cuts, historyVars>>

\* What the sync writes on the page of a row, from the copy it has loaded.
Says(w, k) ==
    CASE k \in Source -> Properties(copy[w][k])
      [] k \in Target -> [shown |-> "active", status |-> "absent", ingested |-> 0,
                                text |-> "plain"]
      [] k \in Finding -> [shown |-> was[w][k], status |-> "absent", ingested |-> 0,
                                 text |-> "plain"]

\* A source's page says what the source is, unless the source has changed since.
Agreed(w, k) ==
    IF k \notin Source THEN diverged
    ELSE IF copy[w][k] = row[k] THEN diverged \ {k} ELSE diverged \cup {k}

Pushing(w, k) ==
    task[w] \in {"sync", "export", "after"} /\ pc[w] = "locked" /\ k \in todo[w]

UpdatePage(w, k) ==
    /\ Pushing(w, k) /\ page[k] \in Page \ bin
    /\ notion' = [notion EXCEPT ![page[k]] = Says(w, k)]
    /\ todo' = [todo EXCEPT ![w] = @ \ {k}]
    /\ diverged' = Agreed(w, k)
    /\ UNCHANGED <<tableVars, bases, home, bin, posts, task, pc, at, copy, seen, held, was, now,
                   cuts, lost, typed, dropped>>

\* Notion refuses to change a page that is in the trash.
UpdateRefused(w, k) ==
    /\ Pushing(w, k) /\ page[k] \in bin
    /\ Rollback(w)
    /\ UNCHANGED cuts

CreatePage(w, k) ==
    /\ Pushing(w, k) /\ page[k] = NoPage
    /\ MakePage(k, Says(w, k), at[w])
    /\ held' = [held EXCEPT ![w] = @ \cup {p \in Page : Made(p)' /\ ~Made(p)}]
    /\ todo' = [todo EXCEPT ![w] = @ \ {k}]
    /\ diverged' = Agreed(w, k)
    /\ UNCHANGED <<tableVars, bases, bin, posts, task, pc, at, copy, seen, was, now, cuts, lost,
                   typed, dropped>>

Recorded(w) ==
    [k \in Key |-> IF \E p \in held[w] : p[1] = k THEN CHOOSE p \in held[w] : p[1] = k
                   ELSE page[k]]

\* The first transaction is committed.
CommitRows(w) ==
    /\ task[w] = "sync" /\ pc[w] = "locked" /\ todo[w] = {}
    /\ page' = Recorded(w)
    /\ registry' = at[w]
    /\ task' = [task EXCEPT ![w] = "export"]
    /\ pc' = [pc EXCEPT ![w] = "open"]
    /\ held' = [held EXCEPT ![w] = {}]
    /\ copy' = [copy EXCEPT ![w] = [s \in Source |-> Absent]]
    /\ UNCHANGED <<row, job, grown, marked, digests, notionVars, at, todo, seen, was, now, cuts,
                   historyVars>>

\* pull_status_updates begins with every finding that has a page.
CommitFindings(w) ==
    /\ task[w] = "export" /\ pc[w] = "locked" /\ todo[w] = {}
    /\ \A p \in held[w] : marked[p[1]] # "deleted"
    /\ page' = Recorded(w)
    /\ registry' = at[w]
    /\ task' = [task EXCEPT ![w] = "pull"]
    /\ pc' = [pc EXCEPT ![w] = "open"]
    /\ held' = [held EXCEPT ![w] = {}]
    /\ todo' = [todo EXCEPT ![w] = {f \in Finding : marked[f] # "deleted" /\ page'[f] # NoPage}]
    /\ was' = [was EXCEPT ![w] = marked]
    /\ now' = [now EXCEPT ![w] = marked]
    /\ UNCHANGED <<row, job, grown, marked, digests, notionVars, at, copy, seen, cuts, historyVars>>

\* A scan's export ends with its commit.
CommitAfterScan(w) ==
    /\ task[w] = "after" /\ pc[w] = "locked" /\ todo[w] = {}
    /\ \A p \in held[w] : marked[p[1]] # "deleted"
    /\ page' = Recorded(w)
    /\ registry' = at[w]
    /\ Rest(w)
    /\ UNCHANGED <<row, job, grown, marked, digests, notionVars, cuts, historyVars>>

\* A finding was deleted before its page id could be written.
FindingGone(w) ==
    /\ task[w] \in {"export", "after"} /\ pc[w] = "locked" /\ todo[w] = {}
    /\ \E p \in held[w] : marked[p[1]] = "deleted"
    /\ Rollback(w)
    /\ UNCHANGED cuts

RetrieveStatus(w, f) ==
    /\ task[w] = "pull" /\ f \in todo[w]
    /\ now' = [now EXCEPT ![w][f] = notion[page[f]].shown]
    /\ todo' = [todo EXCEPT ![w] = @ \ {f}]
    /\ UNCHANGED <<tableVars, notionVars, task, pc, at, copy, seen, held, was, cuts, historyVars>>

Changed_NotDismissed(w) ==
    {f \in Finding : now[w][f] # was[w][f] /\ now[w][f] # "dismissed"}

Changed(w) == {f \in Finding : now[w][f] # was[w][f]}

\* An UPDATE of a finding that is gone raises.
PullStatusUpdates(w) ==
    /\ task[w] = "pull" /\ todo[w] = {}
    /\ IF \E f \in Changed(w) : marked[f] = "deleted"
       THEN Rollback(w)
       ELSE /\ marked' = [f \in Finding |-> IF f \in Changed(w) THEN now[w][f] ELSE marked[f]]
            /\ Rest(w)
            /\ UNCHANGED <<row, job, grown, page, registry, digests, notionVars, historyVars>>
    /\ UNCHANGED cuts

-----------------------------------------------------------------------------
(* maybe_create_source_from_entity and onboard_source, in jobs of the queue *)

UnderGrowthCap_OneMore(s) ==
    /\ Cardinality(grown) <= DailyLimit
    /\ Cardinality({g \in grown : Parent[g] = Parent[s]}) < ParentLimit

\* Counted before the insert.
UnderGrowthCap(s) ==
    /\ Cardinality(grown) < DailyLimit
    /\ Cardinality({g \in grown : Parent[g] = Parent[s]}) < ParentLimit

\* A promising entity has a page of its own that is no source yet.
ExpandSource(w, s) ==
    /\ "grow" \in scope.events /\ pc[w] = "idle" /\ ~Exists(s) /\ UnderGrowthCap(s)
    /\ task' = [task EXCEPT ![w] = "grow"]
    /\ pc' = [pc EXCEPT ![w] = "open"]
    /\ todo' = [todo EXCEPT ![w] = {s}]
    /\ UNCHANGED <<tableVars, notionVars, at, copy, seen, held, was, now, cuts, historyVars>>

\* The source and its onboarder; or the name is taken by now, and the job raises.
CommitExpansion(w, s) ==
    /\ task[w] = "grow" /\ s \in todo[w]
    /\ IF Exists(s) THEN Rollback(w)
       ELSE /\ \E text \in scope.texts :
                 row' = [row EXCEPT ![s] = [status |-> "queued", active |-> FALSE,
                                            ingested |-> 0, text |-> text]]
            /\ grown' = grown \cup {s}
            /\ job' = [job EXCEPT ![s] = IF @ = "none" THEN "pending" ELSE @]
            /\ Rest(w)
            /\ UNCHANGED <<marked, page, registry, digests, notionVars, historyVars>>
    /\ UNCHANGED cuts

StartOnboarding(w, s) ==
    /\ "onboard" \in scope.events /\ pc[w] = "idle" /\ job[s] = "pending"
    /\ job' = [job EXCEPT ![s] = "running"]
    /\ task' = [task EXCEPT ![w] = "onboard"]
    /\ pc' = [pc EXCEPT ![w] = "open"]
    /\ todo' = [todo EXCEPT ![w] = {s}]
    /\ copy' = [copy EXCEPT ![w] = row]
    /\ UNCHANGED <<row, grown, marked, page, registry, digests, notionVars, at, seen, held, was,
                   now, cuts, historyVars>>

\* The notes with the rationale appended, and stripped.
Annotated(text) == IF text \in {"plain", "padded"} THEN {"plain", "long"} ELSE {"long"}

\* The UPDATE names the columns that differ from the copy of before the LLM call; there
\* may be no rationale.
OnboardSource(w, s) ==
    /\ task[w] = "onboard" /\ s \in todo[w]
    /\ \E activate \in BOOLEAN,
          text \in {row[s].text} \cup (Annotated(copy[w][s].text) \cap scope.texts) :
          LET status == IF activate THEN "bootstrap_pending" ELSE "paused" IN
          row' = [row EXCEPT
                    ![s].active = IF activate # copy[w][s].active THEN activate ELSE @,
                    ![s].status = IF status # copy[w][s].status THEN status ELSE @,
                    ![s].text = text]
    /\ job' = [job EXCEPT ![s] = "done"]
    /\ diverged' = diverged \cup {s}
    /\ Rest(w)
    /\ UNCHANGED <<grown, marked, page, registry, digests, notionVars, cuts, lost, typed, dropped>>

-----------------------------------------------------------------------------
(* send_morning_digest *)

AlreadySent_Never == FALSE

\* Looked up by the date; two records of a date make the lookup raise.
AlreadySent == digests # 0

SendMorningDigest(w) ==
    /\ "digest" \in scope.events /\ pc[w] = "idle" /\ ~AlreadySent
    /\ task' = [task EXCEPT ![w] = "digest"]
    /\ pc' = [pc EXCEPT ![w] = "open"]
    /\ UNCHANGED <<tableVars, notionVars, workVars, cuts, historyVars>>

PostMessage(w) ==
    /\ task[w] = "digest" /\ pc[w] = "open"
    /\ posts' = posts + 1
    /\ pc' = [pc EXCEPT ![w] = "posted"]
    /\ UNCHANGED <<tableVars, bases, notion, home, bin, task, workVars, cuts, historyVars>>

RecordDigest(w) ==
    /\ pc[w] = "posted"
    /\ digests' = digests + 1
    /\ Rest(w)
    /\ UNCHANGED <<row, job, grown, marked, page, registry, notionVars, cuts, historyVars>>

-----------------------------------------------------------------------------
(* The API, the scan pipeline, and people in Notion *)

CreateSource(s) ==
    /\ "api" \in scope.events /\ ~Exists(s)
    /\ \E text \in scope.texts :
          row' = [row EXCEPT ![s] = [status |-> "new", active |-> TRUE, ingested |-> 0,
                                     text |-> text]]
    /\ job' = [job EXCEPT ![s] = "pending"]
    /\ UNCHANGED <<grown, marked, page, registry, digests, notionVars, task, pc, workVars, cuts,
                   historyVars>>

ScanSource(s) ==
    /\ "scan" \in scope.events /\ row[s].active /\ row[s].ingested < MaxScans
    /\ row' = [row EXCEPT ![s].status = "active", ![s].ingested = @ + 1]
    /\ diverged' = diverged \cup {s}
    /\ UNCHANGED <<job, grown, marked, page, registry, digests, notionVars, task, pc, workVars,
                   cuts, lost, typed, dropped>>

StoreFinding(f) ==
    /\ "findings" \in scope.events /\ marked[f] = "absent"
    /\ marked' = [marked EXCEPT ![f] = "new"]
    /\ UNCHANGED <<row, job, grown, page, registry, digests, notionVars, task, pc, workVars, cuts,
                   historyVars>>

\* The findings and the notifications are deleted.
ResetFindings ==
    /\ "reset" \in scope.events /\ cuts < MaxCuts
    /\ cuts' = cuts + 1
    /\ marked' = [f \in Finding |-> IF marked[f] = "absent" THEN "absent" ELSE "deleted"]
    /\ digests' = 0
    /\ dropped' = dropped + digests
    /\ UNCHANGED <<row, job, grown, page, registry, notionVars, task, pc, workVars, lost, typed,
                   diverged>>

\* A person enters a source in the registry: at most one page per source.  What is
\* typed in Notion may be longer than what can be written there at once.
AddPage(s) ==
    /\ "person" \in scope.events /\ registry # 0 /\ \A p \in typed : p[1] # s
    /\ \E shown \in {"active", "candidate"}, text \in scope.texts :
          MakePage(s, [shown |-> shown, status |-> "new", ingested |-> 0, text |-> text],
                   registry)
    /\ typed' = typed \cup {p \in Page : Made(p)' /\ ~Made(p)}
    /\ UNCHANGED <<tableVars, bases, bin, posts, task, pc, workVars, cuts, lost, diverged, dropped>>

\* A person pauses a source, or dismisses a finding.
EditPage(p) ==
    /\ "edit" \in scope.events /\ Made(p) /\ p \notin bin /\ p[1] \notin Target
    /\ LET shown == IF p[1] \in Source THEN "paused" ELSE "dismissed" IN
       /\ notion[p].shown # shown
       /\ notion' = [notion EXCEPT ![p].shown = shown]
    /\ diverged' = IF p[1] \in Source THEN diverged \cup {p[1]} ELSE diverged
    /\ UNCHANGED <<tableVars, bases, home, bin, posts, task, pc, workVars, cuts, lost, typed,
                   dropped>>

TrashPage(p) ==
    /\ "trash" \in scope.events /\ Made(p) /\ p \notin bin
    /\ bin' = bin \cup {p}
    /\ UNCHANGED <<tableVars, bases, notion, home, posts, task, pc, workVars, cuts, historyVars>>

-----------------------------------------------------------------------------
Sync(w) ==
    \/ RunFullNotionSync(w)
    \/ task[w] # "control" /\ CreateDatabase(w)
    \/ LoadRows(w) \/ CommitRows(w) \/ ReadAgain(w)
    \/ LoadFindings(w) \/ CommitFindings(w) \/ CommitAfterScan(w) \/ FindingGone(w)
    \/ \E k \in Key : UpdatePage(w, k) \/ UpdateRefused(w, k) \/ CreatePage(w, k)
    \/ \E f \in Finding : RetrieveStatus(w, f)
    \/ PullStatusUpdates(w)

Control(w) ==
    \/ task[w] = "control" /\ CreateDatabase(w)
    \/ QueryPages(w) \/ ReconcileSourceRegistry(w) \/ RegistryCollides(w)

Jobs(w) ==
    \E s \in Source \cap scope.rows : \/ ExpandSource(w, s) \/ CommitExpansion(w, s)
                                   \/ StartOnboarding(w, s) \/ OnboardSource(w, s)

Digest(w) == SendMorningDigest(w) \/ PostMessage(w) \/ RecordDigest(w)

Others ==
    \/ \E s \in Source \cap scope.rows : CreateSource(s) \/ ScanSource(s) \/ AddPage(s)
    \/ \E f \in Finding \cap scope.rows : StoreFinding(f)
    \/ \E p \in Page : EditPage(p) \/ TrashPage(p)
    \/ ResetFindings

Next ==
    /\ \/ Others
       \/ \E w \in Worker : \/ Sync(w) \/ SyncAfterScan(w) \/ RunNotionControlPlane(w) \/ Control(w)
                            \/ Jobs(w) \/ Digest(w) \/ CutShort(w)
    /\ UNCHANGED scope

Spec == Init /\ [][Next]_vars

Fairness ==
    \A w \in Worker : /\ WF_vars((Sync(w) \/ Control(w)) /\ UNCHANGED scope)
                     /\ SF_vars(RunFullNotionSync(w) /\ UNCHANGED scope)

FairSpec == Spec /\ Fairness

-----------------------------------------------------------------------------
(* What the control plane promises *)

\* Pages that are about a row for good, or will be once their run commits.
Live(k) ==
    {p \in Page : /\ p[1] = k /\ Made(p) /\ p \notin lost
                  /\ p \in typed => page[k] = p}

\* No two runs, however they overlap, make a page for the same row: a row has a second
\* page only if a run made one and was cut before its commit, or a person did.
OnePagePerRow == \A k \in Key : Cardinality(Live(k)) <= 1

\* The registry cannot be reconciled while it holds a page for a source that has
\* another one or none; no overlap of syncs brings that about.
CollisionsAreForeign ==
    [][\A w \in Worker : RegistryCollides(w) =>
          \A p \in Seen(w) : Collides(w, p) => p \in lost \cup typed]_vars

\* A source that nobody has changed, here or on its page, since a sync or a reconcile
\* made the two agree loses nothing to a reconcile but the text its page cannot hold:
\* blanks and empty lines, and what exceeds 2000 characters.  (What the onboarder and
\* the scans have written in between, a reconcile does take back.)
RoundTrip ==
    [][\A w \in Worker : ReconcileSourceRegistry(w) =>
          \A s \in Source : Exists(s) /\ s \notin diverged =>
              row'[s] \in {row[s], [row[s] EXCEPT !.text = Fitted(@)]}]_vars

\* The digest's record comes after the post: a date has a digest more than once only if
\* runs overlap, are cut in between, or the records are reset.
DigestOnce == posts <= Cardinality(Worker) + dropped

\* The limits of a day's growth are checked before the insert: overlapping jobs overrun
\* them by at most one source each.
GrowthCapped ==
    /\ Cardinality(grown) < DailyLimit + Cardinality(Worker)
    /\ \A s \in Source :
          Cardinality({g \in grown : Parent[g] = Parent[s]})
              < ParentLimit + Cardinality(Worker)

Blocked == \E k \in Source \cup Target : page[k] \in bin

\* Every finding gets its page, and its status follows the page's, however often a run
\* is cut; but one registry or watchlist page in the trash stops the export for good.
FindingsFollowNotion ==
    []<>(Blocked \/ \A f \in Finding :
            \/ marked[f] \in {"absent", "deleted"}
            \/ page[f] # NoPage /\ marked[f] = notion[page[f]].shown)
=============================================================================
