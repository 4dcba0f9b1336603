--------------------------- MODULE NotionSyncProofs ---------------------------
(***************************************************************************)
(* Proofs about the Notion control plane, for any number of runs, sources, *)
(* watch targets and findings: types, one page per row, collisions only    *)
(* over foreign pages, what an untouched page gives back, and the limits   *)
(* of the digest and of a day's growth.                                    *)
(***************************************************************************)
EXTENDS NotionSync, FiniteSetTheorems, TLAPS

\* What a run does that ends without an error.
StatusesPulled(w) ==
    /\ task[w] = "pull" /\ todo[w] = {}
    /\ marked' = [f \in Finding |-> IF f \in Changed(w) THEN now[w][f] ELSE marked[f]]
    /\ Rest(w)
    /\ UNCHANGED <<row, job, grown, page, registry, digests, notionVars, cuts, historyVars>>

SourceGrown(w, s) ==
    /\ task[w] = "grow" /\ s \in todo[w] /\ ~Exists(s)
    /\ \E text \in scope.texts :
          row' = [row EXCEPT ![s] = [status |-> "queued", active |-> FALSE, ingested |-> 0,
                                     text |-> text]]
    /\ grown' = grown \cup {s}
    /\ job' = [job EXCEPT ![s] = IF @ = "none" THEN "pending" ELSE @]
    /\ Rest(w)
    /\ UNCHANGED <<marked, page, registry, digests, notionVars, cuts, historyVars>>

\* Every step is one of these; runs that raise have Rollback in common.
LEMMA Steps ==
  ASSUME [Next]_vars
  PROVE  \/ \E w \in Worker :
              \/ RunFullNotionSync(w) \/ SyncAfterScan(w) \/ RunNotionControlPlane(w)
              \/ CreateDatabase(w)
              \/ LoadRows(w) \/ CommitRows(w) \/ LoadFindings(w) \/ ReadAgain(w)
              \/ CommitFindings(w) \/ CommitAfterScan(w)
              \/ StatusesPulled(w) \/ QueryPages(w) \/ ReconcileSourceRegistry(w)
              \/ SendMorningDigest(w) \/ PostMessage(w) \/ RecordDigest(w)
              \/ Rollback(w) /\ cuts' \in {cuts, cuts + 1}
              \/ \E k \in Key : UpdatePage(w, k) \/ CreatePage(w, k)
              \/ \E f \in Finding : RetrieveStatus(w, f)
              \/ \E s \in Source : \/ ExpandSource(w, s) \/ SourceGrown(w, s)
                                   \/ StartOnboarding(w, s) \/ OnboardSource(w, s)
         \/ \E s \in Source : CreateSource(s) \/ ScanSource(s) \/ AddPage(s)
         \/ \E f \in Finding : StoreFinding(f)
         \/ \E p \in Page : EditPage(p) \/ TrashPage(p)
         \/ ResetFindings
         \/ UNCHANGED vars
<1>1. ASSUME NEW w \in Worker, PullStatusUpdates(w)
      PROVE  StatusesPulled(w) \/ (Rollback(w) /\ cuts' = cuts)
  BY <1>1 DEF PullStatusUpdates, StatusesPulled
<1>2. ASSUME NEW w \in Worker, NEW s \in Source, CommitExpansion(w, s)
      PROVE  SourceGrown(w, s) \/ (Rollback(w) /\ cuts' = cuts)
  BY <1>2 DEF CommitExpansion, SourceGrown
<1>3. ASSUME NEW w \in Worker, FindingGone(w) \/ RegistryCollides(w)
      PROVE  Rollback(w) /\ cuts' = cuts
  BY <1>3 DEF FindingGone, RegistryCollides
<1>4. ASSUME NEW w \in Worker, CutShort(w)
      PROVE  Rollback(w) /\ cuts' = cuts + 1
  BY <1>4 DEF CutShort
<1>5. ASSUME NEW w \in Worker, NEW k \in Key, UpdateRefused(w, k)
      PROVE  Rollback(w) /\ cuts' = cuts
  BY <1>5 DEF UpdateRefused
<1>6. ASSUME NEW w \in Worker, Sync(w)
      PROVE  \/ RunFullNotionSync(w) \/ CreateDatabase(w)
             \/ LoadRows(w) \/ CommitRows(w) \/ LoadFindings(w) \/ ReadAgain(w)
             \/ CommitFindings(w) \/ CommitAfterScan(w)
             \/ StatusesPulled(w) \/ (Rollback(w) /\ cuts' \in {cuts, cuts + 1})
             \/ \E k \in Key : UpdatePage(w, k) \/ CreatePage(w, k)
             \/ \E f \in Finding : RetrieveStatus(w, f)
  BY <1>1, <1>3, <1>5, <1>6 DEF Sync
<1>7. ASSUME NEW w \in Worker, Control(w)
      PROVE  \/ CreateDatabase(w) \/ QueryPages(w) \/ ReconcileSourceRegistry(w)
             \/ Rollback(w) /\ cuts' \in {cuts, cuts + 1}
  BY <1>3, <1>7 DEF Control
<1>8. ASSUME NEW w \in Worker, Jobs(w)
      PROVE  \/ Rollback(w) /\ cuts' \in {cuts, cuts + 1}
             \/ \E s \in Source : \/ ExpandSource(w, s) \/ SourceGrown(w, s)
                                  \/ StartOnboarding(w, s) \/ OnboardSource(w, s)
  BY <1>2, <1>8 DEF Jobs
<1>9. ASSUME Others
      PROVE  \/ \E s \in Source : CreateSource(s) \/ ScanSource(s) \/ AddPage(s)
             \/ \E f \in Finding : StoreFinding(f)
             \/ \E p \in Page : EditPage(p) \/ TrashPage(p)
             \/ ResetFindings
  BY <1>9 DEF Others
<1> QED BY <1>4, <1>6, <1>7, <1>8, <1>9 DEF Next, Digest

LEMMA Keys ==
  /\ Source \subseteq Key /\ Finding \subseteq Key
  /\ \A p \in Page : p[1] \in Key /\ p = <<p[1], p[2]>>
  /\ \A k \in Key, n \in 1 .. MaxPages : <<k, n>> \in Page
  /\ Source \cap Finding = {} /\ NoPage \notin Page
  BY NotionAssumption DEF Key, Page

LEMMA WrittenTexts == TypeOK => scope.texts \subseteq Texts
  BY NotionAssumption DEF TypeOK, Texts

LEMMA FittedTexts ==
  \A t \in Texts : Shortened(t) \in Texts /\ Stripped(t) \in Texts /\ Fitted(t) \in Texts
  BY DEF Texts, Shortened, Stripped, Fitted

-----------------------------------------------------------------------------
(* Types, and what rows, pages and workers are where *)

\* What a worker has in hand goes with what it does.
Stage(w) ==
    /\ pc[w] = "idle" => task[w] = "none" /\ todo[w] = {}
    /\ pc[w] = "locked" => task[w] \in {"sync", "export", "after", "control"}
    /\ pc[w] = "posted" => task[w] = "digest"
    /\ held[w] # {} => pc[w] = "locked" /\ task[w] \in {"sync", "export", "after"}
    /\ task[w] = "sync" => todo[w] \cap Finding = {}
    /\ task[w] \in {"export", "after", "pull"} => todo[w] \subseteq Finding
    /\ task[w] \in {"export", "after"} => \A f \in todo[w] : was[w][f] = "new"
    /\ task[w] = "pull" => \A f \in todo[w] : page[f] # NoPage
    /\ task[w] = "sync" => \A s \in todo[w] \cap Source : copy[w][s].status # "absent"
    /\ task[w] \in {"sync", "onboard"} => \A s \in todo[w] \cap Source : Exists(s)

StageInv == \A w \in Worker : Stage(w)

\* Pages that are recorded, held or queried are there, and say what a row can take.
PageInv ==
    /\ \A k \in Key : page[k] # NoPage => page[k][1] = k /\ Made(page[k])
    /\ \A w \in Worker : \A p \in held[w] : Made(p)
    /\ \A w \in Worker, p \in Page :
          seen[w][p] # Blank => Made(p) /\ p[1] \in Source /\ seen[w][p].status # "absent"
    /\ \A p \in Page : Made(p) =>
          /\ p[1] \in Finding => notion[p].shown \in {"new", "dismissed"}
          /\ p[1] \in Source => notion[p].status # "absent"

\* A source that does not exist has left no traces.
RowInv ==
    \A s \in Source :
        /\ Exists(s) => row[s].status # "absent"
        /\ ~Exists(s) =>
              /\ job[s] = "none" /\ page[s] = NoPage
              /\ \A p \in Page : p[1] = s => p \notin lost /\ \A w \in Worker : p \notin held[w]

TInv == TypeOK /\ StageInv /\ PageInv /\ RowInv

LEMMA TypeInit == Init => TInv
<1> SUFFICES ASSUME Init PROVE TInv OBVIOUS
<1>1. TypeOK
  BY DEF Init, TypeOK, Absent, Blank, Row, Text, Texts, OnboardingStatus, FindingStatus
<1>2. StageInv BY DEF Init, StageInv, Stage
<1>3. PageInv BY DEF Init, PageInv, Made, Key
<1>4. RowInv BY Keys DEF Init, RowInv, Exists
<1> QED BY <1>1, <1>2, <1>3, <1>4 DEF TInv

LEMMA PageOfSeen ==
  ASSUME NEW w \in Worker, NEW k, NEW p \in Seen(w), p[1] = k
  PROVE  PageOf(w, k) \in Seen(w) /\ PageOf(w, k)[1] = k
  BY DEF PageOf

LEMMA SeenPages == \A w \in Worker : \A p : p \in Seen(w) <=> p \in Page /\ seen[w][p] # Blank
  BY DEF Seen

LEMMA RecordedIs ==
  ASSUME NEW w \in Worker, NEW k \in Key
  PROVE  \/ \E p \in held[w] : p[1] = k /\ Recorded(w)[k] = p
         \/ (\A p \in held[w] : p[1] # k) /\ Recorded(w)[k] = page[k]
<1>1. CASE \E p \in held[w] : p[1] = k
  <2>1. Recorded(w)[k] = CHOOSE p \in held[w] : p[1] = k BY <1>1 DEF Recorded
  <2>2. \E p \in held[w] : p[1] = k /\ p = CHOOSE q \in held[w] : q[1] = k BY <1>1
  <2> QED BY <2>1, <2>2
<1>2. CASE \A p \in held[w] : p[1] # k BY <1>2 DEF Recorded
<1> QED BY <1>1, <1>2

LEMMA RecordedType ==
  ASSUME TInv, NEW w \in Worker
  PROVE  /\ Recorded(w) \in [Key -> Page \cup {NoPage}]
         /\ \A k \in Key : page[k] # NoPage => Recorded(w)[k] # NoPage
         /\ \A k \in Key : Recorded(w)[k] # NoPage =>
               Recorded(w)[k][1] = k /\ Made(Recorded(w)[k])
         /\ \A s \in Source : ~Exists(s) => Recorded(w)[s] = NoPage
<1> USE Keys DEF TInv
<1>1. held[w] \subseteq Page /\ \A k \in Key : page[k] \in Page \cup {NoPage} BY DEF TypeOK
<1>2. \A k \in Key : Recorded(w)[k] \in Page \cup {NoPage} BY <1>1, RecordedIs
<1>3. Recorded(w) = [k \in Key |-> Recorded(w)[k]] BY DEF Recorded
<1>4. Recorded(w) \in [Key -> Page \cup {NoPage}] BY <1>2, <1>3
<1>5. ASSUME NEW s \in Source, ~Exists(s) PROVE Recorded(w)[s] = NoPage
  BY <1>1, <1>5, RecordedIs DEF RowInv
<1> QED BY <1>1, <1>4, <1>5, RecordedIs DEF PageInv

LEMMA RestType ==
  ASSUME TInv, NEW w \in Worker, Rest(w)
  PROVE  /\ task' \in [Worker -> {"none", "sync", "export", "after", "pull", "control", "digest",
                                  "grow", "onboard"}]
         /\ pc' \in [Worker -> {"idle", "create", "ready", "locked", "open", "posted"}]
         /\ at' \in [Worker -> Nat] /\ todo' \in [Worker -> SUBSET Key]
         /\ copy' \in [Worker -> [Source -> Row]] /\ seen' \in [Worker -> [Page -> Text]]
         /\ held' \in [Worker -> SUBSET Page]
         /\ was' \in [Worker -> [Finding -> FindingStatus]]
         /\ now' \in [Worker -> [Finding -> FindingStatus]]
<1>1. [s \in Source |-> Absent] \in [Source -> Row] BY DEF Absent, Row, Texts, OnboardingStatus
<1>2. [p \in Page |-> Blank] \in [Page -> Text] BY DEF Blank, Text, Texts, OnboardingStatus
<1>3. [f \in Finding |-> "absent"] \in [Finding -> FindingStatus] BY DEF FindingStatus
<1> QED BY <1>1, <1>2, <1>3 DEF Rest, TInv, TypeOK

\* Pages once recorded and sources once there stay so.
Kept ==
    /\ \A f \in Finding : page[f] # NoPage => page'[f] # NoPage
    /\ \A s \in Source : Exists(s) => Exists(s)'

\* A worker whose own variables do not change keeps its stage.
LEMMA StageFrame ==
  ASSUME TInv, Kept, NEW v \in Worker,
         task'[v] = task[v], pc'[v] = pc[v], todo'[v] = todo[v], held'[v] = held[v],
         was'[v] = was[v], copy'[v] = copy[v]
  PROVE  Stage(v)'
<1>1. Stage(v) BY DEF TInv, StageInv
<1> QED BY <1>1, Keys DEF Stage, Kept, TInv, TypeOK

\* A worker that rests has nothing in hand.
LEMMA RestStage ==
  ASSUME TInv, Kept, NEW w \in Worker, Rest(w)
  PROVE  StageInv'
<1>1. ASSUME NEW v \in Worker, v = w PROVE Stage(v)'
  BY <1>1 DEF Rest, Stage, TInv, TypeOK
<1>2. ASSUME NEW v \in Worker, v # w PROVE Stage(v)'
  <2>1. /\ task'[v] = task[v] /\ pc'[v] = pc[v] /\ todo'[v] = todo[v] /\ held'[v] = held[v]
        /\ was'[v] = was[v] /\ copy'[v] = copy[v]
    BY <1>2 DEF Rest, TInv, TypeOK
  <2> QED BY <2>1, StageFrame
<1> QED BY <1>1, <1>2 DEF StageInv

\* Workers that drop pages and queries disturb neither pages nor rows.
LEMMA Frames ==
  ASSUME TInv, UNCHANGED page,
         \A v \in Worker : held'[v] \subseteq held[v],
         \A v \in Worker, p \in Page : seen'[v][p] \in {seen[v][p], Blank}
  PROVE  /\ UNCHANGED notion => PageInv'
         /\ UNCHANGED <<row, job, lost>> => RowInv'
<1>1. UNCHANGED notion => PageInv' BY DEF TInv, PageInv, Made
<1>2. UNCHANGED <<row, job, lost>> => RowInv' BY DEF TInv, RowInv, Exists
<1> QED BY <1>1, <1>2

LEMMA RestFrames ==
  ASSUME TInv, NEW w \in Worker, Rest(w)
  PROVE  /\ \A v \in Worker : held'[v] \subseteq held[v]
         /\ \A v \in Worker, p \in Page : seen'[v][p] \in {seen[v][p], Blank}
  BY DEF Rest, TInv, TypeOK

LEMMA RollbackType ==
  ASSUME TInv, NEW w \in Worker, Rollback(w), cuts' \in {cuts, cuts + 1}, scope' = scope
  PROVE  TInv'
<1> USE DEF TInv
<1>1. /\ UNCHANGED <<row, grown, marked, page, registry, digests, notionVars, typed, diverged>>
      /\ Rest(w)
      /\ lost' = lost \cup held[w]
      /\ dropped' = IF pc[w] = "posted" THEN dropped + 1 ELSE dropped
      /\ job' = [s \in Source |-> IF task[w] = "onboard" /\ s \in todo[w] THEN "pending"
                                  ELSE job[s]]
  BY DEF Rollback
<1>2. TypeOK' BY <1>1, RestType DEF TypeOK, notionVars
<1>3. StageInv' BY <1>1, RestStage DEF Kept, Exists
<1>4. PageInv' BY <1>1, Frames, RestFrames DEF notionVars
<1>5. RowInv'
  <2>1. Stage(w) BY DEF StageInv
  <2>2. \A v \in Worker : held'[v] \subseteq held[v] BY <1>1, RestFrames
  <2>3. \A s \in Source : ~Exists(s) => job'[s] = job[s]
    BY <1>1, <2>1 DEF Stage
  <2>4. lost' = lost \cup held[w] /\ UNCHANGED <<row, page>> BY <1>1
  <2> QED BY <2>2, <2>3, <2>4 DEF RowInv, Exists, TypeOK
<1> QED BY <1>2, <1>3, <1>4, <1>5

\* Steps that begin a run or a transaction, or only read.
LEMMA ReadType ==
  ASSUME TInv, scope' = scope, NEW w \in Worker,
         \/ RunFullNotionSync(w) \/ SyncAfterScan(w) \/ RunNotionControlPlane(w)
         \/ CreateDatabase(w) \/ ReadAgain(w)
         \/ LoadRows(w) \/ LoadFindings(w) \/ QueryPages(w)
         \/ \E f \in Finding : RetrieveStatus(w, f)
         \/ SendMorningDigest(w) \/ PostMessage(w)
         \/ \E s \in Source : ExpandSource(w, s) \/ StartOnboarding(w, s)
  PROVE  TInv'
<1> USE DEF TInv
<1>0. Stage(w) BY DEF StageInv
<1>1. ASSUME NEW t \in {"sync", "after", "control"}, Begin(w, t) PROVE TInv'
  <2>1. TypeOK'
    <3>1. at' \in [Worker -> Nat]
      <4>1. registry \in Nat /\ 1 .. bases \subseteq Nat BY DEF TypeOK
      <4>2. PICK n \in Nat : at' = [at EXCEPT ![w] = n] \/ at' = at
        BY <1>1, <4>1 DEF Begin, ReadState
      <4> QED BY <4>2 DEF TypeOK
    <3>2. /\ pc' = [pc EXCEPT ![w] = "ready"] \/ pc' = [pc EXCEPT ![w] = "create"]
          /\ task' = [task EXCEPT ![w] = t]
      BY <1>1 DEF Begin, ReadState
    <3>3. UNCHANGED <<tableVars, notionVars, todo, copy, seen, held, was, now, cuts, historyVars>>
      BY <1>1 DEF Begin
    <3>4. /\ pc' \in [Worker -> {"idle", "create", "ready", "locked", "open", "posted"}]
          /\ task' \in [Worker -> {"none", "sync", "export", "after", "pull", "control", "digest",
                                   "grow", "onboard"}]
      BY <3>2 DEF TypeOK
    <3> QED BY <3>1, <3>3, <3>4 DEF TypeOK, tableVars, notionVars, historyVars
  <2>2. UNCHANGED <<tableVars, notionVars, todo, copy, seen, held, was, now, historyVars>>
    BY <1>1 DEF Begin
  <2>3. Kept BY <2>2 DEF Kept, Exists, tableVars
  <2>4. Stage(w)'
    BY <1>0, <1>1 DEF Begin, ReadState, Stage, TypeOK
  <2>5. ASSUME NEW v \in Worker \ {w} PROVE Stage(v)'
    BY <1>1, <2>2, <2>3, <2>5, StageFrame DEF Begin, ReadState, TypeOK
  <2>6. PageInv' /\ RowInv'
    BY <2>2, Frames DEF tableVars, notionVars, historyVars
  <2> QED BY <2>1, <2>4, <2>5, <2>6 DEF StageInv
<1>2. ASSUME CreateDatabase(w) PROVE TInv'
  <2>1. TypeOK'
    BY <1>2 DEF CreateDatabase, TypeOK, tableVars, historyVars
  <2>2. UNCHANGED <<tableVars, notion, task, todo, copy, seen, held, was, historyVars>>
    BY <1>2 DEF CreateDatabase
  <2>3. Kept BY <2>2 DEF Kept, Exists, tableVars
  <2>4. Stage(w)'
    BY <1>0, <1>2, <2>2 DEF CreateDatabase, Stage, TypeOK, Exists, tableVars
  <2>5. ASSUME NEW v \in Worker \ {w} PROVE Stage(v)'
    BY <1>2, <2>2, <2>3, <2>5, StageFrame DEF CreateDatabase, TypeOK
  <2>6. PageInv' /\ RowInv'
    BY <2>2, Frames DEF tableVars, historyVars
  <2> QED BY <2>1, <2>4, <2>5, <2>6 DEF StageInv
<1>3. ASSUME LoadRows(w) PROVE TInv'
  <2>1. TypeOK'
    BY <1>3, Keys DEF LoadRows, UpsertState, TypeOK, tableVars, notionVars, historyVars, Key
  <2>2. UNCHANGED <<tableVars, notionVars, task, seen, held, was, historyVars>>
    BY <1>3 DEF LoadRows
  <2>3. Kept BY <2>2 DEF Kept, Exists, tableVars
  <2>4. /\ task[w] = "sync" /\ pc'[w] = "locked" /\ copy'[w] = row
        /\ todo'[w] = {s \in Source : Exists(s)} \cup (Target \cap scope.rows)
    BY <1>3 DEF LoadRows, UpsertState, TypeOK
  <2>5. todo'[w] \cap Finding = {} BY <2>4, NotionAssumption
  <2>6. \A s \in todo'[w] \cap Source : Exists(s) /\ Exists(s)' /\ row[s].status # "absent"
    BY <2>2, <2>4, NotionAssumption DEF RowInv, Exists, tableVars
  <2>7. Stage(w)'
    BY <1>0, <2>2, <2>4, <2>5, <2>6 DEF Stage, TypeOK
  <2>8. ASSUME NEW v \in Worker \ {w} PROVE Stage(v)'
    BY <1>3, <2>2, <2>3, <2>8, StageFrame DEF LoadRows, UpsertState, TypeOK
  <2>9. PageInv' /\ RowInv'
    BY <2>2, Frames DEF tableVars, notionVars, historyVars
  <2> QED BY <2>1, <2>7, <2>8, <2>9 DEF StageInv
<1>4. ASSUME LoadFindings(w) PROVE TInv'
  <2>1. TypeOK'
    BY <1>4, Keys DEF LoadFindings, Unexported, UpsertState, TypeOK, tableVars, notionVars,
                      historyVars
  <2>2. UNCHANGED <<tableVars, notionVars, task, seen, held, copy, historyVars>>
    BY <1>4 DEF LoadFindings
  <2>3. Kept BY <2>2 DEF Kept, Exists, tableVars
  <2>4. /\ task[w] \in {"export", "after"} /\ pc'[w] = "locked" /\ was'[w] = marked
        /\ todo'[w] \subseteq Unexported
    BY <1>4 DEF LoadFindings, UpsertState, TypeOK
  <2>5. \A f \in todo'[w] : f \in Finding /\ marked[f] = "new" BY <2>4 DEF Unexported
  <2>6. Stage(w)'
    BY <1>0, <2>2, <2>4, <2>5 DEF Stage, TypeOK
  <2>7. ASSUME NEW v \in Worker \ {w} PROVE Stage(v)'
    BY <1>4, <2>2, <2>3, <2>7, StageFrame DEF LoadFindings, UpsertState, TypeOK
  <2>8. PageInv' /\ RowInv'
    BY <2>2, Frames DEF tableVars, notionVars, historyVars
  <2> QED BY <2>1, <2>6, <2>7, <2>8 DEF StageInv
<1>5. ASSUME QueryPages(w) PROVE TInv'
  <2>1. UNCHANGED <<tableVars, notionVars, task, at, todo, copy, held, was, now, cuts, historyVars>>
    BY <1>5 DEF QueryPages
  <2>2. \A p \in Page : /\ seen'[w][p] \in {notion[p], Blank}
                        /\ seen'[w][p] # Blank => p[1] \in Source
    BY <1>5 DEF QueryPages, TypeOK
  <2>3. \A v \in Worker \ {w} : seen'[v] = seen[v] BY <1>5 DEF QueryPages, TypeOK
  <2>4. TypeOK'
    <3>1. Blank \in Text BY DEF Blank, Text, Texts, OnboardingStatus
    <3>2. seen' \in [Worker -> [Page -> Text]] BY <1>5, <3>1 DEF QueryPages, TypeOK
    <3>3. pc' = [pc EXCEPT ![w] = "locked"] BY <1>5 DEF QueryPages, UpsertState
    <3> QED BY <2>1, <3>2, <3>3 DEF TypeOK, tableVars, notionVars, historyVars
  <2>5. Kept BY <2>1 DEF Kept, Exists, tableVars
  <2>6. Stage(w)'
    BY <1>0, <1>5, <2>1 DEF QueryPages, UpsertState, Stage, TypeOK, Exists, tableVars
  <2>7. ASSUME NEW v \in Worker \ {w} PROVE Stage(v)'
    BY <1>5, <2>1, <2>5, <2>7, StageFrame DEF QueryPages, UpsertState, TypeOK
  <2>8. PageInv'
    BY <2>1, <2>2, <2>3 DEF PageInv, Made, tableVars, notionVars
  <2>9. RowInv'
    BY <2>1 DEF RowInv, Exists, tableVars, historyVars
  <2> QED BY <2>4, <2>6, <2>7, <2>8, <2>9 DEF StageInv
<1>6. ASSUME NEW f \in Finding, RetrieveStatus(w, f) PROVE TInv'
  <2>1. UNCHANGED <<tableVars, notionVars, task, pc, at, copy, seen, held, was, cuts, historyVars>>
    BY <1>6 DEF RetrieveStatus
  <2>2. page[f] \in Page /\ page[f][1] = f /\ Made(page[f])
    BY <1>0, <1>6, Keys DEF RetrieveStatus, Stage, PageInv, TypeOK
  <2>3. notion[page[f]].shown \in FindingStatus
    BY <2>2, Keys DEF PageInv, FindingStatus
  <2>4. TypeOK'
    BY <1>6, <2>1, <2>3 DEF RetrieveStatus, TypeOK, tableVars, notionVars, historyVars
  <2>5. Kept BY <2>1 DEF Kept, Exists, tableVars
  <2>6. Stage(w)'
    BY <1>0, <1>6, <2>1 DEF RetrieveStatus, Stage, TypeOK, Exists, tableVars
  <2>7. ASSUME NEW v \in Worker \ {w} PROVE Stage(v)'
    BY <1>6, <2>1, <2>5, <2>7, StageFrame DEF RetrieveStatus, TypeOK
  <2>8. PageInv' /\ RowInv'
    BY <2>1, Frames DEF tableVars, notionVars, historyVars
  <2> QED BY <2>4, <2>6, <2>7, <2>8 DEF StageInv
<1>7. ASSUME SendMorningDigest(w) \/ PostMessage(w) PROVE TInv'
  <2>1. UNCHANGED <<tableVars, notion, workVars, historyVars>>
    BY <1>7 DEF SendMorningDigest, PostMessage, notionVars
  <2>2. TypeOK'
    <3>1. /\ pc' = [pc EXCEPT ![w] = "open"] \/ pc' = [pc EXCEPT ![w] = "posted"]
          /\ task' = [task EXCEPT ![w] = "digest"] \/ task' = task
          /\ posts' \in {posts, posts + 1}
          /\ UNCHANGED <<bases, home, bin, cuts>>
      BY <1>7 DEF SendMorningDigest, PostMessage, notionVars
    <3>2. /\ pc' \in [Worker -> {"idle", "create", "ready", "locked", "open", "posted"}]
          /\ task' \in [Worker -> {"none", "sync", "export", "after", "pull", "control", "digest",
                                   "grow", "onboard"}]
          /\ posts' \in Nat
      <4>1. ASSUME pc' = [pc EXCEPT ![w] = "open"]
            PROVE  pc' \in [Worker -> {"idle", "create", "ready", "locked", "open", "posted"}]
        BY <4>1 DEF TypeOK
      <4>2. ASSUME pc' = [pc EXCEPT ![w] = "posted"]
            PROVE  pc' \in [Worker -> {"idle", "create", "ready", "locked", "open", "posted"}]
        BY <4>2 DEF TypeOK
      <4>3. task' \in [Worker -> {"none", "sync", "export", "after", "pull", "control", "digest",
                                  "grow", "onboard"}]
        BY <3>1 DEF TypeOK
      <4>4. posts' \in Nat BY <3>1 DEF TypeOK
      <4> QED BY <3>1, <4>1, <4>2, <4>3, <4>4
    <3>3. UNCHANGED <<row, job, grown, marked, page, registry, digests>>
      BY <2>1 DEF tableVars
    <3>4. UNCHANGED <<at, todo, copy, seen, held, was, now>> BY <2>1 DEF workVars
    <3>5. UNCHANGED <<notion, lost, typed, diverged, dropped>> BY <2>1 DEF historyVars
    <3>6. UNCHANGED <<bases, home, bin, cuts, scope>> BY <3>1
    <3> QED BY <3>2, <3>3, <3>4, <3>5, <3>6 DEF TypeOK
  <2>3. Kept BY <2>1 DEF Kept, Exists, tableVars
  <2>4. Stage(w)'
    BY <1>0, <1>7, <2>1 DEF SendMorningDigest, PostMessage, Stage, TypeOK, workVars
  <2>5. ASSUME NEW v \in Worker \ {w} PROVE Stage(v)'
    BY <1>7, <2>1, <2>3, <2>5, StageFrame
    DEF SendMorningDigest, PostMessage, TypeOK, workVars
  <2>6. PageInv' /\ RowInv'
    BY <2>1, Frames DEF tableVars, workVars, historyVars
  <2> QED BY <2>2, <2>4, <2>5, <2>6 DEF StageInv
<1>8. ASSUME NEW s \in Source, ExpandSource(w, s) PROVE TInv'
  <2>1. UNCHANGED <<tableVars, notionVars, at, copy, seen, held, was, now, cuts, historyVars>>
    BY <1>8 DEF ExpandSource
  <2>2. TypeOK'
    BY <1>8, Keys DEF ExpandSource, TypeOK, tableVars, notionVars, historyVars
  <2>3. Kept BY <2>1 DEF Kept, Exists, tableVars
  <2>4. Stage(w)'
    BY <1>0, <1>8, <2>1 DEF ExpandSource, Stage, TypeOK
  <2>5. ASSUME NEW v \in Worker \ {w} PROVE Stage(v)'
    BY <1>8, <2>1, <2>3, <2>5, StageFrame DEF ExpandSource, TypeOK
  <2>6. PageInv' /\ RowInv'
    BY <2>1, Frames DEF tableVars, notionVars, historyVars
  <2> QED BY <2>2, <2>4, <2>5, <2>6 DEF StageInv
<1>9. ASSUME NEW s \in Source, StartOnboarding(w, s) PROVE TInv'
  <2>1. UNCHANGED <<row, page, notion, seen, held, was, lost>>
    BY <1>9 DEF StartOnboarding, notionVars, historyVars
  <2>2. TypeOK'
    BY <1>9, Keys DEF StartOnboarding, TypeOK, notionVars, historyVars
  <2>3. Kept BY <2>1 DEF Kept, Exists
  <2>4. Exists(s) BY <1>9 DEF StartOnboarding, RowInv
  <2>5. Stage(w)'
    BY <1>0, <1>9, <2>1, <2>4 DEF StartOnboarding, Stage, TypeOK, Exists
  <2>6. ASSUME NEW v \in Worker \ {w} PROVE Stage(v)'
    BY <1>9, <2>1, <2>3, <2>6, StageFrame DEF StartOnboarding, TypeOK
  <2>7. PageInv' BY <2>1, Frames
  <2>8. RowInv'
    <3>1. \A r \in Source : ~Exists(r) => job'[r] = job[r]
      BY <1>9, <2>4 DEF StartOnboarding, TypeOK
    <3> QED BY <2>1, <3>1 DEF RowInv, Exists
  <2> QED BY <2>2, <2>5, <2>6, <2>7, <2>8 DEF StageInv
<1>10. ASSUME ReadAgain(w) PROVE TInv'
  <2>1. /\ UNCHANGED <<tableVars, notionVars, task, todo, copy, seen, held, was, now, cuts,
                       historyVars>>
        /\ task[w] = "export" /\ pc[w] = "open"
        /\ pc' = [pc EXCEPT ![w] = "ready"] \/ pc' = [pc EXCEPT ![w] = "create"]
    BY <1>10 DEF ReadAgain, ReadState
  <2>2. at' \in [Worker -> Nat]
    <3>1. registry \in Nat /\ 1 .. bases \subseteq Nat BY DEF TypeOK
    <3>2. PICK n \in Nat : at' = [at EXCEPT ![w] = n] \/ at' = at
      BY <1>10, <3>1 DEF ReadAgain, ReadState
    <3> QED BY <3>2 DEF TypeOK
  <2>3. pc' \in [Worker -> {"idle", "create", "ready", "locked", "open", "posted"}]
    BY <2>1 DEF TypeOK
  <2>4. TypeOK' BY <2>1, <2>2, <2>3 DEF TypeOK, tableVars, notionVars, historyVars
  <2>5. Kept BY <2>1 DEF Kept, Exists, tableVars
  <2>6. Stage(w)' BY <1>0, <2>1 DEF Stage, TypeOK
  <2>7. ASSUME NEW v \in Worker \ {w} PROVE Stage(v)'
    BY <2>1, <2>5, <2>7, StageFrame DEF TypeOK
  <2>8. PageInv' /\ RowInv' BY <2>1, Frames DEF tableVars, notionVars, historyVars
  <2> QED BY <2>4, <2>6, <2>7, <2>8 DEF StageInv
<1> QED
  BY <1>1, <1>2, <1>3, <1>4, <1>5, <1>6, <1>7, <1>8, <1>9, <1>10
  DEF RunFullNotionSync, SyncAfterScan, RunNotionControlPlane

\* What a page may say without doing harm to its row.
Fits(p, t) ==
    /\ t # Blank
    /\ p[1] \in Finding => t.shown \in {"new", "dismissed"}
    /\ p[1] \in Source => t.status # "absent"

LEMMA SaysFits ==
  ASSUME TInv, NEW w \in Worker, NEW k \in Key, Pushing(w, k)
  PROVE  /\ Says(w, k) \in Text
         /\ \A p : p[1] = k => Fits(p, Says(w, k))
         /\ k \in Source => task[w] = "sync" /\ Exists(k) /\ Says(w, k) = Properties(copy[w][k])
<1> USE NotionAssumption DEF TInv
<1>1. Stage(w) /\ k \in todo[w] /\ task[w] \in {"sync", "export", "after"} BY DEF StageInv, Pushing
<1>2. CASE k \in Source
  <2>1. task[w] = "sync" /\ Exists(k) /\ copy[w][k].status # "absent" /\ k \notin Finding
    BY <1>1, <1>2 DEF Stage
  <2>2. copy[w][k] \in Row BY <1>2 DEF TypeOK
  <2>3. Says(w, k) = Properties(copy[w][k]) BY <1>2 DEF Says
  <2> QED BY <2>1, <2>2, <2>3, FittedTexts DEF Properties, Row, Text, Fits, Blank
<1>3. CASE k \in Target
  <2>1. Says(w, k) = [shown |-> "active", status |-> "absent", ingested |-> 0, text |-> "plain"]
    BY <1>3 DEF Says
  <2> QED BY <1>3, <2>1 DEF Text, Texts, OnboardingStatus, Fits, Blank
<1>4. CASE k \in Finding
  <2>1. was[w][k] = "new" BY <1>1, <1>4 DEF Stage
  <2>2. Says(w, k) = [shown |-> "new", status |-> "absent", ingested |-> 0, text |-> "plain"]
    BY <1>4, <2>1 DEF Says
  <2> QED BY <1>4, <2>2 DEF Text, Texts, OnboardingStatus, Fits, Blank
<1> QED BY <1>2, <1>3, <1>4 DEF Key

\* Notion makes exactly one page.
LEMMA MakePageIs ==
  ASSUME TypeOK, NEW k \in Key, NEW text \in Text, NEW base \in Nat, text # Blank,
         MakePage(k, text, base)
  PROVE  \E p \in Page :
            /\ p[1] = k /\ ~Made(p)
            /\ {q \in Page : Made(q)' /\ ~Made(q)} = {p}
            /\ notion' = [notion EXCEPT ![p] = text]
            /\ notion' \in [Page -> Text] /\ home' \in [Page -> Nat]
<1>1. PICK n \in 1 .. MaxPages :
        /\ ~Made(<<k, n>>)
        /\ notion' = [notion EXCEPT ![<<k, n>>] = text]
        /\ home' = [home EXCEPT ![<<k, n>>] = base]
  BY DEF MakePage
<1>2. <<k, n>> \in Page /\ <<k, n>>[1] = k BY Keys
<1>3. notion' \in [Page -> Text] /\ home' \in [Page -> Nat] BY <1>1, <1>2 DEF TypeOK
<1>4. {q \in Page : Made(q)' /\ ~Made(q)} = {<<k, n>>} BY <1>1, <1>2 DEF Made, TypeOK
<1> QED BY <1>1, <1>2, <1>3, <1>4

\* What is written on a page fits it, and a new page is held by at most one run.
LEMMA WriteFrame ==
  ASSUME TInv, UNCHANGED page,
         \A p \in Page : notion'[p] = notion[p] \/ Fits(p, notion'[p]),
         \A v \in Worker : \A p \in held'[v] : p \in held[v] \/ Made(p)',
         \A v \in Worker, p \in Page : seen'[v][p] \in {seen[v][p], Blank}
  PROVE  PageInv'
<1> USE DEF TInv
<1>1. \A p \in Page : Made(p) => Made(p)' BY DEF Made, Fits
<1>2. \A k \in Key : page[k] # NoPage => page[k] \in Page BY DEF TypeOK
<1>3. \A v \in Worker : held[v] \subseteq Page BY DEF TypeOK
<1>4. \A k \in Key : page[k] # NoPage => page[k][1] = k /\ notion'[page[k]] # Blank
  BY <1>1, <1>2 DEF PageInv, Made
<1>5. \A v \in Worker : \A p \in held'[v] : notion'[p] # Blank
  BY <1>1, <1>3 DEF PageInv, Made
<1>6. \A v \in Worker, p \in Page :
         seen'[v][p] # Blank =>
            notion'[p] # Blank /\ p[1] \in Source /\ seen'[v][p].status # "absent"
  BY <1>1 DEF PageInv, Made
<1>7. \A p \in Page : notion'[p] # Blank =>
          /\ p[1] \in Finding => notion'[p].shown \in {"new", "dismissed"}
          /\ p[1] \in Source => notion'[p].status # "absent"
  BY DEF PageInv, Made, Fits
<1> QED BY <1>4, <1>5, <1>6, <1>7 DEF PageInv, Made

\* The commits of a full sync.
LEMMA CommitType ==
  ASSUME TInv, scope' = scope, NEW w \in Worker,
         \/ CommitRows(w) \/ CommitFindings(w) \/ CommitAfterScan(w) \/ StatusesPulled(w)
         \/ RecordDigest(w)
  PROVE  TInv'
<1> USE DEF TInv
<1>0. Stage(w) BY DEF StageInv
<1>1. ASSUME page' = Recorded(w), UNCHANGED <<notion, row, job, lost, seen>>,
             \A v \in Worker : held'[v] \subseteq held[v]
      PROVE  PageInv' /\ RowInv' /\ Kept
  <2>1. \A k \in Key : page'[k] # NoPage => page'[k][1] = k /\ notion'[page'[k]] # Blank
    BY <1>1, RecordedType DEF Made
  <2>2. PageInv' BY <1>1, <2>1 DEF PageInv, Made
  <2>3. \A s \in Source : ~Exists(s) => page'[s] = NoPage BY <1>1, RecordedType
  <2>4. RowInv' BY <1>1, <2>3 DEF RowInv, Exists
  <2>5. Kept BY <1>1, RecordedType, Keys DEF Kept, Exists
  <2> QED BY <2>2, <2>4, <2>5
<1>2. ASSUME CommitRows(w) PROVE TInv'
  <2>1. /\ page' = Recorded(w) /\ held' = [held EXCEPT ![w] = {}]
        /\ UNCHANGED <<row, job, grown, marked, digests, notionVars, at, todo, seen, was, now, cuts,
                       historyVars>>
        /\ registry' = at[w] /\ task' = [task EXCEPT ![w] = "export"]
        /\ pc' = [pc EXCEPT ![w] = "open"]
        /\ copy' = [copy EXCEPT ![w] = [s \in Source |-> Absent]]
        /\ todo[w] = {} /\ task[w] = "sync"
    BY <1>2 DEF CommitRows
  <2>2. [s \in Source |-> Absent] \in [Source -> Row] BY DEF Absent, Row, Texts, OnboardingStatus
  <2>3. page' \in [Key -> Page \cup {NoPage}] BY <2>1, RecordedType
  <2>4. TypeOK' BY <2>1, <2>2, <2>3 DEF TypeOK, notionVars, historyVars
  <2>5. \A v \in Worker : held'[v] \subseteq held[v] BY <2>1 DEF TypeOK
  <2>6. PageInv' /\ RowInv' /\ Kept BY <1>1, <2>1, <2>5 DEF notionVars, historyVars
  <2>7. Stage(w)' BY <2>1 DEF Stage, TypeOK
  <2>8. ASSUME NEW v \in Worker \ {w} PROVE Stage(v)'
    BY <2>1, <2>6, <2>8, StageFrame DEF TypeOK
  <2> QED BY <2>4, <2>6, <2>7, <2>8 DEF StageInv
<1>3. ASSUME CommitFindings(w) PROVE TInv'
  <2>1. /\ page' = Recorded(w) /\ held' = [held EXCEPT ![w] = {}]
        /\ UNCHANGED <<row, job, grown, marked, digests, notionVars, at, copy, seen, cuts,
                       historyVars>>
        /\ registry' = at[w] /\ task' = [task EXCEPT ![w] = "pull"]
        /\ pc' = [pc EXCEPT ![w] = "open"]
        /\ was' = [was EXCEPT ![w] = marked] /\ now' = [now EXCEPT ![w] = marked]
        /\ todo' = [todo EXCEPT ![w] = {f \in Finding : marked[f] # "deleted" /\ page'[f] # NoPage}]
    BY <1>3 DEF CommitFindings
  <2>2. page' \in [Key -> Page \cup {NoPage}] BY <2>1, RecordedType
  <2>3. TypeOK' BY <2>1, <2>2, Keys DEF TypeOK, notionVars, historyVars
  <2>4. \A v \in Worker : held'[v] \subseteq held[v] BY <2>1 DEF TypeOK
  <2>5. PageInv' /\ RowInv' /\ Kept BY <1>1, <2>1, <2>4 DEF notionVars, historyVars
  <2>6. Stage(w)' BY <2>1 DEF Stage, TypeOK
  <2>7. ASSUME NEW v \in Worker \ {w} PROVE Stage(v)'
    BY <2>1, <2>5, <2>7, StageFrame DEF TypeOK
  <2> QED BY <2>3, <2>5, <2>6, <2>7 DEF StageInv
<1>4. ASSUME StatusesPulled(w) PROVE TInv'
  <2>1. /\ UNCHANGED <<row, job, grown, page, registry, digests, notionVars, cuts, historyVars>>
        /\ Rest(w)
        /\ marked' = [f \in Finding |-> IF f \in Changed(w) THEN now[w][f] ELSE marked[f]]
    BY <1>4 DEF StatusesPulled
  <2>2. marked' \in [Finding -> FindingStatus] BY <2>1 DEF TypeOK
  <2>3. TypeOK' BY <2>1, <2>2, RestType DEF TypeOK, notionVars, historyVars
  <2>4. StageInv' BY <2>1, RestStage DEF Kept, Exists
  <2>5. PageInv' /\ RowInv' BY <2>1, Frames, RestFrames DEF notionVars, historyVars
  <2> QED BY <2>3, <2>4, <2>5
<1>5. ASSUME RecordDigest(w) PROVE TInv'
  <2>1. /\ UNCHANGED <<row, job, grown, marked, page, registry, notionVars, cuts, historyVars>>
        /\ Rest(w) /\ digests' = digests + 1
    BY <1>5 DEF RecordDigest
  <2>2. TypeOK' BY <2>1, RestType DEF TypeOK, notionVars, historyVars
  <2>3. StageInv' BY <2>1, RestStage DEF Kept, Exists
  <2>4. PageInv' /\ RowInv' BY <2>1, Frames, RestFrames DEF notionVars, historyVars
  <2> QED BY <2>2, <2>3, <2>4
<1>6. ASSUME CommitAfterScan(w) PROVE TInv'
  <2>1. /\ UNCHANGED <<row, job, grown, marked, digests, notionVars, cuts, historyVars>>
        /\ Rest(w) /\ page' = Recorded(w) /\ registry' = at[w]
    BY <1>6 DEF CommitAfterScan
  <2>2. page' \in [Key -> Page \cup {NoPage}] BY <2>1, RecordedType
  <2>3. TypeOK' BY <2>1, <2>2, RestType DEF TypeOK, notionVars, historyVars
  <2>4. \A v \in Worker : held'[v] \subseteq held[v] BY <2>1, RestFrames
  <2>5. \A s \in Source : Exists(s)' <=> Exists(s) BY <2>1 DEF Exists
  <2>6. Kept BY <2>1, <2>5, RecordedType, Keys DEF Kept
  <2>7. StageInv' BY <2>1, <2>6, RestStage
  <2>8. RowInv' BY <2>1, <2>4, RecordedType DEF RowInv, Exists, historyVars
  <2>9. PageInv'
    <3>1. \A k \in Key : page'[k] # NoPage => page'[k][1] = k /\ notion'[page'[k]] # Blank
      BY <2>1, RecordedType DEF Made, notionVars
    <3>2. \A v \in Worker, p \in Page : seen'[v][p] \in {seen[v][p], Blank}
      BY <2>1, RestFrames
    <3>3. notion' = notion BY <2>1 DEF notionVars
    <3> QED BY <2>4, <3>1, <3>2, <3>3 DEF PageInv, Made
  <2> QED BY <2>3, <2>7, <2>8, <2>9
<1> QED BY <1>2, <1>3, <1>4, <1>5, <1>6

\* What a sync writes in Notion.
LEMMA PushType ==
  ASSUME TInv, scope' = scope, NEW w \in Worker, NEW k \in Key,
         UpdatePage(w, k) \/ CreatePage(w, k)
  PROVE  TInv'
<1> USE DEF TInv
<1>0. Stage(w) BY DEF StageInv
<1>1. Agreed(w, k) \subseteq Source BY DEF Agreed, TypeOK
<1>2. /\ UNCHANGED <<tableVars, bases, bin, posts, task, pc, at, copy, seen, was, now, cuts, lost,
                     typed, dropped>>
      /\ Pushing(w, k) /\ todo' = [todo EXCEPT ![w] = @ \ {k}] /\ diverged' = Agreed(w, k)
  BY DEF UpdatePage, CreatePage
<1>3. /\ Says(w, k) \in Text /\ Says(w, k) # Blank
      /\ \A p : p[1] = k => Fits(p, Says(w, k))
      /\ k \in Source => Exists(k)
  <2>1. \A p : p[1] = k => Fits(p, Says(w, k)) BY <1>2, SaysFits
  <2>2. <<k, 1>>[1] = k OBVIOUS
  <2> QED BY <1>2, <2>1, <2>2, SaysFits DEF Fits
<1>4. \E p \in Page :
         /\ p[1] = k /\ notion' = [notion EXCEPT ![p] = Says(w, k)]
         /\ notion' \in [Page -> Text] /\ home' \in [Page -> Nat]
         /\ held' = held \/ held' = [held EXCEPT ![w] = @ \cup {p}]
  <2>1. CASE UpdatePage(w, k)
    <3>1. page[k] \in Page /\ page[k][1] = k BY <2>1, Keys DEF UpdatePage, PageInv
    <3>2. notion' = [notion EXCEPT ![page[k]] = Says(w, k)] /\ UNCHANGED <<home, held>>
      BY <2>1 DEF UpdatePage
    <3>3. notion' \in [Page -> Text] /\ home' \in [Page -> Nat] BY <1>3, <3>2 DEF TypeOK
    <3> QED BY <3>1, <3>2, <3>3
  <2>2. CASE CreatePage(w, k)
    <3>1. at[w] \in Nat BY DEF TypeOK
    <3>2. MakePage(k, Says(w, k), at[w]) BY <2>2 DEF CreatePage
    <3>3. held' = [held EXCEPT ![w] = @ \cup {q \in Page : Made(q)' /\ ~Made(q)}]
      BY <2>2 DEF CreatePage
    <3> QED BY <1>3, <3>1, <3>2, <3>3, MakePageIs
  <2> QED BY <2>1, <2>2
<1>5. PICK p \in Page :
         /\ p[1] = k /\ notion' = [notion EXCEPT ![p] = Says(w, k)]
         /\ notion' \in [Page -> Text] /\ home' \in [Page -> Nat]
         /\ held' = held \/ held' = [held EXCEPT ![w] = @ \cup {p}]
  BY <1>4
<1>6. held' \in [Worker -> SUBSET Page] /\ \A v \in Worker : held'[v] \subseteq held[v] \cup {p}
  <2>1. held \in [Worker -> SUBSET Page] BY DEF TypeOK
  <2>2. CASE held' = held BY <2>1, <2>2
  <2>3. CASE held' = [held EXCEPT ![w] = @ \cup {p}] BY <2>1, <2>3
  <2> QED BY <1>5, <2>2, <2>3
<1>7. \A v \in Worker \ {w} : held'[v] = held[v]
  <2>1. held \in [Worker -> SUBSET Page] BY DEF TypeOK
  <2> QED BY <1>5, <2>1
<1>8. TypeOK'
  <2>1. todo' \in [Worker -> SUBSET Key] /\ diverged' \subseteq Source BY <1>1, <1>2 DEF TypeOK
  <2>2. notion' \in [Page -> Text] /\ home' \in [Page -> Nat] BY <1>5
  <2>3. held' \in [Worker -> SUBSET Page] BY <1>6
  <2>4. UNCHANGED <<row, job, grown, marked, page, registry, digests, bases, bin, posts, task, pc,
                    at, copy, seen, was, now, cuts, scope, lost, typed, dropped>>
    BY <1>2 DEF tableVars
  <2> QED BY <2>1, <2>2, <2>3, <2>4 DEF TypeOK
<1>9. UNCHANGED <<row, job, page, lost>> BY <1>2 DEF tableVars
<1>10. PageInv'
  <2>1. \A q \in Page : notion'[q] = notion[q] \/ Fits(q, notion'[q]) BY <1>3, <1>5 DEF TypeOK
  <2>2. Made(p)' BY <1>3, <1>5 DEF Made, TypeOK
  <2>3. \A v \in Worker : \A q \in held'[v] : q \in held[v] \/ Made(q)' BY <1>6, <2>2
  <2>4. UNCHANGED <<page, seen>> BY <1>2, <1>9
  <2> QED BY <2>1, <2>3, <2>4, WriteFrame
<1>11. RowInv' BY <1>3, <1>5, <1>6, <1>9 DEF RowInv, Exists
<1>12. Kept BY <1>9 DEF Kept, Exists
<1>13. Stage(w)'
  <2>1. UNCHANGED <<task, pc, copy, was, page, row>> BY <1>2, <1>9
  <2>2. todo'[w] \subseteq todo[w] BY <1>2 DEF TypeOK
  <2>3. pc[w] = "locked" /\ task[w] \in {"sync", "export", "after"} BY <1>2 DEF Pushing
  <2> QED BY <1>0, <2>1, <2>2, <2>3 DEF Stage, Exists
<1>14. ASSUME NEW v \in Worker \ {w} PROVE Stage(v)'
  <2>1. todo'[v] = todo[v] BY <1>2, <1>14 DEF TypeOK
  <2> QED BY <1>2, <1>7, <1>12, <1>14, <2>1, StageFrame
<1> QED BY <1>8, <1>10, <1>11, <1>13, <1>14 DEF StageInv

\* What a reconcile makes of a row and of its page id.
LEMMA ReconciledIs ==
  ASSUME TInv, NEW w \in Worker, NEW s \in Source
  PROVE  \/ \E p \in Seen(w) : /\ p[1] = s /\ PageOf(w, s) = p
                               /\ Reconciled(w, s) = NotionSource(seen[w][p])
                               /\ NotionSource(seen[w][p]) \in Row
                               /\ NotionSource(seen[w][p]).status # "absent"
                               /\ p \in Page /\ Made(p)
         \/ (\A p \in Seen(w) : p[1] # s) /\ Reconciled(w, s) = row[s]
<1>1. ASSUME NEW p \in Seen(w), p[1] = s
      PROVE  \E q \in Seen(w) : /\ q[1] = s /\ PageOf(w, s) = q
                               /\ Reconciled(w, s) = NotionSource(seen[w][q])
                               /\ NotionSource(seen[w][q]) \in Row
                               /\ NotionSource(seen[w][q]).status # "absent"
                               /\ q \in Page /\ Made(q)
  <2>1. PageOf(w, s) \in Seen(w) /\ PageOf(w, s)[1] = s BY <1>1, PageOfSeen
  <2>2. \A q \in Seen(w) : /\ q \in Page /\ Made(q) /\ seen[w][q] \in Text
                           /\ seen[w][q].status # "absent"
    BY SeenPages DEF TInv, TypeOK, PageInv
  <2>3. Reconciled(w, s) = NotionSource(seen[w][PageOf(w, s)]) BY <1>1 DEF Reconciled
  <2>4. \A t \in Text : NotionSource(t) \in Row /\ NotionSource(t).status = t.status
    BY FittedTexts DEF Text, NotionSource, Row
  <2> QED BY <2>1, <2>2, <2>3, <2>4
<1>2. ASSUME \A p \in Seen(w) : p[1] # s PROVE Reconciled(w, s) = row[s]
  BY <1>2 DEF Reconciled
<1> QED BY <1>1, <1>2

LEMMA ReconcileType ==
  ASSUME TInv, scope' = scope, NEW w \in Worker, ReconcileSourceRegistry(w)
  PROVE  TInv'
<1> USE DEF TInv
<1>1. /\ row' = [s \in Source |-> Reconciled(w, s)]
      /\ job' = [s \in Source |-> IF job[s] = "none" /\ Reconciled(w, s).status \in Waiting
                                  THEN "pending" ELSE job[s]]
      /\ page' = [k \in Key |-> IF \E p \in Seen(w) : p[1] = k
                                THEN PageOf(w, k) ELSE page[k]]
      /\ registry' = at[w] /\ Rest(w)
      /\ UNCHANGED <<grown, marked, digests, notionVars, cuts, lost, typed, dropped>>
  BY DEF ReconcileSourceRegistry
<1>2. \A s \in Source : /\ row'[s] = Reconciled(w, s) /\ row'[s] \in Row
                        /\ row'[s] # row[s] => row'[s].status # "absent"
  <2> SUFFICES ASSUME NEW s \in Source
               PROVE  /\ row'[s] = Reconciled(w, s) /\ row'[s] \in Row
                      /\ row'[s] # row[s] => row'[s].status # "absent"
    OBVIOUS
  <2>1. row'[s] = Reconciled(w, s) /\ row[s] \in Row BY <1>1 DEF TypeOK
  <2> QED BY <2>1, ReconciledIs
<1>3. \A s \in Source : ~Exists(s)' => (\A p \in Seen(w) : p[1] # s) /\ row'[s] = row[s]
  <2> SUFFICES ASSUME NEW s \in Source, ~Exists(s)'
               PROVE  (\A p \in Seen(w) : p[1] # s) /\ row'[s] = row[s]
    OBVIOUS
  <2>1. row'[s] = Absent /\ Absent.status = "absent" BY DEF Exists, Absent
  <2> QED BY <1>2, <2>1, ReconciledIs
<1>4. \A p \in Seen(w) : p \in Page /\ Made(p) BY SeenPages DEF PageInv
<1>5. \A k \in Key : \/ page'[k] \in Seen(w) /\ page'[k][1] = k
                     \/ (\A p \in Seen(w) : p[1] # k) /\ page'[k] = page[k]
  BY <1>1, PageOfSeen
<1>6. page' \in [Key -> Page \cup {NoPage}] BY <1>1, <1>4, <1>5 DEF TypeOK
<1>7. row' \in [Source -> Row] BY <1>1, <1>2
<1>8. job' \in [Source -> {"none", "pending", "running", "done"}] BY <1>1 DEF TypeOK
<1>9. diverged' \subseteq Source
  <2>1. \A p \in Seen(w) : p[1] \in Source BY SeenPages DEF PageInv
  <2> QED BY <2>1 DEF ReconcileSourceRegistry, TypeOK
<1>10. TypeOK'
  <2>1. registry' \in Nat BY <1>1 DEF TypeOK
  <2>2. UNCHANGED <<grown, marked, digests, bases, notion, home, bin, posts, cuts, scope, lost,
                    typed, dropped>>
    BY <1>1 DEF notionVars
  <2>3. Rest(w) BY <1>1
  <2> QED BY <1>6, <1>7, <1>8, <1>9, <2>1, <2>2, <2>3, RestType DEF TypeOK
<1>11. PageInv'
  <2>1. \A k \in Key : page'[k] # NoPage => page'[k][1] = k /\ notion'[page'[k]] # Blank
    BY <1>1, <1>4, <1>5 DEF PageInv, Made, notionVars
  <2>2. UNCHANGED notion BY <1>1 DEF notionVars
  <2>3. /\ \A v \in Worker : held'[v] \subseteq held[v]
        /\ \A v \in Worker, p \in Page : seen'[v][p] \in {seen[v][p], Blank}
    BY <1>1, RestFrames
  <2> QED BY <2>1, <2>2, <2>3 DEF PageInv, Made
<1>12. \A s \in Source : ~Exists(s)' => ~Exists(s)
  BY <1>3 DEF Exists
<1>13. RowInv'
  <2> SUFFICES ASSUME NEW s \in Source
               PROVE  /\ Exists(s)' => row'[s].status # "absent"
                      /\ ~Exists(s)' =>
                            /\ job'[s] = "none" /\ page'[s] = NoPage
                            /\ \A p \in Page : p[1] = s =>
                                  p \notin lost' /\ \A v \in Worker : p \notin held'[v]
    BY DEF RowInv, Exists
  <2>1. ASSUME Exists(s)' PROVE row'[s].status # "absent"
    BY <1>2, <2>1 DEF RowInv, Exists
  <2>2. ASSUME ~Exists(s)'
        PROVE  /\ job'[s] = "none" /\ page'[s] = NoPage
               /\ \A p \in Page : p[1] = s =>
                     p \notin lost' /\ \A v \in Worker : p \notin held'[v]
    <3>1. /\ (\A p \in Seen(w) : p[1] # s) /\ row'[s] = row[s] /\ ~Exists(s)
          /\ row'[s] = Absent
      BY <1>3, <1>12, <2>2 DEF Exists
    <3>2. job[s] = "none" /\ page[s] = NoPage BY <3>1 DEF RowInv
    <3>3. Reconciled(w, s).status \notin Waiting BY <1>2, <3>1 DEF Absent, Waiting
    <3>4. job'[s] = "none" BY <1>1, <3>2, <3>3
    <3>5. page'[s] = NoPage BY <1>5, <3>1, <3>2, Keys
    <3>6. \A v \in Worker : held'[v] \subseteq held[v] BY <1>1, RestFrames
    <3>7. lost' = lost BY <1>1
    <3> QED BY <3>1, <3>4, <3>5, <3>6, <3>7 DEF RowInv
  <2> QED BY <2>1, <2>2
<1>14. StageInv'
  <2>1. \A f \in Finding : page'[f] = page[f] BY <1>5, Keys, SeenPages DEF PageInv
  <2>2. Kept BY <1>12, <2>1 DEF Kept
  <2> QED BY <1>1, <2>2, RestStage
<1> QED BY <1>10, <1>11, <1>13, <1>14

\* A record with some of its fields written.
LEMMA Scanned ==
  ASSUME NEW r \in Row, NEW x, NEW y
  PROVE  [r EXCEPT !.status = x, !.ingested = y]
            = [status |-> x, active |-> r.active, ingested |-> y, text |-> r.text]
<1>1. r = [status |-> r.status, active |-> r.active, ingested |-> r.ingested, text |-> r.text]
  BY DEF Row
<1>2. [r EXCEPT !.status = x]
         = [status |-> x, active |-> r.active, ingested |-> r.ingested, text |-> r.text]
  BY <1>1
<1>3. [[status |-> x, active |-> r.active, ingested |-> r.ingested, text |-> r.text]
          EXCEPT !.ingested = y]
         = [status |-> x, active |-> r.active, ingested |-> y, text |-> r.text]
  OBVIOUS
<1> QED BY <1>2, <1>3

LEMMA Onboarded ==
  ASSUME NEW r \in Row, NEW x, NEW y, NEW z
  PROVE  [r EXCEPT !.active = x, !.status = y, !.text = z]
            = [status |-> y, active |-> x, ingested |-> r.ingested, text |-> z]
<1>1. r = [status |-> r.status, active |-> r.active, ingested |-> r.ingested, text |-> r.text]
  BY DEF Row
<1>2. [r EXCEPT !.active = x]
         = [status |-> r.status, active |-> x, ingested |-> r.ingested, text |-> r.text]
  BY <1>1
<1>3. [[status |-> r.status, active |-> x, ingested |-> r.ingested, text |-> r.text]
          EXCEPT !.status = y]
         = [status |-> y, active |-> x, ingested |-> r.ingested, text |-> r.text]
  OBVIOUS
<1>4. [[status |-> y, active |-> x, ingested |-> r.ingested, text |-> r.text] EXCEPT !.text = z]
         = [status |-> y, active |-> x, ingested |-> r.ingested, text |-> z]
  OBVIOUS
<1> QED BY <1>2, <1>3, <1>4

LEMMA Shown ==
  ASSUME NEW t \in Text, NEW x
  PROVE  [t EXCEPT !.shown = x]
            = [shown |-> x, status |-> t.status, ingested |-> t.ingested, text |-> t.text]
  BY DEF Text

\* Rows change: none disappears, and none is made under a name that was there.
LEMMA RowFrame ==
  ASSUME TInv, row' \in [Source -> Row], UNCHANGED <<page, notion, lost>>,
         \A s \in Source : row'[s] # row[s] => row'[s].status # "absent",
         \A s \in Source : ~Exists(s)' => job'[s] = job[s],
         \A v \in Worker : held'[v] \subseteq held[v],
         \A v \in Worker, p \in Page : seen'[v][p] \in {seen[v][p], Blank}
  PROVE  PageInv' /\ RowInv' /\ Kept
<1> USE DEF TInv
<1>1. PageInv' BY Frames
<1>2. ASSUME NEW s \in Source, ~Exists(s)' PROVE ~Exists(s)
  <2>1. row'[s] = Absent /\ Absent.status = "absent" BY <1>2 DEF Exists, Absent
  <2> QED BY <2>1 DEF Exists
<1>3. RowInv' BY <1>2 DEF RowInv, Exists
<1>4. Kept BY <1>2 DEF Kept
<1> QED BY <1>1, <1>3, <1>4

\* Jobs that write a source.
LEMMA JobType ==
  ASSUME TInv, scope' = scope, NEW w \in Worker, NEW s \in Source,
         SourceGrown(w, s) \/ OnboardSource(w, s)
  PROVE  TInv'
<1> USE DEF TInv
<1>0. Stage(w) BY DEF StageInv
<1>1. ASSUME SourceGrown(w, s) PROVE TInv'
  <2>0. PICK text \in scope.texts :
          row' = [row EXCEPT ![s] = [status |-> "queued", active |-> FALSE, ingested |-> 0,
                                     text |-> text]]
    BY <1>1 DEF SourceGrown
  <2>1. /\ grown' = grown \cup {s}
        /\ job' = [job EXCEPT ![s] = IF @ = "none" THEN "pending" ELSE @]
        /\ Rest(w)
        /\ UNCHANGED <<marked, page, registry, digests, notionVars, cuts, historyVars>>
    BY <1>1 DEF SourceGrown
  <2>2. [status |-> "queued", active |-> FALSE, ingested |-> 0, text |-> text] \in Row
    BY WrittenTexts DEF Row, OnboardingStatus
  <2>3. row' \in [Source -> Row] BY <2>0, <2>2 DEF TypeOK
  <2>4. \A r \in Source : row'[r] # row[r] => row'[r].status # "absent"
    BY <2>0 DEF TypeOK
  <2>5. \A r \in Source : ~Exists(r)' => job'[r] = job[r]
    BY <2>0, <2>1 DEF TypeOK, Exists, Absent
  <2>6. PageInv' /\ RowInv' /\ Kept
    BY <2>1, <2>3, <2>4, <2>5, RowFrame, RestFrames DEF notionVars, historyVars
  <2>7. StageInv' BY <2>1, <2>6, RestStage
  <2>8. TypeOK' BY <2>1, <2>3, RestType DEF TypeOK, notionVars, historyVars
  <2> QED BY <2>6, <2>7, <2>8
<1>2. ASSUME OnboardSource(w, s) PROVE TInv'
  <2>1. /\ job' = [job EXCEPT ![s] = "done"] /\ diverged' = diverged \cup {s} /\ Rest(w)
        /\ UNCHANGED <<grown, marked, page, registry, digests, notionVars, cuts, lost, typed,
                       dropped>>
    BY <1>2 DEF OnboardSource
  <2>2. Exists(s) /\ row[s] \in Row /\ row[s].status # "absent"
    BY <1>0, <1>2 DEF OnboardSource, Stage, RowInv, TypeOK
  <2>3. PICK r \in Row : row' = [row EXCEPT ![s] = r] /\ r.status # "absent"
    <3>1. PICK activate \in BOOLEAN,
               text \in {row[s].text} \cup (Annotated(copy[w][s].text) \cap scope.texts) :
            row' = [row EXCEPT
                      ![s].active = IF activate # copy[w][s].active THEN activate ELSE @,
                      ![s].status = IF (IF activate THEN "bootstrap_pending" ELSE "paused")
                                          # copy[w][s].status
                                    THEN (IF activate THEN "bootstrap_pending" ELSE "paused")
                                    ELSE @,
                      ![s].text = text]
      BY <1>2 DEF OnboardSource
    <3> DEFINE status == IF activate THEN "bootstrap_pending" ELSE "paused"
               a == IF activate # copy[w][s].active THEN activate ELSE row[s].active
               b == IF status # copy[w][s].status THEN status ELSE row[s].status
               r == [status |-> b, active |-> a, ingested |-> row[s].ingested, text |-> text]
    <3>4. text \in Texts BY <2>2, WrittenTexts DEF Row
    <3>2. r \in Row /\ r.status # "absent" BY <2>2, <3>4 DEF Row, OnboardingStatus
    <3>3. row' = [row EXCEPT ![s] = r]
      <4>1. row'[s] = [row[s] EXCEPT !.active = a, !.status = b, !.text = text]
        BY <3>1 DEF TypeOK
      <4>2. /\ \A x \in Source \ {s} : row'[x] = row[x]
            /\ row' = [x \in Source |-> row'[x]] /\ row = [x \in Source |-> row[x]]
        BY <3>1 DEF TypeOK
      <4> HIDE DEF a, b
      <4>4. \A x, y, z : [row[s] EXCEPT !.active = x, !.status = y, !.text = z]
                            = [status |-> y, active |-> x, ingested |-> row[s].ingested,
                               text |-> z]
        BY <2>2, Onboarded, Zenon
      <4>3. row'[s] = r BY <4>1, <4>4, Zenon
      <4> HIDE DEF r
      <4> QED BY <4>2, <4>3
    <3> QED BY <3>2, <3>3
  <2>4. row' \in [Source -> Row] BY <2>3 DEF TypeOK
  <2>5. \A q \in Source : row'[q] # row[q] => row'[q].status # "absent"
    BY <2>3 DEF TypeOK
  <2>6. \A q \in Source : ~Exists(q)' => job'[q] = job[q]
    BY <2>1, <2>3 DEF TypeOK, Exists, Absent
  <2>7. PageInv' /\ RowInv' /\ Kept
    BY <2>1, <2>4, <2>5, <2>6, RowFrame, RestFrames DEF notionVars
  <2>8. StageInv' BY <2>1, <2>7, RestStage
  <2>9. TypeOK' BY <2>1, <2>4, RestType DEF TypeOK, notionVars
  <2> QED BY <2>7, <2>8, <2>9
<1> QED BY <1>1, <1>2

\* What happens without a worker.
LEMMA WorldType ==
  ASSUME TInv, scope' = scope,
         \/ \E s \in Source : CreateSource(s) \/ ScanSource(s) \/ AddPage(s)
         \/ \E f \in Finding : StoreFinding(f)
         \/ \E p \in Page : EditPage(p) \/ TrashPage(p)
         \/ ResetFindings
         \/ UNCHANGED vars
  PROVE  TInv'
<1> USE DEF TInv
<1>1. UNCHANGED <<task, pc, at, todo, copy, seen, held, was, now>>
  BY DEF CreateSource, ScanSource, AddPage, StoreFinding, EditPage, TrashPage, ResetFindings,
         workVars, vars
<1>2. ASSUME Kept PROVE StageInv'
  BY <1>1, <1>2, StageFrame DEF StageInv
<1>3. ASSUME NEW s \in Source, CreateSource(s) PROVE TInv'
  <2>0. PICK text \in scope.texts :
          row' = [row EXCEPT ![s] = [status |-> "new", active |-> TRUE, ingested |-> 0,
                                     text |-> text]]
    BY <1>3 DEF CreateSource
  <2>1. /\ job' = [job EXCEPT ![s] = "pending"]
        /\ UNCHANGED <<grown, marked, page, registry, digests, notionVars, cuts, historyVars>>
    BY <1>3 DEF CreateSource
  <2>2. [status |-> "new", active |-> TRUE, ingested |-> 0, text |-> text] \in Row
    BY WrittenTexts DEF Row, OnboardingStatus
  <2>3. row' \in [Source -> Row] BY <2>0, <2>2 DEF TypeOK
  <2>4. \A r \in Source : row'[r] # row[r] => row'[r].status # "absent"
    BY <2>0 DEF TypeOK
  <2>5. \A r \in Source : ~Exists(r)' => job'[r] = job[r]
    BY <2>0, <2>1 DEF TypeOK, Exists, Absent
  <2>6. PageInv' /\ RowInv' /\ Kept
    BY <1>1, <2>1, <2>3, <2>4, <2>5, RowFrame DEF notionVars, historyVars
  <2>7. TypeOK' BY <1>1, <2>1, <2>3 DEF TypeOK, notionVars, historyVars
  <2> QED BY <1>2, <2>6, <2>7
<1>4. ASSUME NEW s \in Source, ScanSource(s) PROVE TInv'
  <2>1. /\ row' = [row EXCEPT ![s].status = "active", ![s].ingested = @ + 1]
        /\ diverged' = diverged \cup {s}
        /\ UNCHANGED <<job, grown, marked, page, registry, digests, notionVars, cuts, lost, typed,
                       dropped>>
    BY <1>4 DEF ScanSource
  <2>2. row[s] \in Row BY DEF TypeOK
  <2>3. PICK r \in Row : row' = [row EXCEPT ![s] = r] /\ r.status # "absent"
    <3> DEFINE r == [status |-> "active", active |-> row[s].active,
                     ingested |-> row[s].ingested + 1, text |-> row[s].text]
    <3>1. r \in Row /\ r.status # "absent" BY <2>2 DEF Row, OnboardingStatus
    <3>2. row' = [row EXCEPT ![s] = r]
      <4>1. row'[s] = [row[s] EXCEPT !.status = "active",
                               !.ingested = row[s].ingested + 1]
        BY <2>1 DEF TypeOK
      <4>4. \A x, y : [row[s] EXCEPT !.status = x, !.ingested = y]
                         = [status |-> x, active |-> row[s].active, ingested |-> y,
                            text |-> row[s].text]
        BY <2>2, Scanned, Zenon
      <4>2. row'[s] = r BY <4>1, <4>4, Zenon
      <4>3. /\ \A x \in Source \ {s} : row'[x] = row[x]
            /\ row' = [x \in Source |-> row'[x]] /\ row = [x \in Source |-> row[x]]
        BY <2>1 DEF TypeOK
      <4> HIDE DEF r
      <4> QED BY <4>2, <4>3
    <3> QED BY <3>1, <3>2
  <2>4. row' \in [Source -> Row] BY <2>3 DEF TypeOK
  <2>5. \A q \in Source : row'[q] # row[q] => row'[q].status # "absent"
    BY <2>3 DEF TypeOK
  <2>6. PageInv' /\ RowInv' /\ Kept
    BY <1>1, <2>1, <2>4, <2>5, RowFrame DEF notionVars
  <2>7. TypeOK' BY <1>1, <2>1, <2>4 DEF TypeOK, notionVars
  <2> QED BY <1>2, <2>6, <2>7
<1>5. ASSUME NEW s \in Source, AddPage(s) PROVE TInv'
  <2>1. /\ UNCHANGED <<tableVars, bases, bin, posts, cuts, lost, diverged, dropped>>
        /\ typed' = typed \cup {p \in Page : Made(p)' /\ ~Made(p)}
    BY <1>5 DEF AddPage
  <2>2. PICK shown \in {"active", "candidate"}, written \in scope.texts :
          MakePage(s, [shown |-> shown, status |-> "new", ingested |-> 0, text |-> written],
                   registry)
    BY <1>5 DEF AddPage
  <2> DEFINE text == [shown |-> shown, status |-> "new", ingested |-> 0, text |-> written]
  <2>3. text \in Text /\ text # Blank /\ text.status = "new"
    BY WrittenTexts DEF Text, Blank, OnboardingStatus
  <2>4. registry \in Nat /\ s \in Key BY Keys DEF TypeOK
  <2> HIDE DEF text
  <2>5. PICK p \in Page : /\ p[1] = s /\ notion' = [notion EXCEPT ![p] = text]
                          /\ notion' \in [Page -> Text] /\ home' \in [Page -> Nat]
    BY <2>2, <2>3, <2>4, MakePageIs DEF text
  <2>6. Fits(p, text) BY <2>3, <2>5, Keys DEF Fits
  <2>7. UNCHANGED <<row, job, grown, marked, page, registry, digests>> BY <2>1 DEF tableVars
  <2>8. PageInv' BY <1>1, <2>5, <2>6, <2>7, WriteFrame DEF TypeOK
  <2>9. RowInv' BY <1>1, <2>1, <2>7, Frames
  <2>10. Kept BY <2>7 DEF Kept, Exists
  <2>11. TypeOK' BY <1>1, <2>1, <2>5, <2>7 DEF TypeOK
  <2> QED BY <1>2, <2>8, <2>9, <2>10, <2>11
<1>6. ASSUME NEW f \in Finding, StoreFinding(f) PROVE TInv'
  <2>1. /\ marked' = [marked EXCEPT ![f] = "new"]
        /\ UNCHANGED <<row, job, grown, page, registry, digests, notionVars, cuts, historyVars>>
    BY <1>6 DEF StoreFinding
  <2>2. TypeOK' BY <1>1, <2>1 DEF TypeOK, notionVars, historyVars, FindingStatus
  <2>3. PageInv' /\ RowInv' BY <1>1, <2>1, Frames DEF notionVars, historyVars
  <2>4. Kept BY <2>1 DEF Kept, Exists
  <2> QED BY <1>2, <2>2, <2>3, <2>4
<1>7. ASSUME NEW p \in Page, EditPage(p) PROVE TInv'
  <2>1. /\ UNCHANGED <<tableVars, bases, home, bin, posts, cuts, lost, typed, dropped>>
        /\ Made(p) /\ p[1] \notin Target
        /\ diverged' = IF p[1] \in Source THEN diverged \cup {p[1]} ELSE diverged
    BY <1>7 DEF EditPage
  <2>2. PICK shown \in {"paused", "dismissed"} :
           /\ notion' = [notion EXCEPT ![p].shown = shown]
           /\ p[1] \in Finding => shown = "dismissed"
    BY <1>7, Keys DEF EditPage
  <2>3. notion[p] \in Text BY DEF TypeOK
  <2>4. PICK t \in Text : /\ notion' = [notion EXCEPT ![p] = t] /\ t.shown = shown
                          /\ t.status = notion[p].status
    <3> DEFINE t == [shown |-> shown, status |-> notion[p].status,
                     ingested |-> notion[p].ingested, text |-> notion[p].text]
    <3>1. t \in Text BY <2>3 DEF Text
    <3>2. notion' = [notion EXCEPT ![p] = t]
      <4>1. notion'[p] = [notion[p] EXCEPT !.shown = shown]
        BY <2>2 DEF TypeOK
      <4>2. notion'[p] = t BY <2>3, <4>1, Shown
      <4>3. /\ \A x \in Page \ {p} : notion'[x] = notion[x]
            /\ notion' = [x \in Page |-> notion'[x]] /\ notion = [x \in Page |-> notion[x]]
        BY <2>2 DEF TypeOK
      <4> HIDE DEF t
      <4> QED BY <4>2, <4>3
    <3> QED BY <3>1, <3>2
  <2>5. Fits(p, t) BY <2>1, <2>2, <2>4 DEF Fits, PageInv, Blank
  <2>6. UNCHANGED <<row, job, grown, marked, page, registry, digests>> BY <2>1 DEF tableVars
  <2>7. PageInv' BY <1>1, <2>4, <2>5, <2>6, WriteFrame DEF TypeOK
  <2>8. RowInv' BY <1>1, <2>1, <2>6, Frames
  <2>9. Kept BY <2>6 DEF Kept, Exists
  <2>10. diverged' \subseteq Source BY <2>1 DEF TypeOK
  <2>11. TypeOK' BY <1>1, <2>1, <2>4, <2>6, <2>10 DEF TypeOK
  <2> QED BY <1>2, <2>7, <2>8, <2>9, <2>11
<1>8. ASSUME NEW p \in Page, TrashPage(p) PROVE TInv'
  <2>1. /\ bin' = bin \cup {p}
        /\ UNCHANGED <<tableVars, bases, notion, home, posts, cuts, historyVars>>
    BY <1>8 DEF TrashPage
  <2>2. TypeOK' BY <1>1, <2>1 DEF TypeOK, tableVars, historyVars
  <2>3. PageInv' /\ RowInv' BY <1>1, <2>1, Frames DEF tableVars, historyVars
  <2>4. Kept BY <2>1 DEF Kept, Exists, tableVars
  <2> QED BY <1>2, <2>2, <2>3, <2>4
<1>9. ASSUME ResetFindings PROVE TInv'
  <2>1. /\ cuts' = cuts + 1 /\ digests' = 0 /\ dropped' = dropped + digests
        /\ marked' = [f \in Finding |-> IF marked[f] = "absent" THEN "absent" ELSE "deleted"]
        /\ UNCHANGED <<row, job, grown, page, registry, notionVars, lost, typed, diverged>>
    BY <1>9 DEF ResetFindings
  <2>2. TypeOK' BY <1>1, <2>1 DEF TypeOK, notionVars, FindingStatus
  <2>3. PageInv' /\ RowInv' BY <1>1, <2>1, Frames DEF notionVars
  <2>4. Kept BY <2>1 DEF Kept, Exists
  <2> QED BY <1>2, <2>2, <2>3, <2>4
<1>10. ASSUME UNCHANGED vars PROVE TInv'
  <2>1. TypeOK'
    BY <1>10 DEF TypeOK, vars, tableVars, notionVars, workVars, historyVars
  <2>2. PageInv' /\ RowInv'
    BY <1>1, <1>10, Frames DEF vars, tableVars, notionVars, historyVars
  <2>3. Kept BY <1>10 DEF Kept, Exists, vars, tableVars
  <2> QED BY <1>2, <2>1, <2>2, <2>3
<1> QED BY <1>3, <1>4, <1>5, <1>6, <1>7, <1>8, <1>9, <1>10

LEMMA TypeNext == TInv /\ [Next]_vars => TInv'
<1> SUFFICES ASSUME TInv, [Next]_vars PROVE TInv' OBVIOUS
<1>1. scope' = scope BY DEF Next, vars
<1> QED
  BY <1>1, Steps, RollbackType, ReadType, CommitType, PushType, ReconcileType, JobType, WorldType

\* The types of the tables, the pages and the runs, for any number of each.
THEOREM TypeCorrect == Spec => []TypeOK
<1>1. Init => TInv BY TypeInit
<1>2. TInv /\ [Next]_vars => TInv' BY TypeNext
<1>3. TInv => TypeOK BY DEF TInv
<1> QED BY <1>1, <1>2, <1>3, PTL DEF Spec

-----------------------------------------------------------------------------
(* The lock of the control plane's row of integration_states *)

Mutex == \A v, w \in Worker : pc[v] = "locked" /\ pc[w] = "locked" => v = w

LEMMA LockSteps ==
  ASSUME [Next]_vars
  PROVE  \/ pc' = pc
         \/ \E w \in Worker : \/ \E c \in {"idle", "create", "ready", "open", "posted"} :
                                    pc' = [pc EXCEPT ![w] = c]
                              \/ pc' = [pc EXCEPT ![w] = "locked"] /\ StateFree(w)
<1>1. ASSUME NEW w \in Worker,
             \/ RunFullNotionSync(w) \/ SyncAfterScan(w) \/ RunNotionControlPlane(w)
             \/ CreateDatabase(w) \/ CommitRows(w) \/ SendMorningDigest(w) \/ PostMessage(w)
             \/ CommitFindings(w) \/ ReadAgain(w)
             \/ \E s \in Source : ExpandSource(w, s) \/ StartOnboarding(w, s)
      PROVE  \E c \in {"create", "ready", "open", "posted"} : pc' = [pc EXCEPT ![w] = c]
  BY <1>1 DEF RunFullNotionSync, SyncAfterScan, RunNotionControlPlane, Begin, ReadState,
              CreateDatabase, CommitRows, SendMorningDigest, PostMessage, CommitFindings,
              ReadAgain, ExpandSource, StartOnboarding
<1>2. ASSUME NEW w \in Worker,
             \/ StatusesPulled(w) \/ ReconcileSourceRegistry(w) \/ RecordDigest(w) \/ Rollback(w)
             \/ CommitAfterScan(w)
             \/ \E s \in Source : SourceGrown(w, s) \/ OnboardSource(w, s)
      PROVE  pc' = [pc EXCEPT ![w] = "idle"]
  <2>1. Rest(w)
    BY <1>2 DEF StatusesPulled, ReconcileSourceRegistry, RecordDigest, Rollback, SourceGrown,
                OnboardSource, CommitAfterScan
  <2> QED BY <2>1 DEF Rest
<1>3. ASSUME NEW w \in Worker, LoadRows(w) \/ LoadFindings(w) \/ QueryPages(w)
      PROVE  pc' = [pc EXCEPT ![w] = "locked"] /\ StateFree(w)
  BY <1>3 DEF LoadRows, LoadFindings, QueryPages, UpsertState
<1>4. ASSUME NEW w \in Worker,
             \/ \E k \in Key : UpdatePage(w, k) \/ CreatePage(w, k)
             \/ \E f \in Finding : RetrieveStatus(w, f)
      PROVE  pc' = pc
  BY <1>4 DEF UpdatePage, CreatePage, RetrieveStatus
<1>5. ASSUME \/ \E s \in Source : CreateSource(s) \/ ScanSource(s) \/ AddPage(s)
             \/ \E f \in Finding : StoreFinding(f)
             \/ \E p \in Page : EditPage(p) \/ TrashPage(p)
             \/ ResetFindings
             \/ UNCHANGED vars
      PROVE  pc' = pc
  BY <1>5 DEF CreateSource, ScanSource, AddPage, StoreFinding, EditPage, TrashPage,
              ResetFindings, vars
<1>6. ASSUME NEW w \in Worker,
              \/ RunFullNotionSync(w) \/ SyncAfterScan(w) \/ RunNotionControlPlane(w)
              \/ CreateDatabase(w)
              \/ LoadRows(w) \/ CommitRows(w) \/ LoadFindings(w) \/ ReadAgain(w)
              \/ CommitFindings(w) \/ CommitAfterScan(w)
              \/ StatusesPulled(w) \/ QueryPages(w) \/ ReconcileSourceRegistry(w)
              \/ SendMorningDigest(w) \/ PostMessage(w) \/ RecordDigest(w)
              \/ Rollback(w) /\ cuts' \in {cuts, cuts + 1}
              \/ \E k \in Key : UpdatePage(w, k) \/ CreatePage(w, k)
              \/ \E f \in Finding : RetrieveStatus(w, f)
              \/ \E s \in Source : \/ ExpandSource(w, s) \/ SourceGrown(w, s)
                                   \/ StartOnboarding(w, s) \/ OnboardSource(w, s)
      PROVE  \/ pc' = pc
             \/ \E c \in {"idle", "create", "ready", "open", "posted"} :
                   pc' = [pc EXCEPT ![w] = c]
             \/ pc' = [pc EXCEPT ![w] = "locked"] /\ StateFree(w)
  BY <1>1, <1>2, <1>3, <1>4, <1>6
<1> QED BY <1>5, <1>6, Steps

\* Two transactions never hold the row's lock together.
LEMMA MutexNext == TInv /\ Mutex /\ [Next]_vars => Mutex'
<1> SUFFICES ASSUME TInv, Mutex, [Next]_vars, NEW v \in Worker, NEW w \in Worker,
                    pc'[v] = "locked", pc'[w] = "locked"
             PROVE  v = w
  BY DEF Mutex
<1>1. CASE pc' = pc BY <1>1 DEF Mutex
<1>2. ASSUME NEW u \in Worker, NEW c \in {"idle", "create", "ready", "open", "posted"},
             pc' = [pc EXCEPT ![u] = c]
      PROVE  v = w
  BY <1>2 DEF Mutex, TInv, TypeOK
<1>3. ASSUME NEW u \in Worker, pc' = [pc EXCEPT ![u] = "locked"], StateFree(u)
      PROVE  v = w
  BY <1>3 DEF Mutex, StateFree, TInv, TypeOK
<1> QED BY <1>1, <1>2, <1>3, LockSteps

-----------------------------------------------------------------------------
(* Whose every page in Notion is *)

OwnInv ==
    /\ \A p \in Page : Made(p) =>
          p \in typed \cup lost \/ page[p[1]] = p \/ \E w \in Worker : p \in held[w]
    /\ \A w \in Worker : \A p \in held[w] :
          p \notin lost \cup typed /\ page[p[1]] = NoPage /\ p[1] \notin todo[w]
    /\ \A w \in Worker : \A p, q \in held[w] : p[1] = q[1] => p = q
    /\ \A k \in Key : page[k] # NoPage => page[k] \notin lost
    /\ \A p \in lost \cup typed : Made(p)

\* Nothing is made, recorded or lost.
LEMMA OwnFrame ==
  ASSUME TInv, OwnInv, UNCHANGED <<page, lost, typed>>,
         \A p \in Page : notion'[p] # Blank <=> notion[p] # Blank,
         \A v \in Worker : held'[v] = held[v],
         \A v \in Worker : held[v] # {} => todo'[v] \subseteq todo[v]
  PROVE  OwnInv'
<1>1. lost \cup typed \subseteq Page BY DEF TInv, TypeOK
<1> QED BY <1>1 DEF OwnInv, Made

\* Runs that rest have let go of no page.
LEMMA RestHeld ==
  ASSUME TInv, NEW w \in Worker, Rest(w), held[w] = {}
  PROVE  /\ \A v \in Worker : held'[v] = held[v]
         /\ \A v \in Worker : held[v] # {} => todo'[v] \subseteq todo[v]
  BY DEF Rest, TInv, TypeOK

\* A run that holds pages holds the lock, and no other does.
LEMMA Alone ==
  ASSUME TInv, Mutex, NEW w \in Worker, pc[w] = "locked"
  PROVE  \A v \in Worker \ {w} : held[v] = {}
  BY DEF TInv, StageInv, Stage, Mutex

LEMMA OwnRecord ==
  ASSUME TInv, Mutex, OwnInv, NEW w \in Worker, pc[w] = "locked", page' = Recorded(w),
         held' = [held EXCEPT ![w] = {}], UNCHANGED <<notion, lost, typed>>
  PROVE  OwnInv'
<1> USE DEF TInv
<1>1. \A v \in Worker : held'[v] = {} BY Alone DEF TypeOK
<1>2. ASSUME NEW p \in Page, Made(p) PROVE p \in typed \cup lost \/ page'[p[1]] = p
  <2>1. CASE \E v \in Worker : p \in held[v]
    <3>1. p \in held[w] BY <2>1, Alone
    <3> QED BY <3>1, Keys, RecordedIs DEF OwnInv
  <2>2. CASE page[p[1]] = p
    <3>1. \A q \in held[w] : q[1] # p[1] BY <2>2, Keys DEF OwnInv
    <3> QED BY <2>2, <3>1, Keys, RecordedIs
  <2> QED BY <1>2, <2>1, <2>2 DEF OwnInv
<1>3. \A k \in Key : page'[k] # NoPage => page'[k] \notin lost
  BY RecordedIs DEF OwnInv
<1> QED BY <1>1, <1>2, <1>3 DEF OwnInv, Made

LEMMA OwnRollback ==
  ASSUME TInv, Mutex, OwnInv, NEW w \in Worker, Rollback(w)
  PROVE  OwnInv'
<1> USE DEF TInv
<1>1. /\ lost' = lost \cup held[w] /\ UNCHANGED <<page, notion, typed>> /\ Rest(w)
  BY DEF Rollback, notionVars
<1>2. /\ \A v \in Worker \ {w} : held'[v] = held[v] /\ todo'[v] = todo[v]
      /\ held'[w] = {} /\ held[w] \subseteq Page
  BY <1>1 DEF Rest, TypeOK
<1>3. \A p \in Page : Made(p) =>
         p \in typed \cup lost' \/ page[p[1]] = p \/ \E v \in Worker : p \in held'[v]
  BY <1>1, <1>2 DEF OwnInv
<1>4. ASSUME NEW v \in Worker, NEW p \in held'[v]
      PROVE  p \notin lost' \cup typed /\ page[p[1]] = NoPage /\ p[1] \notin todo'[v]
  <2>1. v # w /\ p \in held[v] BY <1>2, <1>4
  <2>2. held[w] = {}
    BY <2>1, Alone DEF StageInv, Stage
  <2> QED BY <1>1, <1>2, <2>1, <2>2 DEF OwnInv
<1>5. \A k \in Key : page[k] # NoPage => page[k] \notin lost'
  BY <1>1 DEF OwnInv, PageInv
<1>6. \A p \in lost' \cup typed : Made(p) BY <1>1, <1>2 DEF OwnInv, PageInv
<1>7. \A v \in Worker : \A p, q \in held'[v] : p[1] = q[1] => p = q
  BY <1>2 DEF OwnInv
<1> QED BY <1>1, <1>3, <1>4, <1>5, <1>6, <1>7 DEF OwnInv, Made

LEMMA OwnCreate ==
  ASSUME TInv, Mutex, OwnInv, NEW w \in Worker, NEW k \in Key, CreatePage(w, k)
  PROVE  OwnInv'
<1> USE DEF TInv
<1>1. /\ Pushing(w, k) /\ page[k] = NoPage /\ MakePage(k, Says(w, k), at[w])
      /\ held' = [held EXCEPT ![w] = @ \cup {p \in Page : Made(p)' /\ ~Made(p)}]
      /\ todo' = [todo EXCEPT ![w] = @ \ {k}]
      /\ UNCHANGED <<page, lost, typed>>
  BY DEF CreatePage, tableVars
<1>2. Says(w, k) \in Text /\ Says(w, k) # Blank /\ at[w] \in Nat
  <2>1. \A p : p[1] = k => Fits(p, Says(w, k)) BY <1>1, SaysFits
  <2>2. <<k, 1>>[1] = k OBVIOUS
  <2> QED BY <1>1, <2>1, <2>2, SaysFits DEF Fits, TypeOK
<1>3. PICK p \in Page : /\ p[1] = k /\ ~Made(p) /\ notion' = [notion EXCEPT ![p] = Says(w, k)]
                        /\ {q \in Page : Made(q)' /\ ~Made(q)} = {p}
  BY <1>1, <1>2, MakePageIs
<1>4. pc[w] = "locked" /\ k \in todo[w] BY <1>1 DEF Pushing
<1>5. held'[w] = held[w] \cup {p} /\ \A v \in Worker \ {w} : held'[v] = {}
  BY <1>1, <1>3, <1>4, Alone DEF TypeOK
<1>6. \A q \in Page : (notion'[q] # Blank) <=> (Made(q) \/ q = p)
  BY <1>2, <1>3 DEF Made, TypeOK
<1>7. \A q \in held[w] : q[1] # k BY <1>4 DEF OwnInv
<1>8. p \notin lost \cup typed BY <1>3 DEF OwnInv
<1>9. todo'[w] = todo[w] \ {k} BY <1>1 DEF TypeOK
<1>10. \A q \in Page : notion'[q] # Blank =>
          q \in typed \cup lost \/ page[q[1]] = q \/ \E v \in Worker : q \in held'[v]
  <2>1. \A q \in Page : (\E v \in Worker : q \in held[v]) => q \in held'[w]
    BY <1>4, <1>5, Alone
  <2> QED BY <1>5, <1>6, <2>1 DEF OwnInv
<1>11. \A v \in Worker : \A q \in held'[v] :
          q \notin lost \cup typed /\ page[q[1]] = NoPage /\ q[1] \notin todo'[v]
  BY <1>1, <1>3, <1>5, <1>8, <1>9 DEF OwnInv
<1>12. \A v \in Worker : \A q, r \in held'[v] : q[1] = r[1] => q = r
  BY <1>3, <1>5, <1>7 DEF OwnInv
<1>13. \A q \in lost \cup typed : notion'[q] # Blank
  <2>1. lost \cup typed \subseteq Page BY DEF TypeOK
  <2> QED BY <1>6, <2>1 DEF OwnInv
<1> QED BY <1>1, <1>10, <1>11, <1>12, <1>13 DEF OwnInv, Made

LEMMA OwnReconcile ==
  ASSUME TInv, Mutex, OwnInv, NEW w \in Worker, ReconcileSourceRegistry(w)
  PROVE  OwnInv'
<1> USE DEF TInv
<1>1. /\ page' = [k \in Key |-> IF \E p \in Seen(w) : p[1] = k THEN PageOf(w, k) ELSE page[k]]
      /\ Rest(w) /\ UNCHANGED <<notion, lost, typed>>
      /\ \A p \in Seen(w) : ~Collides(w, p)
      /\ task[w] = "control" /\ pc[w] = "locked"
  BY DEF ReconcileSourceRegistry, notionVars
<1>2. \A v \in Worker : held[v] = {} /\ held'[v] = {}
  <2>1. held[w] = {} BY <1>1 DEF StageInv, Stage
  <2>2. \A v \in Worker : held[v] = {} BY <1>1, <2>1, Alone
  <2> QED BY <1>1, <2>2 DEF Rest, TypeOK
<1>3. \A k \in Key : \/ page'[k] \in Seen(w) /\ page'[k][1] = k
                     \/ (\A p \in Seen(w) : p[1] # k) /\ page'[k] = page[k]
  BY <1>1, PageOfSeen
<1>4. \A p \in Seen(w) : p[1] \in Source /\ p \in Page /\ (Exists(p[1]) => page[p[1]] = p)
  BY <1>1, SeenPages DEF PageInv, Collides
<1>5. ASSUME NEW p \in Page, page[p[1]] = p PROVE page'[p[1]] = p
  <2>1. CASE p[1] \in Source
    <3>1. Exists(p[1]) BY <1>5, <2>1, Keys DEF RowInv
    <3> QED BY <1>3, <1>4, <1>5, <3>1, Keys
  <2>2. CASE p[1] \notin Source BY <1>3, <1>4, <1>5, <2>2, Keys
  <2> QED BY <2>1, <2>2
<1>6. \A k \in Key : page'[k] # NoPage => page'[k] \notin lost
  <2> SUFFICES ASSUME NEW k \in Key, page'[k] # NoPage PROVE page'[k] \notin lost OBVIOUS
  <2>1. CASE page'[k] = page[k] BY <2>1 DEF OwnInv
  <2>2. CASE page'[k] \in Seen(w) /\ page'[k][1] = k /\ page'[k] # page[k]
    <3>1. k \in Source /\ page'[k] \in Page /\ ~Exists(k) BY <1>4, <2>2
    <3> QED BY <2>2, <3>1 DEF RowInv
  <2> QED BY <1>3, <2>1, <2>2
<1> QED BY <1>1, <1>2, <1>5, <1>6 DEF OwnInv, Made

\* Steps that neither make a page nor let go of one.
LEMMA OwnRest ==
  ASSUME TInv, Mutex, OwnInv, NEW w \in Worker,
         \/ StatusesPulled(w) \/ RecordDigest(w)
         \/ \E s \in Source : SourceGrown(w, s) \/ OnboardSource(w, s)
  PROVE  OwnInv'
<1> USE DEF TInv
<1>1. Rest(w) /\ UNCHANGED <<page, notion, lost, typed>>
  BY DEF StatusesPulled, RecordDigest, SourceGrown, OnboardSource, notionVars, historyVars
<1>2. task[w] \in {"pull", "grow", "onboard"} \/ pc[w] = "posted"
  BY DEF StatusesPulled, RecordDigest, SourceGrown, OnboardSource
<1>3. held[w] = {} BY <1>2 DEF StageInv, Stage
<1> QED BY <1>1, <1>3, RestHeld, OwnFrame

LEMMA OwnRead ==
  ASSUME TInv, Mutex, OwnInv, NEW w \in Worker,
         \/ RunFullNotionSync(w) \/ SyncAfterScan(w) \/ RunNotionControlPlane(w)
         \/ CreateDatabase(w) \/ ReadAgain(w)
         \/ LoadRows(w) \/ LoadFindings(w) \/ QueryPages(w)
         \/ \E f \in Finding : RetrieveStatus(w, f)
         \/ SendMorningDigest(w) \/ PostMessage(w)
         \/ \E s \in Source : ExpandSource(w, s) \/ StartOnboarding(w, s)
         \/ \E k \in Key : UpdatePage(w, k)
  PROVE  OwnInv'
<1> USE DEF TInv
<1>1. ASSUME \/ LoadRows(w) \/ LoadFindings(w)
             \/ \E s \in Source : ExpandSource(w, s) \/ StartOnboarding(w, s)
      PROVE  OwnInv'
  <2>1. UNCHANGED <<page, notion, held, lost, typed>> /\ pc[w] # "locked"
    BY <1>1 DEF LoadRows, LoadFindings, UpsertState, ExpandSource, StartOnboarding, tableVars,
                notionVars, historyVars
  <2>2. held[w] = {} BY <2>1 DEF StageInv, Stage
  <2>3. \A v \in Worker \ {w} : todo'[v] = todo[v]
    BY <1>1 DEF LoadRows, LoadFindings, ExpandSource, StartOnboarding, TypeOK
  <2> QED BY <2>1, <2>2, <2>3, OwnFrame
<1>2. ASSUME \/ RunFullNotionSync(w) \/ SyncAfterScan(w) \/ RunNotionControlPlane(w)
             \/ CreateDatabase(w) \/ ReadAgain(w)
             \/ QueryPages(w) \/ SendMorningDigest(w) \/ PostMessage(w)
             \/ \E f \in Finding : RetrieveStatus(w, f)
      PROVE  OwnInv'
  <2>1. UNCHANGED <<page, notion, held, lost, typed>>
    BY <1>2 DEF RunFullNotionSync, SyncAfterScan, RunNotionControlPlane, Begin, CreateDatabase,
                ReadAgain, QueryPages, SendMorningDigest, PostMessage, RetrieveStatus, tableVars,
                notionVars, workVars, historyVars
  <2>2. \A v \in Worker : todo'[v] \subseteq todo[v]
    BY <1>2 DEF RunFullNotionSync, SyncAfterScan, RunNotionControlPlane, Begin, CreateDatabase,
                ReadAgain, QueryPages, SendMorningDigest, PostMessage, RetrieveStatus, workVars,
                TypeOK
  <2> QED BY <2>1, <2>2, OwnFrame
<1>3. ASSUME NEW k \in Key, UpdatePage(w, k) PROVE OwnInv'
  <2>1. /\ UNCHANGED <<page, held, lost, typed>> /\ Pushing(w, k)
        /\ page[k] \in Page /\ page[k] # NoPage
        /\ notion' = [notion EXCEPT ![page[k]] = Says(w, k)]
        /\ todo' = [todo EXCEPT ![w] = @ \ {k}]
    BY <1>3, Keys DEF UpdatePage, tableVars
  <2>2. Made(page[k]) /\ page[k][1] = k BY <2>1 DEF PageInv
  <2>3. Says(w, k) # Blank BY <2>1, <2>2, SaysFits DEF Fits
  <2>4. \A p \in Page : notion'[p] # Blank <=> notion[p] # Blank
    BY <2>1, <2>2, <2>3 DEF Made, TypeOK
  <2>5. \A v \in Worker : todo'[v] \subseteq todo[v] BY <2>1 DEF TypeOK
  <2> QED BY <2>1, <2>4, <2>5, OwnFrame
<1> QED BY <1>1, <1>2, <1>3

LEMMA OwnWorld ==
  ASSUME TInv, Mutex, OwnInv,
         \/ \E s \in Source : CreateSource(s) \/ ScanSource(s) \/ AddPage(s)
         \/ \E f \in Finding : StoreFinding(f)
         \/ \E p \in Page : EditPage(p) \/ TrashPage(p)
         \/ ResetFindings
         \/ UNCHANGED vars
  PROVE  OwnInv'
<1> USE DEF TInv
<1>1. UNCHANGED <<page, lost, held, todo>>
  BY DEF CreateSource, ScanSource, AddPage, StoreFinding, EditPage, TrashPage, ResetFindings,
         tableVars, historyVars, workVars, vars
<1>2. ASSUME NEW s \in Source, AddPage(s) PROVE OwnInv'
  <2>1. typed' = typed \cup {p \in Page : Made(p)' /\ ~Made(p)}
    BY <1>2 DEF AddPage
  <2>2. PICK shown \in {"active", "candidate"}, written \in scope.texts :
          MakePage(s, [shown |-> shown, status |-> "new", ingested |-> 0, text |-> written],
                   registry)
    BY <1>2 DEF AddPage
  <2> DEFINE text == [shown |-> shown, status |-> "new", ingested |-> 0, text |-> written]
  <2>3. text \in Text /\ text # Blank BY WrittenTexts DEF Text, Blank, OnboardingStatus
  <2>4. registry \in Nat /\ s \in Key BY Keys DEF TypeOK
  <2> HIDE DEF text
  <2>5. PICK p \in Page : /\ ~Made(p) /\ notion' = [notion EXCEPT ![p] = text]
                          /\ {q \in Page : Made(q)' /\ ~Made(q)} = {p}
    BY <2>2, <2>3, <2>4, MakePageIs DEF text
  <2>6. typed' = typed \cup {p} BY <2>1, <2>5
  <2>7. \A q \in Page : (notion'[q] # Blank) <=> (Made(q) \/ q = p)
    BY <2>3, <2>5 DEF Made, TypeOK
  <2>8. \A v \in Worker : p \notin held[v] BY <2>5 DEF PageInv
  <2>9. lost \cup typed \subseteq Page BY DEF TypeOK
  <2>10. \A q \in Page : notion'[q] # Blank =>
            q \in typed' \cup lost \/ page[q[1]] = q \/ \E v \in Worker : q \in held[v]
    BY <2>6, <2>7 DEF OwnInv
  <2>11. \A q \in lost \cup typed' : notion'[q] # Blank BY <2>6, <2>7, <2>9 DEF OwnInv
  <2> QED BY <1>1, <2>6, <2>8, <2>10, <2>11 DEF OwnInv, Made
<1>3. ASSUME NEW p \in Page, EditPage(p) PROVE OwnInv'
  <2>1. UNCHANGED typed /\ Made(p) /\ p[1] \notin Target BY <1>3 DEF EditPage
  <2>2. \A q \in Page : notion'[q] # Blank <=> notion[q] # Blank
    <3>1. PICK shown \in {"paused", "dismissed"} : notion' = [notion EXCEPT ![p].shown = shown]
      BY <1>3 DEF EditPage
    <3>2. notion'[p] = [notion[p] EXCEPT !.shown = shown] /\ notion[p] \in Text
      BY <3>1 DEF TypeOK
    <3>3. notion'[p].shown = shown BY <3>2 DEF Text
    <3>4. \A q \in Page \ {p} : notion'[q] = notion[q] BY <3>1 DEF TypeOK
    <3> QED BY <2>1, <3>3, <3>4 DEF Made, Blank
  <2> QED BY <1>1, <2>1, <2>2, OwnFrame
<1>4. ASSUME \/ \E s \in Source : CreateSource(s) \/ ScanSource(s)
             \/ \E f \in Finding : StoreFinding(f)
             \/ \E p \in Page : TrashPage(p)
             \/ ResetFindings
             \/ UNCHANGED vars
      PROVE  OwnInv'
  <2>1. UNCHANGED <<typed, notion>>
    BY <1>4 DEF CreateSource, ScanSource, StoreFinding, TrashPage, ResetFindings, notionVars,
                historyVars, vars
  <2> QED BY <1>1, <2>1, OwnFrame
<1> QED BY <1>2, <1>3, <1>4

LEMMA OwnNext == TInv /\ Mutex /\ OwnInv /\ [Next]_vars => OwnInv'
<1> SUFFICES ASSUME TInv, Mutex, OwnInv, [Next]_vars PROVE OwnInv' OBVIOUS
<1>1. ASSUME NEW w \in Worker, CommitRows(w) \/ CommitFindings(w) \/ CommitAfterScan(w)
      PROVE  OwnInv'
  <2>1. /\ pc[w] = "locked" /\ page' = Recorded(w) /\ held' = [held EXCEPT ![w] = {}]
        /\ UNCHANGED <<notion, lost, typed>>
    BY <1>1 DEF CommitRows, CommitFindings, CommitAfterScan, Rest, notionVars, historyVars
  <2> QED BY <2>1, OwnRecord
<1> QED
  BY <1>1, Steps, OwnRollback, OwnCreate, OwnReconcile, OwnRest, OwnRead, OwnWorld

\* Types, the lock and whose page is whose, together.
SInv == TInv /\ Mutex /\ OwnInv

LEMMA Safe == Spec => []SInv
<1>1. Init => SInv
  <2>1. Init => Mutex BY DEF Init, Mutex
  <2>2. Init => OwnInv BY DEF Init, OwnInv, Made, Key
  <2> QED BY <2>1, <2>2, TypeInit DEF SInv
<1>2. SInv /\ [Next]_vars => SInv' BY TypeNext, MutexNext, OwnNext DEF SInv
<1> QED BY <1>1, <1>2, PTL DEF Spec

\* Pages that count for a row are the one recorded, or the ones held by the one run
\* that holds the lock; and it holds at most one for the row.
LEMMA LiveIsOne == SInv => OnePagePerRow
<1> SUFFICES ASSUME SInv, NEW k \in Key PROVE Cardinality(Live(k)) <= 1
  BY DEF OnePagePerRow
<1> USE DEF SInv, TInv
<1>1. ASSUME NEW p \in Live(k), NEW q \in Live(k) PROVE p = q
  <2>1. /\ p \in Page /\ q \in Page /\ p[1] = k /\ q[1] = k
        /\ page[k] = p \/ \E v \in Worker : p \in held[v]
        /\ page[k] = q \/ \E v \in Worker : q \in held[v]
    BY DEF Live, OwnInv
  <2>2. \A v \in Worker : held[v] # {} => pc[v] = "locked" BY DEF StageInv, Stage
  <2>3. NoPage \notin Page BY Keys
  <2> QED BY <2>1, <2>2, <2>3 DEF OwnInv, Mutex
<1>2. CASE Live(k) = {} BY <1>2, FS_EmptySet
<1>3. CASE Live(k) # {}
  <2>1. PICK p : Live(k) = {p} BY <1>1, <1>3
  <2>2. Cardinality({p}) = 1 BY FS_Singleton
  <2> HIDE DEF SInv, TInv
  <2> QED BY <2>1, <2>2
<1> QED BY <1>2, <1>3

\* Any number of runs, however they overlap and wherever they are cut, make one page
\* for a row, but for the pages of a run that was cut before its commit.
THEOREM OnePageEach == Spec => []OnePagePerRow
  BY Safe, LiveIsOne, PTL

\* A reconcile is blocked only by pages that a cut run or a person made.
THEOREM CollisionsForeign == Spec => CollisionsAreForeign
<1>1. ASSUME SInv, NEW w \in Worker, RegistryCollides(w), NEW p \in Seen(w), Collides(w, p)
      PROVE  p \in lost \cup typed
  <2> USE DEF SInv, TInv
  <2>1. p \in Page /\ Made(p) /\ page[p[1]] # p
    BY <1>1, SeenPages DEF PageInv, Collides
  <2>2. \A v \in Worker : held[v] = {}
    <3>1. task[w] = "control" /\ pc[w] = "locked" BY <1>1 DEF RegistryCollides
    <3>2. held[w] = {} BY <1>1, <3>1 DEF StageInv, Stage
    <3> QED BY <1>1, <3>1, <3>2, Alone
  <2> QED BY <1>1, <2>1, <2>2 DEF OwnInv
<1>2. SInv => [\A w \in Worker : RegistryCollides(w) =>
                  \A p \in Seen(w) : Collides(w, p) => p \in lost \cup typed]_vars
  BY <1>1
<1> QED BY <1>2, Safe, PTL DEF CollisionsAreForeign

-----------------------------------------------------------------------------
(* What a page that nobody has touched gives back *)

Reading(w) == pc[w] = "locked" /\ task[w] = "control"

\* A page says what its row is, but for the text it cannot hold.
Agrees(r, t) == NotionSource(t) \in {r, [r EXCEPT !.text = Fitted(@)]}

AgreeInv ==
    /\ \A s \in Source \ diverged :
          Exists(s) /\ page[s] # NoPage => Agrees(row[s], notion[page[s]])
    /\ \A w \in Worker : \A p \in held[w] :
          p[1] \in Source \ diverged => Agrees(row[p[1]], notion[p])
    /\ \A w \in Worker : Reading(w) =>
          \A p \in Seen(w) :
             p[1] \notin diverged /\ page[p[1]] = p => seen[w][p] = notion[p]

LEMMA ThereAndBack == \A r \in Row : Agrees(r, Properties(r))
<1> SUFFICES ASSUME NEW r \in Row PROVE Agrees(r, Properties(r)) OBVIOUS
<1>1. [r EXCEPT !.text = Fitted(r.text)]
         = [status |-> r.status, active |-> r.active, ingested |-> r.ingested,
            text |-> Fitted(r.text)]
  BY DEF Row
<1>2. NotionSource(Properties(r))
         = [status |-> r.status, active |-> r.active, ingested |-> r.ingested,
            text |-> Fitted(r.text)]
  BY DEF Row, NotionSource, Properties, Fitted
<1> QED BY <1>1, <1>2 DEF Agrees

LEMMA ReadBack == \A t : Agrees(NotionSource(t), t)
  BY DEF Agrees

\* What changes on either side without a sync is noted in diverged.
LEMMA AgreeFrame ==
  ASSUME SInv, AgreeInv, UNCHANGED page,
         \A s \in Source \ diverged' : (s \notin diverged /\ row'[s] = row[s]) \/ ~Exists(s),
         \A p \in Page : p[1] \notin diverged' /\ p[1] \in Source /\ Made(p) =>
                            notion'[p] = notion[p],
         \A v \in Worker : held'[v] \subseteq held[v],
         \A v \in Worker : pc'[v] = "locked" /\ task'[v] = "control" =>
                              Reading(v) /\ seen'[v] = seen[v]
  PROVE  AgreeInv'
<1> USE DEF SInv, TInv
<1>1. \A s \in Source : page[s] # NoPage =>
         Exists(s) /\ page[s] \in Page /\ page[s][1] = s /\ Made(page[s])
  BY Keys DEF RowInv, PageInv, TypeOK
<1>2. \A v \in Worker : \A p \in held[v] :
         p \in Page /\ Made(p) /\ (p[1] \in Source => Exists(p[1]))
  BY DEF RowInv, PageInv, TypeOK
<1>3. \A s \in Source \ diverged' :
         page[s] # NoPage => Agrees(row'[s], notion'[page[s]])
  BY <1>1 DEF AgreeInv
<1>4. \A v \in Worker : \A p \in held'[v] :
         p[1] \in Source \ diverged' => Agrees(row'[p[1]], notion'[p])
  BY <1>2 DEF AgreeInv
<1>5. ASSUME NEW v \in Worker, pc'[v] = "locked", task'[v] = "control",
             NEW p \in Page, seen'[v][p] # Blank, p[1] \notin diverged', page[p[1]] = p
      PROVE  seen'[v][p] = notion'[p]
  <2>1. p \in Seen(v) /\ Reading(v) /\ seen'[v] = seen[v] BY <1>5, SeenPages
  <2>2. p[1] \in Source /\ Made(p) /\ p # NoPage BY <2>1, Keys, SeenPages DEF PageInv
  <2>3. Exists(p[1]) BY <1>1, <1>5, <2>2
  <2>4. p[1] \notin diverged BY <1>5, <2>2, <2>3
  <2> QED BY <1>5, <2>1, <2>2, <2>4 DEF AgreeInv
<1>6. \A v \in Worker : Reading(v)' =>
         \A p \in Seen(v)' :
            p[1] \notin diverged' /\ page'[p[1]] = p => seen'[v][p] = notion'[p]
  BY <1>5 DEF Reading, Seen
<1> QED BY <1>3, <1>4, <1>6 DEF AgreeInv

\* While a transaction of a sync or an export is open, nobody reconciles.
LEMMA NoReader ==
  ASSUME SInv, NEW w \in Worker, pc[w] = "locked", task[w] # "control"
  PROVE  \A v \in Worker : ~Reading(v)
  BY DEF SInv, Mutex, Reading

LEMMA AgreeCommit ==
  ASSUME SInv, AgreeInv, NEW w \in Worker,
         CommitRows(w) \/ CommitFindings(w) \/ CommitAfterScan(w)
  PROVE  AgreeInv'
<1> USE DEF SInv, TInv
<1>1. /\ pc[w] = "locked" /\ task[w] # "control" /\ page' = Recorded(w)
      /\ held' = [held EXCEPT ![w] = {}] /\ UNCHANGED <<notion, row, diverged>>
      /\ \A v \in Worker : pc'[v] # "locked" \/ v # w
      /\ \A v \in Worker \ {w} : pc'[v] = pc[v] /\ task'[v] = task[v]
  BY DEF CommitRows, CommitFindings, CommitAfterScan, Rest, notionVars, historyVars, TypeOK
<1>2. \A v \in Worker : held'[v] \subseteq held[v] BY <1>1 DEF TypeOK
<1>3. \A v \in Worker : ~Reading(v)' BY <1>1, NoReader DEF Reading
<1>4. \A s \in Source \ diverged :
         Exists(s) /\ page'[s] # NoPage => Agrees(row[s], notion[page'[s]])
  BY <1>1, Keys, RecordedIs DEF AgreeInv
<1> QED BY <1>1, <1>2, <1>3, <1>4 DEF AgreeInv, Exists

LEMMA AgreePush ==
  ASSUME SInv, AgreeInv, NEW w \in Worker, NEW k \in Key, UpdatePage(w, k) \/ CreatePage(w, k)
  PROVE  AgreeInv'
<1> USE DEF SInv, TInv
<1>1. /\ Pushing(w, k) /\ diverged' = Agreed(w, k) /\ UNCHANGED <<row, page, pc, task>>
  BY DEF UpdatePage, CreatePage, tableVars
<1>2. \A v \in Worker : ~Reading(v)'
  <2>1. \A v \in Worker : ~Reading(v) BY <1>1, NoReader DEF Pushing
  <2> QED BY <1>1, <2>1 DEF Reading
<1>3. Says(w, k) \in Text /\ Says(w, k) # Blank /\ at[w] \in Nat
  <2>1. \A p : p[1] = k => Fits(p, Says(w, k)) BY <1>1, SaysFits
  <2>2. <<k, 1>>[1] = k OBVIOUS
  <2> QED BY <1>1, <2>1, <2>2, SaysFits DEF Fits, TypeOK
<1>4. \E p \in Page :
         /\ p[1] = k /\ notion' = [notion EXCEPT ![p] = Says(w, k)]
         /\ (page[k] = p /\ held' = held)
              \/ (page[k] = NoPage /\ held' = [held EXCEPT ![w] = @ \cup {p}])
  <2>1. CASE UpdatePage(w, k)
    <3>1. page[k] \in Page /\ page[k][1] = k BY <2>1, Keys DEF UpdatePage, PageInv
    <3> QED BY <2>1, <3>1 DEF UpdatePage
  <2>2. CASE CreatePage(w, k)
    <3>1. /\ MakePage(k, Says(w, k), at[w]) /\ page[k] = NoPage
          /\ held' = [held EXCEPT ![w] = @ \cup {q \in Page : Made(q)' /\ ~Made(q)}]
      BY <2>2 DEF CreatePage
    <3> QED BY <1>3, <3>1, MakePageIs
  <2> QED BY <1>1, <2>1, <2>2
<1>5. PICK p \in Page :
         /\ p[1] = k /\ notion' = [notion EXCEPT ![p] = Says(w, k)]
         /\ (page[k] = p /\ held' = held)
              \/ (page[k] = NoPage /\ held' = [held EXCEPT ![w] = @ \cup {p}])
  BY <1>4
<1>6. /\ notion'[p] = Says(w, k) /\ \A q \in Page \ {p} : notion'[q] = notion[q]
  BY <1>5 DEF TypeOK
<1>7. \A v \in Worker : held'[v] \subseteq held[v] \cup {p}
  <2>1. CASE held' = held BY <2>1
  <2>2. CASE held' = [held EXCEPT ![w] = @ \cup {p}] BY <2>2 DEF TypeOK
  <2> QED BY <1>5, <2>1, <2>2
<1>8. k \in Source \ diverged' => Agrees(row[k], notion'[p])
  <2> SUFFICES ASSUME k \in Source, k \notin diverged' PROVE Agrees(row[k], notion'[p])
    OBVIOUS
  <2>1. copy[w][k] = row[k] BY <1>1 DEF Agreed
  <2>2. Says(w, k) = Properties(copy[w][k]) BY <1>1, SaysFits
  <2> QED BY <1>6, <2>1, <2>2, ThereAndBack DEF TypeOK
<1>9. \A s \in Source \ diverged' : s # k => s \notin diverged
  BY <1>1 DEF Agreed
<1>10. \A s \in Source \ diverged' :
          Exists(s) /\ page[s] # NoPage => Agrees(row[s], notion'[page[s]])
  <2> SUFFICES ASSUME NEW s \in Source \ diverged', Exists(s), page[s] # NoPage
               PROVE  Agrees(row[s], notion'[page[s]])
    OBVIOUS
  <2>1. page[s] \in Page /\ page[s][1] = s BY Keys DEF PageInv, TypeOK
  <2>2. CASE s = k BY <1>5, <1>8, <2>2
  <2>3. CASE s # k BY <1>5, <1>6, <1>9, <2>1, <2>3 DEF AgreeInv
  <2> QED BY <2>2, <2>3
<1>11. \A v \in Worker : \A q \in held'[v] :
          q[1] \in Source \ diverged' => Agrees(row[q[1]], notion'[q])
  <2> SUFFICES ASSUME NEW v \in Worker, NEW q \in held'[v], q[1] \in Source \ diverged'
               PROVE  Agrees(row[q[1]], notion'[q])
    OBVIOUS
  <2>1. CASE q = p BY <1>5, <1>8, <2>1
  <2>2. CASE q # p
    <3>1. q \in held[v] /\ q \in Page BY <1>7, <2>2 DEF TypeOK
    <3>2. q[1] # k
      <4>1. held[v] # {} /\ pc[w] = "locked" /\ k \in todo[w] BY <1>1, <3>1 DEF Pushing
      <4>2. v = w BY <4>1, Alone
      <4> QED BY <3>1, <4>1, <4>2 DEF OwnInv
    <3> QED BY <1>6, <1>9, <2>2, <3>1, <3>2 DEF AgreeInv
  <2> QED BY <2>1, <2>2
<1> QED BY <1>1, <1>2, <1>10, <1>11 DEF AgreeInv, Exists

LEMMA AgreeReconcile ==
  ASSUME SInv, AgreeInv, NEW w \in Worker, ReconcileSourceRegistry(w)
  PROVE  AgreeInv'
<1> USE DEF SInv, TInv
<1>1. /\ row' = [s \in Source |-> Reconciled(w, s)]
      /\ page' = [k \in Key |-> IF \E p \in Seen(w) : p[1] = k THEN PageOf(w, k) ELSE page[k]]
      /\ diverged' = (diverged \ {p[1] : p \in Seen(w)})
                      \cup {p[1] : p \in {q \in Seen(w) : notion[q] # seen[w][q]}}
      /\ Rest(w) /\ UNCHANGED notion
      /\ task[w] = "control" /\ pc[w] = "locked"
  BY DEF ReconcileSourceRegistry, notionVars
<1>2. \A v \in Worker : held'[v] = {}
  <2>1. held[w] = {} BY <1>1 DEF StageInv, Stage
  <2>2. \A v \in Worker : held[v] = {} BY <1>1, <2>1, Alone
  <2> QED BY <1>1, <2>2 DEF Rest, TypeOK
<1>3. \A v \in Worker : ~Reading(v)'
  <2>1. /\ pc' = [pc EXCEPT ![w] = "idle"] /\ task' = [task EXCEPT ![w] = "none"]
    BY <1>1 DEF Rest
  <2>2. \A v \in Worker \ {w} : pc[v] # "locked" BY <1>1 DEF Mutex
  <2> QED BY <2>1, <2>2 DEF Reading, TypeOK
<1>4. ASSUME NEW s \in Source \ diverged', row'[s] # Absent, page'[s] # NoPage
      PROVE  Agrees(row'[s], notion[page'[s]])
  <2>1. CASE \E p \in Seen(w) : p[1] = s
    <3>1. PICK p \in Seen(w) : /\ p[1] = s /\ PageOf(w, s) = p
                               /\ Reconciled(w, s) = NotionSource(seen[w][p])
      BY <2>1, ReconciledIs
    <3>2. page'[s] = p /\ row'[s] = NotionSource(seen[w][p]) BY <1>1, <3>1, Keys
    <3>3. notion[p] = seen[w][p] BY <1>1, <1>4, <3>1
    <3> QED BY <3>2, <3>3, ReadBack
  <2>2. CASE \A p \in Seen(w) : p[1] # s
    <3>1. page'[s] = page[s] /\ row'[s] = row[s] BY <1>1, <2>2, ReconciledIs, Keys
    <3>2. s \notin diverged BY <1>1, <1>4, <2>2
    <3> QED BY <1>4, <3>1, <3>2 DEF AgreeInv, Exists
  <2> QED BY <2>1, <2>2
<1> QED BY <1>1, <1>2, <1>3, <1>4 DEF AgreeInv, Exists

LEMMA AgreeQuery ==
  ASSUME SInv, AgreeInv, NEW w \in Worker, QueryPages(w)
  PROVE  AgreeInv'
<1> USE DEF SInv, TInv
<1>1. /\ UNCHANGED <<row, page, notion, held, task, diverged>>
      /\ pc' = [pc EXCEPT ![w] = "locked"] /\ StateFree(w)
      /\ \A p \in Page : seen'[w][p] \in {notion[p], Blank}
  BY DEF QueryPages, UpsertState, tableVars, notionVars, historyVars, TypeOK
<1>2. ASSUME NEW v \in Worker, Reading(v)', NEW p \in Page, seen'[v][p] # Blank
      PROVE  seen'[v][p] = notion[p]
  <2>1. v = w BY <1>1, <1>2 DEF Reading, StateFree, TypeOK
  <2> QED BY <1>1, <1>2, <2>1
<1> QED BY <1>1, <1>2 DEF AgreeInv, Seen, Exists

LEMMA AgreeRest ==
  ASSUME SInv, AgreeInv, NEW w \in Worker,
         \/ StatusesPulled(w) \/ RecordDigest(w) \/ Rollback(w)
         \/ \E s \in Source : SourceGrown(w, s) \/ OnboardSource(w, s)
  PROVE  AgreeInv'
<1> USE DEF SInv, TInv
<1>1. Rest(w) /\ UNCHANGED <<page, notion>>
  BY DEF StatusesPulled, RecordDigest, Rollback, SourceGrown, OnboardSource, notionVars
<1>2. \A v \in Worker : held'[v] \subseteq held[v] BY <1>1, RestFrames
<1>3. \A v \in Worker : pc'[v] = "locked" /\ task'[v] = "control" =>
                           Reading(v) /\ seen'[v] = seen[v]
  BY <1>1 DEF Rest, Reading, TypeOK
<1>4. \A s \in Source \ diverged' : (s \notin diverged /\ row'[s] = row[s]) \/ ~Exists(s)
  <2>1. CASE StatusesPulled(w) \/ RecordDigest(w) \/ Rollback(w)
    BY <2>1 DEF StatusesPulled, RecordDigest, Rollback, historyVars
  <2>2. ASSUME NEW s \in Source, SourceGrown(w, s)
        PROVE  \A r \in Source \ diverged' : (r \notin diverged /\ row'[r] = row[r]) \/ ~Exists(r)
    BY <2>2 DEF SourceGrown, historyVars, TypeOK
  <2>3. ASSUME NEW s \in Source, OnboardSource(w, s)
        PROVE  \A r \in Source \ diverged' : (r \notin diverged /\ row'[r] = row[r]) \/ ~Exists(r)
    BY <2>3 DEF OnboardSource, TypeOK
  <2> QED BY <2>1, <2>2, <2>3
<1> QED BY <1>1, <1>2, <1>3, <1>4, AgreeFrame

LEMMA AgreeRead ==
  ASSUME SInv, AgreeInv, NEW w \in Worker,
         \/ RunFullNotionSync(w) \/ SyncAfterScan(w) \/ RunNotionControlPlane(w)
         \/ CreateDatabase(w) \/ ReadAgain(w)
         \/ LoadRows(w) \/ LoadFindings(w)
         \/ \E f \in Finding : RetrieveStatus(w, f)
         \/ SendMorningDigest(w) \/ PostMessage(w)
         \/ \E s \in Source : ExpandSource(w, s) \/ StartOnboarding(w, s)
  PROVE  AgreeInv'
<1> USE DEF SInv, TInv
<1>1. UNCHANGED <<row, page, notion, held, seen, diverged>>
  BY DEF RunFullNotionSync, SyncAfterScan, RunNotionControlPlane, Begin, CreateDatabase, LoadRows,
         ReadAgain, LoadFindings, RetrieveStatus, SendMorningDigest, PostMessage, ExpandSource,
         StartOnboarding, tableVars, notionVars, workVars, historyVars
<1>2. \A v \in Worker : pc'[v] = "locked" /\ task'[v] = "control" => Reading(v)
  <2>1. ASSUME \/ RunFullNotionSync(w) \/ SyncAfterScan(w) \/ RunNotionControlPlane(w)
               \/ CreateDatabase(w) \/ ReadAgain(w)
               \/ SendMorningDigest(w) \/ PostMessage(w)
               \/ \E s \in Source : ExpandSource(w, s) \/ StartOnboarding(w, s)
        PROVE  /\ \E c \in {"create", "ready", "open", "posted"} : pc' = [pc EXCEPT ![w] = c]
               /\ \A v \in Worker \ {w} : task'[v] = task[v]
    BY <2>1 DEF RunFullNotionSync, SyncAfterScan, RunNotionControlPlane, Begin, ReadState,
                CreateDatabase, ReadAgain, SendMorningDigest, PostMessage, ExpandSource,
                StartOnboarding, TypeOK
  <2>2. ASSUME LoadRows(w) \/ LoadFindings(w)
        PROVE  /\ pc' = [pc EXCEPT ![w] = "locked"] /\ task' = task
               /\ task[w] \in {"sync", "export", "after"}
    BY <2>2 DEF LoadRows, LoadFindings, UpsertState
  <2>3. ASSUME NEW f \in Finding, RetrieveStatus(w, f) PROVE pc' = pc /\ task' = task
    BY <2>3 DEF RetrieveStatus
  <2> QED BY <2>1, <2>2, <2>3 DEF Reading, TypeOK
<1> QED BY <1>1, <1>2, AgreeFrame

LEMMA AgreeWorld ==
  ASSUME SInv, AgreeInv,
         \/ \E s \in Source : CreateSource(s) \/ ScanSource(s) \/ AddPage(s)
         \/ \E f \in Finding : StoreFinding(f)
         \/ \E p \in Page : EditPage(p) \/ TrashPage(p)
         \/ ResetFindings
         \/ UNCHANGED vars
  PROVE  AgreeInv'
<1> USE DEF SInv, TInv
<1>1. UNCHANGED <<page, held, pc, task, seen>>
  BY DEF CreateSource, ScanSource, AddPage, StoreFinding, EditPage, TrashPage, ResetFindings,
         tableVars, workVars, vars
<1>2. \A v \in Worker : pc'[v] = "locked" /\ task'[v] = "control" => Reading(v)
  BY <1>1 DEF Reading
<1>3. ASSUME NEW s \in Source, CreateSource(s) PROVE AgreeInv'
  <2>1. UNCHANGED <<notion, diverged>> /\ \A r \in Source : row'[r] = row[r] \/ ~Exists(r)
    BY <1>3 DEF CreateSource, notionVars, historyVars, TypeOK
  <2> QED BY <1>1, <1>2, <2>1, AgreeFrame
<1>4. ASSUME NEW s \in Source, ScanSource(s) PROVE AgreeInv'
  <2>1. UNCHANGED notion /\ diverged' = diverged \cup {s}
    BY <1>4 DEF ScanSource, notionVars
  <2>2. \A r \in Source \ {s} : row'[r] = row[r] BY <1>4 DEF ScanSource, TypeOK
  <2> QED BY <1>1, <1>2, <2>1, <2>2, AgreeFrame
<1>5. ASSUME NEW s \in Source, AddPage(s) PROVE AgreeInv'
  <2>1. UNCHANGED <<row, diverged>> BY <1>5 DEF AddPage, tableVars
  <2>2. PICK shown \in {"active", "candidate"}, written \in scope.texts :
          MakePage(s, [shown |-> shown, status |-> "new", ingested |-> 0, text |-> written],
                   registry)
    BY <1>5 DEF AddPage
  <2>3. \A p \in Page : Made(p) => notion'[p] = notion[p]
    BY <2>2 DEF MakePage, TypeOK
  <2> QED BY <1>1, <1>2, <2>1, <2>3, AgreeFrame
<1>6. ASSUME NEW p \in Page, EditPage(p) PROVE AgreeInv'
  <2>1. /\ UNCHANGED row
        /\ diverged' = IF p[1] \in Source THEN diverged \cup {p[1]} ELSE diverged
    BY <1>6 DEF EditPage, tableVars
  <2>2. \A q \in Page \ {p} : notion'[q] = notion[q]
    BY <1>6 DEF EditPage, TypeOK
  <2> QED BY <1>1, <1>2, <2>1, <2>2, AgreeFrame
<1>7. ASSUME \/ \E f \in Finding : StoreFinding(f)
             \/ \E p \in Page : TrashPage(p)
             \/ ResetFindings
             \/ UNCHANGED vars
      PROVE  AgreeInv'
  <2>1. UNCHANGED <<row, notion, diverged>>
    BY <1>7 DEF StoreFinding, TrashPage, ResetFindings, tableVars, notionVars, historyVars, vars
  <2> QED BY <1>1, <1>2, <2>1, AgreeFrame
<1> QED BY <1>3, <1>4, <1>5, <1>6, <1>7

LEMMA AgreeNext == SInv /\ AgreeInv /\ [Next]_vars => AgreeInv'
<1> SUFFICES ASSUME SInv, AgreeInv, [Next]_vars PROVE AgreeInv' OBVIOUS
<1> QED
  BY Steps, AgreeCommit, AgreePush, AgreeReconcile, AgreeQuery, AgreeRest, AgreeRead, AgreeWorld

\* A reconcile gives a source back as it is, but for the blanks, the empty lines and the
\* excess over 2000 characters that its page could not hold, unless a person, the
\* onboarder or a scan has changed it on either side since the two agreed.
THEOREM RoundTrips == Spec => RoundTrip
<1>1. Init => AgreeInv
  BY DEF Init, AgreeInv, Exists, Reading
<1>2. SInv /\ AgreeInv /\ [Next]_vars => AgreeInv' BY AgreeNext
<1>3. ASSUME SInv, AgreeInv, NEW w \in Worker, ReconcileSourceRegistry(w),
             NEW s \in Source, Exists(s), s \notin diverged
      PROVE  row'[s] \in {row[s], [row[s] EXCEPT !.text = Fitted(@)]}
  <2>1. /\ row' = [r \in Source |-> Reconciled(w, r)]
        /\ \A p \in Seen(w) : ~Collides(w, p)
        /\ Reading(w)
    BY <1>3 DEF ReconcileSourceRegistry, Reading
  <2>2. TInv BY <1>3 DEF SInv
  <2>3. row'[s] = Reconciled(w, s) BY <2>1
  <2>4. CASE row'[s] = row[s] BY <2>4
  <2>5. CASE row'[s] # row[s]
    <3>1. PICK p \in Seen(w) : /\ p[1] = s /\ row'[s] = NotionSource(seen[w][p])
                               /\ p \in Page
      BY <2>2, <2>3, <2>5, ReconciledIs
    <3>2. page[s] = p /\ page[s] # NoPage BY <1>3, <2>1, <3>1, Keys DEF Collides
    <3>3. seen[w][p] = notion[p] BY <1>3, <2>1, <3>1, <3>2 DEF AgreeInv
    <3>4. Agrees(row[s], notion[p]) BY <1>3, <3>2 DEF AgreeInv
    <3> QED BY <3>1, <3>3, <3>4 DEF Agrees
  <2> QED BY <2>4, <2>5
<1>4. SInv /\ AgreeInv =>
        [\A w \in Worker : ReconcileSourceRegistry(w) =>
            \A s \in Source : Exists(s) /\ s \notin diverged =>
                row'[s] \in {row[s], [row[s] EXCEPT !.text = Fitted(@)]}]_vars
  BY <1>3
<1> QED BY <1>1, <1>2, <1>4, Safe, PTL DEF RoundTrip, Spec

-----------------------------------------------------------------------------
(* The morning digest, and the limits of a day's growth *)

Posted == {w \in Worker : pc[w] = "posted"}

Digesting == {w \in Worker : task[w] = "digest"}

\* A post is recorded, lost, or still with its run; and no run begins after a record.
DigestInv ==
    /\ posts = digests + dropped + Cardinality(Posted)
    /\ digests + Cardinality(Digesting) <= Cardinality(Worker)

LEMMA Workers ==
  \A W \in SUBSET Worker : /\ IsFiniteSet(W) /\ Cardinality(W) \in Nat
                           /\ Cardinality(W) <= Cardinality(Worker)
  BY FS_Subset, FS_CardinalityType, NotionAssumption

LEMMA DigestFrame ==
  ASSUME TypeOK, DigestInv, UNCHANGED <<posts, digests, dropped>>,
         \A v \in Worker : pc'[v] = "posted" <=> pc[v] = "posted",
         \A v \in Worker : task'[v] = "digest" => task[v] = "digest"
  PROVE  DigestInv'
<1>1. Posted' = Posted /\ Digesting' \subseteq Digesting BY DEF Posted, Digesting
<1>2. Digesting \subseteq Worker BY DEF Digesting
<1>3. Cardinality(Digesting') <= Cardinality(Digesting)
  BY <1>1, <1>2, Workers, FS_Subset
<1>4. Cardinality(Digesting') \in Nat /\ Cardinality(Digesting) \in Nat
      /\ Cardinality(Worker) \in Nat
  BY <1>1, <1>2, Workers
<1>5. digests + Cardinality(Digesting') <= Cardinality(Worker)
  BY <1>3, <1>4 DEF DigestInv, TypeOK
<1>6. posts = digests + dropped + Cardinality(Posted') BY <1>1 DEF DigestInv
<1> QED BY <1>5, <1>6 DEF DigestInv

LEMMA DigestNext == TInv /\ DigestInv /\ [Next]_vars => DigestInv'
<1> SUFFICES ASSUME TInv, DigestInv, [Next]_vars PROVE DigestInv' OBVIOUS
<1> USE DEF TInv
<1>0. /\ Posted \subseteq Worker /\ Digesting \subseteq Worker /\ Cardinality(Worker) \in Nat
      /\ Cardinality(Posted) \in Nat /\ Cardinality(Digesting) \in Nat
      /\ digests \in Nat /\ posts \in Nat /\ dropped \in Nat
  BY Workers DEF Posted, Digesting, TypeOK
<1>1. ASSUME NEW w \in Worker,
             \/ CommitAfterScan(w) \/ StatusesPulled(w) \/ ReconcileSourceRegistry(w)
             \/ \E s \in Source : SourceGrown(w, s) \/ OnboardSource(w, s)
      PROVE  DigestInv'
  <2>1. Rest(w) /\ UNCHANGED <<posts, digests, dropped>>
    BY <1>1 DEF CommitAfterScan, StatusesPulled, ReconcileSourceRegistry, SourceGrown,
                OnboardSource, notionVars, historyVars
  <2>2. task[w] # "digest"
    BY <1>1 DEF CommitAfterScan, StatusesPulled, ReconcileSourceRegistry, SourceGrown,
                OnboardSource
  <2>3. pc[w] # "posted" BY <2>2 DEF StageInv, Stage
  <2> QED BY <2>1, <2>3, DigestFrame DEF Rest, TypeOK
<1>2. ASSUME NEW w \in Worker,
             RecordDigest(w) \/ (Rollback(w) /\ pc[w] = "posted")
      PROVE  DigestInv'
  <2>1. pc[w] = "posted" /\ Rest(w) /\ posts' = posts
    BY <1>2 DEF RecordDigest, Rollback, notionVars
  <2>2. w \in Posted /\ w \in Digesting BY <2>1 DEF Posted, Digesting, StageInv, Stage
  <2>3. Posted' = Posted \ {w} /\ Digesting' = Digesting \ {w}
    BY <2>1 DEF Posted, Digesting, Rest, TypeOK
  <2>4. /\ Cardinality(Posted') = Cardinality(Posted) - 1
        /\ Cardinality(Digesting') = Cardinality(Digesting) - 1
    BY <1>0, <2>2, <2>3, Workers, FS_RemoveElement
  <2>5. \/ digests' = digests + 1 /\ dropped' = dropped
        \/ digests' = digests /\ dropped' = dropped + 1
    BY <1>2 DEF RecordDigest, Rollback, historyVars
  <2>6. posts' = digests' + dropped' + Cardinality(Posted')
    BY <1>0, <2>1, <2>4, <2>5 DEF DigestInv
  <2>7. digests' + Cardinality(Digesting') <= Cardinality(Worker)
    BY <1>0, <2>4, <2>5 DEF DigestInv
  <2> QED BY <2>6, <2>7 DEF DigestInv
<1>3. ASSUME NEW w \in Worker, Rollback(w), pc[w] # "posted" PROVE DigestInv'
  <2>1. Rest(w) /\ UNCHANGED <<posts, digests, dropped>>
    BY <1>3 DEF Rollback, notionVars
  <2> QED BY <1>3, <2>1, DigestFrame DEF Rest, TypeOK
<1>4. ASSUME NEW w \in Worker, SendMorningDigest(w) PROVE DigestInv'
  <2>1. UNCHANGED <<posts, digests, dropped>> /\ digests = 0
    BY <1>4 DEF SendMorningDigest, AlreadySent, tableVars, notionVars, historyVars
  <2>2. Posted' = Posted BY <1>4 DEF SendMorningDigest, Posted, TypeOK
  <2>3. Digesting' \subseteq Worker BY DEF Digesting
  <2>4. Cardinality(Digesting') \in Nat /\ Cardinality(Digesting') <= Cardinality(Worker)
    BY <2>3, Workers
  <2>5. digests' + Cardinality(Digesting') <= Cardinality(Worker) BY <1>0, <2>1, <2>4
  <2>6. posts' = digests' + dropped' + Cardinality(Posted') BY <2>1, <2>2 DEF DigestInv
  <2> QED BY <2>5, <2>6 DEF DigestInv
<1>5. ASSUME NEW w \in Worker, PostMessage(w) PROVE DigestInv'
  <2>1. UNCHANGED <<task, digests, dropped>> /\ posts' = posts + 1 /\ w \notin Posted
    BY <1>5 DEF PostMessage, Posted, tableVars, historyVars
  <2>2. Posted' = Posted \cup {w} BY <1>5 DEF PostMessage, Posted, TypeOK
  <2>3. Cardinality(Posted') = Cardinality(Posted) + 1
    BY <1>0, <2>1, <2>2, Workers, FS_AddElement
  <2>4. Digesting' = Digesting BY <2>1 DEF Digesting
  <2>5. posts' = digests' + dropped' + Cardinality(Posted')
    BY <1>0, <2>1, <2>3 DEF DigestInv
  <2> QED BY <2>1, <2>4, <2>5 DEF DigestInv
<1>6. ASSUME ResetFindings PROVE DigestInv'
  <2>1. /\ UNCHANGED <<posts, task, pc>> /\ digests' = 0 /\ dropped' = dropped + digests
    BY <1>6 DEF ResetFindings, notionVars
  <2>2. Posted' = Posted /\ Digesting' = Digesting BY <2>1 DEF Posted, Digesting
  <2>3. posts' = digests' + dropped' + Cardinality(Posted')
    BY <1>0, <2>1, <2>2 DEF DigestInv
  <2>4. digests' + Cardinality(Digesting') <= Cardinality(Worker)
    BY <1>0, <2>1, <2>2 DEF DigestInv
  <2> QED BY <2>3, <2>4 DEF DigestInv
<1>7. ASSUME NEW w \in Worker,
             \/ RunFullNotionSync(w) \/ SyncAfterScan(w) \/ RunNotionControlPlane(w)
             \/ CreateDatabase(w) \/ ReadAgain(w)
             \/ LoadRows(w) \/ LoadFindings(w) \/ QueryPages(w) \/ CommitRows(w)
             \/ CommitFindings(w)
             \/ \E f \in Finding : RetrieveStatus(w, f)
             \/ \E k \in Key : UpdatePage(w, k) \/ CreatePage(w, k)
             \/ \E s \in Source : ExpandSource(w, s) \/ StartOnboarding(w, s)
      PROVE  DigestInv'
  <2>1. UNCHANGED <<posts, digests, dropped>>
    BY <1>7 DEF RunFullNotionSync, SyncAfterScan, RunNotionControlPlane, Begin, CreateDatabase,
                ReadAgain, LoadRows, LoadFindings, QueryPages, CommitRows, CommitFindings,
                RetrieveStatus, UpdatePage, CreatePage, ExpandSource, StartOnboarding, tableVars,
                notionVars, historyVars
  <2>2. \A v \in Worker : task'[v] = "digest" => task[v] = "digest"
    BY <1>7 DEF RunFullNotionSync, SyncAfterScan, RunNotionControlPlane, Begin, CreateDatabase,
                ReadAgain, LoadRows, LoadFindings, QueryPages, CommitRows, CommitFindings,
                RetrieveStatus, UpdatePage, CreatePage, ExpandSource, StartOnboarding, TypeOK
  <2>3. \A v \in Worker : pc'[v] = "posted" <=> pc[v] = "posted"
    <3>1. \/ pc' = pc
          \/ pc[w] # "posted"
               /\ \E c \in {"create", "ready", "locked", "open"} : pc' = [pc EXCEPT ![w] = c]
      BY <1>7 DEF RunFullNotionSync, SyncAfterScan, RunNotionControlPlane, Begin, ReadState,
                  CreateDatabase, ReadAgain, LoadRows, LoadFindings, QueryPages, UpsertState,
                  CommitRows, CommitFindings, RetrieveStatus, UpdatePage, CreatePage, ExpandSource,
                  StartOnboarding
    <3> QED BY <3>1 DEF TypeOK
  <2> QED BY <2>1, <2>2, <2>3, DigestFrame
<1>8. ASSUME \/ \E s \in Source : CreateSource(s) \/ ScanSource(s) \/ AddPage(s)
             \/ \E f \in Finding : StoreFinding(f)
             \/ \E p \in Page : EditPage(p) \/ TrashPage(p)
             \/ UNCHANGED vars
      PROVE  DigestInv'
  <2>1. UNCHANGED <<posts, digests, dropped, task, pc>>
    BY <1>8 DEF CreateSource, ScanSource, AddPage, StoreFinding, EditPage, TrashPage, tableVars,
                notionVars, historyVars, vars
  <2> QED BY <2>1, DigestFrame
<1> QED BY <1>1, <1>2, <1>3, <1>4, <1>5, <1>6, <1>7, <1>8, Steps

\* However many runs overlap or are cut, the digest of a day is posted at most once by each,
\* but for the records that a cut or a reset has lost.
THEOREM DigestsCapped == Spec => []DigestOnce
<1>1. Init => DigestInv
  <2> SUFFICES ASSUME Init PROVE DigestInv OBVIOUS
  <2>1. Posted = {} /\ Digesting = {} /\ posts = 0 /\ digests = 0 /\ dropped = 0
    BY DEF Init, Posted, Digesting
  <2>2. Cardinality(Worker) \in Nat BY Workers
  <2> QED BY <2>1, <2>2, FS_EmptySet DEF DigestInv
<1>2. TInv /\ DigestInv /\ [Next]_vars => DigestInv' BY DigestNext
<1>3. TInv /\ DigestInv => DigestOnce
  <2> SUFFICES ASSUME TInv, DigestInv PROVE DigestOnce OBVIOUS
  <2>1. Posted \subseteq Digesting BY DEF Posted, Digesting, TInv, StageInv, Stage
  <2>2. Digesting \subseteq Worker BY DEF Digesting
  <2>3. Cardinality(Posted) <= Cardinality(Digesting) BY <2>1, <2>2, Workers, FS_Subset
  <2>4. /\ Cardinality(Posted) \in Nat /\ Cardinality(Digesting) \in Nat
        /\ Cardinality(Worker) \in Nat
    BY <2>1, <2>2, Workers
  <2> QED BY <2>3, <2>4 DEF DigestInv, DigestOnce, TInv, TypeOK
<1>4. SInv => TInv BY DEF SInv
<1> QED BY <1>1, <1>2, <1>3, <1>4, Safe, PTL DEF Spec

Growing == {w \in Worker : task[w] = "grow"}

GrownFrom(P) == {g \in grown : Parent[g] = P}

GrowingFrom(P) == {w \in Worker : task[w] = "grow" /\ \E s \in todo[w] \cap Source : Parent[s] = P}

\* A job that has passed the check of the limits still has its place to fill.
GrowthInv ==
    /\ Cardinality(grown) + Cardinality(Growing) < DailyLimit + Cardinality(Worker)
    /\ \A P \in Source :
          Cardinality(GrownFrom(P)) + Cardinality(GrowingFrom(P))
              < ParentLimit + Cardinality(Worker)

LEMMA GrowthSets ==
  ASSUME TypeOK
  PROVE  /\ IsFiniteSet(grown) /\ Cardinality(grown) \in Nat
         /\ IsFiniteSet(Growing) /\ Cardinality(Growing) \in Nat
         /\ \A P : /\ IsFiniteSet(GrownFrom(P)) /\ Cardinality(GrownFrom(P)) \in Nat
                   /\ IsFiniteSet(GrowingFrom(P)) /\ Cardinality(GrowingFrom(P)) \in Nat
         /\ Cardinality(Worker) \in Nat /\ DailyLimit \in Nat /\ ParentLimit \in Nat
<1>1. grown \subseteq Source /\ IsFiniteSet(Source) BY NotionAssumption DEF TypeOK
<1>2. \A G \in SUBSET Source : IsFiniteSet(G) /\ Cardinality(G) \in Nat
  BY <1>1, FS_Subset, FS_CardinalityType
<1>3. \A P : GrownFrom(P) \in SUBSET Source BY <1>1 DEF GrownFrom
<1>4. Growing \in SUBSET Worker /\ \A P : GrowingFrom(P) \in SUBSET Worker
  BY DEF Growing, GrowingFrom
<1> QED BY <1>1, <1>2, <1>3, <1>4, Workers, NotionAssumption

\* No source is grown and no job begins to grow one.
LEMMA GrowthFrame ==
  ASSUME TypeOK, TypeOK', GrowthInv, UNCHANGED grown,
         \A v \in Worker : task'[v] = "grow" => task[v] = "grow" /\ todo'[v] = todo[v]
  PROVE  GrowthInv'
<1>1. Growing' \subseteq Growing BY DEF Growing
<1>2. \A P : GrowingFrom(P)' \subseteq GrowingFrom(P) /\ GrownFrom(P)' = GrownFrom(P)
  BY DEF GrowingFrom, GrownFrom
<1>3. Cardinality(Growing') <= Cardinality(Growing) BY <1>1, GrowthSets, FS_Subset
<1>4. Cardinality(Growing') \in Nat BY <1>1, GrowthSets, FS_Subset, FS_CardinalityType
<1>5. \A P : /\ Cardinality(GrowingFrom(P)') <= Cardinality(GrowingFrom(P))
             /\ Cardinality(GrowingFrom(P)') \in Nat
  BY <1>2, GrowthSets, FS_Subset, FS_CardinalityType
<1>6. Cardinality(grown) + Cardinality(Growing') < DailyLimit + Cardinality(Worker)
  BY <1>3, <1>4, GrowthSets DEF GrowthInv
<1>7. \A P \in Source : Cardinality(GrownFrom(P)) + Cardinality(GrowingFrom(P)')
                           < ParentLimit + Cardinality(Worker)
  BY <1>5, GrowthSets DEF GrowthInv
<1> QED BY <1>2, <1>6, <1>7 DEF GrowthInv

LEMMA GrowthExpand ==
  ASSUME TInv, GrowthInv, NEW w \in Worker, NEW s \in Source, ExpandSource(w, s)
  PROVE  GrowthInv'
<1> USE DEF TInv
<1>1. /\ grown' = grown /\ pc[w] = "idle"
      /\ task' = [task EXCEPT ![w] = "grow"] /\ todo' = [todo EXCEPT ![w] = {s}]
      /\ Cardinality(grown) < DailyLimit
      /\ Cardinality(GrownFrom(Parent[s])) < ParentLimit
  BY DEF ExpandSource, UnderGrowthCap, GrownFrom, tableVars
<1>2. task[w] = "none" BY <1>1 DEF StageInv, Stage
<1>3. Growing' \subseteq Worker /\ \A P : GrowingFrom(P)' \subseteq Worker
  BY DEF Growing, GrowingFrom
<1>4. /\ Cardinality(Growing') <= Cardinality(Worker) /\ Cardinality(Growing') \in Nat
      /\ \A P : /\ Cardinality(GrowingFrom(P)') <= Cardinality(Worker)
                /\ Cardinality(GrowingFrom(P)') \in Nat
  BY <1>3, Workers
<1>5. \A P \in Source : P # Parent[s] => GrowingFrom(P)' = GrowingFrom(P)
  <2> SUFFICES ASSUME NEW P \in Source, P # Parent[s] PROVE GrowingFrom(P)' = GrowingFrom(P)
    OBVIOUS
  <2>1. \A v \in Worker \ {w} : task'[v] = task[v] /\ todo'[v] = todo[v]
    BY <1>1 DEF TypeOK
  <2>2. task[w] # "grow" /\ todo'[w] = {s} BY <1>1, <1>2 DEF TypeOK
  <2> QED BY <2>1, <2>2 DEF GrowingFrom
<1>6. \A P : GrownFrom(P)' = GrownFrom(P) BY <1>1 DEF GrownFrom
<1>7. Cardinality(grown) + Cardinality(Growing') < DailyLimit + Cardinality(Worker)
  BY <1>1, <1>4, GrowthSets
<1>8. \A P \in Source : Cardinality(GrownFrom(P)) + Cardinality(GrowingFrom(P)')
                           < ParentLimit + Cardinality(Worker)
  <2> SUFFICES ASSUME NEW P \in Source
               PROVE  Cardinality(GrownFrom(P)) + Cardinality(GrowingFrom(P)')
                         < ParentLimit + Cardinality(Worker)
    OBVIOUS
  <2>1. CASE P = Parent[s] BY <1>1, <1>4, <2>1, GrowthSets
  <2>2. CASE P # Parent[s] BY <1>5, <2>2 DEF GrowthInv
  <2> QED BY <2>1, <2>2
<1> QED BY <1>1, <1>6, <1>7, <1>8 DEF GrowthInv

LEMMA OneMoreOrLess ==
  ASSUME NEW S, IsFiniteSet(S), NEW x
  PROVE  /\ Cardinality(S \cup {x}) <= Cardinality(S) + 1 /\ Cardinality(S \cup {x}) \in Nat
         /\ Cardinality(S \ {x}) <= Cardinality(S) /\ Cardinality(S \ {x}) \in Nat
         /\ x \in S => Cardinality(S \ {x}) = Cardinality(S) - 1
<1>1. IsFiniteSet(S \cup {x}) /\ IsFiniteSet(S \ {x}) BY FS_AddElement, FS_RemoveElement
<1>2. /\ Cardinality(S) \in Nat /\ Cardinality(S \cup {x}) \in Nat
      /\ Cardinality(S \ {x}) \in Nat
  BY <1>1, FS_CardinalityType
<1>3. Cardinality(S \cup {x}) = IF x \in S THEN Cardinality(S) ELSE Cardinality(S) + 1
  BY FS_AddElement
<1>4. Cardinality(S \ {x}) = IF x \in S THEN Cardinality(S) - 1 ELSE Cardinality(S)
  BY FS_RemoveElement
<1> QED BY <1>2, <1>3, <1>4

LEMMA GrowthCommit ==
  ASSUME TInv, GrowthInv, NEW w \in Worker, NEW s \in Source, SourceGrown(w, s)
  PROVE  GrowthInv'
<1> USE DEF TInv
<1>1. task[w] = "grow" /\ s \in todo[w] /\ grown' = grown \cup {s} /\ Rest(w)
  BY DEF SourceGrown
<1>2. /\ \A v \in Worker \ {w} : task'[v] = task[v] /\ todo'[v] = todo[v]
      /\ task'[w] = "none"
  BY <1>1 DEF Rest, TypeOK
<1>3. Growing' = Growing \ {w} /\ w \in Growing BY <1>1, <1>2 DEF Growing
<1>4. /\ Cardinality(Growing') = Cardinality(Growing) - 1
      /\ Cardinality(grown') <= Cardinality(grown) + 1 /\ Cardinality(grown') \in Nat
  BY <1>1, <1>3, GrowthSets, OneMoreOrLess
<1>5. Cardinality(grown') + Cardinality(Growing') < DailyLimit + Cardinality(Worker)
  BY <1>4, GrowthSets DEF GrowthInv
<1>6. ASSUME NEW P \in Source
      PROVE  Cardinality(GrownFrom(P)') + Cardinality(GrowingFrom(P)')
                < ParentLimit + Cardinality(Worker)
  <2>1. GrowingFrom(P)' = GrowingFrom(P) \ {w} BY <1>2 DEF GrowingFrom
  <2>2. CASE P = Parent[s]
    <3>1. w \in GrowingFrom(P) BY <1>1, <2>2 DEF GrowingFrom
    <3>2. GrownFrom(P)' = GrownFrom(P) \cup {s} BY <1>1, <2>2 DEF GrownFrom
    <3>3. /\ Cardinality(GrowingFrom(P)') = Cardinality(GrowingFrom(P)) - 1
          /\ Cardinality(GrownFrom(P)') <= Cardinality(GrownFrom(P)) + 1
          /\ Cardinality(GrownFrom(P)') \in Nat
      BY <2>1, <3>1, <3>2, GrowthSets, OneMoreOrLess
    <3> QED BY <3>3, GrowthSets DEF GrowthInv
  <2>3. CASE P # Parent[s]
    <3>1. GrownFrom(P)' = GrownFrom(P) BY <1>1, <2>3 DEF GrownFrom
    <3>2. /\ Cardinality(GrowingFrom(P)') <= Cardinality(GrowingFrom(P))
          /\ Cardinality(GrowingFrom(P)') \in Nat
      BY <2>1, GrowthSets, OneMoreOrLess
    <3> QED BY <3>1, <3>2, GrowthSets DEF GrowthInv
  <2> QED BY <2>2, <2>3
<1>7. \A P \in Source : Cardinality(GrownFrom(P)') + Cardinality(GrowingFrom(P)')
                           < ParentLimit + Cardinality(Worker)
  BY <1>6
<1> QED BY <1>5, <1>7 DEF GrowthInv

LEMMA GrowthNext == TInv /\ GrowthInv /\ [Next]_vars => GrowthInv'
<1> SUFFICES ASSUME TInv, GrowthInv, [Next]_vars PROVE GrowthInv' OBVIOUS
<1>0. TInv' BY TypeNext
<1> USE <1>0 DEF TInv
<1>1. ASSUME NEW w \in Worker,
             \/ StatusesPulled(w) \/ ReconcileSourceRegistry(w) \/ RecordDigest(w) \/ Rollback(w)
             \/ CommitAfterScan(w)
             \/ \E s \in Source : OnboardSource(w, s)
      PROVE  GrowthInv'
  <2>1. Rest(w) /\ UNCHANGED grown
    BY <1>1 DEF StatusesPulled, ReconcileSourceRegistry, RecordDigest, Rollback, OnboardSource,
                CommitAfterScan
  <2> QED BY <2>1, GrowthFrame DEF Rest, TypeOK
<1>2. ASSUME NEW w \in Worker,
             \/ RunFullNotionSync(w) \/ SyncAfterScan(w) \/ RunNotionControlPlane(w)
             \/ CreateDatabase(w) \/ ReadAgain(w)
             \/ LoadRows(w) \/ LoadFindings(w) \/ QueryPages(w) \/ CommitRows(w)
             \/ CommitFindings(w)
             \/ \E f \in Finding : RetrieveStatus(w, f)
             \/ \E k \in Key : UpdatePage(w, k) \/ CreatePage(w, k)
             \/ \E s \in Source : StartOnboarding(w, s)
             \/ SendMorningDigest(w) \/ PostMessage(w)
      PROVE  GrowthInv'
  <2>1. UNCHANGED grown
    BY <1>2 DEF RunFullNotionSync, SyncAfterScan, RunNotionControlPlane, Begin, CreateDatabase,
                ReadAgain, LoadRows, LoadFindings, QueryPages, CommitRows, CommitFindings,
                RetrieveStatus, UpdatePage, CreatePage, StartOnboarding, SendMorningDigest,
                PostMessage, tableVars
  <2>2. \A v \in Worker : task'[v] = "grow" => task[v] = "grow" /\ todo'[v] = todo[v]
    BY <1>2 DEF RunFullNotionSync, SyncAfterScan, RunNotionControlPlane, Begin, CreateDatabase,
                ReadAgain, LoadRows, LoadFindings, QueryPages, UpsertState, CommitRows,
                CommitFindings, RetrieveStatus, UpdatePage, CreatePage, Pushing, StartOnboarding,
                SendMorningDigest, PostMessage, workVars, TypeOK
  <2> QED BY <2>1, <2>2, GrowthFrame
<1>3. ASSUME \/ \E s \in Source : CreateSource(s) \/ ScanSource(s) \/ AddPage(s)
             \/ \E f \in Finding : StoreFinding(f)
             \/ \E p \in Page : EditPage(p) \/ TrashPage(p)
             \/ ResetFindings
             \/ UNCHANGED vars
      PROVE  GrowthInv'
  <2>1. UNCHANGED <<grown, task, todo>>
    BY <1>3 DEF CreateSource, ScanSource, AddPage, StoreFinding, EditPage, TrashPage,
                ResetFindings, tableVars, workVars, vars
  <2> QED BY <2>1, GrowthFrame
<1> QED BY <1>1, <1>2, <1>3, GrowthExpand, GrowthCommit, Steps

\* The limits of a day's growth, checked before the insert, are overrun by less than the
\* number of workers.
THEOREM GrowthIsCapped == Spec => []GrowthCapped
<1>1. Init => GrowthInv
  <2> SUFFICES ASSUME Init PROVE GrowthInv OBVIOUS
  <2>1. grown = {} /\ Growing = {} /\ \A P : GrownFrom(P) = {} /\ GrowingFrom(P) = {}
    BY DEF Init, Growing, GrownFrom, GrowingFrom
  <2>2. Cardinality(Worker) \in Nat BY Workers
  <2> QED BY <2>1, <2>2, FS_EmptySet, NotionAssumption DEF GrowthInv
<1>2. TInv /\ GrowthInv /\ [Next]_vars => GrowthInv' BY GrowthNext
<1>3. TInv /\ GrowthInv => GrowthCapped
  <2> SUFFICES ASSUME TInv, GrowthInv PROVE GrowthCapped OBVIOUS
  <2>1. TypeOK BY DEF TInv
  <2>2. Cardinality(grown) < DailyLimit + Cardinality(Worker)
    BY <2>1, GrowthSets DEF GrowthInv
  <2>3. \A P \in Source : Cardinality(GrownFrom(P)) < ParentLimit + Cardinality(Worker)
    BY <2>1, GrowthSets DEF GrowthInv
  <2>4. \A s \in Source : Parent[s] \in Source BY NotionAssumption
  <2> QED BY <2>2, <2>3, <2>4 DEF GrowthCapped, GrownFrom
<1>4. SInv => TInv BY DEF SInv
<1> QED BY <1>1, <1>2, <1>3, <1>4, Safe, PTL DEF Spec

===============================================================================
