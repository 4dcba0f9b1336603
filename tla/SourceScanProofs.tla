-------------------------- MODULE SourceScanProofs --------------------------
(***************************************************************************)
(* Proofs about the scan pipeline, for any number of runs, sources and     *)
(* blocks: its types, that no block is hidden between two snapshots, that  *)
(* no scan meets a dedup_hash it has just found absent, and that what      *)
(* dedup drops has been told by some source.                               *)
(***************************************************************************)
EXTENDS SourceScan, TLAPS

LEMMA ScanPairs ==
  /\ \A x \in Scan : x[1] \in Run /\ x[2] \in Source /\ x = <<x[1], x[2]>>
  /\ \A r \in Run, s \in Source : <<r, s>> \in Scan
  BY DEF Scan

LEMMA OtherStoriesType ==
  ASSUME TypeOK, NEW s \in Source
  PROVE  OtherStories(s) \subseteq Story
  BY DEF OtherStories, TypeOK

-----------------------------------------------------------------------------
(* Types *)

LEMMA TypeInit == Init => TypeOK
  BY ScanAssumption, ScanPairs DEF Init, TypeOK, RowType, CopyType, SnapshotType, Phase,
     Status, Cooldown, FreshRow, NoCopy, NoSnapshot

LEMMA ForgetType ==
  ASSUME TypeOK, NEW X \in SUBSET Scan, NEW ph \in {"idle", "done"}, Forget(X, ph)
  PROVE  /\ pc' \in [Scan -> Phase] /\ body' \in [Scan -> SUBSET Block]
         /\ copy' \in [Scan -> CopyType] /\ later' \in [Scan -> SUBSET Run]
         /\ superseded' \in [Scan -> BOOLEAN] /\ diff' \in [Scan -> SUBSET Block]
         /\ hashes' \in [Scan -> SUBSET Block] /\ news' \in [Scan -> SUBSET Story]
         /\ stale' \in [Scan -> BOOLEAN]
  BY DEF TypeOK, Forget, Phase, CopyType, NoCopy, Status, Cooldown

LEMMA PublishType ==
  ASSUME TypeOK, NEW x \in Scan, NEW K \in SUBSET Story, Publish(x, K),
         page' = page, cache' = cache, running' = running, wiped' = wiped,
         faults' = faults, shows' = shows
  PROVE  TypeOK'
<1> x[1] \in Run /\ x[2] \in Source BY ScanPairs
<1> USE DEF TypeOK, Publish
<1>1. latest' \in [Source -> SnapshotType]
  <2> [content |-> body[x], hashes |-> hashes[x]] \in SnapshotType BY DEF SnapshotType
  <2> QED OBVIOUS
<1>2. row' \in [Source -> RowType]
  <2> DEFINE new == [status |-> IF copy[x].status = "active" THEN row[x[2]].status ELSE "active",
                     due |-> FALSE,
                     cooldown |-> IF copy[x].cooldown = "none" THEN row[x[2]].cooldown
                                                               ELSE "none"]
  <2>1. row[x[2]] \in RowType OBVIOUS
  <2>2. new \in RowType BY <2>1 DEF RowType, Status, Cooldown
  <2>3. row' = [row EXCEPT ![x[2]] = new] OBVIOUS
  <2> QED BY <2>2, <2>3
<1>3. findings' \subseteq Source \X Story /\ today' \subseteq findings' OBVIOUS
<1>4. handed' \in [Source -> SUBSET Block] OBVIOUS
<1>5. pc' \in [Scan -> Phase] BY DEF Phase
<1>6. superseded' \in [Scan -> BOOLEAN] OBVIOUS
<1>7. later' \in [Scan -> SUBSET Run] OBVIOUS
<1>8. copy' \in [Scan -> CopyType] BY DEF CopyType, NoCopy, Status, Cooldown
<1>9. /\ body' \in [Scan -> SUBSET Block] /\ diff' \in [Scan -> SUBSET Block]
      /\ hashes' \in [Scan -> SUBSET Block] /\ news' \in [Scan -> SUBSET Story]
      /\ stale' \in [Scan -> BOOLEAN]
  OBVIOUS
<1> QED BY <1>1, <1>2, <1>3, <1>4, <1>5, <1>6, <1>7, <1>8, <1>9

LEMMA TypeStep == TypeOK /\ [Next]_vars => TypeOK'
<1> SUFFICES ASSUME TypeOK, [Next]_vars PROVE TypeOK'
  OBVIOUS
<1>0. shows' = shows BY DEF Next, vars
<1> USE <1>0, ScanAssumption, ScanPairs DEF TypeOK
<1>1. ASSUME NEW s \in Source, PageChanges(s) PROVE TypeOK'
  BY <1>1 DEF PageChanges, dbVars, runVars, scanVars
<1>2. ASSUME NEW s \in Source, TimePasses(s) PROVE TypeOK'
  <2>1. row[s] \in RowType OBVIOUS
  <2>2. /\ [row[s] EXCEPT !.due = TRUE] \in RowType
        /\ [row[s] EXCEPT !.cooldown = "lapsed"] \in RowType
    BY <2>1 DEF RowType, Cooldown
  <2>3. row' \in [Source -> RowType] BY <1>2, <2>2 DEF TimePasses
  <2> QED BY <1>2, <2>3 DEF TimePasses, runVars, scanVars
<1>3. ASSUME NEW s \in Source, Reconcile(s) PROVE TypeOK'
  <2>1. PICK n \in NotionRow : row' = [row EXCEPT ![s].status = n.status, ![s].due = n.due]
    BY <1>3 DEF Reconcile
  <2>2. row[s] \in RowType /\ n.status \in Status /\ n.due \in BOOLEAN OBVIOUS
  <2>3. [row[s] EXCEPT !.status = n.status, !.due = n.due] \in RowType
    BY <2>2 DEF RowType
  <2>4. row' \in [Source -> RowType] BY <2>1, <2>3
  <2> QED BY <1>3, <2>4 DEF Reconcile, runVars, scanVars
<1>4. CASE DayPasses
  BY <1>4 DEF DayPasses, runVars
<1>5. CASE ResetFindings
  BY <1>5 DEF ResetFindings, NoSnapshot, SnapshotType, scanVars
<1>6. ASSUME NEW r \in Run, NEW S \in SUBSET Source, StartRun(r, S) PROVE TypeOK'
  BY <1>6 DEF StartRun, Phase, dbVars
<1>7. ASSUME NEW r \in Run, EndRun(r) PROVE TypeOK'
  <2> ScansOf(r) \in SUBSET Scan BY DEF ScansOf, Scan
  <2> QED BY <1>7, ForgetType DEF EndRun, dbVars
<1>8. ASSUME NEW r \in Run, Timeout(r) PROVE TypeOK'
  <2> ScansOf(r) \in SUBSET Scan BY DEF ScansOf, Scan
  <2> QED BY <1>8, ForgetType DEF Timeout, dbVars
<1>9. CASE Restart
  BY <1>9, ForgetType DEF Restart, dbVars
<1>10. ASSUME NEW x \in Scan, Fetch(x) PROVE TypeOK'
  <2>1. Loaded(x[2]) \in CopyType
    <3> row[x[2]] \in RowType OBVIOUS
    <3> QED BY DEF Loaded, CopyType, RowType
  <2> QED BY <1>10, <2>1 DEF Fetch, Phase, dbVars, runVars
<1>11. ASSUME NEW x \in Scan, FetchFails(x) PROVE TypeOK'
  <2>1. Loaded(x[2]) \in CopyType
    <3> row[x[2]] \in RowType OBVIOUS
    <3> QED BY DEF Loaded, CopyType, RowType
  <2> QED BY <1>11, <2>1 DEF FetchFails, Phase, dbVars, runVars
<1>12. ASSUME NEW x \in Scan, RunGone(x) PROVE TypeOK'
  BY <1>12, ForgetType DEF RunGone, dbVars, runVars
<1>13. ASSUME NEW x \in Scan, ScanRaises(x) PROVE TypeOK'
  BY <1>13, ForgetType DEF ScanRaises, dbVars, runVars
<1>14. ASSUME NEW x \in Scan, CommitError(x) PROVE TypeOK'
  <2> DEFINE new == [status |-> IF copy[x].status = "error" THEN row[x[2]].status ELSE "error",
                     due |-> FALSE, cooldown |-> "running"]
  <2>1. row[x[2]] \in RowType OBVIOUS
  <2>2. new \in RowType BY <2>1 DEF RowType, Status, Cooldown
  <2>3. row' = [row EXCEPT ![x[2]] = new] BY <1>14 DEF CommitError
  <2>4. row' \in [Source -> RowType] BY <2>2, <2>3
  <2> QED BY <1>14, <2>4, ForgetType DEF CommitError, runVars
<1>15. ASSUME NEW x \in Scan, Diff(x) PROVE TypeOK'
  <2>1. NewBlocks(x) \in SUBSET Block BY DEF NewBlocks
  <2> QED BY <1>15, <2>1 DEF Diff, Phase, dbVars, runVars
<1>16. ASSUME NEW x \in Scan, CommitUnanalyzed(x) PROVE TypeOK'
  BY <1>16, PublishType DEF CommitUnanalyzed, runVars
<1>17. ASSUME NEW x \in Scan, Analyze(x) PROVE TypeOK'
  <2>1. PICK dropped \in SUBSET Known(x[2], Relevant(diff[x])) :
               \E found \in SUBSET {Tells[b] : b \in Relevant(diff[x]) \ dropped} :
                  news' = [news EXCEPT ![x] = found]
    BY <1>17 DEF Analyze
  <2>2. PICK found \in SUBSET {Tells[b] : b \in Relevant(diff[x]) \ dropped} :
               news' = [news EXCEPT ![x] = found]
    BY <2>1
  <2>3. found \subseteq Story BY DEF Relevant
  <2> QED BY <1>17, <2>2, <2>3 DEF Analyze, Phase, dbVars, runVars
<1>18. ASSUME NEW x \in Scan, Store(x) PROVE TypeOK'
  <2>1. OtherStories(x[2]) \subseteq Story BY OtherStoriesType
  <2> QED BY <1>18, <2>1 DEF Store, Phase, dbVars, runVars
<1>19. ASSUME NEW x \in Scan, Commit(x) PROVE TypeOK'
  BY <1>19, PublishType DEF Commit, runVars
<1>20. CASE UNCHANGED vars
  BY <1>20 DEF vars, dbVars, runVars, scanVars
<1> QED BY <1>1, <1>2, <1>3, <1>4, <1>5, <1>6, <1>7, <1>8, <1>9, <1>10, <1>11, <1>12,
           <1>13, <1>14, <1>15, <1>16, <1>17, <1>18, <1>19, <1>20
        DEF Next, World, ScanStep

\* Every value the scan pipeline keeps has its type.
THEOREM TypeCorrect == Spec => []TypeOK
  BY TypeInit, TypeStep, PTL DEF Spec

-----------------------------------------------------------------------------
(* Steps that concern neither snapshots nor what an open scan carries *)

\* No scan starts holding its row, and those that hold it keep what they carry.
Quiet == \A x \in Scan : pc'[x] \in Holding =>
            /\ pc[x] \in Holding
            /\ hashes'[x] = hashes[x] /\ body'[x] = body[x] /\ diff'[x] = diff[x]
            /\ pc'[x] = "stored" => pc[x] = "stored" /\ news'[x] = news[x]

LEMMA ForgetQuiet ==
  ASSUME TypeOK, NEW X \in SUBSET Scan, NEW ph \in {"idle", "done"}, Forget(X, ph)
  PROVE  Quiet
  BY DEF Forget, Quiet, Holding, TypeOK

LEMMA QuietSteps ==
  ASSUME TypeOK,
         \/ \E s \in Source : PageChanges(s) \/ TimePasses(s) \/ Reconcile(s)
         \/ DayPasses \/ Restart
         \/ \E r \in Run : \/ \E S \in SUBSET Source : StartRun(r, S)
                           \/ EndRun(r) \/ Timeout(r)
         \/ \E x \in Scan : \/ Fetch(x) \/ FetchFails(x) \/ RunGone(x)
                            \/ ScanRaises(x) \/ CommitError(x)
         \/ UNCHANGED vars
  PROVE  /\ Quiet
         /\ UNCHANGED <<latest, findings, handed>>
         /\ today' \subseteq today
<1> USE ScanPairs DEF TypeOK, Quiet, Holding
<1>1. ASSUME NEW s \in Source, PageChanges(s) \/ TimePasses(s) \/ Reconcile(s)
      PROVE  Quiet /\ UNCHANGED <<latest, findings, today, handed>>
  BY <1>1 DEF PageChanges, TimePasses, Reconcile, scanVars, dbVars
<1>2. CASE DayPasses
  BY <1>2 DEF DayPasses
<1>3. CASE Restart
  BY <1>3, ForgetQuiet DEF Restart, dbVars
<1>4. ASSUME NEW r \in Run, NEW S \in SUBSET Source, StartRun(r, S)
      PROVE  Quiet /\ UNCHANGED <<latest, findings, today, handed>>
  BY <1>4 DEF StartRun, dbVars
<1>5. ASSUME NEW r \in Run, EndRun(r) \/ Timeout(r)
      PROVE  Quiet /\ UNCHANGED <<latest, findings, today, handed>>
  <2> ScansOf(r) \in SUBSET Scan BY DEF ScansOf, Scan
  <2> QED BY <1>5, ForgetQuiet DEF EndRun, Timeout, dbVars
<1>6. ASSUME NEW x \in Scan, Fetch(x) \/ FetchFails(x)
      PROVE  Quiet /\ UNCHANGED <<latest, findings, today, handed>>
  BY <1>6 DEF Fetch, FetchFails, dbVars
<1>7. ASSUME NEW x \in Scan, RunGone(x) \/ ScanRaises(x) \/ CommitError(x)
      PROVE  Quiet /\ UNCHANGED <<latest, findings, today, handed>>
  BY <1>7, ForgetQuiet DEF RunGone, ScanRaises, CommitError, dbVars
<1>8. CASE UNCHANGED vars
  BY <1>8 DEF vars, scanVars, dbVars
<1> QED BY <1>1, <1>2, <1>3, <1>4, <1>5, <1>6, <1>7, <1>8

\* The other steps.
LEMMA StepKinds ==
  ASSUME [Next]_vars
  PROVE  \/ \E s \in Source : PageChanges(s) \/ TimePasses(s) \/ Reconcile(s)
         \/ DayPasses \/ Restart
         \/ \E r \in Run : \/ \E S \in SUBSET Source : StartRun(r, S)
                           \/ EndRun(r) \/ Timeout(r)
         \/ \E x \in Scan : \/ Fetch(x) \/ FetchFails(x) \/ RunGone(x)
                            \/ ScanRaises(x) \/ CommitError(x)
         \/ UNCHANGED vars
         \/ ResetFindings
         \/ \E x \in Scan : Diff(x) \/ CommitUnanalyzed(x) \/ Analyze(x) \/ Store(x) \/ Commit(x)
  BY DEF Next, World, ScanStep

-----------------------------------------------------------------------------
(* Nothing falls between two snapshots *)

LEMMA HandedInit == Init => HandedInv
  BY DEF Init, HandedInv, NewsHandedOn, NoSnapshot, Holding

\* A scan that commits publishes a snapshot whose blocks are handed on by now.
LEMMA PublishHandsOn ==
  ASSUME TypeOK, HandedInv, NEW x \in Scan, NEW K \in SUBSET Story, pc[x] \in Holding,
         Publish(x, K)
  PROVE  HandedInv'
<1> x[2] \in Source BY ScanPairs
<1> USE DEF TypeOK, HandedInv, NewsHandedOn
<1>1. \A s \in Source : handed[s] \subseteq handed'[s]
  BY DEF Publish
<1>2. body[x] \subseteq handed'[x[2]] /\ hashes[x] \subseteq body[x]
  BY DEF Publish
<1>3. ASSUME NEW s \in Source
      PROVE  latest'[s].content \subseteq handed'[s] /\ latest'[s].hashes \subseteq latest'[s].content
  <2>1. \/ latest'[s] = latest[s]
        \/ s = x[2] /\ latest'[s] = [content |-> body[x], hashes |-> hashes[x]]
    BY DEF Publish
  <2> QED BY <1>1, <1>2, <2>1
<1>4. ASSUME NEW y \in Scan, pc'[y] \in Holding
      PROVE  hashes'[y] \subseteq body'[y] /\ body'[y] \subseteq diff'[y] \cup handed'[y[2]]
  <2>1. y # x /\ pc[y] \in Holding BY <1>4 DEF Publish, Holding
  <2>2. y[2] \in Source BY ScanPairs
  <2>3. hashes'[y] = hashes[y] /\ body'[y] = body[y] /\ diff'[y] = diff[y]
    BY <2>1 DEF Publish
  <2> QED BY <1>1, <2>1, <2>2, <2>3
<1> QED BY <1>3, <1>4

LEMMA HandedStep == TypeOK /\ HandedInv /\ [Next]_vars => HandedInv'
<1> SUFFICES ASSUME TypeOK, HandedInv, [Next]_vars PROVE HandedInv'
  OBVIOUS
<1> USE ScanPairs DEF TypeOK, HandedInv, NewsHandedOn
<1>1. ASSUME Quiet, UNCHANGED <<latest, findings, handed>> PROVE HandedInv'
  BY <1>1 DEF Quiet
<1>2. CASE ResetFindings
  BY <1>2 DEF ResetFindings, NoSnapshot, Open, Holding, scanVars
<1>3. ASSUME NEW x \in Scan, Diff(x) PROVE HandedInv'
  <2>1. /\ hashes'[x] \subseteq body[x]
        /\ body[x] \subseteq diff'[x] \cup handed[x[2]]
    <3>1. /\ diff'[x] = NewBlocks(x)
          /\ hashes'[x] = IF Base(x).content = body[x] THEN {} ELSE body[x]
      BY <1>3 DEF Diff
    <3>2. Base(x).content \subseteq handed[x[2]] /\ Base(x).hashes \subseteq Base(x).content
      BY DEF Base
    <3> QED BY <3>1, <3>2 DEF NewBlocks
  <2>2. UNCHANGED <<body, latest, handed>> BY <1>3 DEF Diff, dbVars
  <2>3. \A y \in Scan \ {x} : pc'[y] = pc[y] /\ hashes'[y] = hashes[y] /\ diff'[y] = diff[y]
    BY <1>3 DEF Diff
  <2> QED BY <2>1, <2>2, <2>3
<1>4. ASSUME NEW x \in Scan, CommitUnanalyzed(x) \/ Commit(x) PROVE HandedInv'
  BY <1>4, PublishHandsOn DEF CommitUnanalyzed, Commit, Holding
<1>5. ASSUME NEW x \in Scan, Analyze(x) \/ Store(x) PROVE HandedInv'
  BY <1>5 DEF Analyze, Store, Holding, dbVars
<1> QED BY <1>1, <1>2, <1>3, <1>4, <1>5, QuietSteps, StepKinds

\* Every block of the snapshot the next diff starts from has been handed on by a
\* scan that committed, however scans fail, overlap and commit out of order.
THEOREM NothingHidden == Spec => []NewsHandedOn
<1>1. Init => TypeOK /\ HandedInv BY TypeInit, HandedInit
<1>2. TypeOK /\ HandedInv /\ [Next]_vars => (TypeOK /\ HandedInv)' BY TypeStep, HandedStep
<1>3. HandedInv => NewsHandedOn BY DEF HandedInv
<1> QED BY <1>1, <1>2, <1>3, PTL DEF Spec

-----------------------------------------------------------------------------
(* One holder per source row, hence no conflict on dedup_hash *)

LEMMA KeyInit == Init => KeyInv
  BY DEF Init, KeyInv, NoKeyConflict, Holding

\* RowFree, said of scans.
LEMMA FreeRow ==
  ASSUME NEW x \in Scan, RowFree(x[2]), NEW y \in Scan, y[2] = x[2]
  PROVE  pc[y] \notin Holding
  BY ScanPairs DEF RowFree

\* The keys a scan commits are of its own source, which no other scan holds.
LEMMA PublishKeepsKeys ==
  ASSUME TypeOK, KeyInv, NEW x \in Scan, NEW K \in SUBSET Story, pc[x] \in Holding,
         Publish(x, K)
  PROVE  KeyInv'
<1> USE ScanPairs DEF TypeOK, KeyInv, NoKeyConflict
<1>1. \A y \in Scan : pc'[y] \in Holding => y # x /\ pc[y] = pc'[y] /\ news'[y] = news[y]
  BY DEF Publish, Holding
<1>2. \A s \in Source, k \in Story : s # x[2] /\ <<s, k>> \in today' => <<s, k>> \in today
  BY DEF Publish
<1>3. ASSUME NEW y \in Scan, pc'[y] = "stored", NEW k \in news'[y]
      PROVE  <<y[2], k>> \notin today'
  <2>1. y # x /\ pc[y] = "stored" /\ k \in news[y] /\ k \in Story
    BY <1>1, <1>3 DEF Holding
  <2>2. y[2] # x[2] BY <2>1 DEF Holding
  <2> QED BY <1>2, <2>1, <2>2
<1> QED BY <1>1, <1>3

LEMMA KeyStep == TypeOK /\ KeyInv /\ [Next]_vars => KeyInv'
<1> SUFFICES ASSUME TypeOK, KeyInv, [Next]_vars PROVE KeyInv'
  OBVIOUS
<1> USE ScanPairs DEF TypeOK, KeyInv, NoKeyConflict
<1>1. ASSUME Quiet, today' \subseteq today PROVE KeyInv'
  BY <1>1 DEF Quiet, Holding
<1>2. CASE ResetFindings
  BY <1>2 DEF ResetFindings, scanVars
<1>3. ASSUME NEW x \in Scan, Diff(x) PROVE KeyInv'
  <2>1. \A y \in Scan : y[2] = x[2] => pc[y] \notin Holding
    BY <1>3, FreeRow DEF Diff
  <2>2. \A y \in Scan \ {x} : pc'[y] = pc[y]
    BY <1>3 DEF Diff
  <2>3. UNCHANGED <<news, today>> /\ pc'[x] = "diffed"
    BY <1>3 DEF Diff, dbVars
  <2> QED BY <2>1, <2>2, <2>3
<1>4. ASSUME NEW x \in Scan, CommitUnanalyzed(x) \/ Commit(x) PROVE KeyInv'
  BY <1>4, PublishKeepsKeys DEF CommitUnanalyzed, Commit, Holding
<1>5. ASSUME NEW x \in Scan, Analyze(x) PROVE KeyInv'
  <2>1. \A y \in Scan \ {x} : pc'[y] = pc[y] /\ news'[y] = news[y]
    BY <1>5 DEF Analyze
  <2>2. UNCHANGED today /\ pc'[x] = "analyzed" /\ pc[x] \in Holding
    BY <1>5 DEF Analyze, dbVars, Holding
  <2> QED BY <2>1, <2>2
<1>6. ASSUME NEW x \in Scan, Store(x) PROVE KeyInv'
  <2>1. \A y \in Scan \ {x} : pc'[y] = pc[y] /\ news'[y] = news[y]
    BY <1>6 DEF Store
  <2>2. UNCHANGED today /\ pc[x] \in Holding
    BY <1>6 DEF Store, dbVars, Holding
  <2>3. \A k \in news'[x] : <<x[2], k>> \notin today
    BY <1>6 DEF Store
  <2> QED BY <2>1, <2>2, <2>3
<1> QED BY <1>1, <1>2, <1>3, <1>4, <1>5, <1>6, QuietSteps, StepKinds

\* is_duplicate cannot be overtaken: between its answer and the insert nobody
\* commits the same dedup_hash.
THEOREM NoConflict == Spec => []NoKeyConflict
<1>1. Init => TypeOK /\ KeyInv BY TypeInit, KeyInit
<1>2. TypeOK /\ KeyInv /\ [Next]_vars => (TypeOK /\ KeyInv)' BY TypeStep, KeyStep
<1>3. KeyInv => NoKeyConflict BY DEF KeyInv
<1> QED BY <1>1, <1>2, <1>3, PTL DEF Spec

-----------------------------------------------------------------------------
(* What dedup drops has been told, while nobody resets the findings *)

LEMMA OtherStoriesKnown ==
  ASSUME TypeOK, NEW s \in Source, NEW k \in OtherStories(s)
  PROVE  \E o \in Source : <<o, k>> \in findings
<1>1. PICK f \in findings : k = f[2] BY DEF OtherStories
<1>2. f = <<f[1], f[2]>> /\ f[1] \in Source BY DEF TypeOK
<1> QED BY <1>1, <1>2

LEMMA FindingsGrow ==
  ASSUME TypeOK, ~Resets, [Next]_vars
  PROVE  findings \subseteq findings'
<1>1. ASSUME NEW x \in Scan, CommitUnanalyzed(x) \/ Commit(x) PROVE findings \subseteq findings'
  BY <1>1 DEF CommitUnanalyzed, Commit, Publish
<1>2. ASSUME NEW x \in Scan, Diff(x) \/ Analyze(x) \/ Store(x) PROVE findings \subseteq findings'
  BY <1>2 DEF Diff, Analyze, Store, dbVars
<1> QED BY <1>1, <1>2, QuietSteps, StepKinds DEF ResetFindings

\* The cache is cleared, kept, or filled with what the findings table holds.
LEMMA CacheSteps ==
  ASSUME TypeOK, [Next]_vars
  PROVE  \/ UNCHANGED cache
         \/ cache' = [s \in Source |-> NoCache]
         \/ \E x \in Scan : Store(x)
<1>1. ASSUME NEW s \in Source, PageChanges(s) \/ TimePasses(s) \/ Reconcile(s)
      PROVE  UNCHANGED cache
  BY <1>1 DEF PageChanges, TimePasses, Reconcile
<1>2. ASSUME NEW r \in Run, NEW S \in SUBSET Source, StartRun(r, S) PROVE UNCHANGED cache
  BY <1>2 DEF StartRun
<1>3. ASSUME NEW x \in Scan, \/ Fetch(x) \/ FetchFails(x) \/ RunGone(x) \/ ScanRaises(x)
                            \/ CommitError(x) \/ Diff(x) \/ CommitUnanalyzed(x)
                            \/ Analyze(x) \/ Commit(x)
      PROVE  UNCHANGED cache
  BY <1>3 DEF Fetch, FetchFails, RunGone, ScanRaises, CommitError, Diff, CommitUnanalyzed,
              Analyze, Commit
<1>4. ASSUME NEW r \in Run, EndRun(r) \/ Timeout(r)
      PROVE  UNCHANGED cache \/ cache' = [s \in Source |-> NoCache]
  BY <1>4 DEF EndRun, Timeout
<1> QED BY <1>1, <1>2, <1>3, <1>4, StepKinds DEF DayPasses, ResetFindings, Restart, vars

LEMMA CacheInit == Init => CacheInv
  BY DEF Init, CacheInv

LEMMA CacheStep == TypeOK /\ CacheInv /\ ~Resets /\ [Next]_vars => CacheInv'
<1> SUFFICES ASSUME TypeOK, CacheInv, ~Resets, [Next]_vars PROVE CacheInv'
  OBVIOUS
<1>1. findings \subseteq findings' BY FindingsGrow
<1>2. CASE UNCHANGED cache
  BY <1>1, <1>2 DEF CacheInv
<1>3. CASE cache' = [s \in Source |-> NoCache]
  BY <1>3 DEF CacheInv
<1>4. ASSUME NEW x \in Scan, Store(x) PROVE CacheInv'
  <2>1. x[2] \in Source BY ScanPairs
  <2>2. \A s \in Source : cache'[s] = cache[s] \/ (s = x[2] /\ cache'[s] = OtherStories(s))
    <3> DEFINE recent == IF cache[x[2]] = NoCache THEN OtherStories(x[2]) ELSE cache[x[2]]
    <3>1. UNCHANGED cache \/ cache' = [cache EXCEPT ![x[2]] = recent]
      BY <1>4 DEF Store
    <3>2. \A s \in Source : cache'[s] = cache[s] \/ (s = x[2] /\ cache'[s] = recent)
      <4> HIDE DEF recent
      <4> QED BY <2>1, <3>1 DEF TypeOK
    <3> QED BY <3>2
  <2>3. ASSUME NEW s \in Source, cache'[s] # NoCache, NEW k \in cache'[s]
        PROVE  \E o \in Source : <<o, k>> \in findings
    <3>1. CASE cache'[s] = cache[s]
      BY <2>3, <3>1 DEF CacheInv
    <3>2. CASE cache'[s] = OtherStories(s)
      BY <2>3, <3>2, OtherStoriesKnown
    <3> QED BY <2>2, <3>1, <3>2
  <2> QED BY <1>1, <2>3 DEF CacheInv
<1> QED BY <1>2, <1>3, <1>4, CacheSteps

\* Only Store leaves the analyzed phase for the stored one.
LEMMA OnlyStoreStores ==
  ASSUME TypeOK, [Next]_vars, NEW x \in Scan, pc[x] = "analyzed", pc'[x] = "stored"
  PROVE  Store(x)
<1> USE DEF TypeOK
<1>1. ASSUME Quiet PROVE FALSE
  BY <1>1 DEF Quiet, Holding
<1>2. ASSUME NEW y \in Scan, Diff(y) \/ CommitUnanalyzed(y) \/ Analyze(y) \/ Commit(y)
      PROVE  FALSE
  BY <1>2 DEF Diff, CommitUnanalyzed, Analyze, Commit, Publish
<1>3. ASSUME NEW y \in Scan, Store(y) PROVE y = x
  BY <1>3 DEF Store
<1>4. CASE ResetFindings
  BY <1>4 DEF ResetFindings, scanVars
<1> QED BY <1>1, <1>2, <1>3, <1>4, QuietSteps, StepKinds

LEMMA StoreDropsTold ==
  ASSUME TypeOK, CacheInv, NEW x \in Scan, Store(x), NEW k \in news[x] \ news'[x]
  PROVE  \E o \in Source : <<o, k>> \in findings
<1> x[2] \in Source BY ScanPairs
<1>1. \/ <<x[2], k>> \in today
      \/ cache[x[2]] = NoCache /\ k \in OtherStories(x[2])
      \/ cache[x[2]] # NoCache /\ k \in cache[x[2]]
  BY DEF Store, TypeOK
<1> QED BY <1>1, OtherStoriesKnown DEF CacheInv, TypeOK

\* As long as nobody resets the findings, a story that dedup drops is in the findings
\* table: no news is dropped for the sake of a scan that then fails to commit it.
THEOREM DropsTold ==
  ASSUME ~Resets
  PROVE  Spec => DropsAreKnown
<1>1. Init => TypeOK /\ CacheInv BY TypeInit, CacheInit
<1>2. TypeOK /\ CacheInv /\ [Next]_vars => (TypeOK /\ CacheInv)'
  BY TypeStep, CacheStep
<1>3. TypeOK /\ CacheInv /\ [Next]_vars =>
        [\A x \in Scan : pc[x] = "analyzed" /\ pc'[x] = "stored" =>
            \A k \in news[x] \ news'[x] : \E s \in Source : <<s, k>> \in findings]_vars
  BY OnlyStoreStores, StoreDropsTold
<1> QED BY <1>1, <1>2, <1>3, PTL DEF Spec, DropsAreKnown
=============================================================================
