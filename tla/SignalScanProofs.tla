--------------------------- MODULE SignalScanProofs ---------------------------
(***************************************************************************)
(* Proofs about scoring, for any number of workers, companies and months:  *)
(* types, what a failed scan leaves behind, the daily cap and the cooldown *)
(* of automatic scans, the watch target that a commit leaves, what a       *)
(* rollback of the import undoes, and how every answer is scored.          *)
(***************************************************************************)
EXTENDS SignalScan, SignalScoringProofs, FiniteSetTheorems, TLAPS

\* Every step is one of these; handlers that raise have Rollback in common.
LEMMA Steps ==
  ASSUME [Next]_vars
  PROVE  \/ \E w \in Worker :
              \/ \E c \in Company : ScoreCompany(w, c)
              \/ FlushScore(w) \/ CommitScore(w)
              \/ \E j \in Job : StartScan(w, j)
              \/ StoreResults(w) \/ CommitScan(w) \/ CycleDies(w)
              \/ pc[w] # "idle" /\ Rollback(w) /\ faults' \in {faults, faults + 1}
         \/ MidnightPasses \/ MonthTurns
         \/ \E c \in Company : CooldownEnds(c) \/ CompanyMentioned(c) \/ RequestScan(c)
         \/ SourcesScanned \/ ImportToDb \/ RollbackImport
         \/ UNCHANGED vars
<1>1. ASSUME NEW w \in Worker, AllBatchesFail(w) \/ ResultTooLong(w) \/ FlushConflicts(w)
                               \/ HandlerRaises(w)
      PROVE  pc[w] # "idle" /\ Rollback(w) /\ faults' \in {faults, faults + 1}
  BY <1>1 DEF AllBatchesFail, ResultTooLong, FlushConflicts, HandlerRaises
<1>2. ASSUME NEW w \in Worker, Work(w)
      PROVE  \/ \E c \in Company : ScoreCompany(w, c)
             \/ FlushScore(w) \/ CommitScore(w)
             \/ \E j \in Job : StartScan(w, j)
             \/ StoreResults(w) \/ CommitScan(w) \/ CycleDies(w)
             \/ pc[w] # "idle" /\ Rollback(w) /\ faults' \in {faults, faults + 1}
  BY <1>1, <1>2 DEF Work
<1> QED
  BY <1>2 DEF Next, Events

LEMMA ScopeKept ==
  ASSUME [Next]_vars
  PROVE  scope' = scope
BY DEF Next, vars

-----------------------------------------------------------------------------
(* Types *)

USE ScanAssumption

LEMMA NoTargetIsTarget == NoTarget \in Target
BY DEF NoTarget, Target, Score

LEMMA TriageTargets ==
  ASSUME TypeOK, NEW c \in Company, NEW score \in Triage[c]
  PROVE  TriageTarget(Gated(c, score)) \in Target
<1>1. Gated(c, score) \in Score
  BY DEF Gated, Score
<1> QED
  BY <1>1 DEF TriageTarget, Target

LEMMA ScannedSignals ==
  ASSUME NEW depth \in Depth
  PROVE  Scanned(depth) \subseteq Signals
BY DEF Scanned, Tier1

LEMMA ScanTargets ==
  ASSUME NEW j, NEW v \in Verdicts(DepthOf(j))
  PROVE  ScanTarget(v) \in Target
<1>1. DepthOf(j) \in Depth
  BY DEF DepthOf, Depth
<1>2. PICK answer \in Answers, answered \in SUBSET Batches(DepthOf(j)) :
        v = [n \in Scanned(DepthOf(j)) |-> IF BatchOf(DepthOf(j), n) \in answered
                                           THEN answer[n] ELSE "unknown"]
  BY DEF Verdicts
<1>3. answer \in [Signals -> Verdict]
  OBVIOUS
<1>4. v \in [Scanned(DepthOf(j)) -> Verdict]
  BY <1>1, <1>2, <1>3, ScannedSignals DEF Verdict
<1>5. Fit(v) \in Fits(DepthOf(j))
  BY <1>4 DEF Fits
<1>6. Fit(v) \in Score
  BY <1>1, <1>5 DEF Score, Depth
<1> QED
  BY <1>6 DEF ScanTarget, Target

LEMMA TaskParts ==
  ASSUME NEW t \in Task
  PROVE  \/ t[1] = "score" /\ t[2] \in Company
         \/ t[1] = "scan" /\ t[2] \in Job
BY DEF Task, Scorer, Scanner

\* TypeOK in parts: what is about companies, about jobs, and about workers.
CompanyTypes ==
    /\ made \in [Company -> {"none", "crawler", "import"}]
    /\ mentioned \in [Company -> BOOLEAN]
    /\ eligible \in [Company -> Eligible]
    /\ tag \in [Company -> BOOLEAN]
    /\ triaged \subseteq Company
    /\ target \in [Company -> Target]
    /\ imports \subseteq Company /\ recent \subseteq Job \cup Company
    /\ listed \in {"none", "added", "scanned"} /\ month \in Month
    /\ stale \subseteq Company /\ undone \in BOOLEAN

JobTypes ==
    /\ scan \in [Job -> {"none", "open", "completed"}]
    /\ status \in [Job -> {"none", "pending", "running", "completed", "failed"}]
    /\ tries \in [Job -> Nat]
    /\ auto \subseteq Job /\ full \subseteq Job /\ today \subseteq Job
    /\ quiet \subseteq Job

WorkerTypes ==
    /\ cur \in [Worker -> Task \cup {NoTask}]
    /\ pc \in [Worker -> {"idle", "asking", "read", "held"}]
    /\ copy \in [Worker -> BOOLEAN]
    /\ read \in [Worker -> Target]
    /\ fresh \in [Worker -> BOOLEAN]
    /\ wants \in [Worker -> Target]
    /\ asks \in [Worker -> Job \cup {NoJob}]
    /\ faults \in Nat
    /\ overtaken \subseteq Worker

LEMMA TypeParts == TypeOK <=> CompanyTypes /\ JobTypes /\ WorkerTypes /\ scope \in Scopes
BY DEF TypeOK, CompanyTypes, JobTypes, WorkerTypes

\* What is at work is a task, of a company or of one of its jobs.
Busy ==
    \A w \in Worker :
        pc[w] # "idle" => \/ cur[w][1] = "score" /\ cur[w][2] \in Company /\ pc[w] \in {"read", "held"}
                          \/ cur[w][1] = "scan" /\ cur[w][2] \in Job /\ pc[w] \in {"asking", "read"}

LEMMA AboutCompany ==
  ASSUME Busy, NEW w \in Worker, pc[w] # "idle"
  PROVE  /\ About(w) \in Company
         /\ Scanning(w) <=> cur[w][1] = "scan"
         /\ Scanning(w) => cur[w][2] \in Job /\ About(w) = cur[w][2][1]
         /\ ~Scanning(w) => cur[w][1] = "score" /\ About(w) = cur[w][2]
BY DEF Busy, About, Scanning, Job

LEMMA WrittenIsTarget ==
  ASSUME TypeOK, Busy, NEW w \in Worker, pc[w] # "idle"
  PROVE  Written(w) \in Target
<1>1. target[About(w)] \in Target /\ wants[w] \in Target
  BY AboutCompany DEF TypeOK
<1> QED
  BY <1>1 DEF Written, Target

LEMMA CompanyTypesStep ==
  ASSUME TypeOK, Busy, [Next]_vars
  PROVE  CompanyTypes'
<1> USE TypeParts DEF CompanyTypes
<1>1. ASSUME NEW w \in Worker, NEW c \in Company, ScoreCompany(w, c) PROVE CompanyTypes'
  BY <1>1 DEF ScoreCompany, entityVars, scanVars, historyVars
<1>2. ASSUME NEW w \in Worker, FlushScore(w) PROVE CompanyTypes'
  BY <1>2 DEF FlushScore, entityVars, scanVars, historyVars
<1>3. ASSUME NEW w \in Worker, CommitScore(w) PROVE CompanyTypes'
  <2>1. pc[w] # "idle"
    BY <1>3 DEF CommitScore
  <2>2. target' \in [Company -> Target]
    BY <1>3, <2>1, WrittenIsTarget DEF CommitScore, CommitTarget
  <2> QED
    BY <1>3, <2>1, <2>2, AboutCompany DEF CommitScore, scanVars
<1>4. ASSUME NEW w \in Worker, NEW j \in Job, StartScan(w, j) PROVE CompanyTypes'
  BY <1>4 DEF StartScan, entityVars, historyVars
<1>5. ASSUME NEW w \in Worker, StoreResults(w) PROVE CompanyTypes'
  BY <1>5 DEF StoreResults, entityVars, scanVars, historyVars
<1>6. ASSUME NEW w \in Worker, CommitScan(w) PROVE CompanyTypes'
  <2>1. pc[w] # "idle" /\ Scanning(w)
    BY <1>6 DEF CommitScan
  <2>2. cur[w][2] \in Job /\ About(w) \in Company /\ copy[w] \in BOOLEAN
    BY <2>1, AboutCompany DEF WorkerTypes
  <2>3. target' \in [Company -> Target]
    BY <1>6, <2>1, WrittenIsTarget DEF CommitScan, CommitTarget
  <2>4. tag' \in [Company -> BOOLEAN] /\ stale' \subseteq Company /\ recent' \subseteq Job \cup Company
    BY <1>6, <2>2 DEF CommitScan
  <2> QED
    BY <1>6, <2>3, <2>4 DEF CommitScan
<1>7. ASSUME NEW w \in Worker, CycleDies(w) PROVE CompanyTypes'
  BY <1>7 DEF CycleDies, entityVars
<1>8. ASSUME NEW w \in Worker, Rollback(w) PROVE CompanyTypes'
  BY <1>8 DEF Rollback, entityVars
<1>9. ASSUME MidnightPasses \/ MonthTurns PROVE CompanyTypes'
  BY <1>9 DEF MidnightPasses, MonthTurns, DayTurns, entityVars, scanVars, historyVars
<1>10. ASSUME NEW c \in Company, CooldownEnds(c) PROVE CompanyTypes'
  BY <1>10 DEF CooldownEnds, entityVars, scanVars, historyVars
<1>11. ASSUME NEW c \in Company, CompanyMentioned(c) PROVE CompanyTypes'
  BY <1>11 DEF CompanyMentioned, scanVars, historyVars
<1>12. ASSUME NEW c \in Company, RequestScan(c) PROVE CompanyTypes'
  BY <1>12 DEF RequestScan, entityVars, scanVars, historyVars
<1>13. ASSUME SourcesScanned PROVE CompanyTypes'
  BY <1>13 DEF SourcesScanned, entityVars, scanVars, historyVars
<1>14. ASSUME ImportToDb PROVE CompanyTypes'
  BY <1>14 DEF ImportToDb, Eligible
<1>15. ASSUME RollbackImport PROVE CompanyTypes'
  BY <1>15, NoTargetIsTarget DEF RollbackImport, Eligible
<1>16. ASSUME UNCHANGED vars PROVE CompanyTypes'
  BY <1>16 DEF vars, entityVars, scanVars, historyVars
<1> QED
  <2> HIDE DEF CompanyTypes
  <2> QED
    BY <1>1, <1>2, <1>3, <1>4, <1>5, <1>6, <1>7, <1>8, <1>9, <1>10, <1>11, <1>12, <1>13,
       <1>14, <1>15, <1>16, Steps

LEMMA EnqueueTypes ==
  ASSUME TypeOK, NEW j \in Job, NEW s \in BOOLEAN, NEW f \in BOOLEAN, NEW t \in BOOLEAN,
         Enqueue(j, s, f, t), UNCHANGED <<tries, scan, quiet>>
  PROVE  JobTypes'
BY DEF Enqueue, TypeOK, JobTypes

LEMMA MonthlyJob ==
  ASSUME TypeOK, NEW c \in Company, Monthly(c) # NoJob
  PROVE  /\ Monthly(c) \in Job /\ Monthly(c)[1] = c /\ Monthly(c)[2] \in Month
         /\ status[Monthly(c)] = "none"
<1>1. <<c, month>> \in Job
  BY DEF TypeOK, Job, Ref
<1> QED
  BY <1>1 DEF Monthly, TypeOK

LEMMA JobTypesStep ==
  ASSUME TypeOK, Busy, [Next]_vars
  PROVE  JobTypes'
<1> USE TypeParts DEF JobTypes
<1>1. ASSUME NEW w \in Worker, NEW c \in Company, ScoreCompany(w, c) PROVE JobTypes'
  BY <1>1 DEF ScoreCompany, jobVars, scanVars, historyVars
<1>2. ASSUME NEW w \in Worker, FlushScore(w) PROVE JobTypes'
  BY <1>2 DEF FlushScore, jobVars, scanVars, historyVars
<1>3. ASSUME NEW w \in Worker, CommitScore(w) PROVE JobTypes'
  <2>1. CASE asks[w] = NoJob
    BY <1>3, <2>1 DEF CommitScore, scanVars
  <2>2. CASE asks[w] # NoJob
    <3>1. asks[w] \in Job /\ fresh[w] \in BOOLEAN
      BY <2>2 DEF WorkerTypes
    <3>2. Enqueue(asks[w], TRUE, FALSE, fresh[w]) /\ UNCHANGED <<tries, scan, quiet>>
      BY <1>3, <2>2 DEF CommitScore, scanVars
    <3> QED
      BY <3>1, <3>2, EnqueueTypes
  <2> QED
    BY <2>1, <2>2
<1>4. ASSUME NEW w \in Worker, NEW j \in Job, StartScan(w, j) PROVE JobTypes'
  BY <1>4 DEF StartScan, historyVars
<1>5. ASSUME NEW w \in Worker, StoreResults(w) PROVE JobTypes'
  BY <1>5 DEF StoreResults, jobVars, scanVars, historyVars
<1>6. ASSUME NEW w \in Worker, CommitScan(w) PROVE JobTypes'
  <2>1. cur[w][2] \in Job
    BY <1>6, AboutCompany DEF CommitScan
  <2> QED
    BY <1>6, <2>1 DEF CommitScan
<1>7. ASSUME NEW w \in Worker, CycleDies(w) PROVE JobTypes'
  BY <1>7, AboutCompany DEF CycleDies, ScanAfterRollback, Scanning
<1>8. ASSUME NEW w \in Worker, pc[w] # "idle", Rollback(w) PROVE JobTypes'
  <2>1. CASE Scanning(w)
    <3> DEFINE j == cur[w][2]
    <3>1. j \in Job /\ tries[j] \in Nat
      BY <1>8, <2>1, AboutCompany
    <3>2. /\ scan' = [scan EXCEPT ![j] = "none"]
          /\ tries' = [tries EXCEPT ![j] = @ + 1]
          /\ status' = [status EXCEPT ![j] = IF tries[j] + 1 < MaxTries THEN "pending"
                                             ELSE "failed"]
          /\ UNCHANGED <<auto, full, today, quiet>>
      BY <1>8, <2>1 DEF Rollback, ScanAfterRollback
    <3> QED
      BY <3>1, <3>2
  <2>2. CASE ~Scanning(w)
    BY <1>8, <2>2 DEF Rollback, ScanAfterRollback
  <2> QED
    BY <2>1, <2>2
<1>9. ASSUME MidnightPasses \/ MonthTurns PROVE JobTypes'
  BY <1>9 DEF MidnightPasses, MonthTurns, DayTurns, scanVars, historyVars
<1>10. ASSUME NEW c \in Company, CooldownEnds(c) PROVE JobTypes'
  BY <1>10 DEF CooldownEnds, historyVars
<1>11. ASSUME NEW c \in Company, CompanyMentioned(c) PROVE JobTypes'
  BY <1>11 DEF CompanyMentioned, jobVars, scanVars, historyVars
<1>12. ASSUME NEW c \in Company, RequestScan(c) PROVE JobTypes'
  <2>1. PICK depth \in Depths :
          \/ \E f \in Forced : Enqueue(<<c, f>>, FALSE, depth = "full", TRUE)
          \/ Monthly(c) # NoJob /\ Enqueue(Monthly(c), FALSE, depth = "full", TRUE)
    BY <1>12 DEF RequestScan
  <2>2. UNCHANGED <<tries, scan, quiet>>
    BY <1>12 DEF RequestScan, scanVars, historyVars
  <2>3. ASSUME NEW f \in Forced PROVE <<c, f>> \in Job
    BY DEF Job, Ref
  <2> QED
    BY <2>1, <2>2, <2>3, MonthlyJob, EnqueueTypes
<1>13. ASSUME SourcesScanned \/ ImportToDb \/ RollbackImport PROVE JobTypes'
  BY <1>13 DEF SourcesScanned, ImportToDb, RollbackImport, jobVars, scanVars, historyVars
<1>14. ASSUME UNCHANGED vars PROVE JobTypes'
  BY <1>14 DEF vars, jobVars, scanVars, historyVars
<1> QED
  <2> HIDE DEF JobTypes
  <2> QED
    BY <1>1, <1>2, <1>3, <1>4, <1>5, <1>6, <1>7, <1>8, <1>9, <1>10, <1>11, <1>12, <1>13,
       <1>14, Steps

LEMMA DiscardTypes ==
  ASSUME TypeOK, NEW w \in Worker, Discard(w), faults' \in Nat, overtaken' \subseteq Worker
  PROVE  WorkerTypes'
BY NoTargetIsTarget DEF Discard, TypeOK, WorkerTypes

LEMMA WorkerTypesStep ==
  ASSUME TypeOK, Busy, [Next]_vars
  PROVE  WorkerTypes'
<1> USE TypeParts DEF WorkerTypes
<1>1. ASSUME NEW w \in Worker, NEW c \in Company, ScoreCompany(w, c) PROVE WorkerTypes'
  <2>1. Scorer(c) \in Task
    BY DEF Task
  <2>2. PICK score \in Triage[c] : wants' = [wants EXCEPT ![w] = TriageTarget(Gated(c, score))]
    BY <1>1 DEF ScoreCompany
  <2>3. wants' \in [Worker -> Target] /\ read' \in [Worker -> Target]
    BY <1>1, <2>2, TriageTargets DEF ScoreCompany, ReadTarget, CompanyTypes
  <2>4. copy' \in [Worker -> BOOLEAN]
    BY <1>1 DEF ScoreCompany
  <2> QED
    BY <1>1, <2>1, <2>3, <2>4 DEF ScoreCompany, Begin, historyVars
<1>2. ASSUME NEW w \in Worker, FlushScore(w) PROVE WorkerTypes'
  <2>1. About(w) \in Company
    BY <1>2, AboutCompany DEF FlushScore
  <2>2. asks' \in [Worker -> Job \cup {NoJob}]
    BY <1>2, <2>1, MonthlyJob DEF FlushScore
  <2> QED
    BY <1>2, <2>2 DEF FlushScore, historyVars
<1>3. ASSUME NEW w \in Worker, CommitScore(w) \/ CommitScan(w) PROVE WorkerTypes'
  <2>1. Discard(w) /\ faults' = faults /\ CommitTarget(w)
    BY <1>3 DEF CommitScore, CommitScan
  <2> QED
    BY <2>1, DiscardTypes DEF CommitTarget
<1>4. ASSUME NEW w \in Worker, CycleDies(w) PROVE WorkerTypes'
  BY <1>4, DiscardTypes DEF CycleDies
<1>5. ASSUME NEW w \in Worker, Rollback(w), faults' \in {faults, faults + 1} PROVE WorkerTypes'
  BY <1>5, DiscardTypes DEF Rollback
<1>6. ASSUME NEW w \in Worker, NEW j \in Job, StartScan(w, j) PROVE WorkerTypes'
  <2>1. Scanner(j) \in Task
    BY DEF Task
  <2>2. tag[j[1]] \in BOOLEAN
    BY DEF Job, CompanyTypes
  <2>3. copy' \in [Worker -> BOOLEAN]
    BY <1>6, <2>2 DEF StartScan
  <2> QED
    BY <1>6, <2>1, <2>3 DEF StartScan, Begin, historyVars
<1>7. ASSUME NEW w \in Worker, StoreResults(w) PROVE WorkerTypes'
  <2>1. About(w) \in Company
    BY <1>7, AboutCompany DEF StoreResults
  <2>2. PICK v \in Verdicts(DepthOf(cur[w][2])) : wants' = [wants EXCEPT ![w] = ScanTarget(v)]
    BY <1>7 DEF StoreResults
  <2>3. wants' \in [Worker -> Target] /\ read' \in [Worker -> Target]
    BY <1>7, <2>1, <2>2, ScanTargets DEF StoreResults, ReadTarget, CompanyTypes
  <2> QED
    BY <1>7, <2>3 DEF StoreResults, historyVars
<1>8. ASSUME MidnightPasses \/ MonthTurns PROVE WorkerTypes'
  BY <1>8 DEF MidnightPasses, MonthTurns, DayTurns, historyVars
<1>9. ASSUME NEW c \in Company, CooldownEnds(c) PROVE WorkerTypes'
  BY <1>9 DEF CooldownEnds, historyVars
<1>10. ASSUME NEW c \in Company, CompanyMentioned(c) \/ RequestScan(c) PROVE WorkerTypes'
  BY <1>10 DEF CompanyMentioned, RequestScan, workVars, historyVars
<1>11. ASSUME SourcesScanned \/ ImportToDb \/ RollbackImport PROVE WorkerTypes'
  BY <1>11 DEF SourcesScanned, ImportToDb, RollbackImport, workVars, historyVars
<1>12. ASSUME UNCHANGED vars PROVE WorkerTypes'
  BY <1>12 DEF vars, workVars, historyVars
<1> QED
  <2> HIDE DEF WorkerTypes
  <2> QED
    BY <1>1, <1>2, <1>3, <1>4, <1>5, <1>6, <1>7, <1>8, <1>9, <1>10, <1>11, <1>12, Steps

LEMMA BusyStep ==
  ASSUME TypeOK, Busy, [Next]_vars
  PROVE  Busy'
<1> USE DEF TypeOK, Busy
<1>1. ASSUME NEW w \in Worker, NEW c \in Company, ScoreCompany(w, c) PROVE Busy'
  BY <1>1 DEF ScoreCompany, Begin, Scorer
<1>2. ASSUME NEW w \in Worker, FlushScore(w) PROVE Busy'
  BY <1>2 DEF FlushScore, Scanning
<1>3. ASSUME NEW w \in Worker, CommitScore(w) \/ CommitScan(w) \/ CycleDies(w) \/ Rollback(w)
      PROVE  Busy'
  <2>1. Discard(w)
    BY <1>3 DEF CommitScore, CommitScan, CycleDies, Rollback
  <2> QED
    BY <2>1 DEF Discard
<1>4. ASSUME NEW w \in Worker, NEW j \in Job, StartScan(w, j) PROVE Busy'
  BY <1>4 DEF StartScan, Begin, Scanner
<1>5. ASSUME NEW w \in Worker, StoreResults(w) PROVE Busy'
  BY <1>5 DEF StoreResults
<1>6. ASSUME UNCHANGED <<cur, pc>> PROVE Busy'
  BY <1>6
<1> QED
  BY <1>1, <1>2, <1>3, <1>4, <1>5, <1>6, Steps
     DEF MidnightPasses, MonthTurns, DayTurns, CooldownEnds, CompanyMentioned, RequestScan,
         SourcesScanned, ImportToDb, RollbackImport, vars

LEMMA TypeInit ==
  ASSUME Init
  PROVE  TypeOK /\ Busy
<1>1. 1 \in Month /\ NoTarget \in Target
  BY NoTargetIsTarget, FS_CardinalityType, FS_EmptySet
<1>2. CompanyTypes
  <2>1. mentioned \in [Company -> BOOLEAN]
    <3>1. mentioned = [c \in Company |-> c \in Known]
      BY DEF Init
    <3>2. \A c \in Company : (c \in Known) \in BOOLEAN
      OBVIOUS
    <3> QED
      BY <3>1, <3>2, Zenon
  <2>2. undone \in BOOLEAN /\ tag \in [Company -> BOOLEAN]
    BY Zenon DEF Init
  <2> QED
    BY <1>1, <2>1, <2>2 DEF Init, CompanyTypes, Eligible
<1>3. JobTypes
  BY DEF Init, JobTypes
<1>4. WorkerTypes /\ Busy
  BY <1>1 DEF Init, WorkerTypes, Busy
<1>5. scope \in Scopes
  BY DEF Init
<1> QED
  BY <1>2, <1>3, <1>4, <1>5, TypeParts

LEMMA TypeStep ==
  ASSUME TypeOK, Busy, [Next]_vars
  PROVE  TypeOK' /\ Busy'
<1>1. CompanyTypes' /\ JobTypes' /\ WorkerTypes' /\ Busy'
  BY CompanyTypesStep, JobTypesStep, WorkerTypesStep, BusyStep
<1>2. scope' \in Scopes
  BY ScopeKept DEF TypeOK
<1> QED
  BY <1>1, <1>2 DEF TypeOK, CompanyTypes, JobTypes, WorkerTypes

\* The types of the tables and of the workers, in every state of every behaviour.
THEOREM TypeCorrect == Spec => []TypeOK
<1>1. Spec => [](TypeOK /\ Busy)
  BY TypeInit, TypeStep, PTL DEF Spec
<1> QED
  BY <1>1, PTL

-----------------------------------------------------------------------------
(* What workers do to each other *)

\* What a step leaves of the workers it is not about.
Stands(v) ==
    /\ cur'[v] = cur[v] /\ pc'[v] = pc[v] /\ asks'[v] = asks[v]
    /\ read'[v] = read[v] /\ wants'[v] = wants[v] /\ copy'[v] = copy[v]
    /\ About(v)' = About(v) /\ (Scanning(v)' <=> Scanning(v)) /\ (Changes(v)' <=> Changes(v))

LEMMA Discarded ==
  ASSUME TypeOK, NEW w \in Worker, Discard(w)
  PROVE  /\ pc'[w] = "idle" /\ asks'[w] = NoJob /\ fresh'[w] = FALSE /\ ~Scanning(w)'
         /\ \A v \in Worker \ {w} : Stands(v) /\ fresh'[v] = fresh[v]
BY DEF TypeOK, Discard, Stands, About, Scanning, Changes

LEMMA Begun ==
  ASSUME TypeOK, NEW w \in Worker, NEW c \in Company, ScoreCompany(w, c)
  PROVE  /\ pc[w] = "idle" /\ pc'[w] = "read" /\ asks' = asks /\ fresh'[w] = TRUE
         /\ cur'[w] = Scorer(c) /\ About(w)' = c /\ ~Scanning(w)' /\ read'[w] = target[c]
         /\ \A v \in Worker \ {w} : Stands(v) /\ fresh'[v] = fresh[v]
BY DEF TypeOK, ScoreCompany, Begin, ReadTarget, Stands, About, Scanning, Changes, Scorer

LEMMA Started ==
  ASSUME TypeOK, NEW w \in Worker, NEW j \in Job, StartScan(w, j)
  PROVE  /\ pc[w] = "idle" /\ pc'[w] = "asking" /\ asks' = asks /\ fresh'[w] = TRUE
         /\ cur'[w] = Scanner(j) /\ cur'[w][2] = j /\ About(w)' = j[1] /\ Scanning(w)'
         /\ \A v \in Worker \ {w} : Stands(v) /\ fresh'[v] = fresh[v]
BY DEF TypeOK, StartScan, Begin, Stands, About, Scanning, Changes, Scanner

LEMMA Flushed ==
  ASSUME TypeOK, NEW w \in Worker, FlushScore(w)
  PROVE  /\ pc[w] = "read" /\ pc'[w] = "held" /\ ~Scanning(w) /\ ~Scanning(w)'
         /\ cur'[w] = cur[w] /\ About(w)' = About(w)
         /\ asks'[w] \in {NoJob, Monthly(About(w))}
         /\ asks'[w] # NoJob => Graduates(w)
         /\ read'[w] = read[w]
         /\ (Changes(w)' <=> Changes(w)) /\ fresh' = fresh
         /\ \A v \in Worker \ {w} : Stands(v)
BY DEF TypeOK, FlushScore, Stands, About, Scanning, Changes

LEMMA Stored ==
  ASSUME TypeOK, Busy, NEW w \in Worker, StoreResults(w)
  PROVE  /\ pc[w] = "asking" /\ pc'[w] = "read" /\ Scanning(w) /\ Scanning(w)'
         /\ cur' = cur /\ About(w)' = About(w) /\ asks' = asks /\ fresh' = fresh
         /\ read'[w] = target[About(w)]
         /\ \A v \in Worker \ {w} : Stands(v)
<1>1. PICK x : wants' = [wants EXCEPT ![w] = x]
  BY DEF StoreResults
<1>2. /\ pc[w] = "asking" /\ pc' = [pc EXCEPT ![w] = "read"]
      /\ read' = [read EXCEPT ![w] = target[About(w)]]
      /\ UNCHANGED <<cur, copy, fresh, asks>>
  BY DEF StoreResults, ReadTarget
<1>3. cur[w][1] = "scan" /\ pc'[w] = "read"
  BY <1>2 DEF Busy, TypeOK
<1> QED
  BY <1>1, <1>2, <1>3 DEF TypeOK, Stands, About, Scanning, Changes

\* Whoever is not at work: nothing changes for the workers.
LEMMA EventsStand ==
  ASSUME TypeOK,
         \/ MidnightPasses \/ MonthTurns
         \/ \E c \in Company : CooldownEnds(c) \/ CompanyMentioned(c) \/ RequestScan(c)
         \/ SourcesScanned \/ ImportToDb \/ RollbackImport
         \/ UNCHANGED vars
  PROVE  \A v \in Worker : Stands(v) /\ fresh'[v] \in {FALSE, fresh[v]}
<1>1. UNCHANGED <<cur, pc, asks, read, wants, copy>>
  BY DEF MidnightPasses, MonthTurns, DayTurns, CooldownEnds, CompanyMentioned, RequestScan,
         SourcesScanned, ImportToDb, RollbackImport, vars, workVars
<1>2. fresh' = fresh \/ fresh' = [w \in Worker |-> FALSE]
  BY DEF MidnightPasses, MonthTurns, DayTurns, CooldownEnds, CompanyMentioned, RequestScan,
         SourcesScanned, ImportToDb, RollbackImport, vars, workVars
<1> QED
  BY <1>1, <1>2 DEF Stands, About, Scanning, Changes

-----------------------------------------------------------------------------
(* Scans: a failed one leaves no trace *)

\* A job is scanned by one worker at a time, which alone knows of the scan.
ScanInv ==
    /\ \A w \in Worker : Scanning(w) =>
          status[cur[w][2]] = "running" /\ scan[cur[w][2]] = "open"
    /\ \A v, w \in Worker : Scanning(v) /\ Scanning(w) /\ cur[v][2] = cur[w][2] => v = w
    /\ FailedScansLeaveNoTrace

\* A scan that is asked for but not committed is of no job that others know, and
\* one scorer of a company at a time gets as far as to ask.
AskInv ==
    /\ \A w \in Worker : asks[w] # NoJob =>
          /\ pc[w] = "held" /\ asks[w][1] = About(w) /\ asks[w][2] \in Month
          /\ status[asks[w]] = "none"
    /\ \A v, w \in Worker : pc[v] = "held" /\ pc[w] = "held" /\ About(v) = About(w) => v = w

\* A job that nobody scans changes its status, and no scan of it was there.
LEMMA ScanInvEnqueues ==
  ASSUME TypeOK, Busy, ScanInv, \A v \in Worker : Stands(v), scan' = scan,
         NEW j \in Job, status[j] = "none", status' = [status EXCEPT ![j] = "pending"]
  PROVE  ScanInv'
<1>1. \A w \in Worker : Scanning(w) => cur[w][2] \in Job /\ cur[w][2] # j
  BY AboutCompany DEF Scanning, ScanInv
<1>2. \A k \in Job \ {j} : status'[k] = status[k]
  BY DEF TypeOK
<1>3. scan[j] = "none"
  BY <1>1 DEF ScanInv, FailedScansLeaveNoTrace
<1>4. FailedScansLeaveNoTrace'
  BY <1>2, <1>3 DEF ScanInv, FailedScansLeaveNoTrace, Stands
<1> QED
  BY <1>1, <1>2, <1>4 DEF ScanInv, Stands

LEMMA ScanInvSame ==
  ASSUME ScanInv, scan' = scan, status' = status,
         \A v \in Worker : /\ Scanning(v)' <=> Scanning(v)
                           /\ Scanning(v) => cur'[v] = cur[v]
  PROVE  ScanInv'
BY DEF ScanInv, FailedScansLeaveNoTrace

\* The end of a scan, good or bad.
LEMMA ScanInvEnds ==
  ASSUME TypeOK, Busy, ScanInv, NEW w \in Worker, Discard(w), Scanning(w),
         \A k \in Job \ {cur[w][2]} : status'[k] = status[k] /\ scan'[k] = scan[k],
         \/ scan'[cur[w][2]] = "none"
         \/ scan'[cur[w][2]] = "completed" /\ status'[cur[w][2]] = "completed"
  PROVE  ScanInv'
<1> DEFINE j == cur[w][2]
<1>1. j \in Job
  BY AboutCompany DEF Scanning
<1>2. /\ ~Scanning(w)'
      /\ \A v \in Worker \ {w} : Stands(v)
  BY Discarded
<1>3. \A v \in Worker \ {w} : Scanning(v)' => cur'[v][2] = cur[v][2] /\ cur[v][2] # j
                                              /\ cur[v][2] \in Job
  BY <1>2, AboutCompany DEF Stands, ScanInv, Scanning
<1>4. \/ scan'[j] = "none"
      \/ scan'[j] = "completed" /\ status'[j] = "completed"
  OBVIOUS
<1>5. \A k \in Job \ {j} : scan'[k] = scan[k] /\ status'[k] = status[k]
  OBVIOUS
<1>6. FailedScansLeaveNoTrace'
  <2>1. ASSUME NEW k \in Job, k # j
        PROVE  \/ scan'[k] = "none"
               \/ scan'[k] = "completed" /\ status'[k] = "completed"
               \/ \E v \in Worker : Scanning(v)' /\ cur'[v][2] = k
    BY <1>2, <1>5, <2>1 DEF ScanInv, FailedScansLeaveNoTrace, Stands
  <2> QED
    BY <1>4, <2>1 DEF FailedScansLeaveNoTrace
<1> QED
  BY <1>2, <1>3, <1>5, <1>6 DEF ScanInv, Stands

LEMMA ScanStep ==
  ASSUME TypeOK, Busy, ScanInv, AskInv, [Next]_vars
  PROVE  ScanInv'
<1>1. ASSUME NEW w \in Worker, NEW c \in Company, ScoreCompany(w, c) PROVE ScanInv'
  <2>1. scan' = scan /\ status' = status
    BY <1>1 DEF ScoreCompany, scanVars, jobVars
  <2>2. ~Scanning(w) /\ ~Scanning(w)'
    BY <1>1, Begun DEF Scanning
  <2>3. \A v \in Worker \ {w} : Stands(v)
    BY <1>1, Begun
  <2>4. \A v \in Worker : (Scanning(v)' <=> Scanning(v)) /\ (Scanning(v) => cur'[v] = cur[v])
    BY <2>2, <2>3 DEF Stands
  <2> QED
    BY <2>1, <2>4, ScanInvSame
<1>2. ASSUME NEW w \in Worker, FlushScore(w) PROVE ScanInv'
  <2>1. scan' = scan /\ status' = status
    BY <1>2 DEF FlushScore, scanVars, jobVars
  <2> QED
    BY <1>2, <2>1, Flushed, ScanInvSame DEF Stands
<1>3. ASSUME NEW w \in Worker, CommitScore(w) PROVE ScanInv'
  <2>1. /\ scan' = scan /\ ~Scanning(w) /\ Discard(w)
        /\ \/ status' = status
           \/ asks[w] # NoJob /\ status' = [status EXCEPT ![asks[w]] = "pending"]
    BY <1>3 DEF CommitScore, Enqueue, scanVars
  <2>2. \A v \in Worker : /\ Scanning(v)' <=> Scanning(v)
                          /\ Scanning(v) => cur'[v] = cur[v]
    BY <2>1, Discarded DEF Stands
  <2>3. CASE status' = status
    BY <2>1, <2>2, <2>3 DEF ScanInv, FailedScansLeaveNoTrace
  <2>4. CASE asks[w] # NoJob /\ status' = [status EXCEPT ![asks[w]] = "pending"]
    <3>1. asks[w] \in Job /\ status[asks[w]] = "none"
      BY <2>4 DEF TypeOK, AskInv
    <3>2. \A v \in Worker : Scanning(v) => cur[v][2] \in Job /\ cur[v][2] # asks[w]
      BY <3>1, AboutCompany DEF Scanning, ScanInv
    <3>3. \A k \in Job \ {asks[w]} : status'[k] = status[k]
      BY <2>4 DEF TypeOK
    <3>4. scan[asks[w]] = "none"
      BY <3>1, <3>2 DEF ScanInv, FailedScansLeaveNoTrace
    <3>5. FailedScansLeaveNoTrace'
      BY <2>1, <2>2, <3>3, <3>4 DEF ScanInv, FailedScansLeaveNoTrace
    <3> QED
      BY <2>1, <2>2, <3>2, <3>3, <3>5 DEF ScanInv
  <2> QED
    BY <2>1, <2>3, <2>4
<1>4. ASSUME NEW w \in Worker, NEW j \in Job, StartScan(w, j) PROVE ScanInv'
  <2>1. /\ status[j] = "pending" /\ status' = [status EXCEPT ![j] = "running"]
        /\ scan' = [scan EXCEPT ![j] = "open"]
    BY <1>4 DEF StartScan
  <2>2. /\ cur'[w][2] = j /\ Scanning(w)' /\ pc[w] = "idle"
        /\ \A v \in Worker \ {w} : Stands(v)
    BY <1>4, Started
  <2>3. ~Scanning(w)
    BY <2>2 DEF Scanning
  <2>4. \A v \in Worker \ {w} : Scanning(v)' => /\ Scanning(v) /\ cur'[v][2] = cur[v][2]
                                                /\ cur[v][2] # j /\ cur[v][2] \in Job
    BY <2>1, <2>2, AboutCompany DEF Stands, ScanInv, Scanning
  <2>5. status'[j] = "running" /\ scan'[j] = "open"
    BY <2>1 DEF TypeOK
  <2>6. \A k \in Job \ {j} : status'[k] = status[k] /\ scan'[k] = scan[k]
    BY <2>1 DEF TypeOK
  <2>7. FailedScansLeaveNoTrace'
    <3>1. ASSUME NEW k \in Job, k # j
          PROVE  \/ scan'[k] = "none"
                 \/ scan'[k] = "completed" /\ status'[k] = "completed"
                 \/ \E v \in Worker : Scanning(v)' /\ cur'[v][2] = k
      BY <2>2, <2>3, <2>6, <3>1 DEF ScanInv, FailedScansLeaveNoTrace, Stands
    <3> QED
      BY <2>2, <3>1 DEF FailedScansLeaveNoTrace
  <2> QED
    BY <2>2, <2>4, <2>5, <2>6, <2>7 DEF ScanInv
<1>5. ASSUME NEW w \in Worker, StoreResults(w) PROVE ScanInv'
  <2>1. scan' = scan /\ status' = status
    BY <1>5 DEF StoreResults, scanVars, jobVars
  <2> QED
    BY <1>5, <2>1, Stored, ScanInvSame DEF Stands
<1>6. ASSUME NEW w \in Worker, CommitScan(w) PROVE ScanInv'
  <2>1. Discard(w) /\ Scanning(w) /\ cur[w][2] \in Job
    BY <1>6, AboutCompany DEF CommitScan
  <2>2. /\ scan' = [scan EXCEPT ![cur[w][2]] = "completed"]
        /\ status' = [status EXCEPT ![cur[w][2]] = "completed"]
    BY <1>6 DEF CommitScan
  <2> QED
    BY <2>1, <2>2, ScanInvEnds DEF TypeOK
<1>7. ASSUME NEW w \in Worker, CycleDies(w) PROVE ScanInv'
  <2>1. Discard(w) /\ Scanning(w) /\ cur[w][2] \in Job
    BY <1>7, AboutCompany DEF CycleDies, Scanning
  <2>2. /\ scan' = [scan EXCEPT ![cur[w][2]] = "none"]
        /\ status' = [status EXCEPT ![cur[w][2]] = "pending"]
    BY <1>7 DEF CycleDies, ScanAfterRollback
  <2> QED
    BY <2>1, <2>2, ScanInvEnds DEF TypeOK
<1>8. ASSUME NEW w \in Worker, pc[w] # "idle", Rollback(w) PROVE ScanInv'
  <2>1. CASE Scanning(w)
    <3>1. /\ Discard(w) /\ scan' = [scan EXCEPT ![cur[w][2]] = "none"]
          /\ status' = [status EXCEPT ![cur[w][2]] =
                          IF tries[cur[w][2]] + 1 < MaxTries THEN "pending" ELSE "failed"]
      BY <1>8, <2>1 DEF Rollback, ScanAfterRollback
    <3>2. cur[w][2] \in Job
      BY <2>1, AboutCompany DEF Scanning
    <3> QED
      BY <2>1, <3>1, <3>2, ScanInvEnds DEF TypeOK
  <2>2. CASE ~Scanning(w)
    <3>1. Discard(w) /\ scan' = scan /\ status' = status
      BY <1>8, <2>2 DEF Rollback, ScanAfterRollback
    <3> QED
      BY <2>2, <3>1, Discarded, ScanInvSame DEF Stands
  <2> QED
    BY <2>1, <2>2
<1>9. ASSUME NEW c \in Company, RequestScan(c) PROVE ScanInv'
  <2>1. PICK depth \in Depths :
          \/ \E f \in Forced : /\ status[<<c, f>>] = "none"
                               /\ Enqueue(<<c, f>>, FALSE, depth = "full", TRUE)
          \/ Monthly(c) # NoJob /\ Enqueue(Monthly(c), FALSE, depth = "full", TRUE)
    BY <1>9 DEF RequestScan
  <2>2. \A f \in Forced : <<c, f>> \in Job
    BY DEF Job, Ref
  <2>3. PICK j \in Job : status[j] = "none" /\ status' = [status EXCEPT ![j] = "pending"]
    BY <2>1, <2>2, MonthlyJob DEF Enqueue
  <2>4. scan' = scan /\ \A v \in Worker : Stands(v)
    BY <1>9, EventsStand DEF RequestScan, scanVars
  <2> QED
    BY <2>3, <2>4, ScanInvEnqueues
<1>10. ASSUME \/ MidnightPasses \/ MonthTurns \/ SourcesScanned \/ ImportToDb \/ RollbackImport
              \/ \E c \in Company : CooldownEnds(c) \/ CompanyMentioned(c)
              \/ UNCHANGED vars
       PROVE  ScanInv'
  <2>1. scan' = scan /\ status' = status
    BY <1>10 DEF MidnightPasses, MonthTurns, DayTurns, SourcesScanned, ImportToDb, RollbackImport,
                 CooldownEnds, CompanyMentioned, vars, scanVars, jobVars
  <2> QED
    BY <1>10, <2>1, EventsStand, ScanInvSame DEF Stands
<1> QED
  BY <1>1, <1>2, <1>3, <1>4, <1>5, <1>6, <1>7, <1>8, <1>9, <1>10, Steps

\* Whose status no worker asks for may change.
LEMMA AskInvStands ==
  ASSUME TypeOK, AskInv, \A v \in Worker : asks'[v] # NoJob => Stands(v),
         \A v \in Worker : pc'[v] = "held" => Stands(v),
         \A v \in Worker : asks[v] # NoJob /\ Stands(v) => status'[asks[v]] = "none"
  PROVE  AskInv'
BY DEF AskInv, Stands

LEMMA AskStep ==
  ASSUME TypeOK, Busy, ScanInv, AskInv, [Next]_vars
  PROVE  AskInv'
<1>1. ASSUME NEW w \in Worker, NEW c \in Company, ScoreCompany(w, c) PROVE AskInv'
  <2>1. asks[w] = NoJob /\ asks' = asks /\ pc'[w] = "read" /\ status' = status
    BY <1>1, Begun DEF AskInv, ScoreCompany, jobVars
  <2>2. \A v \in Worker \ {w} : Stands(v)
    BY <1>1, Begun
  <2> QED
    BY <2>1, <2>2, AskInvStands DEF AskInv
<1>2. ASSUME NEW w \in Worker, FlushScore(w) PROVE AskInv'
  <2>1. About(w) \in Company
    BY <1>2, AboutCompany DEF FlushScore
  <2>2. \A v \in Worker \ {w} : pc[v] = "held" => About(v) # About(w)
    BY <1>2 DEF FlushScore, Locked
  <2>3. status' = status
    BY <1>2 DEF FlushScore, jobVars
  <2>4. /\ pc'[w] = "held" /\ About(w)' = About(w) /\ asks'[w] \in {NoJob, Monthly(About(w))}
        /\ \A v \in Worker \ {w} : Stands(v)
    BY <1>2, Flushed
  <2>5. ASSUME asks'[w] # NoJob
        PROVE  asks'[w][1] = About(w)' /\ asks'[w][2] \in Month /\ status'[asks'[w]] = "none"
    BY <2>1, <2>3, <2>4, <2>5, MonthlyJob
  <2> QED
    BY <2>2, <2>3, <2>4, <2>5 DEF AskInv, Stands
<1>3. ASSUME NEW w \in Worker, CommitScore(w) PROVE AskInv'
  <2>1. /\ pc[w] = "held" /\ pc'[w] = "idle" /\ asks'[w] = NoJob
        /\ \A v \in Worker \ {w} : Stands(v)
        /\ \/ status' = status
           \/ asks[w] # NoJob /\ status' = [status EXCEPT ![asks[w]] = "pending"]
    BY <1>3, Discarded DEF CommitScore, Enqueue
  <2>2. ASSUME NEW v \in Worker, asks[v] # NoJob, v # w PROVE status'[asks[v]] = "none"
    <3>1. status[asks[v]] = "none" /\ asks[v] \in Job /\ asks[v][1] = About(v) /\ pc[v] = "held"
      BY <2>2 DEF AskInv, TypeOK
    <3>2. asks[w] # NoJob => asks[w] # asks[v]
      BY <2>1, <2>2, <3>1 DEF AskInv
    <3> QED
      BY <2>1, <3>1, <3>2 DEF TypeOK
  <2>3. \A v \in Worker : asks'[v] # NoJob \/ pc'[v] = "held" => v # w
    BY <2>1
  <2> QED
    BY <2>1, <2>2, <2>3 DEF AskInv, Stands
<1>4. ASSUME NEW w \in Worker, NEW j \in Job, StartScan(w, j) PROVE AskInv'
  <2>1. asks[w] = NoJob /\ asks' = asks /\ pc'[w] = "asking"
    BY <1>4, Started DEF AskInv
  <2>2. \A v \in Worker \ {w} : Stands(v)
    BY <1>4, Started
  <2>3. \A v \in Worker : asks[v] # NoJob => status'[asks[v]] = "none"
    BY <1>4 DEF StartScan, AskInv, TypeOK
  <2> QED
    BY <2>1, <2>2, <2>3, AskInvStands
<1>5. ASSUME NEW w \in Worker, StoreResults(w) PROVE AskInv'
  <2>1. asks[w] = NoJob /\ asks' = asks /\ pc'[w] = "read" /\ status' = status
    BY <1>5, Stored DEF AskInv, StoreResults, jobVars
  <2>2. \A v \in Worker \ {w} : Stands(v)
    BY <1>5, Stored
  <2> QED
    BY <2>1, <2>2, AskInvStands DEF AskInv
<1>6. ASSUME NEW w \in Worker, CommitScan(w) \/ CycleDies(w) \/ (pc[w] # "idle" /\ Rollback(w))
      PROVE  AskInv'
  <2>1. Discard(w) /\ pc[w] # "idle"
    BY <1>6 DEF CommitScan, CycleDies, Rollback, Scanning
  <2>2. /\ Scanning(w) => cur[w][2] \in Job /\ status[cur[w][2]] = "running"
        /\ \/ status' = status
           \/ Scanning(w) /\ \E s : status' = [status EXCEPT ![cur[w][2]] = s]
    BY <1>6, <2>1, AboutCompany DEF CommitScan, CycleDies, Rollback, ScanInv
  <2>3. \A v \in Worker : asks[v] # NoJob => status'[asks[v]] = "none"
    BY <2>2 DEF AskInv, TypeOK
  <2>4. pc'[w] = "idle" /\ asks'[w] = NoJob /\ \A v \in Worker \ {w} : Stands(v)
    BY <2>1, Discarded
  <2> QED
    BY <2>3, <2>4, AskInvStands
<1>7. ASSUME NEW c \in Company, RequestScan(c) PROVE AskInv'
  <2>1. PICK depth \in Depths :
          \/ \E f \in Forced : /\ status[<<c, f>>] = "none"
                               /\ Enqueue(<<c, f>>, FALSE, depth = "full", TRUE)
          \/ /\ Monthly(c) # NoJob /\ \A w \in Worker : asks[w] # Monthly(c)
             /\ Enqueue(Monthly(c), FALSE, depth = "full", TRUE)
    BY <1>7 DEF RequestScan
  <2>2. \A f \in Forced : \A w \in Worker : asks[w] # NoJob => asks[w] # <<c, f>>
    BY DEF AskInv
  <2>3. PICK j : /\ status' = [status EXCEPT ![j] = "pending"]
                 /\ \A w \in Worker : asks[w] # NoJob => asks[w] # j
    BY <2>1, <2>2 DEF Enqueue
  <2>4. \A v \in Worker : asks[v] # NoJob => status'[asks[v]] = "none"
    BY <2>3 DEF AskInv, TypeOK
  <2> QED
    BY <1>7, <2>4, EventsStand, AskInvStands
<1>8. ASSUME \/ MidnightPasses \/ MonthTurns \/ SourcesScanned \/ ImportToDb \/ RollbackImport
             \/ \E c \in Company : CooldownEnds(c) \/ CompanyMentioned(c)
             \/ UNCHANGED vars
      PROVE  AskInv'
  <2>1. status' = status
    BY <1>8 DEF MidnightPasses, MonthTurns, DayTurns, SourcesScanned, ImportToDb, RollbackImport,
                CooldownEnds, CompanyMentioned, vars, jobVars
  <2> QED
    BY <1>8, <2>1, EventsStand, AskInvStands DEF AskInv
<1> QED
  BY <1>1, <1>2, <1>3, <1>4, <1>5, <1>6, <1>7, <1>8, Steps

LEMMA SafeInit ==
  ASSUME Init
  PROVE  ScanInv /\ AskInv
BY DEF Init, ScanInv, AskInv, FailedScansLeaveNoTrace, Scanning

Safe == TypeOK /\ Busy /\ ScanInv /\ AskInv

LEMMA SafeAlways == Spec => []Safe
<1>1. Init => Safe
  BY TypeInit, SafeInit DEF Safe
<1>2. Safe /\ [Next]_vars => Safe'
  BY TypeStep, ScanStep, AskStep DEF Safe
<1> QED
  BY <1>1, <1>2, PTL DEF Spec

\* A scan that fails, by an exception or by the death of its cycle, is rolled back
\* whole: a scan that others can see is completed, and so is its job.
THEOREM NoTrace == Spec => []FailedScansLeaveNoTrace
<1>1. Safe => FailedScansLeaveNoTrace
  BY DEF Safe, ScanInv
<1> QED
  BY <1>1, SafeAlways, PTL

-----------------------------------------------------------------------------
(* The daily cap of automatic scans *)

AutoToday == auto \cap today

\* Workers whose scan job counts for today, once they commit.
Askers == {w \in Worker : asks[w] # NoJob /\ fresh[w]}

\* Only jobs that exist are counted.
QueuedInv == \A j \in auto \cup today : status[j] # "none"

\* A job that is asked for was within the cap when it was asked for.
CapInv == Cardinality(AutoToday) + Cardinality(Askers) <= AutoLimit - 1 + Cardinality(Worker)

LEMMA CapFinite ==
  ASSUME TypeOK
  PROVE  /\ IsFiniteSet(today) /\ IsFiniteSet(AutoToday) /\ IsFiniteSet(Askers)
         /\ Cardinality(today) \in Nat /\ Cardinality(AutoToday) \in Nat
         /\ Cardinality(Askers) \in Nat /\ Cardinality(Worker) \in Nat
         /\ Cardinality(AutoToday) <= Cardinality(today)
<1>1. IsFiniteSet(Ref)
  BY FS_Union DEF Ref
<1>2. IsFiniteSet(Job)
  BY <1>1, FS_Product DEF Job
<1>3. IsFiniteSet(today)
  BY <1>2, FS_Subset DEF TypeOK
<1>4. IsFiniteSet(AutoToday) /\ Cardinality(AutoToday) <= Cardinality(today)
  BY <1>3, FS_Subset DEF AutoToday
<1>5. IsFiniteSet(Askers)
  BY FS_Subset DEF Askers
<1> QED
  BY <1>3, <1>4, <1>5, FS_CardinalityType

LEMMA CapShrinks ==
  ASSUME TypeOK, CapInv, AutoToday' \subseteq AutoToday, Askers' \subseteq Askers
  PROVE  CapInv'
<1>1. Cardinality(AutoToday') <= Cardinality(AutoToday) /\ Cardinality(AutoToday') \in Nat
  BY CapFinite, FS_Subset, FS_CardinalityType
<1>2. Cardinality(Askers') <= Cardinality(Askers) /\ Cardinality(Askers') \in Nat
  BY CapFinite, FS_Subset, FS_CardinalityType
<1> QED
  BY <1>1, <1>2, CapFinite DEF CapInv

LEMMA CapEnqueue ==
  ASSUME TypeOK, QueuedInv, NEW j \in Job, NEW s \in BOOLEAN, NEW f \in BOOLEAN, NEW t \in BOOLEAN,
         Enqueue(j, s, f, t), status[j] = "none"
  PROVE  /\ QueuedInv'
         /\ AutoToday' = IF s /\ t THEN AutoToday \cup {j} ELSE AutoToday
<1>1. j \notin auto /\ j \notin today
  BY DEF QueuedInv
<1>2. /\ auto' = IF s THEN auto \cup {j} ELSE auto
      /\ today' = IF t THEN today \cup {j} ELSE today
      /\ status' = [status EXCEPT ![j] = "pending"]
  BY DEF Enqueue
<1>3. AutoToday' = IF s /\ t THEN AutoToday \cup {j} ELSE AutoToday
  BY <1>1, <1>2 DEF AutoToday
<1>4. QueuedInv'
  BY <1>2 DEF QueuedInv, TypeOK
<1> QED
  BY <1>3, <1>4

LEMMA CapKept ==
  ASSUME TypeOK, QueuedInv, CapInv, auto' = auto, today' \subseteq today,
         \A j \in Job : status[j] # "none" => status'[j] # "none",
         Askers' \subseteq Askers
  PROVE  QueuedInv' /\ CapInv'
<1>1. AutoToday' \subseteq AutoToday
  BY DEF AutoToday
<1>2. QueuedInv'
  BY DEF QueuedInv, TypeOK
<1> QED
  BY <1>1, <1>2, CapShrinks

LEMMA FewerAskers ==
  ASSUME NEW w \in Worker, asks'[w] = NoJob,
         \A v \in Worker \ {w} : Stands(v) /\ fresh'[v] = fresh[v]
  PROVE  Askers' = Askers \ {w}
<1>1. \A v \in Worker \ {w} : asks'[v] = asks[v] /\ fresh'[v] = fresh[v]
  BY DEF Stands
<1> QED
  BY <1>1, Zenon DEF Askers

LEMMA NoMoreAskers ==
  ASSUME TypeOK, \A v \in Worker : Stands(v) /\ fresh'[v] \in {FALSE, fresh[v]}
  PROVE  Askers' \subseteq Askers
<1>1. \A v \in Worker : asks'[v] = asks[v] /\ (fresh'[v] => fresh[v])
  BY DEF Stands, TypeOK
<1> QED
  BY <1>1, Zenon DEF Askers

LEMMA CapStep ==
  ASSUME Safe, QueuedInv, CapInv, [Next]_vars
  PROVE  QueuedInv' /\ CapInv'
<1> USE DEF Safe
<1>1. ASSUME NEW w \in Worker, NEW c \in Company, ScoreCompany(w, c) PROVE QueuedInv' /\ CapInv'
  <2>1. UNCHANGED <<auto, today, status>>
    BY <1>1 DEF ScoreCompany, jobVars
  <2>2. /\ pc[w] = "idle" /\ asks' = asks
        /\ \A v \in Worker \ {w} : Stands(v) /\ fresh'[v] = fresh[v]
    BY <1>1, Begun
  <2>3. Askers' = Askers \ {w}
    BY <2>2, FewerAskers DEF AskInv
  <2> QED
    BY <2>1, <2>3, CapKept
<1>2. ASSUME NEW w \in Worker, FlushScore(w) PROVE QueuedInv' /\ CapInv'
  <2>1. UNCHANGED <<auto, today, status>>
    BY <1>2 DEF FlushScore, jobVars
  <2>2. QueuedInv' /\ AutoToday' = AutoToday
    BY <2>1 DEF QueuedInv, AutoToday
  <2>3. CASE asks'[w] = NoJob
    <3>1. Askers' \subseteq Askers
      BY <1>2, <2>3, Flushed DEF Askers, Stands
    <3> QED
      BY <2>1, <3>1, CapKept
  <2>4. CASE asks'[w] # NoJob
    <3>1. Cardinality(today) < AutoLimit
      BY <1>2, <2>4, Flushed DEF Graduates, UnderDailyCap
    <3>2. Askers' \subseteq Worker
      BY DEF Askers
    <3>3. Cardinality(Askers') <= Cardinality(Worker) /\ Cardinality(Askers') \in Nat
      BY <3>2, FS_Subset, FS_CardinalityType
    <3> QED
      BY <2>2, <3>1, <3>3, CapFinite DEF CapInv
  <2> QED
    BY <2>3, <2>4
<1>3. ASSUME NEW w \in Worker, CommitScore(w) PROVE QueuedInv' /\ CapInv'
  <2>1. Discard(w)
    BY <1>3 DEF CommitScore
  <2>2. Askers' = Askers \ {w}
    BY <2>1, Discarded, FewerAskers
  <2>3. CASE asks[w] = NoJob
    <3>1. UNCHANGED <<auto, today, status>>
      BY <1>3, <2>3 DEF CommitScore
    <3> QED
      BY <2>2, <3>1, CapKept
  <2>4. CASE asks[w] # NoJob
    <3>1. asks[w] \in Job /\ status[asks[w]] = "none" /\ fresh[w] \in BOOLEAN
      BY <2>4 DEF TypeOK, AskInv
    <3>2. Enqueue(asks[w], TRUE, FALSE, fresh[w])
      BY <1>3, <2>4 DEF CommitScore
    <3>3. QueuedInv' /\ AutoToday' = IF fresh[w] THEN AutoToday \cup {asks[w]} ELSE AutoToday
      BY <3>1, <3>2, CapEnqueue
    <3>4. CASE ~fresh[w]
      BY <2>2, <3>3, <3>4, CapShrinks
    <3>5. CASE fresh[w]
      <4>1. Cardinality(AutoToday') <= Cardinality(AutoToday) + 1 /\ Cardinality(AutoToday') \in Nat
        <5>1. AutoToday' = AutoToday \cup {asks[w]}
          BY <3>3, <3>5
        <5>2. IsFiniteSet(AutoToday) /\ Cardinality(AutoToday) \in Nat
          BY CapFinite
        <5>3. /\ IsFiniteSet(AutoToday \cup {asks[w]})
              /\ Cardinality(AutoToday \cup {asks[w]}) \in
                    {Cardinality(AutoToday), Cardinality(AutoToday) + 1}
          BY <5>2, FS_AddElement
        <5> QED
          BY <5>1, <5>2, <5>3
      <4>2. w \in Askers
        BY <2>4, <3>5 DEF Askers
      <4>3. Cardinality(Askers') = Cardinality(Askers) - 1
        BY <2>2, <4>2, CapFinite, FS_RemoveElement
      <4> QED
        BY <3>3, <4>1, <4>3, CapFinite DEF CapInv
    <3> QED
      BY <3>4, <3>5
  <2> QED
    BY <2>3, <2>4
<1>4. ASSUME NEW w \in Worker, NEW j \in Job, StartScan(w, j) PROVE QueuedInv' /\ CapInv'
  <2>1. auto' = auto /\ today' = today /\ status' = [status EXCEPT ![j] = "running"]
    BY <1>4 DEF StartScan
  <2>2. /\ pc[w] = "idle" /\ asks' = asks
        /\ \A v \in Worker \ {w} : Stands(v) /\ fresh'[v] = fresh[v]
    BY <1>4, Started
  <2>3. Askers' = Askers \ {w}
    BY <2>2, FewerAskers DEF AskInv
  <2> QED
    BY <2>1, <2>3, CapKept DEF TypeOK
<1>5. ASSUME NEW w \in Worker, StoreResults(w) PROVE QueuedInv' /\ CapInv'
  <2>1. UNCHANGED <<auto, today, status>>
    BY <1>5 DEF StoreResults, jobVars
  <2>2. asks' = asks /\ fresh' = fresh
    BY <1>5, Stored
  <2>3. Askers' \subseteq Askers
    BY <2>2 DEF Askers
  <2> QED
    BY <2>1, <2>3, CapKept
<1>6. ASSUME NEW w \in Worker, CommitScan(w) \/ CycleDies(w) \/ Rollback(w)
      PROVE  QueuedInv' /\ CapInv'
  <2>1. Discard(w) /\ auto' = auto /\ today' = today
    BY <1>6 DEF CommitScan, CycleDies, Rollback
  <2>2. \/ status' = status
        \/ \E s \in {"pending", "failed", "completed"} : status' = [status EXCEPT ![cur[w][2]] = s]
    BY <1>6 DEF CommitScan, CycleDies, Rollback
  <2>3. Askers' = Askers \ {w}
    BY <2>1, Discarded, FewerAskers
  <2> QED
    BY <2>1, <2>2, <2>3, CapKept DEF TypeOK
<1>7. ASSUME NEW c \in Company, RequestScan(c) PROVE QueuedInv' /\ CapInv'
  <2>1. PICK depth \in Depths :
          \/ \E f \in Forced : /\ status[<<c, f>>] = "none"
                               /\ Enqueue(<<c, f>>, FALSE, depth = "full", TRUE)
          \/ Monthly(c) # NoJob /\ Enqueue(Monthly(c), FALSE, depth = "full", TRUE)
    BY <1>7 DEF RequestScan
  <2>2. \A f \in Forced : <<c, f>> \in Job
    BY DEF Job, Ref
  <2>3. PICK j \in Job : status[j] = "none" /\ Enqueue(j, FALSE, depth = "full", TRUE)
    BY <2>1, <2>2, MonthlyJob
  <2>4. QueuedInv' /\ AutoToday' = AutoToday
    BY <2>3, CapEnqueue
  <2>5. \A v \in Worker : Stands(v) /\ fresh'[v] \in {FALSE, fresh[v]}
    BY <1>7, EventsStand
  <2>6. Askers' \subseteq Askers
    BY <2>5, NoMoreAskers
  <2> QED
    BY <2>4, <2>6, CapShrinks
<1>8. ASSUME \/ MidnightPasses \/ MonthTurns \/ SourcesScanned \/ ImportToDb \/ RollbackImport
             \/ \E c \in Company : CooldownEnds(c) \/ CompanyMentioned(c)
             \/ UNCHANGED vars
      PROVE  QueuedInv' /\ CapInv'
  <2>1. auto' = auto /\ today' \in {{}, today} /\ status' = status
    BY <1>8 DEF MidnightPasses, MonthTurns, DayTurns, SourcesScanned, ImportToDb, RollbackImport,
                CooldownEnds, CompanyMentioned, vars, jobVars
  <2>2. Askers' \subseteq Askers
    BY <1>8, EventsStand, NoMoreAskers
  <2> QED
    BY <2>1, <2>2, CapKept
<1> QED
  BY <1>1, <1>2, <1>3, <1>4, <1>5, <1>6, <1>7, <1>8, Steps

\* signal_scan_auto_daily_limit: of the scans of one day, the scorers have asked for
\* fewer than the limit, and for one more per worker that overlaps with the others.
THEOREM CapOverrunByWorkers == Spec => []AutoCapped
<1>1. ASSUME Init PROVE QueuedInv /\ CapInv
  <2>1. AutoToday = {} /\ Askers = {} /\ QueuedInv
    BY <1>1 DEF Init, AutoToday, Askers, QueuedInv
  <2> QED
    BY <2>1, FS_EmptySet, FS_CardinalityType DEF CapInv
<1>2. Safe /\ QueuedInv /\ CapInv /\ [Next]_vars => (QueuedInv /\ CapInv)'
  BY CapStep
<1>3. Safe /\ CapInv => AutoCapped
  BY CapFinite DEF Safe, CapInv, AutoCapped, AutoToday
<1>4. Spec => [](QueuedInv /\ CapInv)
  BY <1>1, <1>2, SafeAlways, PTL DEF Spec
<1> QED
  BY <1>3, <1>4, SafeAlways, PTL

-----------------------------------------------------------------------------
(* The cooldown of automatic scans *)

\* While a scorer that changes a company's target asks for a scan, no scan that changes
\* the target, too, can be committed: it would wait for the row.
CoolInv ==
    \A w \in Worker : asks[w] # NoJob /\ Changes(w) =>
        \A j \in recent \cap Job : j[1] = About(w) => j \in quiet

LEMMA CoolKept ==
  ASSUME CoolInv, \A j \in Job : j \in recent' => j \in recent, quiet \subseteq quiet',
         \A v \in Worker : asks'[v] # NoJob => Stands(v)
  PROVE  CoolInv'
BY DEF CoolInv, Stands

LEMMA CoolStep ==
  ASSUME Safe, CoolInv, [Next]_vars
  PROVE  CoolInv'
<1> USE DEF Safe
<1>1. ASSUME NEW w \in Worker, NEW c \in Company, ScoreCompany(w, c) PROVE CoolInv'
  <2>1. /\ pc[w] = "idle" /\ asks' = asks
        /\ \A v \in Worker \ {w} : Stands(v)
    BY <1>1, Begun
  <2>2. UNCHANGED <<recent, quiet>>
    BY <1>1 DEF ScoreCompany, scanVars, historyVars
  <2> QED
    BY <2>1, <2>2, CoolKept DEF AskInv
<1>2. ASSUME NEW w \in Worker, FlushScore(w) PROVE CoolInv'
  <2>1. UNCHANGED <<recent, quiet>>
    BY <1>2 DEF FlushScore, scanVars, historyVars
  <2>2. /\ asks'[w] # NoJob => ~RecentlyScanned(About(w))
        /\ About(w)' = About(w)
        /\ \A v \in Worker \ {w} : Stands(v)
    BY <1>2, Flushed DEF Graduates
  <2>3. asks'[w] # NoJob => \A j \in recent' \cap Job : j[1] # About(w)'
    BY <2>1, <2>2 DEF RecentlyScanned
  <2> QED
    BY <2>1, <2>2, <2>3 DEF CoolInv, Stands
<1>3. ASSUME NEW w \in Worker, CommitScore(w) \/ CycleDies(w) \/ Rollback(w) PROVE CoolInv'
  <2>1. Discard(w) /\ UNCHANGED <<recent, quiet>>
    BY <1>3 DEF CommitScore, CycleDies, Rollback, scanVars, historyVars
  <2>2. /\ asks'[w] = NoJob
        /\ \A v \in Worker \ {w} : Stands(v)
    BY <2>1, Discarded
  <2> QED
    BY <2>1, <2>2, CoolKept
<1>4. ASSUME NEW w \in Worker, NEW j \in Job, StartScan(w, j) PROVE CoolInv'
  <2>1. /\ pc[w] = "idle" /\ asks' = asks
        /\ \A v \in Worker \ {w} : Stands(v)
    BY <1>4, Started
  <2>2. UNCHANGED <<recent, quiet>>
    BY <1>4 DEF StartScan, historyVars
  <2> QED
    BY <2>1, <2>2, CoolKept DEF AskInv
<1>5. ASSUME NEW w \in Worker, StoreResults(w) PROVE CoolInv'
  <2>1. /\ pc[w] = "asking" /\ asks' = asks
        /\ \A v \in Worker \ {w} : Stands(v)
    BY <1>5, Stored
  <2>2. UNCHANGED <<recent, quiet>>
    BY <1>5 DEF StoreResults, scanVars, historyVars
  <2> QED
    BY <2>1, <2>2, CoolKept DEF AskInv
<1>6. ASSUME NEW w \in Worker, CommitScan(w) PROVE CoolInv'
  <2> DEFINE k == cur[w][2]
  <2>1. /\ Scanning(w) /\ Discard(w) /\ ~Locked(w) /\ recent' = recent \cup {k}
        /\ quiet' = IF Changes(w) THEN quiet ELSE quiet \cup {k}
    BY <1>6 DEF CommitScan
  <2>2. k \in Job /\ About(w) = k[1]
    BY <2>1, AboutCompany DEF Scanning
  <2>3. /\ asks'[w] = NoJob
        /\ \A v \in Worker \ {w} : Stands(v)
    BY <2>1, Discarded
  <2>4. ASSUME NEW v \in Worker, v # w, asks[v] # NoJob, Changes(v), About(v) = About(w)
        PROVE  ~Changes(w)
    <3>1. pc[v] = "held"
      BY <2>4 DEF AskInv
    <3> QED
      BY <2>1, <2>4, <3>1 DEF Locked
  <2>5. ASSUME NEW v \in Worker, asks'[v] # NoJob, Changes(v)', NEW j \in recent' \cap Job,
               j[1] = About(v)'
        PROVE  j \in quiet'
    <3>1. v # w /\ asks[v] # NoJob /\ Changes(v) /\ j[1] = About(v)
      BY <2>3, <2>5 DEF Stands
    <3>2. CASE j = k
      BY <2>1, <2>2, <2>4, <3>1, <3>2
    <3>3. CASE j \in recent
      BY <2>1, <3>1, <3>3 DEF CoolInv
    <3> QED
      BY <2>1, <3>2, <3>3
  <2> QED
    BY <2>5 DEF CoolInv
<1>7. ASSUME ImportToDb PROVE CoolInv'
  <2>1. quiet' = quiet /\ recent' \subseteq recent \cup Company
    BY <1>7 DEF ImportToDb
  <2>2. \A j \in Job : j \in recent' => j \in recent
    BY <2>1
  <2>3. \A v \in Worker : Stands(v)
    BY <1>7, EventsStand
  <2> QED
    BY <2>1, <2>2, <2>3, CoolKept
<1>8. ASSUME \/ MidnightPasses \/ MonthTurns \/ SourcesScanned \/ RollbackImport
             \/ \E c \in Company : CooldownEnds(c) \/ CompanyMentioned(c) \/ RequestScan(c)
             \/ UNCHANGED vars
      PROVE  CoolInv'
  <2>1. quiet' = quiet /\ recent' \subseteq recent
    BY <1>8 DEF MidnightPasses, MonthTurns, DayTurns, SourcesScanned, RollbackImport, CooldownEnds,
                CompanyMentioned, RequestScan, vars, scanVars, historyVars
  <2>2. \A v \in Worker : Stands(v)
    BY <1>8, EventsStand
  <2> QED
    BY <2>1, <2>2, CoolKept
<1> QED
  BY <1>1, <1>2, <1>3, <1>4, <1>5, <1>6, <1>7, <1>8, Steps

\* When a scorer's scan is committed, every scan of the company that is younger than
\* the cooldown left the target as it was, or the scorer did.
THEOREM CooldownKept == Spec => AutoCooldown
<1> DEFINE P == \A w \in Worker : CommitScore(w) /\ asks[w] # NoJob /\ Changes(w) =>
                   \A j \in recent \cap Job : j[1] = About(w) => j \in quiet
<1>1. Init => CoolInv
  BY DEF Init, CoolInv
<1>2. Safe /\ CoolInv /\ [Next]_vars => CoolInv'
  BY CoolStep
<1>3. CoolInv => [P]_vars
  BY DEF CoolInv
<1>4. Spec => []CoolInv
  BY <1>1, <1>2, SafeAlways, PTL DEF Spec
<1> QED
  BY <1>3, <1>4, PTL DEF AutoCooldown

-----------------------------------------------------------------------------
(* The watch target that a commit leaves *)

\* What a worker has read is what the target says, unless it is marked as overtaken;
\* a scorer's company was mentioned, so that no rollback of the import takes it.
OverInv ==
    /\ \A w \in Worker : pc[w] # "idle" /\ ~Scanning(w) => mentioned[About(w)]
    /\ \A w \in Worker : pc[w] \in {"read", "held"} => w \in overtaken \/ target[About(w)] = read[w]

LEMMA TargetParts ==
  ASSUME NEW t \in Target
  PROVE  t = [score |-> t.score, status |-> t.status]
BY DEF Target

\* A commit leaves what it meant, if nobody came in between; one that changes nothing
\* leaves what was there.
LEMMA WrittenMeant ==
  ASSUME TypeOK, Busy, NEW w \in Worker, pc[w] # "idle"
  PROVE  /\ target[About(w)] = read[w] => Written(w) = wants[w]
         /\ ~Changes(w) => Written(w) = target[About(w)]
<1>1. target[About(w)] \in Target /\ wants[w] \in Target /\ read[w] \in Target
  BY AboutCompany DEF TypeOK
<1>2. /\ wants[w] = [score |-> wants[w].score, status |-> wants[w].status]
      /\ target[About(w)] = [score |-> target[About(w)].score, status |-> target[About(w)].status]
  BY <1>1, TargetParts
<1>3. ASSUME target[About(w)] = read[w] PROVE Written(w) = wants[w]
  <2>1. /\ Written(w).score = wants[w].score /\ Written(w).status = wants[w].status
        /\ Written(w) = [score |-> Written(w).score, status |-> Written(w).status]
    BY <1>3 DEF Written
  <2> QED
    BY <1>2, <2>1
<1>4. ASSUME ~Changes(w) PROVE Written(w) = target[About(w)]
  BY <1>2, <1>4 DEF Written, Changes
<1> QED
  BY <1>3, <1>4

LEMMA OverKept ==
  ASSUME OverInv, \A c \in Company : mentioned[c] => mentioned'[c], Busy', TypeOK, Busy,
         \A v \in Worker : pc'[v] # "idle" =>
            /\ Stands(v)
            /\ target'[About(v)] = target[About(v)] /\ (v \in overtaken => v \in overtaken')
  PROVE  OverInv'
BY AboutCompany DEF OverInv, Stands

LEMMA OverCommit ==
  ASSUME Safe, OverInv, NEW w \in Worker, pc[w] # "idle", CommitTarget(w), Discard(w),
         mentioned' = mentioned, Busy'
  PROVE  OverInv'
<1> USE DEF Safe
<1>1. /\ pc'[w] = "idle"
      /\ \A v \in Worker \ {w} : Stands(v)
  BY Discarded
<1>2. ASSUME NEW v \in Worker, v # w, pc[v] \in {"read", "held"}
      PROVE  v \in overtaken' \/ target'[About(v)] = target[About(v)]
  <2>1. target' = [target EXCEPT ![About(w)] = Written(w)]
    BY DEF CommitTarget
  <2>2. About(v) \in Company
    BY <1>2, AboutCompany
  <2>3. CASE About(v) # About(w)
    BY <2>1, <2>2, <2>3 DEF TypeOK
  <2>4. CASE About(v) = About(w) /\ Changes(w)
    BY <1>2, <2>4 DEF CommitTarget
  <2>5. CASE About(v) = About(w) /\ ~Changes(w)
    <3>1. Written(w) = target[About(w)]
      BY <2>5, WrittenMeant
    <3> QED
      BY <2>1, <2>2, <2>5, <3>1 DEF TypeOK
  <2> QED
    BY <2>3, <2>4, <2>5
<1>3. \A v \in Worker \ {w} : v \in overtaken => v \in overtaken'
  BY DEF CommitTarget
<1> QED
  BY <1>1, <1>2, <1>3 DEF OverInv, Stands

LEMMA OverStep ==
  ASSUME Safe, OverInv, [Next]_vars
  PROVE  OverInv'
<1> USE DEF Safe
<1> Busy'
  BY BusyStep
<1>1. ASSUME NEW w \in Worker, NEW c \in Company, ScoreCompany(w, c) PROVE OverInv'
  <2>1. mentioned[c] /\ UNCHANGED <<mentioned, target, overtaken>>
    BY <1>1 DEF ScoreCompany, entityVars, historyVars
  <2>2. /\ About(w)' = c /\ read'[w] = target[c]
        /\ \A v \in Worker \ {w} : Stands(v)
    BY <1>1, Begun
  <2> QED
    BY <2>1, <2>2 DEF OverInv, Stands
<1>2. ASSUME NEW w \in Worker, FlushScore(w) PROVE OverInv'
  <2>1. UNCHANGED <<mentioned, target, overtaken>>
    BY <1>2 DEF FlushScore, entityVars, historyVars
  <2>2. /\ pc[w] = "read" /\ ~Scanning(w) /\ About(w)' = About(w) /\ read'[w] = read[w]
        /\ \A v \in Worker \ {w} : Stands(v)
    BY <1>2, Flushed
  <2> QED
    BY <2>1, <2>2 DEF OverInv, Stands
<1>3. ASSUME NEW w \in Worker, CommitScore(w) PROVE OverInv'
  <2>1. CommitTarget(w) /\ Discard(w) /\ pc[w] # "idle" /\ mentioned' = mentioned
    BY <1>3 DEF CommitScore
  <2> QED
    BY <2>1, OverCommit
<1>4. ASSUME NEW w \in Worker, NEW j \in Job, StartScan(w, j) PROVE OverInv'
  <2>1. UNCHANGED <<mentioned, target, overtaken>>
    BY <1>4 DEF StartScan, entityVars, historyVars
  <2>2. /\ pc'[w] = "asking" /\ Scanning(w)'
        /\ \A v \in Worker \ {w} : Stands(v)
    BY <1>4, Started
  <2> QED
    BY <2>1, <2>2 DEF OverInv, Stands
<1>5. ASSUME NEW w \in Worker, StoreResults(w) PROVE OverInv'
  <2>1. UNCHANGED <<mentioned, target, overtaken>>
    BY <1>5 DEF StoreResults, entityVars, historyVars
  <2>2. /\ Scanning(w)' /\ About(w)' = About(w) /\ read'[w] = target[About(w)]
        /\ \A v \in Worker \ {w} : Stands(v)
    BY <1>5, Stored
  <2> QED
    BY <2>1, <2>2 DEF OverInv, Stands
<1>6. ASSUME NEW w \in Worker, CommitScan(w) PROVE OverInv'
  <2>1. CommitTarget(w) /\ Discard(w) /\ pc[w] # "idle" /\ mentioned' = mentioned
    BY <1>6 DEF CommitScan
  <2> QED
    BY <2>1, OverCommit
<1>7. ASSUME NEW w \in Worker, CycleDies(w) \/ Rollback(w) PROVE OverInv'
  <2>1. Discard(w) /\ UNCHANGED <<mentioned, target>> /\ overtaken' = overtaken \ {w}
    BY <1>7 DEF CycleDies, Rollback, entityVars
  <2>2. /\ pc'[w] = "idle"
        /\ \A v \in Worker \ {w} : Stands(v)
    BY <2>1, Discarded
  <2> QED
    BY <2>1, <2>2, OverKept
<1>8. ASSUME RollbackImport PROVE OverInv'
  <2>1. /\ UNCHANGED <<mentioned, overtaken>>
        /\ target' = [c \in Company |-> IF Doomed(c) THEN NoTarget ELSE target[c]]
        /\ \A c \in Company : Doomed(c) => \A r \in Ref : status[<<c, r>>] = "none"
    BY <1>8 DEF RollbackImport
  <2>2. \A v \in Worker : Stands(v)
    BY <1>8, EventsStand
  <2>3. ASSUME NEW v \in Worker, pc[v] # "idle" PROVE target'[About(v)] = target[About(v)]
    <3>1. About(v) \in Company
      BY <2>3, AboutCompany
    <3>2. CASE Scanning(v)
      <4>1. cur[v][2] \in Job /\ About(v) = cur[v][2][1] /\ status[cur[v][2]] = "running"
        BY <2>3, <3>2, AboutCompany DEF ScanInv
      <4>2. cur[v][2] = <<About(v), cur[v][2][2]>> /\ cur[v][2][2] \in Ref
        BY <4>1 DEF Job
      <4>3. ~Doomed(About(v))
        BY <2>1, <3>1, <4>1, <4>2
      <4> QED
        BY <2>1, <3>1, <4>3
    <3>3. CASE ~Scanning(v)
      BY <2>1, <2>3, <3>1, <3>3 DEF OverInv, Doomed
    <3> QED
      BY <3>2, <3>3
  <2>4. \A v \in Worker : pc'[v] # "idle" => pc[v] # "idle"
    BY <2>2 DEF Stands
  <2> QED
    BY <2>1, <2>2, <2>3, <2>4, OverKept
<1>9. ASSUME \/ MidnightPasses \/ MonthTurns \/ SourcesScanned \/ ImportToDb
             \/ \E c \in Company : CooldownEnds(c) \/ CompanyMentioned(c) \/ RequestScan(c)
             \/ UNCHANGED vars
      PROVE  OverInv'
  <2>1. UNCHANGED <<target, overtaken>>
    BY <1>9 DEF MidnightPasses, MonthTurns, DayTurns, SourcesScanned, ImportToDb, CooldownEnds,
                CompanyMentioned, RequestScan, vars, historyVars
  <2>2. \A c \in Company : mentioned[c] => mentioned'[c]
    BY <1>9 DEF MidnightPasses, MonthTurns, DayTurns, SourcesScanned, ImportToDb, CooldownEnds,
                CompanyMentioned, RequestScan, vars, entityVars, TypeOK
  <2>3. \A v \in Worker : Stands(v)
    BY <1>9, EventsStand
  <2> QED
    BY <2>1, <2>2, <2>3, OverKept
<1> QED
  BY <1>1, <1>2, <1>3, <1>4, <1>5, <1>6, <1>7, <1>8, <1>9, Steps

\* A commit of a triage or of a scan leaves the score and the status it meant, both of
\* them, unless another worker's commit came between its read and its write.
THEOREM LastWriter == Spec => TargetIsLastWriters
<1> DEFINE P == \A w \in Worker : CommitScore(w) \/ CommitScan(w) =>
                   w \in overtaken \/ target'[About(w)] = wants[w]
<1>1. Init => OverInv
  BY DEF Init, OverInv
<1>2. Safe /\ OverInv /\ [Next]_vars => OverInv'
  BY OverStep
<1>3. ASSUME Safe, OverInv, NEW w \in Worker, CommitScore(w) \/ CommitScan(w), w \notin overtaken
      PROVE  target'[About(w)] = wants[w]
  <2>1. pc[w] \in {"read", "held"} /\ target' = [target EXCEPT ![About(w)] = Written(w)]
    BY <1>3 DEF CommitScore, CommitScan, CommitTarget
  <2>2. About(w) \in Company /\ target[About(w)] = read[w]
    BY <1>3, <2>1, AboutCompany DEF Safe, OverInv
  <2>3. Written(w) = wants[w]
    BY <1>3, <2>1, <2>2, WrittenMeant DEF Safe
  <2> QED
    BY <1>3, <2>1, <2>2, <2>3 DEF Safe, TypeOK
<1>4. Safe /\ OverInv => [P]_vars
  BY <1>3
<1>5. Spec => []OverInv
  BY <1>1, <1>2, SafeAlways, PTL DEF Spec
<1> QED
  BY <1>4, <1>5, SafeAlways, PTL DEF TargetIsLastWriters

-----------------------------------------------------------------------------
(* What a rollback of the import removes *)

\* A row that the import has inserted has its key, is known otherwise by now, or has
\* lost the key to a scan.
ImportedInv == \A c \in Company : made[c] = "import" => tag[c] \/ mentioned[c] \/ c \in stale

UndoInv == RollbackRemovesTagged /\ ImportedInv

LEMMA UndoSame ==
  ASSUME UndoInv, UNCHANGED <<made, mentioned, tag, imports, undone, stale>>
  PROVE  UndoInv'
BY DEF UndoInv, RollbackRemovesTagged, ImportedInv

LEMMA UndoStep ==
  ASSUME Safe, UndoInv, [Next]_vars
  PROVE  UndoInv'
<1> USE DEF Safe
<1>1. ASSUME NEW w \in Worker, CommitScan(w) PROVE UndoInv'
  <2>1. /\ tag' = [tag EXCEPT ![About(w)] = copy[w]]
        /\ stale' = IF tag[About(w)] # copy[w] THEN stale \cup {About(w)} ELSE stale
        /\ UNCHANGED <<made, mentioned, imports, undone>>
    BY <1>1 DEF CommitScan
  <2>2. \A c \in Company : c \in stale' \/ (c \notin stale /\ tag'[c] = tag[c])
    BY <2>1 DEF TypeOK
  <2>3. stale \subseteq stale'
    BY <2>1
  <2> QED
    BY <2>1, <2>2, <2>3 DEF UndoInv, RollbackRemovesTagged, ImportedInv
<1>2. ASSUME NEW c \in Company, CompanyMentioned(c) PROVE UndoInv'
  <2>1. /\ mentioned' = [mentioned EXCEPT ![c] = TRUE]
        /\ made' = [made EXCEPT ![c] = IF made[c] = "none" THEN "crawler" ELSE made[c]]
        /\ UNCHANGED <<tag, imports, undone, stale>>
    BY <1>2 DEF CompanyMentioned, scanVars, historyVars
  <2>2. \A d \in Company : (made'[d] = "import" => made[d] = "import")
                           /\ (mentioned[d] => mentioned'[d])
    BY <2>1 DEF TypeOK
  <2> QED
    BY <2>1, <2>2 DEF UndoInv, RollbackRemovesTagged, ImportedInv
<1>3. ASSUME ImportToDb PROVE UndoInv'
  <2>1. /\ undone' = FALSE /\ UNCHANGED <<mentioned, stale>>
        /\ \A c \in Company : c \in Pool => tag'[c]
        /\ \A c \in Company : c \notin Pool => made'[c] = made[c] /\ (tag[c] => tag'[c])
    BY <1>3 DEF ImportToDb
  <2> QED
    BY <2>1 DEF UndoInv, RollbackRemovesTagged, ImportedInv
<1>4. ASSUME RollbackImport PROVE UndoInv'
  <2>1. /\ \A c \in Company : made'[c] = IF Doomed(c) THEN "none" ELSE made[c]
        /\ \A c \in Company : tag'[c] = FALSE
        /\ imports' = {} /\ UNCHANGED <<mentioned, stale>>
    BY <1>4 DEF RollbackImport
  <2>2. \A c \in Company : made'[c] = "import" => mentioned[c] \/ c \in stale
    BY <2>1 DEF UndoInv, ImportedInv, Doomed
  <2> QED
    BY <2>1, <2>2 DEF UndoInv, RollbackRemovesTagged, ImportedInv
<1>5. ASSUME NEW w \in Worker,
             \/ \E c \in Company : ScoreCompany(w, c)
             \/ \E j \in Job : StartScan(w, j)
             \/ FlushScore(w) \/ CommitScore(w) \/ StoreResults(w) \/ CycleDies(w) \/ Rollback(w)
      PROVE  UndoInv'
  BY <1>5, UndoSame DEF ScoreCompany, StartScan, FlushScore, CommitScore, StoreResults, CycleDies,
                        Rollback, entityVars, scanVars, historyVars
<1>6. ASSUME \/ MidnightPasses \/ MonthTurns \/ SourcesScanned
             \/ \E c \in Company : CooldownEnds(c) \/ RequestScan(c)
             \/ UNCHANGED vars
      PROVE  UndoInv'
  BY <1>6, UndoSame DEF MidnightPasses, MonthTurns, DayTurns, SourcesScanned, CooldownEnds,
                        RequestScan, vars, entityVars, scanVars, historyVars
<1> QED
  BY <1>1, <1>2, <1>3, <1>4, <1>5, <1>6, Steps

\* After rollback_import no scan and no metadata key of the import is left, and no row
\* it inserted, but for a company the crawler knows by now, and but for the metadata
\* that a scan in progress wrote back. It does not say that the database is as it was
\* before the import: the columns of a row that stays keep what the import wrote.
THEOREM RollbackRemoves == Spec => []RollbackRemovesTagged
<1>1. Init => UndoInv
  BY DEF Init, UndoInv, RollbackRemovesTagged, ImportedInv
<1>2. Safe /\ UndoInv /\ [Next]_vars => UndoInv'
  BY UndoStep
<1>3. UndoInv => RollbackRemovesTagged
  BY DEF UndoInv
<1> QED
  BY <1>1, <1>2, <1>3, SafeAlways, PTL DEF Spec

-----------------------------------------------------------------------------
(* Scores: every set of answers a scan can be given *)

LEMMA EveryDepthAgrees == AgreeingDepths = Depth
<1>1. ASSUME NEW depth \in Depth, NEW v \in [Scanned(depth) -> Verdict]
      PROVE  /\ Fit(v) - ImportFit(v, DOMAIN v) \in {-1, 0, 1}
             /\ Coverage(v) = ImportCoverage(v)
  <2>1. Scanned(depth) \in SUBSET Signals
    BY ScannedSignals
  <2> QED
    BY <2>1, ImportAgrees
<1> QED
  BY <1>1 DEF AgreeingDepths

LEMMA EveryDepthNeutral == NeutralDepths = Depth
<1>1. ASSUME NEW depth \in Depth, NEW v \in [Scanned(depth) -> Verdict],
             NEW n \in DOMAIN v, v[n] = "unknown"
      PROVE  /\ Fit([v EXCEPT ![n] = "absent"]) <= Fit(v)
             /\ Fit([v EXCEPT ![n] = "confirmed"]) >= Fit(v)
  <2>1. Scanned(depth) \in SUBSET Signals /\ n \in Scanned(depth)
    BY ScannedSignals
  <2> QED
    BY <1>1, <2>1, UnknownNeutral
<1> QED
  BY <1>1 DEF NeutralDepths

LEMMA DepthType == \A j : DepthOf(j) \in Depth
BY DEF DepthOf, Depth

\* Whatever a scan is answered, the import's arithmetic gives the engine's fit, to the
\* rounding of the categories' fits, and exactly its coverage.
THEOREM ScoresAlwaysAgree == Spec => []ScoresAgree
<1>1. ScoresAgree
  BY EveryDepthAgrees, DepthType DEF ScoresAgree
<1> QED
  BY <1>1, PTL

\* Whatever a scan is answered, no signal it could not resolve adds to the fit.
THEOREM UnknownAlwaysNeutral == Spec => []UnknownIsNeutral
<1>1. UnknownIsNeutral
  BY EveryDepthNeutral, DepthType DEF UnknownIsNeutral
<1> QED
  BY <1>1, PTL

===============================================================================
