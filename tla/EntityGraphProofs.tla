-------------------------- MODULE EntityGraphProofs --------------------------
(***************************************************************************)
(* Proofs about the entity graph, for any number of workers, names and     *)
(* findings: its types, the exact source_count, the meaning of             *)
(* finding_count, the bound on research within a cooldown, that a skipped  *)
(* research never leaves an entity without its scoring job, and that the   *)
(* graph implements EntityLedger.                                          *)
(***************************************************************************)
EXTENDS EntityGraphRefinement, FiniteSetTheorems, TLAPS

LEMMA Jobs ==
  /\ \A b \in Batch : Extractor(b) \in Job
  /\ \A m \in Mention : Researcher(m) \in Job /\ Scorer(m) \in Job
  BY DEF Job

LEMMA Mentions ==
  /\ \A m \in Mention : m[1] \in Finding /\ m[2] \in Entity /\ m = <<m[1], m[2]>>
  /\ \A f \in Finding, e \in Entity : <<f, e>> \in Mention
  BY DEF Mention

\* A set of sources of findings is finite.
LEMMA SourcesFinite ==
  ASSUME NEW S, S \subseteq Source
  PROVE  IsFiniteSet(S) /\ Cardinality(S) \in Nat
  BY GraphAssumption, FS_Subset, FS_CardinalityType

LEMMA VisibleType ==
  ASSUME TypeOK, NEW w \in Worker, NEW e \in Entity
  PROVE  Visible(w, e) \subseteq Source
  BY GraphAssumption, Mentions DEF Visible, TypeOK

LEMMA HeuristicType ==
  ASSUME NEW f \in Finding
  PROVE  HeuristicEntities(f) \in Seq(Entity)
<1>1. Hints[f] \in Seq(Name) /\ Guess \in [Name -> Type] BY GraphAssumption
<1>2. DOMAIN Hints[f] = 1 .. Len(Hints[f]) /\ Len(Hints[f]) \in Nat BY <1>1
<1>3. \A i \in DOMAIN Hints[f] : <<Guess[Hints[f][i]], Hints[f][i]>> \in Entity
  BY <1>1, <1>2 DEF Entity
<1>4. HeuristicEntities(f) \in [1 .. Len(Hints[f]) -> Entity]
  BY <1>2, <1>3 DEF HeuristicEntities
<1> QED BY <1>2, <1>4

LEMMA ExtractionType ==
  ASSUME NEW w \in Worker, NEW f \in Finding, NEW r \in Extractions(w, f)
  PROVE  r \in Seq(Entity)
  BY HeuristicType, GraphAssumption DEF Extractions

-----------------------------------------------------------------------------
(* Types, and where a worker is *)

\* The job a worker is in is of the kind its step belongs to.
StageInv ==
    \A w \in Worker :
        /\ pc[w] = "idle" => cur[w] = NoJob
        /\ pc[w] \in {"finding", "entity", "looked"} => \E b \in Batch : cur[w] = Extractor(b)
        /\ pc[w] \in {"entity", "looked"} => raw[w] # <<>>
        /\ pc[w] = "asked" => \E m \in Mention : cur[w] = Researcher(m)
        /\ pc[w] = "judging" => \E m \in Mention : cur[w] = Scorer(m)
        /\ \A e \in Entity : draft[w][e] # Absent => tally[w][e] # Absent

TInv == TypeOK /\ StageInv

LEMMA TypeInit == Init => TInv
  BY DEF Init, TInv, TypeOK, StageInv, JobStatus, Pc, Nothing, NoJob, Absent, Mention

LEMMA DiscardType ==
  ASSUME TInv, NEW w \in Worker, Discard(w)
  PROVE  /\ cur' \in [Worker -> Job \cup {NoJob}] /\ pc' \in [Worker -> Pc]
         /\ todo' \in [Worker -> SUBSET Finding] /\ raw' \in [Worker -> Seq(Entity)]
         /\ read' \in [Worker -> Nat \cup {Absent}]
         /\ draft' \in [Worker -> [Entity -> Nat \cup {Absent}]]
         /\ tally' \in [Worker -> [Entity -> Nat \cup {Absent}]]
         /\ own' \in [Worker -> SUBSET Mention]
         /\ StageInv'
<1> Nothing \in [Entity -> Nat \cup {Absent}] BY DEF Nothing
<1>1. StageInv' BY DEF TInv, TypeOK, StageInv, Discard, Pc
<1> QED BY <1>1 DEF TInv, TypeOK, Discard, Pc

LEMMA VerdictType ==
  ASSUME NEW n
  PROVE  Verdict(n) \in JobStatus /\ Verdict(n) # "none" /\ Verdict(n) # "completed"
  BY DEF Verdict, JobStatus

LEMMA IncrementType ==
  ASSUME NEW g \in [Job -> Nat], NEW j
  PROVE  [g EXCEPT ![j] = @ + 1] \in [Job -> Nat]
<1>1. CASE j \in Job
  <2>1. g[j] + 1 \in Nat BY <1>1
  <2> QED BY <2>1
<1>2. CASE j \notin Job BY <1>2
<1> QED BY <1>1, <1>2

LEMMA RollbackType ==
  ASSUME TInv, NEW w \in Worker, Rollback(w)
  PROVE  /\ status' \in [Job -> JobStatus] /\ tries' \in [Job -> Nat]
         /\ UNCHANGED graphVars
<1>1. Verdict(tries[cur[w]] + 1) \in JobStatus BY VerdictType
<1>2. /\ tries' = [tries EXCEPT ![cur[w]] = @ + 1]
      /\ status' = [status EXCEPT ![cur[w]] = Verdict(tries[cur[w]] + 1)]
      /\ UNCHANGED graphVars
  BY DEF Rollback
<1>3. status \in [Job -> JobStatus] /\ tries \in [Job -> Nat] BY DEF TInv, TypeOK
<1>4. tries' \in [Job -> Nat] BY <1>2, <1>3, IncrementType
<1>5. status' \in [Job -> JobStatus] BY <1>1, <1>2, <1>3
<1> QED BY <1>2, <1>4, <1>5

LEMMA TypeNext == TInv /\ [Next]_vars => TInv'
<1> SUFFICES ASSUME TInv, [Next]_vars PROVE TInv' OBVIOUS
<1> USE DEF TInv
<1>1. ASSUME NEW b \in Batch, FindingsArrive(b) PROVE TInv'
  BY <1>1, Jobs DEF FindingsArrive, TypeOK, StageInv, JobStatus, graphVars, workVars
<1>2. ASSUME NEW e \in Entity, ResearchAges(e) PROVE TInv'
  <2>1. recent[e] \in Nat /\ recent[e] - 1 \in Nat BY <1>2 DEF ResearchAges, TypeOK
  <2> QED BY <1>2, <2>1 DEF ResearchAges, TypeOK, StageInv, jobVars, workVars
<1>3. ASSUME NEW w \in Worker, NEW b \in Batch, StartExtractor(w, b) PROVE TInv'
  <2>1. b \subseteq Finding /\ Extractor(b) \in Job BY GraphAssumption, Jobs
  <2>2. TypeOK'
    BY <1>3, <2>1 DEF StartExtractor, Begin, TypeOK, JobStatus, Pc, graphVars
  <2>3. StageInv'
    BY <1>3, <2>1 DEF StartExtractor, Begin, TypeOK, StageInv, Pc, graphVars
  <2> QED BY <2>2, <2>3
<1>4. ASSUME NEW w \in Worker, NEW m \in Mention, StartResearch(w, m) PROVE TInv'
  <2>1. Researcher(m) \in Job BY Jobs
  <2>2. TypeOK'
    BY <1>4, <2>1 DEF StartResearch, Begin, TypeOK, JobStatus, Pc, graphVars, workVars
  <2>3. StageInv'
    BY <1>4, <2>1 DEF StartResearch, Begin, TypeOK, StageInv, Pc, graphVars, workVars
  <2> QED BY <2>2, <2>3
<1>5. ASSUME NEW w \in Worker, NEW m \in Mention, SkipResearch(w, m) PROVE TInv'
  BY <1>5, Jobs DEF SkipResearch, TypeOK, StageInv, JobStatus, graphVars, workVars
<1>6. ASSUME NEW w \in Worker, NEW m \in Mention, StartScorer(w, m) PROVE TInv'
  <2>1. Scorer(m) \in Job BY Jobs
  <2>2. TypeOK'
    BY <1>6, <2>1 DEF StartScorer, Begin, TypeOK, JobStatus, Pc, graphVars
  <2>3. StageInv'
    BY <1>6, <2>1 DEF StartScorer, Begin, TypeOK, StageInv, Pc, graphVars
  <2> QED BY <2>2, <2>3
<1>7. ASSUME NEW w \in Worker, Extract(w) PROVE TInv'
  <2>1. PICK f \in todo[w] : \E r \in Extractions(w, f) :
           \/ /\ r = <<>>
              /\ todo' = [todo EXCEPT ![w] = @ \ {f}]
              /\ UNCHANGED <<raw, pc>>
           \/ /\ r # <<>>
              /\ raw' = [raw EXCEPT ![w] = r]
              /\ pc' = [pc EXCEPT ![w] = "entity"]
              /\ UNCHANGED todo
    BY <1>7 DEF Extract
  <2>2. f \in Finding BY DEF TypeOK
  <2>3. PICK r \in Extractions(w, f) :
           \/ /\ r = <<>>
              /\ todo' = [todo EXCEPT ![w] = @ \ {f}]
              /\ UNCHANGED <<raw, pc>>
           \/ /\ r # <<>>
              /\ raw' = [raw EXCEPT ![w] = r]
              /\ pc' = [pc EXCEPT ![w] = "entity"]
              /\ UNCHANGED todo
    BY <2>1
  <2>4. r \in Seq(Entity) BY <2>2, ExtractionType
  <2>5. UNCHANGED <<graphVars, jobVars, cur, read, draft, tally, own, faults>> /\ pc[w] = "finding"
    BY <1>7 DEF Extract
  <2>6. TypeOK' BY <2>3, <2>4, <2>5 DEF TypeOK, Pc, graphVars, jobVars
  <2>7. StageInv' BY <2>3, <2>4, <2>5 DEF TypeOK, StageInv, Pc
  <2> QED BY <2>6, <2>7
<1>8. ASSUME NEW w \in Worker, LookUp(w) PROVE TInv'
  <2>1. raw[w] # <<>> /\ raw[w] \in Seq(Entity) BY <1>8 DEF LookUp, StageInv, TypeOK
  <2>2. Head(raw[w]) \in Entity BY <2>1
  <2>3. TypeOK' BY <1>8, <2>2 DEF LookUp, TypeOK, Pc, graphVars, jobVars
  <2>4. StageInv' BY <1>8 DEF LookUp, TypeOK, StageInv, Pc
  <2> QED BY <2>3, <2>4
<1>9. ASSUME NEW w \in Worker, Touch(w) PROVE TInv'
  <2> DEFINE e == Head(raw[w])
             rest == Tail(raw[w])
  <2>1. raw[w] # <<>> /\ raw[w] \in Seq(Entity) BY <1>9 DEF Touch, StageInv, TypeOK
  <2>2. e \in Entity /\ rest \in Seq(Entity) BY <2>1
  <2>3. PICK f \in todo[w] :
           /\ own' = [own EXCEPT ![w] = @ \cup ({<<f, e>>} \ mentions)]
           /\ tally' = [tally EXCEPT ![w][e] = Cardinality({SourceOf[f]} \cup Visible(w, e))]
           /\ todo' = [todo EXCEPT ![w] = IF rest = <<>> THEN @ \ {f} ELSE @]
    BY <1>9 DEF Touch
  <2>4. f \in Finding /\ <<f, e>> \in Mention /\ SourceOf[f] \in Source
    BY <2>2, GraphAssumption, Mentions DEF TypeOK
  <2>5. Cardinality({SourceOf[f]} \cup Visible(w, e)) \in Nat
    BY <2>2, <2>4, VisibleType, SourcesFinite
  <2>6. CountAfter(read[w]) \in Nat BY DEF CountAfter, TypeOK, Absent
  <2>7. /\ draft' = [draft EXCEPT ![w][e] = CountAfter(read[w])]
        /\ raw' = [raw EXCEPT ![w] = rest]
        /\ pc' = [pc EXCEPT ![w] = IF rest = <<>> THEN "finding" ELSE "entity"]
        /\ read' = [read EXCEPT ![w] = Absent]
        /\ UNCHANGED <<graphVars, jobVars, cur, faults>> /\ pc[w] = "looked"
    BY <1>9 DEF Touch
  <2> HIDE DEF e, rest
  <2>8. TypeOK'
    <3>1. own' \in [Worker -> SUBSET Mention] BY <2>3, <2>4 DEF TypeOK
    <3>2. tally' \in [Worker -> [Entity -> Nat \cup {Absent}]] BY <2>2, <2>3, <2>5 DEF TypeOK
    <3>3. draft' \in [Worker -> [Entity -> Nat \cup {Absent}]] BY <2>2, <2>6, <2>7 DEF TypeOK
    <3>4. todo' \in [Worker -> SUBSET Finding] BY <2>3 DEF TypeOK
    <3> QED BY <2>2, <2>7, <3>1, <3>2, <3>3, <3>4 DEF TypeOK, Pc, graphVars, jobVars
  <2>9. StageInv'
    <3>1. \A v \in Worker, x \in Entity : draft'[v][x] # Absent => tally'[v][x] # Absent
      <4> SUFFICES ASSUME NEW v \in Worker, NEW x \in Entity, draft'[v][x] # Absent
                   PROVE  tally'[v][x] # Absent
        OBVIOUS
      <4>1. CASE v = w /\ x = e
        BY <2>2, <2>3, <2>5, <4>1 DEF TypeOK, Absent
      <4>2. CASE ~(v = w /\ x = e)
        <5>1. draft'[v][x] = draft[v][x] /\ tally'[v][x] = tally[v][x]
          BY <2>2, <2>3, <2>7, <4>2 DEF TypeOK
        <5> QED BY <5>1 DEF StageInv
      <4> QED BY <4>1, <4>2
    <3>2. \A v \in Worker : pc'[v] \in {"entity", "looked"} => raw'[v] # <<>>
      BY <2>7 DEF TypeOK, StageInv
    <3> QED BY <2>7, <3>1, <3>2 DEF TypeOK, StageInv, Pc
  <2> QED BY <2>8, <2>9
<1>10. ASSUME NEW w \in Worker, Rollback(w), faults' \in Nat PROVE TInv'
  <2>1. Discard(w) BY <1>10 DEF Rollback
  <2> QED BY <1>10, <2>1, DiscardType, RollbackType DEF TypeOK, graphVars
<1>11. ASSUME NEW w \in Worker, CycleDies(w) PROVE TInv'
  <2>1. Discard(w) /\ faults' \in Nat BY <1>11 DEF CycleDies, TypeOK
  <2>2. tries' \in [Job -> Nat] /\ status' \in [Job -> JobStatus]
    <3>1. tries \in [Job -> Nat] /\ status \in [Job -> JobStatus] /\ "pending" \in JobStatus
      BY DEF TypeOK, JobStatus
    <3>2. tries' = [tries EXCEPT ![cur[w]] = @ + 1] /\ status' = [status EXCEPT ![cur[w]] = "pending"]
      BY <1>11 DEF CycleDies
    <3>3. tries' \in [Job -> Nat] BY <3>1, <3>2, IncrementType
    <3>4. status' \in [Job -> JobStatus] BY <3>1, <3>2
    <3> QED BY <3>3, <3>4
  <2> QED BY <1>11, <2>1, <2>2, DiscardType DEF CycleDies, TypeOK, graphVars
<1>12. ASSUME NEW w \in Worker, CommitExtraction(w) PROVE TInv'
  <2>1. Discard(w) BY <1>12 DEF CommitExtraction
  <2>2. count' \in [Entity -> Nat \cup {Absent}]
    BY <1>12 DEF CommitExtraction, TypeOK
  <2>3. sources' \in [Entity -> Nat]
    BY <1>12 DEF CommitExtraction, TypeOK, StageInv
  <2>4. mentions' \subseteq Mention BY <1>12 DEF CommitExtraction, TypeOK
  <2>5. status' \in [Job -> JobStatus]
    <3>1. Announced(own[w]) \in [Job -> JobStatus] BY DEF Announced, TypeOK, JobStatus
    <3> QED BY <1>12, <3>1 DEF CommitExtraction, JobStatus
  <2> QED BY <1>12, <2>1, <2>2, <2>3, <2>4, <2>5, DiscardType DEF CommitExtraction, TypeOK
<1>13. ASSUME NEW w \in Worker, CommitResearch(w) PROVE TInv'
  <2>1. Discard(w) BY <1>13 DEF CommitResearch
  <2>2. PICK m \in Mention : cur[w] = Researcher(m)
    BY <1>13 DEF CommitResearch, StageInv
  <2>3. cur[w][2] = m /\ m[1] \in Finding /\ m[2] \in Entity /\ SourceOf[m[1]] \in Source
    BY <2>2, Mentions, GraphAssumption DEF Researcher
  <2>4. recent' \in [Entity -> Nat] BY <1>13, <2>3 DEF CommitResearch, TypeOK
  <2>5. expansions' \subseteq Entity \X Source BY <1>13, <2>3 DEF CommitResearch, TypeOK
  <2>6. status' \in [Job -> JobStatus] BY <1>13 DEF CommitResearch, TypeOK, JobStatus
  <2> QED BY <1>13, <2>1, <2>4, <2>5, <2>6, DiscardType DEF CommitResearch, TypeOK
<1>14. ASSUME NEW w \in Worker, CommitScore(w) PROVE TInv'
  <2>1. Discard(w) BY <1>14 DEF CommitScore
  <2>2. PICK m \in Mention : cur[w] = Scorer(m)
    BY <1>14 DEF CommitScore, StageInv
  <2>3. cur[w][2] = m /\ m[2] \in Entity BY <2>2, Mentions DEF Scorer
  <2>4. status' \in [Job -> JobStatus] BY <1>14 DEF CommitScore, TypeOK, JobStatus
  <2>5. scored' \subseteq Entity BY <1>14, <2>3 DEF CommitScore, TypeOK
  <2> QED BY <1>14, <2>1, <2>4, <2>5, DiscardType DEF CommitScore, TypeOK
<1>15. CASE UNCHANGED vars
  BY <1>15 DEF vars, graphVars, jobVars, workVars, TypeOK, StageInv
<1>16. ASSUME NEW w \in Worker, HandlerRaises(w) PROVE TInv'
  <2>1. Rollback(w) /\ faults' \in Nat BY <1>16 DEF HandlerRaises, TypeOK
  <2> QED BY <2>1, <1>10
<1>17. ASSUME NEW w \in Worker, TouchConflicts(w) \/ DeadlockAborts(w) \/ ScoreConflicts(w)
       PROVE TInv'
  <2>1. Rollback(w) /\ faults' \in Nat
    BY <1>17 DEF TouchConflicts, DeadlockAborts, ScoreConflicts, TypeOK
  <2> QED BY <2>1, <1>10
<1> QED BY <1>1, <1>2, <1>3, <1>4, <1>5, <1>6, <1>7, <1>8, <1>9, <1>11, <1>12, <1>13, <1>14,
           <1>15, <1>16, <1>17 DEF Next, Start, Work, NothingPending

\* The graph is well typed in every reachable state, for every choice of workers,
\* findings, names and answers of the LLM.
THEOREM TypeCorrect == Spec => []TypeOK
<1>1. Init => TInv BY TypeInit
<1>2. TInv /\ [Next]_vars => TInv' BY TypeNext
<1>3. TInv => TypeOK BY DEF TInv
<1> QED BY <1>1, <1>2, <1>3, PTL DEF Spec

-----------------------------------------------------------------------------
(* Counters *)

CountInv == TInv /\ HoldInv /\ SourceCountExact /\ MentionedIsCounted

LEMMA CountInit == Init => CountInv
<1> SUFFICES ASSUME Init PROVE CountInv OBVIOUS
<1>1. TInv BY TypeInit
<1>2. HoldInv BY DEF Init, HoldInv, Nothing
<1>3. SourceCountExact
  <2>1. Cardinality({}) = 0 BY FS_EmptySet
  <2>2. \A e \in Entity : {SourceOf[m[1]] : m \in {n \in mentions : n[2] = e}} = {}
    BY DEF Init
  <2> QED BY <2>1, <2>2 DEF Init, SourceCountExact
<1>4. MentionedIsCounted BY DEF Init, MentionedIsCounted, Nothing, Absent
<1> QED BY <1>1, <1>2, <1>3, <1>4 DEF CountInv

\* Steps that touch neither the rows nor what jobs hold of them.
LEMMA CountQuiet ==
  ASSUME CountInv, TInv', UNCHANGED <<count, sources, mentions, own, draft, tally>>
  PROVE  CountInv'
  BY DEF CountInv, HoldInv, SourceCountExact, MentionedIsCounted, Visible

\* A rolled back or committed session holds nothing any more.
LEMMA CountDiscard ==
  ASSUME CountInv, TInv', NEW w \in Worker, Discard(w),
         UNCHANGED <<count, sources, mentions>>
  PROVE  CountInv'
<1>1. \A e \in Entity : Nothing[e] = Absent BY DEF Nothing
<1>2. \A v \in Worker : v # w => draft'[v] = draft[v] /\ tally'[v] = tally[v] /\ own'[v] = own[v]
  BY DEF Discard, CountInv, TInv, TypeOK
<1>3. own'[w] = {} /\ \A e \in Entity : draft'[w][e] = Absent
  BY <1>1 DEF Discard, CountInv, TInv, TypeOK
<1>4. HoldInv'
  BY <1>2, <1>3 DEF CountInv, HoldInv, Visible
<1> QED BY <1>4 DEF CountInv, SourceCountExact, MentionedIsCounted

LEMMA CountTouch ==
  ASSUME CountInv, TInv', NEW w \in Worker, Touch(w)
  PROVE  CountInv'
<1>1. raw[w] # <<>> /\ raw[w] \in Seq(Entity)
  BY DEF Touch, CountInv, TInv, StageInv, TypeOK
<1>2. PICK e \in Entity : e = Head(raw[w]) BY <1>1
<1>3. PICK f \in todo[w] :
         /\ own' = [own EXCEPT ![w] = @ \cup ({<<f, e>>} \ mentions)]
         /\ tally' = [tally EXCEPT ![w][e] = Cardinality({SourceOf[f]} \cup Visible(w, e))]
  BY <1>2 DEF Touch
<1>4. /\ draft' = [draft EXCEPT ![w][e] = CountAfter(read[w])]
      /\ UNCHANGED <<count, sources, mentions>>
      /\ \A v \in Worker \ {w} : draft[v][e] = Absent
  BY <1>2 DEF Touch, Free, graphVars
<1>5. CountAfter(read[w]) > 0 BY DEF CountAfter, CountInv, TInv, TypeOK, Absent
<1>6. f \in Finding /\ <<f, e>> \in Mention BY <1>2, Mentions DEF CountInv, TInv, TypeOK
<1>7. \A v \in Worker : v # w => draft'[v] = draft[v] /\ tally'[v] = tally[v] /\ own'[v] = own[v]
  BY <1>3, <1>4 DEF CountInv, TInv, TypeOK
<1>8. /\ draft'[w][e] = CountAfter(read[w])
      /\ tally'[w][e] = Cardinality({SourceOf[f]} \cup Visible(w, e))
      /\ own'[w] = own[w] \cup ({<<f, e>>} \ mentions)
      /\ \A x \in Entity : x # e => draft'[w][x] = draft[w][x] /\ tally'[w][x] = tally[w][x]
  BY <1>2, <1>3, <1>4 DEF CountInv, TInv, TypeOK
<1>9. Visible(w, e)' = {SourceOf[f]} \cup Visible(w, e)
  <2>1. mentions' \cup own'[w] = (mentions \cup own[w]) \cup {<<f, e>>} BY <1>4, <1>8
  <2>2. {n \in mentions' \cup own'[w] : n[2] = e}
          = {n \in mentions \cup own[w] : n[2] = e} \cup {<<f, e>>}
    BY <2>1
  <2> DEFINE old == {n \in mentions \cup own[w] : n[2] = e}
  <2>3. Visible(w, e) = {SourceOf[m[1]] : m \in old} BY DEF Visible
  <2>4. Visible(w, e)' = {SourceOf[m[1]] : m \in old \cup {<<f, e>>}} BY <2>2 DEF Visible
  <2> HIDE DEF old
  <2>5. {SourceOf[m[1]] : m \in old \cup {<<f, e>>}}
          = {SourceOf[m[1]] : m \in old} \cup {SourceOf[<<f, e>>[1]]}
    OBVIOUS
  <2>6. <<f, e>>[1] = f OBVIOUS
  <2> QED BY <2>3, <2>4, <2>5, <2>6
<1>10. \A x \in Entity : x # e => Visible(w, x)' = Visible(w, x)
  <2> SUFFICES ASSUME NEW x \in Entity, x # e PROVE Visible(w, x)' = Visible(w, x)
    OBVIOUS
  <2>1. mentions' \cup own'[w] = (mentions \cup own[w]) \cup {<<f, e>>} BY <1>4, <1>8
  <2>2. <<f, e>>[2] = e OBVIOUS
  <2>3. {n \in mentions' \cup own'[w] : n[2] = x} = {n \in mentions \cup own[w] : n[2] = x}
    BY <2>1, <2>2
  <2> QED BY <2>3 DEF Visible
<1>11. \A v \in Worker, x \in Entity : v # w => Visible(v, x)' = Visible(v, x)
  BY <1>4, <1>7 DEF Visible
<1>12. HoldInv'
  <2>1. \A u, v \in Worker, x \in Entity :
           u # v => draft'[u][x] = Absent \/ draft'[v][x] = Absent
    BY <1>4, <1>7, <1>8 DEF CountInv, HoldInv
  <2>2. \A v \in Worker : \A m \in own'[v] : draft'[v][m[2]] # Absent
    <3> SUFFICES ASSUME NEW v \in Worker, NEW m \in own'[v] PROVE draft'[v][m[2]] # Absent
      OBVIOUS
    <3>1. CASE v # w BY <3>1, <1>7 DEF CountInv, HoldInv
    <3>2. CASE v = w /\ m = <<f, e>> BY <3>2, <1>5, <1>8 DEF Absent
    <3>3. CASE v = w /\ m \in own[w]
      <4>1. m[2] \in Entity /\ draft[w][m[2]] # Absent
        BY <3>3, Mentions DEF CountInv, HoldInv, TInv, TypeOK
      <4> QED BY <4>1, <3>3, <1>5, <1>8 DEF Absent
    <3> QED BY <3>1, <3>2, <3>3, <1>8
  <2>3. ASSUME NEW v \in Worker, NEW x \in Entity, draft'[v][x] # Absent
        PROVE  /\ draft'[v][x] > 0
               /\ tally'[v][x] = Cardinality(Visible(v, x)')
               /\ \E g \in Finding : <<g, x>> \in mentions' \cup own'[v]
    <3>1. CASE v # w BY <2>3, <3>1, <1>4, <1>7, <1>11 DEF CountInv, HoldInv
    <3>2. CASE v = w /\ x = e
      <4>1. Visible(v, x)' = {SourceOf[f]} \cup Visible(w, e) BY <3>2, <1>9 DEF Visible
      <4>2. <<f, x>> \in mentions' \cup own'[v] BY <3>2, <1>4, <1>8
      <4> QED BY <3>2, <4>1, <4>2, <1>5, <1>6, <1>8
    <3>3. CASE v = w /\ x # e
      <4>1. draft[w][x] # Absent BY <2>3, <3>3, <1>8
      <4>2. PICK g \in Finding : <<g, x>> \in mentions \cup own[w]
        BY <4>1 DEF CountInv, HoldInv
      <4>3. draft[w][x] > 0 /\ tally[w][x] = Cardinality(Visible(w, x))
        BY <4>1 DEF CountInv, HoldInv
      <4>4. draft'[w][x] = draft[w][x] /\ tally'[w][x] = tally[w][x] BY <3>3, <1>8
      <4>5. Visible(w, x)' = Visible(w, x) BY <3>3, <1>10
      <4>6. <<g, x>> \in mentions' \cup own'[w] BY <4>2, <1>4, <1>8
      <4> QED BY <3>3, <4>3, <4>4, <4>5, <4>6
    <3> QED BY <3>1, <3>2, <3>3
  <2> QED BY <2>1, <2>2, <2>3 DEF HoldInv
<1> QED BY <1>4, <1>12 DEF CountInv, SourceCountExact, MentionedIsCounted

LEMMA CountCommit ==
  ASSUME CountInv, TInv', NEW w \in Worker, CommitExtraction(w)
  PROVE  CountInv'
<1>1. /\ count' = [x \in Entity |-> IF draft[w][x] # Absent THEN draft[w][x] ELSE count[x]]
      /\ sources' = [x \in Entity |-> IF draft[w][x] # Absent THEN tally[w][x] ELSE sources[x]]
      /\ mentions' = mentions \cup own[w]
      /\ Discard(w)
  BY DEF CommitExtraction
<1>2. \A v \in Worker : v # w => draft'[v] = draft[v] /\ tally'[v] = tally[v] /\ own'[v] = own[v]
  BY <1>1 DEF Discard, CountInv, TInv, TypeOK
<1>3. own'[w] = {} /\ \A x \in Entity : draft'[w][x] = Absent
  BY <1>1 DEF Discard, CountInv, TInv, TypeOK, Nothing
<1>4. \A x \in Entity : draft[w][x] = Absent => \A m \in own[w] : m[2] # x
  BY DEF CountInv, HoldInv
<1>5. ASSUME NEW x \in Entity, draft[w][x] = Absent
      PROVE  /\ {n \in mentions' : n[2] = x} = {n \in mentions : n[2] = x}
             /\ \A v \in Worker : v # w => Visible(v, x)' = Visible(v, x)
  <2>1. {n \in mentions' : n[2] = x} = {n \in mentions : n[2] = x} BY <1>1, <1>4, <1>5
  <2>2. ASSUME NEW v \in Worker, v # w PROVE Visible(v, x)' = Visible(v, x)
    <3>1. {n \in mentions' \cup own'[v] : n[2] = x} = {n \in mentions \cup own[v] : n[2] = x}
      BY <1>1, <1>2, <1>4, <1>5, <2>2
    <3> QED BY <3>1 DEF Visible
  <2> QED BY <2>1, <2>2
<1>6. HoldInv'
  <2>1. ASSUME NEW v \in Worker, NEW x \in Entity, draft'[v][x] # Absent
        PROVE  /\ draft'[v][x] > 0
               /\ tally'[v][x] = Cardinality(Visible(v, x)')
               /\ \E g \in Finding : <<g, x>> \in mentions' \cup own'[v]
    <3>1. v # w BY <2>1, <1>3
    <3>2. draft[v][x] # Absent BY <2>1, <3>1, <1>2
    <3>3. draft[w][x] = Absent BY <3>1, <3>2 DEF CountInv, HoldInv
    <3>4. Visible(v, x)' = Visible(v, x) BY <3>1, <3>3, <1>5
    <3>5. PICK g \in Finding : <<g, x>> \in mentions \cup own[v]
      BY <3>2 DEF CountInv, HoldInv
    <3>6. <<g, x>> \in mentions' \cup own'[v] BY <3>1, <3>5, <1>1, <1>2
    <3> QED BY <3>1, <3>2, <3>4, <3>6, <1>2 DEF CountInv, HoldInv
  <2>2. \A v \in Worker : \A m \in own'[v] : draft'[v][m[2]] # Absent
    BY <1>2, <1>3 DEF CountInv, HoldInv
  <2>3. \A u, v \in Worker, x \in Entity :
           u # v => draft'[u][x] = Absent \/ draft'[v][x] = Absent
    BY <1>2, <1>3 DEF CountInv, HoldInv
  <2> QED BY <2>1, <2>2, <2>3 DEF HoldInv
<1>7. SourceCountExact'
  <2> SUFFICES ASSUME NEW x \in Entity
               PROVE  sources'[x] = Cardinality({SourceOf[m[1]] : m \in {n \in mentions' : n[2] = x}})
    BY DEF SourceCountExact
  <2>1. CASE draft[w][x] # Absent BY <2>1, <1>1 DEF CountInv, HoldInv, Visible
  <2>2. CASE draft[w][x] = Absent
    <3>1. sources'[x] = sources[x] BY <2>2, <1>1
    <3> QED BY <2>2, <3>1, <1>5 DEF CountInv, SourceCountExact
  <2> QED BY <2>1, <2>2
<1>8. MentionedIsCounted'
  <2> SUFFICES ASSUME NEW x \in Entity
               PROVE  (\E f \in Finding : <<f, x>> \in mentions') <=> count'[x] > 0
    BY DEF MentionedIsCounted
  <2>1. CASE draft[w][x] # Absent BY <2>1, <1>1 DEF CountInv, HoldInv
  <2>2. CASE draft[w][x] = Absent
    <3>1. \A f \in Finding : <<f, x>> \in mentions' <=> <<f, x>> \in mentions
      BY <2>2, <1>1, <1>4
    <3> QED BY <2>2, <3>1, <1>1 DEF CountInv, MentionedIsCounted
  <2> QED BY <2>1, <2>2
<1> QED BY <1>6, <1>7, <1>8 DEF CountInv

LEMMA CountNext == CountInv /\ [Next]_vars => CountInv'
<1> SUFFICES ASSUME CountInv, [Next]_vars PROVE CountInv' OBVIOUS
<1>1. TInv' BY TypeNext DEF CountInv
<1>2. CASE UNCHANGED vars
  BY <1>1, <1>2, CountQuiet DEF vars, graphVars, workVars
<1>3. ASSUME NEW b \in Batch, FindingsArrive(b) PROVE CountInv'
  BY <1>1, <1>3, CountQuiet DEF FindingsArrive, graphVars, workVars
<1>4. ASSUME NEW e \in Entity, ResearchAges(e) PROVE CountInv'
  BY <1>1, <1>4, CountQuiet DEF ResearchAges, workVars
<1>5. ASSUME NEW w \in Worker, Start(w) PROVE CountInv'
  BY <1>1, <1>5, CountQuiet DEF Start, StartExtractor, StartResearch, SkipResearch,
     StartScorer, graphVars, workVars
<1>6. ASSUME NEW w \in Worker, Extract(w) \/ LookUp(w) PROVE CountInv'
  BY <1>1, <1>6, CountQuiet DEF Extract, LookUp, graphVars
<1>7. ASSUME NEW w \in Worker,
             \/ TouchConflicts(w) \/ DeadlockAborts(w) \/ ScoreConflicts(w)
             \/ HandlerRaises(w) \/ CycleDies(w)
      PROVE  CountInv'
  BY <1>1, <1>7, CountDiscard DEF TouchConflicts, DeadlockAborts, ScoreConflicts,
     HandlerRaises, CycleDies, Rollback, graphVars
<1>8. ASSUME NEW w \in Worker, CommitResearch(w) \/ CommitScore(w) PROVE CountInv'
  BY <1>1, <1>8, CountDiscard DEF CommitResearch, CommitScore
<1> QED BY <1>1, <1>2, <1>3, <1>4, <1>5, <1>6, <1>7, <1>8, CountTouch, CountCommit
        DEF Next, Work, NothingPending

\* However many extractions overlap, and whatever they keep in their sessions, the
\* committed source_count is the number of sources of the committed mentions.
THEOREM SourcesCounted == Spec => []SourceCountExact
<1>1. Init => CountInv BY CountInit
<1>2. CountInv /\ [Next]_vars => CountInv' BY CountNext
<1>3. CountInv => SourceCountExact BY DEF CountInv
<1> QED BY <1>1, <1>2, <1>3, PTL DEF Spec

\* finding_count may lose updates but is positive exactly for mentioned entities.
THEOREM MentionsCounted == Spec => []MentionedIsCounted
<1>1. Init => CountInv BY CountInit
<1>2. CountInv /\ [Next]_vars => CountInv' BY CountNext
<1>3. CountInv => MentionedIsCounted BY DEF CountInv
<1> QED BY <1>1, <1>2, <1>3, PTL DEF Spec

-----------------------------------------------------------------------------
(* Research *)

\* Jobs of different kinds, or about different mentions, differ.
LEMMA JobsDiffer ==
  /\ \A m, n \in Mention : Researcher(m) # Scorer(n) /\ (Researcher(m) = Researcher(n) => m = n)
  /\ \A b \in Batch, m \in Mention : Extractor(b) # Researcher(m) /\ Extractor(b) # Scorer(m)
  BY DEF Extractor, Researcher, Scorer

\* A job row is never deleted, and a research job is completed by research only.
LEMMA JobSteps ==
  ASSUME TInv, [Next]_vars
  PROVE  /\ \A j \in Job : status[j] # "none" => status'[j] # "none"
         /\ \A m \in Mention :
               \/ status'[Researcher(m)] = "completed" => status[Researcher(m)] = "completed"
               \/ \E w \in Worker : \/ SkipResearch(w, m)
                                    \/ CommitResearch(w) /\ cur[w] = Researcher(m)
<1> DEFINE Kept == \A j \in Job : status[j] # "none" => status'[j] # "none"
           Same == \A m \in Mention :
                      status'[Researcher(m)] = "completed" => status[Researcher(m)] = "completed"
<1>0. status \in [Job -> JobStatus] BY DEF TInv, TypeOK
<1>1. ASSUME NEW w \in Worker, NEW j \in Job, NEW p, Begin(w, j, p) PROVE Kept /\ Same
  BY <1>0, <1>1, Jobs DEF Begin
<1>2. ASSUME NEW w \in Worker, Rollback(w) PROVE Kept /\ Same
  BY <1>0, <1>2, Jobs, VerdictType DEF Rollback
<1>3. ASSUME NEW w \in Worker, CycleDies(w) PROVE Kept /\ Same
  BY <1>0, <1>3, Jobs DEF CycleDies
<1>4. ASSUME NEW w \in Worker, CommitExtraction(w) PROVE Kept /\ Same
  <2>1. PICK b \in Batch : cur[w] = Extractor(b)
    BY <1>4 DEF CommitExtraction, TInv, StageInv
  <2>2. /\ \A j \in Job : Announced(own[w])[j] \in {"pending", status[j]}
        /\ DOMAIN Announced(own[w]) = Job
    BY DEF Announced
  <2>3. status' = [Announced(own[w]) EXCEPT ![cur[w]] = "completed"]
    BY <1>4 DEF CommitExtraction
  <2>4. Kept BY <2>2, <2>3
  <2>5. Same BY <2>1, <2>2, <2>3, Jobs, JobsDiffer
  <2> QED BY <2>4, <2>5
<1>5. ASSUME NEW w \in Worker, CommitScore(w) PROVE Kept /\ Same
  <2>1. PICK m \in Mention : cur[w] = Scorer(m)
    BY <1>5 DEF CommitScore, TInv, StageInv
  <2> QED BY <1>0, <1>5, <2>1, Jobs, JobsDiffer DEF CommitScore
<1>6. ASSUME NEW w \in Worker, CommitResearch(w)
      PROVE  /\ Kept
             /\ \A m \in Mention : cur[w] # Researcher(m) =>
                   (status'[Researcher(m)] = "completed" => status[Researcher(m)] = "completed")
  BY <1>0, <1>6, Jobs DEF CommitResearch
<1>7. ASSUME NEW w \in Worker, NEW m \in Mention, SkipResearch(w, m)
      PROVE  /\ Kept
             /\ \A n \in Mention : n # m =>
                   (status'[Researcher(n)] = "completed" => status[Researcher(n)] = "completed")
  BY <1>0, <1>7, Jobs, JobsDiffer DEF SkipResearch
<1>8. ASSUME NEW b \in Batch, FindingsArrive(b) PROVE Kept /\ Same
  BY <1>0, <1>8, Jobs DEF FindingsArrive
<1>9. ASSUME NEW e \in Entity, ResearchAges(e) PROVE Kept /\ Same
  BY <1>9 DEF ResearchAges, jobVars
<1>10. ASSUME NEW w \in Worker, Extract(w) \/ LookUp(w) \/ Touch(w) PROVE Kept /\ Same
  BY <1>10 DEF Extract, LookUp, Touch, jobVars
<1>11. ASSUME UNCHANGED vars PROVE Kept /\ Same BY <1>11 DEF vars, jobVars
<1>12. ASSUME NEW w \in Worker, NEW b \in Batch, StartExtractor(w, b) PROVE Kept /\ Same
  BY <1>1, <1>12, Jobs DEF StartExtractor
<1>13. ASSUME NEW w \in Worker, NEW m \in Mention, StartResearch(w, m) \/ StartScorer(w, m)
       PROVE  Kept /\ Same
  BY <1>1, <1>13, Jobs DEF StartResearch, StartScorer
<1>14. ASSUME NEW w \in Worker,
              TouchConflicts(w) \/ DeadlockAborts(w) \/ ScoreConflicts(w) \/ HandlerRaises(w)
       PROVE  Kept /\ Same
  BY <1>2, <1>14 DEF TouchConflicts, DeadlockAborts, ScoreConflicts, HandlerRaises
<1> HIDE DEF Kept, Same
<1>15. Kept
  BY <1>3, <1>4, <1>5, <1>6, <1>7, <1>8, <1>9, <1>10, <1>11, <1>12, <1>13, <1>14
     DEF Next, Start, Work, NothingPending
<1>16. \A m \in Mention :
           \/ status'[Researcher(m)] = "completed" => status[Researcher(m)] = "completed"
           \/ \E w \in Worker : \/ SkipResearch(w, m)
                                \/ CommitResearch(w) /\ cur[w] = Researcher(m)
  BY <1>3, <1>4, <1>5, <1>6, <1>7, <1>8, <1>9, <1>10, <1>11, <1>12, <1>13, <1>14
     DEF Next, Start, Work, NothingPending, Same
<1> QED BY <1>15, <1>16 DEF Kept

\* recent[e] grows by the commit of a research of e and by nothing else.
LEMMA RecentSteps ==
  ASSUME TInv, [Next]_vars, NEW e \in Entity
  PROVE  \/ recent'[e] = recent[e]
         \/ recent[e] > 0 /\ recent'[e] = recent[e] - 1
         \/ \E w \in Worker : /\ CommitResearch(w) /\ cur[w][2][2] = e
                              /\ recent'[e] = recent[e] + 1
<1>1. recent \in [Entity -> Nat] BY DEF TInv, TypeOK
<1>2. ASSUME NEW x \in Entity, ResearchAges(x)
      PROVE  recent'[e] = recent[e] \/ (recent[e] > 0 /\ recent'[e] = recent[e] - 1)
  BY <1>1, <1>2 DEF ResearchAges
<1>3. ASSUME NEW w \in Worker, CommitResearch(w)
      PROVE  \/ recent'[e] = recent[e]
             \/ cur[w][2][2] = e /\ recent'[e] = recent[e] + 1
  BY <1>1, <1>3 DEF CommitResearch
<1>4. ASSUME NEW w \in Worker, Start(w) \/ Extract(w) \/ LookUp(w) \/ Touch(w)
      PROVE  recent' = recent
  BY <1>4 DEF Start, StartExtractor, StartResearch, SkipResearch, StartScorer, Extract,
     LookUp, Touch, graphVars
<1>5. ASSUME NEW w \in Worker,
             \/ TouchConflicts(w) \/ DeadlockAborts(w) \/ ScoreConflicts(w)
             \/ HandlerRaises(w) \/ CycleDies(w) \/ CommitExtraction(w) \/ CommitScore(w)
      PROVE  recent' = recent
  BY <1>5 DEF TouchConflicts, DeadlockAborts, ScoreConflicts, HandlerRaises, CycleDies,
     CommitExtraction, CommitScore, Rollback, graphVars
<1>6. ASSUME NEW b \in Batch, FindingsArrive(b) PROVE recent' = recent
  BY <1>6 DEF FindingsArrive, graphVars
<1>7. CASE UNCHANGED vars BY <1>7 DEF vars, graphVars
<1> QED BY <1>2, <1>3, <1>4, <1>5, <1>6, <1>7 DEF Next, Work, NothingPending

LEMMA CoolNext ==
  ASSUME TInv, CoolInv, [Next]_vars
  PROVE  CoolInv'
<1> SUFFICES ASSUME NEW e \in Entity,
                    recent'[e] > 0 \/ \E f \in Finding : status'[Researcher(<<f, e>>)] = "completed"
             PROVE  \E f \in Finding : status'[Scorer(<<f, e>>)] # "none"
  BY DEF CoolInv
<1>0. recent[e] \in Nat BY DEF TInv, TypeOK
<1>1. CASE \E f \in Finding : status[Scorer(<<f, e>>)] # "none"
  BY <1>1, Jobs, JobSteps, Mentions
<1>2. ASSUME NEW w \in Worker, CommitResearch(w), cur[w][2][2] = e
      PROVE  \E f \in Finding : status'[Scorer(<<f, e>>)] # "none"
  <2>1. PICK m \in Mention : cur[w] = Researcher(m)
    BY <1>2 DEF CommitResearch, TInv, StageInv
  <2>2. cur[w][2] = m /\ m[2] = e /\ m[1] \in Finding /\ m = <<m[1], e>>
    BY <1>2, <2>1, Mentions DEF Researcher
  <2>3. status'[Scorer(m)] = "pending"
    BY <1>2, <2>1, <2>2, Jobs, JobsDiffer DEF CommitResearch, ProfileReady
  <2> QED BY <2>2, <2>3
<1>3. ASSUME NEW w \in Worker, NEW m \in Mention, SkipResearch(w, m), m[2] = e
      PROVE  \E f \in Finding : status[Scorer(<<f, e>>)] # "none"
  BY <1>0, <1>3 DEF SkipResearch, Due, CoolInv
<1>4. CASE recent'[e] > 0 BY <1>0, <1>1, <1>2, <1>4, RecentSteps DEF CoolInv
<1>5. ASSUME NEW f \in Finding, status'[Researcher(<<f, e>>)] = "completed"
      PROVE  \E g \in Finding : status'[Scorer(<<g, e>>)] # "none"
  <2>1. <<f, e>> \in Mention /\ <<f, e>>[2] = e BY Mentions
  <2>2. CASE status[Researcher(<<f, e>>)] = "completed" BY <1>1, <2>2 DEF CoolInv
  <2>3. ASSUME NEW w \in Worker, SkipResearch(w, <<f, e>>)
        PROVE  \E g \in Finding : status'[Scorer(<<g, e>>)] # "none"
    BY <1>1, <1>3, <2>1, <2>3
  <2>4. ASSUME NEW w \in Worker, CommitResearch(w), cur[w] = Researcher(<<f, e>>)
        PROVE  \E g \in Finding : status'[Scorer(<<g, e>>)] # "none"
    BY <1>2, <2>4 DEF Researcher
  <2> QED BY <1>5, <2>1, <2>2, <2>3, <2>4, JobSteps
<1> QED BY <1>4, <1>5

\* Skipping a research inside the cooldown strands nobody: whenever a mention's
\* research is over, a scoring job of its entity exists.
THEOREM SkipsAreSafe == Spec => []SkippedIsScored
<1>1. Init => TInv /\ CoolInv
  <2>1. \A m \in Mention : status[Researcher(m)] = "none" => status[Researcher(m)] # "completed"
    OBVIOUS
  <2> QED BY TypeInit, Jobs, Mentions DEF Init, CoolInv
<1>2. TInv /\ CoolInv /\ [Next]_vars => TInv' /\ CoolInv' BY TypeNext, CoolNext
<1>3. TInv /\ CoolInv => SkippedIsScored
  <2> SUFFICES ASSUME TInv, CoolInv, NEW m \in mentions, status[Researcher(m)] = "completed"
               PROVE  \E f \in Finding : status[Scorer(<<f, m[2]>>)] # "none"
    BY DEF SkippedIsScored
  <2>1. m[1] \in Finding /\ m[2] \in Entity /\ m = <<m[1], m[2]>>
    BY Mentions DEF TInv, TypeOK
  <2> QED BY <2>1 DEF CoolInv
<1> QED BY <1>1, <1>2, <1>3, PTL DEF Spec

\* A research of e is taken up only by StartResearch, outside the cooldown.
LEMMA FlightSteps ==
  ASSUME TInv, [Next]_vars, NEW e \in Entity
  PROVE  recent[e] = 0 \/ InFlight(e)' \subseteq InFlight(e)
<1> SUFFICES ASSUME NEW v \in Worker, pc'[v] = "asked", cur'[v][2][2] = e, recent[e] # 0
             PROVE  pc[v] = "asked" /\ cur[v][2][2] = e
  BY DEF InFlight
<1> USE DEF TInv, TypeOK
<1>1. ASSUME NEW w \in Worker, Discard(w) PROVE pc[v] = "asked" /\ cur[v][2][2] = e
  BY <1>1 DEF Discard
<1>2. ASSUME NEW w \in Worker, NEW m \in Mention, StartResearch(w, m)
      PROVE  pc[v] = "asked" /\ cur[v][2][2] = e
  BY <1>2 DEF StartResearch, Begin, Due, Researcher
<1>3. ASSUME NEW w \in Worker, NEW b \in Batch, StartExtractor(w, b)
      PROVE  pc[v] = "asked" /\ cur[v][2][2] = e
  BY <1>3 DEF StartExtractor, Begin
<1>4. ASSUME NEW w \in Worker, NEW m \in Mention, StartScorer(w, m) \/ SkipResearch(w, m)
      PROVE  pc[v] = "asked" /\ cur[v][2][2] = e
  BY <1>4 DEF StartScorer, SkipResearch, Begin
<1>5. ASSUME NEW w \in Worker, Extract(w) \/ LookUp(w) \/ Touch(w)
      PROVE  pc[v] = "asked" /\ cur[v][2][2] = e
  BY <1>5 DEF Extract, LookUp, Touch
<1>6. ASSUME NEW w \in Worker,
             \/ TouchConflicts(w) \/ DeadlockAborts(w) \/ ScoreConflicts(w)
             \/ HandlerRaises(w) \/ CycleDies(w)
             \/ CommitExtraction(w) \/ CommitResearch(w) \/ CommitScore(w)
      PROVE  Discard(w)
  BY <1>6 DEF TouchConflicts, DeadlockAborts, ScoreConflicts, HandlerRaises, CycleDies,
     CommitExtraction, CommitResearch, CommitScore, Rollback
<1>7. CASE UNCHANGED vars \/ \E b \in Batch : FindingsArrive(b)
  BY <1>7 DEF vars, FindingsArrive
<1>8. ASSUME NEW x \in Entity, ResearchAges(x) PROVE pc[v] = "asked" /\ cur[v][2][2] = e
  BY <1>8 DEF ResearchAges
<1> QED BY <1>1, <1>2, <1>3, <1>4, <1>5, <1>6, <1>7, <1>8 DEF Next, Start, Work, NothingPending

LEMMA FlightSize ==
  ASSUME NEW e \in Entity
  PROVE  /\ IsFiniteSet(InFlight(e)) /\ Cardinality(InFlight(e)) \in Nat
         /\ Cardinality(InFlight(e)) <= Cardinality(Worker) /\ Cardinality(Worker) \in Nat
<1>1. InFlight(e) \subseteq Worker BY DEF InFlight
<1> QED BY <1>1, GraphAssumption, FS_Subset, FS_CardinalityType

LEMMA FlightNext ==
  ASSUME TInv, FlightInv, [Next]_vars
  PROVE  FlightInv'
<1> SUFFICES ASSUME NEW e \in Entity
             PROVE  recent'[e] = 0 \/ recent'[e] + Cardinality(InFlight(e)') <= Cardinality(Worker)
  BY DEF FlightInv
<1> DEFINE A == InFlight(e)
           B == InFlight(e)'
<1>0. recent[e] \in Nat BY DEF TInv, TypeOK
<1>1. A \subseteq Worker /\ B \subseteq Worker BY DEF InFlight
<1>2. /\ IsFiniteSet(A) /\ IsFiniteSet(B) /\ IsFiniteSet(Worker)
      /\ Cardinality(A) \in Nat /\ Cardinality(B) \in Nat /\ Cardinality(Worker) \in Nat
  BY <1>1, GraphAssumption, FS_Subset, FS_CardinalityType
<1>3. recent[e] = 0 \/ recent[e] + Cardinality(A) <= Cardinality(Worker) BY DEF FlightInv
<1>4. recent[e] = 0 \/ B \subseteq A BY FlightSteps
<1>5. ASSUME NEW w \in Worker, CommitResearch(w), cur[w][2][2] = e
      PROVE  w \in A /\ w \notin B
  <2>1. w \in A BY <1>5 DEF CommitResearch, InFlight
  <2>2. pc'[w] = "idle" BY <1>5 DEF CommitResearch, Discard, TInv, TypeOK
  <2> QED BY <2>1, <2>2 DEF InFlight
<1> HIDE DEF A, B
<1>6. CASE recent'[e] = recent[e] \/ (recent[e] > 0 /\ recent'[e] = recent[e] - 1)
  <2>1. recent[e] # 0 => Cardinality(B) <= Cardinality(A) BY <1>2, <1>4, FS_Subset
  <2> QED BY <1>0, <1>2, <1>3, <1>6, <2>1 DEF B
<1>7. ASSUME NEW w \in Worker, CommitResearch(w), cur[w][2][2] = e, recent'[e] = recent[e] + 1
      PROVE  recent'[e] + Cardinality(B) <= Cardinality(Worker)
  <2>1. w \in A /\ w \notin B BY <1>5, <1>7
  <2>2. CASE recent[e] = 0
    <3>1. B \subseteq Worker \ {w} BY <1>1, <2>1
    <3>2. /\ IsFiniteSet(Worker \ {w})
          /\ Cardinality(Worker \ {w}) = Cardinality(Worker) - 1
      BY <1>2, FS_RemoveElement
    <3>3. Cardinality(B) <= Cardinality(Worker \ {w}) BY <3>1, <3>2, FS_Subset
    <3> QED BY <1>2, <1>7, <2>2, <3>2, <3>3
  <2>3. CASE recent[e] # 0
    <3>1. B \subseteq A \ {w} BY <1>4, <2>1, <2>3
    <3>2. /\ IsFiniteSet(A \ {w}) /\ Cardinality(A \ {w}) = Cardinality(A) - 1
      BY <1>2, <2>1, FS_RemoveElement
    <3>3. Cardinality(B) <= Cardinality(A \ {w}) BY <3>1, <3>2, FS_Subset
    <3> QED BY <1>0, <1>2, <1>3, <1>7, <2>3, <3>2, <3>3
  <2> QED BY <2>2, <2>3
<1> QED BY <1>6, <1>7, RecentSteps DEF B

\* Checked before the LLM call and in force only after it, the cooldown lets an
\* entity be researched at most once per worker, whatever their number.
THEOREM CooldownHolds == Spec => []ResearchBounded
<1>1. Init => TInv /\ FlightInv BY TypeInit DEF Init, FlightInv
<1>2. TInv /\ FlightInv /\ [Next]_vars => TInv' /\ FlightInv' BY TypeNext, FlightNext
<1>3. TInv /\ FlightInv => ResearchBounded
  <2> SUFFICES ASSUME TInv, FlightInv, NEW e \in Entity
               PROVE  recent[e] <= Cardinality(Worker)
    BY DEF ResearchBounded
  <2>1. recent[e] \in Nat BY DEF TInv, TypeOK
  <2> QED BY <2>1, FlightSize DEF FlightInv
<1> QED BY <1>1, <1>2, <1>3, PTL DEF Spec

-----------------------------------------------------------------------------
(* The ledger: commits are its steps, and nothing else shows *)

LEMMA NoJobIsNone == NoJob \notin Job
  BY DEF NoJob, Job, Extractor, Researcher, Scorer

\* A session that ends leaves every other worker with its own job, still running.
LEMMA HandDiscard ==
  ASSUME TInv, HandInv, NEW w \in Worker, Discard(w),
         \A j \in Job : status[j] = "running" /\ j # cur[w] => status'[j] = "running"
  PROVE  HandInv'
<1>1. /\ cur' = [cur EXCEPT ![w] = NoJob] /\ own' = [own EXCEPT ![w] = {}]
      /\ todo' = [todo EXCEPT ![w] = {}]
  BY DEF Discard
<1>2. /\ cur \in [Worker -> Job \cup {NoJob}] /\ own \in [Worker -> SUBSET Mention]
      /\ todo \in [Worker -> SUBSET Finding]
  BY DEF TInv, TypeOK
<1>3. cur'[w] = NoJob /\ own'[w] = {} /\ todo'[w] = {} BY <1>1, <1>2
<1>4. \A v \in Worker : v # w => cur'[v] = cur[v] /\ own'[v] = own[v] /\ todo'[v] = todo[v]
  BY <1>1, <1>2
<1>5. \A v \in Worker : cur'[v] # NoJob => status'[cur'[v]] = "running"
  BY <1>2, <1>3, <1>4 DEF HandInv
<1>6. \A u, v \in Worker : u # v => cur'[u] = NoJob \/ cur'[u] # cur'[v]
  BY <1>3, <1>4 DEF HandInv
<1>7. \A v \in Worker : cur'[v] = NoJob => own'[v] = {}
  BY <1>3, <1>4 DEF HandInv
<1>8. \A v \in Worker, b \in Batch : cur'[v] = Extractor(b) =>
          todo'[v] \subseteq b /\ own'[v] \subseteq b \X Entity
  BY <1>3, <1>4 DEF HandInv
<1> QED BY <1>5, <1>6, <1>7, <1>8 DEF HandInv

\* A job that nobody has is taken by a worker that has none.
LEMMA HandBegin ==
  ASSUME TInv, HandInv, NEW w \in Worker, NEW j \in Job, NEW p, Begin(w, j, p),
         own' = own,
         \A b \in Batch : j = Extractor(b) => todo' = [todo EXCEPT ![w] = b],
         \A v \in Worker : v # w => todo'[v] = todo[v]
  PROVE  HandInv'
<1>1. /\ cur \in [Worker -> Job \cup {NoJob}] /\ status \in [Job -> JobStatus]
      /\ todo \in [Worker -> SUBSET Finding]
  BY DEF TInv, TypeOK
<1>2. cur[w] = NoJob BY DEF Begin, TInv, StageInv
<1>3. cur'[w] = j /\ \A v \in Worker : v # w => cur'[v] = cur[v] BY <1>1 DEF Begin
<1>4. status[j] = "pending" /\ status'[j] = "running"
  BY <1>1 DEF Begin
<1>5. \A k \in Job : k # j => status'[k] = status[k] BY <1>1 DEF Begin
<1>6. \A v \in Worker : cur[v] # j BY <1>4, NoJobIsNone DEF HandInv
<1>7. \A v \in Worker : cur'[v] # NoJob => status'[cur'[v]] = "running"
  BY <1>1, <1>3, <1>4, <1>5, <1>6 DEF HandInv
<1>8. \A u, v \in Worker : u # v => cur'[u] = NoJob \/ cur'[u] # cur'[v]
  BY <1>3, <1>6 DEF HandInv
<1>9. \A v \in Worker : cur'[v] = NoJob => own'[v] = {}
  BY <1>3, NoJobIsNone DEF HandInv
<1>10. \A v \in Worker, b \in Batch : cur'[v] = Extractor(b) =>
          todo'[v] \subseteq b /\ own'[v] \subseteq b \X Entity
  <2> SUFFICES ASSUME NEW v \in Worker, NEW b \in Batch, cur'[v] = Extractor(b)
               PROVE  todo'[v] \subseteq b /\ own'[v] \subseteq b \X Entity
    OBVIOUS
  <2>1. CASE v = w
    <3>1. j = Extractor(b) /\ own[w] = {} BY <1>2, <1>3, <2>1 DEF HandInv
    <3>2. todo'[w] = b BY <1>1, <3>1
    <3> QED BY <2>1, <3>1, <3>2
  <2>2. CASE v # w BY <1>3, <2>2 DEF HandInv
  <2> QED BY <2>1, <2>2
<1> QED BY <1>7, <1>8, <1>9, <1>10 DEF HandInv

\* No job changes hands, and none that runs is touched.
LEMMA HandKept ==
  ASSUME TInv, HandInv, cur' = cur, own' = own, todo' = todo,
         \A j \in Job : status[j] = "running" => status'[j] = "running"
  PROVE  HandInv'
<1>1. cur \in [Worker -> Job \cup {NoJob}] BY DEF TInv, TypeOK
<1> QED BY <1>1 DEF HandInv

\* Within a job, findings are only worked off, and new mentions are of its findings.
LEMMA HandWork ==
  ASSUME TInv, HandInv, NEW w \in Worker, Extract(w) \/ LookUp(w) \/ Touch(w)
  PROVE  HandInv'
<1>1. /\ own \in [Worker -> SUBSET Mention] /\ todo \in [Worker -> SUBSET Finding]
      /\ raw \in [Worker -> Seq(Entity)]
  BY DEF TInv, TypeOK
<1>2. status' = status /\ cur' = cur BY DEF Extract, LookUp, Touch, jobVars
<1>3. PICK b \in Batch : cur[w] = Extractor(b)
  BY DEF Extract, LookUp, Touch, TInv, StageInv
<1>4. /\ todo'[w] \subseteq todo[w] /\ own'[w] \subseteq own[w] \cup (todo[w] \X Entity)
      /\ \A v \in Worker : v # w => todo'[v] = todo[v] /\ own'[v] = own[v]
  <2>1. CASE Extract(w)
    <3>1. own' = own BY <2>1 DEF Extract
    <3>2. PICK f \in todo[w] : todo' = [todo EXCEPT ![w] = @ \ {f}] \/ todo' = todo
      BY <2>1 DEF Extract
    <3> QED BY <1>1, <3>1, <3>2
  <2>2. CASE LookUp(w) BY <2>2 DEF LookUp
  <2>3. CASE Touch(w)
    <3>1. Head(raw[w]) \in Entity BY <1>1, <2>3 DEF Touch, TInv, StageInv
    <3>2. PICK f \in todo[w] :
             /\ own' = [own EXCEPT ![w] = @ \cup ({<<f, Head(raw[w])>>} \ mentions)]
             /\ todo' = [todo EXCEPT ![w] = IF Tail(raw[w]) = <<>> THEN @ \ {f} ELSE @]
      BY <2>3 DEF Touch
    <3>3. todo'[w] \subseteq todo[w] /\ \A v \in Worker : v # w => todo'[v] = todo[v]
      BY <1>1, <3>2
    <3>4. own'[w] = own[w] \cup ({<<f, Head(raw[w])>>} \ mentions)
      BY <1>1, <3>2
    <3>5. \A v \in Worker : v # w => own'[v] = own[v]
      BY <1>1, <3>2
    <3>6. <<f, Head(raw[w])>> \in todo[w] \X Entity BY <3>1
    <3> QED BY <3>3, <3>4, <3>5, <3>6
  <2> QED BY <2>1, <2>2, <2>3
<1>5. cur[w] # NoJob BY <1>3, NoJobIsNone, Jobs
<1>6. todo[w] \subseteq b /\ own[w] \subseteq b \X Entity BY <1>3 DEF HandInv
<1>7. \A c \in Batch : cur[w] = Extractor(c) => c = b BY <1>3 DEF Extractor
<1>8. \A v \in Worker : cur'[v] = NoJob => own'[v] = {} BY <1>2, <1>4, <1>5 DEF HandInv
<1>9. \A v \in Worker, c \in Batch : cur'[v] = Extractor(c) =>
          todo'[v] \subseteq c /\ own'[v] \subseteq c \X Entity
  <2> SUFFICES ASSUME NEW v \in Worker, NEW c \in Batch, cur'[v] = Extractor(c)
               PROVE  todo'[v] \subseteq c /\ own'[v] \subseteq c \X Entity
    OBVIOUS
  <2>1. CASE v = w BY <1>2, <1>4, <1>6, <1>7, <2>1
  <2>2. CASE v # w BY <1>2, <1>4, <2>2 DEF HandInv
  <2> QED BY <2>1, <2>2
<1> QED BY <1>2, <1>8, <1>9 DEF HandInv

\* What a rollback does to the status of jobs: only the one that ran is touched.
LEMMA ReleaseSteps ==
  ASSUME TInv, HandInv, NEW w \in Worker, Rollback(w) \/ CycleDies(w)
  PROVE  /\ Discard(w) /\ UNCHANGED graphVars
         /\ \A j \in Job : \/ status'[j] = status[j]
                           \/ /\ j = cur[w] /\ status[j] = "running"
                              /\ status'[j] \notin {"none", "completed"}
<1>1. /\ Discard(w) /\ UNCHANGED graphVars
      /\ \E s : s \notin {"none", "completed"} /\ status' = [status EXCEPT ![cur[w]] = s]
  <2>1. CASE Rollback(w)
    BY <2>1, VerdictType DEF Rollback
  <2>2. CASE CycleDies(w) BY <2>2 DEF CycleDies
  <2> QED BY <2>1, <2>2
<1>2. status \in [Job -> JobStatus] BY DEF TInv, TypeOK
<1>3. \A j \in Job : j = cur[w] => status[j] = "running" BY NoJobIsNone DEF HandInv
<1> QED BY <1>1, <1>2, <1>3

\* What the commit of a research does to jobs: it is the first to announce a profile.
LEMMA ResearchSteps ==
  ASSUME TInv, HandInv, OrderInv, NEW w \in Worker, CommitResearch(w)
  PROVE  \E m \in Mention :
            /\ cur[w] = Researcher(m) /\ status[Researcher(m)] = "running"
            /\ status[Scorer(m)] = "none"
            /\ status'[Researcher(m)] = "completed" /\ status'[Scorer(m)] = "pending"
            /\ \A j \in Job : j = Researcher(m) \/ j = Scorer(m) \/ status'[j] = status[j]
<1>1. PICK m \in Mention : cur[w] = Researcher(m)
  BY DEF CommitResearch, TInv, StageInv
<1>2. cur[w][2] = m BY <1>1 DEF Researcher
<1>3. status[Researcher(m)] = "running" /\ status[Scorer(m)] = "none"
  BY <1>1, Jobs, NoJobIsNone DEF HandInv, OrderInv
<1>4. status' = [j \in Job |-> IF j = Researcher(m) THEN "completed"
                               ELSE IF j = Scorer(m) THEN "pending" ELSE status[j]]
  BY <1>1, <1>2 DEF CommitResearch, ProfileReady
<1> QED BY <1>1, <1>3, <1>4, Jobs, JobsDiffer

\* What the commit of an extraction does to jobs: it announces its own mentions.
LEMMA ExtractionSteps ==
  ASSUME TInv, HandInv, NEW w \in Worker, CommitExtraction(w)
  PROVE  \E b \in Batch :
            /\ cur[w] = Extractor(b) /\ status[Extractor(b)] = "running"
            /\ status'[Extractor(b)] = "completed"
            /\ \A j \in Job \ {Extractor(b)} :
                  \/ status'[j] = status[j]
                  \/ /\ j \in {Researcher(m) : m \in own[w]}
                     /\ status[j] = "none" /\ status'[j] = "pending"
<1>1. PICK b \in Batch : cur[w] = Extractor(b)
  BY DEF CommitExtraction, TInv, StageInv
<1>2. status[Extractor(b)] = "running" BY <1>1, Jobs, NoJobIsNone DEF HandInv
<1>3. status' = [Announced(own[w]) EXCEPT ![Extractor(b)] = "completed"]
  BY <1>1 DEF CommitExtraction
<1>4. /\ DOMAIN Announced(own[w]) = Job
      /\ \A j \in Job : \/ Announced(own[w])[j] = status[j]
                       \/ /\ j \in {Researcher(m) : m \in own[w]}
                          /\ status[j] = "none" /\ Announced(own[w])[j] = "pending"
  BY DEF Announced
<1>5. status'[Extractor(b)] = "completed" BY <1>3, <1>4, Jobs
<1>6. \A j \in Job \ {Extractor(b)} : status'[j] = Announced(own[w])[j] BY <1>3, <1>4
<1> QED BY <1>1, <1>2, <1>4, <1>5, <1>6

LEMMA HandNext ==
  ASSUME TInv, HandInv, OrderInv, [Next]_vars
  PROVE  HandInv'
<1>0. status \in [Job -> JobStatus] BY DEF TInv, TypeOK
<1>1. ASSUME NEW b \in Batch, FindingsArrive(b) PROVE HandInv'
  <2>1. cur' = cur /\ own' = own /\ todo' = todo BY <1>1 DEF FindingsArrive, workVars
  <2>2. \A j \in Job : status[j] = "running" => status'[j] = "running"
    BY <1>0, <1>1 DEF FindingsArrive
  <2> QED BY <2>1, <2>2, HandKept
<1>2. ASSUME NEW e \in Entity, ResearchAges(e) PROVE HandInv'
  BY <1>2, HandKept DEF ResearchAges, jobVars, workVars
<1>3. ASSUME NEW w \in Worker, NEW b \in Batch, StartExtractor(w, b) PROVE HandInv'
  <2>1. Begin(w, Extractor(b), "finding") /\ own' = own /\ todo' = [todo EXCEPT ![w] = b]
    BY <1>3 DEF StartExtractor
  <2>2. \A c \in Batch : Extractor(b) = Extractor(c) => c = b BY DEF Extractor
  <2>3. \A v \in Worker : v # w => todo'[v] = todo[v] BY <2>1 DEF TInv, TypeOK
  <2>4. Extractor(b) \in Job BY Jobs
  <2>5. \A c \in Batch : Extractor(b) = Extractor(c) => todo' = [todo EXCEPT ![w] = c]
    BY <2>1, <2>2
  <2> QED BY <2>1, <2>3, <2>4, <2>5, HandBegin
<1>4. ASSUME NEW w \in Worker, NEW m \in Mention, StartResearch(w, m) PROVE HandInv'
  <2>1. Begin(w, Researcher(m), "asked") /\ own' = own /\ todo' = todo
    BY <1>4 DEF StartResearch, workVars
  <2>2. Researcher(m) \in Job BY Jobs
  <2> QED BY <2>1, <2>2, JobsDiffer, HandBegin
<1>5. ASSUME NEW w \in Worker, NEW m \in Mention, StartScorer(w, m) PROVE HandInv'
  <2>1. Begin(w, Scorer(m), "judging") /\ own' = own /\ todo' = todo
    BY <1>5 DEF StartScorer
  <2>2. Scorer(m) \in Job BY Jobs
  <2> QED BY <2>1, <2>2, JobsDiffer, HandBegin
<1>6. ASSUME NEW w \in Worker, NEW m \in Mention, SkipResearch(w, m) PROVE HandInv'
  <2>1. cur' = cur /\ own' = own /\ todo' = todo BY <1>6 DEF SkipResearch, workVars
  <2>2. \A j \in Job : status[j] = "running" => status'[j] = "running"
    BY <1>0, <1>6 DEF SkipResearch
  <2> QED BY <2>1, <2>2, HandKept
<1>7. ASSUME NEW w \in Worker, Rollback(w) \/ CycleDies(w) PROVE HandInv'
  BY <1>7, ReleaseSteps, HandDiscard
<1>8. ASSUME NEW w \in Worker, CommitExtraction(w) PROVE HandInv'
  <2>1. \A j \in Job : status[j] = "running" /\ j # cur[w] => status'[j] = "running"
    BY <1>8, ExtractionSteps
  <2>2. Discard(w) BY <1>8 DEF CommitExtraction
  <2> QED BY <2>1, <2>2, HandDiscard
<1>9. ASSUME NEW w \in Worker, CommitScore(w) PROVE HandInv'
  <2>1. Discard(w) /\ status' = [status EXCEPT ![cur[w]] = "completed"]
    BY <1>9 DEF CommitScore
  <2>2. \A j \in Job : status[j] = "running" /\ j # cur[w] => status'[j] = "running"
    BY <1>0, <2>1
  <2> QED BY <2>1, <2>2, HandDiscard
<1>10. ASSUME NEW w \in Worker, CommitResearch(w) PROVE HandInv'
  <2>1. \A j \in Job : status[j] = "running" /\ j # cur[w] => status'[j] = "running"
    BY <1>10, ResearchSteps
  <2>2. Discard(w) BY <1>10 DEF CommitResearch
  <2> QED BY <2>1, <2>2, HandDiscard
<1>11. ASSUME NEW w \in Worker, Extract(w) \/ LookUp(w) \/ Touch(w) PROVE HandInv'
  BY <1>11, HandWork
<1>12. CASE UNCHANGED vars BY <1>12, HandKept DEF vars, jobVars, workVars
<1>13. ASSUME NEW w \in Worker,
              TouchConflicts(w) \/ DeadlockAborts(w) \/ ScoreConflicts(w) \/ HandlerRaises(w)
       PROVE  HandInv'
  BY <1>7, <1>13 DEF TouchConflicts, DeadlockAborts, ScoreConflicts, HandlerRaises
<1> QED BY <1>1, <1>2, <1>3, <1>4, <1>5, <1>6, <1>7, <1>8, <1>9, <1>10, <1>11, <1>12, <1>13
        DEF Next, Start, Work, NothingPending

-----------------------------------------------------------------------------
\* The status of the jobs about one mention, whatever happens to other jobs.
LEMMA OrderKept ==
  ASSUME OrderInv, NEW m \in Mention, mentions \subseteq mentions',
         status'[Researcher(m)] = status[Researcher(m)],
         status'[Scorer(m)] # "none" => status[Scorer(m)] # "none"
  PROVE  /\ status'[Researcher(m)] # "none" => m \in mentions'
         /\ status'[Scorer(m)] # "none" => status'[Researcher(m)] = "completed"
  BY DEF OrderInv

LEMMA OrderNext ==
  ASSUME TInv, HandInv, OrderInv, [Next]_vars
  PROVE  OrderInv'
<1> SUFFICES ASSUME NEW m \in Mention
             PROVE  /\ status'[Researcher(m)] # "none" => m \in mentions'
                    /\ status'[Scorer(m)] # "none" => status'[Researcher(m)] = "completed"
  BY DEF OrderInv
<1> DEFINE Goal == /\ status'[Researcher(m)] # "none" => m \in mentions'
                   /\ status'[Scorer(m)] # "none" => status'[Researcher(m)] = "completed"
<1>0. status \in [Job -> JobStatus] /\ Researcher(m) \in Job /\ Scorer(m) \in Job
  BY Jobs DEF TInv, TypeOK
<1>a. ASSUME mentions' = mentions,
             status'[Researcher(m)] = status[Researcher(m)]
             \/ status[Researcher(m)] \notin {"none", "completed"},
             status'[Scorer(m)] # "none" => status[Scorer(m)] # "none"
      PROVE  Goal
  BY <1>a DEF OrderInv
<1> HIDE DEF Goal
<1>1. ASSUME NEW b \in Batch, FindingsArrive(b) PROVE Goal
  <2>1. status' = [status EXCEPT ![Extractor(b)] = "pending"] /\ mentions' = mentions
    BY <1>1 DEF FindingsArrive, graphVars
  <2> QED BY <1>0, <1>a, <2>1, JobsDiffer
<1>2. ASSUME status' = status, mentions' = mentions PROVE Goal
  BY <1>2, <1>a
<1>3. ASSUME NEW w \in Worker, NEW j \in Job, NEW p, Begin(w, j, p), UNCHANGED graphVars
      PROVE  Goal
  <2>1. /\ status[j] = "pending" /\ status' = [status EXCEPT ![j] = "running"]
        /\ mentions' = mentions
    BY <1>3 DEF Begin, graphVars
  <2> QED BY <1>0, <1>a, <2>1
<1>4. ASSUME NEW w \in Worker, NEW n \in Mention, SkipResearch(w, n) PROVE Goal
  <2>1. /\ status[Researcher(n)] = "pending"
        /\ status' = [status EXCEPT ![Researcher(n)] = "completed"]
        /\ mentions' = mentions
    BY <1>4 DEF SkipResearch, graphVars
  <2> QED BY <1>0, <1>a, <2>1, JobsDiffer
<1>5. ASSUME NEW w \in Worker, Rollback(w) \/ CycleDies(w) PROVE Goal
  <2>1. mentions' = mentions BY <1>5, ReleaseSteps DEF graphVars
  <2>2. \A j \in Job : status'[j] = status[j] \/ status[j] = "running"
    BY <1>5, ReleaseSteps
  <2> QED BY <1>0, <1>a, <2>1, <2>2
<1>6. ASSUME NEW w \in Worker, CommitExtraction(w) PROVE Goal
  <2>1. mentions' = mentions \cup own[w] BY <1>6 DEF CommitExtraction
  <2>2. own[w] \subseteq Mention BY DEF TInv, TypeOK
  <2>3. status'[Scorer(m)] = status[Scorer(m)]
    BY <1>0, <1>6, <2>2, ExtractionSteps, JobsDiffer
  <2>4. \/ status'[Researcher(m)] = status[Researcher(m)]
        \/ m \in own[w] /\ status[Researcher(m)] = "none"
    BY <1>0, <1>6, <2>2, ExtractionSteps, JobsDiffer
  <2> QED BY <2>1, <2>3, <2>4 DEF Goal, OrderInv
<1>7. ASSUME NEW w \in Worker, CommitResearch(w) PROVE Goal
  <2>1. mentions' = mentions BY <1>7 DEF CommitResearch
  <2>2. PICK n \in Mention :
            /\ status[Researcher(n)] = "running"
            /\ status'[Researcher(n)] = "completed"
            /\ \A j \in Job : j = Researcher(n) \/ j = Scorer(n) \/ status'[j] = status[j]
    BY <1>7, ResearchSteps
  <2>3. CASE m = n BY <2>1, <2>2, <2>3 DEF Goal, OrderInv
  <2>4. CASE m # n BY <1>0, <1>a, <2>1, <2>2, <2>4, JobsDiffer DEF Scorer
  <2> QED BY <2>3, <2>4
<1>8. ASSUME NEW w \in Worker, CommitScore(w) PROVE Goal
  <2>1. PICK n \in Mention : cur[w] = Scorer(n)
    BY <1>8 DEF CommitScore, TInv, StageInv
  <2>2. status[Scorer(n)] = "running" BY <2>1, Jobs, NoJobIsNone DEF HandInv
  <2>3. status' = [status EXCEPT ![Scorer(n)] = "completed"] /\ mentions' = mentions
    BY <1>8, <2>1 DEF CommitScore
  <2> QED BY <1>0, <1>a, <2>2, <2>3, JobsDiffer
<1>9. ASSUME NEW w \in Worker, Extract(w) \/ LookUp(w) \/ Touch(w) PROVE Goal
  BY <1>2, <1>9 DEF Extract, LookUp, Touch, jobVars, graphVars
<1>10. ASSUME NEW e \in Entity, ResearchAges(e) PROVE Goal
  BY <1>2, <1>10 DEF ResearchAges, jobVars
<1>11. ASSUME NEW w \in Worker, NEW b \in Batch, StartExtractor(w, b) PROVE Goal
  BY <1>3, <1>11, Jobs DEF StartExtractor
<1>12. ASSUME NEW w \in Worker, NEW n \in Mention, StartResearch(w, n) \/ StartScorer(w, n)
       PROVE  Goal
  BY <1>3, <1>12, Jobs DEF StartResearch, StartScorer
<1>13. ASSUME NEW w \in Worker,
              TouchConflicts(w) \/ DeadlockAborts(w) \/ ScoreConflicts(w) \/ HandlerRaises(w)
       PROVE  Goal
  BY <1>5, <1>13 DEF TouchConflicts, DeadlockAborts, ScoreConflicts, HandlerRaises
<1>14. ASSUME UNCHANGED vars PROVE Goal BY <1>2, <1>14 DEF vars, jobVars, graphVars
<1>15. Goal
  BY <1>1, <1>4, <1>5, <1>6, <1>7, <1>8, <1>9, <1>10, <1>11, <1>12, <1>13, <1>14
     DEF Next, Start, Work, NothingPending
<1> QED BY <1>15 DEF Goal

-----------------------------------------------------------------------------
\* Steps that the tables' readers do not see.
LEMMA LedgerQuiet ==
  ASSUME UNCHANGED <<mentions, sources, recent, scored>>,
         \A b \in Batch :
            status'[Extractor(b)] = "completed" <=> status[Extractor(b)] = "completed",
         \A m \in Mention : status'[Scorer(m)] = "none" <=> status[Scorer(m)] = "none"
  PROVE  UNCHANGED Ledger!vars
<1>1. Extracted' = Extracted BY DEF Extracted
<1>2. Researched' = Researched BY Mentions DEF Researched
<1> QED BY <1>1, <1>2 DEF Ledger!vars

\* The ledger counts as the graph does.
LEMMA SameCount == \A S : Ledger!Cardinality(S) = Cardinality(S)
  BY DEF Ledger!Cardinality, Cardinality, Ledger!IsFiniteSet, IsFiniteSet

LEMMA LedgerExtract ==
  ASSUME TInv, TInv', HandInv, SourceCountExact', NEW w \in Worker, CommitExtraction(w)
  PROVE  \E b \in Batch : Ledger!Extract(b)
<1>1. PICK b \in Batch :
          /\ cur[w] = Extractor(b) /\ status[Extractor(b)] = "running"
          /\ status'[Extractor(b)] = "completed"
          /\ \A j \in Job \ {Extractor(b)} :
                \/ status'[j] = status[j]
                \/ /\ j \in {Researcher(m) : m \in own[w]}
                   /\ status[j] = "none" /\ status'[j] = "pending"
  BY ExtractionSteps
<1>2. own[w] \subseteq Mention BY DEF TInv, TypeOK
<1>3. \A c \in Batch : c # b => status'[Extractor(c)] = status[Extractor(c)]
  <2>1. \A c \in Batch : c # b => Extractor(c) \in Job \ {Extractor(b)}
    BY Jobs DEF Extractor
  <2> QED BY <1>1, <1>2, <2>1, JobsDiffer
<1>4. Extracted' = Extracted \cup {b} /\ b \notin Extracted
  BY <1>1, <1>3 DEF Extracted
<1>5. \A m \in Mention : status'[Scorer(m)] = status[Scorer(m)]
  BY <1>1, <1>2, Jobs, JobsDiffer
<1>6. Researched' = Researched BY <1>5, Mentions DEF Researched
<1>7. mentions' = mentions \cup own[w] /\ own[w] \in SUBSET (b \X Entity)
  BY <1>1 DEF CommitExtraction, HandInv
<1>8. sources' = [e \in Entity |-> Ledger!Cardinality(Ledger!SourcesOf(mentions', e))]
  <2>1. sources' \in [Entity -> Nat] BY DEF TInv, TypeOK
  <2>2. \A e \in Entity : sources'[e] = Cardinality(Ledger!SourcesOf(mentions', e))
    BY DEF SourceCountExact, Ledger!SourcesOf
  <2>3. \A e \in Entity : sources'[e] = Ledger!Cardinality(Ledger!SourcesOf(mentions', e))
    BY <2>2, SameCount
  <2> QED BY <2>1, <2>3
<1>9. UNCHANGED <<recent, scored>> BY DEF CommitExtraction
<1>10. \E M \in SUBSET (b \X Entity) : mentions' = mentions \cup M BY <1>7
<1>11. Ledger!Extract(b)
  BY <1>10, <1>4, <1>6, <1>7, <1>8, <1>9 DEF Ledger!Extract
<1> QED BY <1>11

LEMMA LedgerResearch ==
  ASSUME TInv, HandInv, OrderInv, FlightInv, NEW w \in Worker, CommitResearch(w)
  PROVE  \E e \in Entity : Ledger!Research(e)
<1>1. PICK m \in Mention :
          /\ cur[w] = Researcher(m) /\ status[Researcher(m)] = "running"
          /\ status'[Researcher(m)] = "completed" /\ status'[Scorer(m)] = "pending"
          /\ \A j \in Job : j = Researcher(m) \/ j = Scorer(m) \/ status'[j] = status[j]
  BY ResearchSteps
<1> DEFINE e == m[2]
<1>2. cur[w][2] = m /\ e \in Entity /\ m[1] \in Finding /\ m = <<m[1], e>>
  BY <1>1, Mentions DEF Researcher
<1>3. m \in mentions BY <1>1 DEF OrderInv
<1>4. recent[e] < Cardinality(Worker)
  <2>1. w \in InFlight(e) BY <1>2 DEF CommitResearch, InFlight
  <2>2. Cardinality(InFlight(e)) > 0 BY <1>2, <2>1, FlightSize, FS_EmptySet
  <2>3. recent[e] \in Nat BY <1>2 DEF TInv, TypeOK
  <2>4. recent[e] = 0 \/ recent[e] + Cardinality(InFlight(e)) <= Cardinality(Worker)
    BY <1>2 DEF FlightInv
  <2>5. /\ Cardinality(InFlight(e)) \in Nat /\ Cardinality(Worker) \in Nat
        /\ Cardinality(InFlight(e)) <= Cardinality(Worker)
    BY <1>2, FlightSize
  <2> HIDE DEF e
  <2> QED BY <2>2, <2>3, <2>4, <2>5
<1>5. /\ recent' = [recent EXCEPT ![e] = @ + 1]
      /\ UNCHANGED <<sources, mentions, scored>>
  BY <1>2 DEF CommitResearch
<1>6. Extracted' = Extracted BY <1>1, Jobs, JobsDiffer DEF Extracted
<1>7. Researched' = Researched \cup {e}
  <2>1. \A n \in Mention : n # m => status'[Scorer(n)] = status[Scorer(n)]
    BY <1>1, Jobs, JobsDiffer DEF Scorer
  <2>2. \A x \in Entity, f \in Finding :
           x # e => status'[Scorer(<<f, x>>)] = status[Scorer(<<f, x>>)]
    BY <1>2, <2>1, Mentions
  <2>3. status'[Scorer(<<m[1], e>>)] # "none" BY <1>1, <1>2
  <2>4. Researched' = {x \in Entity : \E f \in Finding : status'[Scorer(<<f, x>>)] # "none"}
    BY DEF Researched
  <2> HIDE DEF e
  <2>5. \A x \in Entity : x \in Researched' <=> x \in Researched \cup {e}
    BY <1>2, <2>2, <2>3, <2>4 DEF Researched
  <2> QED BY <1>2, <2>4, <2>5 DEF Researched
<1>8. Ledger!Research(e) BY <1>3, <1>4, <1>5, <1>6, <1>7 DEF Ledger!Research
<1> QED BY <1>2, <1>8

LEMMA LedgerScore ==
  ASSUME TInv, HandInv, NEW w \in Worker, CommitScore(w)
  PROVE  \E e \in Entity : Ledger!Score(e)
<1>1. PICK m \in Mention : cur[w] = Scorer(m)
  BY DEF CommitScore, TInv, StageInv
<1>2. /\ cur[w][2] = m /\ m[1] \in Finding /\ m[2] \in Entity /\ m = <<m[1], m[2]>>
  BY <1>1, Mentions DEF Scorer
<1>3. status[Scorer(m)] = "running" BY <1>1, Jobs, NoJobIsNone DEF HandInv
<1>4. m[2] \in Researched BY <1>2, <1>3 DEF Researched
<1>5. /\ status' = [status EXCEPT ![Scorer(m)] = "completed"]
      /\ scored' = scored \cup {m[2]}
      /\ UNCHANGED <<sources, mentions, recent>>
  BY <1>1, <1>2 DEF CommitScore
<1>6. status \in [Job -> JobStatus] BY DEF TInv, TypeOK
<1>7. Extracted' = Extracted BY <1>5, <1>6, Jobs, JobsDiffer DEF Extracted
<1>8. \A n \in Mention : status'[Scorer(n)] = "none" <=> status[Scorer(n)] = "none"
  BY <1>3, <1>5, <1>6, Jobs
<1>9. Researched' = Researched BY <1>8, Mentions DEF Researched
<1>10. Ledger!Score(m[2]) BY <1>4, <1>5, <1>7, <1>9 DEF Ledger!Score
<1> QED BY <1>2, <1>10

\* A commit is one step of the ledger; everything else is none.
LEMMA LedgerStep ==
  ASSUME TInv, TInv', HandInv, OrderInv, FlightInv, SourceCountExact', [Next]_vars
  PROVE  [Ledger!Next]_Ledger!vars
<1> DEFINE Goal == [Ledger!Next]_Ledger!vars
<1>0. status \in [Job -> JobStatus] BY DEF TInv, TypeOK
<1>1. ASSUME NEW b \in Batch, FindingsArrive(b) PROVE Goal
  <2>1. /\ status[Extractor(b)] = "none" /\ status' = [status EXCEPT ![Extractor(b)] = "pending"]
        /\ UNCHANGED <<mentions, sources, recent, scored>>
    BY <1>1 DEF FindingsArrive, graphVars
  <2> QED BY <1>0, <2>1, Jobs, JobsDiffer, LedgerQuiet
<1>2. ASSUME NEW e \in Entity, ResearchAges(e) PROVE Goal
  <2>1. status' = status BY <1>2 DEF ResearchAges, jobVars
  <2>2. Extracted' = Extracted /\ Researched' = Researched BY <2>1 DEF Extracted, Researched
  <2>3. Ledger!Age(e) BY <1>2, <2>2 DEF ResearchAges, Ledger!Age
  <2> QED BY <2>3 DEF Ledger!Next
<1>3. ASSUME UNCHANGED <<mentions, sources, recent, scored>>, status' = status PROVE Goal
  BY <1>3, LedgerQuiet
<1>4. ASSUME NEW w \in Worker, NEW j \in Job, NEW p, Begin(w, j, p), UNCHANGED graphVars
      PROVE  Goal
  <2>1. /\ status[j] = "pending" /\ status' = [status EXCEPT ![j] = "running"]
        /\ UNCHANGED <<mentions, sources, recent, scored>>
    BY <1>4 DEF Begin, graphVars
  <2> QED BY <1>0, <2>1, Jobs, LedgerQuiet
<1>5. ASSUME NEW w \in Worker, NEW m \in Mention, SkipResearch(w, m) PROVE Goal
  <2>1. /\ status' = [status EXCEPT ![Researcher(m)] = "completed"]
        /\ UNCHANGED <<mentions, sources, recent, scored>>
    BY <1>5 DEF SkipResearch, graphVars
  <2> QED BY <1>0, <2>1, Jobs, JobsDiffer, LedgerQuiet
<1>6. ASSUME NEW w \in Worker, Rollback(w) \/ CycleDies(w) PROVE Goal
  <2>1. /\ UNCHANGED <<mentions, sources, recent, scored>>
        /\ \A j \in Job : \/ status'[j] = status[j]
                          \/ status[j] = "running" /\ status'[j] \notin {"none", "completed"}
    BY <1>6, ReleaseSteps DEF graphVars
  <2> QED BY <2>1, Jobs, LedgerQuiet
<1>7. ASSUME NEW w \in Worker, Extract(w) \/ LookUp(w) \/ Touch(w) PROVE Goal
  BY <1>3, <1>7 DEF Extract, LookUp, Touch, jobVars, graphVars
<1>8. ASSUME UNCHANGED vars PROVE Goal BY <1>3, <1>8 DEF vars, jobVars, graphVars
<1>9. ASSUME NEW w \in Worker, CommitExtraction(w) \/ CommitResearch(w) \/ CommitScore(w)
      PROVE  Goal
  BY <1>9, LedgerExtract, LedgerResearch, LedgerScore DEF Ledger!Next
<1>10. ASSUME NEW w \in Worker, NEW b \in Batch, StartExtractor(w, b) PROVE Goal
  BY <1>4, <1>10, Jobs DEF StartExtractor
<1>11. ASSUME NEW w \in Worker, NEW m \in Mention, StartResearch(w, m) \/ StartScorer(w, m)
       PROVE  Goal
  BY <1>4, <1>11, Jobs DEF StartResearch, StartScorer
<1>12. ASSUME NEW w \in Worker,
              TouchConflicts(w) \/ DeadlockAborts(w) \/ ScoreConflicts(w) \/ HandlerRaises(w)
       PROVE  Goal
  BY <1>6, <1>12 DEF TouchConflicts, DeadlockAborts, ScoreConflicts, HandlerRaises
<1> HIDE DEF Goal
<1>13. Goal
  BY <1>1, <1>2, <1>5, <1>6, <1>7, <1>8, <1>9, <1>10, <1>11, <1>12
     DEF Next, Start, Work, NothingPending
<1> QED BY <1>13 DEF Goal

LEMMA LedgerInit == Init => HandInv /\ OrderInv /\ Ledger!Init
<1> SUFFICES ASSUME Init PROVE HandInv /\ OrderInv /\ Ledger!Init
  OBVIOUS
<1>1. \A j \in Job : status[j] = "none" BY DEF Init
<1>2. Extracted = {} /\ Researched = {}
  BY <1>1, Jobs, Mentions DEF Extracted, Researched
<1>3. HandInv BY NoJobIsNone, Jobs DEF Init, HandInv
<1>4. OrderInv BY <1>1, Jobs DEF OrderInv
<1>5. Ledger!Init BY <1>2 DEF Init, Ledger!Init
<1> QED BY <1>3, <1>4, <1>5

\* The entity graph, with its overlapping transactions, row locks, conflicts, retries
\* and dying cycles, implements the ledger: extractions are single steps done once, with
\* exact source counts, and scoring follows research, research a mention, within bounds.
THEOREM LedgerImplemented == Spec => ImplementsLedger
<1>1. Init => CountInv /\ FlightInv
  BY CountInit, TypeInit DEF Init, FlightInv
<1>2. CountInv /\ FlightInv /\ [Next]_vars => CountInv' /\ FlightInv'
  BY CountNext, FlightNext DEF CountInv
<1>3. CountInv /\ HandInv /\ OrderInv /\ [Next]_vars => HandInv' /\ OrderInv'
  BY HandNext, OrderNext DEF CountInv
<1>4. CountInv /\ CountInv' /\ FlightInv /\ HandInv /\ OrderInv /\ [Next]_vars
          => [Ledger!Next]_Ledger!vars
  BY LedgerStep DEF CountInv
<1> QED BY <1>1, <1>2, <1>3, <1>4, LedgerInit, PTL DEF Spec, ImplementsLedger, Ledger!Spec

\* In the graph, therefore, nobody is scored whom no committed finding mentions, and
\* nobody whose research has not committed.
THEOREM GraphScoresAreEarned == Spec => []Ledger!ScoresAreEarned
<1>1. Ledger!Init => Ledger!ScoresAreEarned
  BY DEF Ledger!Init, Ledger!ScoresAreEarned
<1>2. Ledger!ScoresAreEarned /\ [Ledger!Next]_Ledger!vars => Ledger!ScoresAreEarned'
  BY DEF Ledger!ScoresAreEarned, Ledger!Next, Ledger!vars, Ledger!Extract, Ledger!Research,
         Ledger!Age, Ledger!Score
<1> QED BY <1>1, <1>2, LedgerImplemented, PTL DEF ImplementsLedger, Ledger!Spec
=============================================================================
