----------------------------- MODULE EntityGraph ----------------------------
(***************************************************************************)
(* The entity graph of the sourcing service: the job handlers              *)
(* process_entity_extractor_job, process_research_job and                  *)
(* process_entity_scorer_job of sourcing/app/services/agent_pipeline.py.   *)
(*                                                                         *)
(* A handler is one READ COMMITTED transaction, committed together with    *)
(* its job's completion; AgentQueue shows that a job is in one worker's    *)
(* hands at a time, and its claims, leases and retries are reduced here to *)
(* a budget of tries.  Workers overlap, and an extraction keeps every      *)
(* entity row it has flushed locked until its commit, across LLM calls.    *)
(* The row's values come from an ORM copy loaded before the lock.          *)
(*                                                                         *)
(* An entity is its unique key, <<entity_type, normalized_name>>.          *)
(***************************************************************************)
EXTENDS Integers, Sequences, FiniteSets

CONSTANTS
    Worker,            \* cycles that may be alive at the same time
    Name,              \* normalized names
    Finding,           \* findings, by id
    Batch,             \* the finding_ids of each snapshot_ready event
    Source, SourceOf,  \* the source of each finding
    Hints,             \* names in a finding's metadata or, without any, its title
    Named,             \* the findings whose metadata names entities
    Guess,             \* _guess_entity_type of a name
    Answers,           \* what the LLM may extract from each finding
    Sourceable,        \* the entities whose profile has a URL to follow
    MaxTries,          \* claims of a job before it is given up
    Ageing,            \* bound: the entities whose cooldown may lapse
    Faulty,            \* bound: the jobs whose handler may raise or die
    MaxFaults          \* bound: handlers that raise, cycles that die

\* The two types that research and scoring tell apart and a watch target can have.  The
\* column has fourteen, and the LLM's answer is taken unchecked: not modelled is an entity
\* of another type, whose scorer may raise at its watch target on each of its tries.
Type == {"company", "person"}

Entity == Type \X Name

ASSUME GraphAssumption ==
    /\ Finding \subseteq Nat /\ Batch \subseteq SUBSET Finding
    /\ \A b, c \in Batch : b = c \/ b \cap c = {}
    /\ IsFiniteSet(Worker) /\ IsFiniteSet(Source)
    /\ SourceOf \in [Finding -> Source]
    /\ Hints \in [Finding -> Seq(Name)] /\ Named \subseteq Finding
    /\ Guess \in [Name -> Type]
    /\ \A f \in Finding : Answers[f] \subseteq Seq(Entity)
    /\ Sourceable \subseteq Entity /\ Ageing \subseteq Entity
    /\ MaxTries \in Nat \ {0} /\ MaxFaults \in Nat

\* A row of entity_mentions; one event and one research job exist per mention.
Mention == Finding \X Entity

Extractor(b) == <<"extractor", b>>
Researcher(m) == <<"researcher", m>>
Scorer(m) == <<"scorer", m>>

Job == {Extractor(b) : b \in Batch} \cup {Researcher(m) : m \in Mention}
          \cup {Scorer(m) : m \in Mention}

NoJob == <<"none", 0>>

JobStatus == {"none", "pending", "running", "completed", "failed"}

Absent == -1

VARIABLES
    count, sources,    \* entities: finding_count (Absent: no row), source_count
    mentions,          \* entity_mentions
    recent,            \* research snapshots younger than RESEARCH_COOLDOWN_DAYS
    scored,            \* entities with a row in entity_scores and watch_targets
    expansions,        \* dedup keys of source_expansion_candidate
    status, tries,     \* agent_jobs: status and attempts that ended badly
    cur, pc,           \* the job each worker is in, and where
    todo, raw,         \* findings left; entities left of the current finding
    read,              \* what the last SELECT found
    draft, tally,      \* finding_count and source_count of the rows it holds
    own,               \* mentions it has inserted
    faults             \* handlers that raised and cycles that died, so far

graphVars == <<count, sources, mentions, recent, scored, expansions>>
jobVars == <<status, tries>>
workVars == <<todo, raw, read, draft, tally, own>>
vars == <<graphVars, jobVars, cur, pc, workVars, faults>>

Pc == {"idle", "finding", "entity", "looked", "asked", "judging"}

Nothing == [e \in Entity |-> Absent]

TypeOK ==
    /\ count \in [Entity -> Nat \cup {Absent}]
    /\ sources \in [Entity -> Nat]
    /\ mentions \subseteq Mention
    /\ recent \in [Entity -> Nat]
    /\ scored \subseteq Entity
    /\ expansions \subseteq Entity \X Source
    /\ status \in [Job -> JobStatus]
    /\ tries \in [Job -> Nat]
    /\ cur \in [Worker -> Job \cup {NoJob}]
    /\ pc \in [Worker -> Pc]
    /\ todo \in [Worker -> SUBSET Finding]
    /\ raw \in [Worker -> Seq(Entity)]
    /\ read \in [Worker -> Nat \cup {Absent}]
    /\ draft \in [Worker -> [Entity -> Nat \cup {Absent}]]
    /\ tally \in [Worker -> [Entity -> Nat \cup {Absent}]]
    /\ own \in [Worker -> SUBSET Mention]
    /\ faults \in Nat

Init ==
    /\ count = Nothing
    /\ sources = [e \in Entity |-> 0]
    /\ mentions = {}
    /\ recent = [e \in Entity |-> 0]
    /\ scored = {} /\ expansions = {}
    /\ status = [j \in Job |-> "none"]
    /\ tries = [j \in Job |-> 0]
    /\ cur = [w \in Worker |-> NoJob]
    /\ pc = [w \in Worker |-> "idle"]
    /\ todo = [w \in Worker |-> {}]
    /\ raw = [w \in Worker |-> <<>>]
    /\ read = [w \in Worker |-> Absent]
    /\ draft = [w \in Worker |-> Nothing]
    /\ tally = [w \in Worker |-> Nothing]
    /\ own = [w \in Worker |-> {}]
    /\ faults = 0

-----------------------------------------------------------------------------
(* Jobs and time *)

\* A scan commits its findings with a snapshot_ready event.
FindingsArrive(b) ==
    /\ status[Extractor(b)] = "none"
    /\ status' = [status EXCEPT ![Extractor(b)] = "pending"]
    /\ UNCHANGED <<graphVars, tries, cur, pc, workVars, faults>>

\* The oldest research snapshot of the entity passes the cooldown.
ResearchAges(e) ==
    /\ e \in Ageing /\ recent[e] > 0
    /\ recent' = [recent EXCEPT ![e] = @ - 1]
    /\ UNCHANGED <<count, sources, mentions, scored, expansions, jobVars, cur, pc,
                   workVars, faults>>

\* A worker has the job: it is leased to it.
Begin(w, j, p) ==
    /\ pc[w] = "idle" /\ status[j] = "pending"
    /\ status' = [status EXCEPT ![j] = "running"]
    /\ cur' = [cur EXCEPT ![w] = j]
    /\ pc' = [pc EXCEPT ![w] = p]

\* The worker's session forgets what it has not committed.
Discard(w) ==
    /\ cur' = [cur EXCEPT ![w] = NoJob]
    /\ pc' = [pc EXCEPT ![w] = "idle"]
    /\ todo' = [todo EXCEPT ![w] = {}]
    /\ raw' = [raw EXCEPT ![w] = <<>>]
    /\ read' = [read EXCEPT ![w] = Absent]
    /\ draft' = [draft EXCEPT ![w] = Nothing]
    /\ tally' = [tally EXCEPT ![w] = Nothing]
    /\ own' = [own EXCEPT ![w] = {}]

Verdict_LeftRunning(n) == "running"

\* Where n bad ends leave a job: mark_job_failed.
Verdict(n) == IF n < MaxTries THEN "pending" ELSE "failed"

\* The handler raised: rollback, then retry or give up.
Rollback(w) ==
    /\ LET j == cur[w] IN
          /\ tries' = [tries EXCEPT ![j] = @ + 1]
          /\ status' = [status EXCEPT ![j] = Verdict(tries[j] + 1)]
    /\ Discard(w)
    /\ UNCHANGED graphVars

HandlerRaises(w) ==
    /\ cur[w] \in Faulty /\ faults < MaxFaults
    /\ Rollback(w)
    /\ faults' = faults + 1

\* The cycle dies; its lease lapses and the job is claimed again.
CycleDies(w) ==
    /\ cur[w] \in Faulty /\ faults < MaxFaults
    /\ tries' = [tries EXCEPT ![cur[w]] = @ + 1]
    /\ status' = [status EXCEPT ![cur[w]] = "pending"]
    /\ Discard(w)
    /\ faults' = faults + 1
    /\ UNCHANGED graphVars

\* A cycle that finds no job ends.
NothingPending(w) ==
    /\ pc[w] = "idle" /\ \A j \in Job : status[j] # "pending"
    /\ UNCHANGED vars

-----------------------------------------------------------------------------
(* Extraction *)

StartExtractor(w, b) ==
    /\ Begin(w, Extractor(b), "finding")
    /\ todo' = [todo EXCEPT ![w] = b]
    /\ UNCHANGED <<graphVars, tries, raw, read, draft, tally, own, faults>>

\* The rows a worker sees: the committed ones and its own.
Sees(w, e) == count[e] # Absent \/ draft[w][e] # Absent

\* _all_entities_known counts the rows of any type that bear one of the names.
AllEntitiesKnown(w, f) ==
    /\ f \in Named
    /\ Cardinality({e \in Entity : /\ \E i \in DOMAIN Hints[f] : Hints[f][i] = e[2]
                                   /\ Sees(w, e)}) >= Len(Hints[f])

HeuristicEntities_AnyType(f) == [i \in DOMAIN Hints[f] |-> <<"fund", Hints[f][i]>>]

\* _heuristic_extract_entities: the hinted names, with a guessed type.
HeuristicEntities(f) ==
    [i \in DOMAIN Hints[f] |-> <<Guess[Hints[f][i]], Hints[f][i]>>]

Extractions(w, f) ==
    IF AllEntitiesKnown(w, f) THEN {HeuristicEntities(f)}
                              ELSE Answers[f] \cup {HeuristicEntities(f)}

\* The finding the job is at: they come in the order of their ids.
Current(w, f) == f \in todo[w] /\ \A g \in todo[w] : f <= g

\* The next finding and its entities, from the LLM or without it.
Extract(w) ==
    /\ pc[w] = "finding"
    /\ \E f \in todo[w] :
          /\ Current(w, f)
          /\ \E r \in Extractions(w, f) :
                \/ /\ r = <<>>
                   /\ todo' = [todo EXCEPT ![w] = @ \ {f}]
                   /\ UNCHANGED <<raw, pc>>
                \/ /\ r # <<>>
                   /\ raw' = [raw EXCEPT ![w] = r]
                   /\ pc' = [pc EXCEPT ![w] = "entity"]
                   /\ UNCHANGED todo
    /\ UNCHANGED <<graphVars, jobVars, cur, read, draft, tally, own, faults>>

\* The SELECT of _get_or_create_entity; a row the session holds keeps its values.
LookUp(w) ==
    /\ pc[w] = "entity"
    /\ LET e == Head(raw[w]) IN
          read' = [read EXCEPT ![w] = IF draft[w][e] # Absent THEN draft[w][e] ELSE count[e]]
    /\ pc' = [pc EXCEPT ![w] = "looked"]
    /\ UNCHANGED <<graphVars, jobVars, cur, todo, raw, draft, tally, own, faults>>

Free_NoFlush(w, e) == TRUE

\* No other transaction has inserted or updated the row and is still open.
Free(w, e) == \A v \in Worker \ {w} : draft[v][e] = Absent

\* The SELECT found no row, but by the time of the INSERT there is one.
KeyTaken(w, e) == read[w] = Absent /\ count[e] # Absent

\* COUNT(DISTINCT source_id) over the mentions of the entity.
Visible(w, e) == {SourceOf[m[1]] : m \in {n \in mentions \cup own[w] : n[2] = e}}

CountAfter_OnlyOld(n) == IF n = Absent THEN 0 ELSE n + 1

\* finding_count += 1, from the copy; a new row starts from 0.
CountAfter(n) == IF n = Absent THEN 1 ELSE n + 1

\* The INSERT, or the UPDATE of last_seen_at, is flushed and locks the row; under
\* the lock follow the mention, unless there is one, the counters and the event.
Touch(w) ==
    /\ pc[w] = "looked"
    /\ LET e == Head(raw[w])
           rest == Tail(raw[w])
       IN
       /\ Free(w, e) /\ ~KeyTaken(w, e)
       /\ \E f \in todo[w] :
             /\ Current(w, f)
             /\ own' = [own EXCEPT ![w] = @ \cup ({<<f, e>>} \ mentions)]
             /\ tally' = [tally EXCEPT ![w][e] =
                    Cardinality({SourceOf[f]} \cup Visible(w, e))]
             /\ todo' = [todo EXCEPT ![w] = IF rest = <<>> THEN @ \ {f} ELSE @]
       /\ draft' = [draft EXCEPT ![w][e] = CountAfter(read[w])]
       /\ raw' = [raw EXCEPT ![w] = rest]
       /\ pc' = [pc EXCEPT ![w] = IF rest = <<>> THEN "finding" ELSE "entity"]
    /\ read' = [read EXCEPT ![w] = Absent]
    /\ UNCHANGED <<graphVars, jobVars, cur, faults>>

\* IntegrityError on (entity_type, normalized_name).
TouchConflicts(w) ==
    /\ pc[w] = "looked" /\ Free(w, Head(raw[w])) /\ KeyTaken(w, Head(raw[w]))
    /\ Rollback(w)
    /\ UNCHANGED faults

\* The row a worker is waiting for.
WaitsFor(w) == IF pc[w] = "looked" THEN {Head(raw[w])}
               ELSE IF pc[w] = "asked" THEN {cur[w][2][2]} ELSE {}

\* PostgreSQL aborts one of the transactions that wait for each other in a ring.
DeadlockAborts(w) ==
    /\ \E R \in SUBSET Worker :
          /\ w \in R
          /\ \A u \in R : \E v \in R \ {u} : \E e \in WaitsFor(u) : draft[v][e] # Absent
    /\ Rollback(w)
    /\ UNCHANGED faults

Announced(S) == [j \in Job |->
    IF j \in {Researcher(m) : m \in S} /\ status[j] = "none" THEN "pending" ELSE status[j]]

\* The extraction commits: rows, mentions, entity_candidate events, its job.
CommitExtraction(w) ==
    /\ pc[w] = "finding" /\ todo[w] = {}
    /\ count' = [e \in Entity |-> IF draft[w][e] # Absent THEN draft[w][e] ELSE count[e]]
    /\ sources' = [e \in Entity |->
           IF draft[w][e] # Absent THEN tally[w][e] ELSE sources[e]]
    /\ mentions' = mentions \cup own[w]
    /\ status' = [Announced(own[w]) EXCEPT ![cur[w]] = "completed"]
    /\ Discard(w)
    /\ UNCHANGED <<recent, scored, expansions, tries, faults>>

-----------------------------------------------------------------------------
(* Research *)

Due_NoCooldown(e) == TRUE

\* "Skip if this entity was already researched recently"
Due(e) == recent[e] = 0

StartResearch(w, m) ==
    /\ Due(m[2])
    /\ Begin(w, Researcher(m), "asked")
    /\ UNCHANGED <<graphVars, tries, workVars, faults>>

SkipResearch(w, m) ==
    /\ ~Due(m[2])
    /\ pc[w] = "idle" /\ status[Researcher(m)] = "pending"
    /\ status' = [status EXCEPT ![Researcher(m)] = "completed"]
    /\ UNCHANGED <<graphVars, tries, cur, pc, workVars, faults>>

ProfileReady_IfSourceable(m) == {Scorer(k) : k \in {m} \cap (Finding \X Sourceable)}

\* entity_profile_ready, which becomes a scorer job.
ProfileReady(m) == {Scorer(m)}

\* The profile has come, from the LLM or the fallback: the entity row is updated,
\* the snapshot and the events inserted, and the job commits.
CommitResearch(w) ==
    LET m == cur[w][2] IN
    /\ pc[w] = "asked" /\ Free(w, m[2])
    /\ recent' = [recent EXCEPT ![m[2]] = @ + 1]
    /\ expansions' = IF m[2] \in Sourceable
                     THEN expansions \cup {<<m[2], SourceOf[m[1]]>>} ELSE expansions
    /\ status' = [j \in Job |-> IF j = cur[w] THEN "completed"
                                ELSE IF j \in ProfileReady(m) THEN "pending"
                                ELSE status[j]]
    /\ Discard(w)
    /\ UNCHANGED <<count, sources, mentions, scored, tries, faults>>

-----------------------------------------------------------------------------
(* Scoring *)

\* The SELECT of the entity's score (0 stands for: there is one).
StartScorer(w, m) ==
    /\ Begin(w, Scorer(m), "judging")
    /\ read' = [read EXCEPT ![w] = IF m[2] \in scored THEN 0 ELSE Absent]
    /\ UNCHANGED <<graphVars, tries, todo, raw, draft, tally, own, faults>>

CommitScore(w) ==
    LET e == cur[w][2][2] IN
    /\ pc[w] = "judging"
    /\ read[w] = Absent => e \notin scored
    /\ scored' = scored \cup {e}
    /\ status' = [status EXCEPT ![cur[w]] = "completed"]
    /\ Discard(w)
    /\ UNCHANGED <<count, sources, mentions, recent, expansions, tries, faults>>

\* entity_scores.entity_id is unique.
ScoreConflicts(w) ==
    /\ pc[w] = "judging" /\ read[w] = Absent /\ cur[w][2][2] \in scored
    /\ Rollback(w)
    /\ UNCHANGED faults

-----------------------------------------------------------------------------
Start(w) ==
    \/ \E b \in Batch : StartExtractor(w, b)
    \/ \E m \in Mention : StartResearch(w, m) \/ SkipResearch(w, m) \/ StartScorer(w, m)

Work(w) ==
    \/ Extract(w) \/ LookUp(w) \/ Touch(w) \/ TouchConflicts(w) \/ DeadlockAborts(w)
    \/ CommitExtraction(w) \/ CommitResearch(w) \/ CommitScore(w) \/ ScoreConflicts(w)

Next ==
    \/ \E b \in Batch : FindingsArrive(b)
    \/ \E e \in Entity : ResearchAges(e)
    \/ \E w \in Worker : \/ Start(w) \/ Work(w) \/ NothingPending(w)
                         \/ HandlerRaises(w) \/ CycleDies(w)

Spec == Init /\ [][Next]_vars

\* Cycles keep coming and what has started goes on: every LLM call has a timeout.
Fairness == \A w \in Worker : WF_vars(Start(w) \/ Work(w))

FairSpec == Spec /\ Fairness
-----------------------------------------------------------------------------
(* What the graph promises *)

\* source_count, which ranks entities, is the number of sources that mention them,
\* although jobs overlap and write it from inside long transactions: it is counted
\* under the row lock that the flush before it has taken.
SourceCountExact ==
    \A e \in Entity :
        sources[e] = Cardinality({SourceOf[m[1]] : m \in {n \in mentions : n[2] = e}})

\* finding_count, which may lose updates, still tells a mentioned entity from one
\* that only an import knows: the import's rollback deletes those that have none.
MentionedIsCounted ==
    \A e \in Entity : (\E f \in Finding : <<f, e>> \in mentions) <=> count[e] > 0

\* The cooldown is checked before an LLM call and takes effect after it: an entity
\* is researched at most once per live cycle within it.
ResearchBounded == \A e \in Entity : recent[e] <= Cardinality(Worker)

\* A mention's research may be skipped; the research that made it superfluous has
\* enqueued the entity's scoring in the commit that started the cooldown.
SkippedIsScored ==
    \A m \in mentions : status[Researcher(m)] = "completed" =>
        \E f \in Finding : status[Scorer(<<f, m[2]>>)] # "none"

\* Why the counters are right: a row that a job has flushed has one holder, who
\* sees all mentions of it, and the job's own mentions are of rows it holds.
HoldInv ==
    /\ \A v, w \in Worker, e \in Entity :
          v # w => draft[v][e] = Absent \/ draft[w][e] = Absent
    /\ \A w \in Worker : \A m \in own[w] : draft[w][m[2]] # Absent
    /\ \A w \in Worker, e \in Entity : draft[w][e] # Absent =>
          /\ draft[w][e] > 0
          /\ tally[w][e] = Cardinality(Visible(w, e))
          /\ \E f \in Finding : <<f, e>> \in mentions \cup own[w]

InFlight(e) == {w \in Worker : pc[w] = "asked" /\ cur[w][2][2] = e}

\* Why the cooldown is overrun by the live cycles only.
FlightInv ==
    \A e \in Entity :
        recent[e] = 0 \/ recent[e] + Cardinality(InFlight(e)) <= Cardinality(Worker)

\* Why a skipped research is no loss.
CoolInv ==
    \A e \in Entity :
        (recent[e] > 0 \/ \E f \in Finding : status[Researcher(<<f, e>>)] = "completed")
            => \E f \in Finding : status[Scorer(<<f, e>>)] # "none"

\* No lock is waited for for ever and no mention is forgotten: again and again,
\* every batch that has arrived is extracted or given up, and every entity it has
\* mentioned is scored, unless a job about the entity has used up its tries.
MentionedIsScored ==
    []<>(/\ \A b \in Batch : status[Extractor(b)] \notin {"pending", "running"}
         /\ \A m \in mentions :
               \/ m[2] \in scored
               \/ \E f \in Finding : \/ status[Researcher(<<f, m[2]>>)] = "failed"
                                     \/ status[Scorer(<<f, m[2]>>)] = "failed")
=============================================================================
