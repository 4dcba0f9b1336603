------------------------ MODULE EntityGraphRefinement ------------------------
(***************************************************************************)
(* EntityGraph implements EntityLedger.  A batch is extracted when its job *)
(* has committed; an entity is researched once a profile of it is ready,   *)
(* which is when it has a scorer job.                                      *)
(***************************************************************************)
EXTENDS EntityGraph

Extracted == {b \in Batch : status[Extractor(b)] = "completed"}

Researched == {e \in Entity : \E f \in Finding : status[Scorer(<<f, e>>)] # "none"}

Ledger == INSTANCE EntityLedger WITH
    Limit <- Cardinality(Worker),
    extracted <- Extracted,
    researched <- Researched

\* Overlapping transactions, dead workers and repeated jobs do not show: the tables
\* read as if every extraction were one step, done once, with exact source counts,
\* and every score came after a research, and that after a mention.
ImplementsLedger == Ledger!Spec

\* Why, in part: a job that runs is in the hands of one worker, who writes mentions of
\* its own batch only.
HandInv ==
    /\ \A w \in Worker : cur[w] # NoJob => status[cur[w]] = "running"
    /\ \A v, w \in Worker : v # w => cur[v] = NoJob \/ cur[v] # cur[w]
    /\ \A w \in Worker : cur[w] = NoJob => own[w] = {}
    /\ \A w \in Worker, b \in Batch : cur[w] = Extractor(b) =>
          todo[w] \subseteq b /\ own[w] \subseteq b \X Entity

\* And: a mention is committed before its research starts, and that before its scoring.
OrderInv ==
    \A m \in Mention :
        /\ status[Researcher(m)] # "none" => m \in mentions
        /\ status[Scorer(m)] # "none" => status[Researcher(m)] = "completed"
=============================================================================
