----------------------------- MODULE EntityLedger -----------------------------
(***************************************************************************)
(* What the entity graph promises to those who read its tables, with no    *)
(* jobs, row locks, retries or LLM calls: a batch of findings is extracted *)
(* once and in one step, which also sets the source counts; entities are   *)
(* researched when they have been mentioned, at most Limit times within a  *)
(* cooldown, and scored when they have been researched.                    *)
(* EntityGraphRefinement shows that EntityGraph implements it.             *)
(***************************************************************************)
EXTENDS Integers, FiniteSets

CONSTANTS Batch, Entity, SourceOf, Limit

VARIABLES extracted, mentions, sources, recent, researched, scored

vars == <<extracted, mentions, sources, recent, researched, scored>>

Init ==
    /\ extracted = {} /\ mentions = {}
    /\ sources = [e \in Entity |-> 0] /\ recent = [e \in Entity |-> 0]
    /\ researched = {} /\ scored = {}

SourcesOf(M, e) == {SourceOf[m[1]] : m \in {n \in M : n[2] = e}}

\* The findings of the batch mention what they mention, all at once.
Extract(b) ==
    /\ b \notin extracted
    /\ \E M \in SUBSET (b \X Entity) : mentions' = mentions \cup M
    /\ sources' = [e \in Entity |-> Cardinality(SourcesOf(mentions', e))]
    /\ extracted' = extracted \cup {b}
    /\ UNCHANGED <<recent, researched, scored>>

Research(e) ==
    /\ \E m \in mentions : m[2] = e
    /\ recent[e] < Limit
    /\ recent' = [recent EXCEPT ![e] = @ + 1]
    /\ researched' = researched \cup {e}
    /\ UNCHANGED <<extracted, mentions, sources, scored>>

\* One of the researches passes the cooldown.
Age(e) ==
    /\ recent[e] > 0
    /\ recent' = [recent EXCEPT ![e] = @ - 1]
    /\ UNCHANGED <<extracted, mentions, sources, researched, scored>>

Score(e) ==
    /\ e \in researched
    /\ scored' = scored \cup {e}
    /\ UNCHANGED <<extracted, mentions, sources, recent, researched>>

Next ==
    \/ \E b \in Batch : Extract(b)
    \/ \E e \in Entity : Research(e) \/ Age(e) \/ Score(e)

Spec == Init /\ [][Next]_vars

\* What a reader of the scores relies on: who is scored has been researched, and who
\* has been researched is mentioned by a finding.
ScoresAreEarned ==
    /\ scored \subseteq researched
    /\ \A e \in researched : \E m \in mentions : m[2] = e
=============================================================================
