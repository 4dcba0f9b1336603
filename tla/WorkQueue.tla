------------------------------ MODULE WorkQueue ------------------------------
(***************************************************************************)
(* What the agent-job queue promises its producers, with no clock, lease,  *)
(* watchdog or transaction: an item that was submitted is held by one      *)
(* worker at a time, leaves the queue through a verdict of its holder, is  *)
(* buried only after Budget claims, and comes back when its holder is      *)
(* lost.  AgentQueueRefinement shows that AgentQueue implements it.        *)
(***************************************************************************)
EXTENDS Integers

CONSTANTS Worker, Item, Budget,
          MaxClaims         \* bound: claims that are counted

VARIABLES state, held, claims

vars == <<state, held, claims>>

Init ==
    /\ state = [i \in Item |-> "absent"]
    /\ held = [w \in Worker |-> {}]
    /\ claims = [i \in Item |-> 0]

Submit(i) ==
    /\ state[i] = "absent"
    /\ state' = [state EXCEPT ![i] = "waiting"]
    /\ UNCHANGED <<held, claims>>

Claim(w, S) ==
    /\ held[w] = {}
    /\ \A i \in S : state[i] = "waiting"
    /\ state' = [i \in Item |-> IF i \in S THEN "held" ELSE state[i]]
    /\ claims' = [i \in Item |-> IF i \in S /\ claims[i] < MaxClaims
                                  THEN claims[i] + 1 ELSE claims[i]]
    /\ held' = [held EXCEPT ![w] = S]

\* The holder's verdict: done, back for another try, or buried.
Verdict(w, i, s) ==
    /\ i \in held[w] /\ state[i] = "held"
    /\ \/ s = "done"
       \/ s = "waiting" /\ claims[i] < Budget
       \/ s = "dead" /\ claims[i] >= Budget
    /\ state' = [state EXCEPT ![i] = s]
    /\ held' = [held EXCEPT ![w] = @ \ {i}]
    /\ UNCHANGED claims

\* A holder that is lost gives nothing up: its items wait again.
Lose(w) ==
    /\ state' = [i \in Item |->
           IF i \in held[w] /\ state[i] = "held" THEN "waiting" ELSE state[i]]
    /\ held' = [held EXCEPT ![w] = {}]
    /\ UNCHANGED claims

\* An operator removes items, even under their holder, who finds out later.
Withdraw(S) ==
    /\ state' = [i \in Item |->
           IF i \in S /\ state[i] # "absent" THEN "withdrawn" ELSE state[i]]
    /\ UNCHANGED <<held, claims>>

Forget(w, i) ==
    /\ i \in held[w] /\ state[i] = "withdrawn"
    /\ held' = [held EXCEPT ![w] = @ \ {i}]
    /\ UNCHANGED <<state, claims>>

Next ==
    \/ \E i \in Item : Submit(i)
    \/ \E S \in SUBSET Item : Withdraw(S)
    \/ \E w \in Worker :
        \/ Lose(w)
        \/ \E S \in SUBSET Item : Claim(w, S)
        \/ \E i \in Item : Forget(w, i) \/ \E s \in {"done", "waiting", "dead"} : Verdict(w, i, s)

Spec == Init /\ [][Next]_vars
=============================================================================
