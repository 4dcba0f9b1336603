---------------------------- MODULE MCSignalScan ----------------------------
(***************************************************************************)
(* A small instance of SignalScan for TLC: one company that is scanned,    *)
(* and imported; two that are only scored; four signals of two categories. *)
(***************************************************************************)
EXTENDS SignalScan, TLC

CONSTANTS w1, w2, c1, c2, c3, f1

MCLibrary ==
    << [num |-> 1, category |-> "Founder & Team", strength |-> "high"],
       [num |-> 2, category |-> "Regulatory & Compliance", strength |-> "high"],
       [num |-> 3, category |-> "Regulatory & Compliance", strength |-> "medium"],
       [num |-> 4, category |-> "Founder & Team", strength |-> "high"] >>
MCCategory == {"Founder & Team", "Regulatory & Compliance"}
MCWeight == ("Founder & Team" :> 30) @@ ("Regulatory & Compliance" :> 20)
MCQuota == ("Founder & Team" :> 1) @@ ("Regulatory & Compliance" :> 1)
MCVetoNumbers == {3}

MCWorker == {w1, w2}
MCCompany == {c1, c2, c3}
MCKnown == {c2, c3}
MCTriage == (c1 :> {9000}) @@ (c2 :> {3000, 9000}) @@ (c3 :> {9000})
MCGraded == c1 :> [eligible |-> "no", known |-> {1, 2},
                   verdicts |-> (1 :> "confirmed") @@ (2 :> "absent") @@ (3 :> "unknown")]
MCAnswers == {[n \in 1 .. 4 |-> "confirmed"],
              [n \in 1 .. 4 |-> IF n = 3 THEN "not_applicable" ELSE "confirmed"]}
MCScopes == {
    [companies |-> {c1, c2, c3}, jobs |-> {}, events |-> {"midnight", "mention"}],
    [companies |-> {c2}, jobs |-> {<<c2, f1>>},
     events |-> {"force", "cooldown", "month"}],
    [companies |-> {c3}, jobs |-> {<<c3, 1>>, <<c3, f1>>},
     events |-> {"force", "cooldown", "month"}],
    [companies |-> {c2}, jobs |-> {<<c2, 1>>, <<c2, f1>>},
     events |-> {"request", "force", "midnight"}],
    [companies |-> {c1}, jobs |-> {<<c1, 1>>},
     events |-> {"mention", "request", "import", "ingest"}]}
MCForced == {f1}
MCFaulty == {Scanner(<<c2, f1>>), Scanner(<<c1, 1>>)}
Workers == Permutations(MCWorker)
=============================================================================
