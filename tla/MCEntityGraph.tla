--------------------------- MODULE MCEntityGraph ---------------------------
(***************************************************************************)
(* A small instance of EntityGraph for TLC: one name that two types share, *)
(* three findings of two sources, in two batches.                          *)
(***************************************************************************)
EXTENDS EntityGraphRefinement, TLC

CONSTANTS w1, w2, n1, s1, s2

MCWorker == {w1, w2}
MCName == {n1}
MCFinding == {1, 2, 3}
MCBatch == {{1, 3}, {2}}
MCSource == {s1, s2}
MCSourceOf == (1 :> s1) @@ (2 :> s2) @@ (3 :> s1)
MCHints == (1 :> <<>>) @@ (2 :> <<n1>>) @@ (3 :> <<>>)
MCNamed == {2}
MCGuess == n1 :> "company"
MCAnswers == (1 :> {<<<<"company", n1>>>>})
          @@ (2 :> {<<<<"person", n1>>, <<"company", n1>>>>})
          @@ (3 :> {<<<<"person", n1>>, <<"company", n1>>>>})
MCSourceable == {<<"company", n1>>}
MCAgeing == {<<"person", n1>>}
MCFaulty == {Extractor({2}), Researcher(<<1, <<"company", n1>>>>)}
=============================================================================
