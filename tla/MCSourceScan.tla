--------------------------- MODULE MCSourceScan ---------------------------
(***************************************************************************)
(* Small instances of SourceScan for TLC.                                  *)
(***************************************************************************)
EXTENDS SourceScan, TLC

CONSTANTS r1, r2, s1, s2, b1, b2, k1

MCNone == {}
OneRun == {r1}
TwoRuns == {r1, r2}
OneSource == {s1}
TwoSources == {s1, s2}
TwoBlocks == {b1, b2}
OneBlock == {b1}
OneStory == {k1}
TellsOne == [b \in Block |-> k1]
SecondBlock == {b2}

\* Two sources that tell the same news, or one whose page changes.
TwoTellers == (s1 :> {{b1}}) @@ (s2 :> {{b1}})
OneChanging == (s1 :> SUBSET TwoBlocks \ {{}}) @@ (s2 :> {})
TellersOrChanging == {TwoTellers, OneChanging}
AnyPage == {[s \in Source |-> SUBSET Block \ {{}}]}

NotionResumes == {[status |-> "active", due |-> TRUE]}

Runs == Permutations({r1, r2})
=============================================================================
