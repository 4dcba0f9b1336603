---------------------------- MODULE MCNotionSync ----------------------------
(***************************************************************************)
(* A small instance of NotionSync for TLC.                                 *)
(***************************************************************************)
EXTENDS NotionSync, TLC

CONSTANTS w1, w2, s1, s2, s3, t1, f1, f2

MCWorker == {w1, w2}
MCSource == {s1, s2, s3}
MCParent == [s \in MCSource |-> s1]
MCScopes == {
    [events |-> {"sync", "control", "api", "edit", "onboard", "scan", "cut", "trash"},
     rows |-> {s1}, texts |-> {"long"}],
    [events |-> {"sync", "control", "api", "onboard"},
     rows |-> {s1}, texts |-> {"plain", "padded", "long"}],
    [events |-> {"sync", "control", "person", "edit", "onboard"},
     rows |-> {s1, s2}, texts |-> {"plain"}],
    [events |-> {"sync", "control", "person"}, rows |-> {s1}, texts |-> {"padded", "long"}],
    [events |-> {"sync", "control", "findings", "cut", "trash"},
     rows |-> {f1, f2, t1}, texts |-> {}],
    [events |-> {"sync", "after", "findings", "edit", "cut", "reset"},
     rows |-> {f1}, texts |-> {}],
    [events |-> {"sync", "control", "setup", "cut"}, rows |-> {t1}, texts |-> {}],
    [events |-> {"grow", "sync"}, rows |-> {s1, s2, s3}, texts |-> {"plain"}],
    [events |-> {"digest", "sync", "cut", "reset"}, rows |-> {}, texts |-> {}]}
=============================================================================
