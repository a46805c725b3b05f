----------------------------- MODULE MCExtension -----------------------------
(* Instances of Extension for model checking. *)
EXTENDS Extension

CONSTANTS m1, f1, f2, j1, j2

OneMessage == {m1}
TwoFlows == {f1, f2}
TwoJobs == {j1, j2}
=============================================================================
