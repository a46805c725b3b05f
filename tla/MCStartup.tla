------------------------------ MODULE MCStartup ------------------------------
(* Instances of Startup for TLC. *)
EXTENDS StartupGuards

CONSTANT u1

OneAccount == {u1}
=============================================================================
