---------------------------- MODULE MCEventBroker ----------------------------
(* Instances of EventBroker for TLC. *)
EXTENDS EventBroker

CONSTANTS u1, u2, o1, c1, c2, e1

OneUser == {u1}
TwoUsers == {u1, u2}
OneOrg == {o1}
TwoClients == {c1, c2}
OneEvent == {e1}
=============================================================================
