----------------------------- MODULE MCSlackBot -----------------------------
(* Instances of SlackBot for TLC. *)
EXTENDS SlackBot

CONSTANTS d1, d2, d3, t1, t2, s1, s2, r1

TwoDeliveries == {d1, d2}
ThreeDeliveries == {d1, d2, d3}
OneThread == {t1}
TwoThreads == {t1, t2}
OneScope == {s1}
TwoScopes == {s1, s2}
OneRequest == {r1}
=============================================================================
