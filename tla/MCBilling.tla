------------------------------ MODULE MCBilling ------------------------------
(* Instances of Billing for model checking. *)
EXTENDS Billing

CONSTANTS u1, c1, c2, s1, r1, r2

OneUser == {u1}
TwoCustomers == {c1, c2}
OneSubscription == {s1}
ProOnly == {"pro"}
TwoRequests == {r1, r2}
=============================================================================
