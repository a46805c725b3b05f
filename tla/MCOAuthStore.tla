----------------------------- MODULE MCOAuthStore -----------------------------
(* An instance of OAuthStore for TLC. *)
EXTENDS OAuthStore, TLC

CONSTANTS c1, c2, u1, r1, r2, s1, s2, s3, s4, s5, s6

TwoClients == {c1, c2}
OneUser == {u1}
TwoRequests == {r1, r2}
SixSecrets == {s1, s2, s3, s4, s5, s6}

\* No action or property tells two of a kind apart.
Symmetry == Permutations(Clients) \cup Permutations(Requests) \cup Permutations(Secrets)
=============================================================================
