-------------------------- MODULE MCMemoryVersions --------------------------
(* Instances of MemoryVersions for TLC. *)
EXTENDS MemoryVersions, TLC

CONSTANTS u1, u2, o1, t1, m1, m2, x1, x2

TwoUsers == {u1, u2}
OneOrg == {o1}
OneTeam == {t1}
TwoMemories == {m1, m2}
TwoTexts == {x1, x2}

\* No action or property tells two elements of one of these sets apart.
Symmetry == Permutations(Users) \cup Permutations(MemoryIds) \cup Permutations(Texts)

\* A bound: no invite lapses, there are no admins, and the process does not
\* die inside POST /orgs.
PlainMembership ==
  /\ \A i \in Orgs \X Users : invites[i] # "lapsed"
  /\ \A u \in Users : users[u].org_role # "admin"
  /\ \A o \in Orgs : owner_id[o] # None => Members(o) # {}
=============================================================================
