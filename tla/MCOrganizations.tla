--------------------------- MODULE MCOrganizations ---------------------------
(* Instances of Organizations for TLC. *)
EXTENDS Organizations, TLC

CONSTANTS u1, u2, u3, o1, o2, t1, t2

ThreeUsers == {u1, u2, u3}
TwoUsers == {u1, u2}
TwoOrgs == {o1, o2}
OneOrg == {o1}
TwoTeams == {t1, t2}
OneTeam == {t1}

\* No action or property tells two users, two orgs or two teams apart.
Symmetry == Permutations(Users) \cup Permutations(Orgs) \cup Permutations(Teams)
=============================================================================
