--------------------------- MODULE MCMemoryThreads ---------------------------
(* Instances of MemoryThreads for TLC. *)
EXTENDS MemoryThreads, TLC

CONSTANTS u1, u2, u3, o1, o2, t1, t2, m1, m2, m3

ThreeUsers == {u1, u2, u3}
TwoUsers == {u1, u2}
TwoOrgs == {o1, o2}
OneOrg == {o1}
TwoTeams == {t1, t2}
OneTeam == {t1}
ThreeMemories == {m1, m2, m3}
TwoMemories == {m1, m2}

\* No action or property tells two elements of one of these sets apart.
Symmetry == Permutations(Users) \cup Permutations(Orgs) \cup Permutations(Teams)
              \cup Permutations(MemoryIds)
=============================================================================
