---------------------------- MODULE MCMemoryReads ----------------------------
(* Instances of MemoryReads for TLC. *)
EXTENDS MemoryReads, TLC

CONSTANTS u1, u2, o1, o2, t1, m1, m2

TwoUsers == {u1, u2}
TwoOrgs == {o1, o2}
OneTeam == {t1}
TwoMemories == {m1, m2}

\* No action or property tells two elements of one of these sets apart.
Symmetry == Permutations(Users) \cup Permutations(Orgs) \cup Permutations(Teams)
              \cup Permutations(MemoryIds)

\* A bound: one invite is out at a time, and none lapses.
FewInvites ==
  /\ \A i \in Orgs \X Users : invites[i] # "lapsed"
  /\ Cardinality({i \in Orgs \X Users : invites[i] # "none"}) <= 1
=============================================================================
