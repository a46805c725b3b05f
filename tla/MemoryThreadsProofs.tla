------------------------- MODULE MemoryThreadsProofs -------------------------
(***************************************************************************)
(* Proofs about Organizations and MemoryThreads, for every choice of the   *)
(* constants and with the process free to die inside any handler.          *)
(*                                                                         *)
(* The membership tables come first: their types, and the invariants that  *)
(* the second part rests on.  Then the table memories: the statements of   *)
(* memory-service are few and the handlers combine them, so each statement *)
(* is first shown to keep a table sound, on the condition it is used       *)
(* under; each handler then only has to meet the conditions of its         *)
(* statements.                                                             *)
(***************************************************************************)
EXTENDS MemoryThreads, FiniteSetTheorems, TLAPS

USE NoneAssumption

\* The updates of one row of users keep its type.
LEMMA MembershipUpdates ==
  ASSUME OrgTypeOK, NEW u \in Users
  PROVE  /\ \A o \in Orgs, role \in Roles :
              AddUserToOrg(u, o, role) \in [Users -> Membership]
         /\ RemoveFromOrg(u) \in [Users -> Membership]
         /\ \A t \in Teams \cup {None} : AssignTeam(u, t) \in [Users -> Membership]
  BY DEF OrgTypeOK, Membership, AddUserToOrg, RemoveFromOrg, AssignTeam

\* What addUserToOrg writes, and on which row.
LEMMA AddUserEffect ==
  ASSUME OrgTypeOK, NEW u \in Users, NEW o \in Orgs, NEW role \in Roles,
         users' = AddUserToOrg(u, o, role)
  PROVE  /\ users'[u].org_id = o
         /\ users'[u].org_role = role
         /\ users'[u].team_id = users[u].team_id
         /\ \A v \in Users \ {u} : users'[v] = users[v]
  <1>1. users \in [Users -> Membership]
    BY DEF OrgTypeOK
  <1>2. users[u] \in [org_id : Orgs \cup {None}, org_role : Roles \cup {None},
                      team_id : Teams \cup {None}]
    BY <1>1 DEF Membership
  <1> QED
    BY <1>1, <1>2 DEF AddUserToOrg

\* POST /orgs, complete or cut short.
LEMMA CreateOrgTyped ==
  ASSUME OrgTypeOK, NEW u \in Users, NEW o \in Orgs, CreateOrg(u, o)
  PROVE  OrgTypeOK'
  <1>1. owner_id' \in [Orgs -> Users \cup {None}]
    BY DEF OrgTypeOK, CreateOrg
  <1>2. users' \in [Users -> Membership]
    BY MembershipUpdates DEF OrgTypeOK, CreateOrg, Roles
  <1> QED
    BY <1>1, <1>2 DEF OrgTypeOK, CreateOrg

\* DELETE /orgs/:id/teams/:tid
LEMMA DeleteTeamTyped ==
  ASSUME OrgTypeOK, NEW u \in Users, NEW o \in Orgs, NEW t \in Teams,
         NEW force \in BOOLEAN, DeleteTeam(u, o, t, force)
  PROVE  OrgTypeOK'
  <1>1. users' \in [Users -> Membership]
    BY DEF OrgTypeOK, DeleteTeam, Membership
  <1>2. team_org' \in [Teams -> Orgs \cup {None}]
    BY DEF OrgTypeOK, DeleteTeam
  <1> QED
    BY <1>1, <1>2 DEF OrgTypeOK, DeleteTeam

\* The routes that touch no memory.
LEMMA MembershipStepTyped ==
  ASSUME OrgTypeOK, MembershipStep
  PROVE  OrgTypeOK'
  <1>1. CASE \E u \in Users, o \in Orgs, E \in SUBSET Users : E # {} /\ Invite(u, o, E)
    BY <1>1 DEF OrgTypeOK, Invite, InviteStatus
  <1>2. CASE \E o \in Orgs, e \in Users : InviteLapses(o, e) \/ OpenLapsedInvite(o, e)
    BY <1>2 DEF OrgTypeOK, InviteLapses, OpenLapsedInvite, InviteStatus
  <1>3. CASE \E u, e \in Users, o \in Orgs : JoinOrg(u, o, e) \/ RevokeInvite(u, o, e)
    <2>1. PICK u \in Users, e \in Users, o \in Orgs : JoinOrg(u, o, e) \/ RevokeInvite(u, o, e)
      BY <1>3
    <2>2. users' \in [Users -> Membership]
      BY <2>1, MembershipUpdates DEF OrgTypeOK, JoinOrg, RevokeInvite, Roles
    <2>3. invites' \in [Orgs \X Users -> InviteStatus]
      BY <2>1 DEF OrgTypeOK, JoinOrg, RevokeInvite, InviteStatus
    <2> QED
      BY <2>1, <2>2, <2>3 DEF OrgTypeOK, JoinOrg, RevokeInvite
  <1>4. CASE \E u, v \in Users, o \in Orgs : RemoveMember(u, o, v)
    BY <1>4, MembershipUpdates DEF OrgTypeOK, RemoveMember
  <1>5. CASE \E u \in Users : LeaveOrg(u)
    BY <1>5, MembershipUpdates DEF OrgTypeOK, LeaveOrg
  <1>6. CASE \E u, v \in Users, o \in Orgs, role \in Roles : SetRole(u, o, v, role)
    BY <1>6 DEF OrgTypeOK, SetRole, Membership
  <1>7. CASE \E u \in Users, o \in Orgs, t \in Teams : CreateTeam(u, o, t)
    BY <1>7 DEF OrgTypeOK, CreateTeam
  <1>8. CASE \E u, v \in Users, o \in Orgs, t \in Teams :
               AddToTeam(u, o, t, v) \/ RemoveFromTeam(u, o, t, v)
    BY <1>8, MembershipUpdates DEF OrgTypeOK, AddToTeam, RemoveFromTeam
  <1> QED
    BY <1>1, <1>2, <1>3, <1>4, <1>5, <1>6, <1>7, <1>8 DEF MembershipStep

\* The membership tables are well typed in every state.
THEOREM OrgTypeCorrect == OrgSpec => []OrgTypeOK
  <1>1. OrgInit => OrgTypeOK
    BY DEF OrgInit, OrgTypeOK, Membership, InviteStatus
  <1>2. OrgTypeOK /\ [OrgNext]_orgVars => OrgTypeOK'
    <2> SUFFICES ASSUME OrgTypeOK, [OrgNext]_orgVars PROVE OrgTypeOK'
      OBVIOUS
    <2>1. CASE OrgNext
      BY <2>1, CreateOrgTyped, DeleteTeamTyped, MembershipStepTyped DEF OrgNext
    <2>2. CASE UNCHANGED orgVars
      BY <2>2 DEF OrgTypeOK, orgVars
    <2> QED
      BY <2>1, <2>2
  <1> QED
    BY <1>1, <1>2, PTL DEF OrgSpec
-----------------------------------------------------------------------------
(* Roles and references.  The three invariants are proved together: that a *)
(* role is held only by a member is what makes the owner of an org the     *)
(* only one, and a user's org must exist for its owner to be recorded.     *)

OrgInv == OrgTypeOK /\ OwnerIsCreator /\ OrgRefsExist

\* POST /orgs: the new org's identity was free, so nobody was in it.
LEMMA CreateOrgPreserves ==
  ASSUME OrgInv, NEW u \in Users, NEW o \in Orgs, CreateOrg(u, o)
  PROVE  OrgInv'
  <1>1. OrgTypeOK'
    BY CreateOrgTyped DEF OrgInv
  <1>2. \A v \in Users : users[v].org_id # o
    BY DEF OrgInv, OrgRefsExist, CreateOrg
  <1>3. /\ owner_id'[o] = u
        /\ \A x \in Orgs \ {o} : owner_id'[x] = owner_id[x]
        /\ team_org' = team_org /\ invites' = invites
    BY DEF OrgInv, OrgTypeOK, CreateOrg
  <1>4. CASE users' = users
    <2>1. \A v \in Users : users[v].org_id \in (Orgs \ {o}) \cup {None}
      BY <1>2 DEF OrgInv, OrgTypeOK, Membership
    <2>2. OwnerIsCreator'
      BY <1>3, <1>4, <2>1 DEF OrgInv, OwnerIsCreator, OrgTypeOK, Membership, Roles
    <2>3. OrgRefsExist'
      BY <1>1, <1>3, <1>4, <2>1 DEF OrgInv, OrgRefsExist, OrgTypeOK
    <2> QED
      BY <1>1, <2>2, <2>3 DEF OrgInv
  <1>5. CASE users' = AddUserToOrg(u, o, "owner")
    <2>1. /\ users'[u].org_id = o
          /\ users'[u].org_role = "owner"
          /\ users'[u].team_id = users[u].team_id
          /\ \A v \in Users \ {u} : users'[v] = users[v]
      BY <1>5, AddUserEffect DEF OrgInv, Roles
    <2>2. \A v \in Users : users[v].org_id \in (Orgs \ {o}) \cup {None}
      BY <1>2 DEF OrgInv, OrgTypeOK, Membership
    <2>3. OwnerIsCreator'
      BY <1>3, <2>1, <2>2 DEF OrgInv, OwnerIsCreator, OrgTypeOK, Membership, Roles
    <2>4. OrgRefsExist'
      BY <1>1, <1>3, <2>1, <2>2 DEF OrgInv, OrgRefsExist, OrgTypeOK
    <2> QED
      BY <1>1, <2>3, <2>4 DEF OrgInv
  <1> QED
    BY <1>4, <1>5 DEF CreateOrg

\* DELETE /orgs/:id/teams/:tid: nobody is left on the team, whatever org the
\* user is in.
LEMMA DeleteTeamPreserves ==
  ASSUME OrgInv, NEW u \in Users, NEW o \in Orgs, NEW t \in Teams,
         NEW force \in BOOLEAN, DeleteTeam(u, o, t, force)
  PROVE  OrgInv'
  <1>1. OrgTypeOK'
    BY DeleteTeamTyped DEF OrgInv
  <1>2. \A v \in Users : /\ users'[v].org_id = users[v].org_id
                         /\ users'[v].org_role = users[v].org_role
                         /\ users'[v].team_id # t
                         /\ users'[v].team_id \in {users[v].team_id, None}
    BY DEF OrgInv, OrgTypeOK, Membership, DeleteTeam
  <1>3. OwnerIsCreator'
    BY <1>2 DEF OrgInv, OwnerIsCreator, DeleteTeam
  <1>4. OrgRefsExist'
    BY <1>1, <1>2 DEF OrgInv, OrgTypeOK, Membership, OrgRefsExist, DeleteTeam
  <1> QED
    BY <1>1, <1>3, <1>4 DEF OrgInv

\* The other routes: each changes at most one row of users, and a team row
\* only by adding one.
LEMMA MembershipStepPreserves ==
  ASSUME OrgInv, MembershipStep
  PROVE  OrgInv'
  <1>1. OrgTypeOK'
    BY MembershipStepTyped DEF OrgInv
  <1>a. /\ users \in [Users -> Membership]
        /\ \A v \in Users : users[v] \in [org_id : Orgs \cup {None},
                              org_role : Roles \cup {None}, team_id : Teams \cup {None}]
        /\ owner_id \in [Orgs -> Users \cup {None}]
        /\ team_org \in [Teams -> Orgs \cup {None}]
        /\ invites \in [Orgs \X Users -> InviteStatus]
    BY DEF OrgInv, OrgTypeOK, Membership
  <1> SUFFICES OwnerIsCreator' /\ OrgRefsExist'
    BY <1>1 DEF OrgInv
  <1>2. CASE \E u \in Users, o \in Orgs, E \in SUBSET Users : E # {} /\ Invite(u, o, E)
    BY <1>2, <1>a DEF OrgInv, OwnerIsCreator, OrgRefsExist, Invite, IsOwner
  <1>3. CASE \E o \in Orgs, e \in Users : InviteLapses(o, e) \/ OpenLapsedInvite(o, e)
    BY <1>3, <1>a DEF OrgInv, OwnerIsCreator, OrgRefsExist, InviteLapses, OpenLapsedInvite
  <1>4. CASE \E u, e \in Users, o \in Orgs : JoinOrg(u, o, e)
    <2>1. PICK u \in Users, e \in Users, o \in Orgs : JoinOrg(u, o, e)
      BY <1>4
    <2>2. /\ users'[u].org_id = o
          /\ users'[u].org_role = "member"
          /\ users'[u].team_id = users[u].team_id
          /\ \A v \in Users \ {u} : users'[v] = users[v]
      BY <2>1, AddUserEffect DEF OrgInv, JoinOrg, Roles
    <2>3. owner_id[o] # None /\ owner_id' = owner_id /\ team_org' = team_org
      BY <2>1 DEF OrgInv, OrgRefsExist, JoinOrg
    <2>4. \A i \in Orgs, f \in Users :
            invites'[<<i, f>>] # "none" => invites[<<i, f>>] # "none"
      BY <2>1, <1>a DEF JoinOrg
    <2> QED
      BY <2>2, <2>3, <2>4 DEF OrgInv, OwnerIsCreator, OrgRefsExist, Roles
  <1>5. CASE \E u, e \in Users, o \in Orgs : RevokeInvite(u, o, e)
    BY <1>5, <1>a DEF OrgInv, OwnerIsCreator, OrgRefsExist, RevokeInvite
  <1>6. CASE \E v \in Users : /\ users' = RemoveFromOrg(v)
                              /\ UNCHANGED <<owner_id, team_org, invites>>
    <2>1. PICK v \in Users : /\ users' = RemoveFromOrg(v)
                             /\ UNCHANGED <<owner_id, team_org, invites>>
      BY <1>6
    <2>2. /\ users'[v].org_id = None
          /\ users'[v].org_role = None
          /\ users'[v].team_id = users[v].team_id
          /\ \A w \in Users \ {v} : users'[w] = users[w]
      BY <2>1, <1>a DEF RemoveFromOrg
    <2> QED
      BY <2>1, <2>2 DEF OrgInv, OwnerIsCreator, OrgRefsExist, Roles
  <1>7. CASE \E u, v \in Users, o \in Orgs, role \in Roles : SetRole(u, o, v, role)
    <2>1. PICK u \in Users, v \in Users, o \in Orgs, role \in Roles : SetRole(u, o, v, role)
      BY <1>7
    <2>2. /\ users'[v].org_id = users[v].org_id
          /\ users'[v].org_role = role
          /\ users'[v].team_id = users[v].team_id
          /\ \A w \in Users \ {v} : users'[w] = users[w]
      BY <2>1, <1>a DEF SetRole
    <2>3. users[v].org_id # None /\ role # "owner" /\ role # None
      BY <2>1 DEF SetRole, Roles
    <2> QED
      BY <2>1, <2>2, <2>3 DEF OrgInv, OwnerIsCreator, OrgRefsExist, SetRole
  <1>8. CASE \E u \in Users, o \in Orgs, t \in Teams : CreateTeam(u, o, t)
    BY <1>8, <1>a DEF OrgInv, OwnerIsCreator, OrgRefsExist, CreateTeam, IsAdmin
  <1>9. CASE \E v \in Users, t \in Teams \cup {None} :
               /\ t # None => team_org[t] # None
               /\ users' = AssignTeam(v, t)
               /\ UNCHANGED <<owner_id, team_org, invites>>
    <2>1. PICK v \in Users, t \in Teams \cup {None} :
               /\ t # None => team_org[t] # None
               /\ users' = AssignTeam(v, t)
               /\ UNCHANGED <<owner_id, team_org, invites>>
      BY <1>9
    <2>2. /\ users'[v].org_id = users[v].org_id
          /\ users'[v].org_role = users[v].org_role
          /\ users'[v].team_id = t
          /\ \A w \in Users \ {v} : users'[w] = users[w]
      BY <2>1, <1>a DEF AssignTeam
    <2> QED
      BY <2>1, <2>2 DEF OrgInv, OwnerIsCreator, OrgRefsExist
  <1>10. ASSUME NEW u \in Users, NEW v \in Users, NEW o \in Orgs, RemoveMember(u, o, v)
         PROVE  OwnerIsCreator' /\ OrgRefsExist'
    BY <1>6, <1>10 DEF RemoveMember
  <1>11. ASSUME NEW u \in Users, LeaveOrg(u)
         PROVE  OwnerIsCreator' /\ OrgRefsExist'
    BY <1>6, <1>11 DEF LeaveOrg
  <1>12. ASSUME NEW u \in Users, NEW v \in Users, NEW o \in Orgs, NEW t \in Teams,
                AddToTeam(u, o, t, v) \/ RemoveFromTeam(u, o, t, v)
         PROVE  OwnerIsCreator' /\ OrgRefsExist'
    BY <1>9, <1>12 DEF AddToTeam, RemoveFromTeam
  <1> QED
    BY <1>2, <1>3, <1>4, <1>5, <1>7, <1>8, <1>10, <1>11, <1>12 DEF MembershipStep

LEMMA OrgInvInductive ==
  /\ OrgInit => OrgInv
  /\ OrgInv /\ [OrgNext]_orgVars => OrgInv'
  <1>1. OrgInit => OrgInv
    BY DEF OrgInit, OrgInv, OrgTypeOK, Membership, InviteStatus, OwnerIsCreator,
           OrgRefsExist, Roles
  <1>2. ASSUME OrgInv, OrgNext PROVE OrgInv'
    BY <1>2, CreateOrgPreserves, DeleteTeamPreserves, MembershipStepPreserves DEF OrgNext
  <1>3. ASSUME OrgInv, UNCHANGED orgVars PROVE OrgInv'
    BY <1>3 DEF OrgInv, OrgTypeOK, OwnerIsCreator, OrgRefsExist, orgVars
  <1> QED
    BY <1>1, <1>2, <1>3

\* Nobody but its creator ever holds the role of owner of an org.
THEOREM OwnerCorrect == OrgSpec => []OwnerIsCreator
  <1>1. OrgInv => OwnerIsCreator
    BY DEF OrgInv
  <1> QED
    BY <1>1, OrgInvInductive, PTL DEF OrgSpec

\* The foreign keys between the membership tables hold in every state.
THEOREM OrgReferencesHold == OrgSpec => []OrgRefsExist
  <1>1. OrgInv => OrgRefsExist
    BY DEF OrgInv
  <1> QED
    BY <1>1, OrgInvInductive, PTL DEF OrgSpec
-----------------------------------------------------------------------------
(* Seats.  Only POST /orgs and POST /orgs/join add a member; the first to  *)
(* an org nobody was in, the second below the limit.                       *)

LEMMA MembersFinite ==
  ASSUME NEW o \in Orgs
  PROVE  IsFiniteSet(Members(o)) /\ Cardinality(Members(o)) \in Nat
  <1>1. Members(o) \in SUBSET Users
    BY DEF Members
  <1>2. IsFiniteSet(Members(o))
    BY <1>1, UsersAssumption, FS_Subset
  <1> QED
    BY <1>2, FS_CardinalityType

\* An org whose members all were members before has no more of them.
LEMMA NoNewMember ==
  ASSUME NEW o \in Orgs, Members(o)' \subseteq Members(o), SeatLimit
  PROVE  Cardinality(Members(o)') <= MaxSeats
  <1>1. /\ Cardinality(Members(o)') <= Cardinality(Members(o))
        /\ IsFiniteSet(Members(o)')
    BY MembersFinite, FS_Subset
  <1>2. Cardinality(Members(o)') \in Nat
    BY <1>1, FS_CardinalityType
  <1> QED
    BY <1>1, <1>2, MembersFinite, SeatsAssumption DEF SeatLimit

\* addUserToOrg below the limit.
LEMMA OneNewMember ==
  ASSUME OrgTypeOK, SeatLimit, NEW u \in Users, NEW o \in Orgs, NEW role \in Roles,
         users' = AddUserToOrg(u, o, role), Cardinality(Members(o)) < MaxSeats
  PROVE  SeatLimit'
  <1>1. /\ users'[u].org_id = o
        /\ \A v \in Users \ {u} : users'[v] = users[v]
    BY AddUserEffect
  <1>2. Members(o)' = Members(o) \cup {u}
    BY <1>1 DEF Members
  <1>3. Cardinality(Members(o)') <= MaxSeats
    <2>1. IsFiniteSet(Members(o)) /\ Cardinality(Members(o)) \in Nat
      BY MembersFinite
    <2>2. Cardinality(Members(o) \cup {u}) \in {Cardinality(Members(o)), Cardinality(Members(o)) + 1}
      BY <2>1, FS_AddElement
    <2> QED
      BY <1>2, <2>1, <2>2, SeatsAssumption
  <1>4. ASSUME NEW x \in Orgs, x # o PROVE Cardinality(Members(x)') <= MaxSeats
    <2>1. Members(x)' \subseteq Members(x)
      BY <1>1, <1>4 DEF Members
    <2> QED
      BY <2>1, NoNewMember
  <1> QED
    BY <1>3, <1>4 DEF SeatLimit

\* Joining never takes an org beyond its seats, however many invites are out.
THEOREM SeatsCorrect == OrgSpec => []SeatLimit
  <1>1. OrgInit => SeatLimit
    <2> SUFFICES ASSUME OrgInit, NEW o \in Orgs PROVE Cardinality(Members(o)) <= MaxSeats
      BY DEF SeatLimit
    <2>1. Members(o) = {}
      BY DEF OrgInit, Members
    <2> QED
      BY <2>1, FS_EmptySet, SeatsAssumption
  <1>2. OrgInv /\ SeatLimit /\ [OrgNext]_orgVars => SeatLimit'
    <2> SUFFICES ASSUME OrgInv, SeatLimit, [OrgNext]_orgVars PROVE SeatLimit'
      OBVIOUS
    <2>1. OrgTypeOK
      BY DEF OrgInv
    <2>2. CASE \A v \in Users : users'[v].org_id \in {users[v].org_id, None}
      <3>1. \A o \in Orgs : Members(o)' \subseteq Members(o)
        BY <2>2 DEF Members
      <3> QED
        BY <3>1, NoNewMember DEF SeatLimit
    <2>3. ASSUME NEW u \in Users, NEW o \in Orgs, CreateOrg(u, o) PROVE SeatLimit'
      <3>1. Members(o) = {}
        BY <2>3 DEF OrgInv, OrgRefsExist, CreateOrg, Members
      <3>2. Cardinality(Members(o)) < MaxSeats
        BY <3>1, FS_EmptySet, SeatsAssumption
      <3> QED
        BY <2>1, <2>2, <2>3, <3>2, OneNewMember DEF CreateOrg, Roles
    <2>4. ASSUME NEW u \in Users, NEW e \in Users, NEW o \in Orgs, JoinOrg(u, o, e)
          PROVE  SeatLimit'
      BY <2>1, <2>4, OneNewMember DEF JoinOrg, Roles
    <2>5. ASSUME NEW v \in Users, users' = RemoveFromOrg(v) PROVE SeatLimit'
      BY <2>1, <2>2, <2>5 DEF OrgTypeOK, Membership, RemoveFromOrg
    <2>6. ASSUME NEW v \in Users, NEW t \in Teams \cup {None}, users' = AssignTeam(v, t)
          PROVE  SeatLimit'
      BY <2>1, <2>2, <2>6 DEF OrgTypeOK, Membership, AssignTeam
    <2>7. ASSUME NEW u \in Users, NEW v \in Users, NEW o \in Orgs, NEW role \in Roles,
                 SetRole(u, o, v, role)
          PROVE  SeatLimit'
      BY <2>1, <2>2, <2>7 DEF OrgTypeOK, Membership, SetRole
    <2>8. ASSUME NEW u \in Users, NEW o \in Orgs, NEW t \in Teams, NEW force \in BOOLEAN,
                 DeleteTeam(u, o, t, force)
          PROVE  SeatLimit'
      BY <2>1, <2>2, <2>8 DEF OrgTypeOK, Membership, DeleteTeam
    <2>9. CASE UNCHANGED users
      BY <2>2, <2>9
    <2>10. CASE MembershipStep
      <3>1. CASE \E u, v \in Users, o \in Orgs : RemoveMember(u, o, v)
        BY <3>1, <2>5 DEF RemoveMember
      <3>2. CASE \E u \in Users : LeaveOrg(u)
        BY <3>2, <2>5 DEF LeaveOrg
      <3>3. CASE \E u, v \in Users, o \in Orgs, t \in Teams :
                   AddToTeam(u, o, t, v) \/ RemoveFromTeam(u, o, t, v)
        BY <3>3, <2>6 DEF AddToTeam, RemoveFromTeam
      <3>4. CASE \E u \in Users, o \in Orgs, E \in SUBSET Users : E # {} /\ Invite(u, o, E)
        BY <3>4, <2>9 DEF Invite
      <3>5. CASE \E o \in Orgs, e \in Users : InviteLapses(o, e) \/ OpenLapsedInvite(o, e)
        BY <3>5, <2>9 DEF InviteLapses, OpenLapsedInvite
      <3>6. CASE \E u, e \in Users, o \in Orgs : JoinOrg(u, o, e) \/ RevokeInvite(u, o, e)
        BY <3>6, <2>4, <2>9 DEF RevokeInvite
      <3>7. CASE \E u \in Users, o \in Orgs, t \in Teams : CreateTeam(u, o, t)
        BY <3>7, <2>9 DEF CreateTeam
      <3> QED
        BY <2>10, <3>1, <3>2, <3>3, <3>4, <3>5, <3>6, <3>7, <2>7 DEF MembershipStep
    <2> QED
      BY <2>3, <2>8, <2>9, <2>10 DEF OrgNext, orgVars
  <1> QED
    BY <1>1, <1>2, OrgInvInductive, PTL DEF OrgSpec
-----------------------------------------------------------------------------
(* Sub-teams. *)

\* Of all routes only POST /orgs/:id/teams/:tid/members puts a user on a team.
LEMMA TeamJoined ==
  ASSUME OrgTypeOK, [OrgNext]_orgVars, NEW v \in Users,
         users'[v].team_id \notin {users[v].team_id, None}
  PROVE  /\ users[v].org_id = team_org[users'[v].team_id]
         /\ \E u \in Users : IsAdmin(u, users[v].org_id)
  <1>a. /\ users \in [Users -> Membership]
        /\ \A w \in Users : users[w] \in [org_id : Orgs \cup {None},
                              org_role : Roles \cup {None}, team_id : Teams \cup {None}]
    BY DEF OrgTypeOK, Membership
  <1>1. ASSUME NEW w \in Users, NEW o \in Orgs, NEW role \in Roles,
               users' = AddUserToOrg(w, o, role)
        PROVE  FALSE
    BY <1>1, AddUserEffect
  <1>2. ASSUME NEW w \in Users, users' = RemoveFromOrg(w)
        PROVE  FALSE
    BY <1>a, <1>2 DEF RemoveFromOrg
  <1>3. ASSUME NEW u \in Users, NEW w \in Users, NEW o \in Orgs, NEW role \in Roles,
               SetRole(u, o, w, role)
        PROVE  FALSE
    BY <1>a, <1>3 DEF SetRole
  <1>4. ASSUME NEW u \in Users, NEW o \in Orgs, NEW t \in Teams, NEW force \in BOOLEAN,
               DeleteTeam(u, o, t, force)
        PROVE  FALSE
    BY <1>a, <1>4 DEF DeleteTeam
  <1>5. ASSUME UNCHANGED users
        PROVE  FALSE
    BY <1>5
  <1>6. ASSUME NEW w \in Users, users' = AssignTeam(w, None)
        PROVE  FALSE
    BY <1>a, <1>6 DEF AssignTeam
  <1>7. ASSUME NEW u \in Users, NEW w \in Users, NEW o \in Orgs, NEW t \in Teams,
               AddToTeam(u, o, t, w)
        PROVE  /\ users[v].org_id = team_org[users'[v].team_id]
               /\ \E x \in Users : IsAdmin(x, users[v].org_id)
    <2>1. v = w /\ users'[v].team_id = t
      BY <1>a, <1>7 DEF AddToTeam, AssignTeam
    <2> QED
      BY <1>7, <2>1 DEF AddToTeam
  <1>8. CASE MembershipStep
    <2>1. ASSUME NEW u \in Users, NEW w \in Users, NEW o \in Orgs,
                 RemoveMember(u, o, w) \/ LeaveOrg(w)
          PROVE  FALSE
      BY <1>2, <2>1 DEF RemoveMember, LeaveOrg
    <2>2. ASSUME NEW u \in Users, NEW e \in Users, NEW o \in Orgs,
                 JoinOrg(u, o, e) \/ RevokeInvite(u, o, e)
          PROVE  FALSE
      BY <1>1, <1>5, <2>2 DEF JoinOrg, RevokeInvite, Roles
    <2>3. ASSUME NEW u \in Users, NEW w \in Users, NEW o \in Orgs, NEW t \in Teams,
                 RemoveFromTeam(u, o, t, w)
          PROVE  FALSE
      BY <1>6, <2>3 DEF RemoveFromTeam
    <2>4. ASSUME \/ \E u \in Users, o \in Orgs, E \in SUBSET Users : Invite(u, o, E)
                 \/ \E o \in Orgs, e \in Users : InviteLapses(o, e) \/ OpenLapsedInvite(o, e)
                 \/ \E u \in Users, o \in Orgs, t \in Teams : CreateTeam(u, o, t)
          PROVE  FALSE
      BY <1>5, <2>4 DEF Invite, InviteLapses, OpenLapsedInvite, CreateTeam
    <2>5. CASE \E u \in Users : LeaveOrg(u)
      BY <1>2, <2>5 DEF LeaveOrg
    <2> QED
      BY <1>3, <1>7, <1>8, <2>1, <2>2, <2>3, <2>4, <2>5 DEF MembershipStep
  <1>9. ASSUME NEW u \in Users, NEW o \in Orgs, CreateOrg(u, o)
        PROVE  FALSE
    BY <1>1, <1>5, <1>9 DEF CreateOrg, Roles
  <1> QED
    BY <1>4, <1>5, <1>8, <1>9 DEF OrgNext, orgVars

\* A user comes onto a team only of the own org, and only while that org has
\* an admin to do it.
THEOREM TeamsJoinedCorrect == OrgSpec => JoinsTeamOfOwnOrg
  <1>1. ASSUME OrgTypeOK, [OrgNext]_orgVars
        PROVE  \A v \in Users :
                 users'[v].team_id \notin {users[v].team_id, None} =>
                   /\ users[v].org_id = team_org[users'[v].team_id]
                   /\ \E u \in Users : IsAdmin(u, users[v].org_id)
    BY <1>1, TeamJoined
  <1> QED
    BY <1>1, OrgTypeCorrect, PTL DEF OrgSpec, JoinsTeamOfOwnOrg

-----------------------------------------------------------------------------
(* MemoryThreads. *)

USE NoneAssumption, IdsAssumption

\* TypeOK, OneLevelThreads, ScopesExclusive and ScopesExist of a table.
Typed(T) == DOMAIN T \subseteq MemoryIds /\ T \in [DOMAIN T -> Row]

Threaded(T) ==
  \A m \in DOMAIN T :
    T[m].parent # None => T[m].parent \in DOMAIN T /\ T[T[m].parent].parent = None

Scoped(T) ==
  \A m \in DOMAIN T :
    /\ T[m].org = None \/ T[m].team = None
    /\ T[m].org # None => owner_id[T[m].org] # None
    /\ T[m].team # None => team_org[T[m].team] # None

Sound(T) == Typed(T) /\ Threaded(T) /\ Scoped(T)

\* What a statement may put into the share columns.
ValidScope(o, t) ==
  /\ o \in Orgs \cup {None} /\ t \in Teams \cup {None}
  /\ o = None \/ t = None
  /\ o # None => owner_id[o] # None
  /\ t # None => team_org[t] # None

Inv == OrgInv /\ Sound(memories)
-----------------------------------------------------------------------------
(* Statements. *)

LEMMA SetDeletedSound ==
  ASSUME NEW T, Sound(T), NEW S, NEW flag \in BOOLEAN
  PROVE  Sound(SetDeleted(T, S, flag)) /\ DOMAIN SetDeleted(T, S, flag) = DOMAIN T
  <1> DEFINE U == SetDeleted(T, S, flag)
  <1>1. DOMAIN U = DOMAIN T
    BY DEF SetDeleted
  <1>2. \A m \in DOMAIN T : /\ U[m] \in Row
                            /\ U[m].parent = T[m].parent
                            /\ U[m].org = T[m].org
                            /\ U[m].team = T[m].team
    BY DEF SetDeleted, Sound, Typed, Row
  <1>3. U \in [DOMAIN U -> Row]
    BY <1>1, <1>2 DEF SetDeleted
  <1> QED
    BY <1>1, <1>2, <1>3 DEF Sound, Typed, Threaded, Scoped

LEMMA SetScopeSound ==
  ASSUME NEW T, Sound(T), NEW S, NEW o, NEW t, ValidScope(o, t)
  PROVE  Sound(SetScope(T, S, o, t)) /\ DOMAIN SetScope(T, S, o, t) = DOMAIN T
  <1> DEFINE U == SetScope(T, S, o, t)
  <1>1. DOMAIN U = DOMAIN T
    BY DEF SetScope
  <1>2. \A m \in DOMAIN T : /\ U[m] \in Row
                            /\ U[m].parent = T[m].parent
                            /\ \/ U[m].org = T[m].org /\ U[m].team = T[m].team
                               \/ U[m].org = o /\ U[m].team = t
    BY DEF SetScope, Sound, Typed, Row, ValidScope
  <1>3. U \in [DOMAIN U -> Row]
    BY <1>1, <1>2 DEF SetScope
  <1> QED
    BY <1>1, <1>2, <1>3 DEF Sound, Typed, Threaded, Scoped, ValidScope

\* A new row is sound if it starts a thread or replies to a row that does.
LEMMA InsertSound ==
  ASSUME NEW T, Sound(T), NEW m \in MemoryIds \ DOMAIN T, NEW row \in Row,
         ValidScope(row.org, row.team),
         row.parent # None => row.parent \in DOMAIN T /\ T[row.parent].parent = None
  PROVE  Sound(Insert(T, m, row)) /\ DOMAIN Insert(T, m, row) = DOMAIN T \cup {m}
  <1> DEFINE U == Insert(T, m, row)
  <1>1. DOMAIN U = DOMAIN T \cup {m}
    BY DEF Insert
  <1>2. U[m] = row /\ \A x \in DOMAIN T : U[x] = T[x]
    BY DEF Insert
  <1>3. U \in [DOMAIN U -> Row]
    BY <1>1, <1>2 DEF Insert, Sound, Typed
  <1> QED
    BY <1>1, <1>2, <1>3 DEF Sound, Typed, Threaded, Scoped, ValidScope

\* Rows may be deleted together if none that stays replies to one of them.
LEMMA PurgeSound ==
  ASSUME NEW T, Sound(T), NEW S \in SUBSET MemoryIds,
         \A x \in DOMAIN T \ S : T[x].parent \notin S
  PROVE  Sound(Purge(T, S)) /\ DOMAIN Purge(T, S) = DOMAIN T \ S
  <1> DEFINE U == Purge(T, S)
  <1>1. DOMAIN U = DOMAIN T \ S /\ \A x \in DOMAIN T \ S : U[x] = T[x]
    BY DEF Purge
  <1>2. U \in [DOMAIN U -> Row]
    BY <1>1 DEF Purge, Sound, Typed
  <1> QED
    BY <1>1, <1>2 DEF Sound, Typed, Threaded, Scoped

LEMMA OrphanSound ==
  ASSUME NEW T, Sound(T), NEW S
  PROVE  /\ Sound(Orphan(T, S))
         /\ DOMAIN Orphan(T, S) = DOMAIN T
         /\ \A x \in DOMAIN T : Orphan(T, S)[x].parent = IF x \in S THEN None ELSE T[x].parent
  <1> DEFINE U == Orphan(T, S)
  <1>1. DOMAIN U = DOMAIN T
    BY DEF Orphan
  <1>2. \A x \in DOMAIN T : /\ U[x] \in Row
                            /\ U[x].parent = IF x \in S THEN None ELSE T[x].parent
                            /\ U[x].org = T[x].org
                            /\ U[x].team = T[x].team
    BY DEF Orphan, Sound, Typed, Row
  <1>3. U \in [DOMAIN U -> Row]
    BY <1>1, <1>2 DEF Orphan
  <1>4. Threaded(U)
    BY <1>1, <1>2 DEF Sound, Threaded
  <1> QED
    BY <1>1, <1>2, <1>3, <1>4 DEF Sound, Typed, Scoped
-----------------------------------------------------------------------------
(* Writing. *)

\* A user's own org and team are scopes that exist.
LEMMA OwnScopesValid ==
  ASSUME Inv, NEW u \in Users
  PROVE  /\ users[u].team_id \in Teams \cup {None} /\ users[u].org_id \in Orgs \cup {None}
         /\ ValidScope(None, users[u].team_id)
         /\ ValidScope(users[u].org_id, None)
         /\ ValidScope(None, None)
  BY DEF Inv, OrgInv, OrgTypeOK, Membership, OrgRefsExist, ValidScope

LEMMA SavedSound ==
  ASSUME Inv, NEW u \in Users, NEW intent \in ShareIntents, NEW m \in MemoryIds, NEW T,
         Saved(u, intent, m, T)
  PROVE  Sound(T)
  <1>1. Personal(u) \in Row /\ Personal(u).parent = None
    BY DEF Personal, Row
  <1>2. ValidScope(Personal(u).org, Personal(u).team)
    BY OwnScopesValid DEF Personal
  <1>3. Sound(memories)
    BY DEF Inv
  <1>4. ASSUME m \in MemoryIds \ DOMAIN memories
        PROVE  Sound(Insert(memories, m, Personal(u)))
    BY <1>1, <1>2, <1>3, <1>4, InsertSound
  <1> QED
    BY <1>3, <1>4 DEF Saved, Ids

LEMMA ApplyShareScopeSound ==
  ASSUME Inv, NEW u \in Users, NEW intent \in ShareIntents, NEW m, NEW T, Sound(T)
  PROVE  Sound(ApplyShareScope(u, intent, m, T))
  BY OwnScopesValid, SetScopeSound DEF ApplyShareScope

LEMMA WritesSound ==
  ASSUME Inv, NEW u \in Users, NEW intent \in ShareIntents,
         CreateMemory(u, intent) \/ WriteMemoryTool(u, intent) \/ CreateCiTestMemory(u, intent)
  PROVE  Sound(memories')
  <1>1. CASE CreateMemory(u, intent)
    BY <1>1, SavedSound, ApplyShareScopeSound DEF CreateMemory
  <1>2. CASE WriteMemoryTool(u, intent)
    <2>1. "personal" \in ShareIntents
      BY DEF ShareIntents
    <2> QED
      BY <1>2, <2>1, SavedSound, ApplyShareScopeSound DEF WriteMemoryTool
  <1>3. CASE CreateCiTestMemory(u, intent)
    BY <1>3, SavedSound, SetDeletedSound DEF CreateCiTestMemory
  <1> QED
    BY <1>1, <1>2, <1>3

LEMMA CreateChildSound ==
  ASSUME Inv, NEW u \in Users, NEW p \in MemoryIds, NEW m \in MemoryIds,
         CreateChildMemory(u, p, m)
  PROVE  Sound(memories')
  <1> DEFINE row == [Personal(u) EXCEPT !.parent = p, !.org = memories[p].org]
  <1>1. memories[p] \in Row /\ p \in DOMAIN memories
    BY DEF CreateChildMemory, Inv, Sound, Typed, Ids
  <1>2. row \in Row /\ row.parent = p /\ row.org = memories[p].org /\ row.team = None
    BY <1>1 DEF Personal, Row
  <1>3. ValidScope(row.org, row.team)
    BY <1>1, <1>2 DEF Inv, Sound, Scoped, ValidScope, Row
  <1> QED
    BY <1>1, <1>2, <1>3, InsertSound DEF CreateChildMemory, Inv, Ids
-----------------------------------------------------------------------------
(* Trash. *)

LEMMA TrashMovesSound ==
  ASSUME Inv, NEW u \in Users, NEW m \in Ids,
         SoftDelete(u, m) \/ DeleteMemoryTool(u, m) \/ Restore(u, m)
  PROVE  Sound(memories')
  <1>1. CASE SoftDelete(u, m)
    BY <1>1, SetDeletedSound DEF SoftDelete, Inv
  <1>2. CASE DeleteMemoryTool(u, m)
    BY <1>2, SetDeletedSound DEF DeleteMemoryTool, Inv
  <1>3. CASE Restore(u, m)
    BY <1>3, SetDeletedSound DEF Restore, Inv
  <1> QED
    BY <1>1, <1>2, <1>3

\* The cascade may stop anywhere: the replies it reached are gone or have no
\* parent any more, and the parent itself goes only when it reached them all.
LEMMA PermanentDeleteSound ==
  ASSUME Inv, NEW u \in Users, NEW m \in Ids, PermanentDelete(u, m)
  PROVE  Sound(memories')
  <1> DEFINE cascade == IF memories[m].parent = None THEN Children(m) ELSE {}
  <1>0. PICK done \in Committed(cascade) :
          \E gone \in IF done = cascade THEN Committed({m}) ELSE {{}} :
            memories' = Purge(CascadeHardDelete(u, m, done), gone)
    BY DEF PermanentDelete
  <1>1. PICK gone \in IF done = cascade THEN Committed({m}) ELSE {{}} :
          memories' = Purge(CascadeHardDelete(u, m, done), gone)
    BY <1>0
  <1>2. done \subseteq cascade /\ gone \in SUBSET {m} /\ (gone # {} => done = cascade)
    BY <1>1 DEF Committed
  <1>3. /\ Sound(memories) /\ Ids \subseteq MemoryIds
        /\ \A c \in Children(m) : c \in Ids /\ memories[c].parent = m
    BY DEF Inv, Sound, Typed, Ids, Children
  <1> DEFINE own == done \cap OwnChildren(u, m)
             T == Orphan(memories, done \ OwnChildren(u, m))
             U == Purge(T, own)
  <1>4. \A c \in done : memories[m].parent = None /\ memories[c].parent = m /\ c \in Ids
    BY <1>2, <1>3
  <1>5. /\ Sound(T) /\ DOMAIN T = Ids
        /\ \A x \in Ids : T[x].parent = IF x \in done \ OwnChildren(u, m)
                                        THEN None ELSE memories[x].parent
    BY <1>3, OrphanSound DEF Ids
  <1>6. \A x \in Ids : memories[x].parent \notin own
    \* a row that is replied to starts a thread, a reached row does not
    BY <1>3, <1>4 DEF Inv, Sound, Threaded, Ids
  <1>7. \A x \in Ids : T[x].parent \notin own
    BY <1>3, <1>4, <1>5, <1>6
  <1>8. Sound(U) /\ DOMAIN U = Ids \ own
    BY <1>3, <1>4, <1>5, <1>7, PurgeSound
  <1>9. \A x \in Ids \ own : U[x] = T[x]
    BY <1>5 DEF Purge
  <1>10. \A x \in DOMAIN U \ gone : U[x].parent \notin gone
    <2> SUFFICES ASSUME NEW x \in DOMAIN U \ gone, U[x].parent \in gone PROVE FALSE
      OBVIOUS
    <2>1. x \in Ids \ own /\ gone = {m} /\ T[x].parent = m
      BY <1>2, <1>8, <1>9
    <2>2. memories[x].parent = m /\ x \notin done
      BY <1>3, <1>5, <2>1 DEF OwnChildren
    <2>3. x \in Children(m) /\ memories[m].parent = None
      BY <2>1, <2>2, <1>3 DEF Children, Inv, Sound, Threaded, Ids
    <2> QED
      BY <1>2, <2>1, <2>2, <2>3
  <1>11. Sound(Purge(U, gone))
    BY <1>2, <1>3, <1>8, <1>10, PurgeSound
  <1> QED
    BY <1>1, <1>11 DEF CascadeHardDelete

LEMMA EmptyTrashSound ==
  ASSUME Inv, NEW u \in Users, EmptyTrash(u)
  PROVE  Sound(memories')
  <1>1. Trash(u) \in SUBSET MemoryIds
    BY DEF Trash, Inv, Sound, Typed, Ids
  <1> QED
    BY <1>1, PurgeSound DEF EmptyTrash, ParentsRemain, Inv, Ids
-----------------------------------------------------------------------------
(* Sharing. *)

LEMMA SharesSound ==
  ASSUME Inv, NEW u \in Users, NEW m \in Ids,
         \/ ShareMemory(u, m) \/ ShareToOrg(u, m) \/ ShareToTeam(u, m)
         \/ UnshareMemory(u, m) \/ UnshareMemoryTool(u, m)
  PROVE  Sound(memories')
  <1>1. \E S : \/ memories' = SetScope(memories, S, users[u].org_id, None)
               \/ memories' = SetScope(memories, S, None, users[u].team_id)
               \/ memories' = SetScope(memories, S, None, None)
    BY DEF ShareMemory, ShareToOrg, ShareToTeam, UnshareMemory, UnshareMemoryTool
  <1> QED
    BY <1>1, OwnScopesValid, SetScopeSound DEF Inv
-----------------------------------------------------------------------------
(* Organisations. *)

\* What is sound stays so when no org and no team disappears.
LEMMA SoundGrows ==
  ASSUME NEW T, Sound(T),
         \A m \in DOMAIN T : T[m].org # None => owner_id'[T[m].org] # None,
         \A m \in DOMAIN T : T[m].team # None => team_org'[T[m].team] # None,
         memories' = T
  PROVE  Sound(memories)'
  BY DEF Sound, Typed, Threaded, Scoped

\* No route takes an org away, and only the deletion of a team takes one.
LEMMA OrgsRemain ==
  ASSUME OrgTypeOK,
         MembershipStep \/ \E u \in Users, o \in Orgs : CreateOrg(u, o)
  PROVE  /\ \A o \in Orgs : owner_id[o] # None => owner_id'[o] # None
         /\ \A t \in Teams : team_org[t] # None => team_org'[t] # None
  <1>1. CASE MembershipStep
    BY <1>1 DEF MembershipStep, Invite, InviteLapses, OpenLapsedInvite, JoinOrg, RevokeInvite,
                RemoveMember, LeaveOrg, SetRole, CreateTeam, AddToTeam, RemoveFromTeam,
                OrgTypeOK
  <1>2. ASSUME NEW u \in Users, NEW o \in Orgs, CreateOrg(u, o)
        PROVE  /\ \A x \in Orgs : owner_id[x] # None => owner_id'[x] # None
               /\ \A t \in Teams : team_org[t] # None => team_org'[t] # None
    BY <1>2 DEF CreateOrg, OrgTypeOK
  <1> QED
    BY <1>1, <1>2

\* The seed memory is shared with the org the same request has created.
LEMMA SeedSound ==
  ASSUME Inv, NEW u \in Users, NEW o \in Orgs, CreateOrgWithSeed(u, o)
  PROVE  Sound(memories)'
  <1>1. PICK m \in MemoryIds : \E T \in {memories, Insert(memories, m, Personal(u))} :
          Saved(u, "personal", m, T) /\ memories' = SetScope(T, {m}, o, None)
    BY DEF CreateOrgWithSeed
  <1>2. PICK T \in {memories, Insert(memories, m, Personal(u))} :
          Saved(u, "personal", m, T) /\ memories' = SetScope(T, {m}, o, None)
    BY <1>1
  <1>3. "personal" \in ShareIntents
    BY DEF ShareIntents
  <1>4. Sound(T)
    BY <1>2, <1>3, SavedSound
  <1>5. /\ owner_id'[o] # None
        /\ \A x \in Orgs : owner_id[x] # None => owner_id'[x] # None
        /\ team_org' = team_org
    BY DEF CreateOrgWithSeed, CreateOrg, Inv, OrgInv, OrgTypeOK
  <1> DEFINE U == SetScope(T, {m}, o, None)
  <1>6. DOMAIN U = DOMAIN T
    BY DEF SetScope
  <1>7. \A x \in DOMAIN T :
          /\ U[x] \in Row
          /\ U[x].parent = T[x].parent
          /\ \/ U[x].org = T[x].org /\ U[x].team = T[x].team
             \/ U[x].org = o /\ U[x].team = None
    BY <1>4 DEF SetScope, Sound, Typed, Row
  <1>8. U \in [DOMAIN U -> Row]
    BY <1>6, <1>7 DEF SetScope
  <1>9. \A x \in DOMAIN U :
          /\ U[x].org = None \/ U[x].team = None
          /\ U[x].org # None => owner_id'[U[x].org] # None
          /\ U[x].team # None => team_org'[U[x].team] # None
    BY <1>4, <1>5, <1>6, <1>7 DEF Sound, Scoped, Typed, Row
  <1>10. Typed(U) /\ Threaded(U)
    BY <1>4, <1>6, <1>7, <1>8 DEF Sound, Typed, Threaded
  <1> QED
    BY <1>2, <1>9, <1>10 DEF Sound, Typed, Threaded, Scoped

\* Every memory is taken out of the team, so none refers to it afterwards.
LEMMA RemoveTeamSound ==
  ASSUME Inv, NEW u \in Users, NEW o \in Orgs, NEW t \in Teams, NEW force \in BOOLEAN,
         RemoveTeam(u, o, t, force)
  PROVE  Sound(memories)'
  <1> DEFINE U == [m \in Ids |-> IF m \in TeamMemories(t)
                                THEN [memories[m] EXCEPT !.team = None]
                                ELSE memories[m]]
  <1>1. memories' = U /\ DOMAIN U = Ids
    BY DEF RemoveTeam
  <1>2. /\ owner_id' = owner_id
        /\ \A x \in Teams \ {t} : team_org'[x] = team_org[x]
    BY DEF RemoveTeam, DeleteTeam, Inv, OrgInv, OrgTypeOK
  <1>3. \A m \in Ids : /\ U[m] \in Row
                       /\ U[m].parent = memories[m].parent
                       /\ U[m].org = memories[m].org
                       /\ U[m].team # t
                       /\ U[m].team \in {memories[m].team, None}
    BY DEF TeamMemories, Ids, Inv, Sound, Typed, Row
  <1>4. U \in [Ids -> Row]
    BY <1>3
  <1>5. Typed(U) /\ Threaded(U)
    BY <1>1, <1>3, <1>4 DEF Inv, Sound, Typed, Threaded, Ids
  <1>6. \A m \in Ids :
          /\ U[m].org = None \/ U[m].team = None
          /\ U[m].org # None => owner_id'[U[m].org] # None
          /\ U[m].team # None => team_org'[U[m].team] # None
    BY <1>2, <1>3 DEF Inv, Sound, Scoped, Ids, Row
  <1> QED
    BY <1>1, <1>5, <1>6 DEF Sound, Typed, Threaded, Scoped
-----------------------------------------------------------------------------
(* The invariant. *)

\* A request on the memories alone leaves the orgs and the teams in place.
LEMMA MemoryStepSound ==
  ASSUME Inv, Sound(memories'), UNCHANGED orgVars
  PROVE  Inv'
  BY DEF Inv, OrgInv, OrgTypeOK, OwnerIsCreator, OrgRefsExist, Sound, Typed, Threaded, Scoped,
         orgVars

LEMMA RequestPreserves ==
  ASSUME Inv, NEW u \in Users, MemoryRequest(u)
  PROVE  Inv'
  <1>1. CASE \E intent \in ShareIntents :
               CreateMemory(u, intent) \/ WriteMemoryTool(u, intent)
                 \/ CreateCiTestMemory(u, intent)
    <2>1. UNCHANGED orgVars
      BY <1>1 DEF CreateMemory, WriteMemoryTool, CreateCiTestMemory
    <2> QED
      BY <1>1, <2>1, WritesSound, MemoryStepSound
  <1>2. CASE \E p, m \in MemoryIds : CreateChildMemory(u, p, m)
    <2>1. UNCHANGED orgVars
      BY <1>2 DEF CreateChildMemory
    <2> QED
      BY <1>2, <2>1, CreateChildSound, MemoryStepSound
  <1>3. CASE \E m \in Ids : SoftDelete(u, m) \/ DeleteMemoryTool(u, m) \/ Restore(u, m)
    <2>1. UNCHANGED orgVars
      BY <1>3 DEF SoftDelete, DeleteMemoryTool, Restore
    <2> QED
      BY <1>3, <2>1, TrashMovesSound, MemoryStepSound
  <1>4. CASE \E m \in Ids : PermanentDelete(u, m)
    <2>1. UNCHANGED orgVars
      BY <1>4 DEF PermanentDelete
    <2> QED
      BY <1>4, <2>1, PermanentDeleteSound, MemoryStepSound
  <1>5. CASE EmptyTrash(u)
    <2>1. UNCHANGED orgVars
      BY <1>5 DEF EmptyTrash
    <2> QED
      BY <1>5, <2>1, EmptyTrashSound, MemoryStepSound
  <1>6. CASE \E m \in Ids : \/ ShareMemory(u, m) \/ ShareToOrg(u, m) \/ ShareToTeam(u, m)
                            \/ UnshareMemory(u, m) \/ UnshareMemoryTool(u, m)
    <2>1. UNCHANGED orgVars
      BY <1>6 DEF ShareMemory, ShareToOrg, ShareToTeam, UnshareMemory, UnshareMemoryTool
    <2> QED
      BY <1>6, <2>1, SharesSound, MemoryStepSound
  <1>7. ASSUME NEW o \in Orgs, CreateOrgWithSeed(u, o)
        PROVE  Inv'
    BY <1>7, SeedSound, CreateOrgPreserves DEF CreateOrgWithSeed, Inv
  <1> QED
    BY <1>1, <1>2, <1>3, <1>4, <1>5, <1>6, <1>7 DEF MemoryRequest

LEMMA InvInductive ==
  /\ Init => Inv
  /\ Inv /\ [Next]_vars => Inv'
  <1>1. ASSUME Init PROVE Inv
    <2>1. OrgInv
      BY <1>1, OrgInvInductive DEF Init
    <2>2. DOMAIN memories = {} /\ memories \in [{} -> Row]
      BY <1>1 DEF Init
    <2> QED
      BY <2>1, <2>2 DEF Inv, Sound, Typed, Threaded, Scoped
  <1>2. ASSUME Inv, [Next]_vars PROVE Inv'
    <2>1. ASSUME NEW u \in Users, MemoryRequest(u) PROVE Inv'
      BY <1>2, <2>1, RequestPreserves
    <2>2. ASSUME NEW u \in Users, NEW o \in Orgs, NEW t \in Teams, NEW force \in BOOLEAN,
                 RemoveTeam(u, o, t, force)
          PROVE  Inv'
      BY <1>2, <2>2, RemoveTeamSound, DeleteTeamPreserves DEF RemoveTeam, Inv
    <2>3. CASE /\ MembershipStep \/ \E u \in Users, o \in Orgs : CreateOrg(u, o)
               /\ UNCHANGED memories
      <3>1. OrgInv'
        BY <1>2, <2>3, MembershipStepPreserves, CreateOrgPreserves DEF Inv
      <3>2. /\ \A o \in Orgs : owner_id[o] # None => owner_id'[o] # None
            /\ \A t \in Teams : team_org[t] # None => team_org'[t] # None
        BY <1>2, <2>3, OrgsRemain DEF Inv, OrgInv
      <3>3. \A m \in DOMAIN memories : memories[m] \in Row
        BY <1>2 DEF Inv, Sound, Typed
      <3>4. \A m \in DOMAIN memories :
              /\ memories[m].org # None => owner_id'[memories[m].org] # None
              /\ memories[m].team # None => team_org'[memories[m].team] # None
        BY <1>2, <3>2, <3>3 DEF Inv, Sound, Scoped, Row
      <3>5. Sound(memories)'
        BY <1>2, <2>3, <3>4, SoundGrows DEF Inv
      <3> QED
        BY <3>1, <3>5 DEF Inv
    <2>4. CASE UNCHANGED vars
      BY <1>2, <2>4, MemoryStepSound DEF Inv, vars
    <2> QED
      BY <1>2, <2>1, <2>2, <2>3, <2>4 DEF Next
  <1> QED
    BY <1>1, <1>2
-----------------------------------------------------------------------------
\* Every reachable state of the tables is of the right type, whoever asks for
\* what and wherever the process dies.
THEOREM MemoriesTypeCorrect == Spec => []TypeOK
  <1>1. Inv => TypeOK
    BY DEF Inv, OrgInv, Sound, Typed, TypeOK, Ids
  <1> QED
    BY <1>1, InvInductive, PTL DEF Spec

\* Threads stay one level deep and no reply dangles, although the foreign key
\* has no action of its own and the cascades can stop anywhere.
THEOREM ThreadsCorrect == Spec => []OneLevelThreads
  <1>1. Inv => OneLevelThreads
    BY DEF Inv, Sound, Threaded, OneLevelThreads, Ids
  <1> QED
    BY <1>1, InvInductive, PTL DEF Spec

\* No row is ever shared with an org and a team at once.
THEOREM ScopesCorrect == Spec => []ScopesExclusive
  <1>1. Inv => ScopesExclusive
    BY DEF Inv, Sound, Scoped, ScopesExclusive, Ids
  <1> QED
    BY <1>1, InvInductive, PTL DEF Spec

\* No row is ever shared with an org or a team that does not exist.
THEOREM SharedScopesExist == Spec => []ScopesExist
  <1>1. Inv => ScopesExist
    BY DEF Inv, Sound, Scoped, ScopesExist, Ids
  <1> QED
    BY <1>1, InvInductive, PTL DEF Spec
-----------------------------------------------------------------------------
(* What no request does to the rows of others. *)

\* The table T that a request of u leaves behind: no row changes its author,
\* and those of other authors are still there, in the trash or out of it as
\* they were.
Respects(u, T) ==
  \A m \in Ids :
    /\ m \in DOMAIN T => T[m].user_id = memories[m].user_id
    /\ memories[m].user_id # u =>
         m \in DOMAIN T /\ T[m].deleted = memories[m].deleted

LEMMA StatementsRespect ==
  ASSUME Inv, NEW u \in Users, NEW T, Sound(T), Respects(u, T)
  PROVE  /\ \A S, o, t : Respects(u, SetScope(T, S, o, t))
         /\ \A S, flag : (\A m \in S \cap Ids : memories[m].user_id = u) =>
                         Respects(u, SetDeleted(T, S, flag))
         /\ \A S : Respects(u, Orphan(T, S))
         /\ \A S : (\A m \in S \cap Ids : memories[m].user_id = u) =>
                   Respects(u, Purge(T, S))
  <1>1. T \in [DOMAIN T -> Row]
    BY DEF Sound, Typed
  <1>2. ASSUME NEW S, NEW o, NEW t PROVE Respects(u, SetScope(T, S, o, t))
    BY <1>1 DEF SetScope, Respects, Row
  <1>3. ASSUME NEW S, NEW flag, \A m \in S \cap Ids : memories[m].user_id = u
        PROVE  Respects(u, SetDeleted(T, S, flag))
    BY <1>1, <1>3 DEF SetDeleted, Respects, Row
  <1>4. ASSUME NEW S PROVE Respects(u, Orphan(T, S))
    BY <1>1 DEF Orphan, Respects, Row
  <1>5. ASSUME NEW S, \A m \in S \cap Ids : memories[m].user_id = u
        PROVE  Respects(u, Purge(T, S))
    BY <1>5 DEF Purge, Respects
  <1> QED
    BY <1>2, <1>3, <1>4, <1>5

LEMMA InsertRespects ==
  ASSUME NEW u \in Users, NEW m \in MemoryIds \ Ids, NEW row
  PROVE  Respects(u, Insert(memories, m, row))
  BY DEF Insert, Respects, Ids

LEMMA NothingRespects ==
  ASSUME Inv, NEW u \in Users
  PROVE  Sound(memories) /\ Respects(u, memories)
  BY DEF Inv, Respects, Ids

\* The row a write ends in is the writer's own, or new.
LEMMA SavedRespects ==
  ASSUME Inv, NEW u \in Users, NEW intent \in ShareIntents, NEW m \in MemoryIds, NEW T,
         Saved(u, intent, m, T)
  PROVE  Sound(T) /\ Respects(u, T) /\ (m \in Ids => memories[m].user_id = u)
  <1>1. Sound(T)
    BY SavedSound
  <1>2. CASE m \in MergeCandidates(u, intent) /\ T = memories
    BY <1>1, <1>2, NothingRespects DEF MergeCandidates, Owns
  <1>3. CASE m \in MemoryIds \ Ids /\ T = Insert(memories, m, Personal(u))
    BY <1>1, <1>3, InsertRespects
  <1> QED
    BY <1>2, <1>3 DEF Saved

LEMMA WritesRespect ==
  ASSUME Inv, NEW u \in Users, NEW intent \in ShareIntents,
         CreateMemory(u, intent) \/ WriteMemoryTool(u, intent) \/ CreateCiTestMemory(u, intent)
  PROVE  Respects(u, memories')
  <1>1. CASE CreateMemory(u, intent)
    BY <1>1, SavedRespects, StatementsRespect DEF CreateMemory, ApplyShareScope
  <1>2. CASE WriteMemoryTool(u, intent)
    <2>1. "personal" \in ShareIntents
      BY DEF ShareIntents
    <2> QED
      BY <1>2, <2>1, SavedRespects, StatementsRespect DEF WriteMemoryTool, ApplyShareScope
  <1>3. CASE CreateCiTestMemory(u, intent)
    <2>1. PICK m \in MemoryIds : \E T \in {memories, Insert(memories, m, Personal(u))} :
            Saved(u, intent, m, T) /\ memories' = SetDeleted(T, {m}, TRUE)
      BY <1>3 DEF CreateCiTestMemory
    <2>2. PICK T \in {memories, Insert(memories, m, Personal(u))} :
            Saved(u, intent, m, T) /\ memories' = SetDeleted(T, {m}, TRUE)
      BY <2>1
    <2>3. Sound(T) /\ Respects(u, T) /\ \A x \in {m} \cap Ids : memories[x].user_id = u
      BY <2>2, SavedRespects
    <2> QED
      BY <2>2, <2>3, StatementsRespect
  <1> QED
    BY <1>1, <1>2, <1>3

LEMMA TrashRespects ==
  ASSUME Inv, NEW u \in Users, NEW m \in Ids,
         SoftDelete(u, m) \/ DeleteMemoryTool(u, m) \/ Restore(u, m)
  PROVE  Respects(u, memories')
  <1>1. \A x \in OwnChildren(u, m) \cup {m} : Owns(u, m) => memories[x].user_id = u
    BY DEF OwnChildren, Owns
  <1>2. CASE SoftDelete(u, m)
    <2>1. PICK done \in Committed(IF memories[m].parent = None
                                  THEN CascadeSoftDelete(u, m) ELSE {}) :
            memories' = SetDeleted(memories, {m} \cup done, TRUE)
      BY <1>2 DEF SoftDelete
    <2>2. \A x \in ({m} \cup done) \cap Ids : memories[x].user_id = u
      BY <1>1, <1>2 DEF SoftDelete, Committed, CascadeSoftDelete
    <2> QED
      BY <2>1, <2>2, NothingRespects, StatementsRespect
  <1>3. CASE DeleteMemoryTool(u, m)
    <2>1. \A x \in {m} \cap Ids : memories[x].user_id = u
      BY <1>1, <1>3 DEF DeleteMemoryTool
    <2> QED
      BY <1>3, <2>1, NothingRespects, StatementsRespect DEF DeleteMemoryTool
  <1>4. CASE Restore(u, m)
    <2>1. PICK done \in Committed(IF memories[m].parent = None
                                  THEN CascadeRestore(u, m) ELSE {}) :
            memories' = SetDeleted(memories, {m} \cup done, FALSE)
      BY <1>4 DEF Restore
    <2>2. \A x \in ({m} \cup done) \cap Ids : memories[x].user_id = u
      BY <1>1, <1>4 DEF Restore, Committed, CascadeRestore
    <2> QED
      BY <2>1, <2>2, NothingRespects, StatementsRespect
  <1> QED
    BY <1>2, <1>3, <1>4

\* The cascade purges the caller's own replies and orphans the others.
LEMMA PermanentDeleteRespects ==
  ASSUME Inv, NEW u \in Users, NEW m \in Ids, PermanentDelete(u, m)
  PROVE  Respects(u, memories')
  <1> DEFINE cascade == IF memories[m].parent = None THEN Children(m) ELSE {}
  <1>1. PICK done \in Committed(cascade) :
          \E gone \in IF done = cascade THEN Committed({m}) ELSE {{}} :
            memories' = Purge(CascadeHardDelete(u, m, done), gone)
    BY DEF PermanentDelete
  <1>2. PICK gone \in IF done = cascade THEN Committed({m}) ELSE {{}} :
          memories' = Purge(CascadeHardDelete(u, m, done), gone)
    BY <1>1
  <1> DEFINE T == Orphan(memories, done \ OwnChildren(u, m))
             U == Purge(T, done \cap OwnChildren(u, m))
  <1>3. /\ \A x \in done \cap OwnChildren(u, m) : memories[x].user_id = u
        /\ \A x \in gone : memories[x].user_id = u
    BY DEF PermanentDelete, Owns, OwnChildren, Committed
  <1>4. Sound(T) /\ Respects(u, T)
    BY NothingRespects, StatementsRespect, OrphanSound
  <1>5. Respects(u, U)
    BY <1>3, <1>4, StatementsRespect
  <1>6. Respects(u, Purge(U, gone))
    BY <1>3, <1>5 DEF Purge, Respects
  <1> QED
    BY <1>2, <1>6 DEF CascadeHardDelete

LEMMA RequestRespects ==
  ASSUME Inv, NEW u \in Users, MemoryRequest(u)
  PROVE  Respects(u, memories')
  <1>1. CASE \E intent \in ShareIntents :
               CreateMemory(u, intent) \/ WriteMemoryTool(u, intent)
                 \/ CreateCiTestMemory(u, intent)
    BY <1>1, WritesRespect
  <1>2. CASE \E p, m \in MemoryIds : CreateChildMemory(u, p, m)
    BY <1>2, InsertRespects DEF CreateChildMemory
  <1>3. CASE \E m \in Ids : SoftDelete(u, m) \/ DeleteMemoryTool(u, m) \/ Restore(u, m)
    BY <1>3, TrashRespects
  <1>4. CASE \E m \in Ids : PermanentDelete(u, m)
    BY <1>4, PermanentDeleteRespects
  <1>5. CASE EmptyTrash(u)
    <2>1. \A x \in Trash(u) : memories[x].user_id = u
      BY DEF Trash, Owns
    <2> QED
      BY <1>5, <2>1, NothingRespects, StatementsRespect DEF EmptyTrash
  <1>6. CASE \E m \in Ids : \/ ShareMemory(u, m) \/ ShareToOrg(u, m) \/ ShareToTeam(u, m)
                            \/ UnshareMemory(u, m) \/ UnshareMemoryTool(u, m)
    BY <1>6, NothingRespects, StatementsRespect
       DEF ShareMemory, ShareToOrg, ShareToTeam, UnshareMemory, UnshareMemoryTool
  <1>7. ASSUME NEW o \in Orgs, CreateOrgWithSeed(u, o) PROVE Respects(u, memories')
    <2>1. "personal" \in ShareIntents
      BY DEF ShareIntents
    <2> QED
      BY <1>7, <2>1, SavedRespects, StatementsRespect DEF CreateOrgWithSeed
  <1> QED
    BY <1>1, <1>2, <1>3, <1>4, <1>5, <1>6, <1>7 DEF MemoryRequest

\* Steps that are not a request on the memories take no row away and move
\* none in or out of the trash.
LEMMA OtherStepsRespect ==
  ASSUME Inv, [Next]_vars, ~\E u \in Users : MemoryRequest(u)
  PROVE  \A m \in Ids : /\ m \in Ids'
                        /\ memories'[m].user_id = memories[m].user_id
                        /\ memories'[m].deleted = memories[m].deleted
  <1>1. CASE UNCHANGED memories
    BY <1>1 DEF Ids
  <1>2. ASSUME NEW u \in Users, NEW o \in Orgs, NEW t \in Teams, NEW force \in BOOLEAN,
               RemoveTeam(u, o, t, force)
        PROVE  \A m \in Ids : /\ m \in Ids'
                              /\ memories'[m].user_id = memories[m].user_id
                              /\ memories'[m].deleted = memories[m].deleted
    <2>1. \A m \in Ids : memories[m] \in Row
      BY DEF Inv, Sound, Typed, Ids
    <2> QED
      BY <1>2, <2>1 DEF RemoveTeam, Ids, Row
  <1> QED
    BY <1>1, <1>2 DEF Next, vars

\* No step purges a row that its author did not ask to purge: not the purge of
\* a thread with replies of teammates, not the end of a team.
THEOREM PurgesCorrect == Spec => NoForeignPurge
  <1>1. ASSUME Inv, [Next]_vars
        PROVE  \A m \in Ids :
                 /\ m \notin Ids' => MemoryRequest(memories[m].user_id)
                 /\ m \in Ids' => memories'[m].user_id = memories[m].user_id
    <2>1. ASSUME NEW u \in Users, MemoryRequest(u)
          PROVE  \A m \in Ids :
                   /\ m \notin Ids' => MemoryRequest(memories[m].user_id)
                   /\ m \in Ids' => memories'[m].user_id = memories[m].user_id
      BY <1>1, <2>1, RequestRespects DEF Respects, Ids
    <2> QED
      BY <1>1, <2>1, OtherStepsRespect
  <1> QED
    BY <1>1, InvInductive, PTL DEF Spec, NoForeignPurge

\* No step moves a row into the trash or out of it but by a request of its
\* author: the cascades of a shared thread pass over the replies of others.
THEOREM TrashCorrect == Spec => OnlyAuthorTrashes
  <1>1. ASSUME Inv, [Next]_vars
        PROVE  \A m \in Ids \cap Ids' :
                 memories'[m].deleted # memories[m].deleted =>
                   MemoryRequest(memories[m].user_id)
    <2>1. ASSUME NEW u \in Users, MemoryRequest(u)
          PROVE  \A m \in Ids \cap Ids' :
                   memories'[m].deleted # memories[m].deleted =>
                     MemoryRequest(memories[m].user_id)
      BY <1>1, <2>1, RequestRespects DEF Respects
    <2> QED
      BY <1>1, <2>1, OtherStepsRespect
  <1> QED
    BY <1>1, InvInductive, PTL DEF Spec, OnlyAuthorTrashes
-----------------------------------------------------------------------------
(* What a request leaves alone: every row that neither its user wrote nor   *)
(* the author of its thread.                                               *)

\* m was written by u, or is a reply in a thread of u.
Mine(u, m) ==
  \/ memories[m].user_id = u
  \/ memories[m].parent # None /\ memories[memories[m].parent].user_id = u

\* m is somebody else's reply in a thread of u.
Guest(u, m) ==
  /\ memories[m].user_id # u
  /\ memories[m].parent # None
  /\ memories[memories[m].parent].user_id = u

\* The table T that a request of u leaves behind: rows that are not u's are as
\* they were, and only guests are taken out of their thread.
Spares(u, T) ==
  \A m \in Ids :
    /\ ~Mine(u, m) => m \in DOMAIN T /\ T[m] = memories[m]
    /\ m \in DOMAIN T /\ T[m].parent # memories[m].parent => T[m].parent = None /\ Guest(u, m)

LEMMA StatementsSpare ==
  ASSUME NEW u \in Users, NEW T, Sound(T), Spares(u, T), NEW S,
         \A m \in S \cap Ids : Mine(u, m)
  PROVE  /\ \A o, t : Spares(u, SetScope(T, S, o, t))
         /\ \A flag : Spares(u, SetDeleted(T, S, flag))
         /\ Spares(u, Purge(T, S))
         /\ (\A m \in S \cap Ids : Guest(u, m)) => Spares(u, Orphan(T, S))
  <1>1. T \in [DOMAIN T -> Row]
    BY DEF Sound, Typed
  <1>2. ASSUME NEW o, NEW t PROVE Spares(u, SetScope(T, S, o, t))
    BY <1>1 DEF SetScope, Spares, Row
  <1>3. ASSUME NEW flag PROVE Spares(u, SetDeleted(T, S, flag))
    BY <1>1 DEF SetDeleted, Spares, Row
  <1>4. Spares(u, Purge(T, S))
    BY DEF Purge, Spares
  <1>5. ASSUME \A m \in S \cap Ids : Guest(u, m) PROVE Spares(u, Orphan(T, S))
    BY <1>1, <1>5 DEF Orphan, Spares, Row
  <1> QED
    BY <1>2, <1>3, <1>4, <1>5

LEMMA InsertSpares ==
  ASSUME NEW u \in Users, NEW m \in MemoryIds \ Ids, NEW row
  PROVE  Spares(u, Insert(memories, m, row))
  BY DEF Insert, Spares, Ids

LEMMA NothingSpares ==
  ASSUME NEW u \in Users
  PROVE  Spares(u, memories)
  BY DEF Spares, Ids

\* A row of u and the replies to it are u's to change.
LEMMA ThreadIsMine ==
  ASSUME Inv, NEW u \in Users, NEW m, Owns(u, m)
  PROVE  /\ Mine(u, m)
         /\ \A c \in Children(m) : Mine(u, c)
         /\ \A c \in Children(m) \ OwnChildren(u, m) : Guest(u, c)
  <1>1. m \in Ids /\ m # None /\ memories[m].user_id = u
    BY DEF Owns, Inv, Sound, Typed, Ids
  <1> QED
    BY <1>1 DEF Mine, Guest, Children, OwnChildren

LEMMA SavedSpares ==
  ASSUME Inv, NEW u \in Users, NEW intent \in ShareIntents, NEW m \in MemoryIds, NEW T,
         Saved(u, intent, m, T)
  PROVE  Sound(T) /\ Spares(u, T) /\ \A x \in {m} \cap Ids : Mine(u, x)
  <1>1. Sound(T) /\ (m \in Ids => memories[m].user_id = u)
    BY SavedRespects
  <1>2. Spares(u, T)
    BY InsertSpares, NothingSpares DEF Saved
  <1> QED
    BY <1>1, <1>2 DEF Mine

LEMMA WritesSpare ==
  ASSUME Inv, NEW u \in Users, NEW intent \in ShareIntents,
         CreateMemory(u, intent) \/ WriteMemoryTool(u, intent) \/ CreateCiTestMemory(u, intent)
  PROVE  Spares(u, memories')
  <1>1. ASSUME NEW m \in MemoryIds, NEW T, NEW i \in ShareIntents, Saved(u, i, m, T)
        PROVE  /\ Spares(u, ApplyShareScope(u, intent, m, T))
               /\ Spares(u, SetDeleted(T, {m}, TRUE))
    <2>1. Sound(T) /\ Spares(u, T) /\ \A x \in {m} \cap Ids : Mine(u, x)
      BY <1>1, SavedSpares
    <2> QED
      BY <2>1, StatementsSpare DEF ApplyShareScope
  <1>2. "personal" \in ShareIntents
    BY DEF ShareIntents
  <1> QED
    BY <1>1, <1>2 DEF CreateMemory, WriteMemoryTool, CreateCiTestMemory

LEMMA TrashSpares ==
  ASSUME Inv, NEW u \in Users, NEW m \in Ids,
         SoftDelete(u, m) \/ DeleteMemoryTool(u, m) \/ Restore(u, m)
  PROVE  Spares(u, memories')
  <1>1. Owns(u, m) /\ \A S : S \subseteq {m} \cup Children(m) => \A x \in S \cap Ids : Mine(u, x)
    BY ThreadIsMine DEF SoftDelete, DeleteMemoryTool, Restore
  <1>2. /\ CascadeSoftDelete(u, m) \subseteq Children(m)
        /\ CascadeRestore(u, m) \subseteq Children(m)
    BY DEF CascadeSoftDelete, CascadeRestore, OwnChildren
  <1>3. PICK S, flag : S \subseteq {m} \cup Children(m) /\ memories' = SetDeleted(memories, S, flag)
    <2>1. CASE SoftDelete(u, m)
      BY <1>2, <2>1 DEF SoftDelete, Committed
    <2>2. CASE DeleteMemoryTool(u, m)
      BY <2>2 DEF DeleteMemoryTool
    <2>3. CASE Restore(u, m)
      BY <1>2, <2>3 DEF Restore, Committed
    <2> QED
      BY <2>1, <2>2, <2>3
  <1> QED
    BY <1>1, <1>3, NothingRespects, NothingSpares, StatementsSpare

LEMMA SharesSpare ==
  ASSUME Inv, NEW u \in Users, NEW m \in Ids,
         \/ ShareMemory(u, m) \/ ShareToOrg(u, m) \/ ShareToTeam(u, m)
         \/ UnshareMemory(u, m) \/ UnshareMemoryTool(u, m)
  PROVE  Spares(u, memories')
  <1>1. Owns(u, m) /\ \A S : S \subseteq {m} \cup Children(m) => \A x \in S \cap Ids : Mine(u, x)
    BY ThreadIsMine DEF ShareMemory, ShareToOrg, ShareToTeam, UnshareMemory, UnshareMemoryTool
  <1>2. /\ \A o : CascadeShare(m, o) \subseteq Children(m)
        /\ CascadeUnshare(m) \subseteq Children(m)
    BY DEF CascadeShare, CascadeUnshare
  <1>3. PICK S, o, t : S \subseteq {m} \cup Children(m) /\ memories' = SetScope(memories, S, o, t)
    <2>1. CASE ShareMemory(u, m)
      BY <1>2, <2>1 DEF ShareMemory, Committed
    <2>2. CASE UnshareMemory(u, m)
      BY <1>2, <2>2 DEF UnshareMemory, Committed
    <2>3. CASE ShareToOrg(u, m) \/ ShareToTeam(u, m) \/ UnshareMemoryTool(u, m)
      BY <2>3 DEF ShareToOrg, ShareToTeam, UnshareMemoryTool
    <2> QED
      BY <2>1, <2>2, <2>3
  <1> QED
    BY <1>1, <1>3, NothingRespects, NothingSpares, StatementsSpare

\* The cascade purges the own replies, and the others become top-level rows.
LEMMA PermanentDeleteSpares ==
  ASSUME Inv, NEW u \in Users, NEW m \in Ids, PermanentDelete(u, m)
  PROVE  Spares(u, memories')
  <1> DEFINE cascade == IF memories[m].parent = None THEN Children(m) ELSE {}
  <1>1. PICK done \in Committed(cascade) :
          \E gone \in IF done = cascade THEN Committed({m}) ELSE {{}} :
            memories' = Purge(CascadeHardDelete(u, m, done), gone)
    BY DEF PermanentDelete
  <1>2. PICK gone \in IF done = cascade THEN Committed({m}) ELSE {{}} :
          memories' = Purge(CascadeHardDelete(u, m, done), gone)
    BY <1>1
  <1> DEFINE T == Orphan(memories, done \ OwnChildren(u, m))
             U == Purge(T, done \cap OwnChildren(u, m))
  <1>3. /\ \A x \in (done \ OwnChildren(u, m)) \cap Ids : Mine(u, x) /\ Guest(u, x)
        /\ \A x \in (done \cap OwnChildren(u, m)) \cap Ids : Mine(u, x)
        /\ \A x \in gone : Mine(u, x)
    BY ThreadIsMine DEF PermanentDelete, Committed
  <1>4. Sound(T) /\ Spares(u, T)
    BY <1>3, NothingRespects, NothingSpares, StatementsSpare, OrphanSound
  <1>5. Spares(u, U)
    BY <1>3, <1>4, StatementsSpare
  <1>6. Spares(u, Purge(U, gone))
    BY <1>3, <1>5 DEF Purge, Spares
  <1> QED
    BY <1>2, <1>6 DEF CascadeHardDelete

LEMMA RequestSpares ==
  ASSUME Inv, NEW u \in Users, MemoryRequest(u)
  PROVE  Spares(u, memories')
  <1>1. CASE \E intent \in ShareIntents :
               CreateMemory(u, intent) \/ WriteMemoryTool(u, intent)
                 \/ CreateCiTestMemory(u, intent)
    BY <1>1, WritesSpare
  <1>2. CASE \E p, m \in MemoryIds : CreateChildMemory(u, p, m)
    BY <1>2, InsertSpares DEF CreateChildMemory
  <1>3. CASE \E m \in Ids : SoftDelete(u, m) \/ DeleteMemoryTool(u, m) \/ Restore(u, m)
    BY <1>3, TrashSpares
  <1>4. CASE \E m \in Ids : PermanentDelete(u, m)
    BY <1>4, PermanentDeleteSpares
  <1>5. CASE EmptyTrash(u)
    <2>1. \A x \in Trash(u) \cap Ids : Mine(u, x)
      BY DEF Trash, Owns, Mine
    <2> QED
      BY <1>5, <2>1, NothingRespects, NothingSpares, StatementsSpare DEF EmptyTrash
  <1>6. CASE \E m \in Ids : \/ ShareMemory(u, m) \/ ShareToOrg(u, m) \/ ShareToTeam(u, m)
                            \/ UnshareMemory(u, m) \/ UnshareMemoryTool(u, m)
    BY <1>6, SharesSpare
  <1>7. ASSUME NEW o \in Orgs, CreateOrgWithSeed(u, o) PROVE Spares(u, memories')
    <2>1. "personal" \in ShareIntents
      BY DEF ShareIntents
    <2>2. PICK m \in MemoryIds : \E T \in {memories, Insert(memories, m, Personal(u))} :
            Saved(u, "personal", m, T) /\ memories' = SetScope(T, {m}, o, None)
      BY <1>7 DEF CreateOrgWithSeed
    <2>3. PICK T \in {memories, Insert(memories, m, Personal(u))} :
            Saved(u, "personal", m, T) /\ memories' = SetScope(T, {m}, o, None)
      BY <2>2
    <2>4. Sound(T) /\ Spares(u, T) /\ \A x \in {m} \cap Ids : Mine(u, x)
      BY <2>1, <2>3, SavedSpares
    <2> QED
      BY <2>3, <2>4, StatementsSpare
  <1> QED
    BY <1>1, <1>2, <1>3, <1>4, <1>5, <1>6, <1>7 DEF MemoryRequest

\* Nobody but the author of a thread takes a reply out of it, and then only
\* one of somebody else, by purging the parent.
THEOREM MembershipCorrect == Spec => ThreadMembership
  <1>1. ASSUME Inv, [Next]_vars
        PROVE  \A m \in Ids \cap Ids' :
                 memories'[m].parent # memories[m].parent =>
                   /\ memories'[m].parent = None
                   /\ MemoryRequest(memories[memories[m].parent].user_id)
                   /\ memories[memories[m].parent].user_id # memories[m].user_id
    <2>1. ASSUME NEW u \in Users, MemoryRequest(u), NEW m \in Ids \cap Ids',
                 memories'[m].parent # memories[m].parent
          PROVE  /\ memories'[m].parent = None
                 /\ MemoryRequest(memories[memories[m].parent].user_id)
                 /\ memories[memories[m].parent].user_id # memories[m].user_id
      <3>1. memories'[m].parent = None /\ Guest(u, m)
        BY <1>1, <2>1, RequestSpares DEF Spares, Ids
      <3> QED
        BY <2>1, <3>1 DEF Guest
    <2>2. ASSUME NEW u \in Users, NEW o \in Orgs, NEW t \in Teams, NEW force \in BOOLEAN,
                 RemoveTeam(u, o, t, force)
          PROVE  \A m \in Ids \cap Ids' : memories'[m].parent = memories[m].parent
      <3>1. \A m \in Ids : memories[m] \in Row
        BY <1>1 DEF Inv, Sound, Typed, Ids
      <3> QED
        BY <2>2, <3>1 DEF RemoveTeam, Ids, Row
    <2>3. CASE UNCHANGED memories
      BY <2>3
    <2> QED
      BY <1>1, <2>1, <2>2, <2>3 DEF Next, vars
  <1> QED
    BY <1>1, InvInductive, PTL DEF Spec, ThreadMembership
==============================================================================
