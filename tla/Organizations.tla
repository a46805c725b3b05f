---------------------------- MODULE Organizations ----------------------------
(***************************************************************************)
(* Organisations, their sub-teams and their members: the tables orgs,      *)
(* teams, users (columns org_id, org_role, team_id) and org_invites, and   *)
(* the routes under /orgs that change them.                                *)
(*                                                                         *)
(* Every handler runs to its end without yielding (better-sqlite3 is       *)
(* synchronous and none of these handlers awaits), so a handler is one     *)
(* action.  Its statements are not in one transaction, though: when        *)
(* Crashes is TRUE the process may die between two of them.                *)
(*                                                                         *)
(* A definition named Faulty... is the next one with a plausible bug in    *)
(* it.  Nothing uses it: PROJECT.json names the property it would break.   *)
(***************************************************************************)
EXTENDS Integers, FiniteSets

CONSTANTS Users,     \* registered accounts, identified with their e-mail
          Orgs,      \* identities an organisation row may take
          Teams,     \* identities a sub-team row may take
          None,      \* SQL NULL
          MaxSeats,  \* the literal 10 of the invite and join routes
          Crashes    \* whether the process may die inside a handler

Roles == {"owner", "admin", "member"}

ASSUME NoneAssumption == None \notin Users \cup Orgs \cup Teams \cup Roles
ASSUME UsersAssumption == IsFiniteSet(Users)
ASSUME SeatsAssumption == MaxSeats \in Nat \ {0}
ASSUME CrashesAssumption == Crashes \in BOOLEAN

VARIABLES owner_id,  \* orgs: who created it, None while there is no such row
          team_org,  \* teams: the org it belongs to, None while no such row
          users,     \* users: the membership columns
          invites    \* org_invites: the open invite of an e-mail to an org

orgVars == <<owner_id, team_org, users, invites>>

Membership == [org_id : Orgs \cup {None}, org_role : Roles \cup {None},
               team_id : Teams \cup {None}]

\* "pending" is a pending row whose expires_at lies ahead, "lapsed" one whose
\* expires_at has passed but whose status column still says pending.
InviteStatus == {"none", "pending", "lapsed"}

OrgTypeOK ==
  /\ owner_id \in [Orgs -> Users \cup {None}]
  /\ team_org \in [Teams -> Orgs \cup {None}]
  /\ users \in [Users -> Membership]
  /\ invites \in [Orgs \X Users -> InviteStatus]

OrgInit ==
  /\ owner_id = [o \in Orgs |-> None]
  /\ team_org = [t \in Teams |-> None]
  /\ users = [u \in Users |-> [org_id |-> None, org_role |-> None, team_id |-> None]]
  /\ invites = [i \in Orgs \X Users |-> "none"]
-----------------------------------------------------------------------------
Members(o) == {u \in Users : users[u].org_id = o}

IsOwner(u, o) == users[u].org_id = o /\ users[u].org_role = "owner"

\* requireOrgAdmin
IsAdmin(u, o) == users[u].org_id = o /\ users[u].org_role \in {"owner", "admin"}

\* addUserToOrg: the sub-team column is not touched.
AddUserToOrg(u, o, role) ==
  [users EXCEPT ![u].org_id = o, ![u].org_role = role]

FaultyRemoveFromOrg(u) ==  \* the role is forgotten
  [users EXCEPT ![u].org_id = None]

\* removeUserFromTeam of user-service: leaves the org, keeps team_id.
RemoveFromOrg(u) ==
  [users EXCEPT ![u].org_id = None, ![u].org_role = None]

AssignTeam(u, t) == [users EXCEPT ![u].team_id = t]
-----------------------------------------------------------------------------
\* POST /orgs.  A death after the first INSERT leaves an org nobody is in.
CreateOrg(u, o) ==
  /\ users[u].org_id = None
  /\ owner_id[o] = None
  /\ owner_id' = [owner_id EXCEPT ![o] = u]
  /\ \/ users' = AddUserToOrg(u, o, "owner")
     \/ Crashes /\ UNCHANGED users
  /\ UNCHANGED <<team_org, invites>>

\* POST /orgs/:id/invite for the e-mails in E; seats are counted against the
\* members only, not against the invites that are already out.
Invite(u, o, E) ==
  /\ IsOwner(u, o)
  /\ Cardinality(Members(o)) + Cardinality(E) <= MaxSeats
  /\ invites' = [i \in Orgs \X Users |->
                   IF i[1] = o /\ i[2] \in E \ Members(o) /\ invites[i] = "none"
                   THEN "pending" ELSE invites[i]]
  /\ UNCHANGED <<owner_id, team_org, users>>

\* The seven days of an invite run out.
InviteLapses(o, e) ==
  /\ invites[<<o, e>>] = "pending"
  /\ invites' = [invites EXCEPT ![<<o, e>>] = "lapsed"]
  /\ UNCHANGED <<owner_id, team_org, users>>

FaultyJoinOrg(u, o, e) ==  \* off by one at the last seat
  /\ invites[<<o, e>>] = "pending"
  /\ users[u].org_id = None
  /\ Cardinality(Members(o)) <= MaxSeats
  /\ users' = AddUserToOrg(u, o, "member")
  /\ invites' = [invites EXCEPT ![<<o, e>>] = "none"]
  /\ UNCHANGED <<owner_id, team_org>>

\* POST /orgs/join: u presents the token that was mailed to e.  Nothing
\* compares the two.
JoinOrg(u, o, e) ==
  /\ invites[<<o, e>>] = "pending"
  /\ users[u].org_id = None
  /\ Cardinality(Members(o)) < MaxSeats
  /\ users' = AddUserToOrg(u, o, "member")
  /\ \/ invites' = [invites EXCEPT ![<<o, e>>] = "none"]
     \/ Crashes /\ UNCHANGED invites
  /\ UNCHANGED <<owner_id, team_org>>

\* POST /orgs/join or GET /orgs/invite/:token on a lapsed invite: marks it
\* expired.
OpenLapsedInvite(o, e) ==
  /\ invites[<<o, e>>] = "lapsed"
  /\ invites' = [invites EXCEPT ![<<o, e>>] = "none"]
  /\ UNCHANGED <<owner_id, team_org, users>>

\* DELETE /orgs/:id/invites/:inviteId
RevokeInvite(u, o, e) ==
  /\ IsOwner(u, o)
  /\ invites[<<o, e>>] # "none"
  /\ invites' = [invites EXCEPT ![<<o, e>>] = "none"]
  /\ UNCHANGED <<owner_id, team_org, users>>

\* DELETE /orgs/:id/members/:userId.  The target's own org is not read.
RemoveMember(u, o, v) ==
  /\ IsOwner(u, o)
  /\ v # u
  /\ users' = RemoveFromOrg(v)
  /\ UNCHANGED <<owner_id, team_org, invites>>

\* POST /orgs/leave
LeaveOrg(u) ==
  /\ users[u].org_id # None
  /\ users[u].org_role # "owner"
  /\ users' = RemoveFromOrg(u)
  /\ UNCHANGED <<owner_id, team_org, invites>>

\* POST /orgs/:id/members/:uid/role
SetRole(u, o, v, role) ==
  /\ IsOwner(u, o)
  /\ users[v].org_id = o
  /\ users[v].org_role # "owner"
  /\ role \in {"admin", "member"}
  /\ users' = [users EXCEPT ![v].org_role = role]
  /\ UNCHANGED <<owner_id, team_org, invites>>

\* POST /orgs/:id/teams
CreateTeam(u, o, t) ==
  /\ IsAdmin(u, o)
  /\ team_org[t] = None
  /\ team_org' = [team_org EXCEPT ![t] = o]
  /\ UNCHANGED <<owner_id, users, invites>>

FaultyDeleteTeam(u, o, t, force) ==  \* unassigns the members of the org only
  /\ IsAdmin(u, o)
  /\ team_org[t] = o
  /\ force \/ \A v \in Users : users[v].team_id # t
  /\ users' = [v \in Users |->
                 IF users[v].team_id = t /\ users[v].org_id = o
                 THEN [users[v] EXCEPT !.team_id = None] ELSE users[v]]
  /\ team_org' = [team_org EXCEPT ![t] = None]
  /\ UNCHANGED <<owner_id, invites>>

\* DELETE /orgs/:id/teams/:tid, the part of deleteTeam that concerns users and
\* teams: every member is unassigned, then the row goes.  Without force a team
\* that has members is refused.
DeleteTeam(u, o, t, force) ==
  /\ IsAdmin(u, o)
  /\ team_org[t] = o
  /\ force \/ \A v \in Users : users[v].team_id # t
  /\ users' = [v \in Users |->
                 IF users[v].team_id = t THEN [users[v] EXCEPT !.team_id = None]
                 ELSE users[v]]
  /\ team_org' = [team_org EXCEPT ![t] = None]
  /\ UNCHANGED <<owner_id, invites>>

FaultyAddToTeam(u, o, t, v) ==  \* the user's own org is not read
  /\ IsAdmin(u, o)
  /\ team_org[t] = o
  /\ users' = AssignTeam(v, t)
  /\ UNCHANGED <<owner_id, team_org, invites>>

\* POST /orgs/:id/teams/:tid/members
AddToTeam(u, o, t, v) ==
  /\ IsAdmin(u, o)
  /\ team_org[t] = o
  /\ users[v].org_id = team_org[t]
  /\ users' = AssignTeam(v, t)
  /\ UNCHANGED <<owner_id, team_org, invites>>

\* DELETE /orgs/:id/teams/:tid/members/:uid.  Whichever team the user is on.
RemoveFromTeam(u, o, t, v) ==
  /\ IsAdmin(u, o)
  /\ team_org[t] = o
  /\ users[v].org_id = o
  /\ users' = AssignTeam(v, None)
  /\ UNCHANGED <<owner_id, team_org, invites>>
-----------------------------------------------------------------------------
\* The routes that touch no memory.
MembershipStep ==
  \/ \E u \in Users, o \in Orgs, E \in SUBSET Users : E # {} /\ Invite(u, o, E)
  \/ \E o \in Orgs, e \in Users : InviteLapses(o, e) \/ OpenLapsedInvite(o, e)
  \/ \E u, e \in Users, o \in Orgs : JoinOrg(u, o, e) \/ RevokeInvite(u, o, e)
  \/ \E u, v \in Users, o \in Orgs : RemoveMember(u, o, v)
  \/ \E u \in Users : LeaveOrg(u)
  \/ \E u, v \in Users, o \in Orgs, role \in Roles : SetRole(u, o, v, role)
  \/ \E u \in Users, o \in Orgs, t \in Teams : CreateTeam(u, o, t)
  \/ \E u, v \in Users, o \in Orgs, t \in Teams :
       AddToTeam(u, o, t, v) \/ RemoveFromTeam(u, o, t, v)

OrgNext ==
  \/ MembershipStep
  \/ \E u \in Users, o \in Orgs : CreateOrg(u, o)
  \/ \E u \in Users, o \in Orgs, t \in Teams, force \in BOOLEAN :
       DeleteTeam(u, o, t, force)

OrgSpec == OrgInit /\ [][OrgNext]_orgVars
-----------------------------------------------------------------------------
\* The column org_role is filled exactly for members, and the role owner is
\* only ever held by the creator recorded in orgs.owner_id: no sequence of
\* role changes, departures, re-invitations and deaths of the process inside
\* POST /orgs gives an org a second owner.
OwnerIsCreator ==
  \A u \in Users :
    /\ users[u].org_role = None <=> users[u].org_id = None
    /\ users[u].org_role = "owner" => owner_id[users[u].org_id] = u

\* However many invites are out, joining never takes an org beyond its seats
\* (the routes /orgs/:id/invite and /orgs/join count at different moments).
SeatLimit ==
  \A o \in Orgs : Cardinality(Members(o)) <= MaxSeats

\* Every membership column, team and invite refers to a row that exists: the
\* foreign keys users.org_id, users.team_id, teams.org_id and
\* org_invites.org_id hold through team deletion, so no statement of these
\* routes fails on them.
OrgRefsExist ==
  /\ \A u \in Users :
       /\ users[u].org_id # None => owner_id[users[u].org_id] # None
       /\ users[u].team_id # None => team_org[users[u].team_id] # None
  /\ \A t \in Teams : team_org[t] # None => owner_id[team_org[t]] # None
  /\ \A o \in Orgs, e \in Users : invites[<<o, e>>] # "none" => owner_id[o] # None

\* A user is put on a team only by an admin of the user's own org at that
\* moment, and the team is one of that org (assignUserToTeam).
JoinsTeamOfOwnOrg ==
  [][\A v \in Users :
       users'[v].team_id \notin {users[v].team_id, None} =>
         /\ users[v].org_id = team_org[users'[v].team_id]
         /\ \E u \in Users : IsAdmin(u, users[v].org_id)]_orgVars

\* DELETE /orgs/:id/members/:userId answers "Only team owner can remove
\* members": a membership ends only by the member's own request or by that of
\* the owner of the same org.
RemovedByOwnOrg ==
  [][\A v \in Users :
       users[v].org_id # None /\ users'[v].org_id = None =>
         LeaveOrg(v) \/ \E u \in Users : RemoveMember(u, users[v].org_id, v)]_orgVars

=============================================================================
