---------------------------- MODULE MemoryThreads ----------------------------
(***************************************************************************)
(* The table memories: who wrote a row, whether it is in the trash, which  *)
(* row it replies to and with whom it is shared, and every route, MCP tool *)
(* and Slack tool that changes one of these.  Title, content, tags,        *)
(* vendors and versions are not columns of this model: no guard of these   *)
(* handlers reads them, except the similarity test of createMemory, whose  *)
(* outcome is left open here.                                              *)
(*                                                                         *)
(* A handler runs without yielding, so it is one action; its statements    *)
(* are committed one by one, so when Crashes is TRUE the process may die   *)
(* between two of them and a cascade stops part-way (Committed).           *)
(***************************************************************************)
EXTENDS Organizations

CONSTANT MemoryIds   \* UUIDs; one is free again once its row is purged

ASSUME IdsAssumption == None \notin MemoryIds

VARIABLE memories    \* the rows, by id

vars == <<orgVars, memories>>

Row == [user_id : Users, deleted : BOOLEAN,
        parent : MemoryIds \cup {None},
        org : Orgs \cup {None}, team : Teams \cup {None}]

Ids == DOMAIN memories

TypeOK ==
  /\ OrgTypeOK
  /\ Ids \subseteq MemoryIds
  /\ memories \in [Ids -> Row]

Init == OrgInit /\ memories = [m \in {} |-> None]
-----------------------------------------------------------------------------
(* Statements on the table. *)

Insert(T, m, row) == [x \in DOMAIN T \cup {m} |-> IF x = m THEN row ELSE T[x]]

Purge(T, S) == [x \in DOMAIN T \ S |-> T[x]]

SetDeleted(T, S, flag) ==
  [x \in DOMAIN T |-> IF x \in S THEN [T[x] EXCEPT !.deleted = flag] ELSE T[x]]

SetScope(T, S, o, t) ==
  [x \in DOMAIN T |-> IF x \in S THEN [T[x] EXCEPT !.org = o, !.team = t] ELSE T[x]]

Orphan(T, S) ==
  [x \in DOMAIN T |-> IF x \in S THEN [T[x] EXCEPT !.parent = None] ELSE T[x]]

\* The rows a loop of statements over S has reached: all, or any part of them
\* when the process dies in it (the SELECT that feeds it has no ORDER BY).
Committed(S) == IF Crashes THEN SUBSET S ELSE {S}
-----------------------------------------------------------------------------
(* Helpers of memory-service. *)

Live(m) == ~memories[m].deleted

Owns(u, m) == m \in Ids /\ memories[m].user_id = u

Children(p) == {c \in Ids : memories[c].parent = p}

OwnChildren(u, p) == {c \in Children(p) : memories[c].user_id = u}

Personal(u) == [user_id |-> u, deleted |-> FALSE, parent |-> None,
                org |-> None, team |-> None]

ShareIntents == {"personal", "org", "team"}

\* findSimilarMemory: the rows a write with this intent may be merged into.
MergeCandidates(u, intent) ==
  {m \in Ids : /\ Owns(u, m) /\ Live(m)
               /\ CASE intent = "team" -> memories[m].team # None
                    [] intent = "org" -> memories[m].org # None
                    [] intent = "personal" -> memories[m].org = None /\ memories[m].team = None}

\* createMemory: m is the row the write ends in and T the table after it; a
\* merge changes nothing that this model keeps.
Saved(u, intent, m, T) ==
  \/ m \in MergeCandidates(u, intent) /\ T = memories
  \/ m \in MemoryIds \ Ids /\ T = Insert(memories, m, Personal(u))

\* applyShareScope on the row m of T.
ApplyShareScope(u, intent, m, T) ==
  IF intent = "team" /\ users[u].team_id # None
  THEN SetScope(T, {m}, None, users[u].team_id)
  ELSE IF intent = "org" /\ users[u].org_id # None
  THEN SetScope(T, {m}, users[u].org_id, None)
  ELSE T
-----------------------------------------------------------------------------
(* Writing. *)

\* POST /memories and POST /agent/memories, and with intent "personal" the
\* chat gateway and the welcome memory of the Clerk webhook.  A death before
\* the share leaves what a write with intent "personal" leaves.
CreateMemory(u, intent) ==
  /\ \E m \in MemoryIds :
       \E T \in {memories, Insert(memories, m, Personal(u))} :
         /\ Saved(u, intent, m, T)
         /\ memories' = ApplyShareScope(u, intent, m, T)
  /\ UNCHANGED orgVars

\* The MCP tool write_memory and the Slack tool of that name: the same, but
\* createMemory is not told the intent and looks for a personal row.
WriteMemoryTool(u, intent) ==
  /\ \E m \in MemoryIds :
       \E T \in {memories, Insert(memories, m, Personal(u))} :
         /\ Saved(u, "personal", m, T)
         /\ memories' = ApplyShareScope(u, intent, m, T)
  /\ UNCHANGED orgVars

\* POST /agent/memories outside test mode with a memory that looks like one of
\* the CI: created or merged, then moved to the trash, without a cascade.
CreateCiTestMemory(u, intent) ==
  /\ \E m \in MemoryIds :
       \E T \in {memories, Insert(memories, m, Personal(u))} :
         /\ Saved(u, intent, m, T)
         /\ memories' = SetDeleted(T, {m}, TRUE)
  /\ UNCHANGED orgVars

\* POST /memories/:id/children and its agent, MCP and Slack forms.  The reply
\* takes over the org scope of the parent, and no team scope.
CreateChildMemory(u, p, m) ==
  /\ p \in Ids
  /\ \/ memories[p].user_id = u
     \/ memories[p].org # None /\ memories[p].org = users[u].org_id
  /\ Live(p)
  /\ memories[p].parent = None
  /\ m \in MemoryIds \ Ids
  /\ memories' = Insert(memories, m,
                   [Personal(u) EXCEPT !.parent = p, !.org = memories[p].org])
  /\ UNCHANGED orgVars
-----------------------------------------------------------------------------
(* Trash. *)

FaultyCascadeSoftDelete(u, p) == {c \in Children(p) : Live(c)}  \* any author's

\* cascadeSoftDelete: the caller's own live replies.
CascadeSoftDelete(u, p) == {c \in OwnChildren(u, p) : Live(c)}

\* DELETE /memories/:id and DELETE /agent/memories/:id
SoftDelete(u, m) ==
  /\ Owns(u, m)
  /\ Live(m)
  /\ \E done \in Committed(IF memories[m].parent = None
                           THEN CascadeSoftDelete(u, m) ELSE {}) :
       memories' = SetDeleted(memories, {m} \cup done, TRUE)
  /\ UNCHANGED orgVars

\* The MCP and Slack tools delete_memory: softDeleteMemory alone.
DeleteMemoryTool(u, m) ==
  /\ Owns(u, m)
  /\ Live(m)
  /\ memories' = SetDeleted(memories, {m}, TRUE)
  /\ UNCHANGED orgVars

\* cascadeRestore: all the caller's trashed replies, whenever they were
\* trashed.
CascadeRestore(u, p) == {c \in OwnChildren(u, p) : ~Live(c)}

\* POST /memories/:id/restore
Restore(u, m) ==
  /\ Owns(u, m)
  /\ ~Live(m)
  /\ \E done \in Committed(IF memories[m].parent = None
                           THEN CascadeRestore(u, m) ELSE {}) :
       memories' = SetDeleted(memories, {m} \cup done, FALSE)
  /\ UNCHANGED orgVars

FaultyCascadeHardDelete(u, p, S) == Purge(memories, S)  \* like ON DELETE CASCADE

OrphaningCascadeHardDelete(u, p, S) == Orphan(memories, S)  \* purges no reply

\* cascadeHardDelete over the replies in S: the caller's own are purged, the
\* others lose their parent.
CascadeHardDelete(u, p, S) ==
  Purge(Orphan(memories, S \ OwnChildren(u, p)), S \cap OwnChildren(u, p))

\* DELETE /memories/:id/permanent: the cascade, then the row itself, live or
\* trashed.
PermanentDelete(u, m) ==
  /\ Owns(u, m)
  /\ LET cascade == IF memories[m].parent = None THEN Children(m) ELSE {}
     IN  \E done \in Committed(cascade) :
           \E gone \in IF done = cascade THEN Committed({m}) ELSE {{}} :
             memories' = Purge(CascadeHardDelete(u, m, done), gone)
  /\ UNCHANGED orgVars

Trash(u) == {m \in Ids : Owns(u, m) /\ ~Live(m)}

FaultyParentsRemain(S) == TRUE  \* without PRAGMA foreign_keys

\* The foreign key parent_memory_id after the rows in S are gone: what SQLite
\* checks at the end of the DELETE.
ParentsRemain(S) == \A c \in Ids \ S : memories[c].parent \notin S

\* DELETE /memories/trash.  One transaction: when the foreign key fails, the
\* request ends in an error and every row stays.
EmptyTrash(u) ==
  /\ ParentsRemain(Trash(u))
  /\ memories' = Purge(memories, Trash(u))
  /\ UNCHANGED orgVars
-----------------------------------------------------------------------------
(* Sharing. *)

\* cascadeShare: the live replies, whoever wrote them, not yet in that org.
CascadeShare(p, o) == {c \in Children(p) : Live(c) /\ memories[c].org # o}

\* POST /memories/:id/share
ShareMemory(u, m) ==
  /\ users[u].org_id # None
  /\ Owns(u, m)
  /\ Live(m)
  /\ \E done \in Committed(IF memories[m].parent = None
                           THEN CascadeShare(m, users[u].org_id) ELSE {}) :
       memories' = SetScope(memories, {m} \cup done, users[u].org_id, None)
  /\ UNCHANGED orgVars

FaultyShareToOrg(u, m) ==  \* does not clear the other column
  /\ users[u].org_id # None
  /\ Owns(u, m)
  /\ Live(m)
  /\ memories' = SetScope(memories, {m}, users[u].org_id, memories[m].team)
  /\ UNCHANGED orgVars

\* POST /agent/team/share, the MCP tool share_memory with scope org and the
\* Slack tool share_memory: shareMemoryToOrg alone.
ShareToOrg(u, m) ==
  /\ users[u].org_id # None
  /\ Owns(u, m)
  /\ Live(m)
  /\ memories' = SetScope(memories, {m}, users[u].org_id, None)
  /\ UNCHANGED orgVars

FaultyShareToTeam(u, m) ==  \* without AND user_id = ?
  /\ users[u].org_id # None
  /\ users[u].team_id # None
  /\ Live(m)
  /\ memories' = SetScope(memories, {m}, None, users[u].team_id)
  /\ UNCHANGED orgVars

\* The MCP tool share_memory with scope team.
ShareToTeam(u, m) ==
  /\ users[u].org_id # None
  /\ users[u].team_id # None
  /\ Owns(u, m)
  /\ Live(m)
  /\ memories' = SetScope(memories, {m}, None, users[u].team_id)
  /\ UNCHANGED orgVars

\* cascadeUnshare: every reply that is shared, trashed ones included.
CascadeUnshare(p) ==
  {c \in Children(p) : memories[c].org # None \/ memories[c].team # None}

\* POST /memories/:id/unshare
UnshareMemory(u, m) ==
  /\ Owns(u, m)
  /\ Live(m)
  /\ \E done \in Committed(IF memories[m].parent = None
                           THEN CascadeUnshare(m) ELSE {}) :
       memories' = SetScope(memories, {m} \cup done, None, None)
  /\ UNCHANGED orgVars

\* The Slack tool share_memory with share = false: unshareMemory alone.
UnshareMemoryTool(u, m) ==
  /\ Owns(u, m)
  /\ Live(m)
  /\ memories' = SetScope(memories, {m}, None, None)
  /\ UNCHANGED orgVars
-----------------------------------------------------------------------------
(* Routes on organisations that reach the memories. *)

\* POST /orgs with a seed memory: written as a personal one, then shared.
CreateOrgWithSeed(u, o) ==
  /\ CreateOrg(u, o)
  /\ users' # users
  /\ \E m \in MemoryIds :
       \E T \in {memories, Insert(memories, m, Personal(u))} :
         /\ Saved(u, "personal", m, T)
         /\ memories' = SetScope(T, {m}, o, None)

FaultyTeamMemories(t) == {m \in Ids : memories[m].team = t /\ Live(m)}  \* as counted

TeamMemories(t) == {m \in Ids : memories[m].team = t}

\* DELETE /orgs/:id/teams/:tid: one transaction over users, memories and
\* teams.  Only live memories make a team count as still in use, but every
\* memory is taken out of it.
RemoveTeam(u, o, t, force) ==
  /\ DeleteTeam(u, o, t, force)
  /\ force \/ \A m \in TeamMemories(t) : ~Live(m)
  /\ memories' = [m \in Ids |-> IF m \in TeamMemories(t)
                                THEN [memories[m] EXCEPT !.team = None]
                                ELSE memories[m]]
-----------------------------------------------------------------------------
\* What the account u itself can do to the table memories.
MemoryRequest(u) ==
  \/ \E intent \in ShareIntents :
       CreateMemory(u, intent) \/ WriteMemoryTool(u, intent) \/ CreateCiTestMemory(u, intent)
  \/ \E p, m \in MemoryIds : CreateChildMemory(u, p, m)
  \/ \E m \in Ids : SoftDelete(u, m) \/ DeleteMemoryTool(u, m) \/ Restore(u, m)
  \/ \E m \in Ids : PermanentDelete(u, m)
  \/ EmptyTrash(u)
  \/ \E m \in Ids : ShareMemory(u, m) \/ ShareToOrg(u, m) \/ ShareToTeam(u, m)
  \/ \E m \in Ids : UnshareMemory(u, m) \/ UnshareMemoryTool(u, m)
  \/ \E o \in Orgs : CreateOrgWithSeed(u, o)

Next ==
  \/ \E u \in Users : MemoryRequest(u)
  \/ \E u \in Users, o \in Orgs, t \in Teams, force \in BOOLEAN :
       RemoveTeam(u, o, t, force)
  \/ \E u \in Users, o \in Orgs : CreateOrg(u, o) /\ UNCHANGED memories
  \/ MembershipStep /\ UNCHANGED memories

Spec == Init /\ [][Next]_vars
-----------------------------------------------------------------------------
(* Invariants, with and without crashes. *)

\* Threads are one level deep and never dangle: a reply's parent is a row that
\* exists and replies to nothing.  The foreign key has no ON DELETE action, so
\* this rests on the order of statements in the cascades.
OneLevelThreads ==
  \A m \in Ids :
    memories[m].parent # None =>
      /\ memories[m].parent \in Ids
      /\ memories[memories[m].parent].parent = None

\* The two share columns are never both set, which no constraint of the table
\* enforces (schema.sql: "mutually exclusive (enforced at the app layer)").
ScopesExclusive == \A m \in Ids : memories[m].org = None \/ memories[m].team = None

\* A memory is shared only with an org and a team that exist, so deleting a
\* team never fails on its memories, the trashed ones included.
ScopesExist ==
  \A m \in Ids :
    /\ memories[m].org # None => owner_id[memories[m].org] # None
    /\ memories[m].team # None => team_org[memories[m].team] # None

(* What no step may do. *)

\* A row disappears only by a request of the user who wrote it: purging a
\* thread, or emptying the trash, never takes a teammate's reply with it, and
\* no row changes its author.
NoForeignPurge ==
  [][\A m \in Ids :
       /\ m \notin Ids' => MemoryRequest(memories[m].user_id)
       /\ m \in Ids' => memories'[m].user_id = memories[m].user_id]_vars

\* A row enters or leaves the trash only by a request of its author: the
\* cascades of a shared thread pass over the replies of the others.
OnlyAuthorTrashes ==
  [][\A m \in Ids \cap Ids' :
       memories'[m].deleted # memories[m].deleted =>
         MemoryRequest(memories[m].user_id)]_vars

\* Only a request of its author takes a reply out of its thread, except that
\* it is left at top level when the thread's author purges the parent.
ThreadMembership ==
  [][\A m \in Ids \cap Ids' :
       memories'[m].parent # memories[m].parent =>
         /\ memories'[m].parent = None
         /\ MemoryRequest(memories[memories[m].parent].user_id)
         /\ memories[memories[m].parent].user_id # memories[m].user_id]_vars

(* What the documentation says and the code does not do. *)

\* emptyTrash: "Permanently delete all trashed memories for a user."  The
\* foreign key never stands in the way of it.
TrashCanBeEmptied == \A u \in Users : ParentsRemain(Trash(u))
=============================================================================
