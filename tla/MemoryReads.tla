----------------------------- MODULE MemoryReads -----------------------------
(***************************************************************************)
(* Who gets to see which memory: every way the service reads the table, as *)
(* a set of rows.  The condition "own, or shared with my org, or with my   *)
(* sub-team" is written out afresh in each of them, with its own treatment *)
(* of users who have no org or no sub-team.                                *)
(*                                                                         *)
(* Filters, search terms and pages only narrow these sets and are left     *)
(* out, and so is what is returned of a row.  allowed_vendors is no column *)
(* of the table here: V stands for the rows whose allowed_vendors has the  *)
(* caller's vendor or "*", any set of rows, and is Ids for a user key.     *)
(***************************************************************************)
EXTENDS MemoryThreads

OwnRows(u) == {m \in Ids : memories[m].user_id = u}

FaultyOrgShared(u) ==  \* NULL equals NULL
  {m \in Ids : memories[m].org = users[u].org_id}

OrgShared(u) == {m \in Ids : memories[m].org # None /\ memories[m].org = users[u].org_id}

TeamShared(u) == {m \in Ids : memories[m].team # None /\ memories[m].team = users[u].team_id}

LiveOf(S) == {m \in S : Live(m)}
-----------------------------------------------------------------------------
(* Lists. *)

Scopes == {"personal", "org", "team", "all"}

\* buildScopeClause
ScopeRows(u, scope) ==
  CASE scope = "personal" -> OwnRows(u)
    [] scope = "org" -> OrgShared(u)
    [] scope = "team" -> TeamShared(u)
    [] scope = "all" -> OwnRows(u) \cup OrgShared(u) \cup TeamShared(u)

\* listMemories: the filters tags, ids, search and origin take a part of it.
ListMemories(u, scope, V) == LiveOf(ScopeRows(u, scope)) \cap V

\* listMemories with the filter trashed, whatever the scope.
ListTrash(u, V) == (OwnRows(u) \ LiveOf(OwnRows(u))) \cap V

\* listMemorySummaries: the trash is empty here.
ListMemorySummaries(u, scope, V) == LiveOf(ScopeRows(u, scope)) \cap V

\* listOrgMemories and searchOrgMemories, for GET /orgs/:id/memories,
\* GET /agent/team/memories and the tools that read the org pool.
ListOrgMemories(o) == {m \in Ids : memories[m].org = o /\ Live(m)}

OrgPool(u) == IF users[u].org_id = None THEN {} ELSE ListOrgMemories(users[u].org_id)

\* listTeamMemories and searchTeamMemories, for the tool read_team_memories ...
ListTeamMemories(t) == {m \in Ids : memories[m].team = t /\ Live(m)}

TeamPool(u) == IF users[u].team_id = None THEN {} ELSE ListTeamMemories(users[u].team_id)

\* ... and for GET /orgs/:id/teams/:tid/memories: any member of the org.
OrgTeamPools(u) ==
  UNION {ListTeamMemories(t) : t \in {x \in Teams : team_org[x] # None
                                                    /\ team_org[x] = users[u].org_id}}

(* The routes and tools that list, with the scope each asks for. *)

\* GET /agent/memories/latest: the newest of these.
AgentLatest(u, V) == ListMemories(u, "personal", V)

\* POST /agent/memories/by-tag, browse, search and list
AgentRows(u, V) == ListMemories(u, "personal", V) \cup ListMemorySummaries(u, "personal", V)

\* POST /memories/list: a user key, and the only route to the trash.
UserRows(u) == ListMemories(u, "personal", Ids) \cup ListTrash(u, Ids)

\* POST /query: what the model is given as context.
QueryRows(u, V) == ListMemories(u, "personal", V)

\* The MCP tools read_memories, get_latest_memory, browse_memories,
\* search_memories and get_memories_by_tag
ToolRows(u, scope, V) == ListMemories(u, scope, V) \cup ListMemorySummaries(u, scope, V)

\* The Slack tools search_memories, read_memories, get_memories_by_tag and
\* read_team_memories
SlackRows(u, V) == ListMemories(u, "all", V) \cup OrgPool(u)
-----------------------------------------------------------------------------
(* One row. *)

\* GET /memories/:id and its versions: own rows, the trashed ones included.
ReadById(u) == OwnRows(u)

\* GET /agent/memories/:id and its versions
ReadByAgent(u, V) == LiveOf(OwnRows(u)) \cap V

FaultyWithTeamAccess(u) == OwnRows(u) \cup OrgShared(u)  \* as before sub-teams

\* readMemoryWithTeamAccess: trashed rows included.
WithTeamAccess(u) == OwnRows(u) \cup OrgShared(u) \cup TeamShared(u)

\* The tool get_memory_by_id
GetMemoryById(u, V) == LiveOf(WithTeamAccess(u)) \cap V

\* The Slack tool of that name: without a look at allowed_vendors.
SlackGetMemoryById(u) == LiveOf(WithTeamAccess(u))
-----------------------------------------------------------------------------
(* Threads. *)

FaultyListChildren(u, p) ==  \* the replies to own memories only
  IF memories[p].user_id = u THEN LiveOf(Children(p)) ELSE {}

\* listChildren: all the replies, or none.
ListChildren(u, p) ==
  IF memories[p].user_id = u \/ p \in OrgShared(u) THEN LiveOf(Children(p)) ELSE {}

\* The thread that m belongs to, for a caller with access to the rows in S.
ThreadOf(u, m, S) ==
  LET root == IF memories[m].parent = None THEN m ELSE memories[m].parent
  IN  IF {m, root} \subseteq S THEN {root} \cup ListChildren(u, root) ELSE {}

\* GET /memories/:id/thread
ThreadRoute(u, m) == ThreadOf(u, m, WithTeamAccess(u))

\* GET /agent/memories/:id/thread: only the row asked for is checked against
\* the vendor, the others come with it.
AgentThread(u, m, V) == IF m \in V THEN ThreadOf(u, m, WithTeamAccess(u)) ELSE {}

\* The MCP tool read_thread
ReadThread(u, m) == ThreadOf(u, m, OwnRows(u))

\* The Slack tool read_thread: a live parent.
SlackReadThread(u, p) ==
  IF p \in LiveOf(WithTeamAccess(u)) THEN {p} \cup ListChildren(u, p) ELSE {}
-----------------------------------------------------------------------------
(* Graph and briefing. *)

IsOrgAdmin(u) == users[u].org_id # None /\ users[u].org_role \in {"owner", "admin"}

TeamsOf(o) == {t \in Teams : team_org[t] = o}

\* What others share with u, as the graph counts it: an admin sees every
\* sub-team of the org.
SharedPool(u) ==
  OrgShared(u) \cup
    (IF IsOrgAdmin(u) THEN {m \in Ids : memories[m].team \in TeamsOf(users[u].org_id)}
     ELSE TeamShared(u))

\* buildVisibility
Visible(u) == OwnRows(u) \cup SharedPool(u)

\* GET /graph
Graph(u, scope) ==
  LiveOf(CASE scope = "personal" -> OwnRows(u)
           [] scope = "team" -> SharedPool(u)
           [] scope = "both" -> Visible(u))

\* getBacklinks: what refers to m, a reply or any text.
Backlinks(u, m) == LiveOf(Visible(u)) \ {m}

\* getGraphAround: parent, replies, siblings, similar and referenced rows.
GraphAround(u, m) == IF m \in LiveOf(Visible(u)) THEN {m} \cup Backlinks(u, m) ELSE {}

\* getTagCooccurrence: the rows whose tags are clustered.
TagRows(u, scope) ==
  LiveOf(IF scope = "personal" THEN OwnRows(u) ELSE SharedPool(u))

\* loadRecentTags, loadTeamTags, loadTotals
BriefingRows(u) == LiveOf(OwnRows(u) \cup OrgShared(u))

\* The tool get_topic_cluster: the rows with one tag.
TopicCluster(u) == LiveOf(OwnRows(u) \cup OrgShared(u))

\* loadActiveThreads: the parents that have replies.
ActiveThreads(u) ==
  {p \in BriefingRows(u) : memories[p].parent = None /\ LiveOf(Children(p)) # {}}
-----------------------------------------------------------------------------
readVars == <<users, team_org, memories>>  \* what the reads look at

\* All that the account u, with or without an agent, can get an answer about.
Readable(u) ==
  (UNION {ToolRows(u, scope, Ids) : scope \in Scopes})
    \cup UserRows(u) \cup AgentLatest(u, Ids) \cup AgentRows(u, Ids) \cup QueryRows(u, Ids)
    \cup SlackRows(u, Ids) \cup OrgPool(u) \cup TeamPool(u) \cup OrgTeamPools(u)
    \cup ReadById(u) \cup WithTeamAccess(u)
    \cup (UNION {ThreadRoute(u, m) \cup ReadThread(u, m) \cup SlackReadThread(u, m) : m \in Ids})
    \cup (UNION {GraphAround(u, m) : m \in Ids})
    \cup Graph(u, "both") \cup TagRows(u, "team") \cup BriefingRows(u) \cup TopicCluster(u)

\* Whom the author of m, or of the thread it is a reply in, shares it with.
\* A sub-team is open to all of its org, and to whoever was put on it last.
Audience(m) ==
  {memories[m].user_id}
    \cup {v \in Users : memories[m].org # None /\ v \in Members(memories[m].org)}
    \cup {v \in Users : memories[m].team # None /\
            (users[v].team_id = memories[m].team \/ v \in Members(team_org[memories[m].team]))}

\* No way of reading gives a row to anybody its author, or the author of its
\* thread, did not share it with: the many copies of the visibility clause and
\* their empty-string stand-ins for NULL never match a row they should not.
ReadersEntitled ==
  \A u \in Users : \A m \in Readable(u) :
    LET p == memories[m].parent IN u \in Audience(m) \/ (p # None /\ u \in Audience(p))

\* m changes hands by a request of its author or of the author of its thread.
AskedByAuthor(m) ==
  LET p == memories[m].parent
  IN  \/ MemoryRequest(memories[m].user_id)
      \/ p # None /\ MemoryRequest(memories[p].user_id)

\* Somebody new gets to see a row only by a request of its author or of the
\* author of its thread, or because the reader changed org, role or sub-team:
\* nothing others do, and no restore, purge or deletion of a team of theirs,
\* opens it.
ReadersChangeByConsent ==
  [][UNCHANGED readVars \/
     \A u \in Users : users'[u] = users[u] =>
       \A m \in (Readable(u)' \ Readable(u)) \cap Ids : AskedByAuthor(m)]_vars

\* What an agent of u is shown over MCP, in a list, a graph or the briefing,
\* as far as its vendor may read it; read_org_memories, read_team_memories, the
\* graph and the briefing show other rows too, and those never open.  An org
\* admin's graph has the rows of all its sub-teams, and those do not open.
FoundByTools(u, V) ==
  (UNION {ToolRows(u, scope, V) : scope \in Scopes})
    \cup (V \cap (OrgPool(u) \cup TeamPool(u) \cup TopicCluster(u) \cup ActiveThreads(u)))
    \cup (IF IsOrgAdmin(u) THEN {} ELSE V \cap UNION {GraphAround(u, m) : m \in Ids})

\* The follow-up read of the comment on get_memory_by_id: what an agent found it
\* can read by its id after the next step of anybody, unless u has moved, or the
\* author of the row or of its thread asked for that step.  In Slack no vendor
\* is asked for, and over the agent routes there are own rows alone.  V is the
\* same before and after: an edit of allowed_vendors is left out.
FoundCanBeOpened ==
  [][\A u \in Users, V \in SUBSET Ids : users'[u] = users[u] =>
       \A m \in (FoundByTools(u, V) \ GetMemoryById(u, V)')
                  \cup ((AgentLatest(u, V) \cup AgentRows(u, V)) \ ReadByAgent(u, V)')
                  \cup (SlackRows(u, V) \ SlackGetMemoryById(u)') :
         AskedByAuthor(m)]_vars

\* A thread that the briefing names opens with every reply the briefing has
\* counted, whoever wrote them: over HTTP and in Slack, and over MCP when u
\* wrote its parent.  And a thread is the same from each of its rows that u may
\* open, as the description of read_thread has it: "Pass either the parent's id
\* or any child's id".
BriefedThreadsOpen ==
  \A u \in Users :
    /\ \A p \in ActiveThreads(u) :
         LET thread == {p} \cup LiveOf(Children(p))
         IN  /\ ThreadRoute(u, p) = thread /\ SlackReadThread(u, p) = thread
             /\ p \in OwnRows(u) => ReadThread(u, p) = thread
    /\ \A m \in Ids :
         /\ \A x \in ThreadRoute(u, m) \cap WithTeamAccess(u) : ThreadRoute(u, x) = ThreadRoute(u, m)
         /\ \A x \in ReadThread(u, m) \cap OwnRows(u) : ReadThread(u, x) = ReadThread(u, m)
=============================================================================
