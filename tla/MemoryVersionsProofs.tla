------------------------ MODULE MemoryVersionsProofs ------------------------
(***************************************************************************)
(* Proofs about MemoryReads and MemoryVersions, for any number of users,   *)
(* orgs, teams, rows and texts.                                            *)
(*                                                                         *)
(* The queries come first: what they may return, that threads open whole,  *)
(* and who comes to see or keeps seeing a row over a step.  Then the       *)
(* histories: every step is a step of MemoryThreads, or leaves its tables  *)
(* alone, so what is proved there carries over, and the histories are kept *)
(* by the four statements the handlers are made of.                        *)
(***************************************************************************)
EXTENDS MemoryVersions, MemoryThreadsProofs

USE NoneAssumption, IdsAssumption

LEMMA OwnersInAudience ==
  ASSUME NEW u \in Users, NEW m \in OwnRows(u)
  PROVE  u \in Audience(m)
BY DEF OwnRows, Audience

LEMMA OrgsInAudience ==
  ASSUME NEW u \in Users, NEW m \in OrgShared(u)
  PROVE  u \in Audience(m)
BY DEF OrgShared, Audience, Members

LEMMA TeamsInAudience ==
  ASSUME NEW u \in Users, NEW m \in TeamShared(u)
  PROVE  u \in Audience(m)
BY DEF TeamShared, Audience

LEMMA AccessIsEntitled ==
  ASSUME NEW u \in Users, NEW m \in WithTeamAccess(u)
  PROVE  u \in Audience(m)
BY OwnersInAudience, OrgsInAudience, TeamsInAudience DEF WithTeamAccess

\* An admin's view of the sub-teams stays inside the admin's org.
LEMMA VisibleIsEntitled ==
  ASSUME NEW u \in Users, NEW m \in Visible(u)
  PROVE  u \in Audience(m)
<1>1. CASE m \in OwnRows(u) \cup OrgShared(u) \cup TeamShared(u)
  BY <1>1, OwnersInAudience, OrgsInAudience, TeamsInAudience
<1>2. CASE m \in Ids /\ memories[m].team \in TeamsOf(users[u].org_id)
  <2>1. memories[m].team \in Teams /\ team_org[memories[m].team] = users[u].org_id
    BY <1>2 DEF TeamsOf
  <2>2. memories[m].team # None
    BY <2>1
  <2>3. u \in Members(team_org[memories[m].team])
    BY <2>1 DEF Members
  <2> QED BY <2>2, <2>3 DEF Audience
<1> QED BY <1>1, <1>2 DEF Visible, SharedPool

LEMMA PoolsAreEntitled ==
  ASSUME NEW u \in Users, NEW m \in OrgPool(u) \cup TeamPool(u) \cup OrgTeamPools(u)
  PROVE  u \in Audience(m)
<1>1. CASE m \in OrgPool(u)
  BY <1>1 DEF OrgPool, ListOrgMemories, Audience, Members
<1>2. CASE m \in TeamPool(u)
  BY <1>2 DEF TeamPool, ListTeamMemories, Audience
<1>3. CASE m \in OrgTeamPools(u)
  <2>1. PICK t \in Teams : team_org[t] = users[u].org_id /\ m \in ListTeamMemories(t)
    BY <1>3 DEF OrgTeamPools
  <2>2. memories[m].team = t /\ t # None /\ u \in Members(team_org[t])
    BY <2>1 DEF ListTeamMemories, Members
  <2> QED BY <2>2 DEF Audience
<1> QED BY <1>1, <1>2, <1>3

\* The replies come with a parent that u may see.
LEMMA RepliesAreEntitled ==
  ASSUME TypeOK, NEW u \in Users, NEW p \in Ids, NEW m \in ListChildren(u, p)
  PROVE  memories[m].parent = p /\ p # None /\ u \in Audience(p)
<1>1. m \in Children(p) /\ (memories[p].user_id = u \/ p \in OrgShared(u))
  BY DEF ListChildren, LiveOf
<1>2. memories[m].parent = p
  BY <1>1 DEF Children
<1>3. p # None
  BY DEF TypeOK
<1>4. u \in Audience(p)
  BY <1>1, OwnersInAudience, OrgsInAudience DEF OwnRows
<1> QED BY <1>2, <1>3, <1>4

Entitled(u, m) ==
  LET p == memories[m].parent IN u \in Audience(m) \/ (p # None /\ u \in Audience(p))

LEMMA ThreadsAreEntitled ==
  ASSUME TypeOK, NEW u \in Users, NEW x \in Ids,
         NEW m \in ThreadRoute(u, x) \cup ReadThread(u, x) \cup SlackReadThread(u, x)
  PROVE  Entitled(u, m)
<1> DEFINE root == IF memories[x].parent = None THEN x ELSE memories[x].parent
<1>1. OwnRows(u) \subseteq WithTeamAccess(u) /\ WithTeamAccess(u) \subseteq Ids
  BY DEF WithTeamAccess, OwnRows, OrgShared, TeamShared
<1>2. CASE m \in ThreadRoute(u, x) \cup ReadThread(u, x)
  <2>1. root \in WithTeamAccess(u) /\ m \in {root} \cup ListChildren(u, root)
    BY <1>1, <1>2 DEF ThreadRoute, ReadThread, ThreadOf
  <2> QED BY <2>1, <1>1, AccessIsEntitled, RepliesAreEntitled DEF Entitled
<1>3. CASE m \in SlackReadThread(u, x)
  <2>1. x \in WithTeamAccess(u) /\ m \in {x} \cup ListChildren(u, x)
    BY <1>3 DEF SlackReadThread, LiveOf
  <2> QED BY <2>1, AccessIsEntitled, RepliesAreEntitled DEF Entitled
<1> QED BY <1>2, <1>3

\* Every list and every single row is within one of the sets above.
LEMMA ListsAreEntitled ==
  ASSUME NEW u \in Users,
         NEW m \in (UNION {ToolRows(u, scope, Ids) : scope \in Scopes})
                     \cup UserRows(u) \cup AgentLatest(u, Ids) \cup AgentRows(u, Ids)
                     \cup QueryRows(u, Ids) \cup SlackRows(u, Ids)
                     \cup ReadById(u) \cup WithTeamAccess(u) \cup BriefingRows(u) \cup TopicCluster(u)
  PROVE  u \in Audience(m)
<1>1. ASSUME NEW scope \in Scopes
      PROVE  /\ ListMemories(u, scope, Ids) \subseteq WithTeamAccess(u)
             /\ ListMemorySummaries(u, scope, Ids) \subseteq WithTeamAccess(u)
  <2>1. ScopeRows(u, scope) \subseteq WithTeamAccess(u)
    BY DEF ScopeRows, Scopes, WithTeamAccess
  <2> QED BY <2>1 DEF ListMemories, ListMemorySummaries, LiveOf
<1>2. "personal" \in Scopes /\ "all" \in Scopes
  BY DEF Scopes
<1>3. AgentLatest(u, Ids) \cup AgentRows(u, Ids) \cup QueryRows(u, Ids) \subseteq WithTeamAccess(u)
  BY <1>1, <1>2 DEF AgentLatest, AgentRows, QueryRows
<1>4. ListTrash(u, Ids) \cup ReadById(u) \cup BriefingRows(u) \cup TopicCluster(u)
        \subseteq WithTeamAccess(u)
  BY DEF ListTrash, ReadById, BriefingRows, TopicCluster, LiveOf, WithTeamAccess
<1>5. UserRows(u) \subseteq WithTeamAccess(u)
  BY <1>1, <1>2, <1>4 DEF UserRows
<1>6. CASE m \in OrgPool(u)
  BY <1>6, PoolsAreEntitled
<1>7. CASE m \in SlackRows(u, Ids) \ OrgPool(u)
  <2>1. m \in WithTeamAccess(u)
    BY <1>1, <1>2, <1>7 DEF SlackRows
  <2> QED BY <2>1, AccessIsEntitled
<1>8. CASE m \in UNION {ToolRows(u, scope, Ids) : scope \in Scopes}
  <2>1. m \in WithTeamAccess(u)
    BY <1>1, <1>8 DEF ToolRows
  <2> QED BY <2>1, AccessIsEntitled
<1>9. CASE m \in WithTeamAccess(u)
  BY <1>9, AccessIsEntitled
<1> QED BY <1>3, <1>4, <1>5, <1>6, <1>7, <1>8, <1>9

LEMMA GraphsAreEntitled ==
  ASSUME NEW u \in Users,
         NEW m \in (UNION {GraphAround(u, x) : x \in Ids}) \cup Graph(u, "both")
                     \cup TagRows(u, "team")
  PROVE  u \in Audience(m)
<1>1. m \in Visible(u)
  BY DEF GraphAround, Backlinks, Graph, TagRows, LiveOf, Visible
<1> QED BY <1>1, VisibleIsEntitled

LEMMA TypedIsEntitled == TypeOK => ReadersEntitled
<1> SUFFICES ASSUME TypeOK, NEW u \in Users, NEW m \in Readable(u)
             PROVE  Entitled(u, m)
  BY DEF ReadersEntitled, Entitled
<1>1. CASE m \in UNION {ThreadRoute(u, x) \cup ReadThread(u, x) \cup SlackReadThread(u, x) : x \in Ids}
  BY <1>1, ThreadsAreEntitled
<1>2. CASE m \in OrgPool(u) \cup TeamPool(u) \cup OrgTeamPools(u)
  BY <1>2, PoolsAreEntitled DEF Entitled
<1>3. CASE m \in (UNION {ToolRows(u, scope, Ids) : scope \in Scopes})
                   \cup UserRows(u) \cup AgentLatest(u, Ids) \cup AgentRows(u, Ids)
                   \cup QueryRows(u, Ids) \cup SlackRows(u, Ids)
                   \cup ReadById(u) \cup WithTeamAccess(u) \cup BriefingRows(u) \cup TopicCluster(u)
  BY <1>3, ListsAreEntitled DEF Entitled
<1>4. CASE m \in (UNION {GraphAround(u, x) : x \in Ids}) \cup Graph(u, "both") \cup TagRows(u, "team")
  BY <1>4, GraphsAreEntitled DEF Entitled
<1> QED BY <1>1, <1>2, <1>3, <1>4 DEF Readable

\* Whatever way a row is read, its reader is in its audience or in that of
\* the thread: the copies of the visibility clause agree for every state.
THEOREM ReadsAreEntitled == Spec => []ReadersEntitled
BY MemoriesTypeCorrect, TypedIsEntitled, PTL
-----------------------------------------------------------------------------
LEMMA ListsOpen ==
  ASSUME NEW u \in Users, NEW V, NEW scope \in Scopes
  PROVE  ToolRows(u, scope, V) \subseteq GetMemoryById(u, V)
<1>1. ScopeRows(u, scope) \subseteq WithTeamAccess(u)
  BY DEF ScopeRows, Scopes, WithTeamAccess
<1> QED BY <1>1 DEF ToolRows, ListMemories, ListMemorySummaries, GetMemoryById, LiveOf

LEMMA AgentListsOpen ==
  ASSUME NEW u \in Users, NEW V
  PROVE  AgentLatest(u, V) \cup AgentRows(u, V) \subseteq ReadByAgent(u, V)
BY DEF AgentLatest, AgentRows, ListMemories, ListMemorySummaries, ReadByAgent, ScopeRows

LEMMA SlackListsOpen ==
  ASSUME NEW u \in Users, NEW V \in SUBSET Ids
  PROVE  SlackRows(u, V) \subseteq SlackGetMemoryById(u)
<1>1. ListMemories(u, "all", V) \subseteq LiveOf(WithTeamAccess(u))
  BY DEF ListMemories, ScopeRows, WithTeamAccess, LiveOf
<1>2. OrgPool(u) \subseteq LiveOf(OrgShared(u))
  BY DEF OrgPool, ListOrgMemories, OrgShared, LiveOf
<1> QED BY <1>1, <1>2 DEF SlackRows, SlackGetMemoryById, WithTeamAccess, LiveOf

LEMMA PoolsOpen ==
  ASSUME NEW u \in Users
  PROVE  OrgPool(u) \cup TeamPool(u) \subseteq GetMemoryById(u, Ids)
<1>1. OrgPool(u) \subseteq LiveOf(OrgShared(u))
  BY DEF OrgPool, ListOrgMemories, OrgShared, LiveOf
<1>2. TeamPool(u) \subseteq LiveOf(TeamShared(u))
  BY DEF TeamPool, ListTeamMemories, TeamShared, LiveOf
<1>3. OrgShared(u) \cup TeamShared(u) \subseteq WithTeamAccess(u) \cap Ids
  BY DEF WithTeamAccess, OrgShared, TeamShared
<1> QED BY <1>1, <1>2, <1>3 DEF GetMemoryById, LiveOf

LEMMA GraphOpens ==
  ASSUME NEW u \in Users, ~IsOrgAdmin(u)
  PROVE  UNION {GraphAround(u, x) : x \in Ids} \subseteq GetMemoryById(u, Ids)
<1>1. Visible(u) \subseteq WithTeamAccess(u) \cap Ids
  BY DEF Visible, SharedPool, WithTeamAccess, OwnRows, OrgShared, TeamShared
<1> QED BY <1>1 DEF GraphAround, Backlinks, GetMemoryById, LiveOf

LEMMA ClustersOpen ==
  ASSUME NEW u \in Users
  PROVE  TopicCluster(u) \cup ActiveThreads(u) \subseteq GetMemoryById(u, Ids)
<1>1. OwnRows(u) \cup OrgShared(u) \subseteq WithTeamAccess(u) \cap Ids
  BY DEF WithTeamAccess, OwnRows, OrgShared
<1> QED BY <1>1 DEF TopicCluster, ActiveThreads, BriefingRows, GetMemoryById, LiveOf

\* What an agent finds over MCP it could open at once.
LEMMA FoundOpens ==
  ASSUME NEW u \in Users, NEW V \in SUBSET Ids
  PROVE  FoundByTools(u, V) \subseteq GetMemoryById(u, V)
<1>1. V \cap GetMemoryById(u, Ids) \subseteq GetMemoryById(u, V)
  BY DEF GetMemoryById
<1>2. UNION {ToolRows(u, scope, V) : scope \in Scopes} \subseteq GetMemoryById(u, V)
  BY ListsOpen
<1>3. V \cap (OrgPool(u) \cup TeamPool(u) \cup TopicCluster(u) \cup ActiveThreads(u))
        \subseteq GetMemoryById(u, V)
  BY <1>1, PoolsOpen, ClustersOpen
<1>4. ~IsOrgAdmin(u) => V \cap UNION {GraphAround(u, x) : x \in Ids} \subseteq GetMemoryById(u, V)
  BY <1>1, GraphOpens
<1> QED BY <1>2, <1>3, <1>4 DEF FoundByTools

\* The root of a thread replies to nothing, so that what u is given of it does
\* not depend on the row u asks for, as long as u may open that row.
LEMMA ThreadIsRooted ==
  ASSUME Inv, NEW u \in Users, NEW S \in SUBSET Ids, NEW m \in Ids,
         NEW x \in ThreadOf(u, m, S) \cap S
  PROVE  ThreadOf(u, x, S) = ThreadOf(u, m, S)
<1> DEFINE root == IF memories[m].parent = None THEN m ELSE memories[m].parent
<1>1. root \in Ids /\ root # None /\ memories[root].parent = None
  BY DEF Inv, Sound, Typed, Threaded, Ids
<1>2. {m, root} \subseteq S /\ x \in {root} \cup ListChildren(u, root)
  BY DEF ThreadOf
<1>3. CASE x = root
  BY <1>1, <1>2, <1>3 DEF ThreadOf
<1>4. CASE x \in ListChildren(u, root)
  <2>1. memories[x].parent = root
    BY <1>4 DEF ListChildren, LiveOf, Children
  <2> QED BY <1>1, <1>2, <2>1 DEF ThreadOf
<1> QED BY <1>2, <1>3, <1>4

\* The threads of the briefing open with all their replies, and every thread is
\* the same from whichever row.
THEOREM BriefedThreadsAreOpened == Spec => []BriefedThreadsOpen
<1>1. ASSUME Inv, NEW u \in Users, NEW p \in ActiveThreads(u)
      PROVE  LET thread == {p} \cup LiveOf(Children(p))
             IN  /\ ThreadRoute(u, p) = thread /\ SlackReadThread(u, p) = thread
                 /\ p \in OwnRows(u) => ReadThread(u, p) = thread
  <2>1. p \in OwnRows(u) \cup OrgShared(u) /\ Live(p) /\ memories[p].parent = None
    BY DEF ActiveThreads, BriefingRows, LiveOf
  <2>2. p \in WithTeamAccess(u)
    BY <2>1 DEF WithTeamAccess
  <2>3. ListChildren(u, p) = LiveOf(Children(p))
    BY <2>1 DEF ListChildren, OwnRows
  <2>4. ThreadRoute(u, p) = {p} \cup LiveOf(Children(p))
    BY <2>1, <2>2, <2>3 DEF ThreadRoute, ThreadOf
  <2>5. SlackReadThread(u, p) = {p} \cup LiveOf(Children(p))
    BY <2>1, <2>2, <2>3 DEF SlackReadThread, LiveOf
  <2>6. p \in OwnRows(u) => ReadThread(u, p) = {p} \cup LiveOf(Children(p))
    BY <2>1, <2>3 DEF ReadThread, ThreadOf
  <2> QED BY <2>4, <2>5, <2>6
<1>2. ASSUME Inv, NEW u \in Users, NEW m \in Ids
      PROVE  /\ \A x \in ThreadRoute(u, m) \cap WithTeamAccess(u) :
                  ThreadRoute(u, x) = ThreadRoute(u, m)
             /\ \A x \in ReadThread(u, m) \cap OwnRows(u) : ReadThread(u, x) = ReadThread(u, m)
  <2>1. WithTeamAccess(u) \in SUBSET Ids /\ OwnRows(u) \in SUBSET Ids
    BY DEF WithTeamAccess, OwnRows, OrgShared, TeamShared
  <2> QED BY <1>2, <2>1, ThreadIsRooted DEF ThreadRoute, ReadThread
<1>3. Inv => BriefedThreadsOpen
  BY <1>1, <1>2 DEF BriefedThreadsOpen
<1> QED BY <1>3, InvInductive, PTL DEF Spec
-----------------------------------------------------------------------------
(* Who comes to read a row.  The ways of reading together amount to three:  *)
(* access of one's own, the sub-teams of one's org, and the live replies    *)
(* in a thread.                                                            *)

ThreadRows(u) == {m \in Ids : Live(m) /\ memories[m].parent \in OwnRows(u) \cup OrgShared(u)}

Seen(u) == WithTeamAccess(u) \cup OrgTeamPools(u) \cup ThreadRows(u)

LEMMA ListsAreSeen ==
  ASSUME NEW u \in Users
  PROVE  (UNION {ToolRows(u, scope, Ids) : scope \in Scopes})
           \cup UserRows(u) \cup AgentLatest(u, Ids) \cup AgentRows(u, Ids)
           \cup QueryRows(u, Ids) \cup SlackRows(u, Ids) \cup OrgPool(u) \cup TeamPool(u)
           \cup ReadById(u) \cup BriefingRows(u) \cup TopicCluster(u) \subseteq Seen(u)
<1>1. ASSUME NEW scope \in Scopes
      PROVE  /\ ListMemories(u, scope, Ids) \subseteq WithTeamAccess(u)
             /\ ListMemorySummaries(u, scope, Ids) \subseteq WithTeamAccess(u)
  <2>1. ScopeRows(u, scope) \subseteq WithTeamAccess(u)
    BY DEF ScopeRows, Scopes, WithTeamAccess
  <2> QED BY <2>1 DEF ListMemories, ListMemorySummaries, LiveOf
<1>2. "personal" \in Scopes /\ "all" \in Scopes
  BY DEF Scopes
<1>3. AgentLatest(u, Ids) \cup AgentRows(u, Ids) \cup QueryRows(u, Ids) \subseteq WithTeamAccess(u)
  BY <1>1, <1>2 DEF AgentLatest, AgentRows, QueryRows
<1>4. ListTrash(u, Ids) \cup ReadById(u) \cup BriefingRows(u) \cup TopicCluster(u)
        \subseteq WithTeamAccess(u)
  BY DEF ListTrash, ReadById, BriefingRows, TopicCluster, LiveOf, WithTeamAccess
<1>5. UserRows(u) \subseteq WithTeamAccess(u)
  BY <1>1, <1>2, <1>4 DEF UserRows
<1>6. OrgPool(u) \cup TeamPool(u) \subseteq WithTeamAccess(u)
  BY PoolsOpen DEF GetMemoryById, LiveOf
<1>7. SlackRows(u, Ids) \subseteq WithTeamAccess(u)
  BY <1>1, <1>2, <1>6 DEF SlackRows
<1>8. UNION {ToolRows(u, scope, Ids) : scope \in Scopes} \subseteq WithTeamAccess(u)
  BY <1>1 DEF ToolRows
<1> QED BY <1>3, <1>4, <1>5, <1>6, <1>7, <1>8 DEF Seen

LEMMA ThreadsAreSeen ==
  ASSUME Inv, NEW u \in Users, NEW x \in Ids
  PROVE  ThreadRoute(u, x) \cup ReadThread(u, x) \cup SlackReadThread(u, x) \subseteq Seen(u)
<1> DEFINE root == IF memories[x].parent = None THEN x ELSE memories[x].parent
<1>1. OwnRows(u) \subseteq WithTeamAccess(u) /\ WithTeamAccess(u) \subseteq Ids
  BY DEF WithTeamAccess, OwnRows, OrgShared, TeamShared
<1>2. ASSUME NEW p \in WithTeamAccess(u)
      PROVE  {p} \cup ListChildren(u, p) \subseteq Seen(u)
  <2>1. p \in Ids
    BY <1>1
  <2>2. ListChildren(u, p) \subseteq ThreadRows(u)
    BY <2>1 DEF ListChildren, LiveOf, Children, ThreadRows, OwnRows
  <2> QED BY <2>2 DEF Seen
<1>3. ThreadRoute(u, x) \cup ReadThread(u, x) \subseteq Seen(u)
  <2>1. ASSUME NEW m \in ThreadRoute(u, x) \cup ReadThread(u, x)
        PROVE  root \in WithTeamAccess(u) /\ m \in {root} \cup ListChildren(u, root)
    BY <1>1 DEF ThreadRoute, ReadThread, ThreadOf
  <2> QED BY <1>2, <2>1
<1>4. SlackReadThread(u, x) \subseteq Seen(u)
  <2>1. ASSUME NEW m \in SlackReadThread(u, x)
        PROVE  x \in WithTeamAccess(u) /\ m \in {x} \cup ListChildren(u, x)
    BY DEF SlackReadThread, LiveOf
  <2> QED BY <1>2, <2>1
<1> QED BY <1>3, <1>4

LEMMA GraphsAreSeen ==
  ASSUME NEW u \in Users
  PROVE  (UNION {GraphAround(u, x) : x \in Ids}) \cup Graph(u, "both")
           \cup TagRows(u, "team") \subseteq Seen(u)
<1>1. LiveOf(Visible(u)) \subseteq Seen(u)
  <2>1. ASSUME NEW m \in LiveOf(Visible(u)), m \notin WithTeamAccess(u)
        PROVE  m \in OrgTeamPools(u)
    <3>1. /\ IsOrgAdmin(u) /\ m \in Ids /\ Live(m)
          /\ memories[m].team \in TeamsOf(users[u].org_id)
      BY <2>1 DEF LiveOf, Visible, SharedPool, WithTeamAccess
    <3>2. /\ memories[m].team \in Teams
          /\ team_org[memories[m].team] = users[u].org_id
          /\ users[u].org_id # None
      BY <3>1 DEF TeamsOf, IsOrgAdmin
    <3>3. m \in ListTeamMemories(memories[m].team)
      BY <3>1 DEF ListTeamMemories
    <3> QED BY <3>2, <3>3 DEF OrgTeamPools
  <2> QED BY <2>1 DEF Seen
<1>2. (UNION {GraphAround(u, x) : x \in Ids}) \cup Graph(u, "both") \cup TagRows(u, "team")
        \subseteq LiveOf(Visible(u))
  BY DEF GraphAround, Backlinks, Graph, TagRows, LiveOf, Visible
<1> QED BY <1>1, <1>2

\* What can be read is exactly that; each reply through the route of its
\* thread, whose root is a top-level row.
LEMMA ReadableIsSeen == Inv => \A u \in Users : Readable(u) = Seen(u)
<1> SUFFICES ASSUME Inv, NEW u \in Users PROVE Readable(u) = Seen(u)
  OBVIOUS
<1>1. Readable(u) \subseteq Seen(u)
  <2>1. UNION {ThreadRoute(u, m) \cup ReadThread(u, m) \cup SlackReadThread(u, m) : m \in Ids}
          \subseteq Seen(u)
    BY ThreadsAreSeen
  <2>2. OrgTeamPools(u) \cup WithTeamAccess(u) \subseteq Seen(u)
    BY DEF Seen
  <2> QED BY <2>1, <2>2, ListsAreSeen, GraphsAreSeen DEF Readable
<1>2. ThreadRows(u) \subseteq UNION {ThreadRoute(u, m) : m \in Ids}
  <2> SUFFICES ASSUME NEW m \in ThreadRows(u)
               PROVE  \E p \in Ids : m \in ThreadRoute(u, p)
    OBVIOUS
  <2> DEFINE p == memories[m].parent
  <2>1. m \in Ids /\ Live(m) /\ p \in OwnRows(u) \cup OrgShared(u)
    BY DEF ThreadRows
  <2>2. p \in Ids /\ p \in WithTeamAccess(u)
    BY <2>1 DEF OwnRows, OrgShared, WithTeamAccess
  <2>3. memories[p].parent = None
    BY <2>1, <2>2 DEF Inv, Sound, Typed, Threaded, Ids
  <2>4. m \in ListChildren(u, p)
    BY <2>1 DEF ListChildren, LiveOf, Children, OwnRows
  <2>5. m \in ThreadRoute(u, p)
    BY <2>2, <2>3, <2>4 DEF ThreadRoute, ThreadOf
  <2> QED BY <2>2, <2>5
<1>3. Seen(u) \subseteq Readable(u)
  BY <1>2 DEF Seen, Readable
<1> QED BY <1>1, <1>3

\* The row x is as it was, but that its sub-team may be gone.
Kept(x) ==
  /\ x \in Ids /\ x \in Ids'
  /\ memories'[x].user_id = memories[x].user_id
  /\ memories'[x].deleted = memories[x].deleted
  /\ memories'[x].parent = memories[x].parent
  /\ memories'[x].org = memories[x].org
  /\ memories'[x].team \in {memories[x].team, None}

\* Who reads m after a step read it before, if neither the reader nor m nor
\* its thread has changed, and no team has got another org.
LEMMA KeptIsNotOpened ==
  ASSUME NEW u \in Users, users'[u] = users[u], NEW m, Kept(m),
         memories[m].parent \in Ids' => Kept(memories[m].parent),
         memories[m].team \in Teams =>
           team_org'[memories[m].team] \in {team_org[memories[m].team], None},
         m \in Seen(u)'
  PROVE  m \in Seen(u)
<1>1. CASE m \in WithTeamAccess(u)'
  BY <1>1 DEF Seen, WithTeamAccess, OwnRows, OrgShared, TeamShared, Kept
<1>2. CASE m \in OrgTeamPools(u)'
  <2>1. PICK t \in Teams : /\ team_org'[t] # None /\ team_org'[t] = users[u].org_id
                           /\ memories'[m].team = t /\ ~memories'[m].deleted
    BY <1>2 DEF OrgTeamPools, ListTeamMemories, Live
  <2>2. memories[m].team = t /\ team_org[t] = team_org'[t] /\ Live(m)
    BY <2>1 DEF Kept, Live
  <2>3. m \in ListTeamMemories(t)
    BY <2>2 DEF ListTeamMemories, Kept
  <2> QED BY <2>1, <2>2, <2>3 DEF Seen, OrgTeamPools
<1>3. CASE m \in ThreadRows(u)'
  <2> DEFINE p == memories[m].parent
  <2>1. Live(m) /\ p \in OwnRows(u)' \cup OrgShared(u)'
    BY <1>3 DEF ThreadRows, Live, Kept
  <2>2. p \in Ids'
    BY <2>1 DEF OwnRows, OrgShared
  <2>3. p \in OwnRows(u) \cup OrgShared(u)
    BY <2>1, <2>2 DEF Kept, OwnRows, OrgShared
  <2> QED BY <2>1, <2>3 DEF Seen, ThreadRows, Kept
<1> QED BY <1>1, <1>2, <1>3 DEF Seen

\* A team keeps its org until it is deleted.
LEMMA TeamsKeepOrg ==
  ASSUME OrgTypeOK, MembershipStep, NEW t \in Teams, team_org[t] # None
  PROVE  team_org'[t] = team_org[t]
BY DEF MembershipStep, Invite, InviteLapses, OpenLapsedInvite, JoinOrg, RevokeInvite,
       RemoveMember, LeaveOrg, SetRole, CreateTeam, AddToTeam, RemoveFromTeam, OrgTypeOK

\* A request opens only rows of its user, and rows in threads of its user.
LEMMA RequestsOpenOwn ==
  ASSUME Inv, NEW w \in Users, MemoryRequest(w), NEW u \in Users, users'[u] = users[u],
         NEW m \in Ids, m \in Seen(u)' \ Seen(u)
  PROVE  Mine(w, m)
<1> SUFFICES ASSUME ~Mine(w, m) PROVE FALSE
  OBVIOUS
<1> DEFINE p == memories[m].parent
<1>1. Kept(m)
  BY RequestSpares DEF Spares, Kept, Ids
<1>2. ASSUME p \in Ids' PROVE Kept(p)
  <2>1. p # None
    <3>1. memories[m] \in Row /\ Ids \subseteq MemoryIds
      BY DEF Inv, Sound, Typed, Ids
    <3>2. Ids' \subseteq MemoryIds
      BY RequestPreserves DEF Inv, Sound, Typed, Ids
    <3> QED BY <1>2, <3>2
  <2>2. p \in Ids /\ memories[p].parent = None
    BY <2>1 DEF Inv, Sound, Threaded, Ids
  <2>3. ~Mine(w, p)
    BY <2>1, <2>2 DEF Mine
  <2> QED BY <2>2, <2>3, RequestSpares DEF Spares, Kept, Ids
<1>3. team_org' = team_org
  BY DEF MemoryRequest, CreateMemory, WriteMemoryTool, CreateCiTestMemory, CreateChildMemory,
         SoftDelete, DeleteMemoryTool, Restore, PermanentDelete, EmptyTrash, ShareMemory,
         ShareToOrg, ShareToTeam, UnshareMemory, UnshareMemoryTool, CreateOrgWithSeed,
         CreateOrg, orgVars
<1> QED BY <1>1, <1>2, <1>3, KeptIsNotOpened

\* No other step opens anything to who stays where he is.
LEMMA OthersOpenNothing ==
  ASSUME Inv, [Next]_vars, ~\E w \in Users : MemoryRequest(w),
         NEW u \in Users, users'[u] = users[u], NEW m \in Ids, m \in Seen(u)'
  PROVE  m \in Seen(u)
<1> DEFINE t == memories[m].team
<1>0. /\ \A x \in Ids : memories[x] \in Row
      /\ memories[m].parent # None => memories[m].parent \in Ids
      /\ t # None => t \in Teams /\ team_org[t] # None
      /\ team_org \in [Teams -> Orgs \cup {None}]
      /\ Ids \subseteq MemoryIds
  BY DEF Inv, OrgInv, OrgTypeOK, Sound, Typed, Threaded, Scoped, Ids, Row
<1>1. CASE UNCHANGED memories
  <2>1. team_org'[t] = team_org[t] \/ t \notin Teams
    <3>1. CASE MembershipStep
      BY <1>0, <3>1, TeamsKeepOrg DEF Inv, OrgInv
    <3>2. CASE UNCHANGED team_org
      BY <3>2
    <3>3. ASSUME NEW w \in Users, NEW o \in Orgs, CreateOrg(w, o) PROVE UNCHANGED team_org
      BY <3>3 DEF CreateOrg
    <3>4. ASSUME NEW w \in Users, NEW o \in Orgs, NEW s \in Teams, NEW force \in BOOLEAN,
                 RemoveTeam(w, o, s, force)
          PROVE  team_org'[t] = team_org[t] \/ t \notin Teams
      <4>1. t # s
        BY <1>0, <1>1, <3>4 DEF RemoveTeam, TeamMemories, Ids, Row
      <4> QED BY <1>0, <3>4, <4>1 DEF RemoveTeam, DeleteTeam
    <3> QED BY <3>1, <3>2, <3>3, <3>4 DEF Next, vars, orgVars
  <2>2. \A x \in Ids : Kept(x)
    BY <1>1 DEF Kept, Ids
  <2>3. Ids' = Ids
    BY <1>1 DEF Ids
  <2> QED BY <2>1, <2>2, <2>3, KeptIsNotOpened
<1>2. ASSUME NEW w \in Users, NEW o \in Orgs, NEW s \in Teams, NEW force \in BOOLEAN,
             RemoveTeam(w, o, s, force)
      PROVE  m \in Seen(u)
  <2>1. Ids' = Ids /\ \A x \in Ids : Kept(x)
    BY <1>0, <1>2 DEF RemoveTeam, Kept, Ids, Row
  <2>2. \A r \in Teams : team_org'[r] \in {team_org[r], None}
    BY <1>0, <1>2 DEF RemoveTeam, DeleteTeam
  <2> QED BY <2>1, <2>2, KeptIsNotOpened
<1> QED BY <1>1, <1>2 DEF Next, vars

\* No row is opened to anybody who stays where he is, unless its author or the
\* author of its thread asks for it.
THEOREM ReadersAreChosen == Spec => ReadersChangeByConsent
<1>1. ASSUME Inv, [Next]_vars, Inv', \A u \in Users : Readable(u) = Seen(u),
             (\A u \in Users : Readable(u) = Seen(u))'
      PROVE  \A u \in Users : users'[u] = users[u] =>
               \A m \in (Readable(u)' \ Readable(u)) \cap Ids : AskedByAuthor(m)
  <2> SUFFICES ASSUME NEW u \in Users, users'[u] = users[u], NEW m \in Ids,
                      m \in Seen(u)' \ Seen(u)
               PROVE  AskedByAuthor(m)
    BY <1>1
  <2>1. PICK w \in Users : MemoryRequest(w)
    BY <1>1, OthersOpenNothing
  <2>2. Mine(w, m)
    BY <1>1, <2>1, RequestsOpenOwn
  <2> QED BY <2>1, <2>2 DEF Mine, AskedByAuthor
<1> QED
  BY <1>1, InvInductive, ReadableIsSeen, PTL DEF Spec, ReadersChangeByConsent
-----------------------------------------------------------------------------
(* What u could open stays open, unless u moves or the author of the row, or *)
(* of its thread, asks for something.                                        *)

\* A request of somebody else leaves the row as it is.
LEMMA RequestKeepsOpen ==
  ASSUME Inv, NEW w \in Users, MemoryRequest(w), NEW m \in Ids, ~AskedByAuthor(m)
  PROVE  m \in Ids' /\ memories'[m] = memories[m]
<1>1. ~Mine(w, m)
  BY DEF Mine, AskedByAuthor
<1> QED BY <1>1, RequestSpares DEF Spares, Ids

\* Any other step only takes rows out of a team that it also empties.
LEMMA OthersKeepOpen ==
  ASSUME Inv, [Next]_vars, ~\E w \in Users : MemoryRequest(w),
         NEW u \in Users, users'[u] = users[u], NEW m \in Ids
  PROVE  /\ m \in Ids'
         /\ memories'[m].user_id = memories[m].user_id
         /\ memories'[m].deleted = memories[m].deleted
         /\ memories'[m].org = memories[m].org
         /\ \/ memories'[m].team = memories[m].team
            \/ memories[m].team # users[u].team_id
<1>1. CASE UNCHANGED memories
  BY <1>1 DEF Ids
<1>2. ASSUME NEW w \in Users, NEW o \in Orgs, NEW t \in Teams, NEW force \in BOOLEAN,
             RemoveTeam(w, o, t, force)
      PROVE  /\ m \in Ids'
             /\ memories'[m].user_id = memories[m].user_id
             /\ memories'[m].deleted = memories[m].deleted
             /\ memories'[m].org = memories[m].org
             /\ \/ memories'[m].team = memories[m].team
                \/ memories[m].team # users[u].team_id
  <2>1. users \in [Users -> Membership] /\ memories[m] \in Row /\ t # None
    BY DEF Inv, OrgInv, OrgTypeOK, Sound, Typed, Ids
  <2>2. users[u].team_id # t
    <3>1. users'[u] = IF users[u].team_id = t THEN [users[u] EXCEPT !.team_id = None]
                      ELSE users[u]
      BY <1>2 DEF RemoveTeam, DeleteTeam
    <3> QED BY <2>1, <3>1 DEF Membership
  <2>3. memories'[m] = IF memories[m].team = t THEN [memories[m] EXCEPT !.team = None]
                       ELSE memories[m]
    BY <1>2 DEF RemoveTeam, TeamMemories
  <2>4. m \in Ids'
    BY <1>2 DEF RemoveTeam, Ids
  <2> QED BY <2>1, <2>2, <2>3, <2>4 DEF Row
<1> QED BY <1>1, <1>2 DEF Next, vars

LEMMA OpenStays ==
  ASSUME Inv, [Next]_vars, NEW u \in Users, users'[u] = users[u],
         NEW m \in Ids, ~AskedByAuthor(m)
  PROVE  /\ m \in LiveOf(WithTeamAccess(u)) => m \in LiveOf(WithTeamAccess(u))'
         /\ m \in LiveOf(OwnRows(u)) => m \in LiveOf(OwnRows(u))'
<1>1. /\ m \in Ids'
      /\ memories'[m].user_id = memories[m].user_id
      /\ memories'[m].deleted = memories[m].deleted
      /\ memories'[m].org = memories[m].org
      /\ \/ memories'[m].team = memories[m].team
         \/ memories[m].team # users[u].team_id
  BY RequestKeepsOpen, OthersKeepOpen
<1>2. m \in LiveOf(OwnRows(u)) => m \in LiveOf(OwnRows(u))'
  BY <1>1 DEF LiveOf, OwnRows, Live
<1>3. m \in LiveOf(WithTeamAccess(u)) => m \in LiveOf(WithTeamAccess(u))'
  BY <1>1 DEF LiveOf, WithTeamAccess, OwnRows, OrgShared, TeamShared, Live
<1> QED BY <1>2, <1>3

\* What an agent finds it can read by its id after the next step of anybody,
\* but for moves of its user and for what the author asks.
THEOREM FoundIsOpened == Spec => FoundCanBeOpened
<1>1. ASSUME Inv, [Next]_vars
      PROVE  \A u \in Users, V \in SUBSET Ids : users'[u] = users[u] =>
               \A m \in (FoundByTools(u, V) \ GetMemoryById(u, V)')
                          \cup ((AgentLatest(u, V) \cup AgentRows(u, V)) \ ReadByAgent(u, V)')
                          \cup (SlackRows(u, V) \ SlackGetMemoryById(u)') :
                 AskedByAuthor(m)
  <2> SUFFICES ASSUME NEW u \in Users, NEW V \in SUBSET Ids, users'[u] = users[u],
                      NEW m, ~AskedByAuthor(m)
               PROVE  /\ m \in FoundByTools(u, V) => m \in GetMemoryById(u, V)'
                      /\ m \in AgentLatest(u, V) \cup AgentRows(u, V) => m \in ReadByAgent(u, V)'
                      /\ m \in SlackRows(u, V) => m \in SlackGetMemoryById(u)'
    OBVIOUS
  <2>1. LiveOf(WithTeamAccess(u)) \subseteq Ids /\ LiveOf(OwnRows(u)) \subseteq Ids
    BY DEF LiveOf, WithTeamAccess, OwnRows, OrgShared, TeamShared
  <2>2. ASSUME m \in FoundByTools(u, V) PROVE m \in GetMemoryById(u, V)'
    <3>1. m \in LiveOf(WithTeamAccess(u)) /\ m \in V
      BY <2>2, FoundOpens DEF GetMemoryById
    <3>2. m \in LiveOf(WithTeamAccess(u))'
      BY <1>1, <2>1, <3>1, OpenStays
    <3> QED BY <3>1, <3>2 DEF GetMemoryById
  <2>3. ASSUME m \in AgentLatest(u, V) \cup AgentRows(u, V) PROVE m \in ReadByAgent(u, V)'
    <3>1. m \in LiveOf(OwnRows(u)) /\ m \in V
      BY <2>3, AgentListsOpen DEF ReadByAgent
    <3>2. m \in LiveOf(OwnRows(u))'
      BY <1>1, <2>1, <3>1, OpenStays
    <3> QED BY <3>1, <3>2 DEF ReadByAgent
  <2>4. ASSUME m \in SlackRows(u, V) PROVE m \in SlackGetMemoryById(u)'
    <3>1. m \in LiveOf(WithTeamAccess(u))
      BY <2>4, SlackListsOpen DEF SlackGetMemoryById
    <3>2. m \in LiveOf(WithTeamAccess(u))'
      BY <1>1, <2>1, <3>1, OpenStays
    <3> QED BY <3>2 DEF SlackGetMemoryById
  <2> QED BY <2>2, <2>3, <2>4
<1> QED
  BY <1>1, InvInductive, PTL DEF Spec, FoundCanBeOpened

-----------------------------------------------------------------------------
(* MemoryVersions. *)

\* The histories are numbered without a gap: an invariant by itself.
Histories ==
  /\ text \in [Ids -> Texts]
  /\ versions \in [Ids -> SUBSET Version]
  /\ \A m \in Ids : IsFiniteSet(versions[m]) /\ Numbers(m) = 1..Cardinality(versions[m])

LEMMA LastIsCardinality ==
  ASSUME NEW m \in Ids, IsFiniteSet(versions[m]), Numbers(m) = 1..Cardinality(versions[m])
  PROVE  LastNumber(m) = Cardinality(versions[m])
<1> DEFINE n == Cardinality(versions[m])
           Upper(k) == \A j \in Numbers(m) : j <= k
<1>1. n \in Nat
  BY FS_CardinalityType
<1>2. n \in Numbers(m) \cup {0} /\ Upper(n)
  BY <1>1
<1>3. ASSUME NEW k \in Numbers(m) \cup {0}, Upper(k) PROVE k = n
  BY <1>1, <1>3
<1>4. LastNumber(m) \in Numbers(m) \cup {0} /\ Upper(LastNumber(m))
  BY <1>2 DEF LastNumber
<1> QED BY <1>3, <1>4
-----------------------------------------------------------------------------
(* The four statements. *)

LEMMA KeepVersionKeeps ==
  ASSUME Histories, NEW m \in Ids, KeepVersion(m), Ids' = Ids, text' \in [Ids -> Texts]
  PROVE  Histories'
<1> DEFINE n == Cardinality(versions[m])
           new == versions[m] \cup {Snapshot(m)}
<1>1. n \in Nat /\ LastNumber(m) = n
  BY LastIsCardinality, FS_CardinalityType DEF Histories
<1>2. Snapshot(m) \in Version /\ Snapshot(m).number = n + 1
  BY <1>1 DEF Snapshot, Version, Histories
<1>3. Snapshot(m) \notin versions[m]
  BY <1>2 DEF KeepVersion, Numbers
<1>4. IsFiniteSet(new) /\ Cardinality(new) = n + 1
  BY <1>3, FS_AddElement DEF Histories
<1>5. {v.number : v \in new} = 1..(n + 1)
  <2>1. {v.number : v \in new} = Numbers(m) \cup {n + 1}
    BY <1>2 DEF Numbers
  <2>2. Numbers(m) = 1..n
    BY DEF Histories
  <2>3. (1..n) \cup {n + 1} = 1..(n + 1)
    BY <1>1
  <2> QED BY <2>1, <2>2, <2>3
<1>6. versions' = [versions EXCEPT ![m] = new]
  BY DEF KeepVersion
<1>7. versions' \in [Ids -> SUBSET Version]
  BY <1>2, <1>6 DEF Histories
<1>8. \A r \in Ids : IsFiniteSet(versions'[r])
                     /\ {v.number : v \in versions'[r]} = 1..Cardinality(versions'[r])
  <2>1. versions'[m] = new /\ \A r \in Ids \ {m} : versions'[r] = versions[r]
    BY <1>6 DEF Histories
  <2>2. \A r \in Ids \ {m} : IsFiniteSet(versions[r])
                             /\ {v.number : v \in versions[r]} = 1..Cardinality(versions[r])
    BY DEF Histories, Numbers
  <2> QED BY <2>1, <2>2, <1>4, <1>5
<1> QED BY <1>7, <1>8 DEF Histories, Numbers

LEMMA ReplaceKeeps ==
  ASSUME Histories, NEW m \in Ids, NEW x \in Texts, Replace(m, x), Ids' = Ids
  PROVE  Histories'
<1>1. KeepVersion(m) /\ text' \in [Ids -> Texts]
  BY DEF Replace, Histories
<1> QED BY <1>1, KeepVersionKeeps

LEMMA StartKeeps ==
  ASSUME Histories, NEW m, m \notin Ids, NEW x \in Texts, Start(m, x), Ids' = Ids \cup {m}
  PROVE  Histories'
<1>1. text' \in [Ids' -> Texts] /\ versions' \in [Ids' -> SUBSET Version]
  BY DEF Start, Histories
<1>2. versions'[m] = {} /\ \A r \in Ids : versions'[r] = versions[r]
  BY DEF Start
<1>3. IsFiniteSet({}) /\ {v.number : v \in {}} = 1..Cardinality({})
  BY FS_EmptySet
<1>4. \A r \in Ids' : IsFiniteSet(versions'[r])
                      /\ {v.number : v \in versions'[r]} = 1..Cardinality(versions'[r])
  BY <1>2, <1>3 DEF Histories, Numbers
<1> QED BY <1>1, <1>4 DEF Histories, Numbers

LEMMA DropKeeps ==
  ASSUME Histories, Ids' \subseteq Ids, text' = [r \in Ids' |-> text[r]],
         NEW lost, DropVersions(lost)
  PROVE  Histories'
<1>1. text' \in [Ids' -> Texts] /\ versions' \in [Ids' -> SUBSET Version]
  BY DEF DropVersions, Histories
<1>2. IsFiniteSet({}) /\ {v.number : v \in {}} = 1..Cardinality({})
  BY FS_EmptySet
<1>3. \A r \in Ids' : versions'[r] = {} \/ versions'[r] = versions[r]
  BY DEF DropVersions
<1>4. \A r \in Ids' : IsFiniteSet(versions'[r])
                      /\ {v.number : v \in versions'[r]} = 1..Cardinality(versions'[r])
  BY <1>2, <1>3 DEF Histories, Numbers
<1> QED BY <1>1, <1>4 DEF Histories, Numbers

LEMMA NothingKeeps ==
  ASSUME Histories, Ids' = Ids, UNCHANGED <<text, versions>>
  PROVE  Histories'
BY DEF Histories, Numbers
-----------------------------------------------------------------------------
(* The rows that each request leaves. *)

LEMMA SavedDomain ==
  ASSUME NEW u \in Users, NEW m \in MemoryIds
  PROVE  DOMAIN SavedTable(u, m) = Ids \cup {m}
BY DEF SavedTable, Insert, Ids

LEMMA SavedIds ==
  ASSUME NEW u \in Users, NEW m \in MemoryIds, NEW intent \in ShareIntents,
         \/ memories' = ApplyShareScope(u, intent, m, SavedTable(u, m))
         \/ memories' = SetDeleted(SavedTable(u, m), {m}, TRUE)
         \/ \E o \in Orgs : memories' = SetScope(SavedTable(u, m), {m}, o, None)
  PROVE  Ids' = Ids \cup {m}
<1>1. DOMAIN memories' = DOMAIN SavedTable(u, m)
  BY DEF ApplyShareScope, SetDeleted, SetScope
<1> QED BY <1>1, SavedDomain DEF Ids

\* What a step of WriteStep is made of.
LEMMA WriteForms ==
  ASSUME NEW u \in Users, WriteStep(u)
  PROVE  \E m \in MemoryIds, x \in Texts :
           \/ Ids' = Ids /\ m \in Ids /\ Live(m) /\ Replace(m, x)
           \/ Ids' = Ids /\ m \in Ids /\ KeepVersion(m) /\ UNCHANGED text
           \/ Ids' = Ids \cup {m} /\ m \notin Ids /\ Start(m, x)
<1>1. PICK m \in MemoryIds, x \in Texts :
        \/ \E intent \in ShareIntents :
             Write(u, intent, m, x) \/ WriteByTool(u, intent, m, x) \/ WriteCiTest(u, intent, m, x)
        \/ \E intent \in ShareIntents : MergeCut(u, intent, m)
        \/ \E o \in Orgs : WriteSeed(u, o, m, x)
        \/ \E p \in MemoryIds : Reply(u, p, m, x)
        \/ UpdateMemory(u, m, x)
        \/ UpdateOwnMemory(u, m, x)
  BY DEF WriteStep
<1>2. ASSUME NEW intent, Save(u, intent, m, x), Ids' = Ids \cup {m}
      PROVE  \/ Ids' = Ids /\ m \in Ids /\ Live(m) /\ Replace(m, x)
             \/ Ids' = Ids \cup {m} /\ m \notin Ids /\ Start(m, x)
  BY <1>2 DEF Save, MergeCandidates
<1>3. ASSUME NEW intent \in ShareIntents,
             Write(u, intent, m, x) \/ WriteByTool(u, intent, m, x) \/ WriteCiTest(u, intent, m, x)
      PROVE  Ids' = Ids \cup {m} /\ \E i : Save(u, i, m, x)
  <2>1. \E i : Save(u, i, m, x)
    BY <1>3 DEF Write, WriteByTool, WriteCiTest
  <2>2. \/ memories' = ApplyShareScope(u, intent, m, SavedTable(u, m))
        \/ memories' = SetDeleted(SavedTable(u, m), {m}, TRUE)
    BY <1>3 DEF Write, WriteByTool, WriteCiTest
  <2> QED BY <2>1, <2>2, SavedIds
<1>4. ASSUME NEW o \in Orgs, WriteSeed(u, o, m, x)
      PROVE  Ids' = Ids \cup {m} /\ \E i : Save(u, i, m, x)
  <2>1. "personal" \in ShareIntents
    BY DEF ShareIntents
  <2> QED BY <1>4, <2>1, SavedIds DEF WriteSeed
<1>5. ASSUME NEW intent \in ShareIntents, MergeCut(u, intent, m)
      PROVE  Ids' = Ids /\ m \in Ids /\ KeepVersion(m) /\ UNCHANGED text
  BY <1>5 DEF MergeCut, MergeCandidates, vars, Ids
<1>6. ASSUME NEW p \in MemoryIds, Reply(u, p, m, x)
      PROVE  Ids' = Ids \cup {m} /\ m \notin Ids /\ Start(m, x)
  BY <1>6 DEF Reply, CreateChildMemory, Insert, Ids
<1>7. ASSUME UpdateMemory(u, m, x) \/ UpdateOwnMemory(u, m, x)
      PROVE  Ids' = Ids /\ m \in Ids /\ Live(m) /\ Replace(m, x)
  BY <1>7 DEF UpdateMemory, UpdateOwnMemory, CanEdit, vars, Ids
<1> QED BY <1>1, <1>2, <1>3, <1>4, <1>5, <1>6, <1>7

LEMMA PurgeForms ==
  ASSUME NEW u \in Users, PurgeStep(u)
  PROVE  /\ Ids' \subseteq Ids
         /\ text' = [r \in Ids' |-> text[r]]
         /\ \/ DropVersions({})
            \/ \E m \in Ids : \E c \in OwnChildren(u, m) :
                 PermanentDelete(u, m) /\ Crashes /\ DropVersions({c})
<1>1. CASE PurgeTrash(u)
  BY <1>1 DEF PurgeTrash, EmptyTrash, Purge, Ids
<1>2. ASSUME NEW m \in Ids, PurgeThread(u, m)
      PROVE  /\ Ids' \subseteq Ids
             /\ text' = [r \in Ids' |-> text[r]]
             /\ \/ DropVersions({})
                \/ Crashes /\ \E c \in OwnChildren(u, m) : DropVersions({c})
  <2>1. Ids' \subseteq Ids
    BY <1>2 DEF PurgeThread, PermanentDelete, CascadeHardDelete, Purge, Orphan, Ids
  <2>2. PICK lost \in {{}} \cup
               (IF Crashes /\ m \in Ids' /\ memories[m].parent = None
                THEN {{c} : c \in OwnChildren(u, m) \cap Ids'} ELSE {}) : DropVersions(lost)
    BY <1>2 DEF PurgeThread
  <2> QED BY <1>2, <2>1, <2>2 DEF PurgeThread
<1> QED BY <1>1, <1>2 DEF PurgeStep, PurgeThread

LEMMA OtherForms ==
  ASSUME OtherStep
  PROVE  Ids' = Ids /\ UNCHANGED <<text, versions>>
<1>1. CASE UNCHANGED memories
  BY <1>1 DEF OtherStep, Ids
<1>2. ASSUME NEW u \in Users, OtherRequest(u), ~UNCHANGED memories
      PROVE  Ids' = Ids
  BY <1>2 DEF OtherRequest, SoftDelete, DeleteMemoryTool, Restore, ShareMemory, ShareToOrg,
              ShareToTeam, UnshareMemory, UnshareMemoryTool, RemoveTeam, SetDeleted, SetScope, Ids
<1> QED BY <1>1, <1>2 DEF OtherStep
-----------------------------------------------------------------------------
\* Every step of MemoryVersions is one of MemoryThreads, or none: what is
\* proved of the threads holds with texts and versions.
LEMMA StepIsThreadStep ==
  ASSUME [VersionedNext]_versionVars
  PROVE  [Next]_vars
<1>1. ASSUME NEW u \in Users, WriteStep(u) PROVE MemoryRequest(u) \/ UNCHANGED vars
  BY <1>1 DEF WriteStep, Write, WriteByTool, WriteCiTest, MergeCut, WriteSeed, Reply,
              UpdateMemory, UpdateOwnMemory, MemoryRequest
<1>2. ASSUME NEW u \in Users, PurgeStep(u) PROVE MemoryRequest(u)
  BY <1>2 DEF PurgeStep, PurgeThread, PurgeTrash, MemoryRequest
<1>3. CASE OtherStep
  <2>1. ASSUME NEW u \in Users, OtherRequest(u) PROVE Next
    BY <2>1 DEF OtherRequest, MemoryRequest, Next
  <2> QED BY <1>3, <2>1 DEF OtherStep, Next
<1>4. CASE UNCHANGED versionVars
  BY <1>4 DEF versionVars
<1> QED BY <1>1, <1>2, <1>3, <1>4 DEF VersionedNext, Next

\* The detailed specification implements that of the threads.
THEOREM VersionsImplementThreads == VersionedSpec => Spec
<1>1. VersionedInit => Init
  BY DEF VersionedInit
<1> QED BY <1>1, StepIsThreadStep, PTL DEF VersionedSpec, Spec

LEMMA HistoriesInductive ==
  /\ VersionedInit => Histories
  /\ Histories /\ [VersionedNext]_versionVars => Histories'
<1>1. ASSUME VersionedInit PROVE Histories
  <2>1. Ids = {}
    BY <1>1 DEF VersionedInit, Init, Ids
  <2> QED BY <1>1, <2>1 DEF VersionedInit, Histories
<1>2. ASSUME Histories, [VersionedNext]_versionVars PROVE Histories'
  <2>1. ASSUME NEW u \in Users, WriteStep(u) PROVE Histories'
    <3>1. PICK m \in MemoryIds, x \in Texts :
            \/ Ids' = Ids /\ m \in Ids /\ Live(m) /\ Replace(m, x)
            \/ Ids' = Ids /\ m \in Ids /\ KeepVersion(m) /\ UNCHANGED text
            \/ Ids' = Ids \cup {m} /\ m \notin Ids /\ Start(m, x)
      BY <2>1, WriteForms
    <3>2. text \in [Ids -> Texts]
      BY <1>2 DEF Histories
    <3> QED BY <1>2, <3>1, <3>2, ReplaceKeeps, KeepVersionKeeps, StartKeeps
  <2>2. ASSUME NEW u \in Users, PurgeStep(u) PROVE Histories'
    <3>1. Ids' \subseteq Ids /\ text' = [r \in Ids' |-> text[r]] /\ \E lost : DropVersions(lost)
      BY <2>2, PurgeForms
    <3> QED BY <1>2, <3>1, DropKeeps
  <2>3. CASE OtherStep
    BY <1>2, <2>3, OtherForms, NothingKeeps
  <2>4. CASE UNCHANGED versionVars
    BY <1>2, <2>4, NothingKeeps DEF versionVars, vars, Ids
  <2> QED BY <1>2, <2>1, <2>2, <2>3, <2>4 DEF VersionedNext
<1> QED BY <1>1, <1>2

\* The texts and histories belong to the rows there are.
THEOREM VersionsTypeCorrect == VersionedSpec => []VersionsTypeOK
<1>1. TypeOK /\ Histories => VersionsTypeOK
  BY DEF Histories, VersionsTypeOK
<1>2. VersionedSpec => []Histories
  BY HistoriesInductive, PTL DEF VersionedSpec
<1> QED BY <1>1, <1>2, VersionsImplementThreads, MemoriesTypeCorrect, PTL

\* Version numbers are 1, 2, 3, ... of each row, for any number of editors,
\* merges and deaths in the middle of either.
THEOREM VersionsCorrect == VersionedSpec => []VersionsContiguous
<1>1. ASSUME TypeOK, Histories PROVE VersionsContiguous
  <2> SUFFICES ASSUME NEW m \in Ids
               PROVE  /\ Numbers(m) = 1..Cardinality(versions[m])
                      /\ CurrentVersion(memories[m].user_id, m) = Snapshot(m).number
    BY DEF VersionsContiguous
  <2>1. LastNumber(m) = Cardinality(versions[m])
    BY <1>1, LastIsCardinality DEF Histories
  <2>2. VersionHistory(memories[m].user_id, m) = versions[m]
    BY DEF VersionHistory, Owns
  <2> QED BY <1>1, <2>1, <2>2 DEF Histories, CurrentVersion, Snapshot
<1>2. VersionedSpec => []Histories
  BY HistoriesInductive, PTL DEF VersionedSpec
<1> QED BY <1>1, <1>2, VersionsImplementThreads, MemoriesTypeCorrect, PTL
-----------------------------------------------------------------------------
\* One row over one step, as HistoryKept asks.
Keeps(m) ==
  LET p == memories[m].parent
  IN  /\ text'[m] # text[m] =>
           Live(m) /\ text[m] \in {v.text : v \in versions'[m] \ versions[m]}
      /\ \/ versions[m] \subseteq versions'[m]
         \/ /\ Crashes
            /\ p # None
            /\ memories[p].user_id = memories[m].user_id
            /\ MemoryRequest(memories[p].user_id)

LEMMA KeepVersionAdds ==
  ASSUME Histories, NEW m \in Ids, KeepVersion(m), NEW r \in Ids
  PROVE  /\ versions[r] \subseteq versions'[r]
         /\ r = m => text[r] \in {v.text : v \in versions'[r] \ versions[r]}
<1>1. versions'[r] = IF r = m THEN versions[m] \cup {Snapshot(m)} ELSE versions[r]
  BY DEF KeepVersion, Histories
<1>2. Snapshot(m) \notin versions[m] /\ Snapshot(m).text = text[m]
  BY DEF KeepVersion, Numbers, Snapshot
<1> QED BY <1>1, <1>2

LEMMA WritesKeep ==
  ASSUME Histories, NEW u \in Users, WriteStep(u), NEW r \in Ids \cap Ids'
  PROVE  Keeps(r)
<1>1. PICK m \in MemoryIds, x \in Texts :
        \/ Ids' = Ids /\ m \in Ids /\ Live(m) /\ Replace(m, x)
        \/ Ids' = Ids /\ m \in Ids /\ KeepVersion(m) /\ UNCHANGED text
        \/ Ids' = Ids \cup {m} /\ m \notin Ids /\ Start(m, x)
  BY WriteForms
<1>2. CASE m \in Ids /\ Live(m) /\ Replace(m, x)
  <2>1. text'[r] # text[r] => r = m
    BY <1>2 DEF Replace, Histories
  <2> QED BY <1>2, <2>1, KeepVersionAdds DEF Replace, Keeps
<1>3. CASE m \in Ids /\ KeepVersion(m) /\ UNCHANGED text
  BY <1>3, KeepVersionAdds DEF Keeps
<1>4. CASE m \notin Ids /\ Start(m, x)
  BY <1>4 DEF Start, Keeps
<1> QED BY <1>1, <1>2, <1>3, <1>4

LEMMA PurgesKeep ==
  ASSUME TypeOK, NEW u \in Users, PurgeStep(u), NEW r \in Ids \cap Ids'
  PROVE  Keeps(r)
<1>1. text'[r] = text[r]
  BY PurgeForms
<1>2. CASE DropVersions({})
  BY <1>1, <1>2 DEF DropVersions, Keeps
<1>3. ASSUME NEW m \in Ids, NEW c \in OwnChildren(u, m),
             PermanentDelete(u, m), Crashes, DropVersions({c})
      PROVE  Keeps(r)
  <2>1. CASE r # c
    BY <1>1, <1>3, <2>1 DEF DropVersions, Keeps
  <2>2. CASE r = c
    <3>1. memories[r].parent = m /\ memories[r].user_id = u
      BY <2>2 DEF OwnChildren, Children
    <3>2. m # None /\ memories[m].user_id = u
      BY <1>3, IdsAssumption DEF TypeOK, PermanentDelete, Owns
    <3>3. MemoryRequest(u)
      BY <1>3 DEF MemoryRequest
    <3> QED BY <1>1, <1>3, <3>1, <3>2, <3>3 DEF Keeps
  <2> QED BY <2>1, <2>2
<1> QED BY <1>2, <1>3, PurgeForms

\* No text is lost by an edit or a merge, of whomever, and no history but by
\* its author's purge.
THEOREM HistoryCorrect == VersionedSpec => HistoryKept
<1>1. ASSUME TypeOK, Histories, [VersionedNext]_versionVars
      PROVE  \A m \in Ids \cap Ids' : Keeps(m)
  <2>1. CASE OtherStep \/ UNCHANGED versionVars
    BY <2>1, OtherForms DEF versionVars, Keeps
  <2>2. CASE \E u \in Users : WriteStep(u) \/ PurgeStep(u)
    BY <1>1, <2>2, WritesKeep, PurgesKeep
  <2> QED BY <1>1, <2>1, <2>2 DEF VersionedNext
<1>2. TypeOK /\ Histories /\ [VersionedNext]_versionVars
        => [\A m \in Ids \cap Ids' :
              LET p == memories[m].parent
              IN  /\ text'[m] # text[m] =>
                       Live(m) /\ text[m] \in {v.text : v \in versions'[m] \ versions[m]}
                  /\ \/ versions[m] \subseteq versions'[m]
                     \/ /\ Crashes
                        /\ p # None
                        /\ memories[p].user_id = memories[m].user_id
                        /\ MemoryRequest(memories[p].user_id)]_versionVars
  BY <1>1 DEF Keeps
<1>3. VersionedSpec => []Histories
  BY HistoriesInductive, PTL DEF VersionedSpec
<1> QED
  BY <1>2, <1>3, VersionsImplementThreads, MemoriesTypeCorrect, PTL
  DEF VersionedSpec, HistoryKept

\* The two copies of the visibility clause agree because the share columns
\* exclude each other.
THEOREM ReadersEdit == VersionedSpec => []ReadersAreEditors
<1>1. ASSUME ScopesExclusive PROVE ReadersAreEditors
  <2> SUFFICES ASSUME NEW u \in Users, NEW m \in Ids
               PROVE  CanEdit(u, m) <=> m \in GetMemoryById(u, Ids)
    BY DEF ReadersAreEditors, GetMemoryById
  <2>1. memories[m].org = None \/ memories[m].team = None
    BY <1>1 DEF ScopesExclusive
  <2> QED BY <2>1 DEF CanEdit, GetMemoryById, LiveOf, WithTeamAccess, OwnRows, OrgShared,
                      TeamShared
<1> QED BY <1>1, VersionsImplementThreads, ScopesCorrect, PTL
=============================================================================
