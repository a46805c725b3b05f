--------------------------- MODULE MemoryVersions ---------------------------
(***************************************************************************)
(* What is written in a memory, and the table memory_versions: the writes, *)
(* merges and edits of MemoryThreads with the text they leave, and the     *)
(* snapshot each takes of the text it replaces.                            *)
(*                                                                         *)
(* A text stands for title, content and tags.  Which older row a write is  *)
(* similar enough to is left open, as in MemoryThreads; allowed_vendors is *)
(* no column here either.                                                  *)
(***************************************************************************)
EXTENDS MemoryReads, FiniteSets

CONSTANTS Texts,        \* what a row can say
          MaxVersions   \* the bound on the snapshots kept at one time

VARIABLES text,         \* the text of each row
          versions      \* the rows of memory_versions, by memory_id

versionVars == <<vars, text, versions>>

Version == [number : Nat, text : Texts]

VersionsTypeOK ==
  /\ TypeOK
  /\ text \in [Ids -> Texts]
  /\ versions \in [Ids -> SUBSET Version]

VersionedInit ==
  /\ Init
  /\ text = [m \in {} |-> None]
  /\ versions = [m \in {} |-> {}]
-----------------------------------------------------------------------------
(* Statements. *)

Numbers(m) == {v.number : v \in versions[m]}

\* COALESCE(MAX(version_number), 0)
LastNumber(m) == CHOOSE n \in Numbers(m) \cup {0} : \A k \in Numbers(m) : k <= n

FaultySnapshot(m) == [number |-> LastNumber(m), text |-> text[m]]  \* from zero

Snapshot(m) == [number |-> LastNumber(m) + 1, text |-> text[m]]

RoomForVersion == Cardinality(UNION {{m} \X versions[m] : m \in Ids}) < MaxVersions

\* The INSERT into memory_versions, under its unique index.
KeepVersion(m) ==
  /\ RoomForVersion
  /\ Snapshot(m).number \notin Numbers(m)
  /\ versions' = [versions EXCEPT ![m] = @ \cup {Snapshot(m)}]

FaultyReplace(m, x) ==  \* an UPDATE alone
  text' = [text EXCEPT ![m] = x] /\ UNCHANGED versions

\* The row m gets another text, and the one it had becomes a version.
Replace(m, x) == KeepVersion(m) /\ text' = [text EXCEPT ![m] = x]

FaultyDropVersions(lost) == UNCHANGED versions  \* without DELETE and cascade

\* The rows of memory_versions go with their memory, or before it.
DropVersions(lost) == versions' = [m \in Ids' |-> IF m \in lost THEN {} ELSE versions[m]]

\* The new row m says x.
Start(m, x) ==
  /\ text' = [r \in Ids' |-> IF r = m THEN x ELSE text[r]]
  /\ versions' = [r \in Ids' |-> IF r = m THEN {} ELSE versions[r]]
-----------------------------------------------------------------------------
(* Writes and merges. *)

\* The table once createMemory has ended in the row m ...
SavedTable(u, m) == IF m \in Ids THEN memories ELSE Insert(memories, m, Personal(u))

\* ... for the text x, a merge being two statements.
Save(u, intent, m, x) ==
  \/ m \in MergeCandidates(u, intent) /\ Replace(m, x)
  \/ m \in MemoryIds \ Ids /\ Start(m, x)

\* POST /memories, POST /agent/memories, the chat gateway.
Write(u, intent, m, x) ==
  /\ CreateMemory(u, intent)
  /\ memories' = ApplyShareScope(u, intent, m, SavedTable(u, m))
  /\ Save(u, intent, m, x)

\* The MCP and Slack tools write_memory.
WriteByTool(u, intent, m, x) ==
  /\ WriteMemoryTool(u, intent)
  /\ memories' = ApplyShareScope(u, intent, m, SavedTable(u, m))
  /\ Save(u, "personal", m, x)

\* POST /agent/memories with what looks like a memory of the CI.
WriteCiTest(u, intent, m, x) ==
  /\ CreateCiTestMemory(u, intent)
  /\ memories' = SetDeleted(SavedTable(u, m), {m}, TRUE)
  /\ Save(u, intent, m, x)

\* POST /orgs with a seed memory.
WriteSeed(u, o, m, x) ==
  /\ CreateOrgWithSeed(u, o)
  /\ memories' = SetScope(SavedTable(u, m), {m}, o, None)
  /\ Save(u, "personal", m, x)

\* The process dies in a merge, after the snapshot and before the UPDATE.
MergeCut(u, intent, m) ==
  /\ Crashes
  /\ m \in MergeCandidates(u, intent)
  /\ KeepVersion(m)
  /\ UNCHANGED <<vars, text>>

\* POST /memories/:id/children and its agent, MCP and Slack forms.
Reply(u, p, m, x) == CreateChildMemory(u, p, m) /\ Start(m, x)
-----------------------------------------------------------------------------
(* Edits. *)

\* updateMemory's own permission check: the author, else a member of the org
\* the row is shared with, else of the sub-team.
CanEdit(u, m) ==
  /\ Live(m)
  /\ \/ memories[m].user_id = u
     \/ memories[m].org # None /\ memories[m].org = users[u].org_id
     \/ /\ memories[m].org = None
        /\ memories[m].team # None
        /\ memories[m].team = users[u].team_id

\* PUT /memories/:id and the MCP tool update_memory.
UpdateMemory(u, m, x) ==
  /\ m \in Ids
  /\ CanEdit(u, m)
  /\ Replace(m, x)
  /\ UNCHANGED vars

\* PUT /agent/memories/:id, of an agent that wrote the row itself, and the
\* Slack tool update_memory: own rows only.
UpdateOwnMemory(u, m, x) ==
  /\ Owns(u, m)
  /\ Live(m)
  /\ UpdateMemory(u, m, x)

\* DELETE /memories/:id/permanent.  The cascade commits the versions of a
\* reply before the reply, so a death can leave one with its history gone.
PurgeThread(u, m) ==
  /\ PermanentDelete(u, m)
  /\ text' = [r \in Ids' |-> text[r]]
  /\ \E lost \in {{}} \cup
       (IF Crashes /\ m \in Ids' /\ memories[m].parent = None
        THEN {{c} : c \in OwnChildren(u, m) \cap Ids'} ELSE {}) : DropVersions(lost)

\* DELETE /memories/trash
PurgeTrash(u) ==
  /\ EmptyTrash(u)
  /\ text' = [r \in Ids' |-> text[r]]
  /\ DropVersions({})

\* The requests that leave what is written alone.
OtherRequest(u) ==
  \/ \E m \in Ids : SoftDelete(u, m) \/ DeleteMemoryTool(u, m) \/ Restore(u, m)
  \/ \E m \in Ids : ShareMemory(u, m) \/ ShareToOrg(u, m) \/ ShareToTeam(u, m)
  \/ \E m \in Ids : UnshareMemory(u, m) \/ UnshareMemoryTool(u, m)
  \/ \E o \in Orgs, t \in Teams, force \in BOOLEAN : RemoveTeam(u, o, t, force)
  \/ \E o \in Orgs : CreateOrg(u, o) /\ UNCHANGED memories

\* getVersionHistory: the author's view.
VersionHistory(u, m) == IF Owns(u, m) THEN versions[m] ELSE {}

\* The number that GET /agent/memories/:id/versions gives the present text.
CurrentVersion(u, m) == Cardinality(VersionHistory(u, m)) + 1
-----------------------------------------------------------------------------
WriteStep(u) ==
  \E m \in MemoryIds, x \in Texts :
    \/ \E intent \in ShareIntents :
         Write(u, intent, m, x) \/ WriteByTool(u, intent, m, x) \/ WriteCiTest(u, intent, m, x)
    \/ \E intent \in ShareIntents : MergeCut(u, intent, m)
    \/ \E o \in Orgs : WriteSeed(u, o, m, x)
    \/ \E p \in MemoryIds : Reply(u, p, m, x)
    \/ UpdateMemory(u, m, x)
    \/ UpdateOwnMemory(u, m, x)

PurgeStep(u) == (\E m \in Ids : PurgeThread(u, m)) \/ PurgeTrash(u)

OtherStep ==
  /\ (\E u \in Users : OtherRequest(u)) \/ (MembershipStep /\ UNCHANGED memories)
  /\ UNCHANGED <<text, versions>>

VersionedNext == (\E u \in Users : WriteStep(u) \/ PurgeStep(u)) \/ OtherStep

VersionedSpec == VersionedInit /\ [][VersionedNext]_versionVars
-----------------------------------------------------------------------------
\* The versions of a row are numbered from 1 without a gap or a repeat, so
\* the number the agent route counts up to is the one the next edit will use:
\* merges, edits of several people and cut-off purges included.
VersionsContiguous ==
  \A m \in Ids :
    /\ Numbers(m) = 1..Cardinality(versions[m])
    /\ CurrentVersion(memories[m].user_id, m) = Snapshot(m).number

\* "Update is reversible via memory_versions": whoever replaces a text, by an
\* edit or by a write that is merged, leaves it in the history, nothing is
\* written into the trash, and history is lost only with its row, or by the
\* author's purge of the thread that dies half-way.
HistoryKept ==
  [][\A m \in Ids \cap Ids' :
       LET p == memories[m].parent
       IN  /\ text'[m] # text[m] =>
                Live(m) /\ text[m] \in {v.text : v \in versions'[m] \ versions[m]}
           /\ \/ versions[m] \subseteq versions'[m]
              \/ /\ Crashes
                 /\ p # None
                 /\ memories[p].user_id = memories[m].user_id
                 /\ MemoryRequest(memories[p].user_id)]_versionVars

\* Who can open a live memory by its id can edit it, and nobody else: the
\* update has a third copy of the visibility clause, which asks for the
\* sub-team only when there is no org.
ReadersAreEditors ==
  \A u \in Users : {m \in Ids : CanEdit(u, m)} = GetMemoryById(u, Ids)
=============================================================================
