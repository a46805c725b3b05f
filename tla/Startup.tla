------------------------------- MODULE Startup -------------------------------
(***************************************************************************)
(* Start-up of the server: from opening the database file to listening.    *)
(*                                                                         *)
(* index.ts runs a fixed program of blocks over the file: the schema of a  *)
(* fresh database, repairs of old ones, and the numbered migrations, each  *)
(* remembered in the table _migrations.  A block is a guard and a sequence *)
(* of statements; every statement commits by itself unless it stands for a *)
(* transaction, and the process may be killed between any two commits and  *)
(* started again.  A statement that fails throws out of the program, which *)
(* ends the process.                                                       *)
(*                                                                         *)
(* The file is the set of facts a statement or a guard can depend on:      *)
(* tables, columns that some migration adds or renames, constraints, and   *)
(* rows of _migrations.  Plain indexes and updates of values change no     *)
(* such fact; of the rows only accounts, their e-mail addresses and which  *)
(* of them are admins matter.                                              *)
(*                                                                         *)
(* A definition named Faulty... is the next one with a plausible bug in    *)
(* it.  Nothing uses it: PROJECT.json names the property it would break.   *)
(***************************************************************************)
EXTENDS Naturals, SequencesExt

CONSTANTS Accounts,   \* rows users may have
          MaxDeaths,  \* bound on how often the process is killed
          None        \* no value

VARIABLES db,         \* the facts that hold of the file
          accounts,   \* rows of users
          addressed,  \* those with an e-mail address
          admins,     \* those with the role admin
          owner,      \* the account of RM_OWNER_EMAIL, None when it is not set
          at,         \* the block and the statement reached; statement 0 is the guard
          process,    \* "down", "starting" or "serving"
          deaths      \* where the process was killed

rowVars == <<accounts, addressed, admins>>
startVars == <<db, rowVars, owner, at, process, deaths>>

ASSUME StartConstants ==
  /\ None \notin Accounts
  /\ MaxDeaths \in Nat

-----------------------------------------------------------------------------
(* Statements and blocks. *)

\* Fails without the facts it needs or with one that must be absent; is passed
\* over when the guard on it alone finds one of unless, or lacks one of when.
Statement(needs, adds) ==
  [needs |-> needs, absent |-> {}, adds |-> adds, drops |-> {}, when |-> {}, unless |-> {}]

Create(t, columns) == [Statement({}, {t} \cup columns) EXCEPT !.absent = {t}]
AddColumn(t, c) == [Statement({t}, {c}) EXCEPT !.absent = {c}]
IfAbsent(s) == [s EXCEPT !.unless = s.absent, !.absent = {}]
Touch(facts) == Statement(facts, {})

Mark(m) == [Statement({"_migrations"}, {m}) EXCEPT !.absent = {m}]

Block(name, unless, body) == [name |-> name, unless |-> unless, body |-> body]

Migration(m, body) == Block(m, {m}, Append(body, Mark(m)))

\* runMigrationWithHooks: the mark commits with the changes.  It is made even
\* if there is nothing to change, so s must not be one that is passed over.
AtomicMigration(m, s) ==
  Block(m, {m}, <<[s EXCEPT !.needs = @ \cup {"_migrations"}, !.adds = @ \cup {m}]>>)

-----------------------------------------------------------------------------
(* The program. *)

UserColumns == {"users.email", "users.email_unique", "users.email_required", "users.clerk_id",
                "users.clerk_unique", "users.role", "users.customer", "users.plan",
                "users.updated_at", "users.names"}

NewUserColumns == UserColumns \cup {"users.org_id", "users.org_role", "users.team_id"}

PreMarked ==
  <<"001", "002", "003", "004", "005", "006", "007", "008", "009", "010", "011", "016", "017",
    "019", "020", "021", "022", "023", "024", "025", "026">>

FreshSchema ==
  Block("schema", {"users"},
    <<Create("users", NewUserColumns),
      Create("api_keys", {}),
      Create("orgs", {}),
      Create("teams", {"teams.org_id"}),
      Create("org_invites", {"org_invites.target_team_id"}),
      Create("memories", {"memories.origin", "memories.allowed_vendors", "memories.type",
                          "memories.deleted_at", "memories.shared_org", "memories.shared_team",
                          "memories.shared_at", "memories.parent"}),
      Create("memory_versions", {}),
      Create("usage_events", {}),
      Create("monthly_usage", {}),
      Create("waitlist", {}),
      Create("early_access_requests", {}),
      Create("tag_cluster_cache", {}),
      Create("llm_keys", {"llm_keys.org_id"}),
      Statement({"llm_keys.org_id"}, {"llm_keys.org_unique"}),
      Statement({"llm_keys"}, {"llm_keys.user_unique"}),
      Create("slack_workspaces", {"slack_workspaces.org_id"}),
      Create("slack_conversation_state", {}),
      IfAbsent(Create("_migrations", {}))>>
    \o [i \in DOMAIN PreMarked |-> IfAbsent(Mark(PreMarked[i]))])

Repairs ==
  <<Block("origin", {"memories.origin"},
      <<AddColumn("memories", "memories.origin"),
        AddColumn("memories", "memories.allowed_vendors")>>),
    Block("deleted", {"memories.deleted_at"}, <<AddColumn("memories", "memories.deleted_at")>>),
    Block("type", {"memories.type"}, <<AddColumn("memories", "memories.type")>>),
    Block("email", {"users.email"},
      <<AddColumn("users", "users.email"),
        IfAbsent(Create("users.email_unique", {}))>>),
    Block("marks", {}, <<IfAbsent(Create("_migrations", {}))>>)>>

\* hasRole is read once, before the first column is added.
AccountColumns ==
  <<Block("columns", {"005", "users.role"},
      <<AddColumn("users", "users.clerk_id"),
        AddColumn("users", "users.role"),
        AddColumn("users", "users.customer"),
        AddColumn("users", "users.plan"),
        AddColumn("users", "users.updated_at"),
        Touch({"users.updated_at"}),
        IfAbsent(Create("users.clerk_unique", {}))>>),
    Migration("005", <<>>)>>

UserTables ==
  <<Migration("006", <<IfAbsent(Create("api_keys", {}))>>),
    Migration("007", <<IfAbsent(Create("usage_events", {})),
                       IfAbsent(Create("monthly_usage", {}))>>),
    Migration("008", <<>>)>>

VersionTables ==
  <<Block("versions", {"009", "memory_versions"}, <<Create("memory_versions", {})>>),
    Migration("009", <<>>),
    Migration("010", <<IfAbsent([Create("versions.number_unique", {})
                                  EXCEPT !.needs = {"memory_versions"}])>>)>>

\* RM_TEST_MODE, which leaves it out, is not for production.
TrashTestMemories == <<Migration("011", <<Touch({"memories.deleted_at"})>>)>>

OAuthTables ==
  <<Migration("012", <<IfAbsent(Create("oauth_clients", {})),
                       IfAbsent(Create("oauth_codes", {})),
                       IfAbsent(Create("oauth_tokens", {})),
                       IfAbsent(Create("oauth_pending_requests", {}))>>),
    Migration("013", <<IfAbsent(Create("oauth_pending_requests", {}))>>)>>

\* 016 gives admins the plan admin.  Where the CHECK of an old schema is still
\* there, which 020 widens, the UPDATE fails on any of them: the fact "admin on
\* a narrow plan" stands for both.
LaterTables ==
  <<Migration("014", <<IfAbsent(Create("integration_requests", {}))>>),
    AtomicMigration("015", Statement({}, {"audit_events"})),
    Migration("016", <<[Touch({"users.plan", "users.role", "users.updated_at"})
                          EXCEPT !.absent = {"admin on a narrow plan"}]>>),
    Migration("017", <<Touch({"monthly_usage", "memories.deleted_at"}),
                       Touch({"usage_events", "memories.deleted_at"})>>)>>

\* Errors are caught and logged, so a table that is missing is passed over.
OAuthUserColumns ==
  [i \in 1..3 |->
     LET t == <<"oauth_codes", "oauth_tokens", "oauth_pending_requests">>[i]
         c == <<"oauth_codes.user_id", "oauth_tokens.user_id", "oauth_pending_requests.user_id">>[i]
     IN  [IfAbsent(AddColumn(t, c)) EXCEPT !.when = {t}]]
  \o <<IfAbsent(Create("agent_keys", {}))>>

\* addCol passes over a duplicate column.
OldTeams ==
  Migration("019",
    <<IfAbsent(Create("teams", {})),
      IfAbsent(Create("team_invites", {})),
      IfAbsent(AddColumn("users", "users.team_id")),
      IfAbsent(AddColumn("users", "users.team_role")),
      IfAbsent(AddColumn("users", "users.names")),
      IfAbsent(AddColumn("memories", "memories.shared_team")),
      IfAbsent(AddColumn("memories", "memories.shared_at"))>>)

\* The fact "everybody addressed" stands for users without a NULL in email,
\* which NOT NULL in the new table turns into a failed INSERT.
ExpandPlanCheck ==
  Migration("020",
    <<[needs |-> {"users.email", "users.updated_at", "everybody addressed"}, absent |-> {},
       adds |-> UserColumns, drops |-> {"users.narrow_plan"},
       when |-> {"users.narrow_plan"}, unless |-> {}]>>)

ThreadColumn ==
  Migration("021", <<IfAbsent(AddColumn("memories", "memories.parent")),
                     Touch({"memories.parent"})>>)

TenantTables ==
  <<Migration("022", <<IfAbsent(Create("tag_cluster_cache", {}))>>),
    Migration("023", <<IfAbsent([Create("llm_keys", {"llm_keys.team_id"})
                                   EXCEPT !.needs = {"teams"}]),
                       Statement({"llm_keys.team_id"}, {"llm_keys.team_unique"}),
                       Statement({"llm_keys"}, {"llm_keys.user_unique"})>>),
    Migration("024", <<IfAbsent([Create("slack_workspaces", {"slack_workspaces.team_id"})
                                   EXCEPT !.needs = {"teams"}]),
                       Touch({"slack_workspaces.team_id"})>>),
    Migration("025", <<IfAbsent(Create("slack_conversation_state", {}))>>)>>

\* teams becomes orgs and is created anew; users is rebuilt; columns follow.
OrgsAndTeams ==
  AtomicMigration("026",
    [needs |-> {"teams", "team_invites", "users.email", "users.clerk_id", "users.role",
                "users.customer", "users.plan", "users.updated_at", "users.names",
                "users.team_id", "users.team_role", "everybody addressed",
                "memories.shared_team", "slack_workspaces.team_id", "llm_keys.team_id"},
     absent |-> {"orgs", "teams.org_id", "org_invites", "memories.shared_org"},
     adds |-> {"orgs", "teams.org_id", "org_invites", "org_invites.target_team_id",
               "memories.shared_org", "slack_workspaces.org_id", "llm_keys.org_id",
               "llm_keys.org_unique"} \cup NewUserColumns,
     drops |-> {"team_invites", "users.team_role", "users.narrow_plan",
                "slack_workspaces.team_id", "llm_keys.team_id", "llm_keys.team_unique"},
     when |-> {}, unless |-> {}])

Migrations ==
  <<Migration("002", <<Touch({"memories"})>>),
    Migration("003", <<Touch({"memories.origin"})>>),
    Migration("004", <<IfAbsent(Create("waitlist", {})),
                       IfAbsent(Create("early_access_requests", {}))>>)>>
  \o AccountColumns \o UserTables \o VersionTables \o TrashTestMemories \o OAuthTables
  \o LaterTables \o <<Migration("018", OAuthUserColumns), OldTeams, ExpandPlanCheck, ThreadColumn>>
  \o TenantTables \o <<OrgsAndTeams>>

Program == <<FreshSchema>> \o Repairs \o Migrations

-----------------------------------------------------------------------------
(* Running it. *)

\* What the rows contribute to what a statement may fail on.
RowFacts == {"everybody addressed", "admin on a narrow plan"}

RowFact(fact) ==
  CASE fact = "everybody addressed" -> addressed = accounts
    [] fact = "admin on a narrow plan" -> admins # {} /\ "users.narrow_plan" \in db

Facts == db \cup {fact \in RowFacts : RowFact(fact)}

Passed(s, f) == ~ (s.when \subseteq f) \/ s.unless \cap f # {}
Fails(s, f) == ~ Passed(s, f) /\ (~ (s.needs \subseteq f) \/ s.absent \cap f # {})
After(s, f) == IF Passed(s, f) THEN f ELSE (f \ s.drops) \cup s.adds

\* The file of a release that ended with the n-th block after the schema.
History == Repairs \o Migrations
Released ==
  LET Done(f, b) == IF b.unless \cap f = {}
                    THEN FoldLeft(LAMBDA g, s : After(s, g), f, b.body) ELSE f
  IN  [n \in 0..Len(History) |-> FoldLeft(Done, {"users", "memories"}, SubSeq(History, 1, n))]

\* Old schemas allowed two plans only; the repaired ones never had the check.
NarrowPlan(f) == IF "005" \in f /\ "020" \notin f THEN {{}, {"users.narrow_plan"}} ELSE {{}}

StartInit ==
  /\ owner \in Accounts \cup {None}
  /\ \/ db = {} /\ accounts = {} /\ addressed = {} /\ admins = {}
     \/ /\ \E n \in DOMAIN Released :
             \E narrow \in NarrowPlan(Released[n]), consolidated \in {{}, {"001"}} :
               /\ consolidated = {} \/ "_migrations" \in Released[n]
               /\ db = Released[n] \cup narrow \cup consolidated
        /\ accounts \in SUBSET Accounts
        /\ addressed \in SUBSET accounts
        /\ admins \in SUBSET accounts
        /\ "users.email" \notin db => addressed = {}
        /\ "users.role" \notin db => admins = {}
        /\ {"001", "users.email_required"} \cap db # {} => addressed = accounts
  /\ at = [block |-> 1, stmt |-> 0]
  /\ process = "down"
  /\ deaths = <<>>

Start ==
  /\ process = "down"
  /\ process' = "starting"
  /\ at' = [block |-> 1, stmt |-> 0]
  /\ UNCHANGED <<db, rowVars, owner, deaths>>

InProgram == process = "starting" /\ at.block <= Len(Program)
Here == Program[at.block]
NextBlock == [block |-> at.block + 1, stmt |-> 0]

\* The guard of a block.
Enter ==
  /\ InProgram /\ at.stmt = 0
  /\ at' = IF Here.unless \cap db = {} /\ Here.body # <<>>
           THEN [at EXCEPT !.stmt = 1] ELSE NextBlock
  /\ UNCHANGED <<db, rowVars, owner, process, deaths>>

Run ==
  /\ InProgram /\ at.stmt > 0
  /\ ~Fails(Here.body[at.stmt], Facts)
  /\ db' = After(Here.body[at.stmt], db)
  /\ at' = IF at.stmt = Len(Here.body) THEN NextBlock ELSE [at EXCEPT !.stmt = @ + 1]
  /\ UNCHANGED <<rowVars, owner, process, deaths>>

FaultyRunFails ==  \* the error is logged, and the program goes on
  /\ InProgram /\ at.stmt > 0
  /\ Fails(Here.body[at.stmt], Facts)
  /\ at' = IF at.stmt = Len(Here.body) THEN NextBlock ELSE [at EXCEPT !.stmt = @ + 1]
  /\ UNCHANGED <<db, rowVars, owner, process, deaths>>

\* A failed statement or transaction has no effect and ends the process.
RunFails ==
  /\ InProgram /\ at.stmt > 0
  /\ Fails(Here.body[at.stmt], Facts)
  /\ process' = "down"
  /\ UNCHANGED <<db, rowVars, owner, at, deaths>>

AtOwner(n) == process = "starting" /\ at = [block |-> Len(Program) + 1, stmt |-> n]

FaultyEnsureAdmin ==  \* inserts the row without looking for it
  /\ AtOwner(0) /\ owner # None
  /\ IF owner \in addressed
     THEN process' = "down" /\ UNCHANGED <<rowVars, at>>
     ELSE /\ accounts' = accounts \cup {owner}
          /\ addressed' = addressed \cup {owner}
          /\ admins' = admins \cup {owner}
          /\ at' = [at EXCEPT !.stmt = 1]
          /\ UNCHANGED process
  /\ UNCHANGED <<db, owner, deaths>>

\* ensureAdminUser: inserts the row as an admin, or makes it one.
EnsureAdmin ==
  /\ AtOwner(0) /\ owner # None
  /\ accounts' = accounts \cup {owner}
  /\ addressed' = addressed \cup {owner}
  /\ admins' = admins \cup {owner}
  /\ at' = [at EXCEPT !.stmt = 1]
  /\ UNCHANGED <<db, owner, process, deaths>>

\* Migration 001, in one transaction: what orphans wrote becomes the owner's.
Consolidate ==
  /\ AtOwner(1)
  /\ db' = db \cup {"001"}
  /\ accounts' = IF "001" \in db THEN accounts ELSE addressed
  /\ admins' = admins \cap accounts'
  /\ at' = NextBlock
  /\ UNCHANGED <<addressed, owner, process, deaths>>

\* Without RM_OWNER_EMAIL the first user is the owner.  Where there is none the
\* INSERT gives no address, which every table that got this far requires.
FirstUser ==
  /\ AtOwner(0) /\ owner = None
  /\ IF accounts # {} THEN at' = NextBlock /\ UNCHANGED process
                      ELSE process' = "down" /\ UNCHANGED at
  /\ UNCHANGED <<db, rowVars, owner, deaths>>

Listen ==
  /\ process = "starting" /\ at.block = Len(Program) + 2
  /\ process' = "serving"
  /\ UNCHANGED <<db, rowVars, owner, at, deaths>>

Die ==
  /\ process # "down" /\ Len(deaths) < MaxDeaths
  /\ process' = "down"
  /\ deaths' = Append(deaths, at)
  /\ UNCHANGED <<db, rowVars, owner, at>>

Proceed == Start \/ Enter \/ Run \/ RunFails \/ EnsureAdmin \/ Consolidate \/ FirstUser \/ Listen

StartNext == Proceed \/ Die

\* The container is restarted whenever it ends; nobody kills it for ever.
StartSpec == StartInit /\ [][StartNext]_startVars /\ WF_startVars(Proceed)

-----------------------------------------------------------------------------
(* Properties. *)

\* Blocks that a killed process leaves in a state their guards take for done:
\* from the second statement on, and up to the last that matters.
Unrepeatable == [schema |-> 2..(Len(FreshSchema.body)), origin |-> {2}, columns |-> 2..5]

KilledIn(name) ==
  \E i \in DOMAIN deaths :
    /\ deaths[i].block <= Len(Program)
    /\ Program[deaths[i].block].name = name
    /\ deaths[i].stmt \in Unrepeatable[name]

Torn == \E name \in DOMAIN Unrepeatable : KilledIn(name)

Provides(blocks) == UNION {UNION {b.body[i].adds : i \in DOMAIN b.body} : b \in blocks}

\* The schema the queries of the server are written against.
CurrentSchema ==
  Provides({Program[n] : n \in {m \in DOMAIN Program :
              Program[m].name \in {"schema", "012", "013", "014", "015", "018"}}})
    \ Range(PreMarked)

\* Whatever release made the file and wherever starts were killed, once the
\* server listens every table, column and constraint its queries rely on is
\* there: a file torn in the schema or in migration 005 never gets that far,
\* and one without allowed_vendors because the start that added origin was
\* killed between the two is the only one that is served with a hole in it.
ServesWholeSchema == process = "serving" /\ ~KilledIn("origin") => CurrentSchema \subseteq db

\* No statement of a start fails, but where a new users table is filled and an
\* account has no address, and where admins are given a plan the table does not
\* allow: no migration trips over what another one, an older release or a
\* killed start has left.
NoStartFails ==
  [][RunFails /\ ~Torn =>
       \/ Here.name \in {"020", "026"} /\ addressed # accounts
       \/ Here.name = "016" /\ admins # {} /\ "users.narrow_plan" \in db]_startVars

\* And it does come to listen: no guard, order of migrations or killed start
\* leaves a file with which every later start fails.  It needs somebody to be
\* the owner, no account without an address, and no admin where 016 is still to
\* run on an old table of users.
PlanTooNarrow == admins # {} /\ {"users.narrow_plan", "016"} \cap db = {"users.narrow_plan"}

Startable ==
  ~Torn /\ (owner # None \/ accounts # {}) /\ addressed = accounts /\ ~PlanTooNarrow

EventuallyServes == Startable ~> (process = "serving" \/ Torn)
=============================================================================
