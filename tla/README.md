# Reflect Memory: specifications, model checks and proofs

Reflect Memory is one Node process over one SQLite database. It keeps short
texts ("memories") for its users, lets members of an organisation share them
and reply to them, and offers them to a dashboard, to agents with API keys, to
MCP clients and to a Slack bot. This directory holds TLA+ specifications of the
parts of the server, and of its browser extension, whose correctness depends on
the order of steps or on conditions written out in many places, the TLC
configurations that check them on small instances, and proofs, checked by
TLAPS, that hold for every size of instance.

## Reading order

| Module | What it is |
|---|---|
| `Organizations` | organisations, sub-teams, invites and memberships, and the routes that change them |
| `MemoryThreads` | the table `memories`: authors, trash, threads, share scopes; extends `Organizations` |
| `MemoryReads` | every list, lookup, thread, graph and briefing as a set of rows; extends `MemoryThreads` |
| `MemoryVersions` | what is written in a memory, edits, merges and `memory_versions`; extends `MemoryReads` |
| `OAuthGrants` | what the OAuth server promises: a consent is worth one credential at a time |
| `OAuthStore` | the OAuth server of the MCP endpoint: its tables, its approval cache, its methods |
| `EventFeed` | what the event stream promises: every event of its scopes, once, in order |
| `EventBroker` | the broker's maps and sets, `GET /events`, and the callbacks of a connection |
| `SlackBot` | the handlers of Slack messages, their conversations, and the installation |
| `Startup` | from opening the database file to listening: schema, repairs, migrations, killed starts |
| `Billing` | `users.plan`, the routes under `/billing`, the webhook, and Stripe on the other side |
| `Extension` | the content script of the browser extension in one tab of a chat site |
| `StartupGuards` | what the guards of the start-up program tell, and the files its starts meet: conditions on its text |
| `...Proofs` | theorems, for all constants: about the module of that name; `MemoryThreadsProofs` also about `Organizations`, `MemoryVersionsProofs` also about `MemoryReads` |
| `MC...` (modules) | instances for TLC: model values and symmetry |
| `MC*.cfg` | runs that pass |
| `Find*.cfg` | runs that show a disagreement between the code and what the repository says about it |

`PROJECT.json` ties everything to the source: which lines each definition
stands for, which runs check which property, which plausible bug each property
would catch (the operators named `Faulty...`), the hazards and the findings.

## What one step is

`better-sqlite3` is synchronous. Nothing can run between two statements of a
handler unless there is an `await` between them, so a step is what a handler
does between two awaits. The routes on organisations, memories, OAuth and
events await nothing between their first read and their last write: each is one
action. A Slack handler awaits three services, and is four; a billing handler is one
step more than its calls of Stripe. Start-up is the other extreme: there every
commit is a step. The browser extension is a program of its own, and a step of it
is what the script does between two awaits, timers or events of the page.

What can happen inside an action is that the process dies: apart from
`deleteTeam` and `emptyTrash`, which open a transaction, every statement is its
own commit. With the constant `Crashes` TRUE, each handler of `Organizations`,
`MemoryThreads`, `MemoryVersions` and `OAuthStore` may stop after any of its commits:

* a cascade over replies stops having treated any subset of them (`Committed`;
  the `SELECT` that feeds the loop has no `ORDER BY`);
* `POST /orgs` stops with an organisation nobody belongs to;
* `POST /orgs/join` stops with the member added and the invite still pending;
* an invitation to several addresses stops after some of them, which is what
  the invitation to a smaller set leaves;
* a write that is shared afterwards stops before the share, which is what a
  personal write leaves;
* a merge stops with the old text in the history and still in the row (`MergeCut`),
  the purge of a thread with a reply whose history alone is gone;
* an approval stops with the request gone and no code, an exchange with the code
  or refresh token gone and none, or one, of the two new tokens there; either
  way the approval cache is lost.

SQLite restores the last commit on restart. The tables have no copy in memory,
so a restart needs no action of its own there; `SlackBot` and `Billing`, whose
handlers live in memory across awaits, have actions for it, and so does `Startup`,
which is about nothing else. The event broker lives and
dies with the process: after a restart it is in its initial state.

## The system, part by part

For each part: its state, its operations, what is hard about it, and what makes
it correct. Parts marked (modelled) have modules; the others are on the plan
or left out for the reason given.

**Organisations (modelled: `Organizations`).** State: `orgs.owner_id`,
`teams.org_id`, `users.org_id/org_role/team_id`, `org_invites`. Operations: the
routes under `/orgs` in `server.ts`, over `user-service.ts` and
`team-service.ts`. Hard: invites outlive the moment in which seats were counted;
users leave and join other organisations; teams are deleted while users
elsewhere still refer to them; deaths inside `POST /orgs` and `POST /orgs/join`.
Correct when: one owner per organisation, never more members than seats, no
dangling reference, and nobody put on a team of an organisation they are not in.

**Memories (modelled: `MemoryThreads`).** State: `memories.user_id`,
`deleted_at`, `parent_memory_id`, `shared_with_org_id`, `shared_with_team_id`.
Operations: create, reply, trash, restore, purge, empty trash, share, unshare,
each as an HTTP route, an agent route, an MCP tool or a Slack tool, and not
always doing the same. Hard: threads mix rows of several authors; five cascades
with five different rules about whose rows they touch; a foreign key without an
action; writes that merge into similar rows and are shared afterwards.
Correct when: threads are one level deep and never dangle, the two scopes
exclude each other and exist, and no user's request purges, trashes or exposes
another user's memory beyond what the thread's author may do.

**Reading memories (modelled: `MemoryReads`).** No state of its own. Operations:
some twenty queries in `memory-service.ts`, `memory-graph.ts`,
`memory-briefing.ts`, `server.ts` and the tools of MCP and Slack. Hard: each
writes out afresh who may see a row, with its own stand-in for a user without
organisation or sub-team, and what it depends on is changed by other people.
Correct when: nobody is given a row its author, or the author of its thread, does
not share with them, nobody gains a row but by such a request or an own move, and
what a list names can be opened by its id, also a moment later.

**Content, merges, versions (modelled: `MemoryVersions`).** State: the text of a
memory and `memory_versions`. Operations: `createMemory`, which merges a write into
a similar row; `updateMemory`, which lets teammates edit a shared row; the purges.
Hard: several editors of one row, snapshot and update in two commits, and a third
copy of the visibility condition. Correct when: no replaced text is lost, the
numbers have no gap and no repeat, and those who can open a memory are those who
can edit it.

**Billing (modelled: `Billing`).** State: `users.plan` and `stripe_customer_id`.
Operations: checkout, status, the webhook, and the joining and leaving of an
organisation, which write the plan as well. Hard: awaits of Stripe between read and
write; events late, repeated and out of order. Correct when: no plan is held that
was neither paid for nor came with a membership, and who pays for one subscription
and keeps it ends with its plan.

**Start-up (modelled: `Startup`).** State: the schema of the file, the rows of
`_migrations`, accounts, their addresses, who of them is an admin. Operations: `schema.sql` on a fresh
file, repairs, 26 migrations, the owner's account. Hard: most statements commit by
themselves and most guards look at one fact of several; a file may come from any
release, and any start may have been killed. Correct when: a server that listens has
the schema its queries need, and it comes to listen.

**Browser extension (modelled: `Extension`).** State: flags of the script, flags in
`sessionStorage`, the page's input, interceptions and write-backs under way. Hard:
keystrokes, timers, reloads and answers of the background worker between the awaits.
Correct when: a message held back goes out or stays before the user's eyes, priming
ends, and a conversation is stored once unless the user asks again.

**Event broker and event stream (modelled: `EventBroker`).** In-memory channels per user and
organisation; `GET /events` subscribes with the organisation the user has at
that moment. Hard: three callbacks per connection, each of which unsubscribes; Sets that
outlive their channel in the closures; connections opened during shutdown.
Correct when: a client gets each event of its scopes once and none after it is
gone, nothing of a gone connection stays, and shutdown ends every stream.

**OAuth server and agent keys (modelled: `OAuthStore`).** Pending request, code, access and refresh
token, each deleted before its successor is inserted; a sixty-second approval
cache in memory. Hard: double submission, restart between the two. Correct when:
a code or refresh token is redeemed at most once, a consent is never worth two
credentials, and a token stays with the client and the user of its consent.

**MCP sessions.** A map of transports with a limit, a sweep and closing
callbacks; the limit is checked before an await. Correct when: the maps agree
and the limit holds.

**Slack (modelled: `SlackBot`).** Fire-and-forget handlers: workspace lookup,
identity, history read, agent turn (awaits), history write, reply; installation
and uninstallation beside them. Hard: two messages in one thread, redelivery, a
model that keeps asking for tools, uninstallation in mid-turn. Correct when: a
stored conversation is one that took place, every handled message is answered,
and an uninstallation takes effect.

**Quota, keys, authentication, audit, gateways, reports, SDK, integrations.** See the
components in `PROJECT.json` and "Not modelled" below.

## How the modules correspond to the code

### `Organizations`

* A user is an account; an invite is identified by organisation and address,
  and an address is identified with the account that has it. `JoinOrg(u, o, e)`
  lets any user present the token sent to `e`, because the route compares
  nothing.
* `invites` is `none`, `pending` or `lapsed` per organisation and address. The
  code allows one pending row per address (`POST /orgs/:id/invite` skips an
  address that has one); accepted and expired rows are never read again. Time is
  the step `InviteLapses`. A lapsed row still says `pending` and therefore still
  blocks a new invite, until somebody opens the link (`OpenLapsedInvite`) or the
  owner revokes it.
* `RemoveFromOrg` is `removeUserFromTeam` of `user-service.ts` (the name dates
  from before organisations and teams were told apart); it keeps `team_id`, and
  so does the model.
* `RemoveMember` reads nothing of the target, as the route does.
* `DeleteTeam` is the users-and-teams half of `deleteTeam`. `MemoryThreads`
  adds the memories half (`RemoveTeam`).
* An organisation row is never deleted by the code, so there is no such action.
* Names are left out. The column `plan` is in `Billing`.

### `MemoryThreads`

* A memory is an identifier and a record of the five columns above. Identifiers
  are UUIDs in the code; the model takes a free one, and reuses one only after
  its row is gone.
* `createMemory` first looks for a similar row of the same author in the same
  kind of scope (`MergeCandidates`). Whether two texts are similar is left
  open: any candidate, or none, may match. A merge changes none of the five
  columns. The share that follows applies to the row the write ended in.
* The routes tell `createMemory` the intended scope; the MCP and Slack tools do
  not. Hence `CreateMemory` and `WriteMemoryTool`.
* `CreateChildMemory` covers the HTTP, agent, MCP and Slack forms, which call
  the same function.
* The cascades run in the routes, not in the services, and only for a row that
  has no parent. The tools call the services alone: `DeleteMemoryTool`,
  `ShareToOrg`, `ShareToTeam`, `UnshareMemoryTool`.
* `EmptyTrash` is guarded by the foreign key: when it would be violated, the
  transaction rolls back and the state does not change. There is no action for
  the failed request.
* `cascadeShareToTeam` is not modelled: nothing calls it.

### `MemoryReads`

* One operator per way of reading, each a set of rows. Filters, search terms, ranks,
  limits and pages only take a part of it and are left out.
* `V` stands for the rows whose `allowed_vendors` admits the caller's vendor. The
  column is not in the model, so `V` is any set; where the code applies no vendor
  filter, the operator has no `V`. An edit of the column is left out: a property that
  looks at two states has the same `V` in both.
* `FoundByTools(u, V)` is what an agent finds over MCP and its vendor may read. The pools,
  the graph and the briefing show rows beyond `V` too, and the graph of an organisation's
  admin shows rows of all its sub-teams; `get_memory_by_id` opens neither.
* `Audience(m)` is the definition the queries are measured against: the author, who
  is in the organisation or the sub-team the row is shared with, and the other
  members of the organisation a shared sub-team belongs to. They all may list that
  team's pool.
* `Readable(u)` collects all ways of reading. A new query belongs there.

### `MemoryVersions`

* `text[m]` stands for title, content and tags. Every step that writes or removes
  rows is the step of `MemoryThreads` with what it does to texts and versions; the
  theorem `VersionsImplementThreads` says so.
* A merge is the snapshot and the `UPDATE`, which commit one after the other
  (`MergeCut`); an edit is one transaction.
* `UpdateMemory` covers `PUT /memories/:id` and the MCP tool, `UpdateOwnMemory` the
  agent route and the Slack tool, which look at own rows only.
* An edit that leaves the text as it is takes a snapshot all the same: in the code
  too, nothing compares.

### `OAuthStore`, implementing `OAuthGrants`

* One action per method of `ReflectOAuthProvider` that writes, and one for each
  kind of row whose `expires_at` passes. `fresh` is FALSE once it has. The
  approval routes of `mcp-server.ts` add nothing to `approvePendingRequest`.
* Codes and tokens are UUIDs; the model takes one that has never been issued.
* `ApprovePendingRequest` answers a repeated submission from the cache, in which
  it changes nothing, and otherwise consumes the request.
* `ExchangeExpiredCode`, `ApproveExpired` and `PresentExpiredToken` are the paths
  on which the code deletes an expired row.
* The fields `grant`, and the variables `asked` and `issued`, are history: no
  guard reads them. `grant` names the consent a row goes back to, which the
  tables do not record; it is how "belongs to" is said at all.
* `OAuthGrants` sees, per request, the set of credentials it could be redeemed
  with now (`Held`: the pending row, codes, refresh tokens) and those handed out
  so far. Access tokens are left out, because they buy nothing.

### `EventBroker`, implementing `EventFeed`

* A JavaScript `Set` is shared by reference between a `Map` and the closures
  that `subscribe` returns. The model names a Set by the client that made it,
  and records in `subscription` what a closure has captured, so that a closure
  can meet a Map entry that is no longer the Set it captured.
* The first `close` of request or reply queues up to three listeners that run
  one at a time (`cleanups`); each calls `cleanup`, which calls the closure.
* `Shutdown` ends the streams of all subscribed clients and clears the Maps, not
  the Sets. A stream opened afterwards is ended in `subscribe`.
* `SetOrg` is everything that changes `users.org_id`; the broker never hears of it.
* `EventFeed` knows only which client listens to which scope, what was published
  for whom, and what each client was handed. `published` records the scope of an
  event, so that the feed cannot explain a lost event as one of somebody else.

### `SlackBot`

* One handler per delivery. `event_id` is never looked at, so a redelivered
  event is a delivery like any other.
* `pc` is the await a handler is at: `identify` (`users.info`), `turn` (the
  model), `synthesis` (the model without tools), `reply` (posting).
  `"silent"` is a message whose workspace is not installed.
* `history` is the local variable that is read before the turn and written back,
  with the new turn, after it. A turn stands for the pair of user and assistant
  text and is named by its delivery.
* Whether the speaker is refused, whether a key exists, what the model answers
  and whether Slack accepts a post is open in every state.
* `Save` prunes: a save of one thread deletes the expired rows of all others.
* The limits (20 turns, 10 steps) are the constants `MaxTurns` and `MaxSteps`.
* Which memories the tools of a turn write is `MemoryThreads`.

### `Startup`

* The program is data: a list of blocks, each with the facts that make its guard pass
  it over and a list of statements with the facts they need, forbid, add and drop.
  `Enter` evaluates a guard, `Run` executes a statement, `RunFails` lets it throw.
* Facts are tables, columns and constraints that some migration adds, renames or
  rebuilds, and rows of `_migrations`. Plain indexes and updates of values change no
  fact a later statement or guard depends on, and are left out.
* Of the rows there are `accounts`, `addressed` and `admins`. `RowFacts` are the two
  things about them a statement may fail on: an account without an address where a new
  `users` is filled (020, 026), and an admin where 016 sets a plan that the old `CHECK`
  on `plan` does not allow, which only 020 widens.
* `Released[n]` is the file of a release whose last block was the `n`-th: computed
  from the program itself, from the oldest table layout on. `NarrowPlan` adds the old
  `CHECK` on `plan`, and the first migration may or may not have been applied.
* `AtomicMigration` is `runMigrationWithHooks`, where the mark commits with the
  change. All other migrations commit their mark last.
* `deaths` records where starts were killed. It is history, for the three windows
  below.
* `StartupGuards` states what the proof needs of the program: which facts a guard
  vouches for, that a fact a guard looks for is made after everything it vouches for,
  and which files starts meet and leave. It is about the text of the program, without constants or variables, so TLC's
  evaluation of its assumptions (by `startup`, before it explores) is complete.

### `Billing`

* A handler is its steps between two awaits. What it has read stays in `req`; an event
  handler that awaits `subscriptions.retrieve` is in `retrieving`.
* Stripe is external: sessions can be paid, subscriptions lapse, recover and are
  cancelled, and each of these puts an event into the set `events`. A set has no
  order, and an event leaves it only when a delivery is acknowledged.
* `joined` is history: who has ever been a member. Leaving an organisation sets the
  plan to free, whatever is paid for; the model does so too.
* Prices are identified with plans. An unknown price counts as `free` in the code; the
  configured prices are all known, so this is left out.

### `Extension`

* `flow[f].at` is the await an interception is at, `job[j]` that of a write-back. The
  two flags a second Enter tests are set only after the first await, as in the code.
* The page is a box with a text; it may take the input away and bring it back, with its
  text or empty (`RemoveInput`, `RestoreInput`), the user or the page may empty it
  (`Clear`), and a click on its button may do nothing. A click of the script is heard by
  the script's own click listener too (`HearClick`).
* `SendOriginal` drops the message when the input is empty or not there, as the code
  does, which takes it for sent.
* `taken`, `cleared` and `missed` are history: messages held back, those of them that
  have since been taken out of the input other than by being sent, and whether the script
  has put a text into an input that was not there.
* A reload ends interceptions and timers; a request the background worker already has
  goes on (`StoreOrphan`). Flags in `sessionStorage` stay.
* What the search finds, whether the user is signed in, and whether a message looks
  like a wish to save are open in every state.

## The runs

Deadlock is not checked in any of them: the system may always stop receiving
requests, and a bounded instance runs out of free identifiers.

| Run | Instance | Shows |
|---|---|---|
| `organizations` | 3 users, 2 orgs, 2 teams, 2 seats, crashes | `OwnerIsCreator`, `SeatLimit`, `OrgRefsExist`, `JoinsTeamOfOwnOrg` |
| `memory_threads` | 2 users, 1 org, 1 team, 3 memories, crashes | `OneLevelThreads`, `ScopesExist`, `NoForeignPurge`, `OnlyAuthorTrashes`, `ThreadMembership` |
| `memory_reads` | 2 users, 2 orgs, 1 team, 2 memories | `ReadersEntitled`, `BriefedThreadsOpen`, and over the steps of others `FoundCanBeOpened`, `ReadersChangeByConsent` |
| `memory_versions` | 2 users, 1 org, 1 team, 2 memories, 2 texts, 2 versions, crashes | the types of the whole store, `VersionsContiguous`, `HistoryKept`, `ReadersAreEditors` |
| `oauth_store` | 2 clients, 1 user, 2 requests, 6 secrets, crashes | type, `OneCredential`, `BoundToApproval`, refinement of `OAuthGrants` |
| `event_broker` | 2 users, 1 org, 2 clients, 1 event, fairness | `StreamsInOrder` (with the types), `ChannelsExact`, refinement of `EventFeed`, `Forgotten`, `ShutdownDrains` |
| `slack_bot` | 3 deliveries, 2 threads, 2 turns kept, 1 tool step, 1 scope, 1 request, fairness | type, `CoherentHistory`, `Answered`, `UninstallTakesEffect` |
| `startup` | every release's file, 1 account, 1 killed start, fairness | `ServesWholeSchema`, `EventuallyServes` |
| `billing` | 1 user, 2 customers, 1 subscription, 2 requests, 1 fault, fairness | `AccountsInOrder` (with the types), `PlanIsEarned`, `PaidIsServed` |
| `extension` | 1 message, 2 interceptions, 2 write-backs, 2 triggers, 2 faults, fairness | `PrimingHeld`, `WritesExcused`, `MessageKept`, `PrimingEnds`, `MessageSurvives` |

`VersionsTypeOK` contains the type invariants of `MemoryThreads` and `Organizations`,
and is checked where the three are composed.

Why these bounds are enough to be interesting.

* Three users and two seats let an organisation be full with an invite out. Two
  organisations let a user leave one, keep its team, and join the other, and let
  owners of different organisations meet. Two teams let a user be moved between
  them. The seat limit is 10 in the code; the model takes it as a parameter and
  the theorem holds for every value.
* Three memories make a parent with two replies, or a parent, a teammate's reply
  and a row outside the thread: a reply to a reply would need exactly three, so
  `OneLevelThreads` is not vacuous.
* Six secrets let one request go through code, exchange and two rotations, or
  two requests through one each; a second user would only relabel the field that
  `BoundToApproval` compares, which clients already do.
* Two clients of one user and one organisation are what the delicate case needs:
  one leaves the channel it made, the other makes it anew, and the first one's
  remaining callbacks run. The second user and the org keep apart whom an event
  concerns; that several events arrive in order is in the proof.
* Three messages with two turns kept make a history that has been cut, and let
  two handlers of one thread overlap with a third after them. The second thread
  is there for the prune and to tell threads apart.

* Two organisations in `memory_reads` let a reader move to the organisation a row is
  shared with, or away from it; the two memories are a thread. Deaths are off there:
  a cascade cut short shares less, and the proof of `ReadersEntitled` includes them.
  One invite is out at a time and none lapses (`FewInvites`): invites are no part of
  what is read.
* Two texts and two versions (`MaxVersions`, over all memories) let a row be replaced
  twice with different texts, by different people, and be purged with its thread.
  `PlainMembership` leaves out lapsed invites, admins and organisations without a
  member, on none of which a text depends; `organizations` has them all.
* One killed start is what the windows need; that any number of starts may be killed
  elsewhere changes nothing, because the state after a death is only the file. One
  account with and without an address, an admin or not, with and without
  `RM_OWNER_EMAIL`, covers the owner's cases.
* Two customers and two requests let one user create two customers at once. One
  subscription suffices for the property, because a second one is none of `Steady`;
  no checkout starts once every subscription has been bought. `Offered` is one plan,
  beside which `team` comes from memberships. `MaxFaults` bounds lost
  acknowledgements and deaths together.
* One message and two interceptions let two Enters overlap, because the message stays in
  the input while the first Enter waits for the key. Two triggers (`MaxTriggers`) make two
  write-backs; a click of the script that the page does not take asks for one too. Each
  message is typed once. `MaxFaults` bounds reloads, lost answers, emptied inputs and
  absences of the input together: two of them let an input go, come back empty and the tab
  be reloaded. A second message multiplies the states beyond what is worth waiting for;
  the proofs of `PrimingHeld`, `WritesExcused` and `MessageKept` have any number.

Symmetry: users, organisations, teams, memories and credentials are
interchangeable in every definition of their modules. The runs that check liveness
use none.

Fairness. `event_broker` assumes that Node finishes a response that was ended and
runs the listeners it has queued; not that a peer leaves, a request arrives or a
signal comes. `slack_bot` assumes that every awaited call settles, one way or the
other (`fetch` and the model's client both time out), and that its continuation
then runs; not that messages arrive, time passes or anybody installs. Which
answer the model gives is not assumed: that a turn ends is due to the step limit.
`startup` assumes that a start goes on and that a process that has ended is started
again (the container's restart policy), not that it is never killed: `MaxDeaths` bounds
that. `billing` assumes that Stripe answers and delivers an event until it is
acknowledged, as it documents; not that anybody pays or asks for the status.
`extension` assumes that the background worker answers and that timers fire; not that
the user types, or that the page has an input or takes a click.

These properties name the cases they except, because the code has them.

* `EventuallyServes` excepts a start killed inside three
  windows (`Torn`): within `schema.sql` on a fresh file, whose guard looks for `users`
  alone; between the two statements that add `origin`; between the six columns
  of migration 005, whose guard looks for one of them. Every other point is covered.
  `ServesWholeSchema` excepts the second only: a file torn in one of the others is
  never served, because a later statement fails on it.
* `EventuallyServes` also excepts accounts without an address, which 020 and 026 do not copy, and
  admins in an old table of users before 016 has run (`PlanTooNarrow`): both fail in
  every start.
* `FoundCanBeOpened` excepts users who have just moved and rows whose author, or the
  author of whose thread, asked for the step. It is about own rows and threads, the
  vendor's part of the lists, and leaves out what `FoundByTools` does.
* `WritesExcused` allows one more memory for each reload or lost answer: the flag is
  set when the answer arrives.
* `MessageKept` and `MessageSurvives` except overlapping interceptions, which share one
  input; a reload; a text that was set while the page had no input; and a message taken
  out of the input by the page or the user, which the script may then take for sent.

### What the `Find` runs show

Each checks one sentence of the repository, and TLC gives the shortest
counterexample, up to an interchange of steps.

| Run | Sentence | Counterexample |
|---|---|---|
| `find_foreign_removal` | `server.ts:5118`, "Only team owner can remove members" | the owner of another organisation can |
| `find_trash_stuck` | `memory-service.ts:955`, deletes "all trashed memories" | the user has replied to an own memory; a CI test write is merged into that memory and quarantined with it, without a cascade; the live reply makes emptying the trash fail. A reply restored alone, or one written by somebody else, does the same |

### Divergences seen while modelling, without a run

The models have these behaviours; no property is stated about them, and the
properties that hold are stated so that they hold with them.

* Sharing through `POST /agent/team/share`, the tools and the seed memory shares the
  parent row alone, and a restored reply keeps its old scope, where
  `memory-service.ts:1291` says that "the whole thread's visibility flips together".
* `GET /events` reads the organisation when it is opened; a user who leaves goes on
  receiving its events (`event-broker.ts:6`: "at most one orgId (their own)").
* Of two Slack messages of one thread handled at once, one turn is overwritten
  (`slack-events-handler.ts:230` and `:251`).
* `DELETE /slack/uninstall` marks the row by team after an await, in which the
  workspace may have been bound to another scope (`server.ts:2455`).
* `schema.sql` lacks the unique index of migration 010, which `index.ts:202` marks as
  applied on a fresh file. `VersionsContiguous` shows that the code needs no index to
  keep the numbers unique.
* A restored file of a release between migrations 005 and 015 whose `users` still has the
  `CHECK` on two plans, and an admin, never gets to listen: 016 (`index.ts:575`) sets a
  plan which only 020 allows, and fails in every start. An account without an address does
  the same at 020 or 026. `docs/enterprise/edge-case-test-matrix.md:36` says of "Restore
  with schema mismatch" that "Migrations apply missing schemas".
* An interception that ends without memories takes an empty or absent input for proof that
  the message was sent, logs "Message already sent. Skipping re-send." and drops it
  (`shared.js:622`), though the page may only have rendered its input anew.
* Two Enters before the first answer prime a conversation twice (`shared.js:214`).
* The MCP tool `read_thread` looks the root up among own rows, so that a thread of a
  teammate which the briefing lists is "not found" there; the route finds it.
* The agent's thread route checks the vendor of the requested row only; the pools of
  organisation and sub-team, and Slack's `get_memory_by_id`, check none. What the pools,
  the graph and the briefing list for an agent it may therefore be unable to open with
  `get_memory_by_id` (`mcp-server.ts:143`), whose description says "Resolves to memories
  the user can read: personal, org-shared, or sub-team-shared" (`mcp-server.ts:130`).
* The graph of an admin of an organisation has the rows of all its sub-teams, and
  `get_memory_by_id` opens those of the admin's own sub-team. `GET /agent/memories/:id`
  opens own rows, and the agent's team route lists the pool.
* `countOrgMemories` counts the live memories of the members and not the
  organisation's pool, so `total` and `has_more` do not fit the list beside them.
* `listChildren` does not know the scope of a sub-team: a reply shared with the
  reader's sub-team is in the lists and not in its thread. `get_topic_cluster` leaves
  out rows of a sub-team which the cluster counted.
* Leaving an organisation keeps `team_id`; a merge keeps the `allowed_vendors` of the
  row it merges into.
* A late event of a subscription that has been cancelled leaves its plan in place until
  the next status request, and leaving an organisation takes away a plan that is paid for until then.

## The proofs

The proofs assume nothing about the constants beyond the named assumptions of
the specifications: `None` is not one of the identifiers, the set of users is
finite (needed to count seats), the limits are natural numbers (seats and turns
positive), `Crashes` is TRUE or FALSE, and no offered plan is `free`. All other sets may be infinite.

| Theorem | States |
|---|---|
| `OrgTypeCorrect`, `OwnerCorrect`, `OrgReferencesHold`, `SeatsCorrect` | the types and the invariants of `organizations` |
| `MemoriesTypeCorrect`, `ThreadsCorrect`, `SharedScopesExist` | the types and the invariants of `memory_threads` |
| `ScopesCorrect` | no memory is shared with an organisation and a sub-team at once (no run of its own: `ReadersAreEditors` fails without it) |
| `TeamsJoinedCorrect` | the action property `JoinsTeamOfOwnOrg` of `organizations` |
| `PurgesCorrect`, `TrashCorrect`, `MembershipCorrect` | the action properties `NoForeignPurge`, `OnlyAuthorTrashes` and `ThreadMembership` |
| `ReadsAreEntitled`, `BriefedThreadsAreOpened` | the invariants of `memory_reads` |
| `ReadersAreChosen`, `FoundIsOpened` | its action properties `ReadersChangeByConsent` and `FoundCanBeOpened` |
| `VersionsTypeCorrect`, `VersionsCorrect`, `ReadersEdit`, `HistoryCorrect` | the properties of `memory_versions` |
| `VersionsImplementThreads` | `MemoryVersions` implements `MemoryThreads`, whose theorems carry over |
| `OAuthTypeCorrect`, `BindingCorrect`, `CredentialCorrect` | the invariants of `oauth_store` |
| `StoreRefinesGrants` | `OAuthStore` implements `OAuthGrants` |
| `StreamsCorrect`, `ChannelsCorrect` | the invariants of `event_broker`, types included |
| `BrokerRefinesFeed` | `EventBroker` implements `EventFeed` |
| `SlackTypeCorrect`, `HistoryCoherent` | the invariants of `slack_bot` |
| `AccountsCorrect`, `PlansAreEarned` | the invariants of `billing`, types included |
| `ServedStaysServed` | `ServedStays`: a plan that is there and paid for is taken away by no late answer or repeated event (no run of its own: `PaidIsServed` fails without it) |
| `WholeSchemaServed` | the invariant `ServesWholeSchema` of `startup` |
| `NoStatementFails` | `NoStartFails`: from a file that is not torn no statement of a start fails, but for missing addresses in 020 and 026 and for admins on an old table of users in 016 (no run of its own: `EventuallyServes` fails without it) |
| `ConversationWrittenOnce`, `WriteBackExclusive` | the invariant `WritesExcused` of `extension`, and that `writeInProgress` is a lock |
| `PrimingIsHeld`, `MessagesKept` | its invariant `PrimingHeld`, and `MessageKept` |

The argument for organisations. `OwnerIsCreator` alone is not inductive: that
joining does not make a second owner needs the type of the roles, and that
deleting a team leaves no dangling reference needs the references of users and
teams together. `OrgInv` is the conjunction of the type invariant,
`OwnerIsCreator` and `OrgRefsExist`, and each route preserves it. `SeatLimit`
is proved beside it, because it counts: only `JoinOrg` and `CreateOrg` add a
member (`OneNewMember`), all other routes leave each `Members(o)` the same or
smaller (`NoNewMember`), and the new organisation of `CreateOrg` had no members
because `OrgRefsExist` says that nobody refers to a row that does not exist.

The argument for memories. The handlers are many but they are built from five
statements: insert, purge, set the trash flag, set the scope, orphan. A table is
`Sound` when it is well typed, threaded (a parent exists and has no parent) and
scoped (exclusive and existing scopes). One lemma per statement says under
which condition it keeps a table sound: an inserted reply must answer a top-level
row; rows may be purged together when none that stays answers one of them; a
scope must exist. Then each handler is shown to meet the conditions of its
statements. The delicate one is `PermanentDeleteSound`: the cascade may be cut
short anywhere, and the parent goes only when every reply has been purged or
orphaned. Routes on organisations change what exists, so `OrgsRemain` shows
that nothing disappears except by `RemoveTeam`, which clears the column first.

The action properties rest on a second notion, `Respects(u, T)`: the table `T`
still has every row of other authors, with the trash flag as it was, and no row
has another author. Statements keep it when they purge or trash only rows of
`u`; every request of `u` does (`RequestRespects`); all other steps touch
neither rows nor flags (`OtherStepsRespect`). Sharing reaches further: it changes the
replies of others in a thread of `u`. `Spares(u, T)` is the notion for that: rows that
are not `Mine(u, m)`, written by `u` or in a thread of `u`, are as they were, and a
reply loses its parent only as a `Guest`. Every request of `u` spares the rest
(`RequestSpares`), which is `ThreadMembership` and half of the argument for reading.

The argument for reading. No induction is needed beyond the one for the table: in every
sound table, each operator of `MemoryReads` is within the rows whose `Audience`, or
that of their parent, has the reader. Each way of reading is a step of the proof, and
the work is in the users without organisation or sub-team. `ReadsAreEntitled` needs the
types. `BriefedThreadsAreOpened` needs threads of one level: a thread is the same from
each of its rows because the parent of a reply has no parent.

`FoundIsOpened` is about a row that is found in one state and opened in the next. In one
state, what the tools find is within what the lookup by id opens: the copies of the
condition are compared pairwise (`FoundOpens`), the topic clusters and the graph, which go
from row to row, among them (`GraphOpens`, `ClustersOpen`). Then the step: what opened
still opens after a request of anybody else who is neither the author of the row nor of
its thread (`RequestKeepsOpen`, from `RequestSpares`), and after every step that is
no request on memories (`OthersKeepOpen`): these leave the rows alone, but for the
deletion of a team, which clears the scope of its rows and takes its members off it in
the same step.

`ReadersChangeByConsent` compares two states, for which twenty operators are too many.
`ReadableIsSeen` reduces them to three sets: what `WithTeamAccess` gives, the pools of
the sub-teams of the own organisation, and the live replies in a thread that is own or
shared with it. That these are all needs threads of one level. `KeptIsNotOpened` says
what membership in them depends on: the row, its parent, the reader's own columns, and
the organisation of the row's sub-team. A request of `w` changes none of these for a row
that is not `Mine(w, m)`; the deletion of a team only takes something away; a new team
has no memories yet, because `ScopesExist`.

The argument for versions. Each step is one of `MemoryThreads` (`VersionsImplementThreads`),
so what is proved there holds here, `ReadersEdit` among it, which is `ScopesCorrect`
read by the two copies of the condition. What is left is one invariant on the new
variables: texts and versions belong to the rows there are, and the versions of each
row are finitely many and numbered from 1. Every step does one of four things to them:
it starts a row, replaces a text, keeps a version, or drops versions whole; one lemma
each shows that the numbers stay contiguous and that the history is kept.

The argument for OAuth. `OneCredential` is about the set `Held(r)`, which mixes
three tables; the invariant `Shape` says what the tables look like one at a time.
A pending row excludes codes and tokens of its request, a code excludes tokens
and other codes, a refresh token excludes other refresh tokens,
and whatever is in a table has been recorded as issued. Each method removes a row
before it inserts the next and uses a secret that was never issued, so `Shape`
stays, wherever the method is cut. `HeldIsRow` turns a credential of `Held` back
into a row, from which `OneCredential` and, action by action, the steps of
`OAuthGrants` follow: `Ask`, `Redeem`, `Ended`, or nothing.

The argument for the broker. Users and organisations are treated alike by the
code, so the invariant is stated once, for one side (`SideOK`): every client that
listens is in the Set it captured, nobody else is in a Set, that Set is the one
in the Map, and every Map entry is a Set of that key with somebody in it.
One lemma per operation on a side - joining, leaving, clearing - shows that it
keeps `SideOK`, and each is applied twice. The repeated callback of one client is
harmless because a closure that has run does nothing more. The refinement then
needs only that `Recipients` are the clients whose scope the event concerns,
which `ChannelsExact` says. `StreamsInOrder` adds the connections (`Settled`): an open
one is subscribed, and a closed one is until its listeners have run. So shutdown finds
every open stream through the Maps, though it goes by their keys and not by the
connections, and one listener that has run is enough.

The argument for Slack. `CoherentHistory` speaks of stored sequences, but a
handler stores what it read long before. `HistoryInv` therefore says the same of
every history in memory, and that both consist of turns whose handlers have
finished reading and storing (`Settled`): those never change what they have seen,
so a settled sequence stays settled whatever the others do (`StaysSettled`). What
remains is arithmetic on indices: a coherent history with its own turn appended,
cut to the limit, is coherent (`CoherentAppend`).

The argument for billing. `PlanIsEarned` is about the tables, but a plan is written from
what was read before an await, or from what an event says. `BillingInv` therefore says
that everything in hand is right too: a stored customer, an open session and a request
name a customer of the own user; every event is of a subscription that was bought; an
answer that waits to be compared is a plan its user has earned. What makes it
inductive is that nothing is taken back (`StepsRemember`): a customer keeps its owner, a
subscription its customer and its plan, and who has joined has joined. So an answer may
be as late as it likes.

That a paid plan arrives and stays has the same form (`PaidInv`). A status request writes
the answer of Stripe over the plan if it differs from the plan read before, so a late
one could undo a payment. It does not: who had a plan other than `free` when it was read
had bought it (`ReadsEarned`), so Stripe answers with that plan (`AnswersCurrent`); who
had none is given at most what is earned. An event that is still out tells of what has
happened (`EventsTrue`), so none of them takes the plan away while the subscription is
kept. `SteadyBack` makes it inductive: a user who is steady after a step was so before,
or pays in this step, and paying puts both events on their way.

The argument for start-up. A start does not know which release made its file, so an
invariant by position in the program alone is not inductive: what is there is known
from the guards that were passed. The invariant `FileInv` says that a guard tells
(`GuardsTell`): if the file has a fact the guard of a block looks for, it has what the
block vouches for, so the block may be passed over. It holds whenever the process may
end, which is what makes the number of killed starts irrelevant. Everything known
before a statement (`Known`) is there when the statement is reached (`KnownHolds`) and
stays (`SchemaStays`); a statement that does not fail adds what it makes and confirms
what it needs (`StatementEnsures`); a fact that is made and that a guard looks for comes
last (`MadeFactsTell`). In the window of `origin` the guard says too much; a process
killed there is excepted, and no statement fails there (`WindowRuns`), because
`allowed_vendors` is never there without `origin`. At the end all blocks have been
passed, and together they vouch for the whole schema. The conditions on the program are
the assumptions of `StartupGuards`, and that the file of every release is closed under
the guards is one of them: `Released` is a fold over the program, which TLC computes and
the prover cannot. `FaultyRunFails`, a start that goes on after an error, breaks the
property; a guard that looks for the wrong fact breaks an assumption.

`NoStartFails` needs more than guards tell: that a table is not there yet when it is
created, that a column which a later migration drops is still there. So its invariant
names the files. The rows come in as the set of `RowFacts` that hold, and the
conditions are stated for every such set. `Files` are those that three starts, each killed anywhere, can leave of
a release's file; there are 554 of them, and TLC's evaluation of the assumptions says
that a fourth start leaves no other (`FilesAreLeft`). That is why the theorem has no
bound on the starts, where the run has one killed start. `FileKnown` says at each
place of the program that the file is one of `Passing`, those with which a start comes
by (`GuardsPass`, `StatementsPass`), and no statement fails on them (`NothingFails`). A
death either tears the file or leaves one of `Files` (`DeathLeavesFile`). A migration
that adds a column again, or comes before a table it alters, makes an assumption false.

The argument for the extension. `WritesExcused` counts memories that are stored; what
may still be stored has to be counted with it. `Balance` adds the orphans, write-backs
whose page is gone, and one for the page itself while `written` is false. A reload turns
at most one write-back into an orphan, because at most one is under way (`OneWriter`):
the guard of `Fire` tests `writeInProgress` and sets it with no await in between.

`MessageKept` has a hypothesis about the whole behaviour, `[]OneInterception`, and is
proved by an induction that may use it in both states of a step. Until the tab is marked
primed, a message can only be held back by the interception that waits for the key
(`Unmarked`); it marks the tab before it does anything else, so there is no second one,
and all that was ever held back is its message (`InHand`). The message is in the input
when its interception starts. Each step then leaves it there or among what was sent, or
takes it out of sight, which `cleared` and `missed` record, or has put the memories in its
place and is on its way to send it. So when `SendOriginal` finds the input empty or gone
and drops the message, one of these has happened before.

Only model-checked: the liveness properties `Forgotten`,
`ShutdownDrains`, `Answered`, `UninstallTakesEffect`, `EventuallyServes`,
`PaidIsServed`, `PrimingEnds` and `MessageSurvives`. Liveness and `ENABLED` are out of
reach of the prover and stay with TLC. What each needs besides fairness is a safety
property, and most of these are proved: `CleanupSuffices` for `Forgotten`,
`NoneLeftOpen` for `ShutdownDrains`, `PaidIsAnnounced` and `ServedStays` for
`PaidIsServed`, `NoStartFails` for `EventuallyServes`, `PrimingHeld` for `PrimingEnds`,
`MessageKept` for `MessageSurvives`.

## Plan

*Done:* the modules above and their proofs. What could follow, in this order:

1. The composition of `SlackBot` with `MemoryThreads`: the tools of a turn act for the
   user resolved before it.
2. An abstract specification of the plan as a function of what Stripe last said, once
   the code keeps an order of events; today nothing converges without a status request.
3. MCP sessions: the limit checked before an await, the sweep, the closing callbacks.

## Not modelled

* Quota, usage metering, API keys, LLM keys: single-row inserts, updates and counts.
  That only two of the routes which create rows check the quota is a hazard in
  `PROJECT.json`, but nothing says which should.
* MCP sessions: their state is owned by the transport of the MCP library, which is not
  in the repository.
* Authentication, cryptography, HTTP validation and rate limits: the models start from
  the authenticated user.
* Audit and log export, backup, admin reports, waitlist: append-only rows and reports.
* Chat and model gateways, cluster naming, similarity, tokenising, ranking and the text
  of a briefing: calls to language models, and computations on texts. The one state
  change of the gateways, `createMemory`, is in `MemoryThreads`.
* `allowed_vendors`, except as the arbitrary set `V` of `MemoryReads`.
* Of the extension: the popup and the dashboard bridge, which store a key, and the
  selectors of the sites; whether an adapter primes inline is open in the model.
* The Postgres variant of the schema (documentation only), the SDK and the integrations.
