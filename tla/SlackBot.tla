------------------------------ MODULE SlackBot ------------------------------
(***************************************************************************)
(* The Slack bot: POST /slack/events, the handlers it leaves behind, the   *)
(* stored conversation of each Slack thread, and the installation and      *)
(* uninstallation of the workspace beside them.                            *)
(*                                                                         *)
(* The route acknowledges at once and leaves handleUserMessage running.  A *)
(* handler awaits users.info, the language model and chat.postMessage; the *)
(* code between two awaits is one action.  Handlers interleave, and the    *)
(* history a handler has read is what it writes back after the turn.       *)
(*                                                                         *)
(* One Slack workspace: rows of others are neither read nor written.  What *)
(* users.info, the tables users and llm_keys and the model answer is left  *)
(* open.                                                                   *)
(*                                                                         *)
(* A definition named Faulty... is the next one with a plausible bug in    *)
(* it.  Nothing uses it: PROJECT.json names the property it would break.   *)
(***************************************************************************)
EXTENDS Naturals, Sequences

CONSTANTS Deliveries,  \* events delivered by Slack, redelivered ones included
          Threads,     \* channel_id and thread_ts
          Scopes,      \* the orgs and solo users a workspace can be bound to
          Requests,    \* requests to DELETE /slack/uninstall
          MaxTurns,    \* turns kept per conversation
          MaxSteps,    \* MAX_AGENT_STEPS
          None         \* no value

VARIABLES pc,             \* where each handler awaits
          thread,         \* the thread of each delivery
          history,        \* what each handler has read of it
          steps,          \* tool rounds of each turn
          conversations,  \* messages_json by thread, as a sequence of turns
          expired,        \* threads whose row is past expires_at
          workspace,      \* the row of slack_workspaces
          uninstalling,   \* for each request, the scope it acts for
          up              \* the process runs

handlerVars == <<pc, thread, history, steps>>
tableVars == <<conversations, expired>>
installVars == <<workspace, uninstalling>>
slackVars == <<handlerVars, tableVars, installVars, up>>

ASSUME SlackConstants ==
  /\ None \notin Threads \cup Scopes
  /\ MaxTurns \in Nat \ {0}
  /\ MaxSteps \in Nat

InFlight == {"identify", "turn", "synthesis", "reply"}

\* "silent": ended without a post; "dead": the process went down.
Stages == {"idle", "posted", "silent", "dead"} \cup InFlight

SlackTypeOK ==
  /\ pc \in [Deliveries -> Stages]
  /\ thread \in [Deliveries -> Threads \cup {None}]
  /\ history \in [Deliveries -> Seq(Deliveries)]
  /\ \A d \in Deliveries : Len(history[d]) <= MaxTurns
  /\ steps \in [Deliveries -> 0..MaxSteps]
  /\ conversations \in [Threads -> Seq(Deliveries)]
  /\ \A t \in Threads : Len(conversations[t]) <= MaxTurns
  /\ expired \subseteq Threads
  /\ workspace \in [active : BOOLEAN, scope : Scopes \cup {None}]
  /\ uninstalling \in [Requests -> Scopes \cup {None}]
  /\ up \in BOOLEAN

SlackInit ==
  /\ pc = [d \in Deliveries |-> "idle"]
  /\ thread = [d \in Deliveries |-> None]
  /\ history = [d \in Deliveries |-> <<>>]
  /\ steps = [d \in Deliveries |-> 0]
  /\ conversations = [t \in Threads |-> <<>>]
  /\ expired = {}
  /\ workspace = [active |-> FALSE, scope |-> None]
  /\ uninstalling = [r \in Requests |-> None]
  /\ up = TRUE

-----------------------------------------------------------------------------
(* A message. *)

GoTo(d, stage) == pc' = [pc EXCEPT ![d] = stage]

\* The workspace is looked up before the first await; a message of an
\* uninstalled one is dropped.
Deliver(d, t) ==
  /\ up
  /\ pc[d] = "idle"
  /\ thread' = [thread EXCEPT ![d] = t]
  /\ GoTo(d, IF workspace.active THEN "identify" ELSE "silent")
  /\ UNCHANGED <<history, steps, tableVars, installVars, up>>

\* getConversation
Readable(t) == IF t \in expired THEN <<>> ELSE conversations[t]

\* The speaker is refused, or there is no key for the model: say so.
TurnAway(d) ==
  /\ pc[d] = "identify"
  /\ GoTo(d, "reply")
  /\ UNCHANGED <<thread, history, steps, tableVars, installVars, up>>

\* The speaker is known: read the conversation and ask the model.
StartTurn(d) ==
  /\ pc[d] = "identify"
  /\ history' = [history EXCEPT ![d] = Readable(thread[d])]
  /\ GoTo(d, "turn")
  /\ UNCHANGED <<thread, steps, tableVars, installVars, up>>

\* The model asks for tools and is asked again.
UseTools(d) ==
  /\ pc[d] = "turn"
  /\ steps[d] < MaxSteps
  /\ steps' = [steps EXCEPT ![d] = @ + 1]
  /\ UNCHANGED <<pc, thread, history, tableVars, installVars, up>>

\* No text, or the tool budget is used up: one last call, without tools.
Synthesise(d) ==
  /\ pc[d] = "turn"
  /\ GoTo(d, "synthesis")
  /\ UNCHANGED <<thread, history, steps, tableVars, installVars, up>>

\* One turn too many survives.
FaultyTrim(s) ==
  SubSeq(s, IF Len(s) > MaxTurns + 1 THEN Len(s) - MaxTurns ELSE 1, Len(s))

\* messages.slice(-n)
Trim(s) == SubSeq(s, IF Len(s) > MaxTurns THEN Len(s) - MaxTurns + 1 ELSE 1, Len(s))

\* saveConversation, then pruneExpiredConversations.
Save(t, turns) ==
  /\ conversations' =
       [x \in Threads |-> IF x = t THEN Trim(turns) ELSE Readable(x)]
  /\ expired' = {}

\* The turn is appended to what the row says by now.
FaultyAnswer(d) ==
  /\ pc[d] \in {"turn", "synthesis"}
  /\ Save(thread[d], Append(Readable(thread[d]), d))
  /\ GoTo(d, "reply")
  /\ UNCHANGED <<thread, history, steps, installVars, up>>

\* The turn has an answer: the last call's text, the model's, or a stock
\* phrase when the last call failed.
Answer(d) ==
  /\ pc[d] \in {"turn", "synthesis"}
  /\ Save(thread[d], Append(history[d], d))
  /\ GoTo(d, "reply")
  /\ UNCHANGED <<thread, history, steps, installVars, up>>

\* The exception leaves the handler.
FaultyFailTurn(d) ==
  /\ pc[d] = "turn"
  /\ GoTo(d, "silent")
  /\ UNCHANGED <<thread, history, steps, tableVars, installVars, up>>

\* The model cannot be reached: apologise, store nothing.
FailTurn(d) ==
  /\ pc[d] = "turn"
  /\ GoTo(d, "reply")
  /\ UNCHANGED <<thread, history, steps, tableVars, installVars, up>>

\* Slack has accepted the reply, or refused it: the handler is over.
Post(d) ==
  /\ pc[d] = "reply"
  /\ GoTo(d, "posted")
  /\ UNCHANGED <<thread, history, steps, tableVars, installVars, up>>

\* A day has passed since the thread was saved.
Expire(t) ==
  /\ conversations[t] # <<>>
  /\ expired' = expired \cup {t}
  /\ UNCHANGED <<handlerVars, conversations, installVars, up>>

-----------------------------------------------------------------------------
(* The workspace. *)

\* GET /slack/oauth/callback, after the exchange: whoever installs binds it.
Install(s) ==
  /\ up
  /\ workspace' = [active |-> TRUE, scope |-> s]
  /\ UNCHANGED <<handlerVars, tableVars, uninstalling, up>>

\* DELETE /slack/uninstall, up to the revocation of the token.
BeginUninstall(r, s) ==
  /\ up
  /\ uninstalling[r] = None
  /\ workspace.active /\ workspace.scope = s
  /\ uninstalling' = [uninstalling EXCEPT ![r] = s]
  /\ UNCHANGED <<handlerVars, tableVars, workspace, up>>

\* A failed revocation ends the request.
FaultyFinishUninstall(r) ==
  /\ uninstalling[r] # None
  /\ workspace' \in {workspace, [workspace EXCEPT !.active = FALSE]}
  /\ uninstalling' = [uninstalling EXCEPT ![r] = None]
  /\ UNCHANGED <<handlerVars, tableVars, up>>

\* The token is revoked, or it is not: either way the row is marked.
FinishUninstall(r) ==
  /\ uninstalling[r] # None
  /\ workspace' = [workspace EXCEPT !.active = FALSE]
  /\ uninstalling' = [uninstalling EXCEPT ![r] = None]
  /\ UNCHANGED <<handlerVars, tableVars, up>>

-----------------------------------------------------------------------------
(* The process. *)

Crash ==
  /\ up
  /\ up' = FALSE
  /\ pc' = [d \in Deliveries |-> IF pc[d] \in InFlight THEN "dead" ELSE pc[d]]
  /\ uninstalling' = [r \in Requests |-> None]
  /\ UNCHANGED <<thread, history, steps, tableVars, workspace>>

Restart ==
  /\ ~up
  /\ up' = TRUE
  /\ UNCHANGED <<handlerVars, tableVars, installVars>>

\* What the model answers in a turn.
ModelResponds(d) == UseTools(d) \/ Synthesise(d) \/ Answer(d) \/ FailTurn(d)

Identify(d) == TurnAway(d) \/ StartTurn(d)

SlackNext ==
  \/ \E d \in Deliveries :
       \/ \E t \in Threads : Deliver(d, t)
       \/ Identify(d) \/ ModelResponds(d) \/ Post(d)
  \/ \E t \in Threads : Expire(t)
  \/ \E s \in Scopes : Install(s)
  \/ \E r \in Requests :
       \/ \E s \in Scopes : BeginUninstall(r, s)
       \/ FinishUninstall(r)
  \/ Crash \/ Restart

SlackSpec == SlackInit /\ [][SlackNext]_slackVars

\* Every awaited call settles: fetch and the model's client both time out.
FairSlackSpec ==
  /\ SlackSpec
  /\ \A d \in Deliveries :
       WF_slackVars(Identify(d)) /\ WF_slackVars(ModelResponds(d)) /\ WF_slackVars(Post(d))
  /\ \A r \in Requests : WF_slackVars(FinishUninstall(r))

-----------------------------------------------------------------------------
(* Properties. *)

\* The turns of s belong to thread t and stand in the order in which they
\* saw each other: each one has the turns before it as the end of the history
\* its own answer was given with.  A sequence shorter than the limit starts
\* with a turn that saw none.
CoherentTurns(s, t) ==
  /\ \A i \in DOMAIN s :
       LET h == history[s[i]]
       IN  /\ thread[s[i]] = t
           /\ i - 1 <= Len(h)
           /\ \A j \in 1..(i - 1) : s[j] = h[Len(h) - i + 1 + j]
  /\ Len(s) \in 1..(MaxTurns - 1) => history[s[1]] = <<>>

\* However the handlers of a thread interleave, expire and die, what
\* saveConversation leaves is a conversation that took place: no answer is
\* filed after a turn it did not know of.
CoherentHistory == \A t \in Threads : CoherentTurns(conversations[t], t)

\* A message whose workspace was found is answered, refused or apologised
\* for, whatever the awaited services do and however often the model asks for
\* tools, unless the process dies: handleUserMessage loses no message.
Answered == \A d \in Deliveries : pc[d] = "identify" ~> pc[d] \in {"posted", "dead"}

\* DELETE /slack/uninstall is best effort towards Slack but not towards the
\* own table: the workspace goes inactive unless the process dies first.
UninstallTakesEffect ==
  \A r \in Requests : uninstalling[r] # None ~> ~workspace.active \/ ~up
=============================================================================
