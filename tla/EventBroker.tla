----------------------------- MODULE EventBroker -----------------------------
(***************************************************************************)
(* The event broker and the route GET /events: channels per user and per   *)
(* org, subscriptions that outlive the channel they were made on, and the  *)
(* callbacks of a connection that unsubscribe it, up to three times.       *)
(*                                                                         *)
(* A channel is a JavaScript Set that the maps and the unsubscribe         *)
(* closures share by reference.  A Set is made by the first client of a    *)
(* channel, and a client makes at most one per map, so the client's        *)
(* identity serves as that of the Set: userMembers[c] is the content of    *)
(* the user Set that c made.                                               *)
(*                                                                         *)
(* Nothing here awaits: subscribing, emitting, a callback and shutdown are *)
(* one action each.                                                        *)
(***************************************************************************)
EXTENDS Naturals, Sequences

CONSTANTS Users, Orgs,
          Clients,  \* connections to GET /events, each opened once
          Events,   \* events, each published once
          None      \* no value

VARIABLES orgOf,         \* users.org_id
          conn,          \* the connection of each client
          cleanups,      \* callbacks of a closed connection still to run
          subscription,  \* what the unsubscribe closure has captured
          unsubscribed,  \* the closures that have run
          userMembers, teamMembers,    \* the Sets
          userChannels, teamChannels,  \* the Maps
          shuttingDown,
          published,     \* history: the events so far, each with its user and org
          inbox          \* history: what was handed to each client's send

streamVars == <<orgOf, conn, cleanups>>
setVars == <<subscription, unsubscribed, userMembers, teamMembers, userChannels, teamChannels>>
brokerVars == <<streamVars, setVars, shuttingDown, published, inbox>>

MaxCleanups == 3  \* request close, reply close, reply error

\* "ended": reply.raw.end() was called and the stream has not closed yet.
ConnStates == {"idle", "open", "ended", "closed"}

Subscription == [user : Users, org : Orgs \cup {None},
                 userSet : Clients, teamSet : Clients \cup {None}]

Scope == [user : Users, org : Orgs \cup {None}]

ASSUME BrokerNone == None \notin Clients \cup Users \cup Orgs \cup Subscription \cup Scope

BrokerTypeOK ==
  /\ orgOf \in [Users -> Orgs \cup {None}]
  /\ conn \in [Clients -> ConnStates]
  /\ cleanups \in [Clients -> 0..MaxCleanups]
  /\ subscription \in [Clients -> Subscription \cup {None}]
  /\ unsubscribed \subseteq Clients
  /\ userMembers \in [Clients -> SUBSET Clients]
  /\ teamMembers \in [Clients -> SUBSET Clients]
  /\ userChannels \in [Users -> Clients \cup {None}]
  /\ teamChannels \in [Orgs -> Clients \cup {None}]
  /\ shuttingDown \in BOOLEAN
  /\ published \subseteq Events \X Users \X (Orgs \cup {None})
  /\ inbox \in [Clients -> Seq(Events)]

BrokerInit ==
  /\ orgOf \in [Users -> Orgs \cup {None}]
  /\ conn = [c \in Clients |-> "idle"]
  /\ cleanups = [c \in Clients |-> 0]
  /\ subscription = [c \in Clients |-> None]
  /\ unsubscribed = {}
  /\ userMembers = [c \in Clients |-> {}]
  /\ teamMembers = [c \in Clients |-> {}]
  /\ userChannels = [u \in Users |-> None]
  /\ teamChannels = [o \in Orgs |-> None]
  /\ shuttingDown = FALSE
  /\ published = {}
  /\ inbox = [c \in Clients |-> <<>>]
-----------------------------------------------------------------------------
(* The broker. *)

\* map.get(key) ?? new Set()
SetFor(channels, key, c) == IF channels[key] = None THEN c ELSE channels[key]

Join(members, s, c) == [members EXCEPT ![s] = @ \cup {c}]

\* subscribe, by user u of org o.
Subscribe(c, u, o) ==
  LET us == SetFor(userChannels, u, c)
      ts == IF o = None THEN None ELSE SetFor(teamChannels, o, c)
  IN  /\ subscription' = [subscription EXCEPT
                            ![c] = [user |-> u, org |-> o, userSet |-> us, teamSet |-> ts]]
      /\ userMembers' = Join(userMembers, us, c)
      /\ userChannels' = [userChannels EXCEPT ![u] = us]
      /\ IF o = None
         THEN UNCHANGED <<teamMembers, teamChannels>>
         ELSE /\ teamMembers' = Join(teamMembers, ts, c)
              /\ teamChannels' = [teamChannels EXCEPT ![o] = ts]
      /\ UNCHANGED unsubscribed

Leave(members, s, c) == [members EXCEPT ![s] = @ \ {c}]

FaultyDrop(channels, key, members, s) == channels  \* the empty Set stays in the Map

\* if (set.size === 0) map.delete(key)
Drop(channels, key, members, s) ==
  IF members[s] = {} THEN [channels EXCEPT ![key] = None] ELSE channels

\* The body of the closure that subscribe returns.
Remove(c) ==
  LET sub == subscription[c]
  IN  /\ userMembers' = Leave(userMembers, sub.userSet, c)
      /\ userChannels' = Drop(userChannels, sub.user, userMembers', sub.userSet)
      /\ IF sub.teamSet = None
         THEN UNCHANGED <<teamMembers, teamChannels>>
         ELSE /\ teamMembers' = Leave(teamMembers, sub.teamSet, c)
              /\ teamChannels' = Drop(teamChannels, sub.org, teamMembers', sub.teamSet)
      /\ unsubscribed' = unsubscribed \cup {c}
      /\ UNCHANGED subscription

FaultyUnsubscribe(c) ==  \* without the flag
  IF subscription[c] = None THEN UNCHANGED setVars ELSE Remove(c)

\* The closure: the one made during shutdown does nothing, and no closure
\* does anything the second time.
Unsubscribe(c) ==
  IF subscription[c] = None \/ c \in unsubscribed THEN UNCHANGED setVars ELSE Remove(c)

\* The Set found under a key, or nothing.
Channel(channels, members, key) ==
  IF channels[key] = None THEN {} ELSE members[channels[key]]

Recipients(u, o) ==
  Channel(userChannels, userMembers, u)
    \cup IF o = None THEN {} ELSE Channel(teamChannels, teamMembers, o)
-----------------------------------------------------------------------------
(* The route and the server around it. *)

\* A user joins, leaves or changes the org, on a route of another module.
SetOrg(u, o) ==
  /\ orgOf' = [orgOf EXCEPT ![u] = o]
  /\ UNCHANGED <<conn, cleanups, setVars, shuttingDown, published, inbox>>

FaultyOpenStream(c, u) ==  \* subscribe does not look at shuttingDown
  /\ conn[c] = "idle"
  /\ conn' = [conn EXCEPT ![c] = "open"]
  /\ Subscribe(c, u, orgOf[u])
  /\ UNCHANGED <<orgOf, cleanups, shuttingDown, published, inbox>>

\* GET /events
OpenStream(c, u) ==
  /\ conn[c] = "idle"
  /\ IF shuttingDown
     THEN conn' = [conn EXCEPT ![c] = "ended"] /\ UNCHANGED setVars
     ELSE conn' = [conn EXCEPT ![c] = "open"] /\ Subscribe(c, u, orgOf[u])
  /\ UNCHANGED <<orgOf, cleanups, shuttingDown, published, inbox>>

\* The connection closes, and its listeners are queued.
Close(c) ==
  /\ conn' = [conn EXCEPT ![c] = "closed"]
  /\ \E n \in 1..MaxCleanups : cleanups' = [cleanups EXCEPT ![c] = n]
  /\ UNCHANGED <<orgOf, setVars, shuttingDown, published, inbox>>

PeerLeaves(c) == conn[c] = "open" /\ Close(c)

StreamFinishes(c) == conn[c] = "ended" /\ Close(c)

FaultyCleanup(c) ==  \* clears the keepalive and leaves the subscription
  /\ cleanups[c] > 0
  /\ cleanups' = [cleanups EXCEPT ![c] = @ - 1]
  /\ UNCHANGED <<orgOf, conn, setVars, shuttingDown, published, inbox>>

\* One of the listeners.
Cleanup(c) ==
  /\ cleanups[c] > 0
  /\ cleanups' = [cleanups EXCEPT ![c] = @ - 1]
  /\ Unsubscribe(c)
  /\ UNCHANGED <<orgOf, conn, shuttingDown, published, inbox>>

\* emitMemoryEvent and emit: the writer u and, for a shared memory, its org.
Emit(e, u, o) ==
  /\ \A p \in published : p[1] # e
  /\ published' = published \cup {<<e, u, o>>}
  /\ inbox' = [c \in Clients |-> IF ~shuttingDown /\ c \in Recipients(u, o)
                                 THEN Append(inbox[c], e) ELSE inbox[c]]
  /\ UNCHANGED <<streamVars, setVars, shuttingDown>>

\* shutdown: the Maps are cleared, the Sets stay with the closures.
Shutdown ==
  /\ ~shuttingDown
  /\ shuttingDown' = TRUE
  /\ conn' = [c \in Clients |->
       IF conn[c] = "open" /\ \/ \E u \in Users : c \in Channel(userChannels, userMembers, u)
                              \/ \E o \in Orgs : c \in Channel(teamChannels, teamMembers, o)
       THEN "ended" ELSE conn[c]]
  /\ userChannels' = [u \in Users |-> None]
  /\ teamChannels' = [o \in Orgs |-> None]
  /\ UNCHANGED <<orgOf, cleanups, subscription, unsubscribed, userMembers, teamMembers,
                 published, inbox>>

BrokerNext ==
  \/ \E u \in Users, o \in Orgs \cup {None} : SetOrg(u, o)
  \/ \E c \in Clients, u \in Users : OpenStream(c, u)
  \/ \E c \in Clients : PeerLeaves(c) \/ StreamFinishes(c) \/ Cleanup(c)
  \/ \E e \in Events, u \in Users, o \in Orgs \cup {None} : Emit(e, u, o)
  \/ Shutdown

BrokerSpec == BrokerInit /\ [][BrokerNext]_brokerVars

\* Node finishes a response that was ended, and runs queued listeners.
\* Whether a peer leaves, a request arrives or a signal comes is up to others.
FairBrokerSpec ==
  /\ BrokerSpec
  /\ \A c \in Clients : WF_brokerVars(StreamFinishes(c)) /\ WF_brokerVars(Cleanup(c))
-----------------------------------------------------------------------------
Listening(c) == subscription[c] # None /\ c \notin unsubscribed /\ ~shuttingDown

\* The maps are exact: a channel is there if and only if some client listens
\* on it, and holds just the clients that do, whatever Sets earlier clients
\* of the same channel still refer to.
ChannelsExact ==
  /\ \A u \in Users :
       /\ Channel(userChannels, userMembers, u)
            = {c \in Clients : Listening(c) /\ subscription[c].user = u}
       /\ userChannels[u] # None => Channel(userChannels, userMembers, u) # {}
  /\ \A o \in Orgs :
       /\ Channel(teamChannels, teamMembers, o)
            = {c \in Clients : Listening(c) /\ subscription[c].org = o}
       /\ teamChannels[o] # None => Channel(teamChannels, teamMembers, o) # {}

Feed == INSTANCE EventFeed WITH
  listening <- [c \in Clients |->
    IF Listening(c) THEN [user |-> subscription[c].user, org |-> subscription[c].org] ELSE None],
  left <- {c \in Clients : subscription[c] # None /\ ~Listening(c)}

\* The broker implements EventFeed: from subscribe to the first close callback
\* or shutdown, a client is handed every event of its scopes exactly once and
\* in order, however other clients of its channels come and go.
ImplementsFeed == Feed!FeedSpec

InNoSet(c) == \A s \in Clients : c \notin userMembers[s] /\ c \notin teamMembers[s]

\* However often a connection reports its end, and whether its user has moved
\* or the server shuts down meanwhile: when the listeners of a closed
\* connection have run, no Set has it.
CleanupSuffices ==
  \A c \in Clients : conn[c] = "closed" /\ cleanups[c] = 0 => InNoSet(c)

\* Shutdown finds every stream through the Maps it is about to clear, and none
\* is opened after it.
NoneLeftOpen == shuttingDown => \A c \in Clients : conn[c] # "open"

\* The streams are in order: the types, and nothing is left behind by a
\* connection that is gone or by a shutdown.
StreamsInOrder == BrokerTypeOK /\ CleanupSuffices /\ NoneLeftOpen

\* A closed connection is forgotten by every Set, so neither Map nor Set
\* grows with the connections of the past.
Forgotten ==
  \A c \in Clients :
    conn[c] = "closed" ~> InNoSet(c)

\* Once shutdown has begun every stream closes, the ones opened after it
\* too, so the server.close() that follows is not held up by them.
ShutdownDrains ==
  \A c \in Clients : shuttingDown /\ conn[c] \in {"open", "ended"} ~> conn[c] = "closed"
=============================================================================
