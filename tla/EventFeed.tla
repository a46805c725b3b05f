------------------------------ MODULE EventFeed ------------------------------
(***************************************************************************)
(* What the event stream promises, without channels or callbacks: a client *)
(* listens from one moment to another to one user and at most one org, and *)
(* every event published in between for that user or that org is handed    *)
(* to it once, in the order of publication.  EventBroker implements this.  *)
(***************************************************************************)
EXTENDS Sequences

CONSTANTS Users, Orgs, Clients, Events, None

VARIABLES listening,  \* the scope of each client that listens, or None
          left,       \* the clients that have stopped for good
          published,  \* the events so far, each with its user and org
          inbox       \* what each client was handed, in order

feedVars == <<listening, left, published, inbox>>

FeedInit ==
  /\ listening = [c \in Clients |-> None]
  /\ left = {}
  /\ published = {}
  /\ inbox = [c \in Clients |-> <<>>]

Listen(c, u, o) ==
  /\ listening[c] = None
  /\ c \notin left
  /\ listening' = [listening EXCEPT ![c] = [user |-> u, org |-> o]]
  /\ UNCHANGED <<left, published, inbox>>

Concerns(scope, u, o) == scope # None /\ (scope.user = u \/ (o # None /\ scope.org = o))

\* Event e of user u, and of org o unless o is None.
Publish(e, u, o) ==
  /\ \A p \in published : p[1] # e
  /\ published' = published \cup {<<e, u, o>>}
  /\ inbox' = [c \in Clients |-> IF Concerns(listening[c], u, o)
                                 THEN Append(inbox[c], e) ELSE inbox[c]]
  /\ UNCHANGED <<listening, left>>

\* One client leaves, or all of them do.
Stop(S) ==
  /\ listening' = [c \in Clients |-> IF c \in S THEN None ELSE listening[c]]
  /\ left' = left \cup S
  /\ UNCHANGED <<published, inbox>>

FeedNext ==
  \/ \E c \in Clients, u \in Users, o \in Orgs \cup {None} : Listen(c, u, o)
  \/ \E e \in Events, u \in Users, o \in Orgs \cup {None} : Publish(e, u, o)
  \/ \E S \in SUBSET Clients : Stop(S)

FeedSpec == FeedInit /\ [][FeedNext]_feedVars
=============================================================================
