------------------------------- MODULE Billing -------------------------------
(***************************************************************************)
(* Plans and payments: the columns plan and stripe_customer_id of users,   *)
(* the routes under /billing, the webhook Stripe calls, and the two        *)
(* statements of user-service.ts that write a plan.                        *)
(*                                                                         *)
(* The statements between two awaits of a handler are one action, and a    *)
(* handler that awaits Stripe holds what it has read before.  Stripe is a  *)
(* part of the model: customers, subscriptions, and events that are        *)
(* delivered in any order until one delivery of each is acknowledged.      *)
(*                                                                         *)
(* Prices are identified with the plans they buy; the legacy name builder  *)
(* buys pro.  A definition named Faulty... is the next one with a          *)
(* plausible bug in it: PROJECT.json names the property it would break.    *)
(***************************************************************************)
EXTENDS Naturals

CONSTANTS Users, Customers, Subscriptions,
          Offered,     \* plans with a price in the environment
          Requests,    \* requests of users in flight
          MaxFaults,   \* acknowledgements lost, ends of the process
          None         \* SQL NULL

ASSUME NoneIsNoCustomer == None \notin Users \cup Customers \cup Subscriptions
ASSUME BillingBounds == MaxFaults \in Nat

Plans == {"free", "pro", "team"}

ASSUME OfferedPlans == Offered \subseteq Plans \ {"free"}

VARIABLES users,       \* plan and stripe_customer_id
          members,     \* users with an org_id
          joined,      \* users who have ever had one
          owner,       \* Stripe: the user a customer was created for
          sessions,    \* Stripe: checkout sessions nobody has paid yet
          subs,        \* Stripe: subscriptions
          events,      \* Stripe: events not acknowledged
          retrieving,  \* events whose handler awaits subscriptions.retrieve
          req,         \* what each request has read, and where it awaits
          faults

tableVars == <<users, members, joined>>
stripeVars == <<owner, sessions, subs>>
billingVars == <<tableVars, stripeVars, events, retrieving, req, faults>>

Idle == [at |-> "idle", user |-> None, customer |-> None, read |-> "free", answer |-> "free"]

Event == [type : {"completed", "subscription", "deleted"}, sub : Subscriptions,
          active : BOOLEAN]

Sub == [customer : Customers \cup {None}, plan : Plans,
        status : {"none", "active", "past_due", "canceled"}, lapsed : BOOLEAN]

Request == [at : {"idle", "customer", "session", "list", "listed"},
            user : Users \cup {None}, customer : Customers \cup {None},
            read : Plans, answer : Plans]

Account == [plan : Plans, customer : Customers \cup {None}]

BillingTypeOK ==
  /\ users \in [Users -> Account]
  /\ members \subseteq joined /\ joined \subseteq Users
  /\ owner \in [Customers -> Users \cup {None}]
  /\ sessions \subseteq [user : Users, customer : Customers, plan : Offered]
  /\ subs \in [Subscriptions -> Sub]
  /\ events \subseteq Event
  /\ retrieving \subseteq {e \in events : e.type = "completed"}
  /\ req \in [Requests -> Request]
  /\ faults \in 0..MaxFaults

BillingInit ==
  /\ users = [u \in Users |-> [plan |-> "free", customer |-> None]]
  /\ members = {} /\ joined = {}
  /\ owner = [c \in Customers |-> None]
  /\ sessions = {}
  /\ subs = [s \in Subscriptions |->
               [customer |-> None, plan |-> "free", status |-> "none", lapsed |-> FALSE]]
  /\ events = {} /\ retrieving = {}
  /\ req = [r \in Requests |-> Idle]
  /\ faults = 0
-----------------------------------------------------------------------------
(* POST /billing/checkout. *)

\* createCheckoutSession up to its first await, which the customer decides.
\* Bound: no checkout once every subscription of the instance is bought.
Checkout(r, u, p) ==
  /\ req[r] = Idle
  /\ \E s \in Subscriptions : subs[s].status = "none"
  /\ req' = [req EXCEPT ![r] =
       [at |-> IF users[u].customer = None THEN "customer" ELSE "session",
        user |-> u, customer |-> users[u].customer, read |-> p, answer |-> p]]
  /\ UNCHANGED <<tableVars, stripeVars, events, retrieving, faults>>

\* Stripe: an id that no customer has yet.
NewCustomer == CHOOSE c \in Customers : owner[c] = None

\* Stripe has answered customers.create; the id is stored.  Requests of one
\* user that have read no customer each get one of their own.
CreateCustomer(r) ==
  /\ req[r].at = "customer"
  /\ \E c \in Customers : owner[c] = None
  /\ owner' = [owner EXCEPT ![NewCustomer] = req[r].user]
  /\ users' = [users EXCEPT ![req[r].user].customer = NewCustomer]
  /\ req' = [req EXCEPT ![r].at = "session", ![r].customer = NewCustomer]
  /\ UNCHANGED <<members, joined, sessions, subs, events, retrieving, faults>>

FaultyOpenSession(r) ==  \* grants the plan with the URL of the checkout page
  /\ req[r].at = "session"
  /\ users' = [users EXCEPT ![req[r].user].plan = req[r].read]
  /\ req' = [req EXCEPT ![r] = Idle]
  /\ UNCHANGED <<members, joined, stripeVars, events, retrieving, faults>>

\* Stripe has answered checkout.sessions.create; the response has the URL.
OpenSession(r) ==
  /\ req[r].at = "session"
  /\ sessions' = sessions \cup
       {[user |-> req[r].user, customer |-> req[r].customer, plan |-> req[r].read]}
  /\ req' = [req EXCEPT ![r] = Idle]
  /\ UNCHANGED <<tableVars, owner, subs, events, retrieving, faults>>
-----------------------------------------------------------------------------
(* Stripe, and what the user does there (the page of /billing/portal        *)
(* included).                                                              *)

SubEvent(s, active) == [type |-> "subscription", sub |-> s, active |-> active]
Completed(s) == [type |-> "completed", sub |-> s, active |-> TRUE]
Deleted(s) == [type |-> "deleted", sub |-> s, active |-> FALSE]

ServerVars == <<tableVars, retrieving, req, faults>>

Pay(x, s) ==
  /\ subs[s].status = "none"
  /\ sessions' = sessions \ {x}
  /\ subs' = [subs EXCEPT ![s] = [customer |-> x.customer, plan |-> x.plan,
                                  status |-> "active", lapsed |-> FALSE]]
  /\ events' = events \cup {Completed(s), SubEvent(s, TRUE)}
  /\ UNCHANGED <<ServerVars, owner>>

Lapse(s) ==
  /\ subs[s].status = "active" /\ ~subs[s].lapsed
  /\ subs' = [subs EXCEPT ![s].status = "past_due", ![s].lapsed = TRUE]
  /\ events' = events \cup {SubEvent(s, FALSE)}
  /\ UNCHANGED <<ServerVars, owner, sessions>>

Recover(s) ==
  /\ subs[s].status = "past_due"
  /\ subs' = [subs EXCEPT ![s].status = "active"]
  /\ events' = events \cup {SubEvent(s, TRUE)}
  /\ UNCHANGED <<ServerVars, owner, sessions>>

Cancel(s) ==
  /\ subs[s].status \in {"active", "past_due"}
  /\ subs' = [subs EXCEPT ![s].status = "canceled"]
  /\ events' = events \cup {Deleted(s)}
  /\ UNCHANGED <<ServerVars, owner, sessions>>
-----------------------------------------------------------------------------
(* POST /webhooks/stripe. *)

\* UPDATE users SET plan = ? WHERE stripe_customer_id = ?
SetPlanOf(c, p) ==
  [u \in Users |-> IF users[u].customer = c THEN [users[u] EXCEPT !.plan = p] ELSE users[u]]

\* The response: Stripe may fail to receive it, and delivers again.
Acknowledge(e) ==
  \/ events' = events \ {e} /\ faults' = faults
  \/ faults < MaxFaults /\ events' = events /\ faults' = faults + 1

\* customer.subscription.created and .updated, .deleted.
SubscriptionChanged(e) ==
  /\ e.type # "completed"
  /\ users' = CASE e.type = "deleted" -> SetPlanOf(subs[e.sub].customer, "free")
                [] e.type = "subscription" /\ e.active ->
                     SetPlanOf(subs[e.sub].customer, subs[e.sub].plan)
                [] OTHER -> users
  /\ Acknowledge(e)
  /\ UNCHANGED <<members, joined, stripeVars, retrieving, req>>

\* checkout.session.completed up to subscriptions.retrieve.
SessionCompleted(e) ==
  /\ e.type = "completed"
  /\ retrieving' = retrieving \cup {e}
  /\ UNCHANGED <<tableVars, stripeVars, events, req, faults>>

FaultyStoreCompleted(e) ==  \* stores the customer only
  LET c == subs[e.sub].customer IN
  /\ users' = [users EXCEPT ![owner[c]].customer = c]
  /\ retrieving' = retrieving \ {e}
  /\ Acknowledge(e)
  /\ UNCHANGED <<members, joined, stripeVars, req>>

\* ... and after it.  The price is that of the subscription, whatever has
\* become of the subscription meanwhile.
StoreCompleted(e) ==
  LET c == subs[e.sub].customer IN
  /\ users' = [users EXCEPT ![owner[c]] = [plan |-> subs[e.sub].plan, customer |-> c]]
  /\ retrieving' = retrieving \ {e}
  /\ Acknowledge(e)
  /\ UNCHANGED <<members, joined, stripeVars, req>>
-----------------------------------------------------------------------------
(* GET /billing/status. *)

Status(r, u) ==
  /\ req[r] = Idle
  /\ users[u].customer # None
  /\ req' = [req EXCEPT ![r] = [at |-> "list", user |-> u, customer |-> users[u].customer,
                                read |-> users[u].plan, answer |-> "free"]]
  /\ UNCHANGED <<tableVars, stripeVars, events, retrieving, faults>>

\* Stripe answers subscriptions.list (active ones, limit 1).
ListActive(r) ==
  LET active == {s \in Subscriptions : /\ subs[s].customer = req[r].customer
                                       /\ subs[s].status = "active"} IN
  /\ req[r].at = "list"
  /\ \E p \in (IF active = {} THEN {"free"} ELSE {subs[s].plan : s \in active}) :
       req' = [req EXCEPT ![r].at = "listed", ![r].answer = p]
  /\ UNCHANGED <<tableVars, stripeVars, events, retrieving, faults>>

FaultySyncPlan(r) ==  \* without if (plan !== user.plan)
  /\ req[r].at = "listed"
  /\ users' = [users EXCEPT ![req[r].user].plan = req[r].answer]
  /\ req' = [req EXCEPT ![r] = Idle]
  /\ UNCHANGED <<members, joined, stripeVars, events, retrieving, faults>>

\* syncPlanFromStripe after the await: the plan it compares with is the one
\* read before.
SyncPlan(r) ==
  /\ req[r].at = "listed"
  /\ users' = IF req[r].answer = req[r].read THEN users
              ELSE [users EXCEPT ![req[r].user].plan = req[r].answer]
  /\ req' = [req EXCEPT ![r] = Idle]
  /\ UNCHANGED <<members, joined, stripeVars, events, retrieving, faults>>
-----------------------------------------------------------------------------
(* Organisations. *)

AddUserToOrg(u) ==
  /\ u \notin members
  /\ users' = [users EXCEPT ![u].plan = "team"]
  /\ members' = members \cup {u}
  /\ joined' = joined \cup {u}
  /\ UNCHANGED <<stripeVars, events, retrieving, req, faults>>

RemoveUserFromTeam(u) ==
  /\ u \in members
  /\ users' = [users EXCEPT ![u].plan = "free"]
  /\ members' = members \ {u}
  /\ UNCHANGED <<joined, stripeVars, events, retrieving, req, faults>>

Die ==
  /\ faults < MaxFaults
  /\ faults' = faults + 1
  /\ retrieving' = {}
  /\ req' = [r \in Requests |-> Idle]
  /\ UNCHANGED <<tableVars, stripeVars, events>>
-----------------------------------------------------------------------------
Answer(r) == CreateCustomer(r) \/ OpenSession(r) \/ ListActive(r) \/ SyncPlan(r)

Deliver(e) == SubscriptionChanged(e) \/ SessionCompleted(e)

AtStripe(s) ==
  \/ \E x \in sessions : Pay(x, s)
  \/ Lapse(s) \/ Recover(s) \/ Cancel(s)

BillingNext ==
  \/ \E r \in Requests, u \in Users : Status(r, u) \/ \E p \in Offered : Checkout(r, u, p)
  \/ \E r \in Requests : Answer(r)
  \/ \E s \in Subscriptions : AtStripe(s)
  \/ \E e \in events : Deliver(e)
  \/ \E e \in retrieving : StoreCompleted(e)
  \/ \E u \in Users : AddUserToOrg(u) \/ RemoveUserFromTeam(u)
  \/ Die

BillingSpec == BillingInit /\ [][BillingNext]_billingVars

\* Stripe answers, and delivers an event until it is acknowledged.
FairBillingSpec ==
  /\ BillingSpec
  /\ \A r \in Requests : WF_billingVars(Answer(r))
  /\ \A e \in Event : WF_billingVars(e \in events /\ Deliver(e))
  /\ \A e \in Event : WF_billingVars(e \in retrieving /\ StoreCompleted(e))
-----------------------------------------------------------------------------
\* Every subscription the user has ever bought.
Bought(u) == {s \in Subscriptions :
                /\ subs[s].status # "none"
                /\ owner[subs[s].customer] = u}

\* Nobody has a plan that neither an own payment nor an own membership ever
\* justified, however requests and events overtake each other: no plan goes
\* to another customer, and none is granted before the payment.
PlanIsEarned ==
  \A u \in Users :
    \/ users[u].plan = "free"
    \/ users[u].plan = "team" /\ u \in joined
    \/ \E s \in Bought(u) : subs[s].plan = users[u].plan

\* The user has one customer and one subscription, active all along, and was
\* never in an organisation.
Steady(u) ==
  /\ u \notin joined
  /\ \E c \in Customers : {d \in Customers : owner[d] = u} = {c}
  /\ \E s \in Subscriptions : Bought(u) = {s} /\ subs[s].status = "active" /\ ~subs[s].lapsed

\* A plan that is paid for and not there yet is still on its way: neither of
\* the two events that bring it has been acknowledged.
PaidIsAnnounced ==
  \A u \in Users : Steady(u) => \A s \in Bought(u) :
    users[u].plan = subs[s].plan \/ {Completed(s), SubEvent(s, TRUE)} \subseteq events

\* The accounts are in order: the types, and no paid plan is forgotten.
AccountsInOrder == BillingTypeOK /\ PaidIsAnnounced

\* And once it is there it stays, whatever answer of a status request is late
\* and whatever event is delivered again.
ServedStays ==
  [][\A u \in Users : Steady(u) /\ Steady(u)' =>
       \A s \in Bought(u) : users[u].plan = subs[s].plan => users'[u].plan = subs[s].plan
    ]_billingVars

\* Who pays for one subscription and keeps it comes to have its plan and keeps
\* it, though every status request may compare with a plan read long ago and
\* the events come in any order and repeatedly.
PaidIsServed ==
  \A u \in Users : <>[](Steady(u) => \A s \in Bought(u) : users[u].plan = subs[s].plan)
=============================================================================
