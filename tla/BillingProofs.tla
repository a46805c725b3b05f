---------------------------- MODULE BillingProofs ----------------------------
(***************************************************************************)
(* Proofs about Billing for any users, customers, subscriptions and        *)
(* requests: the types, that no plan is held unearned, and that a plan     *)
(* paid for and kept is announced until it is there, and then stays.       *)
(***************************************************************************)
EXTENDS Billing, TLAPS

\* What a justified plan needs beyond its definition: whatever the server
\* and Stripe hold in their hands names the customer's own user.
CustomersOwn ==
  \A u \in Users : users[u].customer # None => owner[users[u].customer] = u

SessionsOwn == \A x \in sessions : owner[x.customer] = x.user

SubsOwned ==
  \A s \in Subscriptions :
    subs[s].status # "none" => /\ subs[s].customer \in Customers
                               /\ owner[subs[s].customer] \in Users

EventsBought == \A e \in events : subs[e.sub].status # "none"

\* The plan p is justified for u.
Earned(u, p) ==
  \/ p = "free"
  \/ p = "team" /\ u \in joined
  \/ \E s \in Bought(u) : subs[s].plan = p

Held(r) ==
  /\ req[r].at \in {"customer", "session", "list", "listed"} => req[r].user \in Users
  /\ req[r].at \in {"session", "list", "listed"} =>
       /\ req[r].customer \in Customers
       /\ owner[req[r].customer] = req[r].user
  /\ req[r].at \in {"customer", "session"} => req[r].read \in Offered
  /\ req[r].at = "listed" => Earned(req[r].user, req[r].answer)

RequestsOwn == \A r \in Requests : Held(r)

PlansEarned == \A u \in Users : Earned(u, users[u].plan)

BillingInv ==
  /\ BillingTypeOK
  /\ CustomersOwn
  /\ SessionsOwn
  /\ SubsOwned
  /\ EventsBought
  /\ RequestsOwn
  /\ PlansEarned
-----------------------------------------------------------------------------
\* Storing a customer names one that no user had.
LEMMA CustomerIsNew ==
  ASSUME NEW r \in Requests, CreateCustomer(r)
  PROVE  \E c \in Customers :
           /\ owner[c] = None
           /\ owner' = [owner EXCEPT ![c] = req[r].user]
           /\ users' = [users EXCEPT ![req[r].user].customer = c]
           /\ req' = [req EXCEPT ![r].at = "session", ![r].customer = c]
  <1>1. NewCustomer \in Customers /\ owner[NewCustomer] = None
    BY DEF CreateCustomer, NewCustomer
  <1> QED
    BY <1>1 DEF CreateCustomer

\* No step takes back a payment, a membership once held, or the owner of a
\* customer: what justified a plan goes on justifying it.
Remembers ==
  /\ joined \subseteq joined'
  /\ \A c \in Customers : owner[c] # None => owner'[c] = owner[c]
  /\ \A s \in Subscriptions : subs[s].status # "none" =>
       /\ subs'[s].status # "none"
       /\ subs'[s].customer = subs[s].customer
       /\ subs'[s].plan = subs[s].plan

LEMMA StepsRemember ==
  ASSUME BillingTypeOK, [BillingNext]_billingVars
  PROVE  Remembers
  <1> USE NoneIsNoCustomer DEF BillingTypeOK
  <1>1. ASSUME NEW r \in Requests, NEW u \in Users, Status(r, u)
        PROVE  Remembers
    BY <1>1 DEF Remembers, Status, tableVars, stripeVars
  <1>2. ASSUME NEW r \in Requests, NEW u \in Users, NEW p \in Offered, Checkout(r, u, p)
        PROVE  Remembers
    BY <1>2 DEF Remembers, Checkout, tableVars, stripeVars
  <1>3. ASSUME NEW r \in Requests, CreateCustomer(r)
        PROVE  Remembers
    BY <1>3, CustomerIsNew DEF Remembers, CreateCustomer
  <1>4. ASSUME NEW r \in Requests, OpenSession(r) \/ ListActive(r) \/ SyncPlan(r)
        PROVE  Remembers
    BY <1>4 DEF Remembers, OpenSession, ListActive, SyncPlan, tableVars, stripeVars
  <1>5. ASSUME NEW s \in Subscriptions, AtStripe(s)
        PROVE  Remembers
    <2>1. UNCHANGED <<joined, owner>>
      BY <1>5 DEF AtStripe, Pay, Lapse, Recover, Cancel, ServerVars, tableVars
    <2>2. subs \in [Subscriptions -> Sub]
      OBVIOUS
    <2>3. ASSUME NEW x \in sessions, Pay(x, s)
          PROVE  Remembers
      BY <2>1, <2>2, <2>3 DEF Remembers, Pay
    <2>4. CASE Lapse(s)
      BY <2>1, <2>2, <2>4 DEF Remembers, Lapse, Sub
    <2>5. CASE Recover(s)
      BY <2>1, <2>2, <2>5 DEF Remembers, Recover, Sub
    <2>6. CASE Cancel(s)
      BY <2>1, <2>2, <2>6 DEF Remembers, Cancel, Sub
    <2> QED
      BY <1>5, <2>3, <2>4, <2>5, <2>6 DEF AtStripe
  <1>6. ASSUME NEW e \in events, Deliver(e)
        PROVE  Remembers
    BY <1>6 DEF Remembers, Deliver, SubscriptionChanged, SessionCompleted, tableVars, stripeVars
  <1>7. ASSUME NEW e \in retrieving, StoreCompleted(e)
        PROVE  Remembers
    BY <1>7 DEF Remembers, StoreCompleted, stripeVars
  <1>8. ASSUME NEW u \in Users, AddUserToOrg(u) \/ RemoveUserFromTeam(u)
        PROVE  Remembers
    BY <1>8 DEF Remembers, AddUserToOrg, RemoveUserFromTeam, stripeVars
  <1>9. CASE Die
    BY <1>9 DEF Remembers, Die, tableVars, stripeVars
  <1>10. CASE UNCHANGED billingVars
    BY <1>10 DEF Remembers, billingVars, tableVars, stripeVars
  <1> QED
    BY <1>1, <1>2, <1>3, <1>4, <1>5, <1>6, <1>7, <1>8, <1>9, <1>10 DEF BillingNext, Answer

LEMMA EarnedStays ==
  ASSUME BillingTypeOK, SubsOwned, Remembers,
         NEW u \in Users, NEW p, Earned(u, p)
  PROVE  Earned(u, p)'
  <1>1. ASSUME NEW s \in Bought(u)
        PROVE  s \in Bought(u)' /\ subs'[s].plan = subs[s].plan
    BY <1>1, NoneIsNoCustomer DEF Bought, SubsOwned, Remembers
  <1> QED
    BY <1>1 DEF Earned, Remembers

\* The types.
LEMMA TypesKept ==
  ASSUME BillingInv, [BillingNext]_billingVars
  PROVE  BillingTypeOK'
  <1> USE NoneIsNoCustomer, BillingBounds, OfferedPlans
  <1>0. BillingTypeOK
    BY DEF BillingInv
  <1>1. ASSUME NEW r \in Requests, NEW u \in Users, Status(r, u)
        PROVE  BillingTypeOK'
    <2>1. req' \in [Requests -> Request]
      BY <1>0, <1>1 DEF BillingTypeOK, Status, Request, Account, Plans
    <2> QED
      BY <1>0, <1>1, <2>1 DEF BillingTypeOK, Status, tableVars, stripeVars
  <1>2. ASSUME NEW r \in Requests, NEW u \in Users, NEW p \in Offered, Checkout(r, u, p)
        PROVE  BillingTypeOK'
    <2>1. req' \in [Requests -> Request]
      BY <1>0, <1>2 DEF BillingTypeOK, Checkout, Request, Account
    <2> QED
      BY <1>0, <1>2, <2>1 DEF BillingTypeOK, Checkout, tableVars, stripeVars
  <1>3. ASSUME NEW r \in Requests, CreateCustomer(r)
        PROVE  BillingTypeOK'
    <2>1. req[r].user \in Users
      BY <1>3 DEF BillingInv, RequestsOwn, Held, CreateCustomer
    <2>2. PICK c \in Customers :
            /\ owner' = [owner EXCEPT ![c] = req[r].user]
            /\ users' = [users EXCEPT ![req[r].user].customer = c]
            /\ req' = [req EXCEPT ![r].at = "session", ![r].customer = c]
      BY <1>3, CustomerIsNew
    <2>3. req' \in [Requests -> Request]
      BY <1>0, <2>2 DEF BillingTypeOK, Request
    <2>4. users' \in [Users -> Account]
      BY <1>0, <2>2 DEF BillingTypeOK, Account
    <2>5. owner' \in [Customers -> Users \cup {None}]
      BY <1>0, <2>1, <2>2 DEF BillingTypeOK
    <2> QED
      BY <1>0, <1>3, <2>3, <2>4, <2>5 DEF BillingTypeOK, CreateCustomer
  <1>4. ASSUME NEW r \in Requests, OpenSession(r)
        PROVE  BillingTypeOK'
    <2>1. /\ req[r].user \in Users /\ req[r].customer \in Customers
          /\ req[r].read \in Offered
      BY <1>4 DEF BillingInv, RequestsOwn, Held, OpenSession
    <2>2. req' \in [Requests -> Request]
      BY <1>0, <1>4 DEF BillingTypeOK, OpenSession, Request, Idle, Plans
    <2> QED
      BY <1>0, <1>4, <2>1, <2>2 DEF BillingTypeOK, OpenSession, tableVars
  <1>5. ASSUME NEW r \in Requests, ListActive(r)
        PROVE  BillingTypeOK'
    <2> DEFINE active == {s \in Subscriptions : /\ subs[s].customer = req[r].customer
                                              /\ subs[s].status = "active"}
               plans == IF active = {} THEN {"free"} ELSE {subs[s].plan : s \in active}
    <2>1. plans \subseteq Plans
      BY <1>0 DEF BillingTypeOK, Sub, Plans
    <2>2. PICK p \in Plans : req' = [req EXCEPT ![r].at = "listed", ![r].answer = p]
      <3>1. \E p \in plans : req' = [req EXCEPT ![r].at = "listed", ![r].answer = p]
        BY <1>5 DEF ListActive
      <3> HIDE DEF plans
      <3> QED
        BY <2>1, <3>1
    <2>3. [req[r] EXCEPT !.at = "listed", !.answer = p] \in Request
      BY <1>0 DEF BillingTypeOK, Request
    <2>4. req' \in [Requests -> Request]
      BY <1>0, <2>2, <2>3 DEF BillingTypeOK
    <2> QED
      BY <1>0, <1>5, <2>4 DEF BillingTypeOK, ListActive, tableVars, stripeVars
  <1>6. ASSUME NEW r \in Requests, SyncPlan(r)
        PROVE  BillingTypeOK'
    <2>1. req[r].user \in Users /\ req[r].answer \in Plans
      BY <1>0, <1>6 DEF BillingInv, RequestsOwn, Held, SyncPlan, BillingTypeOK, Request
    <2>2. req' \in [Requests -> Request]
      BY <1>0, <1>6 DEF BillingTypeOK, SyncPlan, Request, Idle, Plans
    <2>3. users' \in [Users -> Account]
      BY <1>0, <1>6, <2>1 DEF BillingTypeOK, SyncPlan, Account
    <2> QED
      BY <1>0, <1>6, <2>2, <2>3 DEF BillingTypeOK, SyncPlan, stripeVars
  <1>7. ASSUME NEW s \in Subscriptions, AtStripe(s)
        PROVE  BillingTypeOK'
    <2>1. /\ SubEvent(s, TRUE) \in Event /\ SubEvent(s, FALSE) \in Event
          /\ Completed(s) \in Event /\ Deleted(s) \in Event
      BY DEF SubEvent, Completed, Deleted, Event
    <2>2. UNCHANGED <<users, members, joined, retrieving, req, faults, owner>>
      BY <1>7 DEF AtStripe, Pay, Lapse, Recover, Cancel, ServerVars, tableVars
    <2>3. /\ events' \subseteq Event /\ events \subseteq events'
          /\ sessions' \subseteq sessions
      BY <1>0, <1>7, <2>1 DEF BillingTypeOK, AtStripe, Pay, Lapse, Recover, Cancel
    <2>4. subs' \in [Subscriptions -> Sub]
      <3>1. ASSUME NEW x \in sessions, Pay(x, s)
            PROVE  subs' \in [Subscriptions -> Sub]
        <4>1. x.customer \in Customers /\ x.plan \in Plans
          BY <1>0 DEF BillingTypeOK
        <4> QED
          BY <1>0, <3>1, <4>1 DEF BillingTypeOK, Pay, Sub
      <3>2. CASE Lapse(s)
        <4>1. [subs[s] EXCEPT !.status = "past_due", !.lapsed = TRUE] \in Sub
          BY <1>0 DEF BillingTypeOK, Sub
        <4> QED
          BY <1>0, <3>2, <4>1 DEF BillingTypeOK, Lapse
      <3>3. CASE Recover(s)
        BY <1>0, <3>3 DEF BillingTypeOK, Recover, Sub
      <3>4. CASE Cancel(s)
        BY <1>0, <3>4 DEF BillingTypeOK, Cancel, Sub
      <3> QED
        BY <1>7, <3>1, <3>2, <3>3, <3>4 DEF AtStripe
    <2> QED
      BY <1>0, <2>2, <2>3, <2>4 DEF BillingTypeOK
  <1>8. ASSUME NEW e \in events, SubscriptionChanged(e)
        PROVE  BillingTypeOK'
    <2>1. \A c : \A p \in Plans : SetPlanOf(c, p) \in [Users -> Account]
      BY <1>0 DEF BillingTypeOK, SetPlanOf, Account
    <2>2. subs[e.sub].plan \in Plans /\ e \notin retrieving
      BY <1>0, <1>8 DEF BillingTypeOK, Sub, Event, SubscriptionChanged
    <2>3. users' \in [Users -> Account]
      BY <1>0, <1>8, <2>1, <2>2 DEF BillingTypeOK, SubscriptionChanged, Plans
    <2> QED
      BY <1>0, <1>8, <2>2, <2>3 DEF BillingTypeOK, SubscriptionChanged, Acknowledge, stripeVars
  <1>9. ASSUME NEW e \in events, SessionCompleted(e)
        PROVE  BillingTypeOK'
    BY <1>0, <1>9 DEF BillingTypeOK, SessionCompleted, tableVars, stripeVars
  <1>10. ASSUME NEW e \in retrieving, StoreCompleted(e)
         PROVE  BillingTypeOK'
    <2>1. /\ owner[subs[e.sub].customer] \in Users
          /\ subs[e.sub].customer \in Customers
          /\ subs[e.sub].plan \in Plans
      BY <1>0, <1>10 DEF BillingInv, BillingTypeOK, EventsBought, SubsOwned, Sub, Event
    <2>2. users' \in [Users -> Account]
      BY <1>0, <1>10, <2>1 DEF BillingTypeOK, StoreCompleted, Account
    <2> QED
      BY <1>0, <1>10, <2>2 DEF BillingTypeOK, StoreCompleted, Acknowledge, stripeVars
  <1>11. ASSUME NEW u \in Users, AddUserToOrg(u) \/ RemoveUserFromTeam(u)
         PROVE  BillingTypeOK'
    <2>1. users' \in [Users -> Account]
      BY <1>0, <1>11 DEF BillingTypeOK, AddUserToOrg, RemoveUserFromTeam, Account, Plans
    <2> QED
      BY <1>0, <1>11, <2>1 DEF BillingTypeOK, AddUserToOrg, RemoveUserFromTeam, stripeVars
  <1>12. CASE Die
    BY <1>0, <1>12 DEF BillingTypeOK, Die, Idle, Request, Plans, tableVars, stripeVars
  <1>13. CASE UNCHANGED billingVars
    BY <1>0, <1>13 DEF BillingTypeOK, billingVars, tableVars, stripeVars
  <1> QED
    BY <1>1, <1>2, <1>3, <1>4, <1>5, <1>6, <1>7, <1>8, <1>9, <1>10, <1>11, <1>12, <1>13
    DEF BillingNext, Answer, Deliver

\* What the server and Stripe hold names the customer's own user.
LEMMA OwnershipKept ==
  ASSUME BillingInv, [BillingNext]_billingVars, BillingTypeOK', Remembers
  PROVE  CustomersOwn' /\ SessionsOwn' /\ SubsOwned' /\ EventsBought'
  <1> USE NoneIsNoCustomer
  <1>0. BillingTypeOK /\ CustomersOwn /\ SessionsOwn /\ SubsOwned /\ EventsBought /\ RequestsOwn
    BY DEF BillingInv
  <1>2. CustomersOwn'
    <2>1. ASSUME NEW u \in Users, users'[u].customer = users[u].customer
          PROVE  users'[u].customer # None => owner'[users'[u].customer] = u
      BY <1>0, <2>1 DEF CustomersOwn, Remembers, BillingTypeOK, Account
    <2>2. ASSUME NEW r \in Requests, CreateCustomer(r)
          PROVE  CustomersOwn'
      <3>1. PICK c \in Customers :
              /\ owner' = [owner EXCEPT ![c] = req[r].user]
              /\ users' = [users EXCEPT ![req[r].user].customer = c]
        BY <2>2, CustomerIsNew
      <3>2. owner'[c] = req[r].user /\ users'[req[r].user].customer = c
        BY <1>0, <2>2, <3>1 DEF BillingTypeOK, RequestsOwn, Held, CreateCustomer, Account
      <3>3. \A u \in Users \ {req[r].user} : users'[u].customer = users[u].customer
        BY <1>0, <3>1 DEF BillingTypeOK
      <3> QED
        BY <2>1, <3>2, <3>3 DEF CustomersOwn
    <2>3. ASSUME NEW e \in retrieving, StoreCompleted(e)
          PROVE  CustomersOwn'
      <3> DEFINE c == subs[e.sub].customer
      <3>1. /\ c \in Customers /\ owner[c] \in Users /\ owner'[c] = owner[c]
            /\ users' = [users EXCEPT ![owner[c]] = [plan |-> subs[e.sub].plan, customer |-> c]]
        BY <1>0, <2>3 DEF BillingTypeOK, EventsBought, SubsOwned, Event, StoreCompleted, stripeVars
      <3>2. \A u \in Users \ {owner[c]} : users'[u].customer = users[u].customer
        BY <1>0, <3>1 DEF BillingTypeOK
      <3>3. users'[owner[c]].customer = c
        BY <1>0, <3>1 DEF BillingTypeOK
      <3> QED
        BY <2>1, <3>1, <3>2, <3>3 DEF CustomersOwn
    <2>4. ASSUME \A u \in Users : users'[u].customer = users[u].customer
          PROVE  CustomersOwn'
      BY <2>1, <2>4 DEF CustomersOwn
    <2>5. ASSUME NEW e \in events, SubscriptionChanged(e)
          PROVE  CustomersOwn'
      <3>1. \A c, p : \A u \in Users : SetPlanOf(c, p)[u].customer = users[u].customer
        BY <1>0 DEF BillingTypeOK, Account, SetPlanOf
      <3> QED
        BY <2>4, <2>5, <3>1 DEF SubscriptionChanged
    <2>6. ASSUME NEW r \in Requests, SyncPlan(r)
          PROVE  CustomersOwn'
      BY <1>0, <2>4, <2>6 DEF BillingTypeOK, Account, SyncPlan
    <2>7. ASSUME NEW u \in Users, AddUserToOrg(u) \/ RemoveUserFromTeam(u)
          PROVE  CustomersOwn'
      BY <1>0, <2>4, <2>7 DEF BillingTypeOK, Account, AddUserToOrg, RemoveUserFromTeam
    <2>8. CASE users' = users
      BY <2>4, <2>8
    <2> QED
      BY <2>2, <2>3, <2>5, <2>6, <2>7, <2>8
      DEF BillingNext, Status, Checkout, Answer, OpenSession, ListActive, AtStripe, Pay, Lapse,
          Recover, Cancel, ServerVars, Deliver, SessionCompleted, Die, billingVars, tableVars
  <1>3. SessionsOwn'
    <2>1. ASSUME sessions' \subseteq sessions
          PROVE  SessionsOwn'
      BY <1>0, <2>1 DEF SessionsOwn, Remembers, BillingTypeOK
    <2>2. ASSUME NEW r \in Requests, OpenSession(r)
          PROVE  SessionsOwn'
      BY <1>0, <2>2 DEF SessionsOwn, OpenSession, RequestsOwn, Held
    <2> QED
      BY <2>1, <2>2
      DEF BillingNext, Status, Checkout, Answer, CreateCustomer, ListActive, SyncPlan, AtStripe,
          Pay, Lapse, Recover, Cancel, Deliver, SubscriptionChanged, SessionCompleted,
          StoreCompleted, AddUserToOrg, RemoveUserFromTeam, Die, billingVars, stripeVars
  <1>4. SubsOwned' /\ EventsBought'
    <2>1. ASSUME UNCHANGED subs, events' \subseteq events
          PROVE  SubsOwned' /\ EventsBought'
      BY <1>0, <2>1 DEF SubsOwned, EventsBought, Remembers
    <2>2. ASSUME NEW s \in Subscriptions, AtStripe(s)
          PROVE  SubsOwned' /\ EventsBought'
      <3>1. \A t \in Subscriptions \ {s} : subs'[t] = subs[t]
        BY <1>0, <2>2 DEF BillingTypeOK, AtStripe, Pay, Lapse, Recover, Cancel
      <3>2. owner' = owner
        BY <2>2 DEF AtStripe, Pay, Lapse, Recover, Cancel
      <3>3. /\ subs'[s].status # "none"
            /\ subs'[s].customer \in Customers /\ owner[subs'[s].customer] \in Users
        <4>1. ASSUME NEW x \in sessions, Pay(x, s)
              PROVE  /\ subs'[s].status # "none"
                     /\ subs'[s].customer \in Customers /\ owner[subs'[s].customer] \in Users
          BY <1>0, <4>1 DEF Pay, BillingTypeOK, SessionsOwn
        <4>2. ASSUME subs[s].status # "none", subs'[s].customer = subs[s].customer,
                     subs'[s].status # "none"
              PROVE  /\ subs'[s].status # "none"
                     /\ subs'[s].customer \in Customers /\ owner[subs'[s].customer] \in Users
          BY <1>0, <4>2 DEF SubsOwned
        <4>3. CASE Lapse(s) \/ Recover(s) \/ Cancel(s)
          <5>1. subs[s].status # "none"
            BY <4>3 DEF Lapse, Recover, Cancel
          <5> QED
            BY <4>2, <5>1 DEF Remembers
        <4> QED
          BY <2>2, <4>1, <4>3 DEF AtStripe
      <3>4. SubsOwned'
        BY <1>0, <3>1, <3>2, <3>3 DEF SubsOwned
      <3>5. \A e \in events' : e \in events \/ e.sub = s
        BY <2>2 DEF AtStripe, Pay, Lapse, Recover, Cancel, SubEvent, Completed, Deleted
      <3>6. EventsBought'
        BY <1>0, <3>3, <3>5 DEF EventsBought, Remembers, BillingTypeOK, Event
      <3> QED
        BY <3>4, <3>6
    <2>5. (UNCHANGED subs /\ events' \subseteq events) \/ \E s \in Subscriptions : AtStripe(s)
      BY DEF BillingNext, Status, Checkout, Answer, OpenSession, ListActive, SyncPlan,
         CreateCustomer, Deliver, SubscriptionChanged, SessionCompleted, Acknowledge,
         StoreCompleted, AddUserToOrg, RemoveUserFromTeam, Die, billingVars, stripeVars
    <2> QED
      BY <2>1, <2>2, <2>5
  <1> QED
    BY <1>2, <1>3, <1>4

\* A request that nobody touches keeps what it holds justified.
LEMMA HeldStays ==
  ASSUME BillingInv, Remembers, NEW r \in Requests, req'[r] = req[r]
  PROVE  Held(r)'
  <1>1. BillingTypeOK /\ SubsOwned /\ RequestsOwn
    BY DEF BillingInv
  <1>2. ASSUME req[r].at = "listed"
        PROVE  Earned(req[r].user, req[r].answer)'
    <2>1. PICK u \in Users, p \in Plans :
            u = req[r].user /\ p = req[r].answer /\ Earned(u, p)
      BY <1>1, <1>2 DEF RequestsOwn, Held, BillingTypeOK, Request
    <2>2. Earned(u, p)'
      BY <1>1, <2>1, EarnedStays
    <2>3. u = req'[r].user /\ p = req'[r].answer
      BY <2>1
    <2> QED
      BY <2>2, <2>3 DEF Earned, Bought
  <1> QED
    BY <1>1, <1>2, NoneIsNoCustomer DEF RequestsOwn, Held, Remembers

LEMMA RequestsKept ==
  ASSUME BillingInv, [BillingNext]_billingVars, BillingTypeOK', Remembers
  PROVE  RequestsOwn'
  <1> USE NoneIsNoCustomer
  <1>0. BillingTypeOK /\ CustomersOwn /\ SubsOwned /\ RequestsOwn
    BY DEF BillingInv
  <1>1. ASSUME NEW r \in Requests, req'[r] = req[r]
        PROVE  Held(r)'
    BY <1>1, HeldStays
  <1>2. ASSUME NEW r \in Requests, req'[r] = Idle
        PROVE  Held(r)'
    BY <1>2 DEF Idle, Held
  <1>3. ASSUME NEW r \in Requests, \A q \in Requests \ {r} : req'[q] = req[q], Held(r)'
        PROVE  RequestsOwn'
    <2>1. \A q \in Requests : Held(q)'
      BY <1>1, <1>3
    <2> QED
      BY <2>1 DEF Held, RequestsOwn
  <1>4. ASSUME NEW r \in Requests, NEW u \in Users, Status(r, u)
        PROVE  RequestsOwn'
    <2>1. Held(r)'
      <3>1. /\ users[u].customer \in Customers /\ owner[users[u].customer] = u
            /\ owner' = owner
        BY <1>0, <1>4 DEF Status, CustomersOwn, BillingTypeOK, Account, stripeVars
      <3>2. req'[r].at = "list" /\ req'[r].user = u /\ req'[r].customer = users[u].customer
        BY <1>0, <1>4 DEF Status, BillingTypeOK
      <3> QED
        BY <3>1, <3>2 DEF Held
    <2> QED
      BY <1>0, <1>3, <1>4, <2>1 DEF Status, BillingTypeOK
  <1>5. ASSUME NEW r \in Requests, NEW u \in Users, NEW p \in Offered, Checkout(r, u, p)
        PROVE  RequestsOwn'
    <2>1. Held(r)'
      <3>1. owner' = owner
        BY <1>5 DEF Checkout, stripeVars
      <3>2. /\ req'[r].at = IF users[u].customer = None THEN "customer" ELSE "session"
            /\ req'[r].user = u /\ req'[r].customer = users[u].customer /\ req'[r].read = p
        BY <1>0, <1>5 DEF Checkout, BillingTypeOK
      <3>3. users[u].customer # None =>
              users[u].customer \in Customers /\ owner[users[u].customer] = u
        BY <1>0 DEF CustomersOwn, BillingTypeOK, Account
      <3> QED
        BY <3>1, <3>2, <3>3 DEF Held
    <2> QED
      BY <1>0, <1>3, <1>5, <2>1 DEF Checkout, BillingTypeOK
  <1>6. ASSUME NEW r \in Requests, CreateCustomer(r)
        PROVE  RequestsOwn'
    <2>1. PICK c \in Customers :
            /\ owner' = [owner EXCEPT ![c] = req[r].user]
            /\ req' = [req EXCEPT ![r].at = "session", ![r].customer = c]
      BY <1>6, CustomerIsNew
    <2>2. /\ req'[r].at = "session" /\ req'[r].customer = c
          /\ req'[r].user = req[r].user /\ req'[r].read = req[r].read
          /\ owner'[c] = req[r].user
      BY <1>0, <2>1 DEF BillingTypeOK, Request
    <2>3. Held(r)'
      BY <1>0, <1>6, <2>2 DEF Held, RequestsOwn, CreateCustomer
    <2> QED
      BY <1>0, <1>3, <2>1, <2>3 DEF BillingTypeOK
  <1>7. ASSUME NEW r \in Requests, OpenSession(r) \/ SyncPlan(r)
        PROVE  RequestsOwn'
    BY <1>0, <1>2, <1>3, <1>7 DEF OpenSession, SyncPlan, BillingTypeOK
  <1>8. ASSUME NEW r \in Requests, ListActive(r)
        PROVE  RequestsOwn'
    <2> DEFINE active == {s \in Subscriptions : /\ subs[s].customer = req[r].customer
                                              /\ subs[s].status = "active"}
               plans == IF active = {} THEN {"free"} ELSE {subs[s].plan : s \in active}
    <2>1. PICK p \in plans : req' = [req EXCEPT ![r].at = "listed", ![r].answer = p]
      BY <1>8 DEF ListActive
    <2>2. /\ req[r].user \in Users /\ req[r].customer \in Customers
          /\ owner[req[r].customer] = req[r].user /\ UNCHANGED <<owner, subs, joined>>
      BY <1>0, <1>8 DEF RequestsOwn, Held, ListActive, stripeVars, tableVars
    <2>3. \A s \in active : s \in Bought(req[r].user)
      BY <2>2 DEF Bought
    <2>4. p = "free" \/ \E s \in active : subs[s].plan = p
      BY <2>1
    <2> HIDE DEF plans
    <2>5. Earned(req[r].user, p)
      BY <2>3, <2>4 DEF Earned
    <2>6. /\ req'[r].at = "listed" /\ req'[r].answer = p
          /\ req'[r].customer = req[r].customer /\ req'[r].user = req[r].user
      BY <1>0, <2>1 DEF BillingTypeOK, Request
    <2>7. Held(r)'
      BY <2>2, <2>5, <2>6 DEF Held, Earned, Bought
    <2> QED
      BY <1>0, <1>3, <2>1, <2>7 DEF BillingTypeOK
  <1>9. CASE Die
    BY <1>2, <1>9 DEF Die, Held, RequestsOwn
  <1>10. CASE req' = req
    BY <1>1, <1>10 DEF Held, RequestsOwn
  <1> QED
    BY <1>4, <1>5, <1>6, <1>7, <1>8, <1>9, <1>10
    DEF BillingNext, Answer, AtStripe, Pay, Lapse, Recover, Cancel, ServerVars, Deliver,
        SubscriptionChanged, SessionCompleted, StoreCompleted, AddUserToOrg,
        RemoveUserFromTeam, billingVars

LEMMA PlansKept ==
  ASSUME BillingInv, [BillingNext]_billingVars, BillingTypeOK', Remembers
  PROVE  PlansEarned'
  <1> USE NoneIsNoCustomer
  <1>0. /\ BillingTypeOK /\ CustomersOwn /\ SubsOwned /\ EventsBought
        /\ RequestsOwn /\ PlansEarned
    BY DEF BillingInv
  <1>1. ASSUME NEW u \in Users, users'[u].plan = users[u].plan
        PROVE  Earned(u, users[u].plan)'
    BY <1>0, <1>1, EarnedStays DEF PlansEarned
  <1>2. ASSUME NEW u \in Users, NEW s \in Subscriptions,
               subs[s].status # "none", owner[subs[s].customer] = u,
               users'[u].plan = subs[s].plan
        PROVE  Earned(u, users[u].plan)'
    BY <1>0, <1>2 DEF Earned, Bought, Remembers, SubsOwned
  <1>3. ASSUME NEW e \in events, SubscriptionChanged(e)
        PROVE  PlansEarned'
    <2>1. e.sub \in Subscriptions /\ subs[e.sub].status # "none"
      BY <1>0 DEF BillingTypeOK, Event, EventsBought
    <2>2. ASSUME NEW u \in Users
          PROVE  Earned(u, users[u].plan)'
      <3> DEFINE c == subs[e.sub].customer
      <3>1. CASE users'[u].plan = users[u].plan
        BY <1>1, <3>1
      <3>2. CASE users'[u].plan = "free"
        BY <3>2 DEF Earned
      <3>3. CASE users[u].customer = c /\ users'[u].plan = subs[e.sub].plan
        <4>1. owner[c] = u
          BY <1>0, <2>1, <3>3 DEF CustomersOwn, SubsOwned
        <4> QED
          BY <1>2, <2>1, <3>3, <4>1
      <3>4. \A p : SetPlanOf(c, p)[u].plan = p \/ SetPlanOf(c, p)[u] = users[u]
        BY <1>0 DEF BillingTypeOK, Account, SetPlanOf
      <3>5. \A p : users[u].customer # c => SetPlanOf(c, p)[u] = users[u]
        BY DEF SetPlanOf
      <3> QED
        BY <1>3, <3>1, <3>2, <3>3, <3>4, <3>5 DEF SubscriptionChanged
    <2> QED
      BY <2>2 DEF PlansEarned
  <1>4. ASSUME NEW e \in retrieving, StoreCompleted(e)
        PROVE  PlansEarned'
    <2> DEFINE c == subs[e.sub].customer
    <2>1. /\ e.sub \in Subscriptions /\ subs[e.sub].status # "none"
          /\ c \in Customers /\ owner[c] \in Users
      BY <1>0 DEF BillingTypeOK, Event, EventsBought, SubsOwned
    <2>2. /\ users'[owner[c]].plan = subs[e.sub].plan
          /\ \A u \in Users \ {owner[c]} : users'[u] = users[u]
      BY <1>0, <1>4, <2>1 DEF BillingTypeOK, StoreCompleted
    <2> QED
      BY <1>1, <1>2, <2>1, <2>2 DEF PlansEarned
  <1>5. ASSUME NEW r \in Requests, SyncPlan(r)
        PROVE  PlansEarned'
    <2>1. req[r].user \in Users /\ Earned(req[r].user, req[r].answer)
      BY <1>0, <1>5 DEF RequestsOwn, Held, SyncPlan
    <2>2. /\ \A u \in Users \ {req[r].user} : users'[u].plan = users[u].plan
          /\ \/ users'[req[r].user].plan = users[req[r].user].plan
             \/ users'[req[r].user].plan = req[r].answer
      BY <1>0, <1>5, <2>1 DEF BillingTypeOK, Account, SyncPlan
    <2>3. PICK u \in Users : u = req[r].user
      BY <2>1
    <2>4. ASSUME users'[u].plan = req[r].answer
          PROVE  Earned(u, users[u].plan)'
      BY <1>5, <2>1, <2>3, <2>4 DEF SyncPlan, stripeVars, Earned, Bought
    <2>5. \A v \in Users : Earned(v, users[v].plan)'
      BY <1>1, <2>2, <2>3, <2>4
    <2> QED
      BY <2>5 DEF PlansEarned
  <1>6. ASSUME NEW r \in Requests, CreateCustomer(r)
        PROVE  PlansEarned'
    <2>1. \A u \in Users : users'[u].plan = users[u].plan
      BY <1>0, <1>6 DEF BillingTypeOK, Account, CreateCustomer
    <2> QED
      BY <1>1, <2>1 DEF PlansEarned
  <1>7. ASSUME NEW u \in Users, AddUserToOrg(u)
        PROVE  PlansEarned'
    <2>1. /\ users'[u].plan = "team" /\ u \in joined'
          /\ \A v \in Users \ {u} : users'[v].plan = users[v].plan
      BY <1>0, <1>7 DEF BillingTypeOK, Account, AddUserToOrg
    <2> QED
      BY <1>1, <2>1 DEF PlansEarned, Earned
  <1>8. ASSUME NEW u \in Users, RemoveUserFromTeam(u)
        PROVE  PlansEarned'
    <2>1. /\ users'[u].plan = "free"
          /\ \A v \in Users \ {u} : users'[v].plan = users[v].plan
      BY <1>0, <1>8 DEF BillingTypeOK, Account, RemoveUserFromTeam
    <2> QED
      BY <1>1, <2>1 DEF PlansEarned, Earned
  <1>9. CASE users' = users
    BY <1>1, <1>9 DEF PlansEarned
  <1> QED
    BY <1>3, <1>4, <1>5, <1>6, <1>7, <1>8, <1>9
    DEF BillingNext, Status, Checkout, Answer, OpenSession, ListActive, AtStripe, Pay, Lapse,
        Recover, Cancel, ServerVars, Deliver, SessionCompleted, Die, billingVars, tableVars

LEMMA BillingInvStarts == BillingInit => BillingInv
  <1> USE NoneIsNoCustomer, BillingBounds DEF BillingInit
  <1>1. BillingInit => BillingTypeOK
    BY DEF BillingTypeOK, Account, Sub, Plans, Request, Idle
  <1>2. BillingInit => CustomersOwn /\ SessionsOwn /\ SubsOwned /\ EventsBought
    BY DEF CustomersOwn, SessionsOwn, SubsOwned, EventsBought
  <1>3. BillingInit => RequestsOwn /\ PlansEarned
    BY DEF RequestsOwn, Held, PlansEarned, Idle, Earned
  <1> QED
    BY <1>1, <1>2, <1>3 DEF BillingInv

LEMMA BillingInvKept == BillingInv /\ [BillingNext]_billingVars => BillingInv'
  <1> SUFFICES ASSUME BillingInv, [BillingNext]_billingVars
               PROVE  BillingInv'
    OBVIOUS
  <1>1. BillingTypeOK'
    BY TypesKept
  <1>2. Remembers
    BY StepsRemember DEF BillingInv
  <1> QED
    BY <1>1, <1>2, OwnershipKept, RequestsKept, PlansKept DEF BillingInv

\* Nobody ever holds a plan that no own payment or membership justified, with
\* any number of users, requests in flight and events on their way.
THEOREM PlansAreEarned == BillingSpec => []PlanIsEarned
  <1>1. BillingInv => PlanIsEarned
    BY DEF BillingInv, PlansEarned, Earned, PlanIsEarned
  <1> QED
    BY <1>1, BillingInvStarts, BillingInvKept, PTL DEF BillingSpec
-----------------------------------------------------------------------------
(* A subscription that is paid for and kept.                               *)
(*                                                                         *)
(* A status request may write a plan that is out of date only if the one   *)
(* it has read is out of date too: a user who had a plan had bought it, so *)
(* the answer of Stripe, which comes later, has that plan.                 *)

\* Steady(u), by the subscription.
SteadyOn(u, s) ==
  /\ u \notin joined
  /\ Bought(u) = {s}
  /\ subs[s].status = "active" /\ ~subs[s].lapsed
  /\ \A c \in Customers : owner[c] = u => c = subs[s].customer

\* What Stripe has on its way tells of what has happened.
EventsTrue ==
  /\ \A s \in Subscriptions : subs[s].status = "past_due" => subs[s].lapsed
  /\ \A e \in events :
       /\ e.type = "deleted" => subs[e.sub].status = "canceled"
       /\ e.type = "subscription" /\ ~e.active => subs[e.sub].lapsed

\* Who has a customer at Stripe has its id, or that of another.
CustomersStored ==
  \A c \in Customers : owner[c] # None => users[owner[c]].customer # None

ReadsEarned ==
  \A r \in Requests : req[r].at \in {"list", "listed"} /\ req[r].read # "free" =>
    req[r].user \in joined \/ Bought(req[r].user) # {}

AnswersCurrent ==
  \A r \in Requests, s \in Subscriptions :
    req[r].at = "listed" /\ req[r].read # "free" /\ SteadyOn(req[r].user, s) =>
      req[r].answer = subs[s].plan

Announcement(s) == {Completed(s), SubEvent(s, TRUE)}

Announced ==
  \A u \in Users, s \in Subscriptions : SteadyOn(u, s) =>
    users[u].plan = subs[s].plan \/ Announcement(s) \subseteq events

PaidInv == EventsTrue /\ CustomersStored /\ ReadsEarned /\ AnswersCurrent /\ Announced

LEMMA SteadyKnows ==
  ASSUME BillingInv, NEW u \in Users, Steady(u)
  PROVE  \E s \in Subscriptions : SteadyOn(u, s)
<1>1. PICK s \in Subscriptions : Bought(u) = {s} /\ subs[s].status = "active" /\ ~subs[s].lapsed
  BY DEF Steady
<1>2. owner[subs[s].customer] = u
  BY <1>1 DEF Bought
<1>3. subs[s].customer \in Customers
  BY <1>1 DEF BillingInv, SubsOwned
<1>4. PICK c \in Customers : {d \in Customers : owner[d] = u} = {c}
  BY DEF Steady
<1>5. \A d \in Customers : owner[d] = u => d = subs[s].customer
  BY <1>2, <1>3, <1>4
<1> QED
  BY <1>1, <1>5 DEF Steady, SteadyOn

\* The customer of the subscription is the one the user row has.
LEMMA SteadyCustomer ==
  ASSUME BillingInv, CustomersStored, NEW u \in Users, NEW s \in Subscriptions, SteadyOn(u, s)
  PROVE  /\ subs[s].customer \in Customers /\ owner[subs[s].customer] = u
         /\ users[u].customer = subs[s].customer
<1>1. subs[s].customer \in Customers /\ owner[subs[s].customer] = u
  BY DEF SteadyOn, Bought, BillingInv, SubsOwned
<1>2. users[u].customer \in Customers /\ owner[users[u].customer] = u
  BY <1>1, NoneIsNoCustomer DEF CustomersStored, CustomersOwn, BillingInv, BillingTypeOK, Account
<1> QED
  BY <1>1, <1>2 DEF SteadyOn

LEMMA BoughtGrows ==
  ASSUME SubsOwned, Remembers, NEW u \in Users
  PROVE  Bought(u) \subseteq Bought(u)'
BY NoneIsNoCustomer DEF Bought, SubsOwned, Remembers

\* What becomes of a subscription in a step.
LEMMA SubSteps ==
  ASSUME BillingTypeOK, [BillingNext]_billingVars, NEW s \in Subscriptions
  PROVE  \/ subs'[s] = subs[s]
         \/ subs[s].status = "none" /\ \E x \in sessions : Pay(x, s)
         \/ subs'[s].lapsed
         \/ subs'[s].status = "canceled"
         \/ subs[s].status = "past_due" /\ subs'[s].lapsed = subs[s].lapsed
<1>1. subs \in [Subscriptions -> Sub]
  BY DEF BillingTypeOK
<1>2. ASSUME NEW t \in Subscriptions, NEW x \in sessions, Pay(x, t)
      PROVE  IF s = t THEN subs[s].status = "none" ELSE subs'[s] = subs[s]
  BY <1>1, <1>2 DEF Pay
<1>3. ASSUME NEW t \in Subscriptions, Lapse(t)
      PROVE  IF s = t THEN subs'[s].lapsed ELSE subs'[s] = subs[s]
  BY <1>1, <1>3 DEF Lapse, Sub
<1>4. ASSUME NEW t \in Subscriptions, Recover(t)
      PROVE  IF s = t THEN subs[s].status = "past_due" /\ subs'[s].lapsed = subs[s].lapsed
                      ELSE subs'[s] = subs[s]
  BY <1>1, <1>4 DEF Recover, Sub
<1>5. ASSUME NEW t \in Subscriptions, Cancel(t)
      PROVE  IF s = t THEN subs'[s].status = "canceled" ELSE subs'[s] = subs[s]
  BY <1>1, <1>5 DEF Cancel, Sub
<1>6. CASE subs' = subs
  BY <1>6
<1> QED
  BY <1>2, <1>3, <1>4, <1>5, <1>6
  DEF BillingNext, Answer, Status, Checkout, CreateCustomer, OpenSession, ListActive, SyncPlan,
      AtStripe, Deliver, SubscriptionChanged, SessionCompleted, StoreCompleted, AddUserToOrg,
      RemoveUserFromTeam, Die, billingVars, tableVars, stripeVars

\* A user whose subscription is paid and kept after a step was so before it,
\* or has bought nothing before and pays for it in this step.
LEMMA SteadyBack ==
  ASSUME BillingInv, BillingTypeOK', EventsTrue, Remembers, [BillingNext]_billingVars,
         NEW u \in Users, NEW s \in Subscriptions, SteadyOn(u, s)'
  PROVE  \/ SteadyOn(u, s) /\ subs'[s] = subs[s]
         \/ Bought(u) = {} /\ \E x \in sessions : Pay(x, s)
<1>0. BillingTypeOK /\ SubsOwned
  BY DEF BillingInv
<1>1. /\ u \notin joined
      /\ Bought(u)' = {s} /\ subs'[s].status = "active" /\ ~subs'[s].lapsed
      /\ \A c \in Customers : owner'[c] = u => c = subs'[s].customer
  BY DEF SteadyOn, Remembers
<1>2. Bought(u) \subseteq {s}
  BY <1>0, <1>1, BoughtGrows
<1>3. \/ subs'[s] = subs[s]
      \/ subs[s].status = "none" /\ \E x \in sessions : Pay(x, s)
  BY <1>0, <1>1, SubSteps DEF EventsTrue
<1>4. CASE s \in Bought(u)
  <2>1. subs'[s] = subs[s]
    BY <1>3, <1>4 DEF Bought
  <2>2. \A c \in Customers : owner[c] = u => owner'[c] = u
    BY NoneIsNoCustomer DEF Remembers
  <2> QED
    BY <1>1, <1>2, <1>4, <2>1, <2>2 DEF SteadyOn
<1>5. CASE s \notin Bought(u)
  <2>1. Bought(u) = {}
    BY <1>2, <1>5
  <2>2. owner'[subs'[s].customer] = u
    BY <1>1 DEF Bought
  <2>3. ASSUME subs'[s] = subs[s]
        PROVE  s \in Bought(u)
    BY <1>0, <1>1, <2>2, <2>3, NoneIsNoCustomer DEF Bought, SubsOwned, Remembers
  <2> QED
    BY <1>3, <1>5, <2>1, <2>3
<1> QED
  BY <1>4, <1>5

LEMMA EventsTrueKept ==
  ASSUME BillingInv, EventsTrue, [BillingNext]_billingVars
  PROVE  EventsTrue'
<1>0. /\ subs \in [Subscriptions -> Sub] /\ \A e \in events : e \in Event
      /\ retrieving \subseteq events
  BY DEF BillingInv, BillingTypeOK
<1>1. ASSUME NEW s \in Subscriptions, AtStripe(s)
      PROVE  EventsTrue'
  <2>1. \A t \in Subscriptions \ {s} : subs'[t] = subs[t]
    BY <1>0, <1>1 DEF AtStripe, Pay, Lapse, Recover, Cancel
  <2>2. CASE \E x \in sessions : Pay(x, s)
    <3>1. /\ subs[s].status = "none" /\ subs'[s].status = "active"
          /\ events' = events \cup {Completed(s), SubEvent(s, TRUE)}
      BY <1>0, <2>2 DEF Pay
    <3>2. \A e \in events : e.sub # s
      BY <3>1 DEF BillingInv, EventsBought
    <3> QED
      BY <1>0, <2>1, <3>1, <3>2 DEF EventsTrue, Completed, SubEvent, Event
  <2>3. CASE Lapse(s)
    <3>1. /\ subs[s].status = "active" /\ subs'[s].lapsed
          /\ events' = events \cup {SubEvent(s, FALSE)}
      BY <1>0, <2>3 DEF Lapse, Sub
    <3> QED
      BY <1>0, <2>1, <3>1 DEF EventsTrue, SubEvent, Event
  <2>4. CASE Recover(s)
    <3>1. /\ subs[s].status = "past_due" /\ subs'[s].lapsed = subs[s].lapsed
          /\ subs'[s].status = "active"
          /\ events' = events \cup {SubEvent(s, TRUE)}
      BY <1>0, <2>4 DEF Recover, Sub
    <3> QED
      BY <1>0, <2>1, <3>1 DEF EventsTrue, SubEvent, Event
  <2>5. CASE Cancel(s)
    <3>1. /\ subs'[s].status = "canceled" /\ subs'[s].lapsed = subs[s].lapsed
          /\ events' = events \cup {Deleted(s)}
      BY <1>0, <2>5 DEF Cancel, Sub
    <3> QED
      BY <1>0, <2>1, <3>1 DEF EventsTrue, Deleted, Event
  <2> QED
    BY <1>1, <2>2, <2>3, <2>4, <2>5 DEF AtStripe
<1>2. CASE subs' = subs /\ events' \subseteq events
  BY <1>2 DEF EventsTrue
<1> QED
  BY <1>1, <1>2
  DEF BillingNext, Answer, Status, Checkout, CreateCustomer, OpenSession, ListActive, SyncPlan,
      Deliver, SubscriptionChanged, SessionCompleted, StoreCompleted, Acknowledge, AddUserToOrg,
      RemoveUserFromTeam, Die, billingVars, tableVars, stripeVars

LEMMA CustomersStoredKept ==
  ASSUME BillingInv, CustomersStored, [BillingNext]_billingVars
  PROVE  CustomersStored'
<1>0. /\ users \in [Users -> Account] /\ owner \in [Customers -> Users \cup {None}]
      /\ None \notin Users /\ None \notin Customers
  BY NoneIsNoCustomer DEF BillingInv, BillingTypeOK
<1>1. ASSUME owner' = owner,
             \A u \in Users : users[u].customer # None => users'[u].customer # None
      PROVE  CustomersStored'
  BY <1>0, <1>1 DEF CustomersStored
<1>2. ASSUME NEW r \in Requests, CreateCustomer(r)
      PROVE  CustomersStored'
  <2>1. PICK c \in Customers : /\ owner[c] = None
                               /\ owner' = [owner EXCEPT ![c] = req[r].user]
                               /\ users' = [users EXCEPT ![req[r].user].customer = c]
    BY <1>2, CustomerIsNew
  <2>2. req[r].user \in Users
    BY <1>2 DEF CreateCustomer, BillingInv, RequestsOwn, Held
  <2>3. /\ owner'[c] = req[r].user /\ users'[req[r].user].customer = c
        /\ \A d \in Customers \ {c} : owner'[d] = owner[d]
        /\ \A v \in Users \ {req[r].user} : users'[v] = users[v]
    BY <1>0, <2>1, <2>2 DEF Account
  <2> QED
    BY <1>0, <2>2, <2>3 DEF CustomersStored
<1>3. ASSUME NEW e \in Event, SubscriptionChanged(e)
      PROVE  CustomersStored'
  <2>1. \A p, c : \A u \in Users : SetPlanOf(c, p)[u].customer = users[u].customer
    BY <1>0 DEF SetPlanOf, Account
  <2>2. \A u \in Users : users'[u].customer = users[u].customer
    BY <1>3, <2>1 DEF SubscriptionChanged
  <2> QED
    BY <1>1, <1>3, <2>2 DEF SubscriptionChanged, stripeVars
<1>4. ASSUME NEW e \in retrieving, StoreCompleted(e)
      PROVE  CustomersStored'
  <2>1. e.sub \in Subscriptions /\ subs[e.sub].customer \in Customers
        /\ owner[subs[e.sub].customer] \in Users
    BY DEF BillingInv, BillingTypeOK, Event, EventsBought, SubsOwned
  <2>2. \A u \in Users : users[u].customer # None => users'[u].customer # None
    BY <1>0, <1>4, <2>1 DEF StoreCompleted
  <2> QED
    BY <1>1, <1>4, <2>2 DEF StoreCompleted, stripeVars
<1>5. ASSUME NEW r \in Requests, SyncPlan(r)
      PROVE  CustomersStored'
  <2>1. \A u \in Users : users'[u].customer = users[u].customer
    BY <1>0, <1>5 DEF SyncPlan, Account
  <2> QED
    BY <1>1, <1>5, <2>1 DEF SyncPlan, stripeVars
<1>6. ASSUME NEW u \in Users, AddUserToOrg(u) \/ RemoveUserFromTeam(u)
      PROVE  CustomersStored'
  <2>1. \A v \in Users : users'[v].customer = users[v].customer
    BY <1>0, <1>6 DEF AddUserToOrg, RemoveUserFromTeam, Account
  <2> QED
    BY <1>1, <1>6, <2>1 DEF AddUserToOrg, RemoveUserFromTeam, stripeVars
<1>7. CASE owner' = owner /\ users' = users
  BY <1>1, <1>7
<1> QED
  BY <1>2, <1>3, <1>4, <1>5, <1>6, <1>7
  DEF BillingNext, Answer, Status, Checkout, OpenSession, ListActive, AtStripe, Pay, Lapse,
      Recover, Cancel, ServerVars, Deliver, SessionCompleted, Die, billingVars, tableVars,
      stripeVars, BillingInv, BillingTypeOK

\* A request with an answer has asked before, and keeps what it has read.
LEMMA RequestSteps ==
  ASSUME BillingTypeOK, [BillingNext]_billingVars, NEW r \in Requests
  PROVE  \/ req'[r] = req[r]
         \/ req'[r].at \notin {"list", "listed"}
         \/ \E u \in Users : Status(r, u)
         \/ ListActive(r) /\ req'[r].user = req[r].user /\ req'[r].read = req[r].read
<1>0. req \in [Requests -> Request]
  BY DEF BillingTypeOK
<1>1. ASSUME NEW q \in Requests, NEW u \in Users, NEW p \in Offered, Checkout(q, u, p)
      PROVE  IF r = q THEN req'[r].at \notin {"list", "listed"} ELSE req'[r] = req[r]
  BY <1>0, <1>1 DEF Checkout, Request
<1>2. ASSUME NEW q \in Requests, NEW u \in Users, Status(q, u)
      PROVE  r = q \/ req'[r] = req[r]
  BY <1>0, <1>2 DEF Status, Request
<1>3. ASSUME NEW q \in Requests, CreateCustomer(q) \/ OpenSession(q) \/ SyncPlan(q)
      PROVE  IF r = q THEN req'[r].at \notin {"list", "listed"} ELSE req'[r] = req[r]
  BY <1>0, <1>3 DEF CreateCustomer, OpenSession, SyncPlan, Idle, Request
<1>4. ASSUME NEW q \in Requests, ListActive(q)
      PROVE  IF r = q THEN req'[r].user = req[r].user /\ req'[r].read = req[r].read
                      ELSE req'[r] = req[r]
  BY <1>0, <1>4 DEF ListActive, Request
<1>5. CASE Die
  BY <1>5 DEF Die, Idle
<1>6. CASE req' = req
  BY <1>6
<1> QED
  BY <1>1, <1>2, <1>3, <1>4, <1>5, <1>6
  DEF BillingNext, Answer, AtStripe, Pay, Lapse, Recover, Cancel, ServerVars, Deliver,
      SubscriptionChanged, SessionCompleted, StoreCompleted, AddUserToOrg,
      RemoveUserFromTeam, billingVars

LEMMA ReadsEarnedKept ==
  ASSUME BillingInv, Remembers, ReadsEarned, [BillingNext]_billingVars
  PROVE  ReadsEarned'
<1> SUFFICES ASSUME NEW r \in Requests, req'[r].at \in {"list", "listed"}, req'[r].read # "free"
             PROVE  (req[r].user \in joined \/ Bought(req[r].user) # {})'
  BY DEF ReadsEarned
<1>0. BillingTypeOK /\ SubsOwned /\ req \in [Requests -> Request]
  BY DEF BillingInv, BillingTypeOK
<1>1. ASSUME NEW u \in Users, u \in joined \/ Bought(u) # {}
      PROVE  u \in joined' \/ Bought(u)' # {}
  BY <1>0, <1>1, BoughtGrows DEF Remembers
<1>2. ASSUME NEW u \in Users, Status(r, u)
      PROVE  (req[r].user \in joined \/ Bought(req[r].user) # {})'
  <2>1. req'[r].user = u /\ users[u].plan # "free"
    BY <1>0, <1>2 DEF Status
  <2>2. u \in joined \/ Bought(u) # {}
    BY <2>1 DEF BillingInv, PlansEarned, Earned
  <2> QED
    BY <1>1, <2>1, <2>2
<1>3. ASSUME req'[r].user = req[r].user, req'[r].read = req[r].read,
             req[r].at \in {"list", "listed"}
      PROVE  (req[r].user \in joined \/ Bought(req[r].user) # {})'
  <2>1. req[r].user \in Users
    BY <1>3 DEF BillingInv, RequestsOwn, Held
  <2> QED
    BY <1>1, <1>3, <2>1 DEF ReadsEarned
<1> QED
  BY <1>0, <1>2, <1>3, RequestSteps DEF ListActive

\* Stripe's answer is the plan of the one subscription.
LEMMA AnswerIsCurrent ==
  ASSUME BillingInv, NEW r \in Requests, ListActive(r),
         NEW s \in Subscriptions, SteadyOn(req[r].user, s)
  PROVE  req'[r].answer = subs[s].plan
<1> DEFINE active == {t \in Subscriptions : /\ subs[t].customer = req[r].customer
                                            /\ subs[t].status = "active"}
           u == req[r].user
<1>1. /\ req[r].customer \in Customers /\ owner[req[r].customer] = u
  BY DEF ListActive, BillingInv, RequestsOwn, Held
<1>2. subs[s].customer = req[r].customer /\ subs[s].status = "active"
  BY <1>1 DEF SteadyOn
<1>3. \A t \in active : t \in Bought(u)
  BY <1>1 DEF Bought
<1>4. active = {s}
  BY <1>2, <1>3 DEF SteadyOn
<1>5. PICK p \in (IF active = {} THEN {"free"} ELSE {subs[t].plan : t \in active}) :
        req' = [req EXCEPT ![r].at = "listed", ![r].answer = p]
  BY DEF ListActive
<1> HIDE DEF active
<1>6. p = subs[s].plan
  BY <1>4, <1>5
<1>7. req \in [Requests -> Request]
  BY DEF BillingInv, BillingTypeOK
<1> QED
  BY <1>5, <1>6, <1>7 DEF Request

LEMMA AnswersCurrentKept ==
  ASSUME BillingInv, BillingTypeOK', Remembers, EventsTrue, ReadsEarned, AnswersCurrent,
         [BillingNext]_billingVars
  PROVE  AnswersCurrent'
<1> SUFFICES ASSUME NEW r \in Requests, NEW s \in Subscriptions, req'[r].at = "listed",
                    req'[r].read # "free", SteadyOn(req[r].user, s)'
             PROVE  req'[r].answer = subs'[s].plan
  BY DEF AnswersCurrent
<1>0. BillingTypeOK /\ req \in [Requests -> Request]
  BY DEF BillingInv, BillingTypeOK
<1>1. /\ req'[r].user = req[r].user /\ req'[r].read = req[r].read
      /\ req[r].at \in {"list", "listed"}
      /\ req'[r] = req[r] \/ ListActive(r)
  BY <1>0, RequestSteps DEF ListActive, Status
<1>2. PICK u \in Users : u = req[r].user
  BY <1>1 DEF BillingInv, RequestsOwn, Held
<1>3. SteadyOn(u, s)'
  BY <1>1, <1>2
<1>4. u \in joined \/ Bought(u) # {}
  BY <1>1, <1>2 DEF ReadsEarned
<1>5. SteadyOn(u, s) /\ subs'[s] = subs[s]
  BY <1>3, <1>4, SteadyBack DEF SteadyOn, Remembers
<1>6. CASE req'[r] = req[r]
  BY <1>1, <1>2, <1>5, <1>6 DEF AnswersCurrent
<1>7. CASE ListActive(r)
  BY <1>2, <1>5, <1>7, AnswerIsCurrent
<1> QED
  BY <1>1, <1>6, <1>7

\* A step leaves the plan of a steady user and what announces it alone, or it
\* writes the plan that is paid for.
LEMMA SteadyPlan ==
  ASSUME BillingInv, PaidInv, Remembers, [BillingNext]_billingVars,
         NEW u \in Users, NEW s \in Subscriptions, SteadyOn(u, s), u \notin joined'
  PROVE  \/ users'[u].plan = subs[s].plan
         \/ /\ users'[u].plan = users[u].plan
            /\ Announcement(s) \subseteq events => Announcement(s) \subseteq events'
<1> DEFINE Same == /\ users'[u].plan = users[u].plan
                   /\ Announcement(s) \subseteq events => Announcement(s) \subseteq events'
<1>0. /\ BillingTypeOK /\ users \in [Users -> Account] /\ None \notin Users
      /\ \A e \in events : e \in Event /\ subs[e.sub].status # "none"
  BY NoneIsNoCustomer DEF BillingInv, BillingTypeOK, EventsBought
<1>1. /\ subs[s].customer \in Customers /\ owner[subs[s].customer] = u
      /\ users[u].customer = subs[s].customer
  BY SteadyCustomer DEF PaidInv
<1>2. \A t \in Subscriptions :
        subs[t].status # "none" /\ owner[subs[t].customer] = u => t = s
  BY DEF SteadyOn, Bought
<1>3. ASSUME NEW e \in events, SubscriptionChanged(e)
      PROVE  users'[u].plan = subs[s].plan \/ Same
  <2>1. e \in Event /\ e.sub \in Subscriptions /\ subs[e.sub].status # "none"
    BY <1>0 DEF Event
  <2>2. events \ {e} \subseteq events' /\ e.type # "completed"
    BY <1>3 DEF SubscriptionChanged, Acknowledge
  <2>3. CASE e.sub = s
    <3>1. e.type # "deleted" /\ (e.type = "subscription" => e.active)
      BY <2>3 DEF SteadyOn, PaidInv, EventsTrue
    <3>2. e.type = "subscription" /\ e.active
      BY <2>1, <2>2, <3>1 DEF Event
    <3>3. users' = SetPlanOf(subs[s].customer, subs[s].plan)
      BY <1>3, <2>3, <3>2 DEF SubscriptionChanged
    <3>4. users'[u].plan = subs[s].plan
      BY <1>0, <1>1, <3>3 DEF SetPlanOf, Account
    <3> QED
      BY <3>4
  <2>4. CASE e.sub # s
    <3>1. subs[e.sub].customer # users[u].customer
      BY <1>1, <1>2, <2>1, <2>4
    <3>2. \A p : SetPlanOf(subs[e.sub].customer, p)[u] = users[u]
      BY <3>1 DEF SetPlanOf
    <3>3. users'[u] = users[u]
      BY <1>3, <3>2 DEF SubscriptionChanged
    <3>4. e \notin Announcement(s)
      BY <2>4 DEF Announcement, Completed, SubEvent
    <3> QED
      BY <2>2, <3>3, <3>4
  <2> QED
    BY <2>3, <2>4
<1>4. ASSUME NEW e \in retrieving, StoreCompleted(e)
      PROVE  users'[u].plan = subs[s].plan \/ Same
  <2>1. /\ e \in events /\ e.sub \in Subscriptions /\ subs[e.sub].status # "none"
    BY <1>0 DEF BillingTypeOK, Event
  <2>2. owner[subs[e.sub].customer] \in Users
    BY <2>1 DEF BillingInv, SubsOwned
  <2>3. events \ {e} \subseteq events'
    BY <1>4 DEF StoreCompleted, Acknowledge
  <2>4. CASE e.sub = s
    <3>1. users'[u].plan = subs[s].plan
      BY <1>0, <1>1, <1>4, <2>4 DEF StoreCompleted
    <3> QED
      BY <3>1
  <2>5. CASE e.sub # s
    <3>1. owner[subs[e.sub].customer] # u
      BY <1>2, <2>1, <2>5
    <3>2. users'[u] = users[u]
      BY <1>0, <1>4, <2>2, <3>1 DEF StoreCompleted
    <3>3. e \notin Announcement(s)
      BY <2>5 DEF Announcement, Completed, SubEvent
    <3> QED
      BY <2>3, <3>2, <3>3
  <2> QED
    BY <2>4, <2>5
<1>5. ASSUME NEW r \in Requests, SyncPlan(r)
      PROVE  users'[u].plan = subs[s].plan \/ Same
  <2>1. req[r].at = "listed" /\ events' = events
    BY <1>5 DEF SyncPlan
  <2>2. req[r].user \in Users /\ Earned(req[r].user, req[r].answer)
    BY <2>1 DEF BillingInv, RequestsOwn, Held
  <2>3. CASE req[r].user # u \/ req[r].answer = req[r].read
    <3>1. users'[u] = users[u]
      BY <1>0, <1>5, <2>2, <2>3 DEF SyncPlan
    <3> QED
      BY <2>1, <3>1
  <2>4. CASE req[r].user = u /\ req[r].answer # req[r].read
    <3>1. users'[u].plan = req[r].answer
      BY <1>0, <1>5, <2>4 DEF SyncPlan, Account
    <3>2. CASE req[r].read = "free"
      <4>1. \E t \in Bought(u) : subs[t].plan = req[r].answer
        BY <2>2, <2>4, <3>2 DEF Earned, SteadyOn
      <4> QED
        BY <3>1, <4>1 DEF SteadyOn
    <3>3. CASE req[r].read # "free"
      BY <2>1, <2>4, <3>1, <3>3 DEF PaidInv, AnswersCurrent
    <3> QED
      BY <3>2, <3>3
  <2> QED
    BY <2>3, <2>4
<1>6. ASSUME NEW r \in Requests, CreateCustomer(r)
      PROVE  Same
  <2>1. users'[u].plan = users[u].plan
    BY <1>0, <1>6 DEF CreateCustomer, Account
  <2> QED
    BY <1>6, <2>1 DEF CreateCustomer
<1>7. ASSUME NEW v \in Users, AddUserToOrg(v) \/ RemoveUserFromTeam(v)
      PROVE  Same
  <2>1. u # v
    BY <1>7 DEF AddUserToOrg, RemoveUserFromTeam, BillingTypeOK, SteadyOn, BillingInv
  <2>2. users'[u] = users[u] /\ events' = events
    BY <1>0, <1>7, <2>1 DEF AddUserToOrg, RemoveUserFromTeam
  <2> QED
    BY <2>2
<1>8. CASE users' = users /\ events \subseteq events'
  BY <1>8
<1> QED
  BY <1>3, <1>4, <1>5, <1>6, <1>7, <1>8
  DEF BillingNext, Answer, Status, Checkout, OpenSession, ListActive, AtStripe, Pay, Lapse,
      Recover, Cancel, ServerVars, Deliver, SessionCompleted, Die, billingVars, tableVars

LEMMA AnnouncedKept ==
  ASSUME BillingInv, BillingTypeOK', PaidInv, Remembers, [BillingNext]_billingVars
  PROVE  Announced'
<1> SUFFICES ASSUME NEW u \in Users, NEW s \in Subscriptions, SteadyOn(u, s)'
             PROVE  users'[u].plan = subs'[s].plan \/ Announcement(s) \subseteq events'
  BY DEF Announced, Announcement, Completed, SubEvent
<1>1. CASE SteadyOn(u, s) /\ subs'[s] = subs[s]
  BY <1>1, SteadyPlan DEF SteadyOn, PaidInv, Announced
<1>2. CASE \E x \in sessions : Pay(x, s)
  BY <1>2 DEF Pay, Announcement
<1> QED
  BY <1>1, <1>2, SteadyBack DEF PaidInv

LEMMA PaidInvStarts == BillingInit => PaidInv
<1> SUFFICES ASSUME BillingInit PROVE PaidInv
  OBVIOUS
<1>1. EventsTrue /\ CustomersStored /\ ReadsEarned /\ AnswersCurrent
  BY DEF BillingInit, EventsTrue, CustomersStored, ReadsEarned, AnswersCurrent, Idle
<1>2. Announced
  BY DEF BillingInit, Announced, SteadyOn
<1> QED
  BY <1>1, <1>2 DEF PaidInv

LEMMA PaidInvKept == BillingInv /\ PaidInv /\ [BillingNext]_billingVars => PaidInv'
<1> SUFFICES ASSUME BillingInv, PaidInv, [BillingNext]_billingVars
             PROVE  PaidInv'
  OBVIOUS
<1>1. BillingTypeOK' /\ Remembers
  BY BillingInvKept, StepsRemember DEF BillingInv
<1> QED
  BY <1>1, EventsTrueKept, CustomersStoredKept, ReadsEarnedKept, AnswersCurrentKept,
     AnnouncedKept DEF PaidInv

LEMMA PaidInvariant == BillingSpec => [](BillingInv /\ PaidInv)
BY BillingInvStarts, BillingInvKept, PaidInvStarts, PaidInvKept, PTL DEF BillingSpec

\* The types; and a plan that is paid for and not there yet is still announced
\* by both its events, whatever requests and events overtake each other and
\* however often the process dies.
THEOREM AccountsCorrect == BillingSpec => []AccountsInOrder
<1>1. ASSUME BillingInv, PaidInv
      PROVE  AccountsInOrder
  <2>1. ASSUME NEW u \in Users, Steady(u), NEW s \in Bought(u)
        PROVE  users[u].plan = subs[s].plan \/ Announcement(s) \subseteq events
    BY <1>1, <2>1, SteadyKnows DEF PaidInv, Announced, SteadyOn
  <2> QED
    BY <1>1, <2>1 DEF AccountsInOrder, PaidIsAnnounced, Announcement, BillingInv
<1> QED
  BY <1>1, PaidInvariant, PTL

\* No late answer of a status request, and no event delivered again, takes a
\* plan that is there from who goes on paying for it.
THEOREM ServedStaysServed == BillingSpec => ServedStays
<1>1. ASSUME BillingInv, PaidInv, [BillingNext]_billingVars,
             NEW u \in Users, Steady(u), Steady(u)', NEW s \in Bought(u),
             users[u].plan = subs[s].plan
      PROVE  users'[u].plan = subs[s].plan
  <2>1. s \in Subscriptions /\ SteadyOn(u, s) /\ u \notin joined'
    BY <1>1, SteadyKnows DEF SteadyOn, Steady
  <2>2. Remembers
    BY <1>1, StepsRemember DEF BillingInv
  <2> QED
    BY <1>1, <2>1, <2>2, SteadyPlan
<1> DEFINE Stays == \A u \in Users : Steady(u) /\ Steady(u)' =>
                      \A s \in Bought(u) : users[u].plan = subs[s].plan =>
                                             users'[u].plan = subs[s].plan
<1>2. BillingInv /\ PaidInv /\ [BillingNext]_billingVars => [Stays]_billingVars
  BY <1>1
<1> QED
  BY <1>2, PaidInvariant, PTL DEF BillingSpec, ServedStays
=============================================================================
