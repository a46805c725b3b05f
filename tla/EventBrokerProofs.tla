-------------------------- MODULE EventBrokerProofs --------------------------
(***************************************************************************)
(* Proofs about EventBroker.  The user channels and the org channels obey  *)
(* the same rules, so the rules are stated once, for one side (SideOK),    *)
(* and each statement of the broker is shown to keep a side in order.      *)
(***************************************************************************)
EXTENDS EventBroker, TLAPS

\* One side: K is the set of keys; key and set say for each client under which
\* key it subscribed and which Set its closure holds (None when it did not);
\* alive are the clients not unsubscribed; open is false after shutdown.
SideTyped(K, key, set, alive, members, channels) ==
  /\ key \in [Clients -> K \cup {None}]
  /\ set \in [Clients -> Clients \cup {None}]
  /\ alive \subseteq Clients
  /\ members \in [Clients -> SUBSET Clients]
  /\ channels \in [K -> Clients \cup {None}]

\* The Sets: whom they hold, and that a Set belongs to one key.
SetsOK(key, set, alive, members) ==
  /\ \A c \in Clients : key[c] = None => set[c] = None /\ members[c] = {}
  /\ \A c \in Clients : key[c] # None => set[c] # None /\ key[set[c]] = key[c]
  /\ \A s \in Clients : \A c \in members[s] : c \in alive /\ set[c] = s
  /\ \A c \in alive : key[c] # None => c \in members[set[c]]

\* The Map: the Set under a key is that of every client alive on it.
MapOK(K, key, set, alive, members, channels, open) ==
  /\ \A c \in alive : key[c] # None /\ open => channels[key[c]] = set[c]
  /\ \A k \in K : channels[k] # None =>
       open /\ key[channels[k]] = k /\ members[channels[k]] # {}

SideOK(K, key, set, alive, members, channels, open) ==
  /\ SideTyped(K, key, set, alive, members, channels)
  /\ SetsOK(key, set, alive, members)
  /\ MapOK(K, key, set, alive, members, channels, open)

\* A client that subscribes under a key.
LEMMA SideJoin ==
  ASSUME NEW K, None \notin K, NEW key, NEW set, NEW alive, NEW members, NEW channels,
         SideOK(K, key, set, alive, members, channels, TRUE),
         NEW c \in Clients, key[c] = None, c \notin alive, NEW k \in K,
         NEW s, s = SetFor(channels, k, c)
  PROVE  SideOK(K, [key EXCEPT ![c] = k], [set EXCEPT ![c] = s], alive \cup {c},
                Join(members, s, c), [channels EXCEPT ![k] = s], TRUE)
  <1> DEFINE key2 == [key EXCEPT ![c] = k]
             set2 == [set EXCEPT ![c] = s]
             members2 == Join(members, s, c)
             channels2 == [channels EXCEPT ![k] = s]
  <1>1. SideTyped(K, key, set, alive, members, channels)
    BY DEF SideOK
  <1>2. s \in Clients
    BY <1>1 DEF SetFor, SideTyped
  <1>3. SideTyped(K, key2, set2, alive \cup {c}, members2, channels2)
    BY <1>1, <1>2 DEF SideTyped, Join
  <1>4. /\ key2[c] = k /\ set2[c] = s
        /\ \A d \in Clients \ {c} : key2[d] = key[d] /\ set2[d] = set[d]
    BY <1>1 DEF SideTyped
  <1>5. /\ members2[s] = members[s] \cup {c}
        /\ \A d \in Clients \ {s} : members2[d] = members[d]
    BY <1>1, <1>2 DEF SideTyped, Join
  <1>6. /\ channels2[k] = s
        /\ \A j \in K \ {k} : channels2[j] = channels[j]
    BY <1>1 DEF SideTyped
  <1>7. None \notin Clients /\ key2[s] = k
    <2>1. None \notin Clients
      BY BrokerNone
    <2>2. CASE channels[k] = None
      BY <1>4, <2>1, <2>2 DEF SetFor
    <2>3. CASE channels[k] # None
      <3>1. key[s] = k /\ s # c
        BY <2>3 DEF SetFor, SideOK, MapOK
      <3> QED
        BY <2>1, <1>2, <1>4, <3>1
    <2> QED
      BY <2>1, <2>2, <2>3
  <1>8. \A d \in alive : key[d] = k => set[d] = s
    <2> SUFFICES ASSUME NEW d \in alive, key[d] = k
                 PROVE  set[d] = s
      OBVIOUS
    <2>1. channels[k] = set[d]
      BY DEF SideOK, MapOK
    <2>2. set[d] # None
      BY <1>1 DEF SideOK, SetsOK, SideTyped
    <2> QED
      BY <2>1, <2>2 DEF SetFor
  <1> HIDE DEF key2, set2, members2, channels2
  <1>9. SetsOK(key2, set2, alive \cup {c}, members2)
    <2>1. ASSUME NEW d \in Clients, key2[d] = None
          PROVE  set2[d] = None /\ members2[d] = {}
      <3>1. d # c /\ d # s
        BY <1>4, <1>7, <2>1
      <3> QED
        BY <1>4, <1>5, <2>1, <3>1 DEF SideOK, SetsOK
    <2>2. ASSUME NEW d \in Clients, key2[d] # None
          PROVE  set2[d] # None /\ key2[set2[d]] = key2[d]
      <3>1. CASE d = c
        BY <1>2, <1>4, <1>7, <3>1
      <3>2. CASE d # c
        <4>1. set[d] # None /\ key[set[d]] = key[d] /\ set[d] \in Clients
          BY <1>1, <1>4, <2>2, <3>2 DEF SideOK, SetsOK, SideTyped
        <4>2. set[d] # c
          BY <1>4, <2>2, <3>2, <4>1
        <4> QED
          BY <1>4, <3>2, <4>1, <4>2
      <3> QED
        BY <3>1, <3>2
    <2>3. ASSUME NEW r \in Clients, NEW d \in members2[r]
          PROVE  d \in alive \cup {c} /\ set2[d] = r
      <3>1. CASE d = c
        <4>1. c \notin members[r]
          BY DEF SideOK, SetsOK
        <4> QED
          BY <1>4, <1>5, <2>3, <3>1, <4>1
      <3>2. CASE d # c
        <4>1. d \in members[r]
          BY <1>5, <2>3, <3>2
        <4>2. d \in alive /\ set[d] = r
          BY <4>1 DEF SideOK, SetsOK
        <4> QED
          BY <1>1, <1>4, <3>2, <4>2 DEF SideTyped
      <3> QED
        BY <3>1, <3>2
    <2>4. ASSUME NEW d \in alive \cup {c}, key2[d] # None
          PROVE  d \in members2[set2[d]]
      <3>1. CASE d = c
        BY <1>4, <1>5, <3>1
      <3>2. CASE d # c
        <4>1. d \in alive /\ d \in Clients /\ d \in members[set[d]] /\ set[d] \in Clients
          BY <1>1, <1>4, <2>4, <3>2 DEF SideOK, SetsOK, SideTyped
        <4> QED
          BY <1>2, <1>4, <1>5, <3>2, <4>1
      <3> QED
        BY <3>1, <3>2
    <2> QED
      BY <2>1, <2>2, <2>3, <2>4 DEF SetsOK
  <1>10. MapOK(K, key2, set2, alive \cup {c}, members2, channels2, TRUE)
    <2>1. ASSUME NEW d \in alive \cup {c}, key2[d] # None
          PROVE  channels2[key2[d]] = set2[d]
      <3>1. CASE d = c
        BY <1>4, <1>6, <3>1
      <3>2. CASE d # c
        <4>1. d \in alive /\ d \in Clients /\ key2[d] = key[d] /\ set2[d] = set[d] /\ key[d] \in K
          BY <1>1, <1>4, <2>1, <3>2 DEF SideTyped
        <4>2. channels[key[d]] = set[d]
          BY <2>1, <4>1 DEF SideOK, MapOK
        <4> QED
          BY <1>6, <1>8, <4>1, <4>2
      <3> QED
        BY <3>1, <3>2
    <2>2. ASSUME NEW j \in K, channels2[j] # None
          PROVE  key2[channels2[j]] = j /\ members2[channels2[j]] # {}
      <3>1. CASE j = k
        BY <1>5, <1>6, <1>7, <3>1
      <3>2. CASE j # k
        <4>1. channels2[j] = channels[j] /\ key[channels[j]] = j /\ members[channels[j]] # {}
              /\ channels[j] \in Clients
          BY <1>1, <1>6, <2>2, <3>2 DEF SideOK, MapOK, SideTyped
        <4>2. channels[j] # c
          BY <4>1
        <4> QED
          BY <1>2, <1>4, <1>5, <4>1, <4>2
      <3> QED
        BY <3>1, <3>2
    <2> QED
      BY <2>1, <2>2 DEF MapOK
  <1> QED
    BY <1>3, <1>9, <1>10 DEF SideOK, key2, set2, members2, channels2

\* A client that subscribes, but not on this side.
LEMMA SideSkip ==
  ASSUME NEW K, NEW key, NEW set, NEW alive, NEW members, NEW channels, NEW open,
         SideOK(K, key, set, alive, members, channels, open),
         NEW c \in Clients, key[c] = None
  PROVE  SideOK(K, key, set, alive \cup {c}, members, channels, open)
  BY DEF SideOK, SideTyped, SetsOK, MapOK

\* A client that unsubscribes and was not on this side.
LEMMA SideStays ==
  ASSUME NEW K, NEW key, NEW set, NEW alive, NEW members, NEW channels, NEW open,
         SideOK(K, key, set, alive, members, channels, open),
         NEW c \in Clients, key[c] = None
  PROVE  SideOK(K, key, set, alive \ {c}, members, channels, open)
  <1>1. \A s \in Clients : c \notin members[s]
    BY BrokerNone DEF SideOK, SetsOK
  <1> QED
    BY <1>1 DEF SideOK, SideTyped, SetsOK, MapOK

\* A client that unsubscribes and was on this side.
LEMMA SideLeave ==
  ASSUME NEW K, None \notin K, NEW key, NEW set, NEW alive, NEW members, NEW channels, NEW open,
         SideOK(K, key, set, alive, members, channels, open),
         NEW c \in alive, key[c] # None,
         NEW members2, members2 = Leave(members, set[c], c)
  PROVE  SideOK(K, key, set, alive \ {c}, members2,
                Drop(channels, key[c], members2, set[c]), open)
  <1> DEFINE channels2 == Drop(channels, key[c], members2, set[c])
  <1>1. SideTyped(K, key, set, alive, members, channels)
    BY DEF SideOK
  <1>2. /\ c \in Clients /\ set[c] \in Clients /\ key[c] \in K
        /\ None \notin Clients /\ key[set[c]] = key[c]
    BY <1>1, BrokerNone DEF SideTyped, SideOK, SetsOK
  <1>3. /\ members2[set[c]] = members[set[c]] \ {c}
        /\ \A d \in Clients \ {set[c]} : members2[d] = members[d]
    BY <1>1, <1>2 DEF SideTyped, Leave
  <1>4. SideTyped(K, key, set, alive \ {c}, members2, channels2)
    BY <1>1, <1>2 DEF SideTyped, Leave, Drop
  <1>5. SetsOK(key, set, alive \ {c}, members2)
    <2>1. ASSUME NEW d \in Clients, key[d] = None
          PROVE  set[d] = None /\ members2[d] = {}
      BY <1>2, <1>3, <2>1 DEF SideOK, SetsOK
    <2>2. ASSUME NEW r \in Clients, NEW d \in members2[r]
          PROVE  d \in alive \ {c} /\ set[d] = r
      <3>1. d \in members[r] /\ (r = set[c] => d # c)
        BY <1>3, <2>2
      <3> QED
        BY <3>1 DEF SideOK, SetsOK
    <2>3. ASSUME NEW d \in alive \ {c}, key[d] # None
          PROVE  d \in members2[set[d]]
      <3>1. d \in members[set[d]] /\ set[d] \in Clients
        BY <1>1, <2>3 DEF SideOK, SetsOK, SideTyped
      <3> QED
        BY <1>3, <2>3, <3>1
    <2> QED
      BY <2>1, <2>2, <2>3 DEF SetsOK, SideOK
  <1>6. /\ \A j \in K \ {key[c]} : channels2[j] = channels[j]
        /\ members2[set[c]] = {} => channels2[key[c]] = None
        /\ members2[set[c]] # {} => channels2[key[c]] = channels[key[c]]
    BY <1>1, <1>2 DEF SideTyped, Drop
  <1> HIDE DEF channels2
  <1>7. MapOK(K, key, set, alive \ {c}, members2, channels2, open)
    <2>1. ASSUME NEW d \in alive \ {c}, key[d] # None, open
          PROVE  channels2[key[d]] = set[d]
      <3>1. channels[key[d]] = set[d] /\ key[d] \in K
        BY <1>1, <2>1 DEF SideOK, MapOK, SideTyped
      <3>2. CASE key[d] # key[c]
        BY <1>6, <3>1, <3>2
      <3>3. CASE key[d] = key[c]
        <4>1. channels[key[c]] = set[c]
          BY <2>1 DEF SideOK, MapOK
        <4>2. d \in members[set[c]]
          BY <2>1, <3>1, <3>3, <4>1 DEF SideOK, SetsOK
        <4> QED
          BY <1>3, <1>6, <2>1, <3>1, <3>3, <4>2
      <3> QED
        BY <3>2, <3>3
    <2>2. ASSUME NEW j \in K, channels2[j] # None
          PROVE  open /\ key[channels2[j]] = j /\ members2[channels2[j]] # {}
      <3>1. channels2[j] = channels[j]
        BY <1>6, <2>2
      <3>2. open /\ key[channels[j]] = j /\ members[channels[j]] # {} /\ channels[j] \in Clients
        BY <1>1, <2>2, <3>1 DEF SideOK, MapOK, SideTyped
      <3>3. CASE j # key[c]
        BY <1>2, <1>3, <3>1, <3>2, <3>3
      <3>4. CASE j = key[c]
        <4>1. channels[j] = set[c]
          BY <3>2, <3>4 DEF SideOK, MapOK
        <4> QED
          BY <1>6, <2>2, <3>1, <3>2, <3>4, <4>1
      <3> QED
        BY <3>3, <3>4
    <2> QED
      BY <2>1, <2>2 DEF MapOK
  <1> QED
    BY <1>4, <1>5, <1>7 DEF SideOK, channels2

\* Shutdown clears the Map and leaves the Sets.
LEMMA SideClear ==
  ASSUME NEW K, NEW key, NEW set, NEW alive, NEW members, NEW channels, NEW open,
         SideOK(K, key, set, alive, members, channels, open)
  PROVE  SideOK(K, key, set, alive, members, [k \in K |-> None], FALSE)
  BY DEF SideOK, SideTyped, SetsOK, MapOK

\* What a side in order says of the channel under a key.
LEMMA SideChannel ==
  ASSUME NEW K, None \notin K, NEW key, NEW set, NEW alive, NEW members, NEW channels, NEW open,
         SideOK(K, key, set, alive, members, channels, open), NEW k \in K
  PROVE  /\ \A c : c \in Channel(channels, members, k) <=> c \in alive /\ open /\ key[c] = k
         /\ channels[k] # None => Channel(channels, members, k) # {}
  <1>1. SideTyped(K, key, set, alive, members, channels)
    BY DEF SideOK
  <1>2. channels[k] # None => Channel(channels, members, k) # {}
    BY DEF SideOK, MapOK, Channel
  <1>3. ASSUME NEW c \in Channel(channels, members, k)
        PROVE  c \in alive /\ open /\ key[c] = k
    <2>1. channels[k] # None /\ c \in members[channels[k]] /\ channels[k] \in Clients
      BY <1>1, <1>3 DEF Channel, SideTyped
    <2>2. open /\ key[channels[k]] = k
      BY <2>1 DEF SideOK, MapOK
    <2>3. c \in alive /\ set[c] = channels[k] /\ c \in Clients
      BY <1>1, <2>1 DEF SideOK, SetsOK, SideTyped
    <2>4. key[c] # None
      BY <2>1, <2>3 DEF SideOK, SetsOK
    <2> QED
      BY <2>2, <2>3, <2>4 DEF SideOK, SetsOK
  <1>4. ASSUME NEW c \in alive, open, key[c] = k
        PROVE  c \in Channel(channels, members, k)
    <2>1. channels[k] = set[c] /\ c \in members[set[c]]
      BY <1>4 DEF SideOK, SetsOK, MapOK
    <2>2. set[c] # None
      BY <1>1, <1>4 DEF SideOK, SetsOK, SideTyped
    <2> QED
      BY <2>1, <2>2 DEF Channel
  <1> QED
    BY <1>2, <1>3, <1>4
-----------------------------------------------------------------------------
(* The two sides of the broker. *)

UserKey == [c \in Clients |-> IF subscription[c] = None THEN None ELSE subscription[c].user]
UserSet == [c \in Clients |-> IF subscription[c] = None THEN None ELSE subscription[c].userSet]
TeamKey == [c \in Clients |-> IF subscription[c] = None THEN None ELSE subscription[c].org]
TeamSet == [c \in Clients |-> IF subscription[c] = None THEN None ELSE subscription[c].teamSet]
Alive == {c \in Clients : subscription[c] # None /\ c \notin unsubscribed}

UserSide == SideOK(Users, UserKey, UserSet, Alive, userMembers, userChannels, ~shuttingDown)
TeamSide == SideOK(Orgs, TeamKey, TeamSet, Alive, teamMembers, teamChannels, ~shuttingDown)
IdleIsNew == \A c \in Clients : conn[c] = "idle" => subscription[c] = None /\ c \notin unsubscribed

BrokerInv == BrokerTypeOK /\ UserSide /\ TeamSide /\ IdleIsNew

LEMMA Nones == None \notin Clients /\ None \notin Users /\ None \notin Orgs
               /\ None \notin Subscription /\ None \notin Scope
  BY BrokerNone

LEMMA InitInv == BrokerInit => BrokerInv
  <1> SUFFICES ASSUME BrokerInit
               PROVE  BrokerInv
    OBVIOUS
  <1> USE DEF BrokerInit
  <1>1. BrokerTypeOK
    <2>1. inbox \in [Clients -> Seq(Events)]
      <3>1. <<>> \in Seq(Events)
        OBVIOUS
      <3> QED
        BY <3>1
    <2>2. shuttingDown \in BOOLEAN
      OBVIOUS
    <2>3. cleanups \in [Clients -> 0..MaxCleanups]
      BY DEF MaxCleanups
    <2> QED
      BY <2>1, <2>2, <2>3 DEF BrokerTypeOK, ConnStates
  <1>2. /\ UserKey = [c \in Clients |-> None] /\ UserSet = [c \in Clients |-> None]
        /\ TeamKey = [c \in Clients |-> None] /\ TeamSet = [c \in Clients |-> None]
        /\ Alive = {}
    BY DEF UserKey, UserSet, TeamKey, TeamSet, Alive
  <1>3. UserSide
    BY <1>2 DEF UserSide, SideOK, SideTyped, SetsOK, MapOK
  <1>4. TeamSide
    BY <1>2 DEF TeamSide, SideOK, SideTyped, SetsOK, MapOK
  <1> QED
    BY <1>1, <1>3, <1>4 DEF BrokerInv, IdleIsNew

\* A step that leaves the broker alone leaves both sides alone.
LEMMA SidesUnchanged ==
  ASSUME UserSide, TeamSide, UNCHANGED setVars, UNCHANGED shuttingDown
  PROVE  UserSide' /\ TeamSide'
  <1>1. UNCHANGED <<UserKey, UserSet, TeamKey, TeamSet, Alive>>
    BY DEF setVars, UserKey, UserSet, TeamKey, TeamSet, Alive
  <1> QED
    BY <1>1 DEF setVars, UserSide, TeamSide

\* subscribe: the client joins the user side, and the team side if in an org.
LEMMA SubscribeSides ==
  ASSUME BrokerInv, ~shuttingDown, UNCHANGED shuttingDown,
         NEW c \in Clients, NEW u \in Users, NEW o \in Orgs \cup {None},
         subscription[c] = None, c \notin unsubscribed, Subscribe(c, u, o)
  PROVE  UserSide' /\ TeamSide' /\ subscription' \in [Clients -> Subscription \cup {None}]
  <1> DEFINE us == SetFor(userChannels, u, c)
             ts == IF o = None THEN None ELSE SetFor(teamChannels, o, c)
             sub == [user |-> u, org |-> o, userSet |-> us, teamSet |-> ts]
  <1>1. BrokerTypeOK /\ UserSide /\ TeamSide
    BY DEF BrokerInv
  <1>2. us \in Clients /\ ts \in Clients \cup {None}
    BY <1>1 DEF SetFor, BrokerTypeOK
  <1>3. sub \in Subscription /\ sub # None
    BY <1>2, Nones DEF Subscription
  <1>4. /\ subscription' = [subscription EXCEPT ![c] = sub]
        /\ subscription \in [Clients -> Subscription \cup {None}]
        /\ unsubscribed' = unsubscribed
    BY <1>1 DEF Subscribe, BrokerTypeOK
  <1>5. /\ UserKey' = [UserKey EXCEPT ![c] = u]
        /\ UserSet' = [UserSet EXCEPT ![c] = us]
        /\ TeamKey' = [TeamKey EXCEPT ![c] = o]
        /\ TeamSet' = [TeamSet EXCEPT ![c] = ts]
    <2> HIDE DEF us, ts
    <2> QED
      BY <1>3, <1>4 DEF UserKey, UserSet, TeamKey, TeamSet
  <1>6. Alive' = Alive \cup {c} /\ c \notin Alive
    BY <1>3, <1>4 DEF Alive
  <1>7. UserKey[c] = None /\ TeamKey[c] = None
    BY DEF UserKey, TeamKey
  <1>8. userMembers' = Join(userMembers, us, c) /\ userChannels' = [userChannels EXCEPT ![u] = us]
    BY DEF Subscribe
  <1>9. UserSide'
    <2>1. SideOK(Users, UserKey, UserSet, Alive, userMembers, userChannels, TRUE)
      BY <1>1 DEF UserSide
    <2>2. SideOK(Users, [UserKey EXCEPT ![c] = u], [UserSet EXCEPT ![c] = us], Alive \cup {c},
                 Join(userMembers, us, c), [userChannels EXCEPT ![u] = us], TRUE)
      BY <1>6, <1>7, <2>1, SideJoin, Nones
    <2> QED
      BY <1>5, <1>6, <1>8, <2>2 DEF UserSide
  <1>10. TeamSide'
    <2>1. SideOK(Orgs, TeamKey, TeamSet, Alive, teamMembers, teamChannels, TRUE)
      BY <1>1 DEF TeamSide
    <2>2. CASE o = None
      <3>1. TeamKey' = TeamKey /\ TeamSet' = TeamSet
        BY <1>3, <1>4, <2>2 DEF TeamKey, TeamSet
      <3>2. UNCHANGED <<teamMembers, teamChannels>>
        BY <2>2 DEF Subscribe
      <3>3. SideOK(Orgs, TeamKey, TeamSet, Alive \cup {c}, teamMembers, teamChannels, TRUE)
        BY <1>7, <2>1, SideSkip
      <3> QED
        BY <1>6, <3>1, <3>2, <3>3 DEF TeamSide
    <2>3. CASE o # None
      <3>1. o \in Orgs /\ ts = SetFor(teamChannels, o, c)
        BY <2>3
      <3>2. teamMembers' = Join(teamMembers, ts, c) /\ teamChannels' = [teamChannels EXCEPT ![o] = ts]
        BY <2>3 DEF Subscribe
      <3>3. SideOK(Orgs, [TeamKey EXCEPT ![c] = o], [TeamSet EXCEPT ![c] = ts], Alive \cup {c},
                   Join(teamMembers, ts, c), [teamChannels EXCEPT ![o] = ts], TRUE)
        BY <1>6, <1>7, <2>1, <3>1, SideJoin, Nones
      <3> QED
        BY <1>5, <1>6, <3>2, <3>3 DEF TeamSide
    <2> QED
      BY <2>2, <2>3
  <1> QED
    BY <1>3, <1>4, <1>9, <1>10

\* The closure of a client that is alive: it leaves the sides it was on.
LEMMA RemoveSides ==
  ASSUME BrokerInv, UNCHANGED shuttingDown, NEW c \in Clients,
         subscription[c] # None, c \notin unsubscribed, Remove(c)
  PROVE  UserSide' /\ TeamSide'
  <1> DEFINE sub == subscription[c]
  <1>1. BrokerTypeOK /\ UserSide /\ TeamSide
    BY DEF BrokerInv
  <1>2. sub \in Subscription
    BY <1>1 DEF BrokerTypeOK
  <1>3. /\ UserKey[c] = sub.user /\ UserSet[c] = sub.userSet
        /\ TeamKey[c] = sub.org /\ TeamSet[c] = sub.teamSet
        /\ c \in Alive
    BY DEF UserKey, UserSet, TeamKey, TeamSet, Alive
  <1>4. UserKey' = UserKey /\ UserSet' = UserSet /\ TeamKey' = TeamKey /\ TeamSet' = TeamSet
    BY DEF Remove, UserKey, UserSet, TeamKey, TeamSet
  <1>5. Alive' = Alive \ {c}
    BY DEF Remove, Alive
  <1>6. UserSide'
    <2>1. UserKey[c] # None
      BY <1>2, <1>3, Nones DEF Subscription
    <2>2. /\ userMembers' = Leave(userMembers, UserSet[c], c)
          /\ userChannels' = Drop(userChannels, UserKey[c], userMembers', UserSet[c])
      BY <1>3 DEF Remove
    <2>3. SideOK(Users, UserKey, UserSet, Alive \ {c}, userMembers', userChannels', ~shuttingDown)
      BY <1>1, <1>3, <2>1, <2>2, SideLeave, Nones DEF UserSide
    <2> QED
      BY <1>4, <1>5, <2>3 DEF UserSide
  <1>7. TeamSide'
    <2>1. CASE sub.teamSet = None
      <3>1. TeamKey[c] = None
        BY <1>1, <1>3, <2>1 DEF TeamSide, SideOK, SetsOK
      <3>2. UNCHANGED <<teamMembers, teamChannels>>
        BY <2>1 DEF Remove
      <3>3. SideOK(Orgs, TeamKey, TeamSet, Alive \ {c}, teamMembers, teamChannels, ~shuttingDown)
        BY <1>1, <3>1, SideStays DEF TeamSide
      <3> QED
        BY <1>4, <1>5, <3>2, <3>3 DEF TeamSide
    <2>2. CASE sub.teamSet # None
      <3>1. TeamKey[c] # None
        BY <1>1, <1>3, <2>2 DEF TeamSide, SideOK, SetsOK
      <3>2. /\ teamMembers' = Leave(teamMembers, TeamSet[c], c)
            /\ teamChannels' = Drop(teamChannels, TeamKey[c], teamMembers', TeamSet[c])
        BY <1>3, <2>2 DEF Remove
      <3>3. SideOK(Orgs, TeamKey, TeamSet, Alive \ {c}, teamMembers', teamChannels', ~shuttingDown)
        BY <1>1, <1>3, <3>1, <3>2, SideLeave, Nones DEF TeamSide
      <3> QED
        BY <1>4, <1>5, <3>3 DEF TeamSide
    <2> QED
      BY <2>1, <2>2
  <1> QED
    BY <1>6, <1>7

\* Shutdown clears both sides.
LEMMA ShutdownSides ==
  ASSUME BrokerInv, Shutdown
  PROVE  UserSide' /\ TeamSide'
  <1>1. UserKey' = UserKey /\ UserSet' = UserSet /\ TeamKey' = TeamKey /\ TeamSet' = TeamSet
        /\ Alive' = Alive
    BY DEF Shutdown, UserKey, UserSet, TeamKey, TeamSet, Alive
  <1>2. SideOK(Users, UserKey, UserSet, Alive, userMembers, [u \in Users |-> None], FALSE)
    BY SideClear DEF BrokerInv, UserSide
  <1>3. SideOK(Orgs, TeamKey, TeamSet, Alive, teamMembers, [o \in Orgs |-> None], FALSE)
    BY SideClear DEF BrokerInv, TeamSide
  <1> QED
    BY <1>1, <1>2, <1>3 DEF Shutdown, UserSide, TeamSide

LEMMA StepInv ==
  ASSUME BrokerInv, [BrokerNext]_brokerVars
  PROVE  BrokerInv'
  <1>1. BrokerTypeOK /\ UserSide /\ TeamSide /\ IdleIsNew
    BY DEF BrokerInv
  <1> USE DEF BrokerInv
  <1>2. ASSUME NEW u \in Users, NEW o \in Orgs \cup {None}, SetOrg(u, o)
        PROVE  BrokerInv'
    <2>1. UserSide' /\ TeamSide'
      BY <1>1, <1>2, SidesUnchanged DEF SetOrg
    <2>2. BrokerTypeOK'
      BY <1>1, <1>2 DEF SetOrg, BrokerTypeOK, setVars
    <2> QED
      BY <1>1, <1>2, <2>1, <2>2 DEF SetOrg, IdleIsNew, setVars
  <1>3. ASSUME NEW c \in Clients, NEW u \in Users, OpenStream(c, u)
        PROVE  BrokerInv'
    <2>1. CASE shuttingDown
      <3>1. UserSide' /\ TeamSide'
        BY <1>1, <1>3, <2>1, SidesUnchanged DEF OpenStream
      <3>2. BrokerTypeOK'
        BY <1>1, <1>3, <2>1 DEF OpenStream, BrokerTypeOK, setVars, ConnStates
      <3> QED
        BY <1>1, <1>3, <2>1, <3>1, <3>2 DEF OpenStream, IdleIsNew, setVars, BrokerTypeOK
    <2>2. CASE ~shuttingDown
      <3>1. /\ Subscribe(c, u, orgOf[u]) /\ orgOf[u] \in Orgs \cup {None}
            /\ conn' = [conn EXCEPT ![c] = "open"]
            /\ UNCHANGED <<orgOf, cleanups, shuttingDown, published, inbox>>
        BY <1>1, <1>3, <2>2 DEF OpenStream, BrokerTypeOK
      <3>2. subscription[c] = None /\ c \notin unsubscribed
        BY <1>1, <1>3 DEF OpenStream, IdleIsNew
      <3>3. UserSide' /\ TeamSide' /\ subscription' \in [Clients -> Subscription \cup {None}]
        BY <2>2, <3>1, <3>2, SubscribeSides
      <3>4. BrokerTypeOK'
        BY <1>1, <3>1, <3>3 DEF BrokerTypeOK, UserSide, TeamSide, SideOK, SideTyped, Subscribe, ConnStates
      <3>5. IdleIsNew'
        BY <1>1, <3>1 DEF IdleIsNew, Subscribe, BrokerTypeOK
      <3> QED
        BY <3>3, <3>4, <3>5
    <2> QED
      BY <2>1, <2>2
  <1>4. ASSUME NEW c \in Clients, Close(c)
        PROVE  BrokerInv'
    <2>1. UserSide' /\ TeamSide'
      BY <1>1, <1>4, SidesUnchanged DEF Close
    <2>2. BrokerTypeOK'
      BY <1>1, <1>4 DEF Close, BrokerTypeOK, setVars, ConnStates, MaxCleanups
    <2> QED
      BY <1>1, <1>4, <2>1, <2>2 DEF Close, IdleIsNew, setVars, BrokerTypeOK
  <1>5. ASSUME NEW c \in Clients, Cleanup(c)
        PROVE  BrokerInv'
    <2>1. UserSide' /\ TeamSide'
      BY <1>1, <1>5, SidesUnchanged, RemoveSides DEF Cleanup, Unsubscribe
    <2>2. cleanups' \in [Clients -> 0..MaxCleanups]
      BY <1>1, <1>5 DEF Cleanup, BrokerTypeOK, MaxCleanups
    <2>3. subscription' = subscription /\ unsubscribed' \in {unsubscribed, unsubscribed \cup {c}}
          /\ (unsubscribed' # unsubscribed => subscription[c] # None)
      BY <1>5 DEF Cleanup, Unsubscribe, Remove, setVars
    <2>4. BrokerTypeOK'
      BY <1>1, <1>5, <2>1, <2>2, <2>3
      DEF Cleanup, BrokerTypeOK, UserSide, TeamSide, SideOK, SideTyped
    <2> QED
      BY <1>1, <1>5, <2>1, <2>3, <2>4 DEF Cleanup, IdleIsNew
  <1>6. ASSUME NEW e \in Events, NEW u \in Users, NEW o \in Orgs \cup {None}, Emit(e, u, o)
        PROVE  BrokerInv'
    <2>1. UserSide' /\ TeamSide'
      BY <1>1, <1>6, SidesUnchanged DEF Emit
    <2>2. inbox' \in [Clients -> Seq(Events)]
      BY <1>1, <1>6 DEF Emit, BrokerTypeOK
    <2>3. BrokerTypeOK'
      BY <1>1, <1>6, <2>2 DEF Emit, BrokerTypeOK, streamVars, setVars
    <2> QED
      BY <1>1, <1>6, <2>1, <2>3 DEF Emit, IdleIsNew, streamVars, setVars
  <1>7. CASE Shutdown
    <2>1. UserSide' /\ TeamSide'
      BY <1>7, ShutdownSides
    <2>2. BrokerTypeOK'
      BY <1>1, <1>7 DEF Shutdown, BrokerTypeOK, ConnStates
    <2> QED
      BY <1>1, <1>7, <2>1, <2>2 DEF Shutdown, IdleIsNew
  <1>8. CASE UNCHANGED brokerVars
    <2>1. UserSide' /\ TeamSide'
      BY <1>1, <1>8, SidesUnchanged DEF brokerVars
    <2> QED
      BY <1>1, <1>8, <2>1 DEF brokerVars, streamVars, setVars, BrokerTypeOK, IdleIsNew
  <1> QED
    BY <1>2, <1>3, <1>4, <1>5, <1>6, <1>7, <1>8 DEF BrokerNext, PeerLeaves, StreamFinishes

LEMMA BrokerInvariant == BrokerSpec => []BrokerInv
  <1>1. BrokerInit => BrokerInv
    BY InitInv
  <1>2. BrokerInv /\ [BrokerNext]_brokerVars => BrokerInv'
    BY StepInv
  <1> QED
    BY <1>1, <1>2, PTL DEF BrokerSpec

\* What the invariant says of the channels.
LEMMA ExactFromInv ==
  ASSUME BrokerInv
  PROVE  ChannelsExact
  <1>1. \A c \in Clients : Listening(c) <=> c \in Alive /\ ~shuttingDown
    BY DEF Listening, Alive
  <1>2. \A c \in Alive : c \in Clients /\ UserKey[c] = subscription[c].user /\ TeamKey[c] = subscription[c].org
    BY DEF Alive, UserKey, TeamKey
  <1>3. ASSUME NEW u \in Users
        PROVE  /\ Channel(userChannels, userMembers, u)
                    = {c \in Clients : Listening(c) /\ subscription[c].user = u}
               /\ userChannels[u] # None => Channel(userChannels, userMembers, u) # {}
    <2>1. /\ \A c : c \in Channel(userChannels, userMembers, u)
                     <=> c \in Alive /\ ~shuttingDown /\ UserKey[c] = u
          /\ userChannels[u] # None => Channel(userChannels, userMembers, u) # {}
      <3>1. SideOK(Users, UserKey, UserSet, Alive, userMembers, userChannels, ~shuttingDown)
            /\ None \notin Users
        BY Nones DEF BrokerInv, UserSide
      <3>2. PICK open \in BOOLEAN : open = ~shuttingDown
        OBVIOUS
      <3>3. SideOK(Users, UserKey, UserSet, Alive, userMembers, userChannels, open)
        BY <3>1, <3>2
      <3>4. /\ \A c : c \in Channel(userChannels, userMembers, u)
                     <=> c \in Alive /\ open /\ UserKey[c] = u
            /\ userChannels[u] # None => Channel(userChannels, userMembers, u) # {}
        BY <3>1, <3>3, SideChannel
      <3> QED
        BY <3>2, <3>4
    <2> QED
      BY <1>1, <1>2, <2>1
  <1>4. ASSUME NEW o \in Orgs
        PROVE  /\ Channel(teamChannels, teamMembers, o)
                    = {c \in Clients : Listening(c) /\ subscription[c].org = o}
               /\ teamChannels[o] # None => Channel(teamChannels, teamMembers, o) # {}
    <2>1. /\ \A c : c \in Channel(teamChannels, teamMembers, o)
                     <=> c \in Alive /\ ~shuttingDown /\ TeamKey[c] = o
          /\ teamChannels[o] # None => Channel(teamChannels, teamMembers, o) # {}
      <3>1. SideOK(Orgs, TeamKey, TeamSet, Alive, teamMembers, teamChannels, ~shuttingDown)
            /\ None \notin Orgs
        BY Nones DEF BrokerInv, TeamSide
      <3>2. PICK open \in BOOLEAN : open = ~shuttingDown
        OBVIOUS
      <3>3. SideOK(Orgs, TeamKey, TeamSet, Alive, teamMembers, teamChannels, open)
        BY <3>1, <3>2
      <3>4. /\ \A c : c \in Channel(teamChannels, teamMembers, o)
                     <=> c \in Alive /\ open /\ TeamKey[c] = o
            /\ teamChannels[o] # None => Channel(teamChannels, teamMembers, o) # {}
        BY <3>1, <3>3, SideChannel
      <3> QED
        BY <3>2, <3>4
    <2> QED
      BY <1>1, <1>2, <2>1
  <1> QED
    BY <1>3, <1>4 DEF ChannelsExact

\* For any number of clients of a channel, coming and going in any order: the
\* maps hold exactly the clients that listen.
THEOREM ChannelsCorrect == BrokerSpec => []ChannelsExact
  <1>1. BrokerInv => ChannelsExact
    BY ExactFromInv
  <1> QED
    BY <1>1, BrokerInvariant, PTL
-----------------------------------------------------------------------------
(* The connections: an open one is subscribed, and has been told of a       *)
(* shutdown; a closed one is, until the last of its listeners has run.      *)

Settled(c) ==
  /\ conn[c] = "open" => c \in Alive /\ ~shuttingDown
  /\ cleanups[c] > 0 => conn[c] = "closed"
  /\ conn[c] = "closed" => cleanups[c] > 0 \/ c \notin Alive

AllSettled == \A c \in Clients : Settled(c)

\* The others are left alone.
LEMMA OthersSettled ==
  ASSUME AllSettled, NEW c \in Clients, NEW d \in Clients \ {c},
         conn'[d] = conn[d], cleanups'[d] = cleanups[d], shuttingDown' = shuttingDown,
         d \in Alive' <=> d \in Alive
  PROVE  Settled(d)'
BY DEF AllSettled, Settled

LEMMA SettledStep ==
  ASSUME BrokerInv, AllSettled, [BrokerNext]_brokerVars
  PROVE  AllSettled'
<1>1. BrokerTypeOK /\ IdleIsNew
  BY DEF BrokerInv
<1>2. ASSUME NEW c \in Clients, NEW u \in Users, OpenStream(c, u)
      PROVE  AllSettled'
  <2>1. \A d \in Clients \ {c} :
          /\ conn'[d] = conn[d] /\ cleanups'[d] = cleanups[d] /\ shuttingDown' = shuttingDown
          /\ d \in Alive' <=> d \in Alive
    BY <1>1, <1>2 DEF OpenStream, Subscribe, setVars, Alive, BrokerTypeOK
  <2>2. conn[c] = "idle" /\ cleanups[c] = 0 /\ cleanups'[c] = 0
    <3>1. conn[c] = "idle" /\ cleanups' = cleanups
      BY <1>2 DEF OpenStream
    <3>2. cleanups[c] \in 0..MaxCleanups
      BY <1>1 DEF BrokerTypeOK
    <3>3. ~(cleanups[c] > 0)
      BY <3>1 DEF AllSettled, Settled
    <3> QED
      BY <3>1, <3>2, <3>3 DEF MaxCleanups
  <2>3. CASE shuttingDown
    <3>1. conn'[c] = "ended"
      BY <1>1, <1>2, <2>3 DEF OpenStream, BrokerTypeOK
    <3>2. Settled(c)'
      BY <2>2, <3>1 DEF Settled
    <3> QED
      BY <2>1, <3>2, OthersSettled DEF AllSettled
  <2>4. CASE ~shuttingDown
    <3>1. conn'[c] = "open" /\ ~shuttingDown'
      BY <1>1, <1>2, <2>4 DEF OpenStream, BrokerTypeOK
    <3>2. subscription'[c] \in Subscription /\ unsubscribed' = unsubscribed
      BY <1>1, <1>2, <2>4
      DEF OpenStream, Subscribe, SetFor, BrokerTypeOK, Subscription
    <3>3. c \in Alive'
      BY <1>1, <2>2, <3>2, BrokerNone DEF Alive, IdleIsNew
    <3>4. Settled(c)'
      BY <2>2, <3>1, <3>3 DEF Settled
    <3> QED
      BY <2>1, <3>4, OthersSettled DEF AllSettled
  <2> QED
    BY <2>3, <2>4
<1>3. ASSUME NEW c \in Clients, Close(c)
      PROVE  AllSettled'
  <2>1. conn'[c] = "closed" /\ cleanups'[c] > 0
    BY <1>1, <1>3 DEF Close, BrokerTypeOK, MaxCleanups
  <2>2. Settled(c)'
    BY <2>1 DEF Settled
  <2>3. \A d \in Clients \ {c} :
          /\ conn'[d] = conn[d] /\ cleanups'[d] = cleanups[d] /\ shuttingDown' = shuttingDown
          /\ d \in Alive' <=> d \in Alive
    BY <1>1, <1>3 DEF Close, setVars, Alive, BrokerTypeOK
  <2> QED
    BY <2>2, <2>3, OthersSettled DEF AllSettled
<1>4. ASSUME NEW c \in Clients, Cleanup(c)
      PROVE  AllSettled'
  <2>1. c \notin Alive'
    BY <1>1, <1>4 DEF Cleanup, Unsubscribe, Remove, setVars, Alive
  <2>2. conn[c] = "closed" /\ conn'[c] = "closed"
    BY <1>4 DEF Cleanup, AllSettled, Settled
  <2>3. Settled(c)'
    BY <2>1, <2>2 DEF Settled
  <2>4. \A d \in Clients \ {c} :
          /\ conn'[d] = conn[d] /\ cleanups'[d] = cleanups[d] /\ shuttingDown' = shuttingDown
          /\ d \in Alive' <=> d \in Alive
    BY <1>1, <1>4 DEF Cleanup, Unsubscribe, Remove, setVars, Alive, BrokerTypeOK
  <2> QED
    BY <2>3, <2>4, OthersSettled DEF AllSettled
<1>5. CASE Shutdown
  <2>1. ASSUME NEW c \in Clients, conn[c] = "open"
        PROVE  conn'[c] # "open"
    <3>1. Listening(c) /\ subscription[c].user \in Users
      BY <1>1, <2>1, BrokerNone
      DEF AllSettled, Settled, Alive, Listening, BrokerTypeOK, Subscription
    <3>2. c \in Channel(userChannels, userMembers, subscription[c].user)
      BY <3>1, ExactFromInv DEF ChannelsExact
    <3> QED
      BY <1>1, <1>5, <2>1, <3>1, <3>2 DEF Shutdown, BrokerTypeOK
  <2>2. ASSUME NEW c \in Clients
        PROVE  /\ conn'[c] # "open" /\ cleanups'[c] = cleanups[c]
               /\ conn'[c] = "closed" <=> conn[c] = "closed"
               /\ c \in Alive' <=> c \in Alive
    BY <1>1, <1>5, <2>1 DEF Shutdown, BrokerTypeOK, Alive
  <2> QED
    BY <2>2 DEF AllSettled, Settled
<1>6. CASE UNCHANGED <<conn, cleanups, shuttingDown, subscription, unsubscribed>>
  BY <1>6 DEF AllSettled, Settled, Alive
<1> QED
  BY <1>2, <1>3, <1>4, <1>5, <1>6
  DEF BrokerNext, SetOrg, Emit, PeerLeaves, StreamFinishes, brokerVars, streamVars, setVars

\* For any number of connections: whichever of its listeners run, and however
\* its user moves between orgs, a closed connection is in no Set when they
\* have run, and no stream stays open, or is opened, past a shutdown.
THEOREM StreamsCorrect == BrokerSpec => []StreamsInOrder
<1>1. BrokerInit => AllSettled
  BY DEF BrokerInit, AllSettled, Settled
<1>2. BrokerInv /\ AllSettled /\ [BrokerNext]_brokerVars => AllSettled'
  BY SettledStep
<1>3. ASSUME BrokerInv, AllSettled
      PROVE  StreamsInOrder
  <2>1. BrokerTypeOK /\ NoneLeftOpen
    BY <1>3 DEF BrokerInv, AllSettled, Settled, NoneLeftOpen
  <2>2. ASSUME NEW c \in Clients, conn[c] = "closed", cleanups[c] = 0
        PROVE  InNoSet(c)
    <3>1. c \notin Alive
      BY <1>3, <2>2 DEF AllSettled, Settled
    <3>2. SetsOK(UserKey, UserSet, Alive, userMembers) /\ SetsOK(TeamKey, TeamSet, Alive, teamMembers)
      BY <1>3 DEF BrokerInv, UserSide, TeamSide, SideOK
    <3> QED
      BY <3>1, <3>2 DEF SetsOK, InNoSet
  <2> QED
    BY <2>1, <2>2 DEF StreamsInOrder, CleanupSuffices
<1> QED
  BY <1>1, <1>2, <1>3, BrokerInvariant, PTL DEF BrokerSpec
-----------------------------------------------------------------------------
(* Refinement of EventFeed. *)

Heard == [c \in Clients |->
  IF Listening(c) THEN [user |-> subscription[c].user, org |-> subscription[c].org] ELSE None]
Gone == {c \in Clients : subscription[c] # None /\ ~Listening(c)}

\* A step that changes neither what is published nor who subscribed, and only
\* ends the listening of some clients, is a Stop.
LEMMA StopStep ==
  ASSUME NEW S \in SUBSET Clients, UNCHANGED <<published, inbox, subscription>>,
         \A c \in S : subscription[c] # None,
         \A c \in Clients : Listening(c)' <=> Listening(c) /\ c \notin S
  PROVE  Feed!Stop(S)
  <1>1. Heard' = [c \in Clients |-> IF c \in S THEN None ELSE Heard[c]]
    BY DEF Heard
  <1>2. Gone' = Gone \cup S
    BY DEF Gone
  <1> QED
    BY <1>1, <1>2 DEF Feed!Stop, Heard, Gone

LEMMA StepRefines ==
  ASSUME BrokerInv, [BrokerNext]_brokerVars
  PROVE  [Feed!FeedNext]_(Feed!feedVars)
  <1>1. BrokerTypeOK /\ IdleIsNew /\ ChannelsExact
    BY ExactFromInv DEF BrokerInv
  <1>2. ASSUME UNCHANGED setVars, UNCHANGED <<shuttingDown, published, inbox>>
        PROVE  UNCHANGED Feed!feedVars
    BY <1>2 DEF setVars, Feed!feedVars, Listening
  <1>3. ASSUME NEW c \in Clients, NEW u \in Users, OpenStream(c, u)
        PROVE  Feed!FeedNext \/ UNCHANGED Feed!feedVars
    <2>1. CASE shuttingDown
      BY <1>2, <1>3, <2>1 DEF OpenStream
    <2>2. CASE ~shuttingDown
      <3>0. PICK o \in Orgs \cup {None} : o = orgOf[u]
        BY <1>1 DEF BrokerTypeOK
      <3> DEFINE sub == [user |-> u, org |-> o, userSet |-> SetFor(userChannels, u, c),
                         teamSet |-> IF o = None THEN None ELSE SetFor(teamChannels, o, c)]
      <3>1. sub # None
        <4>1. sub \in Subscription
          BY <1>1 DEF BrokerTypeOK, Subscription, SetFor
        <4> QED
          BY <4>1, Nones
      <3>2. /\ subscription' = [subscription EXCEPT ![c] = sub]
            /\ UNCHANGED <<unsubscribed, shuttingDown, published, inbox>>
            /\ subscription[c] = None /\ c \notin unsubscribed
            /\ subscription \in [Clients -> Subscription \cup {None}]
        BY <1>1, <1>3, <2>2, <3>0 DEF OpenStream, Subscribe, IdleIsNew, BrokerTypeOK
      <3>3. sub.user = u /\ sub.org = o
        OBVIOUS
      <3> HIDE DEF sub
      <3>4. /\ Listening(c)' /\ ~Listening(c)
            /\ \A d \in Clients \ {c} : /\ Listening(d)' <=> Listening(d)
                                        /\ subscription'[d] = subscription[d]
        BY <2>2, <3>1, <3>2 DEF Listening
      <3>5. subscription'[c] = sub
        BY <3>2
      <3>6. Heard' = [Heard EXCEPT ![c] = [user |-> u, org |-> o]] /\ Heard[c] = None
        BY <3>3, <3>4, <3>5 DEF Heard
      <3>7. Gone' = Gone /\ c \notin Gone
        BY <3>2, <3>4 DEF Gone
      <3>8. Feed!Listen(c, u, o)
        BY <3>2, <3>6, <3>7 DEF Feed!Listen, Heard, Gone
      <3> QED
        BY <3>8 DEF Feed!FeedNext
    <2> QED
      BY <2>1, <2>2
  <1>4. ASSUME NEW c \in Clients, Cleanup(c)
        PROVE  Feed!FeedNext \/ UNCHANGED Feed!feedVars
    <2>1. CASE subscription[c] = None \/ c \in unsubscribed
      BY <1>2, <1>4, <2>1 DEF Cleanup, Unsubscribe
    <2>2. CASE subscription[c] # None /\ c \notin unsubscribed
      <3>1. /\ unsubscribed' = unsubscribed \cup {c}
            /\ UNCHANGED <<published, inbox, subscription, shuttingDown>>
        BY <1>4, <2>2 DEF Cleanup, Unsubscribe, Remove
      <3>2. Feed!Stop({c})
        <4>1. \A d \in Clients : Listening(d)' <=> Listening(d) /\ d \notin {c}
          BY <3>1 DEF Listening
        <4> QED
          BY <2>2, <3>1, <4>1, StopStep
      <3> QED
        BY <3>2 DEF Feed!FeedNext
    <2> QED
      BY <2>1, <2>2
  <1>5. ASSUME NEW e \in Events, NEW u \in Users, NEW o \in Orgs \cup {None}, Emit(e, u, o)
        PROVE  Feed!FeedNext
    <2>1. UNCHANGED Heard /\ UNCHANGED Gone
      BY <1>5 DEF Emit, setVars, Heard, Gone, Listening
    <2>2. ASSUME NEW c \in Clients
          PROVE  (~shuttingDown /\ c \in Recipients(u, o)) <=> Feed!Concerns(Heard[c], u, o)
      <3>1. c \in Channel(userChannels, userMembers, u) <=> Listening(c) /\ subscription[c].user = u
        BY <1>1 DEF ChannelsExact
      <3>2. o # None => (c \in Channel(teamChannels, teamMembers, o)
                           <=> Listening(c) /\ subscription[c].org = o)
        BY <1>1 DEF ChannelsExact
      <3>3. CASE Listening(c)
        <4>1. subscription[c] \in Subscription /\ ~shuttingDown
          BY <1>1, <3>3 DEF BrokerTypeOK, Listening
        <4>2. Heard[c] = [user |-> subscription[c].user, org |-> subscription[c].org]
          BY <3>3 DEF Heard
        <4>3. Heard[c] # None
          BY <4>1, <4>2, Nones DEF Subscription, Scope
        <4> QED
          BY <3>1, <3>2, <3>3, <4>1, <4>2, <4>3 DEF Recipients, Feed!Concerns
      <3>4. CASE ~Listening(c)
        BY <3>1, <3>2, <3>4 DEF Recipients, Feed!Concerns, Heard
      <3> QED
        BY <3>3, <3>4
    <2>3. inbox' = [c \in Clients |-> IF Feed!Concerns(Heard[c], u, o)
                                     THEN Append(inbox[c], e) ELSE inbox[c]]
      BY <1>5, <2>2 DEF Emit
    <2>4. Feed!Publish(e, u, o)
      BY <1>5, <2>1, <2>3 DEF Emit, Feed!Publish, Heard, Gone
    <2> QED
      BY <2>4 DEF Feed!FeedNext
  <1>6. CASE Shutdown
    <2>0. PICK S \in SUBSET Clients : S = {c \in Clients : subscription[c] # None}
      OBVIOUS
    <2>1. /\ \A c \in S : subscription[c] # None
          /\ UNCHANGED <<published, inbox, subscription>>
          /\ \A c \in Clients : Listening(c)' <=> Listening(c) /\ c \notin S
      BY <1>6, <2>0 DEF Shutdown, Listening
    <2>2. Feed!Stop(S)
      BY <2>1, StopStep
    <2> QED
      BY <2>1, <2>2 DEF Feed!FeedNext
  <1> QED
    BY <1>2, <1>3, <1>4, <1>5, <1>6
    DEF BrokerNext, SetOrg, PeerLeaves, StreamFinishes, Close, brokerVars

\* For any number of clients, users, orgs and events: each client is handed
\* every event of its scopes once, in order, from subscribe to its first close
\* callback or shutdown.
THEOREM BrokerRefinesFeed == BrokerSpec => ImplementsFeed
  <1>1. BrokerInit => Feed!FeedInit
    <2> SUFFICES ASSUME BrokerInit
                 PROVE  Feed!FeedInit
      OBVIOUS
    <2>1. Heard = [c \in Clients |-> None] /\ Gone = {}
      BY DEF BrokerInit, Heard, Gone, Listening
    <2> QED
      BY <2>1 DEF BrokerInit, Feed!FeedInit, Heard, Gone
  <1>2. BrokerInv /\ [BrokerNext]_brokerVars => [Feed!FeedNext]_(Feed!feedVars)
    BY StepRefines
  <1> QED
    BY <1>1, <1>2, BrokerInvariant, PTL DEF BrokerSpec, ImplementsFeed, Feed!FeedSpec
=============================================================================
