--------------------------- MODULE ExtensionProofs ---------------------------
(***************************************************************************)
(* A conversation is written back once, unless the user asks to save or    *)
(* the script cannot know: for any number of messages, interceptions,      *)
(* write-backs and faults.                                                 *)
(*                                                                         *)
(* A write-back that may still store a memory is either the one of this    *)
(* page, which runs only while written is false, or an orphan, which the   *)
(* reload that made it has paid for.  So what is stored, what the orphans  *)
(* may still store and what this page may still store stay within what the *)
(* user, the reloads and the lost answers excuse.                          *)
(*                                                                         *)
(* And a message held back is kept, while interceptions do not overlap: it *)
(* is in the input when its interception starts, and when SendOriginal     *)
(* drops it, it has been sent or taken out of the input.                   *)
(***************************************************************************)
EXTENDS Extension, FiniteSetTheorems, TLAPS

Live(j) == job[j] \in {"streaming", "chat", "post"}
Orphans == {j \in Jobs : job[j] \in {"orphan", "posting"}}
Credit == IF written THEN 0 ELSE 1

JobTypes ==
  /\ job \in [Jobs -> {"idle", "streaming", "chat", "post", "orphan", "posting"}]
  /\ written \in BOOLEAN
  /\ stored \in Nat /\ asked \in Nat /\ reloads \in Nat /\ lost \in Nat

\* writeInProgress is the lock that it is meant to be.
OneWriter ==
  /\ \A j \in Jobs : Live(j) => writing /\ ~written
  /\ \A i, j \in Jobs : Live(i) /\ Live(j) => i = j

Balance ==
  /\ IsFiniteSet(Orphans)
  /\ stored + Cardinality(Orphans) + Credit <= 1 + asked + reloads + lost

WriteInv == JobTypes /\ OneWriter /\ Balance

writeState == <<job, writing, written, stored, asked, reloads, lost>>

-----------------------------------------------------------------------------
(* The orphans. *)

LEMMA NoOrphans ==
  ASSUME Orphans = {}
  PROVE  IsFiniteSet(Orphans) /\ Cardinality(Orphans) = 0
BY FS_EmptySet

LEMMA OrphanLeaves ==
  ASSUME IsFiniteSet(Orphans), NEW j \in Orphans, Orphans' = Orphans \ {j}
  PROVE  /\ IsFiniteSet(Orphans')
         /\ Cardinality(Orphans)  \in Nat
         /\ Cardinality(Orphans') = Cardinality(Orphans) - 1
BY FS_RemoveElement, FS_CardinalityType

LEMMA OrphanJoins ==
  ASSUME IsFiniteSet(Orphans), NEW j, j \notin Orphans, Orphans' = Orphans \cup {j}
  PROVE  /\ IsFiniteSet(Orphans')
         /\ Cardinality(Orphans) \in Nat
         /\ Cardinality(Orphans') = Cardinality(Orphans) + 1
BY FS_AddElement, FS_CardinalityType

-----------------------------------------------------------------------------
(* The steps. *)

LEMMA ExtensionInitInv == ExtensionInit => WriteInv
<1> SUFFICES ASSUME ExtensionInit PROVE WriteInv
  OBVIOUS
<1>1. JobTypes /\ OneWriter
  BY DEF ExtensionInit, JobTypes, OneWriter, Live
<1>2. Orphans = {}
  BY DEF ExtensionInit, Orphans
<1>3. Balance
  BY <1>2, NoOrphans DEF ExtensionInit, Balance, Credit
<1> QED
  BY <1>1, <1>3 DEF WriteInv

\* The page, the priming and the timers have no part in it.
LEMMA StepsAside == WriteInv /\ UNCHANGED writeState => WriteInv'
BY DEF WriteInv, writeState, JobTypes, OneWriter, Balance, Live, Orphans, Credit

LEMMA AskKeeps ==
  ASSUME WriteInv, NEW explicit \in BOOLEAN, Ask(explicit),
         UNCHANGED <<job, writing, stored, reloads, lost>>
  PROVE  WriteInv'
<1>1. JobTypes'
  BY DEF WriteInv, JobTypes, Ask
<1>2. OneWriter'
  BY DEF WriteInv, OneWriter, Live, Ask, JobTypes
<1>3. Orphans' = Orphans
  BY DEF Orphans
<1>4. /\ Credit \in {0, 1}
      /\ \/ asked' = asked /\ Credit' = Credit
         \/ asked' = asked + 1 /\ Credit' = 1
  BY DEF WriteInv, JobTypes, Credit, Ask
<1>5. Cardinality(Orphans) \in Nat
  BY FS_CardinalityType DEF WriteInv, Balance
<1>6. Balance'
  <2>1. stored + Cardinality(Orphans) + Credit <= 1 + asked + reloads + lost
    BY DEF WriteInv, Balance
  <2>2. asked \in Nat /\ asked' \in Nat /\ stored \in Nat /\ reloads \in Nat /\ lost \in Nat
    BY <1>1 DEF WriteInv, JobTypes
  <2>3. stored + Cardinality(Orphans) + Credit' <= 1 + asked' + reloads + lost
    BY <1>4, <1>5, <2>1, <2>2
  <2> QED
    BY <1>3, <2>3 DEF WriteInv, Balance
<1> QED
  BY <1>1, <1>2, <1>6 DEF WriteInv

\* The guard reads writeInProgress and sets it without an await in between.
LEMMA FireKeeps ==
  ASSUME WriteInv, NEW j \in Jobs, Fire(j)
  PROVE  WriteInv'
<1> USE DEF Fire, flags, counters
<1>1. JobTypes'
  BY DEF WriteInv, JobTypes
<1>2. \A i \in Jobs : ~Live(i)
  BY DEF WriteInv, OneWriter
<1>3. \A i \in Jobs : Live(i)' => i = j
  BY <1>2 DEF Live, WriteInv, JobTypes
<1>4. OneWriter'
  BY <1>3 DEF OneWriter
<1>5. Orphans' = Orphans
  BY DEF Orphans, WriteInv, JobTypes
<1>6. Balance'
  BY <1>5 DEF WriteInv, Balance, Credit
<1> QED
  BY <1>1, <1>4, <1>6 DEF WriteInv

LEMMA JobGoesOn ==
  ASSUME WriteInv, NEW j \in Jobs,
         AskFails(j) \/ Extract(j) \/ GiveUp(j) \/ Summarize(j)
  PROVE  WriteInv'
<1> USE DEF AskFails, Extract, GiveUp, Summarize, flags, counters
<1>1. JobTypes'
  BY DEF WriteInv, JobTypes
<1>2. \A i \in Jobs : Live(i)' => Live(i)
  BY DEF Live, WriteInv, JobTypes
<1>3. \A i \in Jobs : Live(i)' => writing'
  <2>1. CASE GiveUp(j)
    <3>1. \A i \in Jobs : ~Live(i)'
      BY <2>1, <1>2 DEF Live, WriteInv, JobTypes, OneWriter
    <3> QED BY <3>1
  <2>2. CASE AskFails(j) \/ Extract(j) \/ Summarize(j)
    BY <2>2, <1>2 DEF WriteInv, OneWriter
  <2> QED BY <2>1, <2>2
<1>4. OneWriter'
  BY <1>2, <1>3 DEF WriteInv, OneWriter
<1>5. Orphans' = Orphans
  BY DEF Orphans, WriteInv, JobTypes
<1>6. Balance'
  BY <1>5 DEF WriteInv, Balance, Credit
<1> QED
  BY <1>1, <1>4, <1>6 DEF WriteInv

LEMMA StoreKeeps ==
  ASSUME WriteInv, NEW j \in Jobs, Store(j) \/ StoreUnheard(j)
  PROVE  WriteInv'
<1> USE DEF Store, StoreUnheard, flags
<1>1. JobTypes'
  <2>1. CASE Store(j)
    BY <2>1 DEF WriteInv, JobTypes, counters
  <2>2. CASE StoreUnheard(j)
    BY <2>2 DEF WriteInv, JobTypes
  <2> QED BY <2>1, <2>2
<1>2. Live(j) /\ ~written
  BY DEF WriteInv, OneWriter, Live
<1>3. \A i \in Jobs : ~Live(i)'
  BY <1>2 DEF Live, WriteInv, JobTypes, OneWriter
<1>4. OneWriter'
  BY <1>3 DEF OneWriter
<1>5. Orphans' = Orphans
  BY DEF Orphans, WriteInv, JobTypes
<1>6. Cardinality(Orphans) \in Nat
  BY FS_CardinalityType DEF WriteInv, Balance
<1>7. Balance'
  <2>1. CASE Store(j)
    BY <2>1, <1>2, <1>5, <1>6 DEF WriteInv, JobTypes, Balance, Credit, counters
  <2>2. CASE StoreUnheard(j)
    BY <2>2, <1>2, <1>5, <1>6 DEF WriteInv, JobTypes, Balance, Credit
  <2> QED BY <2>1, <2>2
<1> QED
  BY <1>1, <1>4, <1>7 DEF WriteInv

LEMMA StoreOrphanKeeps ==
  ASSUME WriteInv, NEW j \in Jobs, StoreOrphan(j)
  PROVE  WriteInv'
<1> USE DEF StoreOrphan, flags, counters
<1>1. JobTypes'
  BY DEF WriteInv, JobTypes
<1>2. \A i \in Jobs : Live(i)' => Live(i)
  BY DEF Live, WriteInv, JobTypes
<1>3. OneWriter'
  BY <1>2 DEF WriteInv, OneWriter
<1>4. j \in Orphans /\ Orphans' = Orphans \ {j}
  BY DEF Orphans, WriteInv, JobTypes
<1>5. /\ IsFiniteSet(Orphans')
      /\ Cardinality(Orphans) \in Nat
      /\ Cardinality(Orphans') = Cardinality(Orphans) - 1
  BY <1>4, OrphanLeaves DEF WriteInv, Balance
<1>6. stored' <= stored + 1
  BY DEF WriteInv, JobTypes
<1>7. Balance'
  BY <1>1, <1>5, <1>6 DEF WriteInv, JobTypes, Balance, Credit
<1> QED
  BY <1>1, <1>3, <1>7 DEF WriteInv

\* At most one write-back is orphaned: there was at most one.
LEMMA ReloadKeeps ==
  ASSUME WriteInv, Reload
  PROVE  WriteInv'
<1> USE DEF Reload, flags
<1>1. JobTypes'
  BY DEF WriteInv, JobTypes
<1>2. OneWriter'
  BY DEF OneWriter, Live
<1>3. /\ Orphans' \subseteq Jobs
      /\ \A j \in Jobs : j \in Orphans' <=> job[j] \in {"orphan", "posting", "chat", "post"}
  BY DEF Orphans
<1>4. Cardinality(Orphans) \in Nat
  BY FS_CardinalityType DEF WriteInv, Balance
<1>5. IsFiniteSet(Orphans') /\ Cardinality(Orphans') <= Cardinality(Orphans) + 1
  <2>1. CASE \E j \in Jobs : job[j] \in {"chat", "post"}
    <3>1. PICK j \in Jobs : job[j] \in {"chat", "post"}
      BY <2>1
    <3>2. \A i \in Jobs : job[i] \in {"chat", "post"} => i = j
      BY <3>1 DEF WriteInv, OneWriter, Live
    <3>3. j \notin Orphans /\ Orphans' = Orphans \cup {j}
      BY <3>1, <3>2, <1>3 DEF Orphans
    <3>4. /\ IsFiniteSet(Orphans')
          /\ Cardinality(Orphans') = Cardinality(Orphans) + 1
      BY <3>3, OrphanJoins DEF WriteInv, Balance
    <3> QED
      BY <3>4, <1>4
  <2>2. CASE ~ \E j \in Jobs : job[j] \in {"chat", "post"}
    <3>1. Orphans' = Orphans
      BY <2>2, <1>3 DEF Orphans
    <3> QED
      BY <3>1, <1>4 DEF WriteInv, Balance
  <2> QED BY <2>1, <2>2
<1>6. Cardinality(Orphans') \in Nat
  BY <1>5, FS_CardinalityType
<1>7. Balance'
  BY <1>1, <1>4, <1>5, <1>6 DEF WriteInv, JobTypes, Balance, Credit
<1> QED
  BY <1>1, <1>2, <1>7 DEF WriteInv

LEMMA ExtensionStep == WriteInv /\ [ExtensionNext]_extensionVars => WriteInv'
<1> SUFFICES ASSUME WriteInv, [ExtensionNext]_extensionVars PROVE WriteInv'
  OBVIOUS
<1> USE DEF writeState, flags, writeVars, counters
<1>1. CASE UNCHANGED extensionVars
  BY <1>1, StepsAside DEF extensionVars
<1>2. CASE \E m \in Messages : Type(m)
  BY <1>2, StepsAside DEF Type
<1>3. CASE EnterNative
  <2>1. CASE \E explicit \in BOOLEAN : Ask(explicit)
    BY <1>3, <2>1, AskKeeps DEF EnterNative
  <2>2. CASE AskNothing
    BY <1>3, <2>2, StepsAside DEF EnterNative, AskNothing
  <2> QED BY <1>3, <2>1, <2>2 DEF EnterNative
<1>4. CASE ClickSend \/ Clear \/ RemoveInput \/ RestoreInput \/ FireInVain
  BY <1>4, StepsAside DEF ClickSend, Clear, RemoveInput, RestoreInput, FireInVain
<1>5. CASE Reload
  BY <1>5, ReloadKeeps
<1>6. ASSUME NEW f \in Flows,
             \/ EnterUnprimed(f) \/ EnterFirst(f) \/ AuthFails(f)
             \/ Answer(f) \/ Proceed(f) \/ Click(f) \/ Recover(f)
      PROVE  WriteInv'
  <2>1. CASE EnterUnprimed(f) \/ EnterFirst(f) \/ AuthFails(f) \/ Recover(f)
    BY <2>1, StepsAside DEF EnterUnprimed, EnterFirst, AuthFails, Recover
  <2>2. CASE Answer(f)
    BY <2>2, StepsAside
       DEF Answer, Refused, Authenticated, NothingFound, NoMemories, Prime
  <2>3. CASE AfterRetries(f) \/ SendMessage(f)
    BY <2>3, StepsAside DEF AfterRetries, SendMessage
  <2>4. CASE Click(f) \/ TriggerSend(f)
    <3>1. CASE \E explicit \in BOOLEAN : Ask(explicit)
      BY <2>4, <3>1, AskKeeps DEF Click, TriggerSend
    <3>2. CASE AskNothing
      BY <2>4, <3>2, StepsAside DEF Click, TriggerSend, AskNothing
    <3> QED
      BY <2>4, <3>1, <3>2 DEF Click, TriggerSend, HearClick
  <2> QED BY <1>6, <2>1, <2>2, <2>3, <2>4 DEF Proceed
<1>7. ASSUME NEW j \in Jobs, WriteStep(j) PROVE WriteInv'
  BY <1>7, FireKeeps, JobGoesOn, StoreKeeps, StoreOrphanKeeps DEF WriteStep
<1> QED
  BY <1>1, <1>2, <1>3, <1>4, <1>5, <1>6, <1>7 DEF ExtensionNext

\* A conversation is written back once, but for what the user asked to save,
\* reloads and lost answers: writeInProgress and writtenBack are enough to
\* tell timers and awaits apart.
THEOREM ConversationWrittenOnce == ExtensionSpec => []WritesExcused
<1>1. WriteInv => WritesExcused
  <2> SUFFICES ASSUME WriteInv PROVE WritesExcused
    OBVIOUS
  <2>1. Cardinality(Orphans) \in Nat
    BY FS_CardinalityType DEF WriteInv, Balance
  <2> QED
    BY <2>1 DEF WriteInv, JobTypes, Balance, Credit, WritesExcused
<1> QED
  BY <1>1, ExtensionInitInv, ExtensionStep, PTL DEF ExtensionSpec

\* While a write-back of this page is under way, no second one starts, and the
\* page has not been told of a memory: writeInProgress is a lock.
THEOREM WriteBackExclusive == ExtensionSpec => [](JobTypes /\ OneWriter)
<1>1. WriteInv => JobTypes /\ OneWriter
  BY DEF WriteInv
<1> QED
  BY <1>1, ExtensionInitInv, ExtensionStep, PTL DEF ExtensionSpec
-----------------------------------------------------------------------------
(* The interceptions.                                                      *)

Places == {"idle", "auth", "search", "fallback", "primer", "ack", "message", "recover", "resend"}

FlowOK == flow \in [Flows -> [at : Places, msg : Messages \cup {None}]]

PageOK ==
  /\ primed \in BOOLEAN /\ priming \in BOOLEAN /\ inline \in BOOLEAN
  /\ box \in BOOLEAN /\ missed \in BOOLEAN
  /\ input \in Text
  /\ reloads \in Nat

FlowTypes == FlowOK /\ PageOK

\* What the write-backs leave alone.
interceptionState ==
  <<flow, primed, priming, inline, box, input, sent, taken, cleared, missed, reloads>>

LEMMA WritesApart ==
  ASSUME \/ \E j \in Jobs : WriteStep(j)
         \/ FireInVain
         \/ UNCHANGED extensionVars
  PROVE  UNCHANGED interceptionState
BY DEF WriteStep, Fire, AskFails, Extract, GiveUp, Summarize, Store, StoreUnheard, StoreOrphan,
       FireInVain, interceptionState, extensionVars, flags, pageVars, writeVars, history, counters

LEMMA Texts ==
  /\ Empty \in Text /\ Primer \in Text
  /\ \A m \in Messages \cup {None} : Plain(m) \in Text /\ Inlined(m) \in Text
BY DEF Text, Empty, Primer, Plain, Inlined

LEMMA FlowMoves ==
  ASSUME FlowOK, NEW f \in Flows, NEW at \in Places
  PROVE  /\ [flow EXCEPT ![f].at = at] \in [Flows -> [at : Places, msg : Messages \cup {None}]]
         /\ \A m \in Messages \cup {None} :
              [flow EXCEPT ![f] = [at |-> at, msg |-> m]]
                \in [Flows -> [at : Places, msg : Messages \cup {None}]]
         /\ [flow EXCEPT ![f] = Idle] \in [Flows -> [at : Places, msg : Messages \cup {None}]]
         /\ flow[f].msg \in Messages \cup {None}
BY DEF FlowOK, Idle, Places

LEMMA FlowOKKept == FlowTypes /\ [ExtensionNext]_extensionVars => FlowOK'
<1> SUFFICES ASSUME FlowTypes, [ExtensionNext]_extensionVars PROVE FlowOK'
  OBVIOUS
<1>0. FlowOK /\ \A p \in {"auth", "search", "fallback", "primer", "ack", "message", "recover",
                          "resend"} : p \in Places
  BY DEF FlowTypes, Places
<1>1. CASE flow' = flow
  BY <1>0, <1>1 DEF FlowOK
<1>2. CASE Reload
  BY <1>2 DEF Reload, FlowOK, Idle, Places
<1>3. ASSUME NEW f \in Flows, EnterUnprimed(f) \/ EnterFirst(f)
      PROVE  FlowOK'
  <2>1. input.carries \in Messages \cup {None}
    BY DEF FlowTypes, PageOK, Text
  <2> QED
    BY <1>0, <1>3, <2>1, FlowMoves DEF EnterUnprimed, EnterFirst, FlowOK
<1>4. ASSUME NEW f \in Flows, Refused(f) \/ AuthFails(f) \/ NoMemories(f) \/ AfterRetries(f)
      PROVE  FlowOK'
  BY <1>0, <1>4, FlowMoves
  DEF Refused, AuthFails, NoMemories, AfterRetries, SendOriginal, FlowOK
<1>5. ASSUME NEW f \in Flows, Authenticated(f) \/ NothingFound(f)
      PROVE  FlowOK'
  BY <1>0, <1>5, FlowMoves DEF Authenticated, NothingFound, FlowOK
<1>6. ASSUME NEW f \in Flows, Prime(f) \/ SendMessage(f) \/ Recover(f)
      PROVE  FlowOK'
  BY <1>0, <1>6, FlowMoves DEF Prime, SendMessage, Recover, FlowOK
<1>7. ASSUME NEW f \in Flows, TriggerSend(f)
      PROVE  FlowOK'
  BY <1>0, <1>7, FlowMoves DEF TriggerSend, FlowOK
<1> QED
  BY <1>1, <1>2, <1>3, <1>4, <1>5, <1>6, <1>7, WritesApart
  DEF ExtensionNext, Answer, Proceed, Click, Type, EnterNative, ClickSend,
      Clear, RemoveInput, RestoreInput, interceptionState

LEMMA PageOKKept == FlowTypes /\ [ExtensionNext]_extensionVars => PageOK'
<1> SUFFICES ASSUME FlowTypes, [ExtensionNext]_extensionVars PROVE PageOK'
  OBVIOUS
<1>0. PageOK /\ \A f \in Flows : flow[f].msg \in Messages \cup {None}
  BY DEF FlowTypes, FlowOK
<1> USE DEF PageOK, flags, pageVars, history, counters
<1>1. ASSUME NEW m \in Messages, Type(m)
      PROVE  PageOK'
  BY <1>0, <1>1, Texts DEF Type
<1>2. ASSUME EnterNative \/ ClickSend
      PROVE  PageOK'
  BY <1>0, <1>2, Texts DEF EnterNative, ClickSend, Submit
<1>3. ASSUME Clear \/ RemoveInput \/ RestoreInput \/ Reload
      PROVE  PageOK'
  <2>1. CASE Clear \/ RemoveInput \/ RestoreInput
    BY <1>0, <2>1, Texts DEF Clear, RemoveInput, RestoreInput
  <2>2. CASE Reload
    <3>1. /\ primed' = primed /\ inline' = inline /\ missed' = missed
          /\ priming' = FALSE /\ box' = TRUE /\ input' = Empty /\ reloads' = reloads + 1
      BY <2>2 DEF Reload
    <3>2. reloads' \in Nat /\ input' \in Text
      BY <1>0, <3>1, Texts
    <3> QED
      BY <1>0, <3>1, <3>2
  <2> QED
    BY <1>3, <2>1, <2>2
<1>4. ASSUME NEW f \in Flows,
             EnterUnprimed(f) \/ EnterFirst(f) \/ AuthFails(f) \/ Authenticated(f)
               \/ NothingFound(f) \/ AfterRetries(f)
      PROVE  PageOK'
  BY <1>0, <1>4
  DEF EnterUnprimed, EnterFirst, AuthFails, Authenticated, NothingFound, AfterRetries
<1>5. ASSUME NEW f \in Flows, Refused(f) \/ NoMemories(f)
      PROVE  PageOK'
  BY <1>0, <1>5, Texts DEF Refused, NoMemories, SendOriginal, SetInput
<1>6. ASSUME NEW f \in Flows, Prime(f) \/ SendMessage(f) \/ Recover(f)
      PROVE  PageOK'
  BY <1>0, <1>6, Texts DEF Prime, SendMessage, Recover, SetInput
<1>7. ASSUME NEW f \in Flows, Click(f) \/ TriggerSend(f)
      PROVE  PageOK'
  BY <1>0, <1>7, Texts DEF Click, TriggerSend, Submit
<1>8. CASE UNCHANGED interceptionState
  BY <1>0, <1>8 DEF interceptionState
<1> QED
  BY <1>1, <1>2, <1>3, <1>4, <1>5, <1>6, <1>7, <1>8, WritesApart
  DEF ExtensionNext, Answer, Proceed

LEMMA FlowTypesKept == FlowTypes /\ [ExtensionNext]_extensionVars => FlowTypes'
BY FlowOKKept, PageOKKept DEF FlowTypes

LEMMA FlowTypesStart == ExtensionInit => FlowTypes /\ PrimingHeld
<1> SUFFICES ASSUME ExtensionInit PROVE FlowTypes /\ PrimingHeld
  OBVIOUS
<1>1. FlowOK
  BY DEF ExtensionInit, FlowOK, Places, Idle
<1>2. PageOK
  BY Texts DEF ExtensionInit, PageOK
<1>3. PrimingHeld
  BY DEF ExtensionInit, PrimingHeld
<1> QED
  BY <1>1, <1>2, <1>3 DEF FlowTypes

\* Only the steps of an interception that clear isPriming end it or take it
\* back to where it waits for the click.
LEMMA PrimingHeldKept == FlowTypes /\ PrimingHeld /\ [ExtensionNext]_extensionVars => PrimingHeld'
<1> SUFFICES ASSUME FlowTypes, PrimingHeld, [ExtensionNext]_extensionVars PROVE PrimingHeld'
  OBVIOUS
<1> USE DEF PrimingHeld, FlowTypes, FlowOK, PageOK, flags, pageVars, history, counters
<1>1. CASE flow' = flow /\ priming' = priming
  BY <1>1
<1>2. CASE ~priming'
  BY <1>2
<1>3. ASSUME NEW f \in Flows, EnterUnprimed(f) \/ EnterFirst(f)
      PROVE  PrimingHeld'
  BY <1>3 DEF EnterUnprimed, EnterFirst
<1>4. ASSUME NEW f \in Flows, Refused(f) \/ AuthFails(f)
      PROVE  PrimingHeld'
  <2>1. \A g \in Flows \ {f} : flow'[g] = flow[g]
    BY <1>4 DEF Refused, AuthFails, SendOriginal
  <2> QED
    BY <1>4, <2>1 DEF Refused, AuthFails
<1>5. ASSUME NEW f \in Flows, Authenticated(f)
      PROVE  PrimingHeld'
  <2>1. flow'[f].at \in {"search", "fallback"}
    BY <1>5 DEF Authenticated
  <2> QED
    BY <2>1
<1>6. ASSUME NEW f \in Flows, NothingFound(f) \/ Prime(f) \/ SendMessage(f) \/ Recover(f)
      PROVE  PrimingHeld'
  <2>1. flow'[f].at \in {"fallback", "primer", "message", "recover"}
    BY <1>6 DEF NothingFound, Prime, SendMessage, Recover
  <2> QED
    BY <2>1
<1>7. ASSUME NEW f \in Flows, AfterRetries(f)
      PROVE  PrimingHeld'
  <2>1. ~priming' \/ flow'[f].at = "ack"
    BY <1>7 DEF AfterRetries
  <2> QED
    BY <2>1
<1>8. ASSUME NEW f \in Flows, TriggerSend(f)
      PROVE  PrimingHeld'
  <2>1. \A g \in Flows \ {f} : flow'[g] = flow[g]
    BY <1>8 DEF TriggerSend
  <2>2. flow[f].at = "recover" \/ flow[f].at = "resend"
    BY <1>8 DEF TriggerSend
  <2>3. ~priming' \/ (priming /\ flow[f].at = "resend")
    BY <1>8 DEF TriggerSend
  <2> QED
    BY <2>1, <2>2, <2>3
<1> QED
  BY <1>1, <1>2, <1>3, <1>4, <1>5, <1>6, <1>7, <1>8, WritesApart
  DEF ExtensionNext, Answer, Proceed, NoMemories, Click, Type, EnterNative, ClickSend, Reload,
      Clear, RemoveInput, RestoreInput, interceptionState

LEMMA FlowsInvariant == ExtensionSpec => [](FlowTypes /\ PrimingHeld)
BY FlowTypesStart, FlowTypesKept, PrimingHeldKept, PTL DEF ExtensionSpec

\* For any number of Enters and answers in any order: while isPriming is set,
\* some interception is where it will clear it.
THEOREM PrimingIsHeld == ExtensionSpec => []PrimingHeld
BY FlowsInvariant, PTL
-----------------------------------------------------------------------------
(* The message held back, when interceptions do not overlap.  An            *)
(* interception starts with its message in the input, so what was held back *)
(* before it has been sent by then, or was taken out.                       *)

AllIdle == \A f \in Flows : flow[f] = Idle

\* The message of f comes after the memories.
Behind(f) == flow[f].at = "ack" \/ (flow[f].at = "primer" /\ ~inline)

Excused == reloads > 0 \/ missed

Out(m) == m \in cleared \/ \E x \in sent : x.carries = m

Safe(m) == Arrived(m) \/ m \in cleared

\* Until the tab is marked, an interception waits for the key.
Unmarked == ~primed => \A f \in Flows : flow[f] = Idle \/ flow[f].at = "auth"

InHand ==
  /\ \A f \in Flows : flow[f] # Idle => \A m \in (Messages \cap taken) \ {flow[f].msg} : Out(m)
  /\ \A f \in Flows : flow[f] # Idle /\ flow[f].msg \in Messages \cap taken =>
       Safe(flow[f].msg) \/ Behind(f)
  /\ AllIdle => \A m \in Messages \cap taken : Safe(m)

MessageInv == Excused \/ (Unmarked /\ InHand)

LEMMA ExcusedStays ==
  ASSUME FlowTypes, Excused, [ExtensionNext]_extensionVars
  PROVE  Excused'
<1>1. reloads \in Nat /\ missed \in BOOLEAN
  BY DEF FlowTypes, PageOK
<1>2. CASE reloads' = reloads /\ (missed => missed')
  BY <1>2 DEF Excused
<1>3. CASE Reload
  BY <1>1, <1>3 DEF Excused, Reload
<1> QED
  BY <1>2, <1>3, WritesApart
  DEF ExtensionNext, Answer, Proceed, Click, Type, EnterNative, ClickSend, Clear, RemoveInput,
      RestoreInput, EnterUnprimed, EnterFirst, Refused, AuthFails, Authenticated, NothingFound,
      NoMemories, Prime, AfterRetries, SendMessage, Recover, TriggerSend, SendOriginal, SetInput,
      interceptionState, flags, pageVars, history, counters

\* What is in the input goes to the page's messages, and nowhere else.
LEMMA SubmitKeeps ==
  ASSUME Submit, cleared' = cleared, NEW m
  PROVE  (Out(m) => Out(m)') /\ (Safe(m) => Safe(m)')
BY DEF Submit, Out, Safe, Arrived

\* A step of the page or of the user.
LEMMA PageStep ==
  ASSUME MessageInv, ~Excused, UNCHANGED <<flow, taken, primed, inline>>,
         \A m \in Messages \cap taken : (Out(m) => Out(m)') /\ (Safe(m) => Safe(m)')
  PROVE  MessageInv'
<1>1. Unmarked'
  BY DEF MessageInv, Unmarked
<1>2. AllIdle' <=> AllIdle
  BY DEF AllIdle
<1>3. \A f \in Flows : Behind(f)' <=> Behind(f)
  BY DEF Behind
<1>4. InHand'
  BY <1>2, <1>3 DEF MessageInv, InHand
<1> QED
  BY <1>1, <1>4 DEF MessageInv

\* Enter on the first message.
LEMMA EnterStep ==
  ASSUME FlowTypes, MessageInv, ~Excused, OneInterception', NEW f \in Flows,
         EnterUnprimed(f) \/ EnterFirst(f)
  PROVE  MessageInv'
<1>0. PICK m : m = input.carries
  OBVIOUS
<1>1. /\ ~primed /\ flow[f] = Idle /\ taken' = taken \cup {m} /\ box
      /\ box' = box /\ input' = input /\ sent' = sent /\ cleared' = cleared
      /\ \/ primed' = TRUE /\ flow' = [flow EXCEPT ![f] = [at |-> "resend", msg |-> m]]
         \/ flow' = [flow EXCEPT ![f] = [at |-> "auth", msg |-> m]]
  BY <1>0 DEF EnterUnprimed, EnterFirst, pageVars
<1>2. /\ flow'[f].at \in {"auth", "resend"} /\ flow'[f].msg = m
      /\ \A g \in Flows \ {f} : flow'[g] = flow[g]
      /\ primed' \/ flow'[f].at = "auth"
  BY <1>1 DEF FlowTypes, FlowOK
<1>3. flow'[f] # Idle
  BY <1>2 DEF Idle
<1>4. \A g \in Flows \ {f} : flow[g] = Idle /\ flow'[g] = Idle
  BY <1>2, <1>3 DEF OneInterception
<1>5. \A n \in (Messages \cap taken') \ {m} : Out(n)'
  <2>1. AllIdle
    BY <1>1, <1>4 DEF AllIdle
  <2>2. \A n \in Messages \cap taken : Safe(n)
    BY <2>1 DEF MessageInv, InHand
  <2> QED
    BY <1>0, <1>1, <2>2 DEF Safe, Arrived, Out
<1>6. Safe(m)'
  BY <1>0, <1>1 DEF Safe, Arrived
<1>7. Unmarked'
  BY <1>2, <1>4 DEF Unmarked
<1>8. InHand'
  <2>1. \A g \in Flows : flow'[g] # Idle => g = f
    BY <1>4
  <2>2. ~AllIdle'
    BY <1>3 DEF AllIdle
  <2> QED
    BY <1>2, <1>5, <1>6, <2>1, <2>2 DEF InHand
<1> QED
  BY <1>7, <1>8 DEF MessageInv

\* A step of the interception that is under way.
LEMMA FlowStep ==
  ASSUME MessageInv, ~Excused, OneInterception, NEW f \in Flows, flow[f] # Idle,
         NEW m, m = flow[f].msg,
         primed' \/ flow'[f] = Idle, taken' = taken,
         \A g \in Flows \ {f} : flow'[g] = flow[g],
         flow'[f] = Idle \/ flow'[f].msg = m,
         \A n \in Messages \ {m} : Out(n) => Out(n)',
         m \in Messages \cap taken => Safe(m)' \/ (flow'[f] # Idle /\ Behind(f)')
  PROVE  MessageInv'
<1>1. \A g \in Flows \ {f} : flow'[g] = Idle
  BY DEF OneInterception
<1>2. \A n \in (Messages \cap taken') \ {m} : Out(n)'
  BY DEF MessageInv, InHand
<1>3. Unmarked'
  BY <1>1 DEF Unmarked
<1>4. CASE flow'[f] = Idle
  <2>1. \A g \in Flows : flow'[g] = Idle
    BY <1>1, <1>4
  <2>2. \A n \in Messages \cap taken' : Safe(n)'
    BY <1>2, <1>4 DEF Out, Safe, Arrived
  <2> QED
    BY <1>3, <2>1, <2>2 DEF MessageInv, InHand
<1>5. CASE flow'[f] # Idle
  <2>1. \A g \in Flows : flow'[g] # Idle => g = f
    BY <1>1
  <2>2. ~AllIdle' /\ flow'[f].msg = m
    BY <1>5 DEF AllIdle
  <2>3. flow'[f].msg \in Messages \cap taken => Safe(m)' \/ Behind(f)'
    BY <2>2
  <2>4. InHand'
    BY <1>2, <2>1, <2>2, <2>3 DEF InHand
  <2> QED
    BY <1>3, <2>4 DEF MessageInv
<1> QED
  BY <1>4, <1>5

\* A text put into the input is there, or there was no input.
LEMMA TextArrives ==
  ASSUME NEW m, ~missed', NEW text, text.carries = m, SetInput(text), box' = box
  PROVE  Safe(m)'
BY DEF SetInput, Safe, Arrived

\* And no other message is affected that has been sent or taken out.
LEMMA OthersStayOut ==
  ASSUME NEW text, SetInput(text), sent' = sent, NEW n, n # text.carries, Out(n)
  PROVE  Out(n)'
BY DEF SetInput, Out

LEMMA MessageStep ==
  ASSUME FlowTypes, MessageInv, OneInterception, OneInterception', [ExtensionNext]_extensionVars
  PROVE  MessageInv'
<1>0. CASE Excused
  BY <1>0, ExcusedStays DEF MessageInv
<1> SUFFICES ASSUME ~Excused, ~Excused'
             PROVE  MessageInv'
  BY <1>0 DEF MessageInv
<1> USE DEF flags, pageVars, history
<1>1. ~missed /\ ~missed' /\ reloads = 0 /\ reloads' = 0 /\ None \notin Messages
  <2>1. reloads \in Nat /\ ~missed /\ ~missed'
    BY DEF FlowTypes, PageOK, Excused
  <2>2. reloads' \in Nat
    BY FlowTypesKept DEF FlowTypes, PageOK
  <2> QED
    BY <2>1, <2>2, NoneIsNoMessage DEF Excused
<1>2. ASSUME NEW n \in Messages, Type(n)
      PROVE  MessageInv'
  <2>1. \A m \in Messages : (Out(m) => Out(m)') /\ (Safe(m) => Safe(m)')
    BY <1>1, <1>2 DEF Type, Out, Safe, Arrived, Empty
  <2> QED
    BY <1>2, <2>1, PageStep DEF Type
<1>3. ASSUME EnterNative \/ ClickSend \/ \E f \in Flows : Click(f)
      PROVE  MessageInv'
  <2>1. /\ Submit \/ UNCHANGED <<input, sent>>
        /\ UNCHANGED <<flow, taken, cleared, primed, inline, box>>
    BY <1>3 DEF EnterNative, ClickSend, Click
  <2>2. \A m : (Out(m) => Out(m)') /\ (Safe(m) => Safe(m)')
    BY <2>1, SubmitKeeps DEF Out, Safe, Arrived
  <2> QED
    BY <2>1, <2>2, PageStep
<1>4. ASSUME UNCHANGED interceptionState
      PROVE  MessageInv'
  <2>1. UNCHANGED <<flow, taken, cleared, primed, inline, box, input, sent>>
    BY <1>4 DEF interceptionState
  <2> QED
    BY <2>1, PageStep DEF Out, Safe, Arrived
<1>5. ASSUME NEW f \in Flows, EnterUnprimed(f) \/ EnterFirst(f)
      PROVE  MessageInv'
  BY <1>5, EnterStep
<1>6. ~Reload
  BY <1>1 DEF Reload
<1>7. ASSUME NEW f \in Flows, Answer(f) \/ Proceed(f) \/ AuthFails(f) \/ Recover(f)
      PROVE  MessageInv'
  <2>0. PICK m : m = flow[f].msg
    OBVIOUS
  <2>1. flow[f] # Idle /\ flow[f].at # "idle"
    BY <1>7 DEF Answer, Proceed, Refused, AuthFails, Authenticated, NothingFound, NoMemories, Prime,
                AfterRetries, SendMessage, Recover, TriggerSend, Idle
  <2>2. flow \in [Flows -> [at : Places, msg : Messages \cup {None}]]
    BY DEF FlowTypes, FlowOK
  <2>3. m \in Messages \cap taken => Safe(m) \/ Behind(f)
    BY <2>0, <2>1 DEF MessageInv, InHand
  <2>4. primed \/ flow[f].at = "auth"
    BY <2>1 DEF MessageInv, Unmarked
  <2>5. taken' = taken /\ inline' = inline /\ box' = box
    BY <1>7 DEF Answer, Proceed, Refused, AuthFails, Authenticated, NothingFound, NoMemories, Prime,
                AfterRetries, SendMessage, Recover, TriggerSend
  <2>6. Plain(m).carries = m /\ Inlined(m).carries = m /\ Primer.carries \notin Messages
    BY <1>1 DEF Plain, Inlined, Primer
  <2>7. ASSUME flow[f].at \in {"auth", "search", "fallback"}, SendOriginal(f), sent' = sent,
               primed'
        PROVE  MessageInv'
    <3>1. m \in Messages \cap taken => Safe(m)
      BY <2>3, <2>7 DEF Behind
    <3>2. CASE flow' = [flow EXCEPT ![f] = Idle] /\ UNCHANGED <<input, cleared, missed>>
      <4>1. \A n : (Out(n) => Out(n)') /\ (Safe(n) => Safe(n)')
        BY <2>5, <2>7, <3>2 DEF Out, Safe, Arrived
      <4>2. flow'[f] = Idle /\ \A g \in Flows \ {f} : flow'[g] = flow[g]
        BY <2>2, <3>2
      <4> QED
        BY <2>0, <2>1, <2>5, <2>7, <3>1, <4>1, <4>2, FlowStep
    <3>3. CASE flow' = [flow EXCEPT ![f].at = "resend"] /\ SetInput(Plain(m))
      <4>1. Safe(m)'
        BY <1>1, <2>5, <2>6, <3>3, TextArrives
      <4>2. flow'[f].msg = m /\ \A g \in Flows \ {f} : flow'[g] = flow[g]
        BY <2>0, <2>2, <3>3
      <4>3. \A n \in Messages \ {m} : Out(n) => Out(n)'
        BY <2>6, <2>7, <3>3, OthersStayOut
      <4> QED
        BY <2>0, <2>1, <2>5, <2>7, <4>1, <4>2, <4>3, FlowStep
    <3> QED
      BY <2>0, <2>7, <3>2, <3>3 DEF SendOriginal
  <2>8. ASSUME Authenticated(f) \/ NothingFound(f) \/ AuthFails(f)
        PROVE  MessageInv'
    <3>1. m \in Messages \cap taken => Safe(m)
      BY <2>3, <2>8 DEF Behind, Authenticated, NothingFound, AuthFails
    <3>2. \A n : (Out(n) => Out(n)') /\ (Safe(n) => Safe(n)')
      BY <2>8 DEF Authenticated, NothingFound, AuthFails, Out, Safe, Arrived
    <3>3. /\ flow'[f] = Idle \/ flow'[f].msg = m
          /\ \A g \in Flows \ {f} : flow'[g] = flow[g]
      BY <2>0, <2>2, <2>8 DEF Authenticated, NothingFound, AuthFails
    <3>4. primed' \/ flow'[f] = Idle
      BY <2>2, <2>4, <2>8 DEF Authenticated, NothingFound, AuthFails
    <3> QED
      BY <2>0, <2>1, <2>5, <3>1, <3>2, <3>3, <3>4, FlowStep
  <2>9. ASSUME Prime(f)
        PROVE  MessageInv'
    <3>1. flow'[f].msg = m /\ flow'[f].at = "primer" /\ \A g \in Flows \ {f} : flow'[g] = flow[g]
      BY <2>0, <2>2, <2>9 DEF Prime
    <3>2. flow'[f] # Idle
      BY <3>1 DEF Idle
    <3>3. Safe(m)' \/ Behind(f)'
      <4>1. CASE inline
        BY <1>1, <2>0, <2>5, <2>6, <2>9, <4>1, TextArrives DEF Prime
      <4>2. CASE ~inline
        BY <2>5, <3>1, <4>2 DEF Behind
      <4> QED
        BY <4>1, <4>2
    <3>4. primed'
      BY <2>4, <2>9 DEF Prime
    <3>5. \A n \in Messages \ {m} : Out(n) => Out(n)'
      BY <2>0, <2>6, <2>9, OthersStayOut DEF Prime
    <3> QED
      BY <2>0, <2>1, <2>5, <3>1, <3>2, <3>3, <3>4, <3>5, FlowStep
  <2>10. ASSUME AfterRetries(f)
         PROVE  MessageInv'
    <3>1. primed' /\ \A n : (Out(n) => Out(n)') /\ (Safe(n) => Safe(n)')
      BY <2>4, <2>10 DEF AfterRetries, Out, Safe, Arrived
    <3>2. \A g \in Flows \ {f} : flow'[g] = flow[g]
      BY <2>2, <2>10 DEF AfterRetries
    <3>3. CASE flow[f].at = "primer" /\ ~inline
      <4>1. flow'[f].at = "ack" /\ flow'[f].msg = m
        BY <2>0, <2>2, <2>10, <3>3 DEF AfterRetries
      <4>2. flow'[f] # Idle /\ Behind(f)'
        BY <4>1 DEF Idle, Behind
      <4> QED
        BY <2>0, <2>1, <2>5, <3>1, <3>2, <4>1, <4>2, FlowStep
    <3>4. CASE ~(flow[f].at = "primer" /\ ~inline)
      <4>1. flow'[f] = Idle /\ flow[f].at # "ack"
        BY <2>2, <2>10, <3>4 DEF AfterRetries
      <4>2. m \in Messages \cap taken => Safe(m)'
        BY <2>3, <3>1, <3>4, <4>1 DEF Behind
      <4> QED
        BY <2>0, <2>1, <2>5, <3>1, <3>2, <4>1, <4>2, FlowStep
    <3> QED
      BY <3>3, <3>4
  <2>11. ASSUME SendMessage(f) \/ Recover(f)
         PROVE  MessageInv'
    <3>1. flow'[f].msg = m /\ \A g \in Flows \ {f} : flow'[g] = flow[g]
      BY <2>0, <2>2, <2>11 DEF SendMessage, Recover
    <3>2. Safe(m)'
      BY <1>1, <2>0, <2>5, <2>6, <2>11, TextArrives DEF SendMessage, Recover
    <3>3. primed'
      BY <2>4, <2>11 DEF SendMessage, Recover
    <3>4. \A n \in Messages \ {m} : Out(n) => Out(n)'
      BY <2>0, <2>6, <2>11, OthersStayOut DEF SendMessage, Recover
    <3> QED
      BY <2>0, <2>1, <2>5, <3>1, <3>2, <3>3, <3>4, FlowStep
  <2>12. ASSUME TriggerSend(f)
         PROVE  MessageInv'
    <3>1. flow'[f] = Idle /\ \A g \in Flows \ {f} : flow'[g] = flow[g]
      BY <2>2, <2>12 DEF TriggerSend
    <3>2. m \in Messages \cap taken => Safe(m)
      BY <2>3, <2>12 DEF Behind, TriggerSend
    <3>3. \A n : (Out(n) => Out(n)') /\ (Safe(n) => Safe(n)')
      BY <2>5, <2>12, SubmitKeeps DEF TriggerSend, Out, Safe, Arrived
    <3> QED
      BY <2>0, <2>1, <2>5, <3>1, <3>2, <3>3, FlowStep
  <2>13. CASE Refused(f)
    BY <2>7, <2>13 DEF Refused
  <2>14. CASE NoMemories(f)
    BY <2>4, <2>7, <2>14 DEF NoMemories
  <2> QED
    BY <1>7, <2>8, <2>9, <2>10, <2>11, <2>12, <2>13, <2>14 DEF Answer, Proceed
<1>8. ASSUME Clear \/ RemoveInput \/ RestoreInput
      PROVE  MessageInv'
  <2>1. UNCHANGED <<flow, taken, primed, inline, sent>>
    BY <1>8 DEF Clear, RemoveInput, RestoreInput
  <2>2. cleared \subseteq cleared'
    BY <1>8 DEF Clear, RemoveInput, RestoreInput, TakeAway
  <2>3. \A m \in Messages \cap taken : Arrived(m) => Arrived(m)' \/ m \in cleared'
    BY <1>8, <2>1 DEF Clear, RemoveInput, RestoreInput, TakeAway, Arrived
  <2>4. \A m \in Messages \cap taken : (Out(m) => Out(m)') /\ (Safe(m) => Safe(m)')
    BY <2>1, <2>2, <2>3 DEF Out, Safe
  <2> QED
    BY <2>1, <2>4, PageStep
<1> QED
  BY <1>2, <1>3, <1>4, <1>5, <1>6, <1>7, <1>8, WritesApart DEF ExtensionNext

\* For any number of messages and of answers in any order: a message held back
\* has been sent, or is before the user's eyes, or waits behind the memories,
\* but for a reload, an input that was missing when it was put back, one that
\* lost its text, or an overlap of two Enters.
THEOREM MessagesKept == ExtensionSpec => MessageKept
<1> DEFINE Kept == \A m \in Messages \cap taken :
                     Arrived(m) \/ BehindPrimer(m) \/ m \in cleared \/ reloads > 0 \/ missed
<1>1. ExtensionInit => MessageInv
  BY DEF ExtensionInit, MessageInv, Unmarked, InHand
<1>2. FlowTypes /\ MessageInv /\ OneInterception /\ OneInterception'
        /\ [ExtensionNext]_extensionVars => MessageInv'
  BY MessageStep
<1>3. ASSUME MessageInv
      PROVE  Kept
  <2> SUFFICES ASSUME Unmarked, InHand, NEW m \in Messages \cap taken
               PROVE  Arrived(m) \/ BehindPrimer(m) \/ m \in cleared
    BY <1>3 DEF MessageInv, Excused
  <2>1. CASE AllIdle
    BY <2>1 DEF InHand, Safe
  <2>2. ASSUME NEW f \in Flows, flow[f] # Idle
        PROVE  Arrived(m) \/ BehindPrimer(m) \/ m \in cleared
    BY <2>2 DEF InHand, Behind, BehindPrimer, Out, Safe, Arrived
  <2> QED
    BY <2>1, <2>2 DEF AllIdle
<1>4. MessageInv => Kept
  BY <1>3
<1> HIDE DEF Kept
<1>5. ExtensionSpec => ([]OneInterception => []Kept)
  BY <1>1, <1>2, <1>4, FlowsInvariant, PTL DEF ExtensionSpec
<1> QED
  BY <1>5 DEF MessageKept, Kept
=============================================================================
