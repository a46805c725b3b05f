------------------------------ MODULE Extension ------------------------------
(***************************************************************************)
(* The browser extension in one tab of a chat site: it holds back the      *)
(* first message, sends the user's memories ahead of it, and later writes  *)
(* the conversation back to the server.                                    *)
(*                                                                         *)
(* A content script is single-threaded: what it does between two awaits,   *)
(* timers or events is one action.  Keystrokes, the answers of the         *)
(* background worker and the page itself come in between.  The flags in    *)
(* sessionStorage outlive a reload of the page, the variables do not.      *)
(*                                                                         *)
(* Left open: what the user has stored, what the server answers, whether   *)
(* the page takes a click on its send button, and what the regular         *)
(* expressions make of a message.  A definition named Faulty... is the     *)
(* next one with a plausible bug in it: PROJECT.json names the property it *)
(* would break.                                                            *)
(***************************************************************************)
EXTENDS Naturals, FiniteSets

CONSTANTS Messages,     \* what the user types
          Flows,        \* calls of interceptFirstMessage
          Jobs,         \* calls of writeConversationToMemory
          MaxTriggers,  \* messages that ask for a write-back
          MaxFaults,    \* reloads, lost answers, texts or inputs taken away
          None

ASSUME ExtensionBounds == MaxTriggers \in Nat /\ MaxFaults \in Nat
ASSUME NoneIsNoMessage == None \notin Messages

VARIABLES primed, writable, written,  \* sessionStorage
          priming, writing,           \* isPriming, writeInProgress
          inline,                     \* adapter.useInlinePriming
          box,                        \* the page shows an input
          input,                      \* the text in it
          sent,                       \* texts the page has sent
          flow,                       \* where each interception waits
          job,                        \* where each write-back waits
          timers,                     \* setTimeouts of 5 s that run
          stored,                     \* memories written back
          asked, triggers,            \* requests to save; with affirmations
          taken,                      \* messages held back
          cleared,                    \* those of them taken out of the input since
          missed,                     \* a text was set while there was no input
          faults, reloads, lost

flags == <<primed, writable, written>>
pageVars == <<inline, box, input, sent>>
writeVars == <<writing, job, timers, stored>>
history == <<taken, cleared, missed>>     \* for the properties alone, as ...
counters == <<asked, triggers, faults, reloads, lost>>  \* ... most of these
extensionVars == <<flags, priming, pageVars, flow, writeVars, history, counters>>

\* A text: whether it has memories in it, and whose message.
Text == [primes : BOOLEAN, carries : Messages \cup {None}]
Empty == [primes |-> FALSE, carries |-> None]
Primer == [primes |-> TRUE, carries |-> None]
Plain(m) == [primes |-> FALSE, carries |-> m]
Inlined(m) == [primes |-> TRUE, carries |-> m]

Idle == [at |-> "idle", msg |-> None]

ExtensionInit ==
  /\ primed = FALSE /\ writable = FALSE /\ written = FALSE
  /\ priming = FALSE /\ writing = FALSE
  /\ inline \in BOOLEAN
  /\ box = TRUE /\ input = Empty /\ sent = {}
  /\ flow = [f \in Flows |-> Idle]
  /\ job = [j \in Jobs |-> "idle"]
  /\ timers = 0 /\ stored = 0 /\ asked = 0 /\ triggers = 0
  /\ taken = {} /\ cleared = {} /\ missed = FALSE
  /\ faults = 0 /\ reloads = 0 /\ lost = 0
-----------------------------------------------------------------------------
(* The page. *)

\* adapter.setInputValue: nothing happens when there is no input element.
SetInput(text) ==
  /\ input' = IF box THEN text ELSE input
  /\ cleared' = IF box THEN cleared \ {text.carries} ELSE cleared
  /\ missed' = (missed \/ ~box)

\* The text is out of sight, other than by being sent.
TakeAway == cleared' = cleared \cup ({input.carries} \cap taken)

\* The page sends what is in the input and empties it.
Submit ==
  /\ box /\ input # Empty
  /\ sent' = sent \cup {input}
  /\ input' = Empty

RemoveInput ==
  /\ box /\ faults < MaxFaults
  /\ box' = FALSE /\ faults' = faults + 1
  /\ TakeAway
  /\ UNCHANGED <<flags, priming, inline, input, sent, flow, writeVars, taken, missed,
                 asked, triggers, reloads, lost>>

\* The new input has the text of the old one, or none.
RestoreInput ==
  /\ ~box
  /\ box' = TRUE
  /\ input' \in {input, Empty}
  /\ UNCHANGED <<flags, priming, inline, sent, flow, writeVars, history, counters>>
-----------------------------------------------------------------------------
(* The user. *)

\* Bound: every message is typed once, into an empty input.
Type(m) ==
  /\ box /\ input = Empty
  /\ m \notin taken
  /\ \A x \in sent : x.carries # m
  /\ input' = Plain(m)
  /\ UNCHANGED <<flags, priming, inline, box, sent, flow, writeVars, history, counters>>

\* The user, or the page, empties the input.
Clear ==
  /\ box /\ input # Empty /\ faults < MaxFaults
  /\ input' = Empty /\ faults' = faults + 1
  /\ TakeAway
  /\ UNCHANGED <<flags, priming, inline, box, sent, flow, writeVars, taken, missed,
                 asked, triggers, reloads, lost>>

\* onDocumentKeydown and the click listener once the tab is primed: the
\* message goes out, and may ask for a write-back 5 s later.
Ask(explicit) ==
  /\ primed /\ writable /\ ~priming
  /\ triggers < MaxTriggers
  /\ explicit \/ ~written
  /\ written' = (written /\ ~explicit)
  /\ asked' = IF explicit THEN asked + 1 ELSE asked
  /\ triggers' = triggers + 1
  /\ timers' = timers + 1

AskNothing == UNCHANGED <<written, asked, triggers, timers>>

\* The click listener hears the clicks of the script too, and does not ask
\* whether the page takes them.
HearClick ==
  \/ box /\ input # Empty /\ \E explicit \in BOOLEAN : Ask(explicit)
  \/ AskNothing

EnterNative ==
  /\ primed \/ priming
  /\ Submit
  /\ (\E explicit \in BOOLEAN : Ask(explicit)) \/ AskNothing
  /\ UNCHANGED <<primed, writable, priming, inline, box, flow, writing, job, stored, history,
                 faults, reloads, lost>>

\* The send button instead of Enter: nothing holds the message back.
ClickSend ==
  /\ ~primed
  /\ Submit
  /\ UNCHANGED <<flags, priming, inline, box, flow, writeVars, history, counters>>

\* Enter on the first message.  The page shows a native integration, or a
\* conversation under way: the message is sent after all.
EnterUnprimed(f) ==
  /\ ~primed /\ ~priming
  /\ box /\ input # Empty
  /\ flow[f] = Idle
  /\ taken' = taken \cup {input.carries}
  /\ primed' = TRUE
  /\ flow' = [flow EXCEPT ![f] = [at |-> "resend", msg |-> input.carries]]
  /\ UNCHANGED <<writable, written, priming, pageVars, writeVars, cleared, missed, counters>>

\* ... or a new conversation: the background worker is asked for the key.
\* Nothing is marked yet, and another Enter comes through here again.
EnterFirst(f) ==
  /\ ~primed /\ ~priming
  /\ box /\ input # Empty
  /\ flow[f] = Idle
  /\ taken' = taken \cup {input.carries}
  /\ flow' = [flow EXCEPT ![f] = [at |-> "auth", msg |-> input.carries]]
  /\ UNCHANGED <<flags, priming, pageVars, writeVars, cleared, missed, counters>>
-----------------------------------------------------------------------------
(* interceptFirstMessage, and the continuation in onDocumentKeydown. *)

\* Returned false: the message goes back into the input, to be sent 50 ms
\* later, unless the input is empty by now, or not there: then it is taken to
\* have been sent, and dropped.
SendOriginal(f) ==
  IF input = Empty \/ ~box
  THEN flow' = [flow EXCEPT ![f] = Idle] /\ UNCHANGED <<input, cleared, missed>>
  ELSE /\ flow' = [flow EXCEPT ![f].at = "resend"]
       /\ SetInput(Plain(flow[f].msg))

Refused(f) ==
  /\ flow[f].at = "auth"
  /\ primed' = TRUE
  /\ SendOriginal(f)
  /\ UNCHANGED <<writable, written, priming, inline, box, sent, writeVars, taken, counters>>

\* The worker cannot be asked: an exception before anything is marked.  The
\* message stays in the input.
AuthFails(f) ==
  /\ flow[f].at = "auth"
  /\ flow' = [flow EXCEPT ![f] = Idle]
  /\ UNCHANGED <<flags, priming, pageVars, writeVars, history, counters>>

Authenticated(f) ==
  /\ flow[f].at = "auth"
  /\ priming' = TRUE /\ primed' = TRUE /\ writable' = TRUE
  /\ \E next \in {"search", "fallback"} :  \* keywords, or none
       flow' = [flow EXCEPT ![f].at = next]
  /\ UNCHANGED <<written, pageVars, writeVars, history, counters>>

NothingFound(f) ==
  /\ flow[f].at = "search"
  /\ flow' = [flow EXCEPT ![f].at = "fallback"]
  /\ UNCHANGED <<flags, priming, pageVars, writeVars, history, counters>>

FaultyNoMemories(f) ==  \* leaves isPriming set
  /\ flow[f].at \in {"search", "fallback"}
  /\ SendOriginal(f)
  /\ UNCHANGED <<flags, priming, inline, box, sent, writeVars, taken, counters>>

\* The quota is exceeded, or the fallback has nothing either.
NoMemories(f) ==
  /\ flow[f].at \in {"search", "fallback"}
  /\ priming' = FALSE
  /\ SendOriginal(f)
  /\ UNCHANGED <<flags, inline, box, sent, writeVars, taken, counters>>

\* The memories go into the input, with the message or ahead of it.
Prime(f) ==
  /\ flow[f].at \in {"search", "fallback"}
  /\ SetInput(IF inline THEN Inlined(flow[f].msg) ELSE Primer)
  /\ flow' = [flow EXCEPT ![f].at = "primer"]
  /\ UNCHANGED <<flags, priming, inline, box, sent, writeVars, taken, counters>>

\* retrySend clicks until the input is empty, whoever emptied it, ...
Click(f) ==
  /\ flow[f].at \in {"primer", "message"}
  /\ Submit \/ UNCHANGED <<input, sent>>
  /\ HearClick
  /\ UNCHANGED <<primed, writable, priming, inline, box, flow, writing, job, stored, history,
                 faults, reloads, lost>>

\* ... or 6 s have passed.
AfterRetries(f) ==
  /\ flow[f].at \in {"primer", "message"}
  /\ IF flow[f].at = "primer" /\ ~inline
     THEN flow' = [flow EXCEPT ![f].at = "ack"] /\ priming' = priming
     ELSE flow' = [flow EXCEPT ![f] = Idle] /\ priming' = FALSE
  /\ UNCHANGED <<flags, pageVars, writeVars, history, counters>>

FaultySendMessage(f) ==  \* the message is the text still in the input
  /\ flow[f].at = "ack"
  /\ SetInput(input)
  /\ flow' = [flow EXCEPT ![f].at = "message"]
  /\ UNCHANGED <<flags, priming, inline, box, sent, writeVars, taken, counters>>

\* The assistant has acknowledged, or 12 s have passed; the input is ready,
\* or 5 s have passed.
SendMessage(f) ==
  /\ flow[f].at = "ack"
  /\ SetInput(Plain(flow[f].msg))
  /\ flow' = [flow EXCEPT ![f].at = "message"]
  /\ UNCHANGED <<flags, priming, inline, box, sent, writeVars, taken, counters>>

\* An exception, of the adapter or because the worker cannot be asked: the
\* message goes back into the input.
Recover(f) ==
  /\ flow[f].at \in {"search", "fallback", "primer", "ack", "message"}
  /\ SetInput(Plain(flow[f].msg))
  /\ flow' = [flow EXCEPT ![f].at = "recover"]
  /\ UNCHANGED <<flags, priming, inline, box, sent, writeVars, taken, counters>>

\* One click, which the page may not take.
TriggerSend(f) ==
  /\ flow[f].at \in {"resend", "recover"}
  /\ flow' = [flow EXCEPT ![f] = Idle]
  /\ priming' = (priming /\ flow[f].at = "resend")
  /\ Submit \/ UNCHANGED <<input, sent>>
  /\ HearClick
  /\ UNCHANGED <<primed, writable, inline, box, writing, job, stored, history,
                 faults, reloads, lost>>
-----------------------------------------------------------------------------
(* writeConversationToMemory. *)

FaultyFire(j) ==  \* writeInProgress is set after the wait
  /\ timers > 0 /\ job[j] = "idle"
  /\ writable /\ ~written /\ ~writing
  /\ timers' = timers - 1
  /\ \/ job' = [job EXCEPT ![j] = "streaming"] /\ writing' = writing
     \/ job' = [job EXCEPT ![j] = "chat"] /\ writing' = TRUE
  /\ UNCHANGED <<flags, priming, pageVars, flow, stored, history, counters>>

\* A timer: the assistant may still be streaming.
Fire(j) ==
  /\ timers > 0 /\ job[j] = "idle"
  /\ writable /\ ~written /\ ~writing
  /\ timers' = timers - 1
  /\ writing' = TRUE
  /\ job' \in {[job EXCEPT ![j] = "streaming"], [job EXCEPT ![j] = "chat"]}
  /\ UNCHANGED <<flags, priming, pageVars, flow, stored, history, counters>>

\* The guard of the first line, a native integration, or too little said.
FireInVain ==
  /\ timers > 0
  /\ timers' = timers - 1
  /\ UNCHANGED <<flags, priming, pageVars, flow, writing, job, stored, history, counters>>

\* The worker cannot be asked: the exception leaves writeInProgress set.
AskFails(j) ==
  /\ \/ /\ timers > 0 /\ job[j] = "idle"
        /\ writable /\ ~written /\ ~writing
        /\ timers' = timers - 1
     \/ job[j] = "streaming" /\ timers' = timers
  /\ writing' = TRUE
  /\ job' = [job EXCEPT ![j] = "idle"]
  /\ UNCHANGED <<flags, priming, pageVars, flow, stored, history, counters>>

\* 5 s later, with the conversation read from the page.
Extract(j) ==
  /\ job[j] = "streaming"
  /\ writing' = TRUE
  /\ job' = [job EXCEPT ![j] = "chat"]
  /\ UNCHANGED <<flags, priming, pageVars, flow, timers, stored, history, counters>>

\* Still streaming, too short, without substance; no key, no summary, or the
\* memory is refused.
GiveUp(j) ==
  /\ job[j] \in {"streaming", "chat", "post"}
  /\ job' = [job EXCEPT ![j] = "idle"]
  /\ writing' = FALSE
  /\ UNCHANGED <<flags, priming, pageVars, flow, timers, stored, history, counters>>

\* The background worker has the summary and posts the memory.
Summarize(j) ==
  /\ job[j] \in {"chat", "orphan"}
  /\ job' = [job EXCEPT ![j] = IF @ = "chat" THEN "post" ELSE "posting"]
  /\ UNCHANGED <<flags, priming, pageVars, flow, writing, timers, stored, history, counters>>

\* The memory is stored, and the content script learns its id.
Store(j) ==
  /\ job[j] = "post"
  /\ stored' = stored + 1
  /\ job' = [job EXCEPT ![j] = "idle"]
  /\ writing' = FALSE
  /\ written' = TRUE
  /\ UNCHANGED <<primed, writable, priming, pageVars, flow, timers, history, counters>>

\* The memory is stored, and the answer does not arrive.
StoreUnheard(j) ==
  /\ job[j] = "post" /\ faults < MaxFaults
  /\ stored' = stored + 1
  /\ job' = [job EXCEPT ![j] = "idle"]
  /\ writing' = FALSE
  /\ lost' = lost + 1 /\ faults' = faults + 1
  /\ UNCHANGED <<flags, priming, pageVars, flow, timers, history, asked, triggers, reloads>>

\* The page that asked is gone; the background worker goes on.
StoreOrphan(j) ==
  /\ job[j] \in {"orphan", "posting"}
  /\ job' = [job EXCEPT ![j] = "idle"]
  /\ stored' \in {stored, IF job[j] = "posting" THEN stored + 1 ELSE stored}
  /\ UNCHANGED <<flags, priming, pageVars, flow, writing, timers, history, counters>>

\* The user reloads the page.
Reload ==
  /\ faults < MaxFaults
  /\ faults' = faults + 1 /\ reloads' = reloads + 1
  /\ priming' = FALSE /\ writing' = FALSE
  /\ box' = TRUE /\ input' = Empty
  /\ flow' = [f \in Flows |-> Idle]
  /\ timers' = 0
  /\ job' = [j \in Jobs |-> CASE job[j] \in {"chat", "orphan"} -> "orphan"
                              [] job[j] \in {"post", "posting"} -> "posting"
                              [] OTHER -> "idle"]
  /\ UNCHANGED <<flags, inline, sent, stored, history, asked, triggers, lost>>
-----------------------------------------------------------------------------
Answer(f) == Refused(f) \/ Authenticated(f) \/ NothingFound(f) \/ NoMemories(f) \/ Prime(f)

Proceed(f) == AfterRetries(f) \/ SendMessage(f) \/ TriggerSend(f)

WriteStep(j) ==
  \/ Fire(j) \/ AskFails(j) \/ Extract(j) \/ GiveUp(j)
  \/ Summarize(j) \/ Store(j) \/ StoreUnheard(j) \/ StoreOrphan(j)

ExtensionNext ==
  \/ \E m \in Messages : Type(m)
  \/ EnterNative \/ ClickSend \/ Reload \/ Clear \/ RemoveInput \/ RestoreInput
  \/ \E f \in Flows : \/ EnterUnprimed(f) \/ EnterFirst(f) \/ AuthFails(f)
                      \/ Answer(f) \/ Proceed(f) \/ Click(f) \/ Recover(f)
  \/ \E j \in Jobs : WriteStep(j)
  \/ FireInVain

ExtensionSpec == ExtensionInit /\ [][ExtensionNext]_extensionVars

\* The worker answers every message, and every timer fires.
FairExtensionSpec ==
  /\ ExtensionSpec
  /\ \A f \in Flows : WF_extensionVars(Answer(f)) /\ WF_extensionVars(Proceed(f))
-----------------------------------------------------------------------------
\* A conversation is written back once, and again only when the user asks to
\* save, or when the script cannot know of the first time: it was reloaded
\* under way, or the answer was lost.
WritesExcused == stored <= 1 + asked + reloads + lost

\* While isPriming is set, an interception is under way that will clear it.
PrimingHeld ==
  priming => \E f \in Flows : flow[f].at \in {"search", "fallback", "primer", "ack", "message",
                                            "recover"}

\* Priming comes to an end, whatever answers come and however many Enters.
PrimingEnds == priming ~> ~priming

\* Sent, or in an input that is there.
Arrived(m) == (box /\ input.carries = m) \/ \E x \in sent : x.carries = m

\* The memories have taken its place in the input, and it comes after them.
BehindPrimer(m) == \E f \in Flows : flow[f].msg = m /\ flow[f].at \in {"primer", "ack"}

OneInterception == \A f, g \in Flows : flow[f] # Idle /\ flow[g] # Idle => f = g

\* A message held back is not lost by the script: at any time it has been
\* sent, or the user has it before the eyes, or it waits for the memories to
\* be sent ahead of it; unless the page was reloaded meanwhile, had no input
\* when the script put a text into it, the interceptions of two Enters
\* overlapped, or the page or the user took it out of the input and the script
\* has not put it back: then SendOriginal takes it for sent and drops it.
MessageKept ==
  []OneInterception =>
    [](\A m \in Messages \cap taken :
         Arrived(m) \/ BehindPrimer(m) \/ m \in cleared \/ reloads > 0 \/ missed)

\* And the wait ends: it is sent in the end, or the user has it before the
\* eyes, with the same exceptions.
MessageSurvives ==
  []OneInterception =>
    \A m \in Messages :
      m \in taken ~> (Arrived(m) \/ m \in cleared \/ reloads > 0 \/ missed)
=============================================================================
