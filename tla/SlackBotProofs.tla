--------------------------- MODULE SlackBotProofs ---------------------------
(***************************************************************************)
(* Theorems about SlackBot, for any number of deliveries and threads and   *)
(* any limits.                                                             *)
(***************************************************************************)
EXTENDS SlackBot, SequenceTheorems, TLAPS

-----------------------------------------------------------------------------
(* Sequences. *)

\* Trim keeps the last MaxTurns elements.
LEMMA TrimEnds ==
  ASSUME NEW S, NEW s \in Seq(S), NEW cut \in Nat,
         cut = IF Len(s) > MaxTurns THEN Len(s) - MaxTurns ELSE 0
  PROVE  /\ Trim(s) \in Seq(S)
         /\ Len(Trim(s)) = Len(s) - cut
         /\ Len(Trim(s)) <= MaxTurns
         /\ \A i \in 1..Len(Trim(s)) : Trim(s)[i] = s[cut + i]
<1>1. MaxTurns \in Nat /\ MaxTurns # 0
  BY SlackConstants
<1>2. Trim(s) = SubSeq(s, cut + 1, Len(s))
  BY <1>1 DEF Trim
<1>3. cut + 1 \in 1..(Len(s) + 1)
  BY <1>1
<1>4. Len(Trim(s)) = Len(s) - cut
  BY <1>2, <1>3
<1>5. Trim(s) \in Seq(S)
  BY <1>2, <1>3
<1>6. ASSUME NEW i \in 1..Len(Trim(s))
      PROVE  Trim(s)[i] = s[cut + i]
  <2>1. \A j \in (cut + 1)..Len(s) : s[j] \in S
    OBVIOUS
  <2>2. \A j \in 1..(Len(s) - (cut + 1) + 1) :
          SubSeq(s, cut + 1, Len(s))[j] = s[(cut + 1) + j - 1]
    <3> DEFINE m == cut + 1
               n == Len(s)
    <3>1. m \in Int /\ n \in Int /\ \A j \in m..n : s[j] \in S
      BY <2>1
    <3> HIDE DEF m, n
    <3>2. \A j \in 1..(n - m + 1) : SubSeq(s, m, n)[j] = s[m + j - 1]
      BY <3>1, SubSeqProperties
    <3> QED
      BY <3>2 DEF m, n
  <2>3. i \in Int /\ i \in 1..(Len(s) - (cut + 1) + 1) /\ (cut + 1) + i - 1 = cut + i
    BY <1>4
  <2> QED
    BY <1>2, <2>2, <2>3
<1> QED
  BY <1>1, <1>4, <1>5, <1>6

\* The sequence that Answer stores.
LEMMA AppendEnds ==
  ASSUME NEW S, NEW s \in Seq(S), NEW d \in S
  PROVE  /\ Append(s, d) \in Seq(S)
         /\ Len(Append(s, d)) = Len(s) + 1
         /\ \A i \in 1..Len(s) : Append(s, d)[i] = s[i]
         /\ Append(s, d)[Len(s) + 1] = d
  OBVIOUS

LEMMA ReadableType ==
  ASSUME SlackTypeOK, NEW t \in Threads
  PROVE  Readable(t) \in Seq(Deliveries) /\ Len(Readable(t)) <= MaxTurns
  BY SlackConstants DEF Readable, SlackTypeOK

-----------------------------------------------------------------------------
(* Types. *)

\* Handlers that may have stored a turn, and will neither read nor store again.
Stored == {d \in Deliveries : pc[d] \in {"reply", "posted", "dead"}}

\* A handler that still has to read knows its thread and has read nothing.
Fresh ==
  \A d \in Deliveries :
    /\ pc[d] \in {"idle", "identify"} => history[d] = <<>>
    /\ pc[d] = "identify" => thread[d] \in Threads

LEMMA TypeInit == SlackInit => SlackTypeOK /\ Fresh
  BY SlackConstants DEF SlackInit, SlackTypeOK, Fresh, Stages, InFlight

LEMMA TypeNext == SlackTypeOK /\ Fresh /\ [SlackNext]_slackVars => SlackTypeOK' /\ Fresh'
<1> SUFFICES ASSUME SlackTypeOK, Fresh, [SlackNext]_slackVars
             PROVE  SlackTypeOK' /\ Fresh'
  OBVIOUS
<1> USE SlackConstants DEF SlackTypeOK, Fresh, Stages, InFlight, GoTo,
                           handlerVars, tableVars, installVars
<1>1. ASSUME NEW d \in Deliveries, NEW t \in Threads, Deliver(d, t)
      PROVE  SlackTypeOK' /\ Fresh'
  BY <1>1 DEF Deliver
<1>2. ASSUME NEW d \in Deliveries, TurnAway(d)
      PROVE  SlackTypeOK' /\ Fresh'
  BY <1>2 DEF TurnAway
<1>3. ASSUME NEW d \in Deliveries, StartTurn(d)
      PROVE  SlackTypeOK' /\ Fresh'
  BY <1>3, ReadableType DEF StartTurn
<1>4. ASSUME NEW d \in Deliveries, UseTools(d)
      PROVE  SlackTypeOK' /\ Fresh'
  BY <1>4 DEF UseTools
<1>5. ASSUME NEW d \in Deliveries, Synthesise(d)
      PROVE  SlackTypeOK' /\ Fresh'
  BY <1>5 DEF Synthesise
<1>6. ASSUME NEW d \in Deliveries, Answer(d)
      PROVE  SlackTypeOK' /\ Fresh'
  <2> DEFINE turns == Append(history[d], d)
  <2>1. turns \in Seq(Deliveries)
    OBVIOUS
  <2>2. Trim(turns) \in Seq(Deliveries) /\ Len(Trim(turns)) <= MaxTurns
    <3> DEFINE cut == IF Len(turns) > MaxTurns THEN Len(turns) - MaxTurns ELSE 0
    <3> HIDE DEF turns
    <3>1. cut \in Nat
      BY <2>1
    <3> QED
      BY <2>1, <3>1, TrimEnds
  <2> HIDE DEF turns
  <2>3. conversations' = [x \in Threads |-> IF x = thread[d] THEN Trim(turns) ELSE Readable(x)]
    BY <1>6 DEF Answer, Save, turns
  <2>4. /\ conversations' \in [Threads -> Seq(Deliveries)]
        /\ \A t \in Threads : Len(conversations'[t]) <= MaxTurns
    BY <2>2, <2>3, ReadableType
  <2> QED
    BY <1>6, <2>4 DEF Answer, Save
<1>7. ASSUME NEW d \in Deliveries, FailTurn(d)
      PROVE  SlackTypeOK' /\ Fresh'
  BY <1>7 DEF FailTurn
<1>8. ASSUME NEW d \in Deliveries, Post(d)
      PROVE  SlackTypeOK' /\ Fresh'
  BY <1>8 DEF Post
<1>9. ASSUME NEW t \in Threads, Expire(t)
      PROVE  SlackTypeOK' /\ Fresh'
  BY <1>9 DEF Expire
<1>10. ASSUME NEW s \in Scopes, Install(s)
       PROVE  SlackTypeOK' /\ Fresh'
  BY <1>10 DEF Install
<1>11. ASSUME NEW r \in Requests, NEW s \in Scopes, BeginUninstall(r, s)
       PROVE  SlackTypeOK' /\ Fresh'
  BY <1>11 DEF BeginUninstall
<1>12. ASSUME NEW r \in Requests, FinishUninstall(r)
       PROVE  SlackTypeOK' /\ Fresh'
  BY <1>12 DEF FinishUninstall
<1>13. CASE Crash
  BY <1>13 DEF Crash
<1>14. CASE Restart
  BY <1>14 DEF Restart
<1>15. CASE UNCHANGED slackVars
  BY <1>15 DEF slackVars
<1> QED
  BY <1>1, <1>2, <1>3, <1>4, <1>5, <1>6, <1>7, <1>8, <1>9, <1>10, <1>11, <1>12, <1>13, <1>14, <1>15
     DEF SlackNext, Identify, ModelResponds

\* Handlers, conversations and the workspace keep their types, and no
\* conversation outgrows the limit: what saveConversation writes and
\* getConversation reads back.
THEOREM SlackTypeCorrect == SlackSpec => []SlackTypeOK
<1>1. SlackInit => SlackTypeOK /\ Fresh
  BY TypeInit
<1>2. SlackTypeOK /\ Fresh /\ [SlackNext]_slackVars => SlackTypeOK' /\ Fresh'
  BY TypeNext
<1> QED
  BY <1>1, <1>2, PTL DEF SlackSpec

-----------------------------------------------------------------------------
(* Conversations. *)

\* The turn of d may follow the history that d has read.
LEMMA CoherentAppend ==
  ASSUME SlackTypeOK, NEW d \in Deliveries, thread[d] \in Threads,
         CoherentTurns(history[d], thread[d])
  PROVE  CoherentTurns(Trim(Append(history[d], d)), thread[d])
<1> DEFINE h == history[d]
           n == Len(h)
           turns == Append(h, d)
           cut == IF Len(turns) > MaxTurns THEN Len(turns) - MaxTurns ELSE 0
           s == Trim(turns)
<1>1. h \in Seq(Deliveries) /\ n \in Nat /\ n <= MaxTurns /\ MaxTurns \in Nat /\ MaxTurns # 0
  BY SlackConstants DEF SlackTypeOK
<1>2. /\ turns \in Seq(Deliveries)
      /\ Len(turns) = n + 1
      /\ \A i \in 1..n : turns[i] = h[i]
      /\ turns[n + 1] = d
  <2> HIDE DEF h
  <2> QED
    BY <1>1, AppendEnds
<1> HIDE DEF turns
<1>3. cut \in Nat /\ cut <= n
  BY <1>1, <1>2
<1>4. /\ s \in Seq(Deliveries)
      /\ Len(s) = n + 1 - cut
      /\ \A i \in 1..Len(s) : s[i] = turns[cut + i]
  <2>1. /\ Trim(turns) \in Seq(Deliveries)
        /\ Len(Trim(turns)) = Len(turns) - cut
        /\ \A i \in 1..Len(Trim(turns)) : Trim(turns)[i] = turns[cut + i]
    BY <1>2, <1>3, TrimEnds
  <2>2. Len(turns) = n + 1
    BY <1>2
  <2> HIDE DEF h, n, cut
  <2>3. Len(turns) - cut = n + 1 - cut
    BY <2>2, <1>1, <1>3
  <2> QED
    BY <2>1, <2>3
<1>5. /\ \A i \in 1..n :
           /\ thread[h[i]] = thread[d]
           /\ i - 1 <= Len(history[h[i]])
           /\ \A j \in 1..(i - 1) : h[j] = history[h[i]][Len(history[h[i]]) - i + 1 + j]
      /\ n \in 1..(MaxTurns - 1) => history[h[1]] = <<>>
  <2>1. CoherentTurns(h, thread[d])
    OBVIOUS
  <2> HIDE DEF h
  <2>2. DOMAIN h = 1..n
    BY <1>1
  <2> QED
    BY <2>1, <2>2 DEF CoherentTurns
<1>6. \A i \in 1..n : h[i] \in Deliveries /\ Len(history[h[i]]) \in Nat
  BY <1>1 DEF SlackTypeOK
<1> HIDE DEF h, n, cut, s
<1>7. ASSUME NEW i \in 1..Len(s)
      PROVE  /\ thread[s[i]] = thread[d]
             /\ i - 1 <= Len(history[s[i]])
             /\ \A j \in 1..(i - 1) :
                  s[j] = history[s[i]][Len(history[s[i]]) - i + 1 + j]
  <2>0. i \in Nat /\ i >= 1 /\ i <= n + 1 - cut /\ n \in Nat /\ cut \in Nat
    BY <1>1, <1>3, <1>4
  <2>1. CASE i = Len(s)
    <3>1. cut + i = n + 1
      BY <2>0, <2>1, <1>4
    <3>2. s[i] = d
      BY <3>1, <1>2, <1>4
    <3>3. history[s[i]] = h /\ Len(history[s[i]]) = n
      BY <3>2 DEF h, n
    <3>4. i - 1 <= n
      BY <2>0
    <3>5. ASSUME NEW j \in 1..(i - 1)
          PROVE  s[j] = h[n - i + 1 + j]
      <4>1. j \in 1..Len(s) /\ cut + j \in 1..n /\ n - i + 1 + j = cut + j
        BY <2>0, <2>1, <3>1, <1>4
      <4> QED
        BY <4>1, <1>2, <1>4
    <3> QED
      BY <3>2, <3>3, <3>4, <3>5
  <2>2. CASE i # Len(s)
    <3> DEFINE p == cut + i
               e == h[p]
               k == Len(history[e])
    <3>1. p \in 1..n
      BY <2>0, <2>2, <1>4
    <3>2. s[i] = e
      BY <3>1, <1>2, <1>4
    <3>3. p = cut + i
      OBVIOUS
    <3> HIDE DEF p
    <3>4. k \in Nat /\ thread[e] = thread[d] /\ p - 1 <= k
      BY <3>1, <1>5, <1>6
    <3>5. \A j \in 1..(p - 1) : h[j] = history[e][k - p + 1 + j]
      BY <3>1, <1>5
    <3> HIDE DEF e, k
    <3>6. ASSUME NEW j \in 1..(i - 1)
          PROVE  s[j] = history[e][k - i + 1 + j]
      <4>1. j \in 1..Len(s) /\ cut + j \in 1..n /\ cut + j \in 1..(p - 1)
        BY <2>0, <1>4, <3>3
      <4>2. s[j] = h[cut + j]
        BY <4>1, <1>2, <1>4
      <4>3. k - p + 1 + (cut + j) = k - i + 1 + j
        BY <2>0, <3>3, <3>4
      <4> QED
        BY <4>1, <4>2, <4>3, <3>5
    <3>7. i - 1 <= k
      BY <2>0, <3>3, <3>4
    <3> QED
      BY <3>2, <3>4, <3>6, <3>7 DEF k
  <2> QED
    BY <2>1, <2>2
<1>8. ASSUME Len(s) \in 1..(MaxTurns - 1)
      PROVE  history[s[1]] = <<>>
  <2>1. cut = 0 /\ n + 1 < MaxTurns
    BY <1>8, <1>1, <1>2, <1>4 DEF cut
  <2>2. CASE n = 0
    <3>1. s[1] = d /\ h = <<>>
      BY <2>1, <2>2, <1>1, <1>2, <1>4 DEF n
    <3> QED
      BY <3>1 DEF h
  <2>3. CASE n # 0
    <3>1. s[1] = h[1] /\ n \in 1..(MaxTurns - 1)
      BY <2>1, <2>3, <1>1, <1>2, <1>4
    <3> QED
      BY <3>1, <1>5
  <2> QED
    BY <2>2, <2>3
<1> QED
  <2>1. DOMAIN s = 1..Len(s)
    BY <1>4
  <2>2. CoherentTurns(s, thread[d])
    BY <2>1, <1>7, <1>8 DEF CoherentTurns
  <2> QED
    BY <2>2 DEF s, turns, h

-----------------------------------------------------------------------------
(* The invariant: everything stored, and everything read, is coherent and  *)
(* consists of turns whose handlers will not read again.                    *)

\* CoherentTurns, with the two functions it reads as parameters.
Chain(s, t, read, of) ==
  /\ \A i \in DOMAIN s :
       LET h == read[s[i]]
       IN  /\ of[s[i]] = t
           /\ i - 1 <= Len(h)
           /\ \A j \in 1..(i - 1) : s[j] = h[Len(h) - i + 1 + j]
  /\ Len(s) \in 1..(MaxTurns - 1) => read[s[1]] = <<>>

Within(s, A) == \A i \in DOMAIN s : s[i] \in A

\* A sequence of turns of thread t that nothing will disturb.
Settled(s, t, read, of, A) == Chain(s, t, read, of) /\ Within(s, A)

HistoryInv ==
  /\ \A t \in Threads : Settled(conversations[t], t, history, thread, Stored)
  /\ \A d \in Deliveries : Settled(history[d], thread[d], history, thread, Stored)

LEMMA NoTurns ==
  ASSUME NEW t, NEW read, NEW of, NEW A
  PROVE  Settled(<<>>, t, read, of, A)
  BY DEF Settled, Chain, Within

\* A settled sequence stays settled while its handlers keep what they have.
LEMMA StaysSettled ==
  ASSUME NEW s \in Seq(Deliveries), NEW t,
         NEW read, NEW of, NEW A, NEW read2, NEW of2, NEW B,
         Settled(s, t, read, of, A),
         \A d \in A : d \in B /\ read2[d] = read[d] /\ of2[d] = of[d]
  PROVE  Settled(s, t, read2, of2, B)
<1>1. \A i \in DOMAIN s : /\ s[i] \in B
                          /\ read2[s[i]] = read[s[i]] /\ of2[s[i]] = of[s[i]]
  BY DEF Settled, Within
<1>2. \A i \in DOMAIN s :
        LET h == read2[s[i]]
        IN  /\ of2[s[i]] = t
            /\ i - 1 <= Len(h)
            /\ \A j \in 1..(i - 1) : s[j] = h[Len(h) - i + 1 + j]
  BY <1>1 DEF Settled, Chain
<1>3. Len(s) \in 1..(MaxTurns - 1) => read2[s[1]] = <<>>
  BY <1>1 DEF Settled, Chain
<1> QED
  BY <1>1, <1>2, <1>3 DEF Settled, Chain, Within

LEMMA HistoryInit == SlackInit => HistoryInv
  BY NoTurns DEF SlackInit, HistoryInv

LEMMA ReadableInv ==
  ASSUME HistoryInv, NEW t \in Threads
  PROVE  Settled(Readable(t), t, history, thread, Stored)
  BY NoTurns DEF HistoryInv, Readable

\* Handlers that have stored their turn keep what they have.
Kept == \A d \in Stored : d \in Stored' /\ history'[d] = history[d] /\ thread'[d] = thread[d]

\* It remains to look at the sequences that a step changes.
LEMMA HistoryStep ==
  ASSUME SlackTypeOK, HistoryInv, Kept,
         \A t \in Threads : \/ conversations'[t] = conversations[t]
                            \/ Settled(conversations'[t], t, history', thread', Stored'),
         \A d \in Deliveries : \/ history'[d] = history[d] /\ thread'[d] = thread[d]
                               \/ Settled(history'[d], thread'[d], history', thread', Stored')
  PROVE  HistoryInv'
<1>1. ASSUME NEW t \in Threads, conversations'[t] = conversations[t]
      PROVE  Settled(conversations'[t], t, history', thread', Stored')
  <2>1. conversations[t] \in Seq(Deliveries)
    BY DEF SlackTypeOK
  <2>2. Settled(conversations[t], t, history, thread, Stored)
    BY DEF HistoryInv
  <2>3. Settled(conversations[t], t, history', thread', Stored')
    BY <2>1, <2>2, StaysSettled DEF Kept
  <2> QED
    BY <1>1, <2>3
<1>2. ASSUME NEW d \in Deliveries, history'[d] = history[d], thread'[d] = thread[d]
      PROVE  Settled(history'[d], thread'[d], history', thread', Stored')
  <2>1. history[d] \in Seq(Deliveries)
    BY DEF SlackTypeOK
  <2>2. Settled(history[d], thread[d], history, thread, Stored)
    BY DEF HistoryInv
  <2>3. Settled(history[d], thread[d], history', thread', Stored')
    BY <2>1, <2>2, StaysSettled DEF Kept
  <2> QED
    BY <1>2, <2>3
<1> QED
  BY <1>1, <1>2 DEF HistoryInv

\* The turns of a handler that has not stored one are in nobody's history.
LEMMA DeliverInv ==
  ASSUME SlackTypeOK, Fresh, HistoryInv,
         NEW d \in Deliveries, NEW u \in Threads, Deliver(d, u)
  PROVE  HistoryInv'
<1>1. Kept
  BY DEF Kept, Deliver, Stored, GoTo, SlackTypeOK
<1>2. conversations' = conversations /\ history' = history
  BY DEF Deliver, tableVars
<1>3. history'[d] = <<>>
  BY <1>2 DEF Deliver, Fresh
<1>4. Settled(history'[d], thread'[d], history', thread', Stored')
  BY <1>3, NoTurns
<1>5. \A e \in Deliveries : e # d => thread'[e] = thread[e]
  BY DEF Deliver, SlackTypeOK
<1> QED
  BY <1>1, <1>2, <1>4, <1>5, HistoryStep

\* Reading copies a settled sequence.
LEMMA StartTurnInv ==
  ASSUME SlackTypeOK, Fresh, HistoryInv, NEW d \in Deliveries, StartTurn(d)
  PROVE  HistoryInv'
<1>1. Kept
  BY DEF Kept, StartTurn, Stored, GoTo, SlackTypeOK
<1>2. conversations' = conversations /\ thread' = thread /\ thread[d] \in Threads
  BY DEF StartTurn, tableVars, Fresh
<1>3. history'[d] = Readable(thread[d])
  BY DEF StartTurn, SlackTypeOK
<1>4. Settled(history'[d], thread[d], history, thread, Stored)
  BY <1>2, <1>3, ReadableInv
<1>5. history'[d] \in Seq(Deliveries)
  BY <1>2, <1>3, ReadableType
<1>6. Settled(history'[d], thread'[d], history', thread', Stored')
  BY <1>1, <1>2, <1>4, <1>5, StaysSettled DEF Kept
<1>7. \A e \in Deliveries : e # d => history'[e] = history[e]
  BY DEF StartTurn, SlackTypeOK
<1> QED
  BY <1>1, <1>2, <1>6, <1>7, HistoryStep

\* Storing appends a turn to the sequence its handler has read.
LEMMA AnswerInv ==
  ASSUME SlackTypeOK, Fresh, HistoryInv, NEW d \in Deliveries, Answer(d)
  PROVE  HistoryInv'
<1> DEFINE turns == Append(history[d], d)
<1>1. Kept
  BY DEF Kept, Answer, Stored, GoTo, SlackTypeOK
<1>2. history' = history /\ thread' = thread
  BY DEF Answer
<1>3. \A e \in Stored \cup {d} : e \in Stored'
  BY <1>1 DEF Kept, Answer, Stored, GoTo, SlackTypeOK
<1>4. conversations' = [x \in Threads |-> IF x = thread[d] THEN Trim(turns) ELSE Readable(x)]
  BY DEF Answer, Save
<1>5. ASSUME NEW x \in Threads, x = thread[d]
      PROVE  Settled(conversations'[x], x, history', thread', Stored')
  <2>1. Chain(history[d], thread[d], history, thread) /\ Within(history[d], Stored)
    BY DEF HistoryInv, Settled
  <2>2. CoherentTurns(history[d], thread[d])
    BY <2>1 DEF Chain, CoherentTurns
  <2>3. CoherentTurns(Trim(turns), thread[d])
    BY <1>5, <2>2, CoherentAppend
  <2> HIDE DEF turns
  <2>4. Chain(Trim(turns), thread[d], history, thread)
    BY <2>3 DEF Chain, CoherentTurns
  <2>5. Within(Trim(turns), Stored \cup {d})
    <3>1. history[d] \in Seq(Stored \cup {d})
      BY <2>1 DEF Within, SlackTypeOK
    <3>2. turns \in Seq(Stored \cup {d})
      BY <3>1 DEF turns
    <3> DEFINE cut == IF Len(turns) > MaxTurns THEN Len(turns) - MaxTurns ELSE 0
    <3>3. cut \in Nat
      BY <3>2, SlackConstants
    <3>4. Trim(turns) \in Seq(Stored \cup {d})
      BY <3>2, <3>3, TrimEnds
    <3> QED
      BY <3>4 DEF Within
  <2>6. Within(Trim(turns), Stored')
    BY <1>3, <2>5 DEF Within
  <2>7. conversations'[x] = Trim(turns)
    BY <1>4, <1>5
  <2> QED
    BY <1>2, <1>5, <2>4, <2>6, <2>7 DEF Settled
<1>6. ASSUME NEW x \in Threads, x # thread[d]
      PROVE  Settled(conversations'[x], x, history', thread', Stored')
  <2>1. conversations'[x] = Readable(x)
    BY <1>4, <1>6
  <2>2. Settled(Readable(x), x, history, thread, Stored) /\ Readable(x) \in Seq(Deliveries)
    BY ReadableInv, ReadableType
  <2>3. Settled(Readable(x), x, history', thread', Stored')
    BY <1>1, <2>2, StaysSettled DEF Kept
  <2> QED
    BY <2>1, <2>3
<1> QED
  BY <1>1, <1>2, <1>5, <1>6, HistoryStep

LEMMA HistoryNext ==
  SlackTypeOK /\ Fresh /\ HistoryInv /\ [SlackNext]_slackVars => HistoryInv'
<1> SUFFICES ASSUME SlackTypeOK, Fresh, HistoryInv, [SlackNext]_slackVars
             PROVE  HistoryInv'
  OBVIOUS
<1> DEFINE Bystander == UNCHANGED <<thread, history, conversations>> /\ Kept
<1>1. ASSUME Bystander
      PROVE  HistoryInv'
  BY <1>1, HistoryStep
<1>2. ASSUME NEW d \in Deliveries, NEW t \in Threads, Deliver(d, t)
      PROVE  HistoryInv'
  BY <1>2, DeliverInv
<1>3. ASSUME NEW d \in Deliveries, Identify(d) \/ ModelResponds(d) \/ Post(d)
      PROVE  HistoryInv'
  <2>1. CASE StartTurn(d)
    BY <2>1, StartTurnInv
  <2>2. CASE Answer(d)
    BY <2>2, AnswerInv
  <2>3. CASE TurnAway(d) \/ UseTools(d) \/ Synthesise(d) \/ FailTurn(d) \/ Post(d)
    <3>1. Bystander
      BY <2>3 DEF TurnAway, UseTools, Synthesise, FailTurn, Post, GoTo, Stored, Kept,
                  SlackTypeOK, tableVars
    <3> QED
      BY <1>1, <3>1
  <2> QED
    BY <1>3, <2>1, <2>2, <2>3 DEF Identify, ModelResponds
<1>4. ASSUME \/ \E t \in Threads : Expire(t)
             \/ \E s \in Scopes : Install(s)
             \/ \E r \in Requests : (\E s \in Scopes : BeginUninstall(r, s)) \/ FinishUninstall(r)
             \/ Restart
             \/ UNCHANGED slackVars
      PROVE  HistoryInv'
  <2>1. UNCHANGED <<pc, thread, history, conversations>>
    BY <1>4 DEF Expire, Install, BeginUninstall, FinishUninstall, Restart, slackVars,
                handlerVars, tableVars
  <2> QED
    BY <1>1, <2>1 DEF Kept, Stored
<1>5. CASE Crash
  <2>1. UNCHANGED <<thread, history, conversations>>
    BY <1>5 DEF Crash, tableVars
  <2>2. Kept
    BY <1>5, <2>1 DEF Crash, Kept, Stored, InFlight, SlackTypeOK
  <2> QED
    BY <1>1, <2>1, <2>2
<1> QED
  BY <1>2, <1>3, <1>4, <1>5 DEF SlackNext

\* However handleUserMessage runs of one thread interleave, fail, expire or
\* die, the stored conversation is one that took place: every answer in it
\* was given in sight of exactly the turns filed before it.
THEOREM HistoryCoherent == SlackSpec => []CoherentHistory
<1>1. SlackInit => SlackTypeOK /\ Fresh /\ HistoryInv
  BY TypeInit, HistoryInit
<1>2. SlackTypeOK /\ Fresh /\ HistoryInv /\ [SlackNext]_slackVars
        => SlackTypeOK' /\ Fresh' /\ HistoryInv'
  BY TypeNext, HistoryNext
<1>3. HistoryInv => CoherentHistory
  BY DEF HistoryInv, Settled, Chain, CoherentHistory, CoherentTurns
<1> QED
  BY <1>1, <1>2, <1>3, PTL DEF SlackSpec
=============================================================================
