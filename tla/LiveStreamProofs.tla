---------------------------- MODULE LiveStreamProofs ----------------------------
(***************************************************************************)
(* Theorems of LiveStream and BenchmarkLoop, for any events, keys, channel  *)
(* capacity and number of connections, on either transport: what the reader *)
(* is given is a verified prefix of what arrived, and no event twice over   *)
(* all connections; a stream that ends in silence has given all that was    *)
(* read whole; the handler is given every job heard, in order and once.     *)
(***************************************************************************)
EXTENDS BenchmarkLoop, SequenceTheorems, TLAPS

\* An event that may be released: it verified, on this connection, and is on record.
Sound(e) == e \in Events \ Torn /\ Channel[e] = connections /\ e \in consumed

\* The i-th thing released is the i-th thing that arrived, or the error that ended the
\* task, and then it is the last.
ReleasedKeeps ==
    \A i \in DOMAIN Released :
        \/ i <= checked /\ Released[i] = sent[i] /\ Sound(Released[i])
        \/ Released[i] \in Failures /\ i = Len(Released) /\ task \in {"done", "none"}

\* What is read and not yet verified came whole.
RestIsWhole == \A i \in (checked + 1)..taken : sent[i] \notin Torn

\* The event in the task's hand is the one after those released, and new.
InHand ==
    /\ Sound(outgoing) /\ RestIsWhole
    /\ checked = Len(Released) + 1 /\ outgoing = sent[checked]
    /\ \A i \in DOMAIN Released : Released[i] # outgoing
    /\ outgoing \notin past

\* What was released on earlier connections is on record.
PastKeeps == past \subseteq consumed

\* Where the task is tells how much of what it has read is released.
TaskKeeps ==
    /\ task \in {"select", "refresh"} => checked = taken /\ Len(Released) = checked
    /\ task = "verify" => checked < taken /\ Len(Released) = checked /\ RestIsWhole
    /\ task = "send" => outgoing \in Failures \/ InHand
    /\ task # "send" => outgoing = Nothing

\* A task that ends by itself has released all it has read, or an error.
EndKeeps ==
    /\ reader \in {"closing", "dropped"} => shutdown
    /\ task = "done" /\ ~shutdown =>
         \/ Len(Released) = taken /\ (transport = "sse" => Len(sent) <= taken + 1)
         \/ \E i \in DOMAIN Released : Released[i] \in Failures

IInv == TypeOK /\ ReleasedKeeps /\ ReleasedOnce /\ PastKeeps /\ TaskKeeps /\ EndKeeps

-----------------------------------------------------------------------------
LEMMA ReleasedSeq ==
    ASSUME TypeOK
    PROVE  /\ Released \in Seq(Results)
           /\ Len(Released) \in Nat
           /\ DOMAIN Released = 1..Len(Released)
<1>1. got \in Seq(Results) /\ queue \in Seq(Results)
    BY DEF TypeOK
<1>2. Released \in Seq(Results)
    BY <1>1, ConcatProperties DEF Released
<1> QED
    BY <1>2, LenProperties

\* The reader takes what was released: that does not change it.
LEMMA TakeKeeps ==
    ASSUME NEW S, NEW g \in Seq(S), NEW q \in Seq(S), q # <<>>
    PROVE  Append(g, Head(q)) \o Tail(q) = g \o q
<1>1. Head(q) \in S /\ Tail(q) \in Seq(S) /\ Len(Tail(q)) = Len(q) - 1
      /\ \A i \in 1..Len(Tail(q)) : Tail(q)[i] = q[i + 1]
    BY HeadTailProperties
<1> DEFINE a == Append(g, Head(q))
<1>2. a \in Seq(S) /\ Len(a) = Len(g) + 1
      /\ (\A i \in 1..Len(g) : a[i] = g[i]) /\ a[Len(g) + 1] = Head(q)
    BY <1>1, AppendProperties
<1>3. Head(q) = q[1] /\ Len(q) \in Nat \ {0} /\ Len(g) \in Nat
    BY LenProperties, EmptySeq
<1> HIDE DEF a
<1>4. /\ a \o Tail(q) \in Seq(S)
      /\ Len(a \o Tail(q)) = Len(g) + Len(q)
      /\ \A i \in 1..Len(g) + Len(q) : (a \o Tail(q))[i] =
             IF i <= Len(g) + 1 THEN a[i] ELSE Tail(q)[i - (Len(g) + 1)]
  <2>1. Len(a) + Len(Tail(q)) = Len(g) + Len(q)
    BY <1>1, <1>2, <1>3
  <2> QED
    BY <1>1, <1>2, <2>1, ConcatProperties
<1>5. /\ g \o q \in Seq(S)
      /\ Len(g \o q) = Len(g) + Len(q)
      /\ \A i \in 1..Len(g) + Len(q) : (g \o q)[i] = IF i <= Len(g) THEN g[i] ELSE q[i - Len(g)]
    BY ConcatProperties
<1>6. ASSUME NEW i \in 1..Len(g) + Len(q) PROVE (a \o Tail(q))[i] = (g \o q)[i]
  <2>0. Len(g) \in Nat /\ i \in Nat
    BY <1>3
  <2>1. CASE i <= Len(g)
    BY <2>1, <1>2, <1>3, <1>4, <1>5
  <2>2. CASE i = Len(g) + 1
    BY <2>2, <1>2, <1>3, <1>4, <1>5
  <2>3. CASE i > Len(g) + 1
    <3>1. i - (Len(g) + 1) \in 1..Len(Tail(q)) /\ (i - (Len(g) + 1)) + 1 = i - Len(g)
      BY <2>3, <1>1, <1>3
    <3>2. Tail(q)[i - (Len(g) + 1)] = q[i - Len(g)]
      BY <3>1, <1>1
    <3> QED
      BY <2>3, <3>2, <1>3, <1>4, <1>5
  <2>4. i <= Len(g) \/ i = Len(g) + 1 \/ i > Len(g) + 1
    BY <2>0
  <2> QED
    BY <2>1, <2>2, <2>3, <2>4
<1> QED
    BY <1>4, <1>5, <1>6, SeqEqual DEF a

\* What goes into the channel is released after all the rest.
LEMMA PutAppends ==
    ASSUME NEW S, NEW g \in Seq(S), NEW q \in Seq(S), NEW r \in S
    PROVE  g \o Append(q, r) = Append(g \o q, r)
<1>1. <<r>> \in Seq(S)
    OBVIOUS
<1>2. Append(q, r) = q \o <<r>> /\ Append(g \o q, r) = (g \o q) \o <<r>>
    BY AppendIsConcat, ConcatProperties
<1> QED
    BY <1>1, <1>2, ConcatAssociative

-----------------------------------------------------------------------------
LEMMA InitIInv == Init => IInv
<1> SUFFICES ASSUME Init PROVE IInv
    OBVIOUS
<1>1. TypeOK
  <2>1. <<>> \in Seq(Events) /\ <<>> \in Seq(Results) /\ Len(<<>>) = 0
    BY EmptySeq
  <2>2. taken \in 0..Len(sent) /\ checked \in 0..taken /\ Len(queue) <= Capacity
    BY <2>1, Bounds DEF Init
  <2>3. outgoing \in Results \cup {Nothing} /\ connections \in Nat
    BY DEF Init
  <2>4. sent \in Seq(Events) /\ queue \in Seq(Results) /\ got \in Seq(Results)
    BY <2>1 DEF Init
  <2> QED
    BY <2>2, <2>3, <2>4 DEF Init, TypeOK
<1>2. Released = <<>>
    BY DEF Init, Released
<1> QED
    BY <1>1, <1>2 DEF Init, IInv, ReleasedKeeps, ReleasedOnce, PastKeeps, TaskKeeps, EndKeeps

\* Keys are published and read, connections are asked for, closed and dropped.
LEMMA ReaderIInv ==
    ASSUME IInv, \/ \E K \in SUBSET Signers : Publish(K)
                 \/ FetchKeys \/ DialFails \/ Close \/ Drop
    PROVE  IInv'
<1>1. /\ Released' = Released
      /\ UNCHANGED <<connections, sent, past, transport, taken, checked, consumed, task, outgoing, queue, got>>
    BY DEF Publish, FetchKeys, DialFails, Close, Drop,
           Released, wireVars, taskVars, readerVars
<1>2. published' \subseteq Signers /\ snapshot' \subseteq Signers
    BY DEF IInv, TypeOK, Publish, FetchKeys, DialFails, Close, Drop, keyVars
<1>3. /\ shutdown' \in BOOLEAN
      /\ reader' \in {"idle", "connecting", "open", "closing", "dropped"}
      /\ reader' \in {"closing", "dropped"} => shutdown'
      /\ shutdown => shutdown'
  <2>1. shutdown \in BOOLEAN /\ reader \in {"idle", "connecting", "open", "closing", "dropped"}
        /\ (reader \in {"closing", "dropped"} => shutdown)
    BY DEF IInv, TypeOK, EndKeeps
  <2>2. ASSUME NEW K, Publish(K) PROVE shutdown' = shutdown /\ reader' = reader
    BY <2>2 DEF Publish, readerVars
  <2>3. CASE UNCHANGED <<shutdown, reader>>
    BY <2>1, <2>3
  <2>4. CASE FetchKeys \/ DialFails
    BY <2>1, <2>4 DEF FetchKeys, DialFails
  <2>5. CASE Close \/ Drop
    BY <2>5 DEF Close, Drop
  <2> QED
    BY <2>2, <2>3, <2>4, <2>5
<1>4. TypeOK'
    BY <1>1, <1>2, <1>3 DEF IInv, TypeOK
<1> QED
    BY <1>1, <1>3, <1>4
    DEF IInv, ReleasedKeeps, ReleasedOnce, PastKeeps, TaskKeeps, EndKeeps, InHand, RestIsWhole, Sound

\* The task goes on to something that releases nothing: it waits, fetches keys, ends,
\* or is about to report an error.
LEMMA TurnIInv ==
    ASSUME IInv, \/ ObserveShutdown \/ RefreshStart \/ RefreshOk \/ RefreshFails
                 \/ ReadEnd \/ PongFails \/ ReadFails
                 \/ DeliverDropped \/ Abort \/ CloseReturn
    PROVE  IInv'
<1>1. /\ Released' = Released
      /\ UNCHANGED <<connections, sent, past, transport, taken, checked, consumed, queue, got>>
    BY DEF ObserveShutdown, RefreshStart, RefreshOk, RefreshFails, ReadEnd, PongFails, ReadFails,
           DeliverDropped, Abort, CloseReturn, Become, Send, Released, wireVars, readerVars
<1>2. TypeOK'
    BY DEF IInv, TypeOK, Results, Failures, ObserveShutdown, RefreshStart, RefreshOk, RefreshFails,
           ReadEnd, PongFails, ReadFails, DeliverDropped, Abort, CloseReturn, Become, Send,
           wireVars, readerVars, keyVars
<1>3. /\ task \in {"done", "none"} => task' \in {"done", "none"}
      /\ task' \in {"select", "refresh"} => task \in {"select", "refresh"}
      /\ task' # "verify"
      /\ task' = "send" => outgoing' \in Failures
      /\ task' # "send" => outgoing' = Nothing
    BY DEF IInv, TaskKeeps, Failures, ObserveShutdown, RefreshStart, RefreshOk, RefreshFails,
           ReadEnd, PongFails, ReadFails, DeliverDropped, Abort, CloseReturn, Become, Send
<1>4. EndKeeps'
    BY <1>1, LenProperties DEF IInv, TypeOK, EndKeeps, TaskKeeps, ObserveShutdown, RefreshStart, RefreshOk, RefreshFails,
           ReadEnd, PongFails, ReadFails, DeliverDropped, Abort, CloseReturn, Become, Send,
           wireVars, readerVars
<1> QED
    BY <1>1, <1>2, <1>3, <1>4 DEF IInv, ReleasedKeeps, ReleasedOnce, PastKeeps, TaskKeeps, Sound

\* A new connection has released nothing.
LEMMA DialIInv == ASSUME IInv, Dial PROVE IInv'
<1>1. TypeOK'
  <2>1. <<>> \in Seq(Events) /\ <<>> \in Seq(Results) /\ Len(<<>>) = 0
    BY EmptySeq
  <2>2. taken' \in 0..Len(sent') /\ checked' \in 0..taken' /\ Len(queue') <= Capacity
    BY <2>1, Bounds DEF Dial
  <2>3. outgoing' \in Results \cup {Nothing} /\ connections' \in Nat /\ past' \subseteq Events
    BY DEF Dial, IInv, TypeOK
  <2>4. sent' \in Seq(Events) /\ queue' \in Seq(Results) /\ got' \in Seq(Results)
    BY <2>1 DEF Dial
  <2> QED
    BY <2>2, <2>3, <2>4 DEF IInv, TypeOK, Dial, keyVars
<1>2. Released' = <<>> /\ task' = "select" /\ outgoing' = Nothing /\ checked' = 0 /\ taken' = 0
      /\ reader' = "open"
    BY DEF Dial, Released
<1>3. PastKeeps'
  <2>1. past' = past \cup (Events \cap Elements(Released)) /\ consumed' = consumed
    BY DEF Dial
  <2>2. ASSUME NEW e \in Events \cap Elements(Released) PROVE e \in consumed
    BY FailuresAreNoEvents DEF IInv, ReleasedKeeps, Sound, Elements
  <2> QED
    BY <2>1, <2>2 DEF IInv, PastKeeps
<1>4. DOMAIN Released' = {} /\ Elements(Released') = {} /\ Len(Released') = 0
    BY <1>2 DEF Elements
<1> QED
    BY <1>1, <1>2, <1>3, <1>4 DEF IInv, ReleasedKeeps, ReleasedOnce, TaskKeeps, EndKeeps

LEMMA ArriveIInv == ASSUME IInv, NEW e \in Events, Arrive(e) PROVE IInv'
<1>1. /\ Released' = Released /\ sent' = Append(sent, e) /\ task # "done"
      /\ UNCHANGED <<keyVars, connections, past, transport, taken, checked, consumed, task, outgoing,
                     queue, shutdown, reader, got>>
    BY DEF Arrive, Released, taskVars, readerVars
<1>2. /\ sent' \in Seq(Events) /\ Len(sent) \in Nat /\ Len(sent') = Len(sent) + 1
      /\ \A i \in 1..Len(sent) : sent'[i] = sent[i]
    BY <1>1, AppendProperties, LenProperties DEF IInv, TypeOK
<1>3. TypeOK'
    BY <1>1, <1>2 DEF IInv, TypeOK, keyVars
<1>4. \A i \in 1..taken : sent'[i] = sent[i]
  <2>1. taken \in 0..Len(sent)
    BY DEF IInv, TypeOK
  <2> QED
    BY <1>2, <2>1
<1>5. ReleasedKeeps'
  <2>1. DOMAIN Released = 1..Len(Released) /\ Len(Released) \in Nat
    BY ReleasedSeq DEF IInv
  <2>2. ASSUME NEW i \in DOMAIN Released, i <= checked PROVE sent'[i] = sent[i]
    BY <2>1, <2>2, <1>4 DEF IInv, TypeOK
  <2> QED
    BY <1>1, <2>2 DEF IInv, ReleasedKeeps, Sound
<1>6. RestIsWhole => RestIsWhole'
    BY <1>1, <1>4 DEF IInv, TypeOK, RestIsWhole
<1>7. InHand => InHand'
  <2>1. InHand => checked \in 1..taken
    BY ReleasedSeq DEF IInv, TypeOK, InHand
  <2> QED
    BY <2>1, <1>1, <1>4, <1>6 DEF InHand, Sound
<1>8. TaskKeeps'
    BY <1>1, <1>6, <1>7 DEF IInv, TaskKeeps
<1> QED
    BY <1>1, <1>3, <1>5, <1>8 DEF IInv, ReleasedOnce, PastKeeps, EndKeeps

\* A chunk is taken whole or reported as an error.
LEMMA ReadChunkIInv == ASSUME IInv, NEW n \in 1..Len(sent), ReadChunk(n) PROVE IInv'
<1>0. taken \in 0..Len(sent) /\ Len(sent) \in Nat
    BY LenProperties DEF IInv, TypeOK
<1>1. /\ Released' = Released /\ task = "select" /\ taken' = n /\ n > taken
      /\ UNCHANGED <<keyVars, connections, sent, past, transport, checked, consumed, queue, shutdown, reader,
                     got>>
    BY <1>0 DEF ReadChunk, Become, Send, Released, wireVars, readerVars
<1>2. \/ task' = "send" /\ outgoing' = Rejected
      \/ task' = "verify" /\ outgoing' = outgoing /\ \A i \in (taken + 1)..n : sent[i] \notin Torn
    BY DEF ReadChunk, Become, Send
<1>3. checked = taken /\ Len(Released) = checked /\ outgoing = Nothing
    BY <1>1 DEF IInv, TaskKeeps
<1>4. TypeOK'
    BY <1>1, <1>2, LenProperties DEF IInv, TypeOK, Results, Failures, keyVars
<1>5. TaskKeeps'
    BY <1>1, <1>2, <1>3 DEF TaskKeeps, RestIsWhole, Failures, IInv, TypeOK
<1> QED
    BY <1>1, <1>2, <1>4, <1>5 DEF IInv, ReleasedKeeps, ReleasedOnce, PastKeeps, EndKeeps, Sound

LEMMA VerifyIInv == ASSUME IInv, Verify PROVE IInv'
<1> DEFINE e == sent[checked + 1]
<1>1. /\ Released' = Released /\ task = "verify" /\ task' = "send" /\ checked' = checked + 1
      /\ UNCHANGED <<keyVars, connections, sent, past, transport, taken, queue, shutdown, reader, got>>
    BY DEF Verify, Become, Send, Released, wireVars, readerVars
<1>2. \/ Acceptable(e) /\ outgoing' = e /\ consumed' = consumed \cup {e}
      \/ outgoing' = Rejected /\ consumed' = consumed
    BY DEF Verify, Become, Send
<1>3. checked < taken /\ Len(Released) = checked /\ RestIsWhole
    BY <1>1 DEF IInv, TaskKeeps
<1>4. /\ taken \in 0..Len(sent) /\ checked \in 0..taken /\ Len(sent) \in Nat /\ sent \in Seq(Events)
      /\ taken \in Nat /\ checked \in Nat /\ consumed \subseteq Events
    BY LenProperties DEF IInv, TypeOK
<1>5. checked + 1 \in 1..Len(sent) /\ checked + 1 \in (checked + 1)..taken /\ checked' \in 0..taken
    BY <1>1, <1>3, <1>4
<1>6. e \in Events /\ e \notin Torn
    BY <1>3, <1>4, <1>5, ElementOfSeq DEF RestIsWhole
<1> HIDE DEF e
<1>7. TypeOK'
    BY <1>1, <1>2, <1>5, <1>6 DEF IInv, TypeOK, Results, Failures, keyVars
<1>8. \A i \in DOMAIN Released : Sound(Released[i]) => Sound(Released[i])'
    BY <1>1, <1>2 DEF Sound
<1>9. ReleasedKeeps'
    BY <1>1, <1>4, <1>8, ReleasedSeq DEF IInv, ReleasedKeeps
<1>10. outgoing' \in Failures \/ InHand'
  <2>1. CASE outgoing' = Rejected
    BY <2>1 DEF Failures
  <2>2. CASE Acceptable(e) /\ outgoing' = e /\ consumed' = consumed \cup {e}
    <3>1. Sound(outgoing)'
      BY <2>2, <1>1, <1>6 DEF Sound, Acceptable
    <3>2. RestIsWhole'
      BY <1>1, <1>3, <1>4 DEF RestIsWhole
    <3>3. \A i \in DOMAIN Released : Released[i] # e
      BY <2>2, <1>6, FailuresAreNoEvents DEF IInv, ReleasedKeeps, Sound, Acceptable
    <3>4. e \notin past
      BY <2>2 DEF IInv, PastKeeps, Acceptable
    <3> QED
      BY <2>2, <3>1, <3>2, <3>3, <3>4, <1>1, <1>3 DEF InHand, e
  <2> QED
    BY <1>2, <2>1, <2>2
<1>11. PastKeeps' /\ ReleasedOnce'
    BY <1>1, <1>2 DEF IInv, PastKeeps, ReleasedOnce
<1> QED
    BY <1>1, <1>7, <1>9, <1>10, <1>11 DEF IInv, TaskKeeps, EndKeeps

\* The task puts what it has in hand into the channel.
LEMMA DeliverIInv == ASSUME IInv, Deliver PROVE IInv'
<1>1. /\ task = "send" /\ ~shutdown /\ Len(queue) < Capacity
      /\ queue' = Append(queue, outgoing) /\ outgoing' = Nothing
      /\ task' = IF outgoing \in Failures THEN "done" ELSE IF checked = taken THEN "select" ELSE "verify"
      /\ UNCHANGED <<keyVars, wireVars, taken, checked, consumed, shutdown, reader, got>>
    BY DEF Deliver, readerVars
<1>2. /\ Released \in Seq(Results) /\ DOMAIN Released = 1..Len(Released) /\ Len(Released) \in Nat
      /\ got \in Seq(Results) /\ queue \in Seq(Results) /\ outgoing \in Results
    BY <1>1, ReleasedSeq DEF IInv, TypeOK, TaskKeeps, InHand, Sound, Results
<1>3. Released' = Append(Released, outgoing)
    BY <1>1, <1>2, PutAppends DEF Released
<1>4. /\ Released' \in Seq(Results) /\ Len(Released') = Len(Released) + 1
      /\ DOMAIN Released' = 1..(Len(Released) + 1)
      /\ \A i \in 1..Len(Released) : Released'[i] = Released[i]
      /\ Released'[Len(Released) + 1] = outgoing
    BY <1>2, <1>3, AppendProperties, LenProperties
<1>5. queue' \in Seq(Results) /\ Len(queue') <= Capacity
    BY <1>1, <1>2, AppendProperties, LenProperties, Bounds
<1>6. TypeOK'
    BY <1>1, <1>5 DEF IInv, TypeOK, keyVars, wireVars
<1>7. \A i \in DOMAIN Released : i <= checked /\ Released[i] = sent[i] /\ Sound(Released[i])
    BY <1>1 DEF IInv, ReleasedKeeps
<1>8. UNCHANGED <<connections, consumed>>
    BY <1>1 DEF wireVars
<1>9. outgoing \in Failures \/ InHand
    BY <1>1 DEF IInv, TaskKeeps
<1>10. UNCHANGED <<sent, checked, taken>> /\ past' = past /\ PastKeeps'
    BY <1>1 DEF wireVars, IInv, PastKeeps
<1>11. checked \in Nat /\ taken \in Nat /\ checked <= taken
    BY LenProperties DEF IInv, TypeOK
<1>12. Elements(Released') = Elements(Released) \cup {outgoing}
  <2>1. DOMAIN Released' = DOMAIN Released \cup {Len(Released) + 1}
    BY <1>2, <1>4
  <2> QED
    BY <2>1, <1>2, <1>4 DEF Elements
<1>13. CASE outgoing \in Failures
  <2>1. task' = "done"
    BY <1>1, <1>13
  <2>2. ASSUME NEW i \in DOMAIN Released'
        PROVE  \/ (i <= checked /\ Released[i] = sent[i] /\ Sound(Released[i]))'
               \/ Released'[i] \in Failures /\ i = Len(Released') /\ task' \in {"done", "none"}
    <3>1. CASE i = Len(Released) + 1
      BY <3>1, <2>1, <1>4, <1>13
    <3>2. CASE i \in DOMAIN Released
      <4>1. Released'[i] = Released[i]
        BY <3>2, <1>2, <1>4
      <4> QED
        BY <3>2, <4>1, <1>7, <1>8, <1>10 DEF Sound
    <3> QED
      BY <3>1, <3>2, <1>2, <1>4
  <2>3. ReleasedOnce'
    <3>1. ASSUME NEW i \in DOMAIN Released', NEW j \in DOMAIN Released', i # j, Released'[i] \in Events
          PROVE  Released'[i] # Released'[j]
      <4>1. i \in 1..Len(Released)
        BY <3>1, <1>2, <1>4, <1>13, FailuresAreNoEvents
      <4>2. CASE j = Len(Released) + 1
        BY <3>1, <4>1, <4>2, <1>4, <1>13, FailuresAreNoEvents
      <4>3. CASE j \in 1..Len(Released)
        BY <3>1, <4>1, <4>3, <1>2, <1>4 DEF IInv, ReleasedOnce
      <4> QED
        BY <4>2, <4>3, <1>2, <1>4
    <3>2. outgoing \notin past
      BY <1>13, FailuresAreNoEvents DEF IInv, TypeOK
    <3> QED
      BY <3>1, <3>2, <1>10, <1>12 DEF ReleasedOnce, IInv
  <2>4. EndKeeps'
    <3>1. Len(Released) + 1 \in DOMAIN Released' /\ Released'[Len(Released) + 1] \in Failures
      BY <1>2, <1>4, <1>13
    <3> QED
      BY <3>1, <1>1 DEF IInv, EndKeeps
  <2>5. TaskKeeps'
    BY <2>1, <1>1 DEF TaskKeeps
  <2> QED
    BY <2>2, <2>3, <2>4, <2>5, <1>6, <1>10 DEF IInv, ReleasedKeeps
<1>14. CASE InHand /\ outgoing \notin Failures
  <2>1. /\ Sound(outgoing) /\ RestIsWhole /\ checked = Len(Released) + 1 /\ outgoing = sent[checked]
        /\ \A i \in DOMAIN Released : Released[i] # outgoing
    BY <1>14 DEF InHand
  <2>2. task' = IF checked = taken THEN "select" ELSE "verify"
    BY <1>1, <1>14
  <2>3. ASSUME NEW i \in DOMAIN Released'
        PROVE  (i <= checked /\ Released[i] = sent[i] /\ Sound(Released[i]))'
    <3>1. CASE i = Len(Released) + 1
      BY <3>1, <2>1, <1>2, <1>4, <1>8, <1>10, <1>11 DEF Sound
    <3>2. CASE i \in DOMAIN Released
      <4>1. Released'[i] = Released[i]
        BY <3>2, <1>2, <1>4
      <4> QED
        BY <3>2, <4>1, <1>7, <1>8, <1>10 DEF Sound
    <3> QED
      BY <3>1, <3>2, <1>2, <1>4
  <2>4. ReleasedOnce'
    <3>1. ASSUME NEW i \in DOMAIN Released', NEW j \in DOMAIN Released', i # j, Released'[i] \in Events
          PROVE  Released'[i] # Released'[j]
      <4>1. CASE i \in 1..Len(Released) /\ j \in 1..Len(Released)
        BY <3>1, <4>1, <1>2, <1>4 DEF IInv, ReleasedOnce
      <4>2. CASE i = Len(Released) + 1 \/ j = Len(Released) + 1
        BY <3>1, <4>2, <2>1, <1>2, <1>4
      <4> QED
        BY <4>1, <4>2, <1>2, <1>4
    <3>2. outgoing \notin past
      BY <1>14 DEF InHand
    <3> QED
      BY <3>1, <3>2, <1>10, <1>12 DEF ReleasedOnce, IInv
  <2>5. TaskKeeps'
    <3>1. RestIsWhole'
      BY <2>1, <1>10 DEF RestIsWhole
    <3>2. Len(Released') = checked'
      BY <2>1, <1>4, <1>10
    <3> QED
      BY <3>1, <3>2, <2>2, <1>1, <1>10, <1>11 DEF TaskKeeps
  <2>6. EndKeeps'
    BY <2>2, <1>1 DEF IInv, EndKeeps
  <2> QED
    BY <2>3, <2>4, <2>5, <2>6, <1>6, <1>10 DEF IInv, ReleasedKeeps
<1> QED
    BY <1>9, <1>13, <1>14

\* The reader takes a result, and may drop the connection at once.
LEMMA TakenIInv ==
    ASSUME IInv, queue # <<>>, got' = Append(got, Head(queue)), queue' = Tail(queue),
           UNCHANGED <<keyVars, wireVars, taskVars>>,
           UNCHANGED <<shutdown, reader>> \/ (shutdown' = TRUE /\ reader' = "dropped")
    PROVE  IInv'
<1>1. got \in Seq(Results) /\ queue \in Seq(Results)
    BY DEF IInv, TypeOK
<1>2. Released' = Released
    BY <1>1, TakeKeeps DEF Released
<1>3. Head(queue) \in Results /\ queue' \in Seq(Results) /\ Len(queue') = Len(queue) - 1 /\ Len(queue) \in Nat
    BY <1>1, HeadTailProperties, LenProperties
<1>4. got' \in Seq(Results)
    BY <1>1, <1>3, AppendProperties
<1>5. /\ shutdown' \in BOOLEAN /\ reader' \in {"idle", "connecting", "open", "closing", "dropped"}
      /\ reader' \in {"closing", "dropped"} => shutdown'
      /\ shutdown => shutdown'
    BY DEF IInv, TypeOK, EndKeeps
<1>6. TypeOK'
    BY <1>1, <1>3, <1>4, <1>5, Bounds DEF IInv, TypeOK, keyVars, wireVars, taskVars
<1> QED
    BY <1>2, <1>5, <1>6
    DEF IInv, ReleasedKeeps, ReleasedOnce, PastKeeps, TaskKeeps, EndKeeps, InHand, RestIsWhole, Sound,
        wireVars, taskVars

LEMMA NextEventIInv == ASSUME IInv, NextEvent PROVE IInv'
BY TakenIInv DEF NextEvent

-----------------------------------------------------------------------------
LEMMA NextIInv == IInv /\ [StreamNext]_streamVars => IInv'
<1> SUFFICES ASSUME IInv, [StreamNext]_streamVars PROVE IInv'
    OBVIOUS
<1>1. CASE Environment
    BY <1>1, ReaderIInv, ArriveIInv DEF Environment
<1>2. CASE Task
    BY <1>2, TurnIInv, ReadChunkIInv, VerifyIInv, DeliverIInv DEF Task
<1>3. CASE FetchKeys \/ Dial \/ DialFails \/ NextEvent \/ Close \/ Drop \/ Abort \/ CloseReturn
    BY <1>3, ReaderIInv, DialIInv, NextEventIInv, TurnIInv
<1>4. CASE UNCHANGED streamVars
    BY <1>4 DEF IInv, TypeOK, ReleasedKeeps, ReleasedOnce, PastKeeps, TaskKeeps, EndKeeps, InHand,
                RestIsWhole, Sound, Released, streamVars, keyVars, wireVars, taskVars, readerVars
<1> QED
    BY <1>1, <1>2, <1>3, <1>4 DEF StreamNext

\* The inductive invariant of the live stream.
THEOREM Invariant == StreamSpec => []IInv
<1> QED
    BY InitIInv, NextIInv, PTL DEF StreamSpec

\* The types of the stream's state: connect_sse, connect_ws and their background task.
THEOREM TypeCorrect == StreamSpec => []TypeOK
<1>1. IInv => TypeOK
    BY DEF IInv
<1> QED
    BY <1>1, Invariant, PTL

\* "SSE event rejected before payload release": the reader is given a verified prefix of
\* what arrived on its connection, and nothing after an error.
THEOREM PrefixReleased == StreamSpec => []ReleasedIsPrefix
<1>1. IInv => ReleasedIsPrefix
  <2> SUFFICES ASSUME IInv PROVE ReleasedIsPrefix
    OBVIOUS
  <2> DEFINE R == Released
             n == Len(R)
             ok == IF n > 0 /\ R[n] \in Failures THEN SubSeq(R, 1, n - 1) ELSE R
  <2>1. R \in Seq(Results) /\ n \in Nat /\ DOMAIN R = 1..n
    BY ReleasedSeq DEF IInv
  <2>2. /\ Len(sent) \in Nat /\ checked \in Nat /\ checked <= Len(sent)
    BY LenProperties DEF IInv, TypeOK
  <2>3. \A i \in 1..n : \/ i <= checked /\ R[i] = sent[i] /\ Sound(R[i])
                        \/ R[i] \in Failures /\ i = n
    BY <2>1 DEF IInv, ReleasedKeeps
  <2>4. DOMAIN ok = 1..Len(ok) /\ Len(ok) \in Nat
        /\ \A i \in DOMAIN ok : i \in 1..n /\ ok[i] = R[i] /\ (R[i] \in Failures => i # n)
    <3>1. CASE n > 0 /\ R[n] \in Failures
      <4>1. 1 \in 1..(n + 1) /\ n - 1 \in 0..n
        BY <3>1, <2>1
      <4>2. /\ ok = SubSeq(R, 1, n - 1) /\ ok \in Seq(Results)
            /\ Len(ok) = n - 1 /\ \A i \in 1..(n - 1) : ok[i] = R[i]
        BY <3>1, <2>1, SubSeqProperties
      <4> HIDE DEF ok
      <4> QED
        BY <4>1, <4>2, <2>1, LenProperties
    <3>2. CASE ~(n > 0 /\ R[n] \in Failures)
      <4>1. ok = R
        BY <3>2
      <4> HIDE DEF ok
      <4> QED
        BY <3>2, <4>1, <2>1
    <3> QED
      BY <3>1, <3>2
  <2> HIDE DEF ok
  <2>5. \A i \in DOMAIN ok : i <= checked /\ ok[i] = sent[i] /\ Sound(ok[i])
    BY <2>3, <2>4
  <2>6. Len(ok) <= Len(sent)
    <3>1. CASE Len(ok) = 0
      BY <3>1, <2>2
    <3>2. CASE Len(ok) # 0
      BY <3>2, <2>2, <2>4, <2>5
    <3> QED
      BY <3>1, <3>2
  <2>7. Prefix(ok, sent) /\ \A i \in DOMAIN ok : Channel[ok[i]] = connections /\ ok[i] \notin Torn
    BY <2>5, <2>6 DEF Prefix, Sound
  <2> QED
    BY <2>7 DEF ReleasedIsPrefix, ok
<1> QED
    BY <1>1, Invariant, PTL

\* No event is released twice over all connections, whatever arrives twice or again.
THEOREM OnceReleased == StreamSpec => []ReleasedOnce
<1>1. IInv => ReleasedOnce
    BY DEF IInv
<1> QED
    BY <1>1, Invariant, PTL

\* When a stream ends by itself and without an error, the reader is given all that the task
\* has read whole, and on an SSE stream only the event it was cut inside is missing.
THEOREM SilenceGivesAllRead == StreamSpec => []SilentEndGivesAllRead
<1>1. IInv => SilentEndGivesAllRead
  <2> SUFFICES ASSUME IInv, task = "done", ~shutdown, Failures \cap Elements(Released) = {}
               PROVE  /\ Released = SubSeq(sent, 1, taken)
                      /\ transport = "sse" => Len(sent) <= taken + 1
    BY DEF SilentEndGivesAllRead
  <2>1. Released \in Seq(Results) /\ DOMAIN Released = 1..Len(Released)
    BY ReleasedSeq DEF IInv
  <2>2. \A i \in DOMAIN Released : Released[i] \notin Failures
    BY DEF Elements
  <2>3. Len(Released) = taken /\ (transport = "sse" => Len(sent) <= taken + 1)
    BY <2>2 DEF IInv, EndKeeps
  <2>4. \A i \in 1..Len(Released) : Released[i] = sent[i]
    BY <2>1, <2>2 DEF IInv, ReleasedKeeps
  <2>5. sent \in Seq(Results) /\ taken \in 0..Len(sent) /\ Len(sent) \in Nat
    BY LenProperties DEF IInv, TypeOK, Results
  <2>6. /\ SubSeq(sent, 1, taken) \in Seq(Results) /\ Len(SubSeq(sent, 1, taken)) = taken
        /\ \A i \in 1..taken : SubSeq(sent, 1, taken)[i] = sent[i]
    BY <2>5, SubSeqProperties
  <2> QED
    BY <2>1, <2>3, <2>4, <2>6, SeqEqual
<1> QED
    BY <1>1, Invariant, PTL

-----------------------------------------------------------------------------
(***************************************************************************)
(* The benchmark loop over the stream.                                      *)
(***************************************************************************)

\* No job that was given to the handler can be released or heard again: it is on record,
\* and neither in the task's hand nor in the channel nor just heard.
HandledKeeps ==
    /\ \A e \in Elements(handled) : e \in consumed /\ e # outgoing /\ e \notin Elements(queue)
    /\ loop = "handle" => got # <<>> /\ LastHeard \in Job \ Elements(handled)

LoopInv == IInv /\ LoopTypeOK /\ HandledKeeps /\ JobsInOrder

LEMMA ElementsAppend ==
    ASSUME NEW S, NEW s \in Seq(S), NEW e \in S
    PROVE  /\ Elements(Append(s, e)) = Elements(s) \cup {e}
           /\ DOMAIN Append(s, e) = 1..(Len(s) + 1) /\ DOMAIN s = 1..Len(s) /\ Len(s) \in Nat
           /\ \A i \in 1..Len(s) : Append(s, e)[i] = s[i]
           /\ Append(s, e)[Len(s) + 1] = e
<1> DEFINE t == Append(s, e)
<1>1. /\ DOMAIN t = 1..(Len(s) + 1) /\ DOMAIN s = 1..Len(s) /\ Len(s) \in Nat
      /\ \A i \in 1..Len(s) : t[i] = s[i]
      /\ t[Len(s) + 1] = e
    BY AppendProperties, LenProperties
<1> HIDE DEF t
<1>2. DOMAIN t = DOMAIN s \cup {Len(s) + 1}
    BY <1>1
<1>3. Elements(t) = Elements(s) \cup {e}
    BY <1>1, <1>2 DEF Elements
<1> QED
    BY <1>1, <1>3 DEF t

LEMMA ElementsHeadTail ==
    ASSUME NEW S, NEW s \in Seq(S), s # <<>>
    PROVE  Head(s) \in Elements(s) /\ Elements(Tail(s)) \subseteq Elements(s)
<1>1. /\ Tail(s) \in Seq(S) /\ Len(Tail(s)) = Len(s) - 1
      /\ \A i \in 1..Len(Tail(s)) : Tail(s)[i] = s[i + 1]
    BY HeadTailProperties
<1>2. Head(s) = s[1] /\ Len(s) \in Nat \ {0} /\ DOMAIN s = 1..Len(s)
      /\ DOMAIN Tail(s) = 1..Len(Tail(s))
    BY <1>1, LenProperties, EmptySeq
<1>3. \A i \in DOMAIN Tail(s) : i + 1 \in DOMAIN s /\ Tail(s)[i] = s[i + 1]
    BY <1>1, <1>2
<1> QED
    BY <1>2, <1>3 DEF Elements

\* What the reader has heard, and what is in the channel, is what was released.
LEMMA ReleasedParts ==
    ASSUME TypeOK
    PROVE  /\ Len(got) \in Nat /\ DOMAIN got = 1..Len(got) /\ DOMAIN queue = 1..Len(queue)
           /\ Len(queue) \in Nat
           /\ \A i \in DOMAIN got : i \in DOMAIN Released /\ Released[i] = got[i]
           /\ \A i \in DOMAIN queue :
                  Len(got) + i \in DOMAIN Released /\ Released[Len(got) + i] = queue[i]
<1>1. got \in Seq(Results) /\ queue \in Seq(Results)
    BY DEF TypeOK
<1>2. /\ Len(Released) = Len(got) + Len(queue)
      /\ \A i \in 1..(Len(got) + Len(queue)) :
             Released[i] = IF i <= Len(got) THEN got[i] ELSE queue[i - Len(got)]
    BY <1>1, ConcatProperties DEF Released
<1>3. DOMAIN Released = 1..Len(Released)
    BY ReleasedSeq
<1>4. Len(got) \in Nat /\ DOMAIN got = 1..Len(got) /\ DOMAIN queue = 1..Len(queue) /\ Len(queue) \in Nat
    BY <1>1, LenProperties
<1>5. ASSUME NEW i \in 1..Len(got) PROVE i \in 1..Len(Released) /\ Released[i] = got[i]
    BY <1>2, <1>4, <1>5
<1>6. ASSUME NEW i \in 1..Len(queue)
      PROVE  Len(got) + i \in 1..Len(Released) /\ Released[Len(got) + i] = queue[i]
  <2>1. /\ Len(got) + i \in 1..(Len(got) + Len(queue)) /\ ~(Len(got) + i <= Len(got))
        /\ (Len(got) + i) - Len(got) = i
    BY <1>4
  <2> QED
    BY <1>2, <2>1
<1> QED
    BY <1>3, <1>4, <1>5, <1>6

\* The job just heard was verified, and it is not under way a second time.
LEMMA HeardOnce ==
    ASSUME IInv, got # <<>>, LastHeard \in Job
    PROVE  /\ LastHeard \in consumed /\ LastHeard # outgoing /\ LastHeard \notin Elements(queue)
           /\ \A k \in DOMAIN got : got[k] = LastHeard => k = Len(got)
<1> DEFINE n == Len(got)
<1>0. TypeOK /\ got \in Seq(Results)
    BY DEF IInv, TypeOK
<1>1. n \in DOMAIN got /\ LastHeard = got[n]
    BY <1>0, EmptySeq, LenProperties DEF LastHeard
<1>2. LastHeard \in Events /\ LastHeard \notin Failures /\ LastHeard # Nothing
    BY EventTypes, FailuresAreNoEvents
<1>3. n \in DOMAIN Released /\ Released[n] = LastHeard
    BY <1>0, <1>1, ReleasedParts
<1>4. LastHeard \in consumed
    BY <1>2, <1>3 DEF IInv, ReleasedKeeps, Sound
<1>5. LastHeard # outgoing
    BY <1>2, <1>3 DEF IInv, TaskKeeps, InHand
<1>6. LastHeard \notin Elements(queue)
  <2> SUFFICES ASSUME NEW i \in DOMAIN queue PROVE queue[i] # LastHeard
    BY DEF Elements
  <2>1. n + i \in DOMAIN Released /\ Released[n + i] = queue[i] /\ n + i # n
    BY <1>0, ReleasedParts
  <2> QED
    BY <1>2, <1>3, <2>1 DEF IInv, ReleasedOnce
<1>7. ASSUME NEW k \in DOMAIN got, got[k] = LastHeard PROVE k = n
  <2>1. k \in DOMAIN Released /\ Released[k] = LastHeard
    BY <1>0, <1>7, ReleasedParts
  <2> QED
    BY <1>2, <1>3, <2>1 DEF IInv, ReleasedOnce
<1> QED
    BY <1>4, <1>5, <1>6, <1>7

LEMMA InitLoopInv == LoopInit => LoopInv
<1> SUFFICES ASSUME LoopInit PROVE LoopInv
    OBVIOUS
<1>1. IInv
    BY InitIInv DEF LoopInit
<1>2. handled = <<>> /\ handled \in Seq(Job) /\ DOMAIN handled = {} /\ got = <<>> /\ DOMAIN got = {}
    BY EmptySeq DEF LoopInit, Init
<1>3. LoopTypeOK
    BY <1>1, <1>2, ReconnectsNat DEF IInv, LoopTypeOK, LoopInit
<1> QED
    BY <1>1, <1>2, <1>3 DEF LoopInit, LoopInv, HandledKeeps, JobsInOrder, Elements

\* Steps of the loop that hear nothing and hand nothing over.
LEMMA QuietLoopInv ==
    ASSUME LoopInv, IInv', UNCHANGED <<got, queue, outgoing, consumed, handled>>,
           loop # "handle",
           loop' \in {"connect", "close", "closing", "backoff", "ok", "failed"},
           retries' \in 0..MaxReconnects
    PROVE  LoopInv'
<1>1. LoopTypeOK'
    BY DEF LoopInv, LoopTypeOK, IInv
<1> QED
    BY <1>1 DEF LoopInv, HandledKeeps, LastHeard, JobsInOrder

LEMMA RetryStays ==
    ASSUME LoopTypeOK, Retry
    PROVE  loop' \in {"failed", "backoff"} /\ retries' \in 0..MaxReconnects
BY ReconnectsNat DEF LoopTypeOK, Retry

\* What the task does beside the loop makes nothing current that was handed over.
LEMMA BackgroundLoopInv == ASSUME LoopInv, Background PROVE LoopInv'
<1>1. IInv'
    BY NextIInv DEF LoopInv, Background, StreamNext
<1>2. UNCHANGED <<got, loop, retries, handled>>
  <2>1. UNCHANGED loopVars
    BY DEF Background
  <2>2. ASSUME NEW K, Publish(K) PROVE got' = got
    BY <2>2 DEF Publish, readerVars
  <2>3. ASSUME NEW e, Arrive(e) PROVE got' = got
    BY <2>3 DEF Arrive, readerVars
  <2>4. CASE Task
    BY <2>1, <2>4 DEF Task, ObserveShutdown, RefreshStart, RefreshOk, RefreshFails, ReadChunk, ReadEnd,
                PongFails, ReadFails, Verify, Deliver, DeliverDropped, Become, readerVars, Send, loopVars
  <2>5. CASE Abort
    BY <2>1, <2>5 DEF Abort, readerVars, loopVars
  <2> QED
    BY <2>1, <2>2, <2>3, <2>4, <2>5 DEF Background, Environment, loopVars
<1>3. /\ consumed \subseteq consumed'
      /\ outgoing' \in {outgoing, Nothing} \cup Failures \/ outgoing' \notin consumed
      /\ Elements(queue') \subseteq Elements(queue) \cup {outgoing}
  <2>1. ASSUME NEW K, Publish(K) PROVE UNCHANGED <<consumed, outgoing, queue>>
    BY <2>1 DEF Publish, taskVars
  <2>2. ASSUME NEW e, Arrive(e) PROVE UNCHANGED <<consumed, outgoing, queue>>
    BY <2>2 DEF Arrive, taskVars
  <2>3. ASSUME ObserveShutdown \/ RefreshStart \/ RefreshOk \/ RefreshFails
               \/ ReadEnd \/ PongFails \/ ReadFails \/ DeliverDropped \/ Abort
        PROVE  /\ consumed' = consumed /\ queue' = queue
               /\ outgoing' \in {outgoing, Nothing} \cup Failures
    BY <2>3 DEF ObserveShutdown, RefreshStart, RefreshOk, RefreshFails, ReadEnd, PongFails, ReadFails,
                DeliverDropped, Abort, Become, Send, Failures
  <2>4. ASSUME NEW n, ReadChunk(n)
        PROVE  /\ consumed' = consumed /\ queue' = queue
               /\ outgoing' \in {outgoing} \cup Failures
    BY <2>4 DEF ReadChunk, Become, Send, Failures
  <2>5. CASE Verify
    BY <2>5 DEF Verify, Become, Send, Acceptable, Failures
  <2>6. CASE Deliver
    <3>1. queue \in Seq(Results) /\ outgoing \in Results
      BY <2>6 DEF LoopInv, IInv, TypeOK, TaskKeeps, InHand, Sound, Deliver, Results
    <3> QED
      BY <2>6, <3>1, ElementsAppend DEF Deliver
  <2> QED
    BY <2>1, <2>2, <2>3, <2>4, <2>5, <2>6 DEF Background, Environment, Task
<1>4. LoopTypeOK'
    BY <1>1, <1>2 DEF LoopInv, LoopTypeOK, IInv
<1>5. \A e \in Elements(handled) : e \in Events /\ e \notin Failures /\ e # Nothing
    BY EventTypes, FailuresAreNoEvents DEF LoopInv, LoopTypeOK, Elements
<1>6. HandledKeeps'
    BY <1>2, <1>3, <1>5 DEF LoopInv, HandledKeeps, LastHeard
<1> QED
    BY <1>1, <1>2, <1>4, <1>6 DEF LoopInv, LastHeard, JobsInOrder

\* A connection, refused or made, a wait, the end of a stream and its close.
LEMMA BetweenLoopInv ==
    ASSUME LoopInv, \/ Fetch \/ ConnectFails \/ BackoffElapsed
                    \/ ReadNone \/ LoopClose \/ Closed
    PROVE  LoopInv'
<1>1. IInv /\ LoopTypeOK /\ retries \in 0..MaxReconnects
    BY DEF LoopInv, LoopTypeOK
<1>2. CASE Fetch
  <2>1. IInv' /\ UNCHANGED <<got, queue, outgoing, consumed, handled, loop, retries>> /\ loop = "connect"
    BY <1>1, <1>2, ReaderIInv DEF Fetch, FetchKeys, taskVars, loopVars
  <2> QED
    BY <1>1, <2>1, QuietLoopInv
<1>3. CASE ConnectFails
  <2>1. IInv'
    BY <1>1, <1>3, ReaderIInv, NextIInv DEF ConnectFails
  <2>2. UNCHANGED <<got, queue, outgoing, consumed, handled>> /\ loop = "connect"
    BY <1>3 DEF ConnectFails, DialFails, streamVars, taskVars, readerVars
  <2>3. loop' \in {"failed", "backoff"} /\ retries' \in 0..MaxReconnects
    BY <1>1, <1>3, RetryStays DEF ConnectFails
  <2> QED
    BY <2>1, <2>2, <2>3, QuietLoopInv
<1>4. CASE BackoffElapsed \/ ReadNone
  <2>1. IInv'
    BY <1>1, <1>4, NextIInv DEF BackoffElapsed, ReadNone
  <2>2. /\ UNCHANGED <<got, queue, outgoing, consumed, handled, retries>>
        /\ loop # "handle" /\ loop' \in {"connect", "close"}
    BY <1>4 DEF BackoffElapsed, ReadNone, streamVars, taskVars, readerVars
  <2> QED
    BY <1>1, <2>1, <2>2, QuietLoopInv
<1>5. CASE LoopClose
  <2>1. /\ IInv' /\ UNCHANGED <<got, queue, outgoing, consumed, handled, retries>>
        /\ loop # "handle" /\ loop' = "closing"
    BY <1>1, <1>5, ReaderIInv DEF LoopClose, Close, taskVars
  <2> QED
    BY <1>1, <2>1, QuietLoopInv
<1>6. CASE Closed
  <2>1. IInv' /\ UNCHANGED <<got, queue, outgoing, consumed, handled>> /\ loop = "closing"
    BY <1>1, <1>6, TurnIInv DEF Closed, CloseReturn
  <2>2. CASE SawDisconnect
    BY <1>1, <1>6, <2>1, <2>2, QuietLoopInv DEF Closed
  <2>3. CASE ~SawDisconnect
    <3>1. loop' \in {"failed", "backoff"} /\ retries' \in 0..MaxReconnects
      BY <1>1, <1>6, <2>3, RetryStays DEF Closed
    <3> QED
      BY <2>1, <3>1, QuietLoopInv
  <2> QED
    BY <2>2, <2>3
<1> QED
    BY <1>2, <1>3, <1>4, <1>5, <1>6

LEMMA ConnectedLoopInv == ASSUME LoopInv, Connected PROVE LoopInv'
<1>1. IInv'
    BY DialIInv DEF LoopInv, Connected
<1>2. /\ got' = <<>> /\ queue' = <<>> /\ outgoing' = Nothing
      /\ loop' = "read" /\ retries' = 0 /\ UNCHANGED <<consumed, handled>>
    BY DEF Connected, Dial
<1>3. LoopTypeOK'
    BY <1>1, <1>2, ReconnectsNat DEF LoopInv, LoopTypeOK, IInv
<1>4. \A e \in Elements(handled) : e # Nothing
    BY EventTypes, FailuresAreNoEvents DEF LoopInv, LoopTypeOK, Elements
<1>5. DOMAIN got' = {} /\ Elements(queue') = {}
    BY <1>2 DEF Elements
<1>6. HandledKeeps'
    BY <1>2, <1>4, <1>5 DEF LoopInv, HandledKeeps
<1> QED
    BY <1>1, <1>2, <1>3, <1>5, <1>6 DEF LoopInv, JobsInOrder

\* What the loop hears was not handed over before.
LEMMA HearLoopInv == ASSUME LoopInv, Read \/ ReadError PROVE LoopInv'
<1> DEFINE e == Head(queue)
           n == Len(got)
<1>0. /\ IInv /\ TypeOK /\ got \in Seq(Results) /\ queue \in Seq(Results) /\ queue # <<>>
      /\ loop = "read" /\ got' = Append(got, e) /\ queue' = Tail(queue)
      /\ UNCHANGED <<outgoing, consumed, handled, retries>>
    BY DEF LoopInv, IInv, TypeOK, Read, NextEvent, ReadError, taskVars
<1>1. IInv'
  <2>1. CASE Read
    BY <1>0, <2>1, NextEventIInv DEF Read
  <2>2. CASE ReadError
    <3>1. UNCHANGED <<keyVars, wireVars, taskVars>> /\ shutdown' = TRUE /\ reader' = "dropped"
      BY <2>2 DEF ReadError
    <3> QED
      BY <1>0, <3>1, TakenIInv
  <2> QED
    BY <2>1, <2>2
<1>2. e \in Results /\ e \in Elements(queue) /\ Elements(queue') \subseteq Elements(queue)
    BY <1>0, HeadTailProperties, ElementsHeadTail
<1>3. /\ DOMAIN got' = 1..(n + 1) /\ DOMAIN got = 1..n /\ n \in Nat
      /\ \A i \in 1..n : got'[i] = got[i]
      /\ got'[n + 1] = e
    BY <1>0, <1>2, ElementsAppend
<1>4. Len(got') = n + 1 /\ LastHeard' = e /\ got' # <<>>
  <2>1. Len(got') = n + 1
    BY <1>0, <1>2, AppendProperties
  <2> QED
    BY <2>1, <1>3 DEF LastHeard
<1>5. e \notin Elements(handled)
    BY <1>2 DEF LoopInv, HandledKeeps
<1>6. loop' \in {"handle", "close", "read", "failed"} /\ (loop' = "handle" <=> e \in Job)
  <2>1. CASE Read
    <3>1. loop' = CASE e \in Job -> "handle" [] e \in Disconnect -> "close" [] OTHER -> "read"
      BY <2>1 DEF Read
    <3>2. e \in Job => e \notin Disconnect
      BY EventTypes
    <3> HIDE DEF e
    <3> QED
      BY <3>1, <3>2
  <2>2. CASE ReadError
    BY <2>2, EventTypes, FailuresAreNoEvents DEF ReadError
  <2> QED
    BY <2>1, <2>2
<1>7. LoopTypeOK'
    BY <1>0, <1>1, <1>6 DEF LoopInv, LoopTypeOK, IInv
<1>8. HandledKeeps'
    BY <1>0, <1>2, <1>4, <1>5, <1>6 DEF LoopInv, HandledKeeps
<1> HIDE DEF e, n
<1>9. JobsInOrder'
  <2>1. ASSUME NEW k \in 1..(n + 1), got'[k] \in Job
        PROVE  got'[k] \in Elements(handled)' \/ (loop' = "handle" /\ k = Len(got'))
    <3>1. CASE k = n + 1
      BY <1>3, <1>4, <1>6, <2>1, <3>1
    <3>2. CASE k # n + 1
      <4>1. k \in DOMAIN got /\ got'[k] = got[k]
        BY <1>3, <3>2
      <4> QED
        BY <1>0, <2>1, <4>1 DEF LoopInv, JobsInOrder, Elements
    <3> QED
      BY <3>1, <3>2
  <2>2. ASSUME NEW i \in DOMAIN handled, NEW j \in DOMAIN handled,
               NEW k \in 1..(n + 1), NEW l \in 1..(n + 1),
               handled[i] = got'[k], handled[j] = got'[l], k < l
        PROVE  i < j
    <3>1. k # n + 1 /\ l # n + 1
      BY <1>3, <1>5, <2>2 DEF Elements
    <3>2. k \in DOMAIN got /\ l \in DOMAIN got /\ got'[k] = got[k] /\ got'[l] = got[l]
      BY <1>3, <3>1
    <3> QED
      BY <2>2, <3>2 DEF LoopInv, JobsInOrder
  <2>3. \A i, j \in DOMAIN handled : i # j => handled[i] # handled[j]
    BY DEF LoopInv, JobsInOrder
  <2> QED
    BY <1>0, <1>3, <2>1, <2>2, <2>3 DEF JobsInOrder
<1> QED
    BY <1>1, <1>6, <1>7, <1>8, <1>9 DEF LoopInv

LEMMA HandleLoopInv == ASSUME LoopInv, Handle \/ HandleFails PROVE LoopInv'
<1> DEFINE h == LastHeard
           n == Len(handled)
<1>0. /\ IInv /\ TypeOK /\ handled \in Seq(Job) /\ loop = "handle"
      /\ handled' = Append(handled, h) /\ loop' \in {"read", "failed"}
      /\ UNCHANGED <<got, queue, outgoing, consumed, retries>>
    BY DEF LoopInv, LoopTypeOK, Handle, HandleFails, Drop, streamVars, taskVars, readerVars
<1>1. IInv'
  <2>1. CASE Handle
    BY <1>0, <2>1, NextIInv DEF Handle
  <2>2. CASE HandleFails
    BY <1>0, <2>2, ReaderIInv DEF HandleFails
  <2> QED
    BY <2>1, <2>2
<1>2. got # <<>> /\ h \in Job /\ h \notin Elements(handled)
    BY <1>0 DEF LoopInv, HandledKeeps
<1>3. /\ h \in consumed /\ h # outgoing /\ h \notin Elements(queue)
      /\ \A k \in DOMAIN got : got[k] = h => k = Len(got)
    BY <1>0, <1>2, HeardOnce
<1>4. /\ Elements(handled') = Elements(handled) \cup {h}
      /\ DOMAIN handled' = 1..(n + 1) /\ DOMAIN handled = 1..n /\ n \in Nat
      /\ \A i \in 1..n : handled'[i] = handled[i]
      /\ handled'[n + 1] = h
    BY <1>0, <1>2, ElementsAppend
<1>5. handled' \in Seq(Job)
    BY <1>0, <1>2, AppendProperties
<1>6. LoopTypeOK'
    BY <1>0, <1>1, <1>5 DEF LoopInv, LoopTypeOK, IInv
<1>7. HandledKeeps'
    BY <1>0, <1>3, <1>4 DEF LoopInv, HandledKeeps, Elements
<1>8. DOMAIN got = 1..Len(got) /\ Len(got) \in Nat /\ got[Len(got)] = h
    BY <1>0, ReleasedParts DEF LastHeard
<1> HIDE DEF h, n
<1>9. JobsInOrder'
  <2>1. ASSUME NEW k \in DOMAIN got, got[k] \in Job PROVE got[k] \in Elements(handled')
    BY <1>4, <1>8, <2>1 DEF LoopInv, JobsInOrder
  <2>2. ASSUME NEW i \in 1..(n + 1), NEW j \in 1..(n + 1), NEW k \in DOMAIN got, NEW l \in DOMAIN got,
               handled'[i] = got[k], handled'[j] = got[l], k < l
        PROVE  i < j
    <3>1. k # Len(got)
      BY <1>8, <2>2
    <3>2. i # n + 1
      BY <1>3, <1>4, <2>2, <3>1
    <3>3. CASE j = n + 1
      BY <1>4, <3>2, <3>3
    <3>4. CASE j # n + 1
      <4>1. i \in DOMAIN handled /\ j \in DOMAIN handled /\ handled'[i] = handled[i] /\ handled'[j] = handled[j]
        BY <1>4, <3>2, <3>4
      <4> QED
        BY <2>2, <4>1 DEF LoopInv, JobsInOrder
    <3> QED
      BY <3>3, <3>4
  <2>3. ASSUME NEW i \in 1..(n + 1), NEW j \in 1..(n + 1), i # j
        PROVE  handled'[i] # handled'[j]
    <3>1. \A m \in 1..n : handled'[m] \in Elements(handled) /\ handled'[m] # h
      BY <1>2, <1>4 DEF Elements
    <3>2. CASE i \in 1..n /\ j \in 1..n
      BY <1>4, <2>3, <3>2 DEF LoopInv, JobsInOrder
    <3>3. CASE i = n + 1 \/ j = n + 1
      BY <1>4, <2>3, <3>1, <3>3
    <3> QED
      BY <1>4, <3>2, <3>3
  <2> QED
    BY <1>0, <1>4, <2>1, <2>2, <2>3 DEF JobsInOrder
<1> QED
    BY <1>0, <1>1, <1>6, <1>7, <1>9 DEF LoopInv

LEMMA NextLoopInv == LoopInv /\ [Next]_vars => LoopInv'
<1> SUFFICES ASSUME LoopInv, [Next]_vars PROVE LoopInv'
    OBVIOUS
<1>1. CASE Background
    BY <1>1, BackgroundLoopInv
<1>2. CASE LoopStep
    BY <1>2, BetweenLoopInv, ConnectedLoopInv, HearLoopInv, HandleLoopInv DEF LoopStep
<1>3. CASE UNCHANGED vars
  <2>1. UNCHANGED streamVars /\ UNCHANGED loopVars
    BY <1>3 DEF vars
  <2>2. IInv'
    BY <2>1, NextIInv DEF LoopInv
  <2>3. UNCHANGED <<got, queue, outgoing, consumed, handled, loop, retries>>
    BY <2>1 DEF streamVars, taskVars, readerVars, loopVars
  <2>4. LoopTypeOK'
    BY <2>2, <2>3 DEF LoopInv, LoopTypeOK, IInv
  <2> QED
    BY <2>2, <2>3, <2>4 DEF LoopInv, HandledKeeps, LastHeard, JobsInOrder
<1> QED
    BY <1>1, <1>2, <1>3 DEF Next

\* The inductive invariant of on_benchmark_job_with_reconnect over its streams: that of
\* the stream holds under the loop too.
THEOREM LoopInvariant == Spec => []LoopInv
<1> QED
    BY InitLoopInv, NextLoopInv, PTL DEF Spec

\* The types of the loop's state: the attempt counter never passes max_reconnect_attempts.
THEOREM LoopTypeCorrect == Spec => []LoopTypeOK
<1>1. LoopInv => LoopTypeOK
    BY DEF LoopInv
<1> QED
    BY <1>1, LoopInvariant, PTL

\* The handler gets the jobs of a connection in order, and none twice over all of them.
THEOREM HandlerInOrder == Spec => []JobsInOrder
<1>1. LoopInv => JobsInOrder
    BY DEF LoopInv
<1> QED
    BY <1>1, LoopInvariant, PTL
=============================================================================
