------------------------------ MODULE LiveStream ------------------------------
(***************************************************************************)
(* One live event stream of the Rust client, SSE or WebSocket:             *)
(* rust/haiai/src/client.rs, connect_sse, connect_ws, SseConnection,       *)
(* WsConnection and what they call.                                        *)
(*                                                                         *)
(* A background task reads the transport, verifies each signed event       *)
(* against a snapshot of the server's active keys, and hands results to    *)
(* the reader over a bounded channel.  The snapshot is replaced by a timer *)
(* while events arrive and while HAI publishes other keys; the reader      *)
(* polls, or closes at any moment.  The two transports share this control, *)
(* but a WebSocket message is a chunk of one event, and only a WebSocket   *)
(* task ends when it cannot answer a ping.                                 *)
(***************************************************************************)
EXTENDS Naturals, Sequences, FiniteSets

CONSTANTS
  Events,        \* signed events that may arrive, by document identity
  Signers,       \* signing keys HAI has, active or retired
  SignedBy,      \* the key an event is signed with
  Channel,       \* the connection an event is addressed to
  Torn,          \* events the transport delivers damaged: size, UTF-8, framing
  Capacity,      \* results the channel holds (32 in the code)
  MaxSent,       \* bound: events on one connection
  MaxConnections,\* bound: connections opened
  Rejected,      \* an Err in the channel: input or keys that do not verify
  Broken,        \* an Err in the channel: the transport broke
  Nothing        \* the task has no result to send

ASSUME EventAttributes ==
  SignedBy \in [Events -> Signers] /\ Channel \in [Events -> Nat] /\ Torn \subseteq Events
Failures == {Rejected, Broken}

ASSUME FailuresAreNoEvents ==
  /\ Events \cap Failures = {} /\ Rejected # Broken
  /\ Nothing \notin Events \cup Failures
ASSUME Bounds == Capacity \in Nat \ {0} /\ MaxSent \in Nat /\ MaxConnections \in Nat

VARIABLES
  published,   \* the active keys HAI publishes
  snapshot,    \* server_public_keys of the task
  transport,   \* "sse" or "ws", the same for every connection here
  connections, \* connections opened so far; the nonce of the current one
  sent,        \* what the server sends on the current connection
  past,        \* history: the events released on earlier connections
  taken,       \* how much of it the task has read
  checked,     \* how much of it the task has verified or rejected
  consumed,    \* events recorded by the replay store
  task,        \* where the background task is
  outgoing,    \* the result it is sending
  queue,       \* the channel
  shutdown,    \* the shutdown signal is sent and the receiver closed
  reader,      \* where the owner of the connection is
  got          \* what next_event has returned on this connection

keyVars == <<published, snapshot>>
wireVars == <<transport, connections, sent, past>>
taskVars == <<taken, checked, consumed, task, outgoing>>
readerVars == <<shutdown, reader, got>>
streamVars == <<keyVars, wireVars, taskVars, queue, readerVars>>

Results == Events \cup Failures
Elements(s) == {s[i] : i \in DOMAIN s}

\* What the task has released on the current connection, read or not.
Released == got \o queue

TypeOK ==
  /\ published \subseteq Signers /\ snapshot \subseteq Signers
  /\ transport \in {"sse", "ws"}
  /\ connections \in Nat /\ sent \in Seq(Events) /\ past \subseteq Events
  /\ taken \in 0..Len(sent) /\ checked \in 0..taken
  /\ consumed \subseteq Events
  /\ task \in {"none", "select", "refresh", "verify", "send", "done"}
  /\ outgoing \in Results \cup {Nothing}
  /\ queue \in Seq(Results) /\ Len(queue) <= Capacity
  /\ shutdown \in BOOLEAN
  /\ reader \in {"idle", "connecting", "open", "closing", "dropped"}
  /\ got \in Seq(Results)

--------------------------------------------------------------------------------

Init ==
  /\ published \in SUBSET Signers /\ snapshot = {}
  /\ transport \in {"sse", "ws"} /\ connections = 0 /\ sent = <<>> /\ past = {}
  /\ taken = 0 /\ checked = 0 /\ consumed = {}
  /\ task = "none" /\ outgoing = Nothing /\ queue = <<>>
  /\ shutdown = FALSE /\ reader = "idle" /\ got = <<>>

\* HAI activates and retires keys.
Publish(K) ==
  /\ K # published
  /\ published' = K
  /\ UNCHANGED <<snapshot, wireVars, taskVars, queue, readerVars>>

(***************************************************************************)
(* connect_sse, connect_ws                                                 *)
(***************************************************************************)

\* The key document is fetched first; one without an active key is refused.
FetchKeys ==
  /\ reader = "idle" /\ connections < MaxConnections /\ published # {}
  /\ snapshot' = published
  /\ reader' = "connecting"
  /\ UNCHANGED <<published, wireVars, taskVars, queue, shutdown, got>>

Dial ==
  /\ reader = "connecting"
  /\ connections' = connections + 1
  /\ past' = past \cup (Events \cap Elements(Released))
  /\ sent' = <<>> /\ taken' = 0 /\ checked' = 0
  /\ task' = "select" /\ outgoing' = Nothing /\ queue' = <<>>
  /\ shutdown' = FALSE /\ reader' = "open" /\ got' = <<>>
  /\ UNCHANGED <<keyVars, transport, consumed>>

DialFails ==
  /\ reader = "connecting"
  /\ reader' = "idle"
  /\ UNCHANGED <<keyVars, wireVars, taskVars, queue, shutdown, got>>

\* Something arrives: an event for this connection or for another one, a second
\* copy, or one signed with a key the task does not know yet or any more.
Arrive(e) ==
  /\ task \notin {"none", "done"} /\ Len(sent) < MaxSent
  /\ sent' = Append(sent, e)
  /\ UNCHANGED <<keyVars, transport, connections, past, taskVars, queue, readerVars>>

(***************************************************************************)
(* The background task                                                     *)
(***************************************************************************)

Become(phase) ==
  /\ task' = phase
  /\ UNCHANGED <<wireVars, queue, readerVars>>

Send(result) == Become("send") /\ outgoing' = result

ObserveShutdown ==
  /\ task = "select" /\ shutdown
  /\ Become("done")
  /\ UNCHANGED <<keyVars, taken, checked, consumed, outgoing>>

\* key_refresh ticks: the arm awaits the key document, deaf to the shutdown.
RefreshStart ==
  /\ task = "select"
  /\ Become("refresh")
  /\ UNCHANGED <<keyVars, taken, checked, consumed, outgoing>>

RefreshOk ==
  /\ task = "refresh" /\ published # {}
  /\ snapshot' = published
  /\ Become("select")
  /\ UNCHANGED <<published, taken, checked, consumed, outgoing>>

RefreshFails ==
  /\ task = "refresh"
  /\ Send(Rejected)
  /\ UNCHANGED <<keyVars, taken, checked, consumed>>

\* push_chunk: the chunk completes the events up to the n-th, the next one of a
\* WebSocket.  If one of them is damaged none of the chunk is used.
ReadChunk(n) ==
  /\ task = "select" /\ n \in (taken + 1)..Len(sent)
  /\ transport = "ws" => n = taken + 1
  /\ taken' = n
  /\ IF \E i \in (taken + 1)..n : sent[i] \in Torn
     THEN Send(Rejected) ELSE Become("verify") /\ UNCHANGED outgoing
  /\ UNCHANGED <<keyVars, checked, consumed>>

\* The stream ends after all that was sent; or, if it is one of server-sent events, inside
\* the last of these, and what the parser holds of it is dropped without a word.
ReadEnd ==
  /\ task = "select"
  /\ taken = Len(sent) \/ (transport = "sse" /\ taken + 1 = Len(sent))
  /\ Become("done")
  /\ UNCHANGED <<keyVars, taken, checked, consumed, outgoing>>

\* A ping cannot be answered: the task ends, whatever is still to be read.
PongFails ==
  /\ task = "select" /\ transport = "ws"
  /\ Become("done")
  /\ UNCHANGED <<keyVars, taken, checked, consumed, outgoing>>

\* The transport breaks.
ReadFails ==
  /\ task = "select"
  /\ Send(Broken)
  /\ UNCHANGED <<keyVars, taken, checked, consumed>>

\* verify_live_transport_event: a trusted signer, the context of this connection,
\* and a first sight.
Acceptable(e) == SignedBy[e] \in snapshot /\ Channel[e] = connections /\ e \notin consumed

\* Fault: the event is checked and not recorded.
VerifyUnrecorded ==
  /\ task = "verify"
  /\ LET e == sent[checked + 1]
     IN  IF Acceptable(e) THEN Send(e) ELSE Send(Rejected)
  /\ checked' = checked + 1
  /\ UNCHANGED <<keyVars, taken, consumed>>

\* Fault: an event that does not verify is dropped and the stream goes on.
VerifySkips ==
  /\ task = "verify"
  /\ LET e == sent[checked + 1]
     IN  IF Acceptable(e)
         THEN Send(e) /\ consumed' = consumed \cup {e}
         ELSE /\ Become(IF checked + 1 = taken THEN "select" ELSE "verify")
              /\ UNCHANGED <<outgoing, consumed>>
  /\ checked' = checked + 1
  /\ UNCHANGED <<keyVars, taken>>

\* The next event of the chunk.  It is recorded before it is sent.
Verify ==
  /\ task = "verify"
  /\ LET e == sent[checked + 1]
     IN  IF Acceptable(e)
         THEN Send(e) /\ consumed' = consumed \cup {e}
         ELSE Send(Rejected) /\ UNCHANGED consumed
  /\ checked' = checked + 1
  /\ UNCHANGED <<keyVars, taken>>

\* Fault: the channel grows when the reader is slow.
DeliverUnbounded ==
  /\ task = "send" /\ ~shutdown
  /\ queue' = Append(queue, outgoing)
  /\ outgoing' = Nothing
  /\ task' = IF outgoing \in Failures THEN "done" ELSE IF checked = taken THEN "select" ELSE "verify"
  /\ UNCHANGED <<keyVars, wireVars, taken, checked, consumed, readerVars>>

\* send_stream_result waits for room; an error is the last result.
Deliver ==
  /\ task = "send" /\ ~shutdown /\ Len(queue) < Capacity
  /\ queue' = Append(queue, outgoing)
  /\ outgoing' = Nothing
  /\ task' = IF outgoing \in Failures THEN "done" ELSE IF checked = taken THEN "select" ELSE "verify"
  /\ UNCHANGED <<keyVars, wireVars, taken, checked, consumed, readerVars>>

\* The shutdown signal, or the closed receiver, ends a send that is under way.
DeliverDropped ==
  /\ task = "send" /\ shutdown
  /\ outgoing' = Nothing
  /\ Become("done")
  /\ UNCHANGED <<keyVars, taken, checked, consumed>>

Task ==
  \/ ObserveShutdown \/ RefreshStart \/ RefreshOk \/ RefreshFails
  \/ \E n \in 1..Len(sent) : ReadChunk(n)
  \/ ReadEnd \/ PongFails \/ ReadFails \/ Verify \/ Deliver \/ DeliverDropped

(***************************************************************************)
(* next_event and close                                                    *)
(***************************************************************************)

NextEvent ==
  /\ reader = "open" /\ queue # <<>>
  /\ got' = Append(got, Head(queue))
  /\ queue' = Tail(queue)
  /\ UNCHANGED <<keyVars, wireVars, taskVars, shutdown, reader>>

Close ==
  /\ reader = "open"
  /\ shutdown' = TRUE
  /\ reader' = "closing"
  /\ UNCHANGED <<keyVars, wireVars, taskVars, queue, got>>

\* The owner drops the connection: the task is told, nobody waits for it.
Drop ==
  /\ reader = "open"
  /\ shutdown' = TRUE
  /\ reader' = "dropped"
  /\ UNCHANGED <<keyVars, wireVars, taskVars, queue, got>>

\* Fault: close waits for the task, however long it takes.
AbortNever ==
  /\ reader = "closing" /\ task # "done"
  /\ UNCHANGED streamVars

\* stop_stream_task: the task has not stopped within the grace period.
Abort ==
  /\ reader = "closing" /\ task # "done"
  /\ task' = "done" /\ outgoing' = Nothing
  /\ UNCHANGED <<keyVars, wireVars, taken, checked, consumed, queue, readerVars>>

CloseReturn ==
  /\ reader = "closing" /\ task = "done"
  /\ reader' = "idle" /\ task' = "none"
  /\ UNCHANGED <<keyVars, wireVars, taken, checked, consumed, outgoing, queue, shutdown, got>>

--------------------------------------------------------------------------------

Environment == (\E K \in SUBSET Signers : Publish(K)) \/ \E e \in Events : Arrive(e)

StreamNext ==
  \/ Environment \/ Task
  \/ FetchKeys \/ Dial \/ DialFails
  \/ NextEvent \/ Close \/ Drop \/ Abort \/ CloseReturn

StreamSpec == Init /\ [][StreamNext]_streamVars

\* The grace timer runs out and close goes on; nothing makes a fetch of the key
\* document end, nor the server send.
CloseFairness == WF_streamVars(Abort) /\ WF_streamVars(CloseReturn)

FairStreamSpec == StreamSpec /\ CloseFairness

--------------------------------------------------------------------------------

Prefix(s, t) == Len(s) <= Len(t) /\ \A i \in DOMAIN s : s[i] = t[i]

\* "SSE event rejected before payload release": what the reader is given is a
\* prefix of what arrived, each event meant for this connection and whole, up to the
\* first that does not verify, and nothing follows the error; whatever is read in one
\* chunk, however keys change and wherever the reader is slow.
ReleasedIsPrefix ==
  LET n  == Len(Released)
      ok == IF n > 0 /\ Released[n] \in Failures THEN SubSeq(Released, 1, n - 1) ELSE Released
  IN  /\ Prefix(ok, sent)
      /\ \A i \in DOMAIN ok : Channel[ok[i]] = connections /\ ok[i] \notin Torn

\* An event is released at most once over all connections, though it arrives twice on
\* one or again on the next, and though it is recorded long before the reader takes it.
ReleasedOnce ==
  /\ \A i, j \in DOMAIN Released : i # j /\ Released[i] \in Events => Released[i] # Released[j]
  /\ past \cap Elements(Released) = {}

\* When a stream ends and no error was released, the reader is given every event the task
\* has read whole: a stream that breaks, loses its keys or carries a bad event never
\* looks like one that ended.  Of server-sent events it lacks at most the one the stream
\* was cut inside; a WebSocket that cannot answer a ping may leave more unread.
SilentEndGivesAllRead ==
  task = "done" /\ ~shutdown /\ Failures \cap Elements(Released) = {} =>
    /\ Released = SubSeq(sent, 1, taken)
    /\ transport = "sse" => Len(sent) <= taken + 1

\* close returns, also while the task waits for the key document or for room.
CloseReturns == (reader = "closing") ~> (reader = "idle")
================================================================================
