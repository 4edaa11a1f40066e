----------------------------- MODULE BenchmarkLoop -----------------------------
(***************************************************************************)
(* on_benchmark_job_with_reconnect, rust/haiai/src/client.rs, over the     *)
(* streams of LiveStream: connect, hand each benchmark job to the handler, *)
(* close, wait, connect again, until the server says "disconnect" or the   *)
(* attempts are used up.                                                   *)
(***************************************************************************)
EXTENDS LiveStream

CONSTANTS
  Job,            \* events of type benchmark_job
  Disconnect,     \* events of type disconnect
  MaxReconnects   \* max_reconnect_attempts

ASSUME EventTypes == Job \cup Disconnect \subseteq Events /\ Job \cap Disconnect = {}
ASSUME ReconnectsNat == MaxReconnects \in Nat

VARIABLES
  loop,     \* where the function is
  retries,  \* reconnect_count
  handled   \* the jobs the handler has been given, over all connections

loopVars == <<loop, retries, handled>>
vars == <<streamVars, loopVars>>

LoopTypeOK ==
  /\ TypeOK
  /\ loop \in {"connect", "read", "handle", "close", "closing", "backoff", "ok", "failed"}
  /\ retries \in 0..MaxReconnects
  /\ handled \in Seq(Job)

LoopInit ==
  /\ Init
  /\ loop = "connect" /\ retries = 0 /\ handled = <<>>

\* The stream's own steps and its surroundings.
Background == (Environment \/ Task \/ Abort) /\ UNCHANGED loopVars

Fetch == loop = "connect" /\ FetchKeys /\ UNCHANGED loopVars

Connected ==
  /\ loop = "connect" /\ Dial
  /\ loop' = "read" /\ retries' = 0
  /\ UNCHANGED handled

\* Fault: the limit is not looked at.
RetryUnlimited == loop' = "backoff" /\ retries' = retries + 1

\* Fault: the attempt is not counted.
RetryUncounted ==
  /\ loop' = IF retries >= MaxReconnects THEN "failed" ELSE "backoff"
  /\ UNCHANGED retries

\* Wait and try again, unless the attempts are used up.
Retry ==
  IF retries >= MaxReconnects
  THEN loop' = "failed" /\ UNCHANGED retries
  ELSE loop' = "backoff" /\ retries' = retries + 1

\* The key document or the connection is refused.
ConnectFails ==
  /\ loop = "connect"
  /\ \/ reader = "idle" /\ UNCHANGED streamVars
     \/ DialFails
  /\ Retry
  /\ UNCHANGED handled

BackoffElapsed ==
  /\ loop = "backoff"
  /\ loop' = "connect"
  /\ UNCHANGED <<streamVars, retries, handled>>

\* next_event gives an event.
Read ==
  /\ loop = "read" /\ NextEvent
  /\ LET e == Head(queue)
     IN  /\ e \in Events
         /\ loop' = CASE e \in Job -> "handle"
                      [] e \in Disconnect -> "close"
                      [] OTHER -> "read"
  /\ UNCHANGED <<retries, handled>>

\* next_event gives an error: the function returns it and drops the connection.
ReadError ==
  /\ loop = "read" /\ queue # <<>> /\ Head(queue) \in Failures
  /\ got' = Append(got, Head(queue)) /\ queue' = Tail(queue)
  /\ shutdown' = TRUE /\ reader' = "dropped"
  /\ loop' = "failed"
  /\ UNCHANGED <<keyVars, wireVars, taskVars, retries, handled>>

\* Fault: an empty channel is taken for the end of the stream while the task is about
\* to send.
ReadNothing ==
  /\ loop = "read" /\ queue = <<>> /\ task \in {"send", "done"}
  /\ loop' = "close"
  /\ UNCHANGED <<streamVars, retries, handled>>

\* next_event gives None.
ReadNone ==
  /\ loop = "read" /\ queue = <<>> /\ task = "done"
  /\ loop' = "close"
  /\ UNCHANGED <<streamVars, retries, handled>>

LastHeard == got[Len(got)]

\* Fault: a job whose handler fails is given to it again.
HandleAgain ==
  /\ loop = "handle"
  /\ handled' = Append(handled, LastHeard)
  /\ loop' \in {"read", "handle"}
  /\ UNCHANGED <<streamVars, retries>>

Handle ==
  /\ loop = "handle"
  /\ handled' = Append(handled, LastHeard)
  /\ loop' = "read"
  /\ UNCHANGED <<streamVars, retries>>

\* The handler's error is returned and the connection dropped.
HandleFails ==
  /\ loop = "handle" /\ Drop
  /\ handled' = Append(handled, LastHeard)
  /\ loop' = "failed"
  /\ UNCHANGED retries

LoopClose ==
  /\ loop = "close" /\ Close
  /\ loop' = "closing"
  /\ UNCHANGED <<retries, handled>>

SawDisconnect == got # <<>> /\ LastHeard \in Disconnect

\* close has returned.
Closed ==
  /\ loop = "closing" /\ CloseReturn
  /\ IF SawDisconnect THEN loop' = "ok" /\ UNCHANGED retries ELSE Retry
  /\ UNCHANGED handled

LoopStep ==
  \/ Fetch \/ Connected \/ ConnectFails \/ BackoffElapsed
  \/ Read \/ ReadError \/ ReadNone \/ Handle \/ HandleFails \/ LoopClose \/ Closed

Next == LoopStep \/ Background

Spec == LoopInit /\ [][Next]_vars

\* The loop runs, the handler returns, and the task sends what it has verified and
\* stops when it is told to.
Fairness ==
  /\ WF_vars(LoopStep)
  /\ WF_vars((Verify \/ Deliver \/ DeliverDropped) /\ UNCHANGED loopVars)
  /\ WF_vars(Abort /\ UNCHANGED loopVars)

FairSpec == Spec /\ Fairness

--------------------------------------------------------------------------------

\* The handler has been given every job heard on this connection but the one in hand,
\* in the order they were heard, and no job twice, whatever is reconnected in between;
\* also when an error of the stream has ended the function in the middle of jobs.
JobsInOrder ==
  /\ \A k \in DOMAIN got :
       got[k] \in Job => got[k] \in Elements(handled) \/ (loop = "handle" /\ k = Len(got))
  /\ \A i, j \in DOMAIN handled, k, l \in DOMAIN got :
       handled[i] = got[k] /\ handled[j] = got[l] /\ k < l => i < j
  /\ \A i, j \in DOMAIN handled : i # j => handled[i] # handled[j]

\* A job that was verified reaches the handler, or the function returns: closing,
\* reconnecting or a full channel lose none of those the replay store has recorded.
ConsumedIsHandled ==
  \A e \in Job : (e \in consumed) ~> (e \in Elements(handled) \/ loop \in {"ok", "failed"})

\* A server that refuses every connection ends the function: it returns, or it is
\* connected again and again.
GivesUpOrListens == <>(loop \in {"ok", "failed"}) \/ []<>(loop = "read")
================================================================================
