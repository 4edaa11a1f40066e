------------------------------- MODULE GoStream --------------------------------
(***************************************************************************)
(* One Go stream (SSEConnection or WSConnection of go/) on top of the      *)
(* handle table: go/transport_shared.go composed with StreamHandles.       *)
(*                                                                         *)
(* A read-loop goroutine polls the core and forwards events to a buffered  *)
(* channel; any goroutine may call Close; the application receives from    *)
(* the channel.  Every FFI call is a step of StreamHandles by the calling  *)
(* goroutine, so a Close really meets a poll that is waiting in the core.  *)
(* Another caller connects meanwhile, which sweeps idle handles.           *)
(***************************************************************************)
EXTENDS StreamHandles

CONSTANTS
  Reader,   \* the goroutine of runStreamReadLoop
  Closers,  \* goroutines that may call Close
  App,      \* the closer that opened the stream
  Other,    \* an unrelated FFI caller
  Buffer    \* capacity of the events channel

ASSUME GoCallers ==
  /\ Callers = Closers \cup {Reader, Other} /\ App \in Closers
  /\ Reader # Other /\ Reader \notin Closers /\ Other \notin Closers
ASSUME BufferIsNat == Buffer \in Nat

VARIABLES
  stream,   \* streamLifecycle.handleID, or NoConn before the stream is open
  loop,     \* where runStreamReadLoop is
  ctxDone,  \* the stream's context is cancelled
  onceDone, \* closeOnce has run closeHandle
  closing,  \* where each call of Close is
  queued,   \* number of events in the events channel
  polled,   \* the kind of event the loop is about to send
  raced     \* history: closeOnce ran while the loop's poll held the connection

goVars == <<stream, loop, ctxDone, onceDone, closing, queued, polled, raced>>
allVars == <<vars, goVars>>

EventKinds == {"benchmark_job", "heartbeat"}

NoEvent == "none"

GoTypeOK ==
  /\ stream \in Conn \cup {NoConn}
  /\ loop \in {"unstarted", "check", "call", "polling", "deliver", "exit", "done"}
  /\ ctxDone \in BOOLEAN /\ onceDone \in BOOLEAN /\ raced \in BOOLEAN
  /\ closing \in [Closers -> {"idle", "once", "wait", "returned"}]
  /\ queued \in 0..Buffer
  /\ polled \in EventKinds \cup {NoEvent}
  /\ polled # NoEvent <=> loop = "deliver"
  /\ loop = "unstarted" <=> stream = NoConn
  /\ loop = "polling" <=> held[Reader] # NoConn

GoInit ==
  /\ Init
  /\ stream = NoConn /\ loop = "unstarted"
  /\ ctxDone = FALSE /\ onceDone = FALSE /\ raced = FALSE
  /\ closing = [g \in Closers |-> "idle"]
  /\ queued = 0 /\ polled = NoEvent

(***************************************************************************)
(* Opening, and everything the core does for other callers                 *)
(***************************************************************************)

\* openStreamLifecycle: the FFI connect, then `go runStreamReadLoop`.
Opening ==
  /\ stream = NoConn
  /\ ConnectStep(App)
  /\ IF held[App] \in issued'
     THEN stream' = held[App] /\ loop' = "check"
     ELSE UNCHANGED <<stream, loop>>
  /\ UNCHANGED <<ctxDone, onceDone, closing, queued, polled, raced>>

Elsewhere ==
  /\ ConnectStep(Other) \/ (\E x \in table : GrowIdle(x))
  /\ UNCHANGED goVars

\* The context the application passed to ConnectSSE is cancelled.
CancelContext ==
  /\ stream # NoConn /\ ~ctxDone
  /\ ctxDone' = TRUE
  /\ UNCHANGED <<vars, stream, loop, onceDone, closing, queued, polled, raced>>

(***************************************************************************)
(* runStreamReadLoop                                                       *)
(***************************************************************************)

\* Fault: the loop polls again without looking at the context.
LoopIgnoresContext ==
  /\ loop = "check"
  /\ loop' = "call"
  /\ UNCHANGED <<vars, stream, ctxDone, onceDone, closing, queued, polled, raced>>

LoopCheck ==
  /\ loop = "check"
  /\ loop' = IF ctxDone THEN "exit" ELSE "call"
  /\ UNCHANGED <<vars, stream, ctxDone, onceDone, closing, queued, polled, raced>>

\* nextEvent finds the handle in the map, or answers that it is invalid.
LoopPoll ==
  /\ loop = "call"
  /\ IF stream \in table
     THEN PollTake(Reader, stream) /\ loop' = "polling"
     ELSE UNCHANGED vars /\ loop' = "exit"
  /\ UNCHANGED <<stream, ctxDone, onceDone, closing, queued, polled, raced>>

\* An event that does not unmarshal is logged and the loop goes on.
LoopEvent ==
  /\ loop = "polling"
  /\ PollEvent(Reader)
  /\ \/ loop' = "deliver" /\ polled' \in EventKinds
     \/ loop' = "check" /\ UNCHANGED polled
  /\ UNCHANGED <<stream, ctxDone, onceDone, closing, queued, raced>>

LoopStreamEnds ==
  /\ loop = "polling"
  /\ PollEnd(Reader)
  /\ loop' = "exit"
  /\ UNCHANGED <<stream, ctxDone, onceDone, closing, queued, polled, raced>>

\* Fault: events that find the channel full are kept beside it.
LoopSendUnbuffered ==
  /\ loop = "deliver"
  /\ queued' = queued + 1
  /\ loop' = "check" /\ polled' = NoEvent
  /\ UNCHANGED <<vars, stream, ctxDone, onceDone, closing, raced>>

\* The three-way select: a case that is ready is taken, otherwise the default.
LoopSend ==
  /\ loop = "deliver" /\ queued < Buffer
  /\ queued' = queued + 1
  /\ loop' = "check" /\ polled' = NoEvent
  /\ UNCHANGED <<vars, stream, ctxDone, onceDone, closing, raced>>

LoopCancelled ==
  /\ loop = "deliver" /\ ctxDone
  /\ loop' = "exit" /\ polled' = NoEvent
  /\ UNCHANGED <<vars, stream, ctxDone, onceDone, closing, queued, raced>>

LoopDrop ==
  /\ loop = "deliver" /\ queued >= Buffer /\ ~ctxDone
  /\ loop' = "check" /\ polled' = NoEvent
  /\ UNCHANGED <<vars, stream, ctxDone, onceDone, closing, queued, raced>>

\* closeOnce.Do(closeHandle): the FFI close, the first time only.
CloseHandleOnce(g) ==
  /\ onceDone' = TRUE
  /\ raced' = (raced \/ (~onceDone /\ loop = "polling"))
  /\ IF onceDone THEN UNCHANGED vars ELSE Close(g, stream)

\* Fault: the deferred function only closes the channels.
LoopExitKeepsHandle ==
  /\ loop = "exit"
  /\ loop' = "done"
  /\ UNCHANGED <<vars, stream, ctxDone, onceDone, closing, queued, polled, raced>>

\* The deferred function; afterwards both channels are closed.
LoopExit ==
  /\ loop = "exit"
  /\ CloseHandleOnce(Reader)
  /\ loop' = "done"
  /\ UNCHANGED <<stream, ctxDone, closing, queued, polled>>

(***************************************************************************)
(* Close and the application                                               *)
(***************************************************************************)

CloseBegin(g) ==
  /\ stream # NoConn /\ closing[g] = "idle"
  /\ ctxDone' = TRUE
  /\ closing' = [closing EXCEPT ![g] = "once"]
  /\ UNCHANGED <<vars, stream, loop, onceDone, queued, polled, raced>>

CloseOnce(g) ==
  /\ closing[g] = "once" /\ pc[g] = "ready"
  /\ CloseHandleOnce(g)
  /\ closing' = [closing EXCEPT ![g] = "wait"]
  /\ UNCHANGED <<stream, loop, ctxDone, queued, polled>>

CloseReturn(g) ==
  /\ closing[g] = "wait" /\ loop = "done"
  /\ closing' = [closing EXCEPT ![g] = "returned"]
  /\ UNCHANGED <<vars, stream, loop, ctxDone, onceDone, queued, polled, raced>>

\* The application receives an event; a busy one leaves them in the channel.
Receive ==
  /\ queued > 0
  /\ queued' = queued - 1
  /\ UNCHANGED <<vars, stream, loop, ctxDone, onceDone, closing, polled, raced>>

--------------------------------------------------------------------------------

LoopPollReturns == LoopEvent \/ LoopStreamEnds

LoopLocal == LoopCheck \/ LoopPoll \/ LoopSend \/ LoopCancelled \/ LoopDrop \/ LoopExit

GoNext ==
  \/ Opening \/ Elsewhere \/ CancelContext
  \/ LoopLocal \/ LoopPollReturns
  \/ \E g \in Closers : CloseBegin(g) \/ CloseOnce(g) \/ CloseReturn(g)
  \/ Receive

GoSafetySpec == GoInit /\ [][GoNext]_allVars

\* Goroutines are scheduled; a stream keeps producing heartbeats or ends.
GoFairness ==
  /\ WF_allVars(LoopLocal)
  /\ WF_allVars(LoopPollReturns)
  /\ \A g \in Closers : WF_allVars(CloseOnce(g)) /\ WF_allVars(CloseReturn(g))

GoSpec == GoSafetySpec /\ GoFairness

--------------------------------------------------------------------------------

\* When the read loop is over, its handle is out of the table, unless closeOnce
\* was spent while the loop's own poll had the connection out of the map.  Every
\* other way a stream can end (server, error, context, sweep, either closer,
\* both at once) releases the handle.
ReleasedUnlessRaced == loop = "done" /\ ~raced => stream \notin table

\* Every Close returns, given that polls do: the loop notices the cancelled
\* context within one event, wherever in its cycle Close found it, even when
\* nobody receives from the channel any more.
CloseReturns == \A g \in Closers : closing[g] = "once" ~> closing[g] = "returned"

\* "Close terminates the SSE connection" (comment on SSEConnection.Close).
CloseTerminates == \A g \in Closers : closing[g] = "returned" => stream \notin table
================================================================================
