----------------------------- MODULE StreamHandles -----------------------------
(***************************************************************************)
(* The streaming handle table of rust/hai-binding-core/src/lib.rs.         *)
(*                                                                         *)
(* Python, Node and Go hold an SSE or WebSocket connection only as a       *)
(* number.  The connections live in two process-wide maps, SSE_CONNECTIONS *)
(* and WS_CONNECTIONS, each behind a tokio Mutex.  A connect sweeps the    *)
(* idle entries of both maps, counts them, dials the server and inserts;   *)
(* a poll takes its entry OUT of the map for as long as it waits for an    *)
(* event and puts it back afterwards; a close removes the entry if it is   *)
(* there.  Callers interleave between any two acquisitions of a lock.      *)
(*                                                                         *)
(* One action is one critical section.  The awaits inside a critical       *)
(* section (conn.close().await under the lock) touch nothing the other     *)
(* callers can see before the lock is released.                            *)
(***************************************************************************)
EXTENDS Naturals, FiniteSets

CONSTANTS
  Callers,      \* concurrent FFI calls that may be in progress
  MaxHandles,   \* MAX_STREAMING_HANDLES
  HandleBound,  \* model bound: NEXT_HANDLE is not advanced past it
  NoConn        \* "this call has no connection in hand"

Kinds == {"sse", "ws"}

\* A TrackedSseConnection or TrackedWsConnection, named by its map and its key.
\* Zero is no key: haiigo answers a failed connect with it.
Conn == [id : Nat \ {0}, kind : Kinds]

ASSUME CallersFinite == IsFiniteSet(Callers) /\ Callers # {}
ASSUME MaxHandlesIsNat == MaxHandles \in Nat
ASSUME HandleBoundIsNat == HandleBound \in Nat
ASSUME NoConnIsNotConn == NoConn \notin Conn

VARIABLES
  nextHandle,   \* NEXT_HANDLE
  table,        \* the connections in SSE_CONNECTIONS and WS_CONNECTIONS
  idle,         \* those whose last_access is older than HANDLE_IDLE_TIMEOUT
  issued,       \* history: connections whose handle a connect has returned
  stopped,      \* history: connections that were closed or dropped
  pc,           \* where each call is
  want,         \* the kind of connection a connect call is opening, or "none"
  held,         \* the connection a call has in its hands, outside the maps
  seen          \* sse_count in total_streaming_handles

tables == <<table, idle, stopped>>
calls  == <<pc, want, held, seen>>
vars   == <<nextHandle, tables, issued, calls>>

Phases == {"ready", "sweepSse", "sweepWs", "countSse", "countWs",
           "dial", "insert", "poll"}

TypeOK ==
  /\ nextHandle \in Nat \ {0}
  /\ table \subseteq Conn /\ IsFiniteSet(table)
  /\ idle \subseteq table
  /\ issued \subseteq Conn
  /\ stopped \subseteq Conn
  /\ pc \in [Callers -> Phases]
  /\ want \in [Callers -> Kinds \cup {"none"}]
  /\ held \in [Callers -> Conn \cup {NoConn}]
  /\ seen \in [Callers -> Nat]

OfKind(k) == {x \in table : x.kind = k}

\* The connections some call has taken out of the maps or not yet put in.
InHand == {held[c] : c \in Callers} \ {NoConn}

Goto(c, phase) == pc' = [pc EXCEPT ![c] = phase]

--------------------------------------------------------------------------------

Init ==
  /\ nextHandle = 1
  /\ table = {} /\ idle = {} /\ issued = {} /\ stopped = {}
  /\ pc = [c \in Callers |-> "ready"]
  /\ want = [c \in Callers |-> "none"]
  /\ held = [c \in Callers |-> NoConn]
  /\ seen = [c \in Callers |-> 0]

\* HANDLE_IDLE_TIMEOUT passes without an event being polled from x.
GrowIdle(x) ==
  /\ x \in table \ idle
  /\ idle' = idle \cup {x}
  /\ UNCHANGED <<nextHandle, table, issued, stopped, calls>>

(***************************************************************************)
(* connect_sse and connect_ws                                              *)
(***************************************************************************)

Connect(c, k) ==
  /\ pc[c] = "ready"
  /\ Goto(c, "sweepSse")
  /\ want' = [want EXCEPT ![c] = k]
  /\ UNCHANGED <<nextHandle, tables, issued, held, seen>>

\* The body of cleanup_stale_sse_handles and cleanup_stale_ws_handles.
Sweep(k) ==
  LET stale == OfKind(k) \cap idle
  IN  /\ table' = table \ stale
      /\ idle' = idle \ stale
      /\ stopped' = stopped \cup stale

SweepSse(c) ==
  /\ pc[c] = "sweepSse"
  /\ Sweep("sse")
  /\ Goto(c, "sweepWs")
  /\ UNCHANGED <<nextHandle, issued, want, held, seen>>

SweepWs(c) ==
  /\ pc[c] = "sweepWs"
  /\ Sweep("ws")
  /\ Goto(c, "countSse")
  /\ UNCHANGED <<nextHandle, issued, want, held, seen>>

\* total_streaming_handles takes the two locks one after the other.
CountSse(c) ==
  /\ pc[c] = "countSse"
  /\ seen' = [seen EXCEPT ![c] = Cardinality(OfKind("sse"))]
  /\ Goto(c, "countWs")
  /\ UNCHANGED <<nextHandle, tables, issued, want, held>>

Total(c) == seen[c] + Cardinality(OfKind("ws"))

\* The limit is checked against what the two counts added up to.
Refuse(c) ==
  /\ pc[c] = "countWs"
  /\ Total(c) >= MaxHandles
  /\ Goto(c, "ready")
  /\ want' = [want EXCEPT ![c] = "none"]
  /\ seen' = [seen EXCEPT ![c] = 0]
  /\ UNCHANGED <<nextHandle, tables, issued, held>>

\* Fault: the limit itself is let through.
AdmitAtLimit(c) ==
  /\ pc[c] = "countWs"
  /\ Total(c) <= MaxHandles
  /\ Goto(c, "dial")
  /\ seen' = [seen EXCEPT ![c] = 0]
  /\ UNCHANGED <<nextHandle, tables, issued, want, held>>

Admit(c) ==
  /\ pc[c] = "countWs"
  /\ Total(c) < MaxHandles
  /\ Goto(c, "dial")
  /\ seen' = [seen EXCEPT ![c] = 0]
  /\ UNCHANGED <<nextHandle, tables, issued, want, held>>

\* Fault: the counter is read and stored, not fetch_add-ed, so two connects that
\* pass it together take one number.
DialReadsCounter(c) ==
  /\ pc[c] = "dial"
  /\ nextHandle <= HandleBound
  /\ held' = [held EXCEPT ![c] = [id |-> nextHandle, kind |-> want[c]]]
  /\ nextHandle' \in {nextHandle, nextHandle + 1}
  /\ want' = [want EXCEPT ![c] = "none"]
  /\ Goto(c, "insert")
  /\ UNCHANGED <<tables, issued, seen>>

\* client.connect_*() returns Ok, and the call takes a number at once.
DialOk(c) ==
  /\ pc[c] = "dial"
  /\ nextHandle <= HandleBound
  /\ held' = [held EXCEPT ![c] = [id |-> nextHandle, kind |-> want[c]]]
  /\ nextHandle' = nextHandle + 1
  /\ want' = [want EXCEPT ![c] = "none"]
  /\ Goto(c, "insert")
  /\ UNCHANGED <<tables, issued, seen>>

\* client.connect_*() returns Err, or the host drops the call while it dials.
DialFail(c) ==
  /\ pc[c] = "dial"
  /\ Goto(c, "ready")
  /\ want' = [want EXCEPT ![c] = "none"]
  /\ UNCHANGED <<nextHandle, tables, issued, held, seen>>

Insert(c) ==
  /\ pc[c] = "insert"
  /\ table' = table \cup {held[c]}
  /\ issued' = issued \cup {held[c]}
  /\ held' = [held EXCEPT ![c] = NoConn]
  /\ Goto(c, "ready")
  /\ UNCHANGED <<nextHandle, idle, stopped, want, seen>>

\* The host drops the call while it waits for the lock of the map: the connection
\* goes with the frame, and its number is never used.
InsertDropped(c) ==
  /\ pc[c] = "insert"
  /\ stopped' = stopped \cup {held[c]}
  /\ held' = [held EXCEPT ![c] = NoConn]
  /\ Goto(c, "ready")
  /\ UNCHANGED <<nextHandle, table, idle, issued, want, seen>>

(***************************************************************************)
(* sse_next_event and ws_next_event.  A handle that is not in the map is   *)
(* answered with InvalidArgument and changes nothing: a stuttering step.   *)
(***************************************************************************)

\* Fault: the entry stays in the map while the poll waits on a clone of it.
PollShares(c, x) ==
  /\ pc[c] = "ready"
  /\ x \in table
  /\ held' = [held EXCEPT ![c] = x]
  /\ Goto(c, "poll")
  /\ UNCHANGED <<nextHandle, tables, issued, want, seen>>

PollTake(c, x) ==
  /\ pc[c] = "ready"
  /\ x \in table
  /\ table' = table \ {x}
  /\ idle' = idle \ {x}
  /\ held' = [held EXCEPT ![c] = x]
  /\ Goto(c, "poll")
  /\ UNCHANGED <<nextHandle, issued, stopped, want, seen>>

\* next_event returned Some: last_access is now, and the entry goes back.
PollEvent(c) ==
  /\ pc[c] = "poll"
  /\ table' = table \cup {held[c]}
  /\ held' = [held EXCEPT ![c] = NoConn]
  /\ Goto(c, "ready")
  /\ UNCHANGED <<nextHandle, idle, issued, stopped, want, seen>>

\* next_event returned None or Err, or the host dropped the call: the
\* connection is dropped with the frame and its handle is gone.
PollEnd(c) ==
  /\ pc[c] = "poll"
  /\ stopped' = stopped \cup {held[c]}
  /\ held' = [held EXCEPT ![c] = NoConn]
  /\ Goto(c, "ready")
  /\ UNCHANGED <<nextHandle, table, idle, issued, want, seen>>

(***************************************************************************)
(* sse_close and ws_close: Ok whether or not the handle is in the map.     *)
(***************************************************************************)

Close(c, x) ==
  /\ pc[c] = "ready"
  /\ x \in issued
  /\ table' = table \ {x}
  /\ idle' = idle \ {x}
  /\ stopped' = stopped \cup ({x} \cap table)
  /\ UNCHANGED <<nextHandle, issued, calls>>

--------------------------------------------------------------------------------

ConnectStep(c) ==
  \/ \E k \in Kinds : Connect(c, k)
  \/ SweepSse(c) \/ SweepWs(c) \/ CountSse(c) \/ Refuse(c) \/ Admit(c)
  \/ DialOk(c) \/ DialFail(c) \/ Insert(c) \/ InsertDropped(c)

PollStep(c) == (\E x \in table : PollTake(c, x)) \/ PollEvent(c) \/ PollEnd(c)

Next ==
  \/ \E x \in table : GrowIdle(x)
  \/ \E c \in Callers :
       ConnectStep(c) \/ PollStep(c) \/ (\E x \in issued : Close(c, x))

Spec == Init /\ [][Next]_vars

--------------------------------------------------------------------------------

\* A connection is in one place at a time: no two calls have it in hand, the
\* map never still lists what a call has taken out, and nothing closed by a
\* sweep or a close is in a map or under a poll that is waiting on it.
ExclusiveOwnership ==
  /\ \A c, d \in Callers : held[c] # NoConn /\ held[c] = held[d] => c = d
  /\ InHand \cap (table \cup stopped) = {}
  /\ table \cap stopped = {}

\* A number names one connection for ever: a host that keeps a handle after
\* its stream has ended can never reach somebody else's stream through it,
\* in either map, although connects allocate and insert in different orders.
HandleNamesOneConnection ==
  \A x, y \in issued \cup InHand : x.id = y.id => x = y

\* What makes the two above inductive: which phase has a connection in hand,
\* whether its handle was already given out, and that NEXT_HANDLE is ahead of
\* every number in use.
PhaseInv ==
  \A c \in Callers :
    /\ (held[c] # NoConn) <=> (pc[c] \in {"insert", "poll"})
    /\ pc[c] = "insert" => held[c] \notin issued
    /\ pc[c] = "poll" => held[c] \in issued
    /\ pc[c] \in {"sweepSse", "sweepWs", "countSse", "countWs", "dial"} => want[c] \in Kinds

NumberInv ==
  /\ table \subseteq issued
  /\ \A x \in issued \cup InHand \cup stopped : x.id < nextHandle

OwnershipInv ==
  /\ TypeOK /\ PhaseInv /\ NumberInv
  /\ ExclusiveOwnership /\ HandleNamesOneConnection

\* How far the open connections outgrow the limit: the check and the insert are
\* apart, the two maps are counted one after the other, and a connection under a
\* poll is in neither.  Each other call in progress can hide one connection from
\* the count (or show it the map it is not in) and be admitted beside it.
OvershootBounded ==
  Cardinality(table \cup InHand) <= MaxHandles + 2 * (Cardinality(Callers) - 1)
================================================================================
