-------------------------- MODULE StreamHandlesProofs --------------------------
(***************************************************************************)
(* Proofs about the handle table, and about the Go stream that uses it, for *)
(* any number of calls, any limit and any number of connections.           *)
(*                                                                         *)
(* OwnershipInv is inductive.  The connection a call has in its hands is   *)
(* the only reference to it (ExclusiveOwnership); that survives a step     *)
(* because a poll removes before it waits and because a connect numbers    *)
(* its connection from a counter ahead of every number in use (NumberInv). *)
(* PhaseInv says when a call has a connection in hand at all.              *)
(***************************************************************************)
EXTENDS GoStream, FiniteSetTheorems, TLAPS

\* The maps are finite, so counting one yields a number.
LEMMA CountType ==
  ASSUME TypeOK, NEW k
  PROVE  Cardinality(OfKind(k)) \in Nat
<1>1. IsFiniteSet(OfKind(k))
  BY FS_Subset DEF TypeOK, OfKind
<1>2. QED
  BY <1>1, FS_CardinalityType

LEMMA InitOwnership == Init => OwnershipInv
<1>1. Init => TypeOK
  BY FS_EmptySet DEF Init, TypeOK, Phases
<1>2. Init => InHand = {}
  BY DEF Init, InHand
<1>3. QED
  BY <1>1, <1>2
     DEF Init, OwnershipInv, PhaseInv, NumberInv, ExclusiveOwnership,
         HandleNamesOneConnection

\* Steps that only move a call between phases in which its hands are empty.
LEMMA PhaseStep ==
  ASSUME OwnershipInv, NEW c \in Callers,
         \/ \E k \in Kinds : Connect(c, k)
         \/ CountSse(c)
         \/ Refuse(c)
         \/ Admit(c)
         \/ DialFail(c)
  PROVE  OwnershipInv'
<1> USE DEF OwnershipInv
<1>1. UNCHANGED <<nextHandle, table, idle, stopped, issued, held>>
  BY DEF Connect, CountSse, Refuse, Admit, DialFail, tables
<1>2. InHand' = InHand
  BY <1>1 DEF InHand
<1>3. TypeOK'
  <2>1. pc' \in [Callers -> Phases] /\ want' \in [Callers -> Kinds \cup {"none"}]
    BY DEF TypeOK, Connect, CountSse, Refuse, Admit, DialFail, Goto, Phases
  <2>2. seen' \in [Callers -> Nat]
    BY CountType DEF TypeOK, Connect, CountSse, Refuse, Admit, DialFail
  <2>3. QED
    BY <1>1, <2>1, <2>2 DEF TypeOK
<1>4. PhaseInv'
  BY <1>1 DEF PhaseInv, TypeOK, Connect, CountSse, Refuse, Admit, DialFail, Goto, Kinds
<1>5. NumberInv' /\ HandleNamesOneConnection'
  BY <1>1, <1>2 DEF NumberInv, HandleNamesOneConnection
<1>6. ExclusiveOwnership'
  BY <1>1, <1>2 DEF ExclusiveOwnership
<1>7. QED
  BY <1>3, <1>4, <1>5, <1>6

\* A connection enters or leaves the hands of one call.
LEMMA HandsGain ==
  ASSUME held \in [Callers -> Conn \cup {NoConn}], NEW c \in Callers,
         held[c] = NoConn, NEW x \in Conn, held' = [held EXCEPT ![c] = x]
  PROVE  InHand' = InHand \cup {x}
BY NoConnIsNotConn DEF InHand

LEMMA HandsLose ==
  ASSUME held \in [Callers -> Conn \cup {NoConn}], NEW c \in Callers,
         held[c] # NoConn, ExclusiveOwnership, held' = [held EXCEPT ![c] = NoConn]
  PROVE  InHand' = InHand \ {held[c]}
BY DEF InHand, ExclusiveOwnership

LEMMA IdleStep ==
  ASSUME OwnershipInv, NEW x \in table, GrowIdle(x)
  PROVE  OwnershipInv'
<1> USE DEF OwnershipInv
<1>1. UNCHANGED <<nextHandle, table, stopped, issued, pc, want, held, seen>>
  BY DEF GrowIdle, calls
<1>2. InHand' = InHand
  BY <1>1 DEF InHand
<1>3. TypeOK'
  BY <1>1 DEF TypeOK, GrowIdle
<1>4. QED
  BY <1>1, <1>2, <1>3
     DEF PhaseInv, NumberInv, ExclusiveOwnership, HandleNamesOneConnection

\* A sweep stops what it takes out of the maps, and only that.
LEMMA SweepStep ==
  ASSUME OwnershipInv, NEW c \in Callers, SweepSse(c) \/ SweepWs(c)
  PROVE  OwnershipInv'
<1> USE DEF OwnershipInv
<1>1. PICK k \in Kinds : Sweep(k)
  BY DEF SweepSse, SweepWs, Kinds
<1>2. UNCHANGED <<nextHandle, issued, want, held, seen>>
  BY DEF SweepSse, SweepWs
<1>3. InHand' = InHand
  BY <1>2 DEF InHand
<1> DEFINE stale == OfKind(k) \cap idle
<1>4. /\ table' = table \ stale /\ idle' = idle \ stale /\ stopped' = stopped \cup stale
      /\ stale \subseteq table
  BY <1>1 DEF Sweep, OfKind
<1> HIDE DEF stale
<1>5. TypeOK'
  <2>1. IsFiniteSet(table')
    BY <1>4, FS_Subset DEF TypeOK
  <2>2. pc' \in [Callers -> Phases]
    BY DEF TypeOK, SweepSse, SweepWs, Goto, Phases
  <2>3. QED
    BY <1>2, <1>4, <2>1, <2>2 DEF TypeOK
<1>6. PhaseInv'
  BY <1>2 DEF PhaseInv, TypeOK, SweepSse, SweepWs, Goto
<1>7. NumberInv' /\ HandleNamesOneConnection'
  BY <1>2, <1>3, <1>4 DEF NumberInv, HandleNamesOneConnection
<1>8. ExclusiveOwnership'
  BY <1>2, <1>3, <1>4 DEF ExclusiveOwnership
<1>9. QED
  BY <1>5, <1>6, <1>7, <1>8

\* A connect numbers its connection from ahead of every number in use.
LEMMA DialStep ==
  ASSUME OwnershipInv, NEW c \in Callers, DialOk(c)
  PROVE  OwnershipInv'
<1> USE DEF OwnershipInv
<1> DEFINE x == [id |-> nextHandle, kind |-> want[c]]
<1>1. x \in Conn /\ held[c] = NoConn
  BY DEF DialOk, PhaseInv, TypeOK, Conn
<1>2. /\ held' = [held EXCEPT ![c] = x] /\ nextHandle' = nextHandle + 1
      /\ UNCHANGED <<table, idle, stopped, issued, seen>>
  BY DEF DialOk, tables
<1>3. x.id = nextHandle
  OBVIOUS
<1>4. x \notin issued \cup InHand \cup table \cup stopped
  BY <1>3 DEF NumberInv, TypeOK
<1> HIDE DEF x
<1>5. InHand' = InHand \cup {x}
  BY <1>1, <1>2, HandsGain DEF TypeOK
<1>6. TypeOK'
  BY <1>1, <1>2 DEF TypeOK, DialOk, Goto, Phases
<1>7. PhaseInv'
  <2>1. /\ pc' = [pc EXCEPT ![c] = "insert"] /\ want' = [want EXCEPT ![c] = "none"]
        /\ held'[c] = x /\ x # NoConn
    BY <1>1, <1>2, NoConnIsNotConn DEF DialOk, Goto, TypeOK
  <2>2. SUFFICES ASSUME NEW d \in Callers
                 PROVE  /\ (held'[d] # NoConn) <=> (pc'[d] \in {"insert", "poll"})
                        /\ pc'[d] = "insert" => held'[d] \notin issued'
                        /\ pc'[d] = "poll" => held'[d] \in issued'
                        /\ pc'[d] \in {"sweepSse", "sweepWs", "countSse", "countWs", "dial"}
                             => want'[d] \in Kinds
    BY DEF PhaseInv
  <2>3. CASE d = c
    BY <1>2, <1>4, <2>1, <2>3 DEF TypeOK
  <2>4. CASE d # c
    BY <1>2, <2>1, <2>4 DEF TypeOK, PhaseInv
  <2>5. QED
    BY <2>3, <2>4
<1>8. \A y \in issued \cup InHand \cup stopped : y.id \in Nat /\ y.id < nextHandle
  <2>1. issued \cup InHand \cup stopped \subseteq Conn
    BY DEF InHand, TypeOK
  <2>2. QED
    BY <2>1 DEF NumberInv, Conn
<1>9. NumberInv' /\ HandleNamesOneConnection'
  <2>1. \A y \in issued' \cup InHand' : y = x \/ y \in issued \cup InHand
    BY <1>2, <1>5
  <2>2. \A y \in issued' \cup InHand' \cup stopped' : y.id < nextHandle'
    BY <1>2, <1>3, <1>8, <2>1 DEF TypeOK
  <2>3. \A y \in issued \cup InHand : y.id # x.id
    BY <1>3, <1>8 DEF TypeOK
  <2>4. QED
    BY <1>2, <2>1, <2>2, <2>3 DEF NumberInv, HandleNamesOneConnection
<1>10. ExclusiveOwnership'
  <2>1. \A d \in Callers : held[d] # x
    BY <1>1, <1>4, NoConnIsNotConn DEF InHand
  <2>2. \A d, e \in Callers : held'[d] # NoConn /\ held'[d] = held'[e] => d = e
    BY <1>2, <2>1 DEF ExclusiveOwnership, TypeOK
  <2>3. QED
    BY <1>2, <1>4, <1>5, <2>2 DEF ExclusiveOwnership
<1>11. QED
  BY <1>6, <1>7, <1>9, <1>10

LEMMA InsertStep ==
  ASSUME OwnershipInv, NEW c \in Callers, Insert(c)
  PROVE  OwnershipInv'
<1> USE DEF OwnershipInv
<1> DEFINE x == held[c]
<1>1. x \in Conn /\ x # NoConn /\ x \notin issued /\ x \in InHand
  BY NoConnIsNotConn DEF Insert, PhaseInv, TypeOK, InHand
<1>2. /\ held' = [held EXCEPT ![c] = NoConn] /\ pc' = [pc EXCEPT ![c] = "ready"]
      /\ table' = table \cup {x} /\ issued' = issued \cup {x}
      /\ UNCHANGED <<nextHandle, idle, stopped, want, seen>>
  BY DEF Insert, Goto
<1>3. InHand' = InHand \ {x}
  BY <1>1, <1>2, HandsLose DEF TypeOK
<1>4. \A d \in Callers \ {c} : held[d] # x
  BY <1>1 DEF ExclusiveOwnership
<1> HIDE DEF x
<1>5. TypeOK'
  BY <1>1, <1>2, FS_AddElement DEF TypeOK, Phases
<1>6. PhaseInv'
  BY <1>2, <1>4 DEF PhaseInv, TypeOK
<1>7. NumberInv' /\ HandleNamesOneConnection'
  BY <1>1, <1>2, <1>3 DEF NumberInv, HandleNamesOneConnection
<1>8. ExclusiveOwnership'
  BY <1>1, <1>2, <1>3 DEF ExclusiveOwnership, TypeOK
<1>9. QED
  BY <1>5, <1>6, <1>7, <1>8

\* A connect that is dropped at the lock: its connection was in nobody else's hands.
LEMMA InsertDroppedStep ==
  ASSUME OwnershipInv, NEW c \in Callers, InsertDropped(c)
  PROVE  OwnershipInv'
<1> USE DEF OwnershipInv
<1> DEFINE x == held[c]
<1>1. x \in Conn /\ x # NoConn /\ x \notin issued /\ x \in InHand
  BY NoConnIsNotConn DEF InsertDropped, PhaseInv, TypeOK, InHand
<1>2. /\ held' = [held EXCEPT ![c] = NoConn] /\ pc' = [pc EXCEPT ![c] = "ready"]
      /\ stopped' = stopped \cup {x}
      /\ UNCHANGED <<nextHandle, table, idle, issued, want, seen>>
  BY DEF InsertDropped, Goto
<1>3. InHand' = InHand \ {x}
  BY <1>1, <1>2, HandsLose DEF TypeOK
<1> HIDE DEF x
<1>4. TypeOK'
  BY <1>1, <1>2 DEF TypeOK, Phases
<1>5. PhaseInv'
  BY <1>2 DEF PhaseInv, TypeOK
<1>6. NumberInv' /\ HandleNamesOneConnection'
  BY <1>1, <1>2, <1>3 DEF NumberInv, HandleNamesOneConnection
<1>7. ExclusiveOwnership'
  BY <1>1, <1>2, <1>3 DEF ExclusiveOwnership, TypeOK, NumberInv
<1>8. QED
  BY <1>4, <1>5, <1>6, <1>7

\* A poll takes the entry out, so no other call can reach the connection.
LEMMA PollTakeStep ==
  ASSUME OwnershipInv, NEW c \in Callers, NEW x \in table, PollTake(c, x)
  PROVE  OwnershipInv'
<1> USE DEF OwnershipInv
<1>1. x \in Conn /\ x # NoConn /\ x \in issued /\ x \notin InHand \cup stopped /\ held[c] = NoConn
  BY NoConnIsNotConn DEF PollTake, PhaseInv, TypeOK, NumberInv, ExclusiveOwnership
<1>2. /\ held' = [held EXCEPT ![c] = x] /\ pc' = [pc EXCEPT ![c] = "poll"]
      /\ table' = table \ {x} /\ idle' = idle \ {x}
      /\ UNCHANGED <<nextHandle, issued, stopped, want, seen>>
  BY DEF PollTake, Goto
<1>3. InHand' = InHand \cup {x}
  BY <1>1, <1>2, HandsGain DEF TypeOK
<1>4. \A d \in Callers : held[d] # x
  BY <1>1 DEF InHand
<1>5. TypeOK'
  <2>1. IsFiniteSet(table')
    BY <1>2, FS_Subset DEF TypeOK
  <2>2. QED
    BY <1>1, <1>2, <2>1 DEF TypeOK, Phases
<1>6. PhaseInv'
  BY <1>1, <1>2 DEF PhaseInv, TypeOK
<1>7. NumberInv' /\ HandleNamesOneConnection'
  BY <1>1, <1>2, <1>3 DEF NumberInv, HandleNamesOneConnection
<1>8. ExclusiveOwnership'
  BY <1>1, <1>2, <1>3, <1>4 DEF ExclusiveOwnership, TypeOK
<1>9. QED
  BY <1>5, <1>6, <1>7, <1>8

\* A poll puts back what it took, or stops it.
LEMMA PollReturnStep ==
  ASSUME OwnershipInv, NEW c \in Callers, PollEvent(c) \/ PollEnd(c)
  PROVE  OwnershipInv'
<1> USE DEF OwnershipInv
<1> DEFINE x == held[c]
<1>1. x \in Conn /\ x # NoConn /\ x \in issued /\ x \in InHand
  BY NoConnIsNotConn DEF PollEvent, PollEnd, PhaseInv, TypeOK, InHand
<1>2. /\ held' = [held EXCEPT ![c] = NoConn] /\ pc' = [pc EXCEPT ![c] = "ready"]
      /\ UNCHANGED <<nextHandle, idle, issued, want, seen>>
      /\ \/ table' = table \cup {x} /\ stopped' = stopped
         \/ table' = table /\ stopped' = stopped \cup {x}
  BY DEF PollEvent, PollEnd, Goto
<1>3. InHand' = InHand \ {x}
  BY <1>1, <1>2, HandsLose DEF TypeOK
<1>4. \A d \in Callers \ {c} : held[d] # x
  BY <1>1 DEF ExclusiveOwnership
<1> HIDE DEF x
<1>5. TypeOK'
  BY <1>1, <1>2, FS_AddElement DEF TypeOK, Phases
<1>6. PhaseInv'
  BY <1>2, <1>4 DEF PhaseInv, TypeOK
<1>7. NumberInv' /\ HandleNamesOneConnection'
  BY <1>1, <1>2, <1>3 DEF NumberInv, HandleNamesOneConnection
<1>8. ExclusiveOwnership'
  BY <1>1, <1>2, <1>3 DEF ExclusiveOwnership, TypeOK
<1>9. QED
  BY <1>5, <1>6, <1>7, <1>8

\* A close touches the maps only: a connection under a poll is out of its reach.
LEMMA CloseStep ==
  ASSUME OwnershipInv, NEW c \in Callers, NEW x \in issued, Close(c, x)
  PROVE  OwnershipInv'
<1> USE DEF OwnershipInv
<1>1. /\ table' = table \ {x} /\ idle' = idle \ {x}
      /\ stopped' = stopped \cup ({x} \cap table)
      /\ UNCHANGED <<nextHandle, issued, pc, want, held, seen>>
  BY DEF Close, calls
<1>2. InHand' = InHand
  BY <1>1 DEF InHand
<1>3. TypeOK'
  <2>1. IsFiniteSet(table')
    BY <1>1, FS_Subset DEF TypeOK
  <2>2. QED
    BY <1>1, <2>1 DEF TypeOK
<1>4. QED
  BY <1>1, <1>2, <1>3
     DEF PhaseInv, NumberInv, ExclusiveOwnership, HandleNamesOneConnection

\* A step of any call, or of time, keeps the inductive invariant.
LEMMA NextOwnership ==
  ASSUME OwnershipInv, [Next]_vars
  PROVE  OwnershipInv'
<1>1. ASSUME NEW x \in table, GrowIdle(x) PROVE OwnershipInv'
  BY <1>1, IdleStep
<1>2. ASSUME NEW c \in Callers, ConnectStep(c) PROVE OwnershipInv'
  BY <1>2, PhaseStep, SweepStep, DialStep, InsertStep, InsertDroppedStep DEF ConnectStep
<1>3. ASSUME NEW c \in Callers, PollStep(c) PROVE OwnershipInv'
  BY <1>3, PollTakeStep, PollReturnStep DEF PollStep
<1>4. ASSUME NEW c \in Callers, NEW x \in issued, Close(c, x) PROVE OwnershipInv'
  BY <1>4, CloseStep
<1>5. CASE UNCHANGED vars
  BY <1>5
     DEF vars, tables, calls, OwnershipInv, TypeOK, PhaseInv, NumberInv,
         ExclusiveOwnership, HandleNamesOneConnection, InHand
<1>6. QED
  BY <1>1, <1>2, <1>3, <1>4, <1>5 DEF Next

\* Every connection is in exactly one place, whatever the calls do: the
\* inductive invariant of the handle table.
THEOREM Ownership == Spec => []OwnershipInv
<1>1. QED
  BY InitOwnership, NextOwnership, PTL DEF Spec

\* The state the code keeps is always of the shape it declares.
THEOREM TypeCorrect == Spec => []TypeOK
<1>1. OwnershipInv => TypeOK
  BY DEF OwnershipInv
<1>2. QED
  BY <1>1, Ownership, PTL

\* No two calls ever hold one connection, and none is swept or closed under a
\* poll that waits on it.
THEOREM Exclusive == Spec => []ExclusiveOwnership
<1>1. OwnershipInv => ExclusiveOwnership
  BY DEF OwnershipInv
<1>2. QED
  BY <1>1, Ownership, PTL

\* A number the host keeps never comes to mean another stream.
THEOREM OneConnectionPerHandle == Spec => []HandleNamesOneConnection
<1>1. OwnershipInv => HandleNamesOneConnection
  BY DEF OwnershipInv
<1>2. QED
  BY <1>1, Ownership, PTL

-----------------------------------------------------------------------------
(***************************************************************************)
(* How far the limit is overshot.  LoadOf(k) is what of kind k is open or   *)
(* has been let through and not yet dialled; only Admit makes a load grow.  *)
(* A connect is admitted by two counts that lie apart.  If nobody counted   *)
(* and was admitted in between, each other call hid one connection from     *)
(* each count at most, and a call that was itself waiting at its second     *)
(* count hid none.  If somebody did, this connect was waiting at its second *)
(* count all the while and left room for two.  So the invariant must say    *)
(* in which order the waiting connects took their first count: rank.        *)
(***************************************************************************)

Opened(k) == {x \in table \cup InHand : x.kind = k}
Dialing(k) == {c \in Callers : pc[c] = "dial" /\ want[c] = k}
LoadOf(k) == Cardinality(Opened(k)) + Cardinality(Dialing(k))

\* The connects between their two counts, and those of them that wait longer than c.
Waiting == {c \in Callers : pc[c] = "countWs"}
Longer(rank, c) == {d \in Waiting : rank[d] < rank[c]}
Others(rank, c) == Cardinality(Callers) - 1 - Cardinality(Longer(rank, c))

SeenKeeps(rank, c) ==
  \/ LoadOf("sse") <= seen[c] + Others(rank, c)
  \/ LoadOf("sse") + LoadOf("ws") <= MaxHandles + 2 * (Others(rank, c) - 1)

Ranks(rank, top) ==
  /\ \A c \in Callers : rank[c] < top
  /\ \A c, d \in Waiting : rank[c] = rank[d] => c = d

LimitInv ==
  /\ LoadOf("sse") + LoadOf("ws") <= MaxHandles + 2 * (Cardinality(Callers) - 1)
  /\ \E top \in Nat : \E rank \in [Callers -> Nat] :
       Ranks(rank, top) /\ \A c \in Waiting : SeenKeeps(rank, c)

LEMMA AddOne ==
  ASSUME NEW S, IsFiniteSet(S), NEW x
  PROVE  Cardinality(S \cup {x}) \in Nat /\ Cardinality(S \cup {x}) <= Cardinality(S) + 1
<1>1. Cardinality(S) \in Nat
  BY FS_CardinalityType
<1>2. Cardinality(S \cup {x}) = IF x \in S THEN Cardinality(S) ELSE Cardinality(S) + 1
  BY FS_AddElement
<1>3. QED
  BY <1>1, <1>2

\* A call holds one connection at most.
LEMMA HeldFinite ==
  ASSUME TypeOK, NEW k
  PROVE  LET H == {c \in Callers : held[c] # NoConn /\ held[c].kind = k}
             X == {x \in InHand : x.kind = k}
         IN  IsFiniteSet(H) /\ IsFiniteSet(X) /\ Cardinality(X) <= Cardinality(H)
<1> DEFINE H == {c \in Callers : held[c] # NoConn /\ held[c].kind = k}
           X == {x \in InHand : x.kind = k}
           f == [c \in H |-> held[c]]
<1>1. IsFiniteSet(H)
  BY CallersFinite, FS_Subset
<1>2. f \in Surjection(H, X)
  <2>1. f \in [H -> X]
    BY DEF InHand
  <2>2. \A x \in X : \E c \in H : f[c] = x
    BY DEF InHand
  <2>3. QED
    BY <2>1, <2>2 DEF Surjection
<1> HIDE DEF f, H, X
<1>3. IsFiniteSet(X) /\ Cardinality(X) <= Cardinality(H)
  BY <1>1, <1>2, FS_Surjection
<1>4. QED
  BY <1>1, <1>3 DEF H, X

LEMMA LoadType ==
  ASSUME TypeOK, NEW k
  PROVE  /\ IsFiniteSet(Opened(k)) /\ Cardinality(Opened(k)) \in Nat
         /\ IsFiniteSet(Dialing(k)) /\ Cardinality(Dialing(k)) \in Nat
         /\ LoadOf(k) \in Nat
         /\ Opened(k) = OfKind(k) \cup {x \in InHand : x.kind = k}
<1>1. Opened(k) = OfKind(k) \cup {x \in InHand : x.kind = k}
  BY DEF Opened, OfKind
<1>2. IsFiniteSet(OfKind(k)) /\ IsFiniteSet({x \in InHand : x.kind = k})
  BY HeldFinite, FS_Subset DEF TypeOK, OfKind
<1>3. IsFiniteSet(Opened(k))
  BY <1>1, <1>2, FS_Union
<1>4. IsFiniteSet(Dialing(k))
  BY CallersFinite, FS_Subset DEF Dialing
<1>5. QED
  BY <1>1, <1>3, <1>4, FS_CardinalityType DEF LoadOf

\* The same of a state and of the next one, for the steps below.
LEMMA LoadTypes ==
  TypeOK => \A k \in Kinds : /\ Cardinality(Opened(k)) \in Nat /\ Cardinality(Dialing(k)) \in Nat
                             /\ LoadOf(k) \in Nat
<1>1. QED
  BY LoadType

LEMMA LoadTypesNext ==
  TypeOK' => \A k \in Kinds : /\ Cardinality(Opened(k)') \in Nat /\ Cardinality(Dialing(k)') \in Nat
                              /\ LoadOf(k)' \in Nat
<1>1. (TypeOK => \A k \in Kinds : /\ Cardinality(Opened(k)) \in Nat /\ Cardinality(Dialing(k)) \in Nat
                                  /\ LoadOf(k) \in Nat)'
  BY LoadTypes, PTL
<1>2. QED
  BY <1>1

LEMMA CallersType ==
  /\ Cardinality(Callers) \in Nat /\ Cardinality(Callers) >= 1
  /\ \A S \in SUBSET Callers : /\ IsFiniteSet(S) /\ Cardinality(S) \in Nat
                               /\ Cardinality(S) <= Cardinality(Callers)
                               /\ Cardinality(Callers \ S) = Cardinality(Callers) - Cardinality(S)
<1>1. Cardinality(Callers) \in Nat /\ Cardinality(Callers) # 0
  BY CallersFinite, FS_CardinalityType, FS_EmptySet
<1>2. ASSUME NEW S \in SUBSET Callers
      PROVE  /\ IsFiniteSet(S) /\ Cardinality(S) \in Nat
             /\ Cardinality(S) <= Cardinality(Callers)
             /\ Cardinality(Callers \ S) = Cardinality(Callers) - Cardinality(S)
  <2>1. IsFiniteSet(S) /\ Cardinality(S) \in Nat /\ Cardinality(S) <= Cardinality(Callers)
    BY CallersFinite, FS_Subset, FS_CardinalityType
  <2>2. Callers \cap S = S
    OBVIOUS
  <2>3. Cardinality(Callers \ S) = Cardinality(Callers) - Cardinality(Callers \cap S)
    BY CallersFinite, FS_Difference
  <2>4. QED
    BY <2>1, <2>2, <2>3
<1>3. QED
  BY <1>1, <1>2

\* What a count of one map misses: one connection for each call that is at a place
\* where it holds or dials one.
LEMMA CountMisses ==
  ASSUME OwnershipInv, NEW k \in Kinds, NEW S \in SUBSET Callers,
         \A c \in S : pc[c] \notin {"dial", "insert", "poll"}
  PROVE  LoadOf(k) <= Cardinality(OfKind(k)) + Cardinality(Callers) - Cardinality(S)
<1> DEFINE H == {c \in Callers : held[c] # NoConn /\ held[c].kind = k}
           X == {x \in InHand : x.kind = k}
<1>0. TypeOK
  BY DEF OwnershipInv
<1>1. H \subseteq Callers \ S /\ Dialing(k) \subseteq Callers \ S /\ H \cap Dialing(k) = {}
  BY DEF OwnershipInv, PhaseInv, Dialing
<1>2. IsFiniteSet(H) /\ IsFiniteSet(X) /\ Cardinality(X) <= Cardinality(H)
  BY <1>0, HeldFinite
<1>3. /\ Opened(k) = OfKind(k) \cup X /\ Cardinality(Opened(k)) \in Nat
      /\ IsFiniteSet(Dialing(k)) /\ Cardinality(Dialing(k)) \in Nat
  BY <1>0, LoadType
<1> HIDE DEF H, X
<1>4. Cardinality(OfKind(k)) \in Nat /\ IsFiniteSet(OfKind(k))
  BY <1>0, CountType, FS_Subset DEF TypeOK, OfKind
<1>5. Cardinality(X) \in Nat /\ Cardinality(H) \in Nat
  BY <1>2, FS_CardinalityType
<1>6. Cardinality(Opened(k)) <= Cardinality(OfKind(k)) + Cardinality(X)
  <2>1. Cardinality(OfKind(k) \cap X) \in Nat
    BY <1>2, FS_Intersection, FS_CardinalityType
  <2>2. Cardinality(OfKind(k) \cup X)
          = Cardinality(OfKind(k)) + Cardinality(X) - Cardinality(OfKind(k) \cap X)
    BY <1>2, <1>4, FS_Union
  <2>3. QED
    BY <1>3, <1>4, <1>5, <2>1, <2>2
<1>7. Cardinality(H) + Cardinality(Dialing(k)) <= Cardinality(Callers) - Cardinality(S)
  <2>1. Cardinality(H \cup Dialing(k)) = Cardinality(H) + Cardinality(Dialing(k)) - 0
    BY <1>1, <1>2, <1>3, FS_Union, FS_EmptySet
  <2>2. H \cup Dialing(k) \subseteq Callers \ S /\ IsFiniteSet(Callers \ S)
    BY <1>1, CallersFinite, FS_Subset
  <2>3. Cardinality(H \cup Dialing(k)) <= Cardinality(Callers \ S)
    BY <2>2, FS_Subset
  <2>4. QED
    BY <1>3, <1>5, <2>1, <2>3, CallersType
<1>8. Cardinality(Callers) \in Nat /\ Cardinality(S) \in Nat
  BY CallersType
<1>9. QED
  BY <1>2, <1>3, <1>4, <1>5, <1>6, <1>7, <1>8 DEF LoadOf

\* When no load grows and nobody takes a first count, everyone has the room he had.
LEMMA LimitStays ==
  ASSUME OwnershipInv, OwnershipInv', LimitInv,
         \A k \in Kinds : LoadOf(k)' <= LoadOf(k),
         Waiting' \subseteq Waiting, \A c \in Waiting' : seen'[c] = seen[c]
  PROVE  LimitInv'
<1>1. /\ \A k \in Kinds : LoadOf(k) \in Nat /\ LoadOf(k)' \in Nat
      /\ "sse" \in Kinds /\ "ws" \in Kinds
      /\ seen \in [Callers -> Nat] /\ Waiting \subseteq Callers
  BY LoadType, LoadTypesNext DEF OwnershipInv, TypeOK, Kinds, Waiting
<1>2. PICK top \in Nat, rank \in [Callers -> Nat] :
         Ranks(rank, top) /\ \A c \in Waiting : SeenKeeps(rank, c)
  BY DEF LimitInv
<1>3. Ranks(rank, top)'
  BY <1>2 DEF Ranks
<1>4. ASSUME NEW c \in Waiting' PROVE SeenKeeps(rank, c)'
  <2>1. c \in Waiting /\ seen'[c] = seen[c] /\ SeenKeeps(rank, c) /\ seen[c] \in Nat
    BY <1>1, <1>2
  <2>2. Longer(rank, c)' \subseteq Longer(rank, c) /\ Longer(rank, c) \subseteq Callers
    BY DEF Longer, Waiting
  <2>3. /\ IsFiniteSet(Longer(rank, c))
        /\ Cardinality(Longer(rank, c)) \in Nat /\ Cardinality(Longer(rank, c)') \in Nat
    BY <2>2, CallersType
  <2>4. Cardinality(Longer(rank, c)') <= Cardinality(Longer(rank, c))
    BY <2>2, <2>3, FS_Subset
  <2>5. Others(rank, c) \in Int /\ Others(rank, c)' \in Int /\ Others(rank, c) <= Others(rank, c)'
    BY <2>3, <2>4, CallersType DEF Others
  <2>6. QED
    BY <1>1, <2>1, <2>5, MaxHandlesIsNat DEF SeenKeeps
<1>5. LoadOf("sse")' + LoadOf("ws")' <= MaxHandles + 2 * (Cardinality(Callers) - 1)
  BY <1>1, CallersType, MaxHandlesIsNat DEF LimitInv
<1>6. QED
  BY <1>2, <1>3, <1>4, <1>5 DEF LimitInv

\* A connect that dials has been counted among the load since it was admitted; nothing
\* else opens a connection.
LEMMA LoadFalls ==
  ASSUME OwnershipInv, OwnershipInv', NEW k \in Kinds,
         Opened(k)' \subseteq Opened(k), Dialing(k)' \subseteq Dialing(k)
  PROVE  LoadOf(k)' <= LoadOf(k)
<1>1. /\ IsFiniteSet(Opened(k)) /\ IsFiniteSet(Dialing(k))
      /\ Cardinality(Opened(k)) \in Nat /\ Cardinality(Opened(k)') \in Nat
      /\ Cardinality(Dialing(k)) \in Nat /\ Cardinality(Dialing(k)') \in Nat
  BY LoadType, LoadTypesNext DEF OwnershipInv
<1>2. /\ Cardinality(Opened(k)') <= Cardinality(Opened(k))
      /\ Cardinality(Dialing(k)') <= Cardinality(Dialing(k))
  BY <1>1, FS_Subset
<1>3. QED
  BY <1>1, <1>2 DEF LoadOf

LEMMA DialLimit ==
  ASSUME OwnershipInv, OwnershipInv', LimitInv, NEW c \in Callers, DialOk(c)
  PROVE  LimitInv'
<1> DEFINE x == [id |-> nextHandle, kind |-> want[c]]
<1>1. /\ x \in Conn /\ held[c] = NoConn /\ want[c] \in Kinds /\ pc[c] = "dial"
      /\ held' = [held EXCEPT ![c] = x] /\ UNCHANGED <<table, seen>>
      /\ held \in [Callers -> Conn \cup {NoConn}]
      /\ pc' = [pc EXCEPT ![c] = "insert"] /\ want' = [want EXCEPT ![c] = "none"]
      /\ pc \in [Callers -> Phases] /\ want \in [Callers -> Kinds \cup {"none"}]
  BY DEF DialOk, Goto, tables, OwnershipInv, PhaseInv, TypeOK, Conn
<1>2. x.kind = want[c]
  OBVIOUS
<1> HIDE DEF x
<1>3. InHand' = InHand \cup {x}
  BY <1>1, HandsGain
<1>4. ASSUME NEW k \in Kinds PROVE LoadOf(k)' <= LoadOf(k)
  <2>1. Dialing(k)' = Dialing(k) \ {c} /\ (c \in Dialing(k) <=> want[c] = k)
    BY <1>1 DEF Dialing
  <2>2. /\ IsFiniteSet(Opened(k)) /\ IsFiniteSet(Dialing(k))
        /\ Cardinality(Opened(k)) \in Nat /\ Cardinality(Dialing(k)) \in Nat
        /\ Cardinality(Opened(k)') \in Nat /\ Cardinality(Dialing(k)') \in Nat
    BY LoadType, LoadTypesNext DEF OwnershipInv
  <2>3. CASE want[c] = k
    <3>1. Opened(k)' = Opened(k) \cup {x}
      BY <1>1, <1>2, <1>3, <2>3 DEF Opened
    <3>2. Cardinality(Opened(k) \cup {x}) <= Cardinality(Opened(k)) + 1
      BY <2>2, AddOne
    <3>3. Cardinality(Dialing(k)') = Cardinality(Dialing(k)) - 1
      BY <2>1, <2>2, <2>3, FS_RemoveElement
    <3>4. QED
      BY <2>2, <3>1, <3>2, <3>3 DEF LoadOf
  <2>4. CASE want[c] # k
    <3>1. Opened(k)' = Opened(k)
      BY <1>1, <1>2, <1>3, <2>4 DEF Opened
    <3>2. QED
      BY <2>1, <3>1, LoadFalls
  <2>5. QED
    BY <2>3, <2>4
<1>5. Waiting' \subseteq Waiting /\ \A d \in Waiting' : seen'[d] = seen[d]
  BY <1>1 DEF Waiting
<1>6. QED
  BY <1>4, <1>5, LimitStays

\* The steps that open nothing and admit nobody.
LEMMA OtherLimit ==
  ASSUME OwnershipInv, OwnershipInv', LimitInv,
         \/ UNCHANGED vars
         \/ \E x \in table : GrowIdle(x)
         \/ \E c \in Callers :
              \/ \E k \in Kinds : Connect(c, k)
              \/ SweepSse(c) \/ SweepWs(c) \/ Refuse(c) \/ DialFail(c) \/ Insert(c) \/ InsertDropped(c)
              \/ PollStep(c) \/ \E x \in issued : Close(c, x)
  PROVE  LimitInv'
<1> USE DEF OwnershipInv
<1>1. \/ UNCHANGED <<table, held, pc, want, seen>>
      \/ \E c \in Callers :
           /\ \A d \in Callers \ {c} : pc'[d] = pc[d] /\ want'[d] = want[d] /\ seen'[d] = seen[d]
           /\ pc'[c] \notin {"countWs", "dial"}
  BY DEF vars, tables, calls, GrowIdle, Connect, SweepSse, SweepWs, Refuse, DialFail, Insert, InsertDropped,
         PollStep, PollTake, PollEvent, PollEnd, Close, Goto, TypeOK
<1>2. /\ Waiting' \subseteq Waiting /\ \A c \in Waiting' : seen'[c] = seen[c]
      /\ \A k \in Kinds : Dialing(k)' \subseteq Dialing(k)
  BY <1>1 DEF Waiting, Dialing
<1>3. table' \cup InHand' \subseteq table \cup InHand
  <2>1. CASE UNCHANGED vars \/ \E x \in table : GrowIdle(x)
    BY <2>1 DEF vars, tables, calls, GrowIdle, InHand
  <2>2. ASSUME NEW c \in Callers,
               (\E k \in Kinds : Connect(c, k)) \/ SweepSse(c) \/ SweepWs(c) \/ Refuse(c)
                 \/ DialFail(c) \/ \E x \in issued : Close(c, x)
        PROVE  table' \subseteq table /\ InHand' = InHand
    BY <2>2 DEF Connect, SweepSse, SweepWs, Sweep, Refuse, DialFail, Close, tables, calls, InHand
  <2>3. ASSUME NEW c \in Callers, Insert(c) \/ InsertDropped(c) \/ PollEvent(c) \/ PollEnd(c)
        PROVE  table' \cup InHand' \subseteq table \cup InHand
    <3>1. held[c] # NoConn /\ held[c] \in InHand
      BY <2>3, NoConnIsNotConn DEF Insert, InsertDropped, PollEvent, PollEnd, PhaseInv, TypeOK, InHand
    <3>2. InHand' = InHand \ {held[c]}
      BY <2>3, <3>1, HandsLose DEF Insert, InsertDropped, PollEvent, PollEnd, TypeOK
    <3>3. QED
      BY <2>3, <3>1, <3>2 DEF Insert, InsertDropped, PollEvent, PollEnd
  <2>4. ASSUME NEW c \in Callers, NEW x \in table, PollTake(c, x)
        PROVE  table' \cup InHand' \subseteq table \cup InHand
    <3>1. held[c] = NoConn /\ x \in Conn
      BY <2>4 DEF PollTake, PhaseInv, TypeOK
    <3>2. InHand' = InHand \cup {x}
      BY <2>4, <3>1, HandsGain DEF PollTake, TypeOK
    <3>3. QED
      BY <2>4, <3>2 DEF PollTake
  <2>5. QED
    BY <2>1, <2>2, <2>3, <2>4 DEF PollStep
<1>4. \A k \in Kinds : Opened(k)' \subseteq Opened(k)
  BY <1>3 DEF Opened
<1>5. \A k \in Kinds : LoadOf(k)' <= LoadOf(k)
  BY <1>2, <1>4, LoadFalls
<1>6. QED
  BY <1>2, <1>5, LimitStays

\* The first count: it misses one connection for each other call, but none for those
\* that wait already.
LEMMA CountLimit ==
  ASSUME OwnershipInv, OwnershipInv', LimitInv, NEW c \in Callers, CountSse(c)
  PROVE  LimitInv'
<1> USE DEF OwnershipInv
<1>1. /\ pc[c] = "countSse" /\ pc' = [pc EXCEPT ![c] = "countWs"]
      /\ seen' = [seen EXCEPT ![c] = Cardinality(OfKind("sse"))]
      /\ UNCHANGED <<table, want, held>>
      /\ pc \in [Callers -> Phases] /\ seen \in [Callers -> Nat]
  BY DEF CountSse, Goto, tables, TypeOK
<1>2. /\ \A k \in Kinds : LoadOf(k) \in Nat /\ LoadOf(k)' = LoadOf(k)
      /\ "sse" \in Kinds /\ "ws" \in Kinds
  <2>1. ASSUME NEW k \in Kinds PROVE Opened(k)' = Opened(k) /\ Dialing(k)' = Dialing(k)
    BY <1>1 DEF Opened, Dialing, InHand
  <2>2. QED
    BY <2>1, LoadType DEF LoadOf, Kinds
<1>3. PICK top \in Nat, rank \in [Callers -> Nat] :
         Ranks(rank, top) /\ \A d \in Waiting : SeenKeeps(rank, d)
  BY DEF LimitInv
<1> DEFINE last == [rank EXCEPT ![c] = top]
<1>4. last \in [Callers -> Nat] /\ last[c] = top /\ \A d \in Callers \ {c} : last[d] = rank[d]
  BY <1>3
<1> HIDE DEF last
<1>5. Waiting' = Waiting \cup {c} /\ c \notin Waiting /\ Waiting \subseteq Callers
  BY <1>1 DEF Waiting
<1>6. \A d \in Callers : rank[d] \in Nat /\ rank[d] < top
  BY <1>3 DEF Ranks
<1>7. Ranks(last, top + 1)'
  <2>1. \A d \in Callers : last[d] < top + 1
    BY <1>4, <1>6
  <2>2. \A d, e \in Waiting' : last[d] = last[e] => d = e
    BY <1>3, <1>4, <1>5, <1>6 DEF Ranks
  <2>3. QED
    BY <2>1, <2>2 DEF Ranks
<1>8. ASSUME NEW d \in Waiting PROVE SeenKeeps(last, d)'
  <2>1. Longer(last, d)' = Longer(rank, d)
    BY <1>4, <1>5, <1>6 DEF Longer
  <2>2. Others(last, d)' = Others(rank, d) /\ seen'[d] = seen[d]
    BY <1>1, <1>5, <2>1 DEF Others
  <2>3. QED
    BY <1>2, <1>3, <2>2 DEF SeenKeeps
<1>9. SeenKeeps(last, c)'
  <2>1. Longer(last, c)' = Waiting
    BY <1>4, <1>5, <1>6 DEF Longer
  <2>2. LoadOf("sse") <= Cardinality(OfKind("sse")) + Cardinality(Callers) - Cardinality(Waiting \cup {c})
    <3>1. \A d \in Waiting \cup {c} : pc[d] \notin {"dial", "insert", "poll"}
      BY <1>1 DEF Waiting
    <3>2. QED
      BY <1>2, <1>5, <3>1, CountMisses
  <2>3. IsFiniteSet(Waiting) /\ Cardinality(Waiting) \in Nat /\ Cardinality(Callers) \in Nat
    BY <1>5, CallersType
  <2>4. Cardinality(Waiting \cup {c}) = Cardinality(Waiting) + 1
    BY <1>5, <2>3, FS_AddElement
  <2>5. Cardinality(OfKind("sse")) \in Nat
    BY CountType
  <2>6. LoadOf("sse") <= Cardinality(OfKind("sse")) + (Cardinality(Callers) - 1 - Cardinality(Waiting))
    BY <1>2, <2>2, <2>3, <2>4, <2>5
  <2>7. Others(last, c)' = Cardinality(Callers) - 1 - Cardinality(Waiting)
    BY <2>1 DEF Others
  <2>8. QED
    BY <1>1, <1>2, <2>6, <2>7 DEF SeenKeeps
<1>10. \A d \in Waiting' : SeenKeeps(last, d)'
  BY <1>5, <1>8, <1>9
<1>11. LoadOf("sse")' + LoadOf("ws")' <= MaxHandles + 2 * (Cardinality(Callers) - 1)
  BY <1>2 DEF LimitInv
<1>12. top + 1 \in Nat
  OBVIOUS
<1>13. QED
  BY <1>4, <1>7, <1>10, <1>11, <1>12 DEF LimitInv

\* What the two counts of the connect that is admitted leave room for, whatever was
\* opened between them.
LEMMA AdmitRoom ==
  ASSUME OwnershipInv, NEW c \in Waiting, NEW rank, SeenKeeps(rank, c),
         \A d \in Callers : rank[d] \in Nat,
         Total(c) < MaxHandles
  PROVE  LoadOf("sse") + LoadOf("ws") + 1 <= MaxHandles + 2 * Others(rank, c)
<1> DEFINE L == Longer(rank, c)
<1>1. /\ c \in Callers /\ L \in SUBSET Callers /\ c \notin L /\ L \cup {c} \in SUBSET Callers
      /\ \A d \in L \cup {c} : pc[d] \notin {"dial", "insert", "poll"}
  BY DEF Longer, Waiting
<1>2. LoadOf("sse") \in Nat /\ LoadOf("ws") \in Nat /\ seen[c] \in Nat
  BY <1>1, LoadType DEF OwnershipInv, TypeOK
<1>3. Cardinality(OfKind("ws")) \in Nat
  BY CountType DEF OwnershipInv
<1>4. /\ Cardinality(Callers) \in Nat /\ Cardinality(L) \in Nat /\ IsFiniteSet(L)
      /\ Others(rank, c) = Cardinality(Callers) - 1 - Cardinality(L)
  BY <1>1, CallersType DEF Others
<1> HIDE DEF L
<1>5. Cardinality(L \cup {c}) = Cardinality(L) + 1
  BY <1>1, <1>4, FS_AddElement
<1>6. LoadOf("ws") <= Cardinality(OfKind("ws")) + Cardinality(Callers) - Cardinality(L \cup {c})
  BY <1>1, CountMisses DEF Kinds
<1>7. seen[c] + Cardinality(OfKind("ws")) < MaxHandles
  BY DEF Total
<1>8. CASE LoadOf("sse") <= seen[c] + Others(rank, c)
  BY <1>2, <1>3, <1>4, <1>5, <1>6, <1>7, <1>8, MaxHandlesIsNat
<1>9. CASE LoadOf("sse") + LoadOf("ws") <= MaxHandles + 2 * (Others(rank, c) - 1)
  BY <1>2, <1>4, <1>9, MaxHandlesIsNat
<1>10. QED
  BY <1>8, <1>9 DEF SeenKeeps

\* A connect that is admitted leaves those that waited longer: they have the room it
\* took, and what is left of its own.  For those that came after it there is one
\* more call that may hide a connection from them.
LEMMA AdmitLimit ==
  ASSUME OwnershipInv, OwnershipInv', LimitInv, NEW c \in Callers, Admit(c)
  PROVE  LimitInv'
<1> USE DEF OwnershipInv
<1>1. /\ pc[c] = "countWs" /\ Total(c) < MaxHandles /\ want[c] \in Kinds
      /\ pc' = [pc EXCEPT ![c] = "dial"] /\ seen' = [seen EXCEPT ![c] = 0]
      /\ UNCHANGED <<table, want, held>>
      /\ pc \in [Callers -> Phases] /\ seen \in [Callers -> Nat]
  BY DEF Admit, Goto, tables, TypeOK, PhaseInv
<1>2. c \in Waiting /\ Waiting' = Waiting \ {c} /\ Waiting \subseteq Callers
  BY <1>1 DEF Waiting
<1>3. PICK top \in Nat, rank \in [Callers -> Nat] :
         Ranks(rank, top) /\ \A d \in Waiting : SeenKeeps(rank, d)
  BY DEF LimitInv
<1>4. \A d \in Callers : rank[d] \in Nat
  BY <1>3
<1>5. LoadOf("sse") + LoadOf("ws") + 1 <= MaxHandles + 2 * Others(rank, c)
  BY <1>1, <1>2, <1>3, <1>4, AdmitRoom
<1>6. /\ \A k \in Kinds : LoadOf(k) \in Nat /\ LoadOf(k)' \in Nat
      /\ "sse" \in Kinds /\ "ws" \in Kinds
  BY LoadType, LoadTypesNext DEF Kinds
<1>7. /\ LoadOf("sse")' + LoadOf("ws")' <= LoadOf("sse") + LoadOf("ws") + 1
      /\ LoadOf("sse")' <= LoadOf("sse") + 1
  <2>1. ASSUME NEW k \in Kinds
        PROVE  Opened(k)' = Opened(k)
               /\ Dialing(k)' = IF want[c] = k THEN Dialing(k) \cup {c} ELSE Dialing(k)
    BY <1>1 DEF Opened, Dialing, InHand
  <2>2. ASSUME NEW k \in Kinds
        PROVE  LoadOf(k)' <= IF want[c] = k THEN LoadOf(k) + 1 ELSE LoadOf(k)
    <3>1. /\ Cardinality(Opened(k)) \in Nat /\ Cardinality(Dialing(k)) \in Nat
          /\ IsFiniteSet(Dialing(k))
      BY LoadType
    <3>2. /\ Cardinality(Dialing(k) \cup {c}) \in Nat
          /\ Cardinality(Dialing(k) \cup {c}) <= Cardinality(Dialing(k)) + 1
      BY <3>1, AddOne
    <3>3. /\ Cardinality(Opened(k)') = Cardinality(Opened(k))
          /\ Cardinality(Dialing(k)') = IF want[c] = k THEN Cardinality(Dialing(k) \cup {c})
                                                      ELSE Cardinality(Dialing(k))
      BY <2>1
    <3>4. QED
      BY <3>1, <3>2, <3>3 DEF LoadOf
  <2>3. QED
    BY <1>1, <1>6, <2>2 DEF Kinds
<1>8. \A d \in Waiting : /\ Longer(rank, d) \in SUBSET Callers
                          /\ IsFiniteSet(Longer(rank, d)) /\ Cardinality(Longer(rank, d)) \in Nat
                          /\ Others(rank, d) \in Int
  <2>1. ASSUME NEW d \in Waiting PROVE Longer(rank, d) \in SUBSET Callers
    BY <1>2 DEF Longer
  <2>2. ASSUME NEW d \in Waiting
        PROVE  IsFiniteSet(Longer(rank, d)) /\ Cardinality(Longer(rank, d)) \in Nat
    BY <2>1, <2>2, CallersType
  <2>3. \A d \in Waiting : Others(rank, d) \in Int
    BY <2>2, CallersType DEF Others
  <2>4. QED
    BY <2>1, <2>2, <2>3
<1>9. Others(rank, c) <= Cardinality(Callers) - 1
  BY <1>2, <1>8, CallersType DEF Others
<1>10. Ranks(rank, top)'
  BY <1>2, <1>3 DEF Ranks
<1>11. ASSUME NEW d \in Waiting' PROVE SeenKeeps(rank, d)'
  <2>1. d \in Waiting /\ d # c /\ d \in Callers /\ seen'[d] = seen[d] /\ seen[d] \in Nat
    BY <1>1, <1>2
  <2>2. rank[d] # rank[c]
    BY <1>2, <1>3, <2>1 DEF Ranks
  <2>3. Longer(rank, d)' = Longer(rank, d) \ {c}
    BY <1>2 DEF Longer
  <2>4. CASE rank[d] < rank[c]
    <3>1. Longer(rank, d)' = Longer(rank, d)
      BY <1>4, <1>2, <2>1, <2>3, <2>4 DEF Longer
    <3>2. Longer(rank, d) \cup {d} \subseteq Longer(rank, c) /\ d \notin Longer(rank, d)
      BY <1>2, <1>4, <2>1, <2>4 DEF Longer
    <3>3. /\ Cardinality(Longer(rank, d) \cup {d}) = Cardinality(Longer(rank, d)) + 1
          /\ Cardinality(Longer(rank, d) \cup {d}) <= Cardinality(Longer(rank, c))
      BY <1>2, <1>8, <2>1, <3>2, FS_AddElement, FS_Subset
    <3>4. Others(rank, d)' = Others(rank, d) /\ Others(rank, c) <= Others(rank, d) - 1
      BY <1>2, <1>8, <2>1, <3>1, <3>3, CallersType DEF Others
    <3>5. LoadOf("sse")' + LoadOf("ws")' <= MaxHandles + 2 * (Others(rank, d)' - 1)
      BY <1>2, <1>5, <1>6, <1>7, <1>8, <2>1, <3>4, MaxHandlesIsNat
    <3>6. QED
      BY <3>5 DEF SeenKeeps
  <2>5. CASE rank[c] < rank[d]
    <3>1. c \in Longer(rank, d)
      BY <1>2, <2>5 DEF Longer
    <3>2. Cardinality(Longer(rank, d)') = Cardinality(Longer(rank, d)) - 1
      BY <1>8, <2>1, <2>3, <3>1, FS_RemoveElement
    <3>3. Others(rank, d)' = Others(rank, d) + 1 /\ Others(rank, d) \in Int
      BY <1>8, <2>1, <3>2, CallersType DEF Others
    <3>4. SeenKeeps(rank, d)
      BY <1>3, <2>1
    <3>5. CASE LoadOf("sse") <= seen[d] + Others(rank, d)
      BY <1>6, <1>7, <2>1, <3>3, <3>5 DEF SeenKeeps
    <3>6. CASE LoadOf("sse") + LoadOf("ws") <= MaxHandles + 2 * (Others(rank, d) - 1)
      BY <1>6, <1>7, <3>3, <3>6, MaxHandlesIsNat DEF SeenKeeps
    <3>7. QED
      BY <3>4, <3>5, <3>6 DEF SeenKeeps
  <2>6. QED
    BY <1>2, <1>4, <2>1, <2>2, <2>4, <2>5
<1>12. LoadOf("sse")' + LoadOf("ws")' <= MaxHandles + 2 * (Cardinality(Callers) - 1)
  BY <1>2, <1>5, <1>6, <1>7, <1>8, <1>9, CallersType, MaxHandlesIsNat
<1>13. QED
  BY <1>3, <1>10, <1>11, <1>12 DEF LimitInv

LEMMA InitLimit == Init => LimitInv
<1> SUFFICES ASSUME Init PROVE LimitInv
  OBVIOUS
<1>1. ASSUME NEW k \in Kinds PROVE LoadOf(k) = 0
  <2>1. Opened(k) = {} /\ Dialing(k) = {}
    BY DEF Init, InHand, Opened, Dialing
  <2>2. QED
    BY <2>1, FS_EmptySet DEF LoadOf
<1>2. LoadOf("sse") = 0 /\ LoadOf("ws") = 0
  BY <1>1 DEF Kinds
<1>3. Waiting = {}
  BY DEF Init, Waiting
<1> DEFINE rank == [c \in Callers |-> 0]
<1>4. rank \in [Callers -> Nat] /\ Ranks(rank, 1)
  BY <1>3 DEF Ranks
<1> HIDE DEF rank
<1>5. \E top \in Nat : \E r \in [Callers -> Nat] :
        Ranks(r, top) /\ \A c \in Waiting : SeenKeeps(r, c)
  BY <1>3, <1>4
<1>6. 0 <= MaxHandles + 2 * (Cardinality(Callers) - 1)
  BY CallersType, MaxHandlesIsNat
<1>7. QED
  BY <1>2, <1>5, <1>6 DEF LimitInv

LEMMA NextLimit ==
  ASSUME OwnershipInv, OwnershipInv', LimitInv, [Next]_vars
  PROVE  LimitInv'
<1>1. ASSUME NEW c \in Callers, ConnectStep(c) PROVE LimitInv'
  BY <1>1, DialLimit, CountLimit, AdmitLimit, OtherLimit DEF ConnectStep
<1>2. ASSUME NEW c \in Callers, PollStep(c) \/ \E x \in issued : Close(c, x) PROVE LimitInv'
  BY <1>2, OtherLimit
<1>3. CASE UNCHANGED vars \/ \E x \in table : GrowIdle(x)
  BY <1>3, OtherLimit
<1>4. QED
  BY <1>1, <1>2, <1>3 DEF Next

LEMMA LimitBounds ==
  ASSUME TypeOK, LimitInv
  PROVE  OvershootBounded
<1>1. table \cup InHand = Opened("sse") \cup Opened("ws")
  <2>1. \A x \in table \cup InHand : x.kind \in Kinds
    BY DEF TypeOK, InHand, Conn
  <2>2. QED
    BY <2>1 DEF Opened, Kinds
<1>2. \A k \in Kinds : /\ IsFiniteSet(Opened(k)) /\ Cardinality(Opened(k)) \in Nat
                       /\ Cardinality(Opened(k)) <= LoadOf(k) /\ LoadOf(k) \in Nat
  BY LoadType DEF LoadOf
<1>3. /\ IsFiniteSet(Opened("sse")) /\ IsFiniteSet(Opened("ws"))
      /\ Cardinality(Opened("sse")) \in Nat /\ Cardinality(Opened("ws")) \in Nat
      /\ Cardinality(Opened("sse")) <= LoadOf("sse") /\ LoadOf("sse") \in Nat
      /\ Cardinality(Opened("ws")) <= LoadOf("ws") /\ LoadOf("ws") \in Nat
  BY <1>2 DEF Kinds
<1>4. Cardinality(Opened("sse") \cap Opened("ws")) \in Nat
  BY <1>3, FS_Intersection, FS_CardinalityType
<1>5. Cardinality(Opened("sse") \cup Opened("ws"))
        = Cardinality(Opened("sse")) + Cardinality(Opened("ws")) - Cardinality(Opened("sse") \cap Opened("ws"))
  BY <1>3, FS_Union
<1>6. Cardinality(Opened("sse") \cup Opened("ws")) <= LoadOf("sse") + LoadOf("ws")
  BY <1>3, <1>4, <1>5
<1>7. Cardinality(Opened("sse") \cup Opened("ws")) \in Int
  BY <1>3, <1>4, <1>5
<1>8. Cardinality(table \cup InHand) = Cardinality(Opened("sse") \cup Opened("ws"))
  BY <1>1
<1>9. QED
  BY <1>3, <1>6, <1>7, <1>8, CallersType, MaxHandlesIsNat DEF LimitInv, OvershootBounded

\* MAX_STREAMING_HANDLES is checked without holding the two maps, so it is no hard
\* limit; but however many connects, polls and closes interleave, the connections that
\* are open outgrow it by two for each other call in progress, and by no more.
THEOREM Overshoot == Spec => []OvershootBounded
<1>1. Init => OwnershipInv /\ LimitInv
  BY InitOwnership, InitLimit
<1>2. OwnershipInv /\ LimitInv /\ [Next]_vars => (OwnershipInv /\ LimitInv)'
  BY NextOwnership, NextLimit
<1>3. OwnershipInv /\ LimitInv => OvershootBounded
  BY LimitBounds DEF OwnershipInv
<1>4. QED
  BY <1>1, <1>2, <1>3, PTL DEF Spec

-----------------------------------------------------------------------------
(***************************************************************************)
(* The Go stream, for any number of goroutines that may call Close and any  *)
(* buffer: every step of it is a step of the handle table, a stream that    *)
(* ends gives its handle back unless a Close met its poll.                 *)
(***************************************************************************)


\* Only the read loop polls, and what it polls is the stream.
PollKeeps ==
  /\ pc[Reader] \in {"ready", "poll"}
  /\ pc[Reader] = "poll" <=> loop = "polling"
  /\ loop = "polling" => held[Reader] = stream
  /\ \A c \in Callers \ {Reader} : pc[c] # "poll"

\* The handle was handed out, and is gone for good when closeOnce found it in the map.
HandleKeeps ==
  /\ stream # NoConn => stream \in issued
  /\ onceDone => stream # NoConn
  /\ onceDone /\ ~raced => stream \notin table /\ loop # "polling"
  /\ loop = "done" => onceDone

CloseKeeps ==
  \A g \in Closers : /\ closing[g] # "idle" => stream # NoConn
                     /\ closing[g] = "returned" => loop = "done"

GoInv == OwnershipInv /\ GoTypeOK /\ PollKeeps /\ HandleKeeps /\ CloseKeeps

-----------------------------------------------------------------------------
\* What a goroutine does in the core is a step of the handle table.
LEMMA GoStepIsTableStep ==
  ASSUME GoInv, [GoNext]_allVars
  PROVE  [Next]_vars
<1>1. /\ App \in Callers /\ Other \in Callers /\ Reader \in Callers /\ Closers \subseteq Callers
      /\ stream # NoConn => stream \in issued
  BY GoCallers DEF GoInv, HandleKeeps
<1>2. CASE Opening
  BY <1>1, <1>2 DEF Opening, Next
<1>3. CASE Elsewhere
  BY <1>1, <1>3 DEF Elsewhere, Next
<1>4. CASE LoopPoll
  BY <1>1, <1>4 DEF LoopPoll, Next, PollStep
<1>5. CASE LoopPollReturns
  BY <1>1, <1>5 DEF LoopPollReturns, LoopEvent, LoopStreamEnds, Next, PollStep
<1>6. ASSUME NEW c \in Callers, CloseHandleOnce(c), stream # NoConn PROVE [Next]_vars
  BY <1>1, <1>6 DEF CloseHandleOnce, Next
<1>7. CASE LoopExit
  <2>1. stream # NoConn
    BY <1>7 DEF LoopExit, GoInv, GoTypeOK
  <2> QED
    BY <2>1, <1>1, <1>6, <1>7 DEF LoopExit
<1>8. ASSUME NEW g \in Closers, CloseOnce(g) PROVE [Next]_vars
  <2>1. stream # NoConn
    BY <1>8 DEF CloseOnce, GoInv, CloseKeeps
  <2> QED
    BY <2>1, <1>1, <1>6, <1>8 DEF CloseOnce
<1>9. CASE CancelContext \/ Receive \/ LoopCheck \/ LoopSend \/ LoopCancelled \/ LoopDrop
  BY <1>9 DEF CancelContext, Receive, LoopCheck, LoopSend, LoopCancelled, LoopDrop
<1>10. ASSUME NEW g \in Closers, CloseBegin(g) \/ CloseReturn(g) PROVE [Next]_vars
  BY <1>10 DEF CloseBegin, CloseReturn
<1>11. CASE UNCHANGED allVars
  BY <1>11 DEF allVars
<1> QED
  BY <1>2, <1>3, <1>4, <1>5, <1>7, <1>8, <1>9, <1>10, <1>11 DEF GoNext, LoopLocal

\* Which connections a step of another caller can put into a map: new ones only.
LEMMA ConnectKeeps ==
  ASSUME OwnershipInv, NEW c \in Callers, ConnectStep(c)
  PROVE  /\ issued \subseteq issued'
         /\ \A x \in issued : x \in table' => x \in table
         /\ \A d \in Callers \ {c} : pc'[d] = pc[d] /\ held'[d] = held[d]
         /\ pc'[c] # "poll" /\ pc[c] # "poll"
         /\ held[c] \in issued' => held[c] \in Conn /\ pc'[c] = "ready"
<1>1. pc \in [Callers -> Phases] /\ held \in [Callers -> Conn \cup {NoConn}]
  BY DEF OwnershipInv, TypeOK
<1>2. CASE Insert(c)
  <2>1. held[c] \notin issued /\ held[c] # NoConn
    BY <1>2 DEF Insert, OwnershipInv, PhaseInv
  <2> QED
    BY <1>1, <1>2, <2>1 DEF Insert, Goto
<1>6. CASE InsertDropped(c)
  <2>1. held[c] \notin issued
    BY <1>6 DEF InsertDropped, OwnershipInv, PhaseInv
  <2> QED
    BY <1>1, <1>6, <2>1 DEF InsertDropped, Goto
<1>7. pc[c] # "insert" => held[c] \notin issued
  BY NoConnIsNotConn DEF OwnershipInv, PhaseInv, TypeOK, ConnectStep, Connect, SweepSse, SweepWs,
     CountSse, Refuse, Admit, DialOk, DialFail, Insert, InsertDropped
<1>3. CASE DialOk(c)
  BY <1>1, <1>3, <1>7 DEF DialOk, Goto, tables
<1>4. CASE SweepSse(c) \/ SweepWs(c)
  BY <1>1, <1>4, <1>7 DEF SweepSse, SweepWs, Sweep, Goto
<1>5. CASE (\E k \in Kinds : Connect(c, k)) \/ CountSse(c) \/ Refuse(c) \/ Admit(c) \/ DialFail(c)
  BY <1>1, <1>5, <1>7 DEF Connect, CountSse, Refuse, Admit, DialFail, Goto, tables
<1> QED
  BY <1>2, <1>3, <1>4, <1>5, <1>6 DEF ConnectStep

-----------------------------------------------------------------------------
LEMMA InitGoInv == GoInit => GoInv
<1> SUFFICES ASSUME GoInit PROVE GoInv
  OBVIOUS
<1>1. OwnershipInv
  BY InitOwnership DEF GoInit
<1>2. Reader \in Callers
  BY GoCallers
<1>3. GoTypeOK
  <2>1. held[Reader] = NoConn
    BY <1>2 DEF GoInit, Init
  <2>2. queued \in 0..Buffer
    BY BufferIsNat DEF GoInit
  <2> QED
    BY <2>1, <2>2 DEF GoInit, GoTypeOK
<1> QED
  BY <1>1, <1>2, <1>3 DEF GoInit, GoInv, Init, PollKeeps, HandleKeeps, CloseKeeps

\* The stream is opened, and another caller connects, sweeps or fails.
LEMMA OpeningGoInv == ASSUME GoInv, Opening, OwnershipInv' PROVE GoInv'
<1>1. /\ stream = NoConn /\ ConnectStep(App)
      /\ IF held[App] \in issued'
         THEN stream' = held[App] /\ loop' = "check"
         ELSE UNCHANGED <<stream, loop>>
      /\ UNCHANGED <<ctxDone, onceDone, closing, queued, polled, raced>>
  BY DEF Opening
<1>2. App \in Callers /\ App # Reader /\ Reader \in Callers
  BY GoCallers
<1>3. /\ issued \subseteq issued'
      /\ \A d \in Callers \ {App} : pc'[d] = pc[d] /\ held'[d] = held[d]
      /\ pc'[App] # "poll"
      /\ held[App] \in issued' => held[App] \in Conn
  BY <1>1, <1>2, ConnectKeeps DEF GoInv
<1>4. /\ loop = "unstarted" /\ ~onceDone /\ polled = NoEvent /\ held[Reader] = NoConn
      /\ \A g \in Closers : closing[g] = "idle"
  BY <1>1 DEF GoInv, GoTypeOK, HandleKeeps, CloseKeeps
<1>5. CASE held[App] \in issued'
  <2>1. stream' \in Conn /\ stream' # NoConn /\ stream' \in issued' /\ loop' = "check"
    BY <1>1, <1>3, <1>5, NoConnIsNotConn
  <2>2. GoTypeOK'
    BY <2>1, <1>1, <1>2, <1>3, <1>4 DEF GoInv, GoTypeOK
  <2>3. PollKeeps' /\ HandleKeeps' /\ CloseKeeps'
    BY <2>1, <1>1, <1>2, <1>3, <1>4 DEF GoInv, PollKeeps, HandleKeeps, CloseKeeps
  <2> QED
    BY <2>2, <2>3 DEF GoInv
<1>6. CASE held[App] \notin issued'
  <2>1. UNCHANGED <<stream, loop>>
    BY <1>1, <1>6
  <2>2. GoTypeOK'
    BY <2>1, <1>1, <1>2, <1>3 DEF GoInv, GoTypeOK
  <2>3. PollKeeps' /\ HandleKeeps' /\ CloseKeeps'
    BY <2>1, <1>1, <1>2, <1>3, <1>4 DEF GoInv, PollKeeps, HandleKeeps, CloseKeeps
  <2> QED
    BY <2>2, <2>3 DEF GoInv
<1> QED
  BY <1>5, <1>6

LEMMA ElsewhereGoInv == ASSUME GoInv, Elsewhere, OwnershipInv' PROVE GoInv'
<1>1. Other \in Callers /\ Other # Reader /\ Reader \in Callers
  BY GoCallers
<1>2. UNCHANGED <<stream, loop, ctxDone, onceDone, closing, queued, polled, raced>>
  BY DEF Elsewhere, goVars
<1>3. /\ issued \subseteq issued' /\ \A x \in issued : x \in table' => x \in table
      /\ \A d \in Callers \ {Other} : pc'[d] = pc[d] /\ held'[d] = held[d]
      /\ pc'[Other] # "poll"
  <2>1. CASE ConnectStep(Other)
    BY <2>1, <1>1, ConnectKeeps DEF GoInv
  <2>2. CASE \E x \in table : GrowIdle(x)
    BY <2>2, <1>1 DEF GrowIdle, calls, GoInv, PollKeeps
  <2> QED
    BY <2>1, <2>2 DEF Elsewhere
<1>4. GoTypeOK'
  BY <1>1, <1>2, <1>3 DEF GoInv, GoTypeOK
<1>5. PollKeeps' /\ HandleKeeps' /\ CloseKeeps'
  BY <1>1, <1>2, <1>3 DEF GoInv, PollKeeps, HandleKeeps, CloseKeeps
<1> QED
  BY <1>4, <1>5 DEF GoInv

\* Steps of Go alone, which do not enter the core.
LEMMA GoAloneGoInv ==
  ASSUME GoInv, OwnershipInv',
         \/ CancelContext \/ Receive \/ LoopCheck \/ LoopSend \/ LoopCancelled \/ LoopDrop
         \/ \E g \in Closers : CloseBegin(g) \/ CloseReturn(g)
  PROVE  GoInv'
<1>1. UNCHANGED <<pc, held, table, issued, stream, onceDone, raced>>
  BY DEF CancelContext, Receive, LoopCheck, LoopSend, LoopCancelled, LoopDrop, CloseBegin, CloseReturn,
         vars, tables, calls
<1>2. /\ loop' \in {"unstarted", "check", "call", "polling", "deliver", "exit", "done"}
      /\ loop = "polling" <=> loop' = "polling"
      /\ loop = "unstarted" <=> loop' = "unstarted"
      /\ loop = "done" <=> loop' = "done"
      /\ polled' \in EventKinds \cup {NoEvent} /\ (polled' # NoEvent <=> loop' = "deliver")
  BY DEF GoInv, GoTypeOK, CancelContext, Receive, LoopCheck, LoopSend, LoopCancelled, LoopDrop,
         CloseBegin, CloseReturn
<1>3. queued' \in 0..Buffer
  BY BufferIsNat DEF GoInv, GoTypeOK, CancelContext, Receive, LoopCheck, LoopSend, LoopCancelled,
     LoopDrop, CloseBegin, CloseReturn
<1>4. ctxDone' \in BOOLEAN
  BY DEF GoInv, GoTypeOK, CancelContext, Receive, LoopCheck, LoopSend, LoopCancelled, LoopDrop,
         CloseBegin, CloseReturn
<1>5. closing' \in [Closers -> {"idle", "once", "wait", "returned"}] /\ CloseKeeps'
  <2>1. CASE closing' = closing
    BY <2>1, <1>1, <1>2 DEF GoInv, GoTypeOK, CloseKeeps
  <2>2. ASSUME NEW g \in Closers, CloseBegin(g) \/ CloseReturn(g)
        PROVE  closing' \in [Closers -> {"idle", "once", "wait", "returned"}] /\ CloseKeeps'
    BY <2>2, <1>1, <1>2 DEF GoInv, GoTypeOK, CloseKeeps, CloseBegin, CloseReturn
  <2>3. CASE CancelContext \/ Receive \/ LoopCheck \/ LoopSend \/ LoopCancelled \/ LoopDrop
    BY <2>1, <2>3 DEF CancelContext, Receive, LoopCheck, LoopSend, LoopCancelled, LoopDrop
  <2> QED
    BY <2>2, <2>3
<1>6. GoTypeOK'
  BY <1>1, <1>2, <1>3, <1>4, <1>5 DEF GoInv, GoTypeOK
<1>7. PollKeeps' /\ HandleKeeps'
  BY <1>1, <1>2 DEF GoInv, PollKeeps, HandleKeeps
<1> QED
  BY <1>5, <1>6, <1>7 DEF GoInv

\* The loop's poll takes the connection out of the map and brings it back, or not.
LEMMA PollGoInv == ASSUME GoInv, LoopPoll \/ LoopPollReturns, OwnershipInv' PROVE GoInv'
<1>1. Reader \in Callers /\ pc \in [Callers -> Phases] /\ held \in [Callers -> Conn \cup {NoConn}]
  BY GoCallers DEF GoInv, OwnershipInv, TypeOK
<1>2. UNCHANGED <<stream, ctxDone, onceDone, closing, queued, raced>>
  BY DEF LoopPoll, LoopPollReturns, LoopEvent, LoopStreamEnds
<1>3. CASE LoopPoll /\ stream \in table
  <2>1. /\ loop = "call" /\ loop' = "polling" /\ polled' = polled /\ issued' = issued
        /\ table' = table \ {stream}
        /\ held' = [held EXCEPT ![Reader] = stream] /\ pc' = [pc EXCEPT ![Reader] = "poll"]
    BY <1>3 DEF LoopPoll, PollTake, Goto
  <2>2. stream # NoConn /\ (onceDone => raced)
    BY <2>1, <1>3 DEF GoInv, GoTypeOK, HandleKeeps
  <2>3. held'[Reader] = stream /\ pc'[Reader] = "poll" /\ \A c \in Callers \ {Reader} : pc'[c] = pc[c]
    BY <2>1, <1>1
  <2>4. GoTypeOK'
    BY <2>1, <2>2, <2>3, <1>2 DEF GoInv, GoTypeOK
  <2>5. PollKeeps' /\ HandleKeeps' /\ CloseKeeps'
    BY <2>1, <2>2, <2>3, <1>2 DEF GoInv, PollKeeps, HandleKeeps, CloseKeeps
  <2> QED
    BY <2>4, <2>5 DEF GoInv
<1>4. CASE LoopPoll /\ stream \notin table
  <2>1. loop = "call" /\ loop' = "exit" /\ polled' = polled /\ UNCHANGED <<pc, held, table, issued>>
    BY <1>4 DEF LoopPoll, vars, tables, calls
  <2>2. GoTypeOK' /\ PollKeeps' /\ HandleKeeps' /\ CloseKeeps'
    BY <2>1, <1>2 DEF GoInv, GoTypeOK, PollKeeps, HandleKeeps, CloseKeeps
  <2> QED
    BY <2>2 DEF GoInv
<1>5. CASE LoopPollReturns
  <2>1. /\ loop = "polling" /\ loop' \in {"deliver", "check", "exit"} /\ issued' = issued
        /\ pc' = [pc EXCEPT ![Reader] = "ready"] /\ held' = [held EXCEPT ![Reader] = NoConn]
    BY <1>5 DEF LoopPollReturns, LoopEvent, LoopStreamEnds, PollEvent, PollEnd, Goto
  <2>2. polled = NoEvent /\ NoEvent \notin EventKinds /\ stream # NoConn /\ (onceDone => raced)
    BY <2>1 DEF GoInv, GoTypeOK, HandleKeeps, EventKinds, NoEvent
  <2>3. polled' \in EventKinds \cup {NoEvent} /\ (polled' # NoEvent <=> loop' = "deliver")
    BY <2>2, <1>5 DEF LoopPollReturns, LoopEvent, LoopStreamEnds
  <2>4. held'[Reader] = NoConn /\ pc'[Reader] = "ready" /\ \A c \in Callers \ {Reader} : pc'[c] = pc[c]
    BY <2>1, <1>1
  <2>5. GoTypeOK'
    BY <2>1, <2>2, <2>3, <2>4, <1>2 DEF GoInv, GoTypeOK
  <2>6. PollKeeps' /\ HandleKeeps' /\ CloseKeeps'
    BY <2>1, <2>2, <2>4, <1>2 DEF GoInv, PollKeeps, HandleKeeps, CloseKeeps
  <2> QED
    BY <2>5, <2>6 DEF GoInv
<1> QED
  BY <1>3, <1>4, <1>5

\* closeOnce, by the loop's deferred function or by a Close.
LEMMA OnceGoInv ==
  ASSUME GoInv, OwnershipInv', LoopExit \/ \E g \in Closers : CloseOnce(g)
  PROVE  GoInv'
<1>1. PICK c \in Callers : CloseHandleOnce(c)
  BY GoCallers DEF LoopExit, CloseOnce
<1>2. stream # NoConn
  BY DEF LoopExit, CloseOnce, GoInv, GoTypeOK, CloseKeeps
<1>3. /\ UNCHANGED <<pc, held, issued>> /\ onceDone' = TRUE
      /\ raced' = (raced \/ (~onceDone /\ loop = "polling"))
      /\ table' \subseteq table
      /\ ~onceDone => stream \notin table'
  BY <1>1 DEF CloseHandleOnce, Close, vars, tables, calls
<1>4. UNCHANGED <<stream, ctxDone, queued, polled>>
  BY DEF LoopExit, CloseOnce
<1>5. /\ loop' = loop \/ (loop = "exit" /\ loop' = "done")
      /\ closing' \in [Closers -> {"idle", "once", "wait", "returned"}]
      /\ \A g \in Closers : closing'[g] = "returned" => closing[g] = "returned"
  BY DEF LoopExit, CloseOnce, GoInv, GoTypeOK
<1>6. raced' \in BOOLEAN /\ (~raced' => ~raced /\ (onceDone \/ loop # "polling"))
  BY <1>3 DEF GoInv, GoTypeOK
<1>7. GoTypeOK'
  BY <1>3, <1>4, <1>5, <1>6 DEF GoInv, GoTypeOK
<1>8. PollKeeps' /\ CloseKeeps'
  BY <1>2, <1>3, <1>4, <1>5 DEF GoInv, PollKeeps, CloseKeeps
<1>9. HandleKeeps'
  BY <1>2, <1>3, <1>4, <1>5, <1>6 DEF GoInv, HandleKeeps
<1> QED
  BY <1>7, <1>8, <1>9 DEF GoInv

-----------------------------------------------------------------------------
LEMMA NextGoInv == GoInv /\ [GoNext]_allVars => GoInv'
<1> SUFFICES ASSUME GoInv, [GoNext]_allVars PROVE GoInv'
  OBVIOUS
<1>1. OwnershipInv'
  BY GoStepIsTableStep, NextOwnership DEF GoInv
<1>2. CASE Opening \/ Elsewhere
  BY <1>1, <1>2, OpeningGoInv, ElsewhereGoInv
<1>3. CASE LoopPoll \/ LoopPollReturns
  BY <1>1, <1>3, PollGoInv
<1>4. CASE \/ CancelContext \/ Receive \/ LoopCheck \/ LoopSend \/ LoopCancelled \/ LoopDrop
           \/ \E g \in Closers : CloseBegin(g) \/ CloseReturn(g)
  BY <1>1, <1>4, GoAloneGoInv
<1>5. CASE LoopExit \/ \E g \in Closers : CloseOnce(g)
  BY <1>1, <1>5, OnceGoInv
<1>6. CASE UNCHANGED allVars
  BY <1>6 DEF GoInv, GoTypeOK, PollKeeps, HandleKeeps, CloseKeeps, allVars, goVars, vars, tables, calls,
              OwnershipInv, TypeOK, PhaseInv, NumberInv, ExclusiveOwnership, HandleNamesOneConnection,
              InHand
<1> QED
  BY <1>2, <1>3, <1>4, <1>5, <1>6 DEF GoNext, LoopLocal

\* The inductive invariant of a Go stream over the handle table.
THEOREM GoInvariant == GoSafetySpec => []GoInv
<1> QED
  BY InitGoInv, NextGoInv, PTL DEF GoSafetySpec

\* transport_shared.go on the core: everything a Go stream does to the handle table is
\* what the table's own specification allows its callers.
THEOREM TableImplemented == GoSafetySpec => Spec
<1>1. GoInv /\ [GoNext]_allVars => [Next]_vars
  BY GoStepIsTableStep
<1> QED
  BY <1>1, GoInvariant, PTL DEF GoSafetySpec, GoInit, Spec

\* The types of the stream's lifecycle, its read loop and its closers.
THEOREM GoTypeCorrect == GoSafetySpec => []GoTypeOK
<1>1. GoInv => GoTypeOK
  BY DEF GoInv
<1> QED
  BY <1>1, GoInvariant, PTL

\* runStreamReadLoop: a stream that is over has released its handle, unless closeOnce was
\* spent while the loop's own poll had the connection.
THEOREM HandleReleased == GoSafetySpec => []ReleasedUnlessRaced
<1>1. GoInv => ReleasedUnlessRaced
  BY DEF GoInv, HandleKeeps, ReleasedUnlessRaced
<1> QED
  BY <1>1, GoInvariant, PTL
================================================================================
