------------------------- MODULE MediatorJournalProofs -------------------------
(***************************************************************************)
(* Proofs about the mediator's journal, for any number of workers, jobs    *)
(* and requests, with any number of crashes.                               *)
(*                                                                         *)
(* JournalInv is inductive: what a worker has in its hands is tied to the  *)
(* row of its job (WorkerInv), the primary key keeps a second buyer out    *)
(* (OneBuyer), and a row tells the truth about the purchase and about the  *)
(* server (RowInv).  The refinement of CompletionLedger follows from it.   *)
(***************************************************************************)
EXTENDS MediatorJournal, FiniteSetTheorems, TLAPS

LEMMA InitJournal == Init => JournalInv
<1>1. Init => TypeOK
  BY NoRowIsNotRow DEF Init, TypeOK, Phases
<1>2. Init => Rows = {}
  BY DEF Init, Rows
<1>3. QED
  BY <1>1, <1>2
     DEF Init, JournalInv, WorkerInv, HandsInv, OneBuyer, RowInv, MarkedWasAnswered, Recorded

\* The number a new row gets.
LEMMA RowIdType == Cardinality(Rows) \in Nat
BY JobsFinite, FS_Subset, FS_CardinalityType DEF Rows

\* The steps that leave the table, the provider and the server alone.
Quiet == UNCHANGED <<journal, purchases, received, answered>>

LEMMA QuietStep ==
  ASSUME JournalInv, NEW w \in Workers, Quiet,
         NEW p \in Phases \ {"buy", "record", "acknowledge"}, NEW r, NEW S \in SUBSET Jobs,
         pc' = [pc EXCEPT ![w] = p],
         current' = [current EXCEPT ![w] = r],
         pending' = [pending EXCEPT ![w] = S],
         \A j \in S : Recorded(j),
         p \in {"down", "waiting"} => r = NoReply,
         p \in {"reserve", "submit"} => r \in Reply,
         p = "submit" => Recorded(r.job) /\ r = Saved(r.job)
  PROVE  JournalInv'
<1> USE DEF JournalInv, Quiet
<1>1. Rows' = Rows /\ \A j : Recorded(j)' = Recorded(j) /\ Saved(j)' = Saved(j)
  BY DEF Rows, Recorded, Saved
<1>2. TypeOK'
  BY NoReplyIsNotReply DEF TypeOK, Phases
<1>3. ASSUME NEW v \in Workers PROVE HandsInv(v)'
  <2>1. CASE v = w
    BY <1>1, <2>1, NoReplyIsNotReply DEF WorkerInv, HandsInv, TypeOK, Phases
  <2>2. CASE v # w
    BY <1>1, <2>2 DEF WorkerInv, HandsInv, TypeOK
  <2>3. QED
    BY <2>1, <2>2
<1>4. OneBuyer'
  BY DEF OneBuyer, TypeOK
<1>5. RowInv' /\ MarkedWasAnswered'
  BY <1>1 DEF RowInv, MarkedWasAnswered
<1>6. QED
  BY <1>2, <1>3, <1>4, <1>5 DEF WorkerInv

\* What a worker that is at work has in its hands.
LEMMA HandsType ==
  ASSUME JournalInv, NEW w \in Workers, pc[w] \notin {"down", "waiting"}
  PROVE  \E r \in Reply : r = current[w] /\ r.job \in Jobs /\ r.digest \in Digests
<1>1. current[w] \in Reply
  BY DEF JournalInv, TypeOK, WorkerInv, HandsInv
<1>2. QED
  BY <1>1 DEF Reply

\* A worker past its INSERT finds its job in the table.
LEMMA BusyRow ==
  ASSUME JournalInv, NEW w \in Workers, pc[w] \notin {"down", "waiting", "reserve"}
  PROVE  current[w].job \in Rows
<1>1. pc[w] \in {"buy", "record"} \/ pc[w] \in {"submit", "acknowledge"}
  BY DEF JournalInv, TypeOK, Phases
<1>2. HandsInv(w)
  BY DEF JournalInv, WorkerInv
<1>3. QED
  BY <1>1, <1>2 DEF HandsInv, Recorded

LEMMA SavedType ==
  ASSUME TypeOK, NEW j \in Jobs, Recorded(j)
  PROVE  Saved(j) \in Reply /\ Saved(j).job = j
<1>1. journal[j] \in Row
  BY DEF TypeOK, Recorded, Rows
<1>2. QED
  BY <1>1 DEF Saved, Reply, Row

\* Starting, dying, and taking up a job: nothing outside the worker changes.
LEMMA LocalStep ==
  ASSUME JournalInv, NEW w \in Workers,
         \/ Start(w) \/ Crash(w) \/ ReserveConflict(w)
         \/ \E j \in Jobs, d \in Digests : HandleJob(w, j, d)
  PROVE  JournalInv'
<1> USE DEF Quiet, Proceed, Drop
<1>1. CASE Start(w)
  <2>1. pending' = [pending EXCEPT ![w] = pending[w]] /\ pending[w] \in SUBSET Jobs
    BY <1>1 DEF Start, JournalInv, TypeOK
  <2>2. \A j \in pending[w] : Recorded(j)
    BY DEF JournalInv, WorkerInv, HandsInv
  <2>3. QED
    BY <1>1, <2>1, <2>2, QuietStep DEF Start, Phases
<1>2. CASE Crash(w)
  BY <1>2, QuietStep DEF Crash, Phases
<1>3. CASE ReserveConflict(w)
  BY <1>3, QuietStep DEF ReserveConflict, Phases
<1>4. ASSUME NEW j \in Jobs, NEW d \in Digests, HandleJob(w, j, d)
      PROVE  JournalInv'
  <2>1. pending[w] \in SUBSET Jobs /\ \A k \in pending[w] : Recorded(k)
    BY DEF JournalInv, TypeOK, WorkerInv, HandsInv
  <2>2. pending' = [pending EXCEPT ![w] = pending[w]] \/ pending' = [pending EXCEPT ![w] = {}]
    BY <1>4 DEF HandleJob, TakeNew, TakeKnown, TakeRefused, JournalInv, TypeOK
  <2>3. CASE TakeNew(w, j, d)
    <3>1. [job |-> j, digest |-> d, answer |-> NoAnswer] \in Reply
      BY DEF Reply
    <3>2. QED
      BY <2>1, <2>3, <3>1, QuietStep DEF TakeNew, Phases, JournalInv, TypeOK
  <2>4. CASE TakeKnown(w, j, d)
    <3>1. [job |-> j, digest |-> d, answer |-> journal[j].response] = Saved(j)
      BY <2>4 DEF TakeKnown, Saved
    <3>2. Saved(j) \in Reply /\ Saved(j).job = j
      BY <2>4 DEF TakeKnown, Recorded, Rows, Saved, Reply, JournalInv, TypeOK, Row
    <3>3. QED
      BY <2>1, <2>4, <3>1, <3>2, QuietStep DEF TakeKnown, Phases, JournalInv, TypeOK
  <2>5. CASE TakeRefused(w, j, d)
    BY <2>5, QuietStep DEF TakeRefused, Phases
  <2>6. QED
    BY <1>4, <2>3, <2>4, <2>5 DEF HandleJob
<1>5. QED
  BY <1>1, <1>2, <1>3, <1>4

LEMMA ConnectedStep ==
  ASSUME JournalInv, NEW w \in Workers, Connected(w)
  PROVE  JournalInv'
<1>1. PICK j \in Unsent : /\ pending' = [pending EXCEPT ![w] = Unsent \ {j}]
                         /\ Proceed(w, "submit", Saved(j))
  BY DEF Connected, SendAll
<1>2. \A k \in Unsent : k \in Jobs /\ Recorded(k)
  BY DEF Unsent
<1>3. Unsent \ {j} \in SUBSET Jobs /\ \A k \in Unsent \ {j} : Recorded(k)
  BY <1>2
<1>4. PICK r \in Reply : r = Saved(j) /\ r.job = j
  BY <1>2, SavedType DEF JournalInv
<1>5. Recorded(r.job) /\ r = Saved(r.job)
  BY <1>2, <1>4
<1>6. QED
  BY <1>1, <1>3, <1>4, <1>5, QuietStep DEF Connected, Proceed, Quiet, Phases

\* The other jobs keep their rows: what is said of them stays true.
LEMMA OtherRows ==
  ASSUME NEW n \in Jobs, \A j \in Jobs \ {n} : journal'[j] = journal[j]
  PROVE  \A j \in Jobs \ {n} : /\ j \in Rows' <=> j \in Rows
                               /\ Recorded(j)' <=> Recorded(j)
                               /\ Saved(j)' = Saved(j)
BY DEF Rows, Recorded, Saved

LEMMA ReserveStep ==
  ASSUME JournalInv, NEW w \in Workers, Reserve(w)
  PROVE  JournalInv'
<1> USE DEF JournalInv
<1>1. PICK r \in Reply : r = current[w] /\ r.job \in Jobs /\ r.digest \in Digests
  BY HandsType DEF Reserve
<1> DEFINE n == r.job
<1> DEFINE row == [digest |-> r.digest, response |-> NoAnswer, submitted |-> FALSE,
                   rowid |-> Cardinality(Rows)]
<1>2. journal' = [journal EXCEPT ![n] = row] /\ journal'[n] = row
  <2>1. journal' = [journal EXCEPT ![n] = row]
    BY <1>1 DEF Reserve
  <2>2. QED
    BY <1>1, <2>1 DEF TypeOK
<1>3. journal'[n] \in Row /\ n \notin Rows /\ n \in Rows' /\ ~Recorded(n) /\ ~Recorded(n)'
  <2>1. row \in Row /\ row.response = NoAnswer
    BY <1>1, RowIdType DEF Row
  <2>2. n \notin Rows
    BY <1>1 DEF Reserve
  <2>3. QED
    BY <1>1, <1>2, <2>1, <2>2, NoRowIsNotRow DEF Rows, Recorded
<1>4. \A j \in Jobs \ {n} : journal'[j] = journal[j]
  BY <1>2 DEF TypeOK
<1>5. \A j \in Jobs : Recorded(j)' <=> Recorded(j)
  BY <1>1, <1>3, <1>4, OtherRows
<1>6. TypeOK'
  <2>1. journal' \in [Jobs -> Row \cup {NoRow}]
    BY <1>1, <1>3, <1>4 DEF Reserve, TypeOK
  <2>2. QED
    BY <1>1, <2>1 DEF Reserve, Proceed, TypeOK, Phases
<1>7. ASSUME NEW v \in Workers PROVE HandsInv(v)'
  <2>1. CASE v = w
    <3>1. pc'[w] = "buy" /\ current'[w] = r /\ purchases'[n] = 0 /\ r # NoReply
      BY <1>1, <1>3, NoReplyIsNotReply DEF Reserve, Proceed, TypeOK, RowInv
    <3>2. \A j \in pending'[w] : Recorded(j)'
      BY <1>1, <1>5 DEF Reserve, TypeOK, WorkerInv, HandsInv
    <3>3. QED
      BY <1>2, <1>3, <2>1, <3>1, <3>2 DEF HandsInv
  <2>2. CASE v # w
    <3>1. pc'[v] = pc[v] /\ current'[v] = current[v] /\ pending'[v] = pending[v]
      BY <2>2 DEF Reserve, Proceed, TypeOK
    <3>2. CASE pc[v] \in {"down", "waiting"}
      BY <1>5, <3>1, <3>2 DEF WorkerInv, HandsInv, Reserve, TypeOK
    <3>3. CASE pc[v] \notin {"down", "waiting"}
      <4>1. PICK q \in Reply : q = current[v] /\ q.job \in Jobs
        BY <3>3, HandsType
      <4>2. CASE pc[v] = "reserve"
        BY <1>5, <3>1, <4>1, <4>2 DEF WorkerInv, HandsInv, Reserve, TypeOK
      <4>3. CASE pc[v] # "reserve"
        <5>1. q.job \in Jobs \ {n}
          BY <1>3, <3>3, <4>1, <4>3, BusyRow
        <5>2. /\ q.job \in Rows' <=> q.job \in Rows
              /\ Recorded(q.job)' <=> Recorded(q.job)
              /\ Saved(q.job)' = Saved(q.job)
              /\ journal'[q.job] = journal[q.job]
          BY <1>1, <1>4, <5>1, OtherRows
        <5>3. HandsInv(v)
          BY DEF WorkerInv
        <5>4. \A j \in pending[v] : Recorded(j)'
          BY <1>5, <5>3 DEF HandsInv, TypeOK
        <5>5. QED
          BY <3>1, <4>1, <5>2, <5>3, <5>4 DEF HandsInv, Reserve
      <4>4. QED
        BY <4>2, <4>3
    <3>4. QED
      BY <3>2, <3>3
  <2>3. QED
    BY <2>1, <2>2
<1>8. OneBuyer'
  <2>1. \A v \in Workers : pc[v] \in {"buy", "record"} => current[v].job # n
    BY <1>3 DEF WorkerInv, HandsInv
  <2>2. QED
    BY <1>1, <2>1 DEF OneBuyer, TypeOK, Reserve, Proceed
<1>9. RowInv'
  <2>1. \A a \in received[n] : FALSE
    BY <1>1, <1>3 DEF RowInv
  <2>2. QED
    BY <1>1, <1>3, <1>4, <1>5, <2>1, OtherRows DEF RowInv, Reserve
<1>10. MarkedWasAnswered'
  BY <1>2, <1>4, OtherRows DEF MarkedWasAnswered, Reserve, Rows
<1>11. QED
  BY <1>6, <1>7, <1>8, <1>9, <1>10 DEF WorkerInv

\* A worker that does not step keeps its invariant when what is recorded stays
\* recorded, what the server has stays there, and nobody touches the row or the
\* purchase of a job it is buying.
LEMMA OtherHands ==
  ASSUME JournalInv, NEW v \in Workers,
         pc'[v] = pc[v], current'[v] = current[v], pending'[v] = pending[v],
         \A j \in Jobs : Recorded(j) => Recorded(j)' /\ Saved(j)' = Saved(j),
         \A j \in Jobs : answered[j] \subseteq answered'[j],
         pc[v] \in {"buy", "record"} =>
           /\ journal'[current[v].job] = journal[current[v].job]
           /\ purchases'[current[v].job] = purchases[current[v].job]
  PROVE  HandsInv(v)'
<1>1. HandsInv(v) /\ pc[v] \in Phases /\ pending[v] \in SUBSET Jobs
  BY DEF JournalInv, WorkerInv, TypeOK
<1>2. \A j \in pending'[v] : Recorded(j)'
  BY <1>1 DEF HandsInv
<1>3. CASE pc[v] \in {"down", "waiting", "reserve"}
  BY <1>1, <1>2, <1>3 DEF HandsInv
<1>4. CASE pc[v] \notin {"down", "waiting", "reserve"}
  <2>1. PICK q \in Reply : q = current[v] /\ q.job \in Jobs
    BY <1>4, HandsType
  <2>2. CASE pc[v] \in {"buy", "record"}
    <3>1. q.job \in Rows' /\ ~Recorded(q.job)'
      BY <1>1, <2>1, <2>2 DEF HandsInv, Rows, Recorded
    <3>2. QED
      BY <1>1, <1>2, <2>1, <2>2, <3>1 DEF HandsInv
  <2>3. CASE pc[v] \in {"submit", "acknowledge"}
    BY <1>1, <1>2, <2>1, <2>3 DEF HandsInv
  <2>4. QED
    BY <1>1, <1>4, <2>2, <2>3 DEF Phases
<1>5. QED
  BY <1>3, <1>4

\* The provider has sold a completion to w, which then has it or has died.
LEMMA PurchaseStep ==
  ASSUME JournalInv, NEW w \in Workers, Purchase(w) \/ PurchaseLost(w)
  PROVE  JournalInv'
<1> USE DEF JournalInv
<1>1. PICK r \in Reply : r = current[w] /\ r.job \in Jobs /\ r.digest \in Digests
  BY HandsType DEF Purchase, PurchaseLost
<1> DEFINE n == r.job
           bought == [r EXCEPT !.answer = [job |-> n, digest |-> r.digest]]
<1>2. UNCHANGED <<journal, received, answered>> /\ purchases' = [purchases EXCEPT ![n] = @ + 1]
  BY <1>1 DEF Purchase, PurchaseLost
<1>3. Rows' = Rows /\ \A j : Recorded(j)' = Recorded(j) /\ Saved(j)' = Saved(j)
  BY <1>2 DEF Rows, Recorded, Saved
<1>4. n \in Rows /\ ~Recorded(n) /\ journal[n].digest = r.digest /\ purchases[n] = 0
  BY <1>1 DEF Purchase, PurchaseLost, WorkerInv, HandsInv
<1>5. purchases'[n] = 1 /\ \A j \in Jobs \ {n} : purchases'[j] = purchases[j]
  BY <1>1, <1>2, <1>4 DEF TypeOK
<1>6. bought \in Reply /\ bought.job = n /\ bought.digest = r.digest
        /\ bought.answer = [job |-> n, digest |-> r.digest]
  BY <1>1 DEF Reply, Answer
<1>7. TypeOK'
  <2>1. purchases' \in [Jobs -> Nat]
    BY <1>1, <1>2, <1>4 DEF TypeOK
  <2>2. QED
    BY <1>1, <1>2, <1>6, <2>1 DEF Purchase, PurchaseLost, Proceed, Drop, TypeOK, Phases
<1>8. ASSUME NEW v \in Workers PROVE HandsInv(v)'
  <2>1. CASE v = w /\ Purchase(w)
    <3>1. pc'[w] = "record" /\ current'[w] = bought /\ pending'[w] = pending[w]
      BY <1>1, <2>1 DEF Purchase, Proceed, TypeOK
    <3>2. \A j \in pending[w] : Recorded(j)
      BY DEF WorkerInv, HandsInv
    <3>3. QED
      BY <1>2, <1>3, <1>4, <1>5, <1>6, <2>1, <3>1, <3>2 DEF HandsInv
  <2>2. CASE v = w /\ PurchaseLost(w)
    BY <2>2 DEF PurchaseLost, Drop, TypeOK, HandsInv
  <2>3. CASE v # w
    <3>1. pc'[v] = pc[v] /\ current'[v] = current[v] /\ pending'[v] = pending[v]
      BY <2>3 DEF Purchase, PurchaseLost, Proceed, Drop, TypeOK
    <3>2. pc[v] \in {"buy", "record"} => current[v].job \in Jobs \ {n}
      <4> HAVE pc[v] \in {"buy", "record"}
      <4>1. PICK q \in Reply : q = current[v] /\ q.job \in Jobs
        BY HandsType
      <4>2. q.job # n
        BY <1>1, <2>3, <4>1 DEF OneBuyer, Purchase, PurchaseLost
      <4>3. QED
        BY <4>1, <4>2
    <3>3. QED
      BY <1>2, <1>3, <1>5, <3>1, <3>2, OtherHands
  <2>4. QED
    BY <2>1, <2>2, <2>3
<1>9. OneBuyer'
  <2>1. ASSUME NEW v \in Workers, pc'[v] \in {"buy", "record"}
        PROVE  pc[v] \in {"buy", "record"} /\ current'[v].job = current[v].job
    <3>1. CASE v = w
      BY <1>1, <1>6, <2>1, <3>1 DEF Purchase, PurchaseLost, Proceed, Drop, TypeOK
    <3>2. CASE v # w
      BY <2>1, <3>2 DEF Purchase, PurchaseLost, Proceed, Drop, TypeOK
    <3>3. QED
      BY <3>1, <3>2
  <2>2. QED
    BY <2>1 DEF OneBuyer
<1>10. RowInv'
  BY <1>2, <1>3, <1>4, <1>5 DEF RowInv
<1>11. MarkedWasAnswered'
  BY <1>2, <1>3 DEF MarkedWasAnswered
<1>12. QED
  BY <1>7, <1>8, <1>9, <1>10, <1>11 DEF WorkerInv

\* The two UPDATE statements change one column.
LEMMA UpdatedRow ==
  ASSUME NEW row \in Row
  PROVE  /\ \A a \in Answer : [row EXCEPT !.response = a] =
              [digest |-> row.digest, response |-> a, submitted |-> row.submitted, rowid |-> row.rowid]
         /\ [row EXCEPT !.submitted = TRUE] =
              [digest |-> row.digest, response |-> row.response, submitted |-> TRUE, rowid |-> row.rowid]
<1>1. ASSUME NEW a \in Answer
      PROVE  [row EXCEPT !.response = a] =
               [digest |-> row.digest, response |-> a, submitted |-> row.submitted, rowid |-> row.rowid]
  BY DEF Row
<1>2. ASSUME NEW b \in BOOLEAN
      PROVE  [row EXCEPT !.submitted = b] =
               [digest |-> row.digest, response |-> row.response, submitted |-> b, rowid |-> row.rowid]
  BY DEF Row
<1>3. QED
  BY <1>1, <1>2

LEMMA RecordStep ==
  ASSUME JournalInv, NEW w \in Workers, Record(w)
  PROVE  JournalInv'
<1> USE DEF JournalInv
<1>1. PICK r \in Reply : r = current[w] /\ r.job \in Jobs /\ r.digest \in Digests
  BY HandsType DEF Record
<1> DEFINE n == r.job
<1>2. /\ n \in Rows /\ ~Recorded(n) /\ journal[n].digest = r.digest
      /\ purchases[n] = 1 /\ r.answer = [job |-> n, digest |-> r.digest]
  BY <1>1 DEF Record, WorkerInv, HandsInv
<1>3. journal[n] \in Row
  BY <1>1, <1>2 DEF TypeOK, Rows
<1> DEFINE row == [digest |-> journal[n].digest, response |-> r.answer,
                   submitted |-> journal[n].submitted, rowid |-> journal[n].rowid]
<1>4. row \in Row /\ [journal[n] EXCEPT !.response = r.answer] = row
  <2>1. r.answer \in Answer
    BY <1>1, <1>2 DEF Answer
  <2>2. row \in Row
    BY <1>3, <2>1 DEF Row
  <2>3. QED
    BY <1>3, <2>1, <2>2, UpdatedRow
<1>5. journal' = [journal EXCEPT ![n] = row] /\ UNCHANGED <<purchases, received, answered, pending>>
  BY <1>1, <1>4 DEF Record
<1>6. journal'[n] = row /\ \A j \in Jobs \ {n} : journal'[j] = journal[j]
  BY <1>1, <1>5 DEF TypeOK
<1>7. n \in Rows' /\ Recorded(n)' /\ Saved(n)' = r
  <2>1. n \in Rows'
    BY <1>1, <1>4, <1>6, NoRowIsNotRow DEF Rows
  <2>2. r.answer \in Answer
    BY <1>1, <1>2 DEF Answer
  <2>3. Recorded(n)'
    BY <1>4, <1>6, <2>1, <2>2, NoAnswerIsNotAnswer DEF Recorded
  <2>4. r = [job |-> n, digest |-> r.digest, answer |-> r.answer]
    BY DEF Reply
  <2>5. QED
    BY <1>2, <1>6, <2>1, <2>3, <2>4 DEF Saved
<1>8. TypeOK'
  <2>1. journal' \in [Jobs -> Row \cup {NoRow}]
    BY <1>1, <1>4, <1>5 DEF TypeOK
  <2>2. QED
    BY <1>1, <1>5, <2>1 DEF Record, Proceed, TypeOK, Phases
<1>9. ASSUME NEW v \in Workers PROVE HandsInv(v)'
  <2>1. \A j \in Jobs : Recorded(j) => Recorded(j)' /\ Saved(j)' = Saved(j)
    BY <1>1, <1>2, <1>6, OtherRows
  <2>2. CASE v = w
    <3>1. pc'[w] = "submit" /\ current'[w] = r /\ pending'[w] = pending[w]
      BY <1>1, <1>5 DEF Record, Proceed, TypeOK
    <3>2. \A j \in pending[w] : Recorded(j)'
      BY <2>1 DEF WorkerInv, HandsInv, TypeOK
    <3>3. QED
      BY <1>7, <2>2, <3>1, <3>2 DEF HandsInv
  <2>3. CASE v # w
    <3>1. pc'[v] = pc[v] /\ current'[v] = current[v] /\ pending'[v] = pending[v]
      BY <1>5, <2>3 DEF Record, Proceed, TypeOK
    <3>2. pc[v] \in {"buy", "record"} => current[v].job \in Jobs \ {n}
      <4> HAVE pc[v] \in {"buy", "record"}
      <4>1. PICK q \in Reply : q = current[v] /\ q.job \in Jobs
        BY HandsType
      <4>2. q.job # n
        BY <1>1, <2>3, <4>1 DEF OneBuyer, Record
      <4>3. QED
        BY <4>1, <4>2
    <3>3. QED
      BY <1>5, <1>6, <2>1, <3>1, <3>2, OtherHands
  <2>4. QED
    BY <2>2, <2>3
<1>10. OneBuyer'
  BY <1>1 DEF OneBuyer, Record, Proceed, TypeOK
<1>11. RowInv'
  <2>1. \A a \in received[n] : FALSE
    BY <1>1, <1>2 DEF RowInv
  <2>2. ASSUME NEW j \in Jobs \ {n}
        PROVE  /\ j \notin Rows' => purchases'[j] = 0
               /\ Recorded(j)' => /\ purchases'[j] = 1
                                  /\ journal'[j].response = [job |-> j, digest |-> journal'[j].digest]
               /\ \A a \in received'[j] : Recorded(j)' /\ a = journal'[j].response
    BY <1>1, <1>5, <1>6, OtherRows DEF RowInv
  <2>3. journal'[n].response = [job |-> n, digest |-> journal'[n].digest]
    BY <1>2, <1>4, <1>6
  <2>4. QED
    BY <1>2, <1>5, <1>7, <2>1, <2>2, <2>3 DEF RowInv
<1>12. MarkedWasAnswered'
  <2>1. ~journal'[n].submitted
    BY <1>1, <1>2, <1>4, <1>6, NoAnswerIsNotAnswer DEF MarkedWasAnswered, Recorded, TypeOK
  <2>2. QED
    BY <1>1, <1>5, <1>6, <2>1, OtherRows DEF MarkedWasAnswered, Rows
<1>13. QED
  BY <1>8, <1>9, <1>10, <1>11, <1>12 DEF WorkerInv

\* The server has the reply, or has refused it, and w goes on or dies.
LEMMA SubmitStep ==
  ASSUME JournalInv, NEW w \in Workers,
         SubmitFails(w) \/ \E j \in Jobs : SubmitOk(w, j)
  PROVE  JournalInv'
<1> USE DEF JournalInv
<1>1. PICK r \in Reply : r = current[w] /\ r.job \in Jobs /\ r.digest \in Digests
  BY HandsType DEF SubmitFails, SubmitOk
<1> DEFINE n == r.job
<1>2. UNCHANGED <<journal, purchases>>
  BY DEF SubmitFails, SubmitOk
<1>3. Rows' = Rows /\ \A j : Recorded(j)' = Recorded(j) /\ Saved(j)' = Saved(j)
  BY <1>2 DEF Rows, Recorded, Saved
<1>4. Recorded(n) /\ r.answer = journal[n].response
  <2>1. Recorded(n) /\ r = Saved(n)
    BY <1>1 DEF SubmitFails, SubmitOk, WorkerInv, HandsInv
  <2>2. QED
    BY <2>1 DEF Saved
<1>5. received' = received \/ received' = [received EXCEPT ![n] = @ \cup {r.answer}]
  BY <1>1 DEF SubmitFails, SubmitOk, Accept
<1>6. r.answer \in Answer
  BY <1>1, <1>4 DEF Recorded, Reply
<1>7. \/ UNCHANGED answered
      \/ answered' = [answered EXCEPT ![n] = @ \cup {r.answer}]
  BY <1>1 DEF SubmitFails, SubmitOk
<1>14. \A j \in Jobs : answered[j] \subseteq answered'[j]
  BY <1>1, <1>7 DEF TypeOK
<1>8. TypeOK'
  <2>1. received' \in [Jobs -> SUBSET Answer]
    BY <1>1, <1>5, <1>6 DEF TypeOK
  <2>2. answered' \in [Jobs -> SUBSET Answer]
    BY <1>1, <1>6, <1>7 DEF TypeOK
  <2>3. QED
    BY <1>1, <1>2, <2>1, <2>2 DEF SubmitFails, SubmitOk, Proceed, Drop, TypeOK, Phases
<1>9. ASSUME NEW v \in Workers PROVE HandsInv(v)'
  <2>1. CASE v = w /\ SubmitFails(w)
    BY <2>1 DEF SubmitFails, Drop, TypeOK, HandsInv
  <2>2. CASE v = w /\ \E j \in Jobs : SubmitOk(w, j)
    <3>1. pc'[w] = "acknowledge" /\ current'[w] = r /\ pending'[w] = pending[w]
      BY <1>1, <2>2 DEF SubmitOk, Proceed, TypeOK
    <3>2. r.answer \in answered'[n]
      BY <1>1, <2>2 DEF SubmitOk, TypeOK
    <3>3. r = Saved(n) /\ \A j \in pending[w] : Recorded(j)
      BY <1>1 DEF SubmitFails, SubmitOk, WorkerInv, HandsInv
    <3>4. QED
      BY <1>3, <1>4, <2>2, <3>1, <3>2, <3>3 DEF HandsInv
  <2>3. CASE v # w
    <3>1. pc'[v] = pc[v] /\ current'[v] = current[v] /\ pending'[v] = pending[v]
      BY <2>3 DEF SubmitFails, SubmitOk, Proceed, Drop, TypeOK
    <3>2. QED
      BY <1>2, <1>3, <1>14, <3>1, OtherHands
  <2>4. QED
    BY <2>1, <2>2, <2>3
<1>10. OneBuyer'
  BY <1>1 DEF OneBuyer, SubmitFails, SubmitOk, Proceed, Drop, TypeOK
<1>11. RowInv'
  <2>1. \A j \in Jobs : \A a \in received'[j] : a \in received[j] \/ (j = n /\ a = r.answer)
    BY <1>1, <1>5 DEF TypeOK
  <2>2. QED
    BY <1>2, <1>3, <1>4, <2>1 DEF RowInv
<1>12. MarkedWasAnswered'
  BY <1>2, <1>3, <1>14 DEF MarkedWasAnswered, Rows
<1>13. QED
  BY <1>8, <1>9, <1>10, <1>11, <1>12 DEF WorkerInv

\* The row is marked, and w sends its next reply or waits for an event.
LEMMA AcknowledgeStep ==
  ASSUME JournalInv, NEW w \in Workers, NEW n \in Jobs, Acknowledge(w, n)
  PROVE  JournalInv'
<1> USE DEF JournalInv
<1>1. PICK r \in Reply : r = current[w] /\ r.job = n
  BY HandsType DEF Acknowledge
<1>2. Recorded(n) /\ journal[n].response \in answered[n] /\ \A j \in pending[w] : Recorded(j)
  <2>1. Recorded(n) /\ r = Saved(n) /\ r.answer \in answered[n]
    BY <1>1 DEF Acknowledge, WorkerInv, HandsInv
  <2>2. r.answer = journal[n].response
    BY <2>1 DEF Saved
  <2>3. QED
    BY <2>1, <2>2 DEF WorkerInv, HandsInv
<1>3. journal[n] \in Row
  BY <1>2 DEF TypeOK, Recorded, Rows
<1> DEFINE row == [digest |-> journal[n].digest, response |-> journal[n].response,
                   submitted |-> TRUE, rowid |-> journal[n].rowid]
<1>4. row \in Row /\ [journal[n] EXCEPT !.submitted = TRUE] = row
  <2>1. row \in Row
    BY <1>3 DEF Row
  <2>2. QED
    BY <1>3, <2>1, UpdatedRow
<1>5. journal' = [journal EXCEPT ![n] = row] /\ UNCHANGED <<purchases, received, answered>>
  BY <1>4 DEF Acknowledge
<1>6. journal'[n] = row /\ \A j \in Jobs \ {n} : journal'[j] = journal[j]
  BY <1>5 DEF TypeOK
<1>7. \A j \in Jobs : /\ j \in Rows' <=> j \in Rows
                      /\ Recorded(j)' <=> Recorded(j)
                      /\ Saved(j)' = Saved(j)
  <2>1. n \in Rows' /\ Recorded(n)' /\ Saved(n)' = Saved(n)
    BY <1>2, <1>4, <1>6, NoRowIsNotRow DEF Rows, Recorded, Saved
  <2>2. QED
    BY <1>2, <1>6, <2>1, OtherRows DEF Recorded
<1>8. \/ /\ Proceed(w, "waiting", NoReply)
         /\ UNCHANGED pending
         /\ pending[w] = {}
      \/ \E k \in pending[w] : /\ pending' = [pending EXCEPT ![w] = pending[w] \ {k}]
                               /\ Proceed(w, "submit", Saved(k))
  BY DEF Acknowledge, SendAll
<1>9. \A k \in pending[w] : k \in Jobs /\ Saved(k) \in Reply /\ Saved(k).job = k
  BY <1>2, SavedType DEF TypeOK
<1>10. TypeOK'
  <2>1. journal' \in [Jobs -> Row \cup {NoRow}]
    BY <1>4, <1>5 DEF TypeOK
  <2>2. QED
    BY <1>5, <1>8, <1>9, <2>1 DEF Proceed, TypeOK, Phases
<1>11. ASSUME NEW v \in Workers PROVE HandsInv(v)'
  <2>1. CASE v = w
    <3>1. CASE pending[w] = {}
      BY <1>8, <2>1, <3>1 DEF Proceed, TypeOK, HandsInv
    <3>2. CASE pending[w] # {}
      <4>1. PICK k \in pending[w] : /\ pending' = [pending EXCEPT ![w] = pending[w] \ {k}]
                                    /\ Proceed(w, "submit", Saved(k))
        BY <1>8, <3>2
      <4>2. PICK q \in Reply : q = Saved(k) /\ q.job = k /\ k \in Jobs
        BY <1>9, <4>1
      <4>3. pc'[w] = "submit" /\ current'[w] = q /\ pending'[w] = pending[w] \ {k}
        BY <4>1, <4>2 DEF Proceed, TypeOK
      <4>4. Recorded(k)' /\ Saved(k)' = q /\ \A j \in pending'[w] : Recorded(j)'
        BY <1>2, <1>7, <1>9, <4>1, <4>2, <4>3
      <4>5. QED
        BY <2>1, <4>2, <4>3, <4>4 DEF HandsInv
    <3>3. QED
      BY <3>1, <3>2
  <2>2. CASE v # w
    <3>1. pc'[v] = pc[v] /\ current'[v] = current[v] /\ pending'[v] = pending[v]
      BY <1>8, <2>2 DEF Proceed, TypeOK
    <3>2. pc[v] \in {"buy", "record"} => current[v].job \in Jobs \ {n}
      <4> HAVE pc[v] \in {"buy", "record"}
      <4>1. PICK q \in Reply : q = current[v] /\ q.job \in Jobs
        BY HandsType
      <4>2. ~Recorded(q.job)
        BY <4>1 DEF WorkerInv, HandsInv
      <4>3. QED
        BY <1>2, <4>1, <4>2
    <3>3. QED
      BY <1>5, <1>6, <1>7, <3>1, <3>2, OtherHands
  <2>3. QED
    BY <2>1, <2>2
<1>12. OneBuyer'
  <2>1. pc'[w] \notin {"buy", "record"}
    BY <1>8 DEF Proceed, TypeOK
  <2>2. \A v \in Workers \ {w} : pc'[v] = pc[v] /\ current'[v] = current[v]
    BY <1>8 DEF Proceed, TypeOK
  <2>3. QED
    BY <2>1, <2>2 DEF OneBuyer
<1>13. RowInv'
  <2>1. \A j \in Jobs : j \in Rows => /\ journal'[j].response = journal[j].response
                                      /\ journal'[j].digest = journal[j].digest
    BY <1>6
  <2>2. QED
    BY <1>5, <1>7, <2>1 DEF RowInv, Recorded
<1>14. MarkedWasAnswered'
  BY <1>2, <1>5, <1>6, <1>7 DEF MarkedWasAnswered, Rows
<1>15. QED
  BY <1>10, <1>11, <1>12, <1>13, <1>14 DEF WorkerInv

LEMMA JournalStep ==
  ASSUME JournalInv, [Next]_vars
  PROVE  JournalInv'
<1>1. CASE UNCHANGED vars
  BY <1>1 DEF vars, JournalInv, TypeOK, WorkerInv, HandsInv, OneBuyer, RowInv,
              MarkedWasAnswered, Rows, Recorded, Saved
<1>2. ASSUME NEW w \in Workers,
             Start(w) \/ Crash(w) \/ \E j \in Jobs, d \in Digests : HandleJob(w, j, d)
      PROVE  JournalInv'
  BY <1>2, LocalStep
<1>3. ASSUME NEW w \in Workers, Connected(w)
      PROVE  JournalInv'
  BY <1>3, ConnectedStep
<1>4. ASSUME NEW w \in Workers, Work(w)
      PROVE  JournalInv'
  BY <1>4, LocalStep, ReserveStep, PurchaseStep, RecordStep, SubmitStep, AcknowledgeStep DEF Work
<1>5. QED
  BY <1>1, <1>2, <1>3, <1>4 DEF Next

\* The inductive invariant holds in every reachable state.
THEOREM Journal == Spec => []JournalInv
<1>1. QED
  BY InitJournal, JournalStep, PTL DEF Spec

\* Every variable keeps its type: open_journal's table, whatever the crashes.
THEOREM JournalTypeCorrect == Spec => []TypeOK
<1>1. JournalInv => TypeOK
  BY DEF JournalInv
<1>2. QED
  BY <1>1, Journal, PTL

\* resubmit_pending never skips a reply that no worker has seen answered with a 2xx.
THEOREM MarkedAnswered == Spec => []MarkedWasAnswered
<1>1. JournalInv => MarkedWasAnswered
  BY DEF JournalInv
<1>2. QED
  BY <1>1, Journal, PTL

\* handle_job never answers a request with a completion bought for another one.
THEOREM AnswersOwn == Spec => []AnswersItsOwnRequest
<1>1. ASSUME JournalInv, NEW w \in Workers, pc[w] = "submit"
      PROVE  current[w].answer = [job |-> current[w].job, digest |-> current[w].digest]
  <2>1. PICK r \in Reply : r = current[w] /\ r.job \in Jobs
    BY <1>1, HandsType
  <2>2. Recorded(r.job) /\ r = Saved(r.job)
    BY <1>1, <2>1 DEF JournalInv, WorkerInv, HandsInv
  <2>3. r.answer = journal[r.job].response /\ r.digest = journal[r.job].digest
    BY <2>2 DEF Saved
  <2>4. QED
    BY <1>1, <2>1, <2>2, <2>3 DEF JournalInv, RowInv
<1>2. JournalInv => AnswersItsOwnRequest
  BY <1>1 DEF AnswersItsOwnRequest
<1>3. QED
  BY <1>2, Journal, PTL

(***************************************************************************)
(* MediatorJournal implements CompletionLedger                             *)
(***************************************************************************)

\* What the ledger calls settled is the response column.
Settled == [j \in Jobs |-> IF j \in Rows THEN journal[j].response ELSE NoAnswer]

LEMMA SameRowsSameLedger ==
  ASSUME UNCHANGED <<journal, purchases, received>>
  PROVE  UNCHANGED Ledger!ledger
BY DEF Ledger!ledger, Rows

LEMMA BuyImplemented ==
  ASSUME JournalInv, NEW w \in Workers, Purchase(w) \/ PurchaseLost(w)
  PROVE  Ledger!LedgerNext
<1>1. PICK r \in Reply : r = current[w] /\ r.job \in Jobs /\ r.digest \in Digests
  BY HandsType DEF Purchase, PurchaseLost
<1>2. purchases[r.job] = 0
  BY <1>1 DEF JournalInv, WorkerInv, HandsInv, Purchase, PurchaseLost
<1>3. purchases' = [purchases EXCEPT ![r.job] = 1]
  BY <1>1, <1>2 DEF Purchase, PurchaseLost
<1>4. UNCHANGED <<journal, received>>
  BY DEF Purchase, PurchaseLost
<1>5. Ledger!Buy(r.job)
  BY <1>1, <1>2, <1>3, <1>4 DEF Ledger!Buy, Rows
<1>6. QED
  BY <1>1, <1>5 DEF Ledger!LedgerNext

LEMMA ReserveImplemented ==
  ASSUME JournalInv, NEW w \in Workers, Reserve(w)
  PROVE  UNCHANGED Ledger!ledger
<1>1. PICK r \in Reply : r = current[w] /\ r.job \in Jobs /\ r.digest \in Digests
  BY HandsType DEF Reserve
<1> DEFINE n == r.job
<1>2. journal'[n].response = NoAnswer /\ n \notin Rows /\ UNCHANGED <<purchases, received>>
  BY <1>1 DEF Reserve, JournalInv, TypeOK
<1>3. \A j \in Jobs \ {n} : journal'[j] = journal[j]
  BY <1>1 DEF Reserve, JournalInv, TypeOK
<1>4. \A j \in Jobs : (IF j \in Rows' THEN journal'[j].response ELSE NoAnswer)
                      = (IF j \in Rows THEN journal[j].response ELSE NoAnswer)
  BY <1>1, <1>2, <1>3, OtherRows
<1>5. Settled' = Settled
  BY <1>4 DEF Settled
<1>6. QED
  BY <1>2, <1>5 DEF Ledger!ledger, Settled

LEMMA SettleImplemented ==
  ASSUME JournalInv, NEW w \in Workers, Record(w)
  PROVE  Ledger!LedgerNext
<1>1. PICK r \in Reply : r = current[w] /\ r.job \in Jobs /\ r.digest \in Digests
  BY HandsType DEF Record
<1> DEFINE n == r.job
<1>2. /\ n \in Rows /\ ~Recorded(n) /\ purchases[n] = 1
      /\ r.answer = [job |-> n, digest |-> r.digest]
  BY <1>1 DEF JournalInv, Record, WorkerInv, HandsInv
<1>3. journal[n] \in Row /\ r.answer \in Answer
  BY <1>1, <1>2 DEF JournalInv, TypeOK, Rows, Answer
<1>4. journal'[n].response = r.answer /\ journal'[n] \in Row
  <2>1. journal'[n] = [journal[n] EXCEPT !.response = r.answer]
    BY <1>1 DEF Record, JournalInv, TypeOK
  <2>2. QED
    BY <1>3, <2>1, UpdatedRow DEF Row
<1>5. \A j \in Jobs \ {n} : journal'[j] = journal[j]
  BY <1>1 DEF Record, JournalInv, TypeOK
<1>6. n \in Rows' /\ \A j \in Jobs \ {n} : j \in Rows' <=> j \in Rows
  BY <1>1, <1>4, <1>5, OtherRows, NoRowIsNotRow DEF Rows
<1>7. Settled' = [Settled EXCEPT ![n] = r.answer]
  BY <1>1, <1>4, <1>5, <1>6 DEF Settled
<1>8. Settled[n] = NoAnswer
  BY <1>1, <1>2 DEF Settled, Recorded
<1>9. UNCHANGED <<purchases, received>>
  BY DEF Record
<1>10. Ledger!Settle(n)
  BY <1>2, <1>3, <1>7, <1>8, <1>9 DEF Ledger!Settle, Settled
<1>11. QED
  BY <1>1, <1>10 DEF Ledger!LedgerNext

LEMMA TellImplemented ==
  ASSUME JournalInv, NEW w \in Workers,
         SubmitFails(w) \/ \E j \in Jobs : SubmitOk(w, j)
  PROVE  Ledger!LedgerNext \/ UNCHANGED Ledger!ledger
<1>1. PICK r \in Reply : r = current[w] /\ r.job \in Jobs /\ r.digest \in Digests
  BY HandsType DEF SubmitFails, SubmitOk
<1> DEFINE n == r.job
<1>2. UNCHANGED <<journal, purchases>>
  BY DEF SubmitFails, SubmitOk
<1>3. Recorded(n) /\ r.answer = journal[n].response
  <2>1. Recorded(n) /\ r = Saved(n)
    BY <1>1 DEF JournalInv, SubmitFails, SubmitOk, WorkerInv, HandsInv
  <2>2. QED
    BY <2>1 DEF Saved
<1>4. CASE UNCHANGED received
  BY <1>2, <1>4, SameRowsSameLedger
<1>5. CASE received' = [received EXCEPT ![n] = @ \cup {r.answer}]
  <2>1. received[n] \cup {r.answer} = {journal[n].response}
    BY <1>1, <1>3 DEF JournalInv, RowInv
  <2>2. Settled[n] = journal[n].response /\ Settled[n] # NoAnswer /\ Settled' = Settled
    BY <1>1, <1>2, <1>3 DEF Settled, Recorded, Rows
  <2>3. received' = [received EXCEPT ![n] = {Settled[n]}]
    BY <1>5, <2>1, <2>2
  <2>4. Ledger!Tell(n)
    BY <1>2, <2>2, <2>3 DEF Ledger!Tell, Settled
  <2>5. QED
    BY <1>1, <2>4 DEF Ledger!LedgerNext
<1>6. QED
  BY <1>1, <1>4, <1>5 DEF SubmitFails, SubmitOk, Accept

LEMMA MarkImplemented ==
  ASSUME JournalInv, NEW w \in Workers, NEW n \in Jobs, Acknowledge(w, n)
  PROVE  UNCHANGED Ledger!ledger
<1>1. Recorded(n)
  <2>1. PICK r \in Reply : r = current[w] /\ r.job = n
    BY HandsType DEF Acknowledge
  <2>2. QED
    BY <2>1 DEF JournalInv, Acknowledge, WorkerInv, HandsInv
<1>2. journal[n] \in Row
  BY <1>1 DEF JournalInv, TypeOK, Recorded, Rows
<1>3. journal'[n] = [journal[n] EXCEPT !.submitted = TRUE]
  BY DEF Acknowledge, JournalInv, TypeOK
<1>4. journal'[n].response = journal[n].response /\ journal'[n] \in Row
  BY <1>2, <1>3, UpdatedRow DEF Row
<1>5. \A j \in Jobs \ {n} : journal'[j] = journal[j]
  BY DEF Acknowledge, JournalInv, TypeOK
<1>6. n \in Rows /\ n \in Rows' /\ \A j \in Jobs \ {n} : j \in Rows' <=> j \in Rows
  BY <1>1, <1>4, <1>5, OtherRows, NoRowIsNotRow DEF Rows, Recorded
<1>7. Settled' = Settled
  BY <1>4, <1>5, <1>6 DEF Settled
<1>8. QED
  BY <1>7 DEF Acknowledge, Ledger!ledger, Settled

\* Every step of the worker, its crashes and its reconnects included, is a step
\* of the ledger or leaves it alone: handle_job buys a job at most once, settles
\* it at most once, and the server hears the settled answer only.
THEOREM LedgerImplemented == Spec => ImplementsLedger
<1>1. Init => Ledger!LedgerInit
  BY DEF Init, Ledger!LedgerInit, Rows
<1>2. ASSUME JournalInv, [Next]_vars
      PROVE  [Ledger!LedgerNext]_Ledger!ledger
  <2>1. CASE UNCHANGED vars
    BY <2>1, SameRowsSameLedger DEF vars
  <2>2. ASSUME NEW w \in Workers,
               \/ Start(w) \/ Crash(w) \/ Connected(w)
               \/ \E j \in Jobs, d \in Digests : HandleJob(w, j, d)
        PROVE  [Ledger!LedgerNext]_Ledger!ledger
    BY <2>2, SameRowsSameLedger
       DEF Start, Crash, Connected, HandleJob, TakeNew, TakeKnown, TakeRefused
  <2>3. ASSUME NEW w \in Workers, Work(w)
        PROVE  [Ledger!LedgerNext]_Ledger!ledger
    <3>1. CASE ReserveConflict(w)
      BY <3>1, SameRowsSameLedger DEF ReserveConflict
    <3>2. QED
      BY <1>2, <2>3, <3>1, BuyImplemented, ReserveImplemented, SettleImplemented,
         TellImplemented, MarkImplemented DEF Work
  <2>4. QED
    BY <1>2, <2>1, <2>2, <2>3 DEF Next
<1>3. QED
  BY <1>1, <1>2, Journal, PTL DEF Spec, ImplementsLedger, Ledger!LedgerSpec

(***************************************************************************)
(* An unknown outcome is never bought again                                *)
(***************************************************************************)

LEMMA StaysInterrupted ==
  ASSUME NEW n \in Jobs, Interrupted(n), NEW w \in Workers,
         journal'[n] = journal[n], purchases'[n] = purchases[n],
         \A v \in Workers \ {w} : pc'[v] = pc[v] /\ current'[v] = current[v],
         current'[w] = NoReply \/ current'[w].job # n \/ pc'[w] = "reserve"
  PROVE  Interrupted(n)' /\ purchases'[n] = purchases[n]
<1>1. n \in Rows' /\ ~Recorded(n)'
  BY DEF Interrupted, Rows, Recorded
<1>2. ASSUME NEW v \in Workers, current'[v] # NoReply
      PROVE  current'[v].job # n \/ pc'[v] = "reserve"
  BY <1>2 DEF Interrupted
<1>3. QED
  BY <1>1, <1>2 DEF Interrupted

\* A worker at work, and past its reservation, works on another job.
LEMMA WorksElsewhere ==
  ASSUME JournalInv, NEW n \in Jobs, Interrupted(n), NEW w \in Workers,
         pc[w] \notin {"down", "waiting", "reserve"}
  PROVE  \E r \in Reply : r = current[w] /\ r.job \in Jobs \ {n}
<1>1. PICK r \in Reply : r = current[w] /\ r.job \in Jobs
  BY HandsType
<1>2. QED
  BY <1>1, NoReplyIsNotReply DEF Interrupted

LEMMA EventLeavesUnknown ==
  ASSUME JournalInv, NEW n \in Jobs, Interrupted(n), NEW w \in Workers,
         \/ Start(w) \/ Crash(w) \/ Connected(w)
         \/ \E j \in Jobs, d \in Digests : HandleJob(w, j, d)
  PROVE  Interrupted(n)' /\ purchases'[n] = purchases[n]
<1>1. UNCHANGED <<journal, purchases>>
  BY DEF Start, Crash, Connected, HandleJob, TakeNew, TakeKnown, TakeRefused
<1>2. ~Recorded(n)
  BY DEF Interrupted
<1>3. CASE Connected(w)
  <2>1. PICK j \in Unsent : Proceed(w, "submit", Saved(j))
    BY <1>3 DEF Connected, SendAll
  <2>2. Saved(j).job # n
    BY <1>2 DEF Unsent, Saved
  <2>3. QED
    BY <1>1, <2>1, <2>2, StaysInterrupted DEF Proceed, JournalInv, TypeOK
<1>4. ASSUME NEW j \in Jobs, NEW d \in Digests, HandleJob(w, j, d)
      PROVE  Interrupted(n)' /\ purchases'[n] = purchases[n]
  <2>1. CASE TakeNew(w, j, d)
    BY <1>1, <2>1, StaysInterrupted DEF TakeNew, Proceed, JournalInv, TypeOK
  <2>2. CASE TakeKnown(w, j, d)
    BY <1>1, <1>2, <2>2, StaysInterrupted DEF TakeKnown, Proceed, JournalInv, TypeOK
  <2>3. CASE TakeRefused(w, j, d)
    BY <1>1, <2>3, StaysInterrupted DEF TakeRefused, Drop, JournalInv, TypeOK
  <2>4. QED
    BY <1>4, <2>1, <2>2, <2>3 DEF HandleJob
<1>5. CASE Start(w) \/ Crash(w)
  BY <1>1, <1>5, StaysInterrupted DEF Start, Crash, Proceed, Drop, JournalInv, TypeOK
<1>6. QED
  BY <1>3, <1>4, <1>5

LEMMA WorkLeavesUnknown ==
  ASSUME JournalInv, NEW n \in Jobs, Interrupted(n), NEW w \in Workers, Work(w)
  PROVE  Interrupted(n)' /\ purchases'[n] = purchases[n]
<1> USE DEF JournalInv
<1>1. n \in Rows /\ ~Recorded(n)
  BY DEF Interrupted
<1>2. CASE Reserve(w)
  <2>1. PICK r \in Reply : r = current[w] /\ r.job \in Jobs
    BY <1>2, HandsType DEF Reserve
  <2>2. r.job # n /\ current'[w] = r
    BY <1>1, <1>2, <2>1 DEF Reserve, Proceed, TypeOK
  <2>3. QED
    BY <1>2, <2>1, <2>2, StaysInterrupted DEF Reserve, Proceed, TypeOK
<1>3. CASE ReserveConflict(w)
  BY <1>3, StaysInterrupted DEF ReserveConflict, Drop, TypeOK
<1>4. CASE Purchase(w) \/ PurchaseLost(w)
  <2>1. PICK r \in Reply : r = current[w] /\ r.job \in Jobs \ {n}
    BY <1>4, WorksElsewhere DEF Purchase, PurchaseLost
  <2>2. purchases'[n] = purchases[n] /\ journal' = journal
    BY <1>4, <2>1 DEF Purchase, PurchaseLost, TypeOK
  <2>3. [r EXCEPT !.answer = [job |-> r.job, digest |-> r.digest]].job = r.job
    BY DEF Reply
  <2>4. QED
    BY <1>4, <2>1, <2>2, <2>3, StaysInterrupted DEF Purchase, PurchaseLost, Proceed, Drop, TypeOK
<1>5. CASE Record(w)
  <2>1. PICK r \in Reply : r = current[w] /\ r.job \in Jobs \ {n}
    BY <1>5, WorksElsewhere DEF Record
  <2>2. QED
    BY <1>5, <2>1, StaysInterrupted DEF Record, Proceed, TypeOK
<1>6. CASE SubmitFails(w) \/ \E j \in Jobs : SubmitOk(w, j)
  <2>1. PICK r \in Reply : r = current[w] /\ r.job \in Jobs \ {n}
    BY <1>6, WorksElsewhere DEF SubmitFails, SubmitOk
  <2>2. QED
    BY <1>6, <2>1, StaysInterrupted DEF SubmitFails, SubmitOk, Proceed, Drop, TypeOK
<1>7. ASSUME NEW j \in Jobs, Acknowledge(w, j)
      PROVE  Interrupted(n)' /\ purchases'[n] = purchases[n]
  <2>1. PICK r \in Reply : r = current[w] /\ r.job \in Jobs \ {n}
    BY <1>7, WorksElsewhere DEF Acknowledge
  <2>2. journal'[n] = journal[n] /\ purchases' = purchases
    BY <1>7, <2>1 DEF Acknowledge, TypeOK
  <2>3. CASE Proceed(w, "waiting", NoReply)
    BY <2>2, <2>3, StaysInterrupted DEF Proceed, TypeOK
  <2>4. CASE SendAll(w, pending[w])
    <3>1. PICK k \in pending[w] : Proceed(w, "submit", Saved(k))
      BY <2>4 DEF SendAll
    <3>2. Saved(k).job # n
      BY <1>1, <3>1 DEF WorkerInv, HandsInv, Saved
    <3>3. QED
      BY <2>2, <3>1, <3>2, StaysInterrupted DEF Proceed, TypeOK
  <2>5. QED
    BY <1>7, <2>3, <2>4 DEF Acknowledge
<1>8. QED
  BY <1>2, <1>3, <1>4, <1>5, <1>6, <1>7 DEF Work

\* handle_job raises on a row without a response, whoever reserved it and however
\* often the server offers the job: the row waits for reconciliation.
THEOREM UnknownNotRetried == Spec => UnknownIsNotRetried
<1>1. ASSUME JournalInv, [Next]_vars, NEW n \in Jobs, Interrupted(n)
      PROVE  Interrupted(n)' /\ purchases'[n] = purchases[n]
  <2>1. CASE UNCHANGED vars
    BY <1>1, <2>1 DEF vars, Interrupted, Rows, Recorded
  <2>2. QED
    BY <1>1, <2>1, EventLeavesUnknown, WorkLeavesUnknown DEF Next
<1>2. JournalInv /\ [Next]_vars =>
        [\A j \in Jobs : Interrupted(j) => Interrupted(j)' /\ purchases'[j] = purchases[j]]_vars
  BY <1>1
<1>3. QED
  BY <1>2, Journal, PTL DEF Spec, UnknownIsNotRetried
================================================================================
