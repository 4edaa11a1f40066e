---------------------------- MODULE MediatorJournal ----------------------------
(***************************************************************************)
(* The benchmark mediator worker, python/examples/benchmark_mediator.py.   *)
(*                                                                         *)
(* The server offers completion jobs over a live stream.  A worker buys a  *)
(* completion from a paid provider, journals it in a SQLite file and sends *)
(* it back.  The worker may die between any two steps, the operator starts *)
(* it again, the server offers a job again after a reconnect, a reply may  *)
(* arrive although its acknowledgement does not, and two workers may be    *)
(* started on one journal.  Every SQL statement commits before the next    *)
(* step, so one action is one statement or one call to the outside.        *)
(***************************************************************************)
EXTENDS Naturals, FiniteSets

CONSTANTS
  Workers,   \* worker processes sharing one journal file
  Jobs,      \* job identities the server uses
  Digests,   \* request digests a job may carry
  Refused,   \* jobs whose reply the server never takes (expired, cancelled)
  NoAnswer,  \* the SQL NULL of the response column
  NoReply,   \* the worker has no reply in hand
  NoRow      \* the job has no row

\* A completion, by the request it was bought for.
Answer == [job : Jobs, digest : Digests]

ASSUME NoAnswerIsNotAnswer == NoAnswer \notin Answer
ASSUME RefusedAreJobs == Refused \subseteq Jobs

\* A row of the jobs table; rowid is the order in which rows were inserted.
Row == [digest : Digests, response : Answer \cup {NoAnswer},
        submitted : BOOLEAN, rowid : Nat]

ASSUME NoRowIsNotRow == NoRow \notin Row
ASSUME JobsFinite == IsFiniteSet(Jobs)

\* A reply in a worker's hands: the request it answers, and the answer.
Reply == [job : Jobs, digest : Digests, answer : Answer \cup {NoAnswer}]

ASSUME NoReplyIsNotReply == NoReply \notin Reply

VARIABLES
  journal,   \* the jobs table
  purchases, \* provider calls that were made, per job
  received,  \* replies the server has accepted, per job
  answered,  \* replies some worker has seen a 2xx answer to, per job
  pc,        \* where each worker is
  current,   \* the reply each worker is working on
  pending    \* the jobs resubmit_pending still has to send after that one

vars == <<journal, purchases, received, answered, pc, current, pending>>

Rows == {j \in Jobs : journal[j] # NoRow}

Recorded(j) == j \in Rows /\ journal[j].response # NoAnswer

Unsent == {j \in Jobs : Recorded(j) /\ ~journal[j].submitted}

\* The reply the journal holds for j.  (A pending reply is read here when it is
\* sent and in the code when it is selected: ImplementsLedger says it is the same.)
Saved(j) == [job |-> j, digest |-> journal[j].digest, answer |-> journal[j].response]

Phases == {"down", "waiting", "reserve", "buy", "record", "submit", "acknowledge"}

TypeOK ==
  /\ journal \in [Jobs -> Row \cup {NoRow}]
  /\ purchases \in [Jobs -> Nat]
  /\ received \in [Jobs -> SUBSET Answer]
  /\ answered \in [Jobs -> SUBSET Answer]
  /\ pc \in [Workers -> Phases]
  /\ current \in [Workers -> Reply \cup {NoReply}]
  /\ pending \in [Workers -> SUBSET Jobs]

--------------------------------------------------------------------------------

Init ==
  /\ journal = [j \in Jobs |-> NoRow]
  /\ purchases = [j \in Jobs |-> 0]
  /\ received = [j \in Jobs |-> {}]
  /\ answered = [j \in Jobs |-> {}]
  /\ pc = [w \in Workers |-> "down"]
  /\ current = [w \in Workers |-> NoReply]
  /\ pending = [w \in Workers |-> {}]

\* The worker leaves its loop: what it had in memory is gone.
Drop(w) ==
  /\ pc' = [pc EXCEPT ![w] = "down"]
  /\ current' = [current EXCEPT ![w] = NoReply]
  /\ pending' = [pending EXCEPT ![w] = {}]

Proceed(w, phase, reply) ==
  /\ pc' = [pc EXCEPT ![w] = phase]
  /\ current' = [current EXCEPT ![w] = reply]

\* main: open the journal, connect, wait for events.
Start(w) ==
  /\ pc[w] = "down"
  /\ Proceed(w, "waiting", NoReply)
  /\ UNCHANGED <<journal, purchases, received, answered, pending>>

\* The process is killed, or an event it does not accept raises.
Crash(w) ==
  /\ pc[w] # "down"
  /\ Drop(w)
  /\ UNCHANGED <<journal, purchases, received, answered>>

(***************************************************************************)
(* resubmit_pending, on every "connected" event                            *)
(***************************************************************************)

\* The table scan returns the rows in the order they were inserted, and the loop
\* sends them one by one.
SendAll(w, S) ==
  \E j \in S :
    /\ \A k \in S : journal[j].rowid <= journal[k].rowid
    /\ pending' = [pending EXCEPT ![w] = S \ {j}]
    /\ Proceed(w, "submit", Saved(j))

\* Fault: only rows marked submitted are selected.
ConnectedSendsNothing(w) ==
  /\ pc[w] = "waiting" /\ Unsent # {}
  /\ UNCHANGED vars

Connected(w) ==
  /\ pc[w] = "waiting" /\ Unsent # {}
  /\ SendAll(w, Unsent)
  /\ UNCHANGED <<journal, purchases, received, answered>>

(***************************************************************************)
(* handle_job, on every "benchmark_job" event                              *)
(***************************************************************************)

\* Fault: a row without a response is taken for no row.
TakeNewOrUnknown(w, j, d) ==
  /\ pc[w] = "waiting" /\ ~Recorded(j)
  /\ Proceed(w, IF j \in Rows THEN "buy" ELSE "reserve",
             [job |-> j, digest |-> d, answer |-> NoAnswer])
  /\ UNCHANGED <<journal, purchases, received, answered, pending>>

\* The SELECT: nothing is known of the job, and it is reserved next.
TakeNew(w, j, d) ==
  /\ pc[w] = "waiting" /\ j \notin Rows
  /\ Proceed(w, "reserve", [job |-> j, digest |-> d, answer |-> NoAnswer])
  /\ UNCHANGED <<journal, purchases, received, answered, pending>>

\* Fault: the digest of the earlier request is not compared.
TakeKnownJob(w, j, d) ==
  /\ pc[w] = "waiting" /\ Recorded(j)
  /\ Proceed(w, "submit", [job |-> j, digest |-> d, answer |-> journal[j].response])
  /\ UNCHANGED <<journal, purchases, received, answered, pending>>

\* The SELECT: an earlier reply to the same request is sent again.
TakeKnown(w, j, d) ==
  /\ pc[w] = "waiting" /\ Recorded(j) /\ journal[j].digest = d
  /\ Proceed(w, "submit", [job |-> j, digest |-> d, answer |-> journal[j].response])
  /\ UNCHANGED <<journal, purchases, received, answered, pending>>

\* The SELECT: the digest is another one, or the outcome of the purchase is
\* unknown.  Both raise, and the exception ends the worker.
TakeRefused(w, j, d) ==
  /\ pc[w] = "waiting" /\ j \in Rows
  /\ journal[j].digest # d \/ ~Recorded(j)
  /\ Drop(w)
  /\ UNCHANGED <<journal, purchases, received, answered>>

\* Fault: the submitted column has no default.
ReserveWithoutDefault(w) ==
  LET r == current[w]
  IN  /\ pc[w] = "reserve" /\ r.job \notin Rows
      /\ journal' = [journal EXCEPT ![r.job] =
           [digest |-> r.digest, response |-> NoAnswer, submitted |-> NoAnswer,
            rowid |-> Cardinality(Rows)]]
      /\ Proceed(w, "buy", r)
      /\ UNCHANGED <<purchases, received, answered, pending>>

\* The INSERT commits before the provider is called.
Reserve(w) ==
  LET r == current[w]
  IN  /\ pc[w] = "reserve" /\ r.job \notin Rows
      /\ journal' = [journal EXCEPT ![r.job] =
           [digest |-> r.digest, response |-> NoAnswer, submitted |-> FALSE,
            rowid |-> Cardinality(Rows)]]
      /\ Proceed(w, "buy", r)
      /\ UNCHANGED <<purchases, received, answered, pending>>

\* The INSERT meets a primary key another worker has inserted since.
ReserveConflict(w) ==
  /\ pc[w] = "reserve" /\ current[w].job \in Rows
  /\ Drop(w)
  /\ UNCHANGED <<journal, purchases, received, answered>>

\* complete(request): the provider has sold a completion ...
Purchase(w) ==
  LET r == current[w]
  IN  /\ pc[w] = "buy"
      /\ purchases' = [purchases EXCEPT ![r.job] = @ + 1]
      /\ Proceed(w, "record", [r EXCEPT !.answer = [job |-> r.job, digest |-> r.digest]])
      /\ UNCHANGED <<journal, received, answered, pending>>

\* ... or raises, or names another model or route: sold or not, the row stays
\* without a response.  (Not sold, and raised: that is Crash.)
PurchaseLost(w) ==
  /\ pc[w] = "buy"
  /\ purchases' = [purchases EXCEPT ![current[w].job] = @ + 1]
  /\ Drop(w)
  /\ UNCHANGED <<journal, received, answered>>

Record(w) ==
  LET r == current[w]
  IN  /\ pc[w] = "record"
      /\ journal' = [journal EXCEPT ![r.job].response = r.answer]
      /\ Proceed(w, "submit", r)
      /\ UNCHANGED <<purchases, received, answered, pending>>

(***************************************************************************)
(* submit_benchmark_response, and the UPDATE that marks the row            *)
(***************************************************************************)

Accept(w) ==
  received' = [received EXCEPT ![current[w].job] = @ \cup {current[w].answer}]

\* The call returns on a 2xx answer, and the worker does not look at its "success"
\* flag: the server has accepted the reply, or answers that it has not.
SubmitOk(w, j) ==
  /\ pc[w] = "submit" /\ current[w].job = j
  /\ \/ UNCHANGED received
     \/ j \notin Refused /\ Accept(w)
  /\ answered' = [answered EXCEPT ![j] = @ \cup {current[w].answer}]
  /\ Proceed(w, "acknowledge", current[w])
  /\ UNCHANGED <<journal, purchases, pending>>

\* Fault: a failed submission is logged and the row is marked all the same.
SubmitSwallowed(w) ==
  /\ pc[w] = "submit"
  /\ Proceed(w, "acknowledge", current[w])
  /\ UNCHANGED <<journal, purchases, received, answered, pending>>

\* The call raises, and ends the worker: the server has refused the reply, or
\* has not seen it, or has accepted it and its answer was lost.
SubmitFails(w) ==
  /\ pc[w] = "submit"
  /\ \/ UNCHANGED received
     \/ current[w].job \notin Refused /\ Accept(w)
  /\ Drop(w)
  /\ UNCHANGED <<journal, purchases, answered>>

Acknowledge(w, j) ==
  /\ pc[w] = "acknowledge" /\ current[w].job = j
  /\ journal' = [journal EXCEPT ![j].submitted = TRUE]
  /\ IF pending[w] = {}
     THEN Proceed(w, "waiting", NoReply) /\ UNCHANGED pending
     ELSE SendAll(w, pending[w])
  /\ UNCHANGED <<purchases, received, answered>>

--------------------------------------------------------------------------------

HandleJob(w, j, d) == TakeNew(w, j, d) \/ TakeKnown(w, j, d) \/ TakeRefused(w, j, d)

\* A running worker gets on with the job in its hands; every call it makes returns
\* or raises.
Work(w) ==
  \/ Reserve(w) \/ ReserveConflict(w) \/ Purchase(w) \/ PurchaseLost(w) \/ Record(w)
  \/ SubmitFails(w) \/ \E j \in Jobs : SubmitOk(w, j) \/ Acknowledge(w, j)

Next ==
  \E w \in Workers :
    \/ Start(w) \/ Crash(w) \/ Connected(w) \/ Work(w)
    \/ \E j \in Jobs, d \in Digests : HandleJob(w, j, d)

Spec == Init /\ [][Next]_vars

\* The operator restarts a dead worker and it reconnects, as the README asks; a
\* submission the server does not refuse is answered sooner or later, and a worker
\* does not die for ever between a submission and its mark.
Fairness ==
  \A w \in Workers :
    /\ WF_vars(Start(w)) /\ WF_vars(Work(w)) /\ SF_vars(Connected(w))
    /\ \A j \in Jobs \ Refused : SF_vars(SubmitOk(w, j))
    /\ \A j \in Jobs : SF_vars(Acknowledge(w, j))

FairSpec == Spec /\ Fairness

--------------------------------------------------------------------------------

Ledger == INSTANCE CompletionLedger
            WITH Answers <- Answer, bought <- purchases, told <- received,
                 settled <- [j \in Jobs |-> IF j \in Rows THEN journal[j].response ELSE NoAnswer]

\* "The response journal prevents reconnects from buying the same completion
\* twice": through crashes, repeated offers, lost acknowledgements and a second
\* worker on the journal, a job is bought at most once, its answer is settled at
\* most once, and the server hears the settled answer only, never one that was
\* not journaled first.
ImplementsLedger == Ledger!LedgerSpec

\* A row is marked only when a worker has seen a 2xx answer to its reply: no
\* crash, no second worker and no swallowed error makes resubmit_pending skip a
\* reply nobody answered.  (Answered is not accepted: SubmitOk.)
MarkedWasAnswered ==
  \A j \in Rows : journal[j].submitted => journal[j].response \in answered[j]

\* A worker never answers a request with what was bought for another one, even
\* when the server uses a job's identity again.
AnswersItsOwnRequest ==
  \A w \in Workers :
    pc[w] = "submit" => current[w].answer = [job |-> current[w].job, digest |-> current[w].digest]

\* Where a worker is tells what the journal holds for the job in its hands.
HandsInv(w) ==
  LET r == current[w]
  IN  /\ IF pc[w] \in {"down", "waiting"} THEN r = NoReply ELSE r \in Reply
      /\ pc[w] \in {"buy", "record"} =>
           r.job \in Rows /\ ~Recorded(r.job) /\ journal[r.job].digest = r.digest
      /\ pc[w] = "buy" => purchases[r.job] = 0
      /\ pc[w] = "record" =>
           purchases[r.job] = 1 /\ r.answer = [job |-> r.job, digest |-> r.digest]
      /\ pc[w] \in {"submit", "acknowledge"} => Recorded(r.job) /\ r = Saved(r.job)
      /\ pc[w] = "acknowledge" => r.answer \in answered[r.job]
      /\ \A j \in pending[w] : Recorded(j)

WorkerInv == \A w \in Workers : HandsInv(w)

\* The primary key of the table admits one buyer per job.
OneBuyer ==
  \A w, v \in Workers :
    w # v /\ pc[w] \in {"buy", "record"} /\ pc[v] \in {"buy", "record"} =>
      current[w].job # current[v].job

\* What a row says of the purchase and of what the server has.
RowInv ==
  \A j \in Jobs :
    /\ j \notin Rows => purchases[j] = 0
    /\ Recorded(j) =>
         purchases[j] = 1 /\ journal[j].response = [job |-> j, digest |-> journal[j].digest]
    /\ \A a \in received[j] : Recorded(j) /\ a = journal[j].response

JournalInv == TypeOK /\ WorkerInv /\ OneBuyer /\ RowInv /\ MarkedWasAnswered

\* "An interrupted provider call with an unknown outcome requires
\* reconciliation, not another purchase": a reserved row nobody is working on
\* stays as it is whatever the server offers and whoever is restarted.
Interrupted(j) ==
  /\ j \in Rows /\ ~Recorded(j)
  /\ \A w \in Workers : current[w] # NoReply => current[w].job # j \/ pc[w] = "reserve"

UnknownIsNotRetried ==
  [][\A j \in Jobs : Interrupted(j) => Interrupted(j)' /\ purchases'[j] = purchases[j]]_vars

\* An older reply the server refuses is still unsent.  The refusal raises, and
\* ends the worker before resubmit_pending comes to the rows after it.
Blocked(j) ==
  \E k \in Unsent \cap Refused : journal[k].rowid < journal[j].rowid

\* "resends unsent replies on reconnect": a journaled reply the server does not
\* refuse is sent and marked, unless an older refused one keeps every connect from
\* reaching it.
RepliesAreSent ==
  \A j \in Jobs \ Refused : Recorded(j) ~> (j \in Rows /\ (journal[j].submitted \/ Blocked(j)))
================================================================================
