-------------------------------- MODULE RestCalls --------------------------------
(***************************************************************************)
(* Calls of the REST client that have an effect at the server: which of     *)
(* them are sent again after a server error, with which idempotency key,    *)
(* and what the caller is told, over a network and a server that may commit *)
(* a request and lose the answer, or commit it after the client has given   *)
(* it up. A pro benchmark run is three such calls: a purchase, polling for  *)
(* the payment, and the run.                                                *)
(***************************************************************************)
EXTENDS Naturals, FiniteSets

CONSTANTS
    Calls,       \* calls of client methods; an uuid drawn by a call is its name
    Keys,        \* idempotency keys that callers supply
    MaxRetries,  \* attempts of the retry loop
    MaxPolls,    \* bound: polls that fit into poll_timeout
    None         \* no idempotency key

ASSUME RetriesAssumption == MaxRetries \in Nat \ {0}
ASSUME PollsAssumption == MaxPolls \in Nat
ASSUME KeysAssumption == Keys \cap Calls = {} /\ None \notin Keys \cup Calls

VARIABLES
    call,     \* call[c]: where the call is and what it sends
    sent,     \* requests that the server may still commit
    effects,  \* requests that the server committed
    payment   \* payment[c]: the payment that c's purchase opened

rvars == <<call, sent, effects, payment>>

Fresh == [pc |-> "fresh", op |-> "none", given |-> None, key |-> None, loop |-> FALSE,
          tries |-> 0, polls |-> 0]

\* max_retries.max(1) of the options is MaxRetries here, whose assumption is that bound.
Init ==
    /\ call = [c \in Calls |-> Fresh]
    /\ sent = {} /\ effects = {}
    /\ payment = [c \in Calls |-> "none"]

-----------------------------------------------------------------------------
\* A method builds its request. `loop`: it goes through request_with_retry.
Prepare(c, pc, op, given, key, loop) ==
    /\ call[c].pc = "fresh"
    /\ call' = [call EXCEPT ![c] = [pc |-> pc, op |-> op, given |-> given, key |-> key,
                                    loop |-> loop, tries |-> 0, polls |-> 0]]
    /\ UNCHANGED <<sent, effects, payment>>

\* The key that the caller supplied, or a new one.
SendIdempotencyKey(c, given) == IF given = None THEN c ELSE given

SendSignedEmail(c) ==
    \E g \in Keys \cup {None} : Prepare(c, "send", "email", g, SendIdempotencyKey(c, g), TRUE)

\* A reply looks the original message up, and takes no key from its caller.
Reply(c) == Prepare(c, "lookup", "email", None, SendIdempotencyKey(c, None), TRUE)

LookUp(c) ==
    /\ call[c].pc = "lookup"
    /\ \E pc \in {"send", "err"} : call' = [call EXCEPT ![c].pc = pc]
    /\ UNCHANGED <<sent, effects, payment>>

Benchmark(c) == Prepare(c, "send", "benchmark", None, None, TRUE)
SaveAgreement(c) == Prepare(c, "send", "agreement", None, None, TRUE)

\* Fault: a registration goes through the retry loop.
RegisterInLoop(c) == Prepare(c, "send", "register", None, None, TRUE)

Register(c) == Prepare(c, "send", "register", None, None, FALSE)

SubmitResponse(c) == Prepare(c, "send", "response", None, None, FALSE)
FreeRun(c) == Prepare(c, "send", "free run", None, None, FALSE)
ProRun(c) == Prepare(c, "send", "purchase", None, None, FALSE)

-----------------------------------------------------------------------------
Request(c) == [call |-> c, op |-> call[c].op, try |-> call[c].tries, key |-> call[c].key]

\* make_request: one attempt.
Send(c) ==
    /\ call[c].pc = "send"
    /\ call' = [call EXCEPT ![c].pc = "wait", ![c].tries = @ + 1]
    /\ sent' = sent \cup {[Request(c) EXCEPT !.try = call[c].tries + 1]}
    /\ UNCHANGED <<effects, payment>>

\* The server commits a request, whether or not its client still waits; one with a
\* key it has seen only answers.
Commit(r) ==
    /\ sent' = sent \ {r}
    /\ IF r.key # None /\ \E e \in effects : e.key = r.key
       THEN UNCHANGED <<effects, payment>>
       ELSE /\ effects' = effects \cup {r}
            /\ IF r.op = "purchase"
               THEN payment' = [payment EXCEPT ![r.call] = "open"]
               ELSE UNCHANGED payment
    /\ UNCHANGED call

\* A request that gets lost, or that the server refuses.
Refuse(r) ==
    /\ sent' = sent \ {r}
    /\ UNCHANGED <<call, effects, payment>>

\* What the request of c became: it is committed, or a request with its key is.
Committed(c) ==
    \/ Request(c) \in effects
    \/ call[c].key # None /\ \E e \in effects : e.key = call[c].key

Advance(c, pc) ==
    /\ call[c].pc = "wait"
    /\ call' = [call EXCEPT ![c].pc = pc]
    /\ UNCHANGED <<sent, effects, payment>>

\* A success: the purchase is followed by polling.
AnswerSuccess(c) ==
    /\ Request(c) \notin sent
    /\ Committed(c)
    /\ Advance(c, IF call[c].op = "purchase" THEN "poll" ELSE "ok")

\* 429, 500, 502, 503 or 504, from the server or from a proxy before it: it says
\* nothing of what the server did or will do with the request.
AnswerRetryable(c) ==
    Advance(c, IF call[c].loop /\ call[c].tries < MaxRetries THEN "send" ELSE "err")

\* Any other status, a transport error, the timeout of the request, or a success
\* whose body cannot be read: an error to the caller, never a further attempt.
AnswerError(c) == Advance(c, "err")

-----------------------------------------------------------------------------
\* The buyer's side of a payment.
Settle(c) ==
    /\ payment[c] = "open"
    /\ \E s \in {"paid", "dead"} : payment' = [payment EXCEPT ![c] = s]
    /\ UNCHANGED <<call, sent, effects>>

\* The time limit is looked at before each poll.
PollTimeout(c) ==
    /\ call[c].pc = "poll"
    /\ call' = [call EXCEPT ![c].pc = "err"]
    /\ UNCHANGED <<sent, effects, payment>>

\* Fault: only a failed payment keeps the run back.
PollUnlessDead(c) ==
    /\ call[c].pc = "poll"
    /\ call[c].polls < MaxPolls
    /\ \/ /\ payment[c] # "dead"
          /\ call' = [call EXCEPT ![c].pc = "send", ![c].op = "run", ![c].tries = 0]
       \/ call' = [call EXCEPT ![c].pc = "err"]
    /\ UNCHANGED <<sent, effects, payment>>

\* Fault: no time limit.
PollForever(c) ==
    /\ call[c].pc = "poll"
    /\ \/ /\ payment[c] = "paid"
          /\ call' = [call EXCEPT ![c].pc = "send", ![c].op = "run", ![c].tries = 0]
       \/ /\ payment[c] = "dead"
          /\ call' = [call EXCEPT ![c].pc = "err"]
       \/ call' = [call EXCEPT ![c].polls = (@ + 1) % MaxPolls]
    /\ UNCHANGED <<sent, effects, payment>>

\* A poll: a paid payment is run, a failed, expired or cancelled one ends the call, and
\* so does a transport error; a status that is no success is passed over.
Poll(c) ==
    /\ call[c].pc = "poll"
    /\ call[c].polls < MaxPolls
    /\ \/ /\ payment[c] = "paid"
          /\ call' = [call EXCEPT ![c].pc = "send", ![c].op = "run", ![c].tries = 0]
       \/ call' = [call EXCEPT ![c].pc = "err"]
       \/ call' = [call EXCEPT ![c].polls = @ + 1]
    /\ UNCHANGED <<sent, effects, payment>>

-----------------------------------------------------------------------------
Start(c) ==
    \/ SendSignedEmail(c) \/ Reply(c) \/ Benchmark(c) \/ SaveAgreement(c)
    \/ Register(c) \/ SubmitResponse(c) \/ FreeRun(c) \/ ProRun(c)

Step(c) ==
    \/ LookUp(c) \/ Send(c) \/ Poll(c) \/ PollTimeout(c)
    \/ AnswerSuccess(c) \/ AnswerRetryable(c) \/ AnswerError(c)

Next ==
    \/ \E c \in Calls : Start(c) \/ Step(c) \/ Settle(c)
    \/ \E r \in sent : Commit(r) \/ Refuse(r)

\* Every request has a time limit, and a poll is followed by another or by the limit.
Spec == Init /\ [][Next]_rvars /\ \A c \in Calls : WF_rvars(Step(c))

-----------------------------------------------------------------------------
Ops == {"email", "benchmark", "agreement", "register", "response", "free run",
        "purchase", "run"}
Retried == {"email", "benchmark", "agreement"}
Requests == [call : Calls, op : Ops, try : 1..MaxRetries, key : Keys \cup Calls \cup {None}]
CallType == [pc : {"fresh", "lookup", "send", "wait", "poll", "ok", "err"},
             op : Ops \cup {"none"}, given : Keys \cup {None},
             key : Keys \cup Calls \cup {None}, loop : BOOLEAN,
             tries : 0..MaxRetries, polls : 0..MaxPolls]

TypeOK ==
    /\ call \in [Calls -> CallType]
    /\ sent \in SUBSET Requests
    /\ effects \in SUBSET Requests
    /\ payment \in [Calls -> {"none", "open", "paid", "dead"}]

\* "Admission is not idempotent: a server/proxy error can follow a commit": whatever
\* the network does, one call registers, answers a job, starts a free run, purchases
\* or runs a purchase at most once; and however often an email is sent again, and by
\* how many calls that name the same key, it goes out once. What is retried without a
\* key, a benchmark or an agreement, may happen once for each attempt.
EffectOnce ==
    /\ \A e, f \in effects : e.call = f.call /\ e.op = f.op /\ e.op \notin Retried => e = f
    /\ \A e, f \in effects :
          /\ e.op = "email" /\ f.op = "email"
          /\ \/ e.call = f.call
             \/ call[e.call].given = call[f.call].given /\ call[e.call].given # None
          => e = f

\* A call that returns success had its effect, itself or through a call with its key,
\* and a pro run that succeeds was paid for.
OkMeansDone ==
    \A c \in Calls :
        call[c].pc = "ok" =>
            /\ Committed(c)
            /\ call[c].op = "run" => payment[c] = "paid"

\* Every call returns, a pro run whose payment stays open included.
CallsReturn ==
    \A c \in Calls : call[c].pc # "fresh" ~> call[c].pc \in {"ok", "err"}
=============================================================================
