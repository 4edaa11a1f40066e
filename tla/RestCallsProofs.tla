----------------------------- MODULE RestCallsProofs -----------------------------
(***************************************************************************)
(* Theorems of RestCalls, for every set of calls and keys, every number of  *)
(* attempts and every number of polls: the types; no effect that the client *)
(* means to have once is had twice; a success has had its effect.           *)
(***************************************************************************)
EXTENDS RestCalls, TLAPS

\* What a call keeps to: only the retried methods are in the loop, only they send a
\* key, an email has the key of its caller or its own, and a call that is about to send
\* has an attempt left.
CallKeeps(c) ==
    /\ call[c].op \notin Retried => ~call[c].loop /\ call[c].key = None
    /\ call[c].op = "email" => call[c].key = SendIdempotencyKey(c, call[c].given)
    /\ call[c].pc = "fresh" <=> call[c].op = "none"
    /\ call[c].pc = "poll" => call[c].op = "purchase"
    /\ call[c].pc = "lookup" => call[c].tries = 0
    /\ call[c].pc = "send" => /\ call[c].tries < MaxRetries
                              /\ call[c].loop \/ call[c].tries = 0

\* A call that returned success had its effect; a run is under way only for a payment
\* that was made, and there is a payment only after a purchase.
DoneKeeps(c) ==
    /\ call[c].pc = "ok" => Committed(c)
    /\ call[c].op = "run" => payment[c] = "paid"
    /\ payment[c] # "none" => \E e \in effects : e.call = c /\ e.op = "purchase"

\* What was sent still tells which attempt of which call it is; a call that has gone on
\* to another request has gone on from a purchase to its run.
RequestKeeps(r) ==
    /\ r.op \notin Retried => r.try = 1 /\ r.key = None
    /\ r.op = call[r.call].op => r.try <= call[r.call].tries
    /\ r.op # call[r.call].op => r.op = "purchase" /\ call[r.call].op = "run"
    /\ r.op = "email" => call[r.call].op = "email" /\ r.key = call[r.call].key

KeyedOnce == \A e, f \in effects : e.key # None /\ e.key = f.key => e = f

IInv ==
    /\ TypeOK
    /\ \A c \in Calls : CallKeeps(c)
    /\ \A c \in Calls : DoneKeeps(c)
    /\ \A r \in sent \cup effects : RequestKeeps(r)
    /\ sent \cap effects = {}
    /\ KeyedOnce

-----------------------------------------------------------------------------
\* A call at another place, with another number of attempts, is a call.
LEMMA CallUpdate ==
    ASSUME NEW k \in CallType, NEW pc \in {"send", "wait"}, NEW op \in Ops, NEW n \in 0..MaxRetries
    PROVE  [k EXCEPT !.pc = pc, !.op = op, !.tries = n] \in CallType
BY DEF CallType

LEMMA InitIInv == Init => IInv
<1> SUFFICES ASSUME Init PROVE IInv
    OBVIOUS
<1>1. TypeOK
    BY RetriesAssumption, PollsAssumption DEF Init, TypeOK, CallType, Fresh, Requests
<1>2. \A c \in Calls : CallKeeps(c)
    BY DEF Init, CallKeeps, Fresh, Retried
<1>3. \A c \in Calls : DoneKeeps(c)
    BY DEF Init, DoneKeeps, Fresh
<1> QED
    BY <1>1, <1>2, <1>3 DEF Init, IInv, KeyedOnce

\* A step of one call that leaves what was sent alone: the call goes from what it was to
\* a record k that keeps to the rules, and stays an email if it was one.
LEMMA CallMoves ==
    ASSUME IInv, NEW c \in Calls, NEW k,
           k \in CallType,
           call' = [call EXCEPT ![c] = k],
           UNCHANGED <<sent, effects, payment>>,
           CallKeeps(c)', DoneKeeps(c)',
           call[c].op = "email" => k.op = "email" /\ k.key = call[c].key,
           \/ k.op = call[c].op /\ k.tries = call[c].tries
           \/ call[c].op = "purchase" /\ k.op = "run"
           \/ call[c].op = "none"
    PROVE  IInv'
<1>1. TypeOK'
    BY DEF IInv, TypeOK
<1>2. \A d \in Calls : CallKeeps(d)' /\ DoneKeeps(d)'
  <2> TAKE d \in Calls
  <2>1. CASE d = c
    BY <2>1
  <2>2. CASE d # c
    <3>1. call'[d] = call[d]
        BY <2>2 DEF IInv, TypeOK
    <3> QED
        BY <3>1 DEF IInv, CallKeeps, DoneKeeps, Committed, Request, SendIdempotencyKey
  <2> QED
    BY <2>1, <2>2
<1>3. \A r \in (sent \cup effects)' : RequestKeeps(r)'
  <2> TAKE r \in (sent \cup effects)'
  <2>1. r \in sent \cup effects /\ RequestKeeps(r)
    BY DEF IInv
  <2>2. r.op = "email" => call'[r.call].op = "email" /\ r.key = call'[r.call].key
    BY <2>1 DEF IInv, TypeOK, RequestKeeps, Requests
  <2>3. /\ r.op = call'[r.call].op => r.try <= call'[r.call].tries
        /\ r.op # call'[r.call].op => r.op = "purchase" /\ call'[r.call].op = "run"
    <3>1. r \in Requests /\ r.op \in Ops /\ r.op # "none" /\ call'[c] = k
      BY <2>1 DEF IInv, TypeOK, Requests, Ops
    <3>2. CASE r.call # c
      BY <2>1, <3>1, <3>2 DEF IInv, TypeOK, RequestKeeps, Requests
    <3>3. CASE r.call = c
      BY <2>1, <3>1, <3>3 DEF RequestKeeps
    <3> QED
      BY <3>2, <3>3
  <2> QED
    BY <2>1, <2>2, <2>3 DEF RequestKeeps
<1> QED
    BY <1>1, <1>2, <1>3 DEF IInv, KeyedOnce

LEMMA StartIInv ==
    ASSUME IInv, NEW c \in Calls, Start(c)
    PROVE  IInv'
<1>0. call \in [Calls -> CallType] /\ CallKeeps(c)
    BY DEF IInv, TypeOK
<1>1. ASSUME NEW pc \in {"send", "lookup"}, NEW op \in Ops, NEW given \in Keys \cup {None},
             NEW key \in Keys \cup Calls \cup {None}, NEW loop \in BOOLEAN,
             Prepare(c, pc, op, given, key, loop),
             op \notin Retried => ~loop /\ key = None,
             op = "email" => key = SendIdempotencyKey(c, given),
             op # "run"
      PROVE  IInv'
  <2> DEFINE k == [pc |-> pc, op |-> op, given |-> given, key |-> key, loop |-> loop,
                   tries |-> 0, polls |-> 0]
  <2>1. call' = [call EXCEPT ![c] = k] /\ call[c].pc = "fresh"
        /\ UNCHANGED <<sent, effects, payment>>
    BY <1>1 DEF Prepare
  <2>2. call'[c] = k
    BY <1>0, <2>1
  <2>3. CallKeeps(c)'
    <3>1. pc # "fresh" /\ pc # "poll" /\ op # "none"
      BY <1>1 DEF Ops
    <3>2. /\ k.pc = pc /\ k.op = op /\ k.given = given /\ k.key = key /\ k.loop = loop
          /\ k.tries = 0 /\ 0 < MaxRetries
      BY RetriesAssumption
    <3> HIDE DEF k
    <3> QED
      BY <1>1, <2>2, <3>1, <3>2 DEF CallKeeps, SendIdempotencyKey
  <2>4. call[c].op = "none"
    BY <1>0, <2>1 DEF CallKeeps
  <2>5. k \in CallType
    BY RetriesAssumption, PollsAssumption DEF CallType
  <2>6. DoneKeeps(c)'
    <3>1. k.pc = pc /\ k.op = op
      OBVIOUS
    <3> HIDE DEF k
    <3> QED
      BY <1>1, <2>1, <2>2, <3>1 DEF IInv, DoneKeeps
  <2> HIDE DEF k
  <2> QED
    BY <2>1, <2>3, <2>4, <2>5, <2>6, CallMoves
<1>2. CASE SendSignedEmail(c)
    BY <1>1, <1>2 DEF SendSignedEmail, SendIdempotencyKey, Retried, Ops
<1>3. CASE Reply(c)
    BY <1>1, <1>3 DEF Reply, SendIdempotencyKey, Retried, Ops
<1>4. CASE Benchmark(c) \/ SaveAgreement(c)
    BY <1>1, <1>4 DEF Benchmark, SaveAgreement, Retried, Ops
<1>5. CASE Register(c) \/ SubmitResponse(c) \/ FreeRun(c) \/ ProRun(c)
    BY <1>1, <1>5 DEF Register, SubmitResponse, FreeRun, ProRun, Retried, Ops
<1> QED
    BY <1>2, <1>3, <1>4, <1>5 DEF Start

LEMMA SendIInv ==
    ASSUME IInv, NEW c \in Calls, Send(c)
    PROVE  IInv'
<1> DEFINE r == [Request(c) EXCEPT !.try = call[c].tries + 1]
           k == [call[c] EXCEPT !.pc = "wait", !.tries = @ + 1]
<1>1. /\ call \in [Calls -> CallType] /\ CallKeeps(c) /\ call[c].pc = "send"
      /\ call' = [call EXCEPT ![c] = k] /\ sent' = sent \cup {r}
      /\ UNCHANGED <<effects, payment>>
    BY DEF IInv, TypeOK, Send
<1>2. k \in CallType /\ r \in Requests
  <2>1. call[c] \in CallType /\ call[c].tries + 1 \in 1..MaxRetries /\ call[c].op \in Ops
    BY <1>1, RetriesAssumption DEF CallType, CallKeeps
  <2>2. r = [call |-> c, op |-> call[c].op, try |-> call[c].tries + 1, key |-> call[c].key]
    BY DEF Request
  <2>3. r \in Requests
    BY <2>1, <2>2 DEF CallType, Requests
  <2>4. k = [call[c] EXCEPT !.pc = "wait", !.op = call[c].op, !.tries = call[c].tries + 1]
    BY <2>1 DEF CallType
  <2>5. call[c].tries + 1 \in 0..MaxRetries
    BY <2>1, RetriesAssumption
  <2>6. k \in CallType
    BY <2>1, <2>4, <2>5, CallUpdate
  <2> QED
    BY <2>3, <2>6
<1>3. call'[c] = k /\ \A d \in Calls \ {c} : call'[d] = call[d]
    BY <1>1
<1>4. TypeOK'
    BY <1>1, <1>2 DEF IInv, TypeOK
<1>5. ASSUME NEW d \in Calls PROVE CallKeeps(d)' /\ DoneKeeps(d)'
  <2>1. CallKeeps(d)'
    BY <1>1, <1>3 DEF IInv, CallKeeps, CallType, SendIdempotencyKey
  <2>2. DoneKeeps(d) /\ payment' = payment /\ effects' = effects
    BY <1>1 DEF IInv
  <2>3. CASE d = c
    <3>1. call'[d].pc = "wait" /\ call'[d].op = call[d].op
      BY <1>1, <1>3, <2>3 DEF CallType
    <3> QED
      BY <2>1, <2>2, <3>1 DEF DoneKeeps
  <2>4. CASE d # c
    <3>1. call'[d] = call[d]
      BY <1>3, <2>4
    <3> QED
      BY <2>1, <2>2, <3>1 DEF DoneKeeps, Committed, Request
  <2> QED
    BY <2>1, <2>3, <2>4
<1>6. ASSUME NEW q \in (sent \cup effects)' PROVE RequestKeeps(q)'
  <2>1. CASE q = r
    BY <1>1, <1>3, <2>1 DEF RequestKeeps, CallKeeps, CallType, Request
  <2>2. CASE q \in sent \cup effects
    BY <1>1, <1>3, <2>2 DEF IInv, TypeOK, RequestKeeps, Requests, CallType
  <2> QED
    BY <1>1, <2>1, <2>2
<1>7. sent' \cap effects' = {}
  <2>1. r.call = c /\ r.op = call[c].op /\ r.try = call[c].tries + 1 /\ call[c].tries \in Nat
    BY <1>1, RetriesAssumption DEF Request, CallType
  <2>2. ASSUME r \in effects PROVE FALSE
    <3>1. RequestKeeps(r)
      BY <2>2 DEF IInv
    <3> HIDE DEF r
    <3> QED
      BY <2>1, <3>1 DEF RequestKeeps
  <2> QED
    BY <1>1, <2>2 DEF IInv
<1> QED
    BY <1>1, <1>4, <1>5, <1>6, <1>7 DEF IInv, KeyedOnce

LEMMA StepIInv ==
    ASSUME IInv, NEW c \in Calls, Step(c)
    PROVE  IInv'
<1>0. call[c] \in CallType /\ CallKeeps(c) /\ call \in [Calls -> CallType]
    BY DEF IInv, TypeOK
\* A step that changes nothing of the call but where it is.
<1>1. ASSUME NEW pc \in {"send", "poll", "ok", "err"},
             call' = [call EXCEPT ![c].pc = pc], UNCHANGED <<sent, effects, payment>>,
             pc = "send" => call[c].tries < MaxRetries /\ (call[c].loop \/ call[c].tries = 0),
             pc = "poll" => call[c].op = "purchase",
             pc = "ok" => Committed(c),
             call[c].pc # "fresh"
      PROVE  IInv'
  <2> DEFINE k == [call[c] EXCEPT !.pc = pc]
  <2>1. k \in CallType /\ call'[c] = k /\ call' = [call EXCEPT ![c] = k]
    BY <1>0, <1>1 DEF CallType
  <2>2. CallKeeps(c)'
    BY <1>0, <1>1, <2>1 DEF CallKeeps, CallType, SendIdempotencyKey
  <2>3. k.op = call[c].op /\ k.key = call[c].key /\ k.tries = call[c].tries /\ k.pc = pc
    BY <1>0 DEF CallType
  <2> HIDE DEF k
  <2>4. DoneKeeps(c)'
    BY <1>1, <2>1, <2>3 DEF IInv, DoneKeeps, Committed, Request
  <2> QED
    BY <1>1, <2>1, <2>2, <2>3, <2>4, CallMoves
<1>2. CASE LookUp(c)
  <2>1. PICK pc \in {"send", "err"} : call' = [call EXCEPT ![c].pc = pc]
    BY <1>2 DEF LookUp
  <2>2. call[c].tries = 0 /\ 0 < MaxRetries /\ call[c].pc = "lookup"
    BY <1>0, <1>2, RetriesAssumption DEF LookUp, CallKeeps
  <2> QED
    BY <1>1, <1>2, <2>1, <2>2 DEF LookUp
<1>3. CASE Send(c)
    BY <1>3, SendIInv
<1>4. CASE Poll(c)
  <2>1. ASSUME call' = [call EXCEPT ![c].pc = "send", ![c].op = "run", ![c].tries = 0],
               payment[c] = "paid"
        PROVE  IInv'
    <3> DEFINE k == [call[c] EXCEPT !.pc = "send", !.op = "run", !.tries = 0]
    <3>0. 0 \in 0..MaxRetries /\ "run" \in Ops
      BY RetriesAssumption DEF Ops
    <3>1. k \in CallType /\ call'[c] = k /\ call' = [call EXCEPT ![c] = k]
      BY <1>0, <2>1, <3>0, CallUpdate
    <3>2. call[c].op = "purchase"
      BY <1>0, <1>4 DEF CallKeeps, Poll
    <3>3. CallKeeps(c)'
      <4>1. /\ k.pc = "send" /\ k.op = "run" /\ k.key = call[c].key /\ k.loop = call[c].loop
            /\ k.tries = 0 /\ 0 < MaxRetries
        BY <1>0, RetriesAssumption DEF CallType
      <4>2. call[c].key = None /\ ~call[c].loop
        BY <1>0, <3>2 DEF CallKeeps, Retried
      <4> HIDE DEF k
      <4> QED
        BY <3>1, <4>1, <4>2 DEF CallKeeps
    <3>4. k.pc = "send" /\ k.op = "run"
      BY <1>0 DEF CallType
    <3> HIDE DEF k
    <3>5. DoneKeeps(c)'
      BY <1>4, <2>1, <3>1, <3>4 DEF Poll, IInv, DoneKeeps
    <3> QED
      BY <1>4, <3>1, <3>2, <3>3, <3>4, <3>5, CallMoves DEF Poll
  <2>2. ASSUME call' = [call EXCEPT ![c].polls = @ + 1]
        PROVE  IInv'
    <3> DEFINE k == [call[c] EXCEPT !.polls = @ + 1]
    <3>1. k \in CallType /\ call'[c] = k /\ call' = [call EXCEPT ![c] = k]
      BY <1>0, <1>4, <2>2, PollsAssumption DEF CallType, Poll
    <3>2. CallKeeps(c)' /\ k.op = call[c].op /\ k.key = call[c].key
          /\ k.tries = call[c].tries /\ k.pc = call[c].pc
      BY <1>0, <3>1 DEF CallKeeps, CallType, SendIdempotencyKey
    <3> HIDE DEF k
    <3>3. DoneKeeps(c)'
      BY <1>4, <3>1, <3>2 DEF Poll, IInv, DoneKeeps
    <3> QED
      BY <1>4, <3>1, <3>2, <3>3, CallMoves DEF Poll
  <2> QED
    BY <1>1, <1>4, <2>1, <2>2 DEF Poll
<1>5. CASE PollTimeout(c)
    BY <1>1, <1>5 DEF PollTimeout
<1>6. CASE AnswerSuccess(c) \/ AnswerError(c)
    BY <1>1, <1>6 DEF AnswerSuccess, AnswerError, Advance
<1>7. CASE AnswerRetryable(c)
  <2>1. CASE call[c].loop /\ call[c].tries < MaxRetries
    BY <1>1, <1>7, <2>1 DEF AnswerRetryable, Advance
  <2>2. CASE ~(call[c].loop /\ call[c].tries < MaxRetries)
    <3>1. call[c].pc = "wait" /\ call' = [call EXCEPT ![c].pc = "err"]
          /\ UNCHANGED <<sent, effects, payment>>
      BY <1>7, <2>2 DEF AnswerRetryable, Advance
    <3> QED
      BY <1>1, <3>1
  <2> QED
    BY <2>1, <2>2
<1> QED
    BY <1>2, <1>3, <1>4, <1>5, <1>6, <1>7 DEF Step

-----------------------------------------------------------------------------
\* What the server and the network do to a request.
LEMMA ServerIInv ==
    ASSUME IInv, NEW r \in sent, Commit(r) \/ Refuse(r)
    PROVE  IInv'
<1>1. /\ call' = call /\ sent' = sent \ {r} /\ effects' \subseteq effects \cup {r}
      /\ r \in effects' /\ r \notin effects /\ r.key # None => \A e \in effects : e.key # r.key
    BY DEF Commit, Refuse
<1>2. TypeOK'
  <2>1. r \in Requests
    BY DEF IInv, TypeOK
  <2>2. payment' \in [Calls -> {"none", "open", "paid", "dead"}]
    BY <2>1 DEF IInv, TypeOK, Commit, Refuse, Requests
  <2> QED
    BY <1>1, <2>1, <2>2 DEF IInv, TypeOK
<1>3. \A c \in Calls : CallKeeps(c)'
    BY <1>1 DEF IInv, CallKeeps, SendIdempotencyKey
<1>6. effects \subseteq effects' /\ sent' \cap effects' = {}
    BY <1>1 DEF IInv, Commit, Refuse
\* A purchase opens its payment once: a payment that was made stays made.
<1>7. ASSUME NEW c \in Calls PROVE DoneKeeps(c)'
  <2>1. call[c].pc = "ok" => Committed(c)'
    BY <1>1, <1>6 DEF IInv, DoneKeeps, Committed, Request
  <2>2. CASE payment'[c] = payment[c]
    BY <1>1, <1>6, <2>1, <2>2 DEF IInv, DoneKeeps
  <2>3. CASE payment'[c] # payment[c]
    <3>1. r.call = c /\ r.op = "purchase" /\ r \in effects' /\ r \in Requests
      BY <2>3 DEF IInv, TypeOK, Commit, Refuse
    <3>2. ASSUME payment[c] # "none" PROVE FALSE
      <4>1. PICK e \in effects : e.call = c /\ e.op = "purchase"
        BY <3>2 DEF IInv, DoneKeeps
      <4>2. e \in Requests /\ RequestKeeps(e) /\ RequestKeeps(r)
        BY DEF IInv, TypeOK
      <4>3. e = r
        BY <3>1, <4>1, <4>2 DEF RequestKeeps, Requests, Retried
      <4> QED
        BY <4>3 DEF IInv
    <3>3. call[c].op # "run"
      BY <3>2 DEF IInv, DoneKeeps
    <3> QED
      BY <1>1, <2>1, <3>1, <3>3 DEF DoneKeeps
  <2> QED
    BY <2>2, <2>3
<1>4. \A q \in (sent \cup effects)' : RequestKeeps(q)'
    BY <1>1 DEF IInv, RequestKeeps
<1>5. KeyedOnce'
    BY <1>1 DEF IInv, KeyedOnce
<1> QED
    BY <1>2, <1>3, <1>4, <1>5, <1>6, <1>7 DEF IInv

LEMMA NextIInv == IInv /\ [Next]_rvars => IInv'
<1> SUFFICES ASSUME IInv, [Next]_rvars PROVE IInv'
    OBVIOUS
<1>1. CASE UNCHANGED rvars
    BY <1>1 DEF rvars, IInv, TypeOK, CallKeeps, DoneKeeps, Committed, Request, RequestKeeps,
                KeyedOnce, SendIdempotencyKey
<1>2. ASSUME NEW c \in Calls, Settle(c) PROVE IInv'
  <2>1. UNCHANGED <<call, sent, effects>> /\ payment[c] = "open" /\ TypeOK'
        /\ \A d \in Calls \ {c} : payment'[d] = payment[d]
    BY <1>2 DEF Settle, IInv, TypeOK
  <2>2. ASSUME NEW d \in Calls PROVE DoneKeeps(d)'
    BY <2>1 DEF IInv, DoneKeeps, Committed, Request
  <2> QED
    BY <2>1, <2>2 DEF IInv, CallKeeps, RequestKeeps, KeyedOnce, SendIdempotencyKey
<1> QED
    BY <1>1, <1>2, StartIInv, StepIInv, ServerIInv DEF Next

LEMMA Invariant == Spec => []IInv
BY InitIInv, NextIInv, PTL DEF Spec

-----------------------------------------------------------------------------
\* Every call is at one of its steps, and no call makes more attempts than it has.
THEOREM TypeCorrect == Spec => []TypeOK
<1>1. IInv => TypeOK
    BY DEF IInv
<1> QED
    BY <1>1, Invariant, PTL

\* A registration, a job response, a free run, a purchase or a paid run happens at most
\* once for a call, and an email goes out at most once for a call and for a key, however
\* many attempts there are and whatever the server does with an attempt given up.
THEOREM EffectsOnce == Spec => []EffectOnce
<1>1. IInv => EffectOnce
  <2> SUFFICES ASSUME IInv, NEW e \in effects, NEW f \in effects
               PROVE  /\ e.call = f.call /\ e.op = f.op /\ e.op \notin Retried => e = f
                      /\ /\ e.op = "email" /\ f.op = "email"
                         /\ \/ e.call = f.call
                            \/ call[e.call].given = call[f.call].given /\ call[e.call].given # None
                         => e = f
    BY DEF EffectOnce
  <2>1. e \in Requests /\ f \in Requests /\ RequestKeeps(e) /\ RequestKeeps(f)
        /\ CallKeeps(e.call) /\ CallKeeps(f.call)
    BY DEF IInv, TypeOK, Requests
  <2>2. e.call = f.call /\ e.op = f.op /\ e.op \notin Retried => e = f
    BY <2>1 DEF RequestKeeps, Requests
  <2>3. ASSUME e.op = "email", f.op = "email",
               \/ e.call = f.call
               \/ call[e.call].given = call[f.call].given /\ call[e.call].given # None
        PROVE  e = f
    <3>1. e.key = f.key /\ e.key # None
      BY <2>1, <2>3, KeysAssumption DEF RequestKeeps, CallKeeps, SendIdempotencyKey, Requests
    <3> QED
      BY <3>1 DEF IInv, KeyedOnce
  <2> QED
    BY <2>2, <2>3
<1> QED
    BY <1>1, Invariant, PTL

\* A client method that returns success had its effect, and a pro run that succeeds was
\* paid for.
THEOREM SuccessIsDone == Spec => []OkMeansDone
<1>1. IInv => OkMeansDone
    BY DEF IInv, DoneKeeps, OkMeansDone
<1> QED
    BY <1>1, Invariant, PTL
=============================================================================
