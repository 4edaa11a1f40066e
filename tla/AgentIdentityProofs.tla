--------------------------- MODULE AgentIdentityProofs ---------------------------
(***************************************************************************)
(* Theorems of AgentIdentity, for any providers, calls and number of        *)
(* versions: what the config names can be loaded, the server knows only     *)
(* versions that were committed, and no provider signs with a key it has    *)
(* already replaced.                                                        *)
(***************************************************************************)
EXTENDS AgentIdentity, TLAPS

\* The places of a call that has its provider's mutex, and the calls that have made
\* the next version and not yet had the config name it.
Held == {"load", "save", "rotate", "swap", "truncate", "write"}
Pending(f) == f.op = "update" /\ f.at \in {"save", "truncate", "write"}

\* Keys and versions are numbered in the order they are made.
NumbersGrow ==
    /\ keyFile <= newest
    /\ \A p \in Providers : rotated[p] <= keyFile
    /\ \A v \in committed : v.rev <= newest

\* What the config names or has named is saved, and the server knows nothing else.
DiskKeeps ==
    /\ config \in {named, Torn} /\ First \in committed
    /\ named \in committed /\ committed \subseteq docs /\ registered \in committed
    /\ ~stale => named.key = keyFile

\* A version on its way to the config: nobody has seen it, and it is signed with a key
\* that its provider has not replaced; with the present one if no other provider has
\* written the config since.
PendingKeeps(c) ==
    /\ call[c].next \notin committed /\ call[c].next.rev <= newest
    /\ rotated[Of[c]] <= call[c].next.key /\ call[c].next.key <= keyFile
    /\ ~stale /\ call[c].base = named => call[c].next.key = keyFile
    /\ call[c].at # "save" => call[c].next \in docs

CallKeeps(c) ==
    /\ call[c].base \in committed
    /\ call[c].at \in Held => owner[Of[c]] = c
    /\ mem[Of[c]] = Down => call[c].at = "ready"
    /\ call[c].at = "save" => call[c].op = "update"
    /\ call[c].at = "lock" => call[c].op = "email"
    /\ call[c].at \in {"swap", "send"} => call[c].next \in committed
    /\ call[c].at = "swap" => call[c].next.key <= keyFile
    /\ Pending(call[c]) => PendingKeeps(c)

Apart(c, d) ==
    c # d /\ Pending(call[c]) /\ Pending(call[d]) => call[c].next.rev # call[d].next.rev

MemKeeps == \A p \in Providers : mem[p] # Down => mem[p].key >= rotated[p]

IInv ==
    /\ IdTypeOK /\ NumbersGrow /\ DiskKeeps /\ MemKeeps
    /\ \A c \in Calls : CallKeeps(c)
    /\ \A c, d \in Calls : Apart(c, d)

-----------------------------------------------------------------------------
LEMMA InitIInv == Init => IInv
<1> SUFFICES ASSUME Init PROVE IInv
    OBVIOUS
<1>1. First \in Version /\ First.rev = 0 /\ First.key = 0
    BY DEF First, Version
<1>2. Idle \in Frame /\ Idle.at = "ready" /\ Idle.base = First /\ ~Pending(Idle)
    BY <1>1 DEF Idle, Frame, Phases, Pending
<1>3. IdTypeOK
  <2>1. 0 \in 0..MaxRev /\ 0 \in Nat
    BY MaxRevIsNat
  <2>2. call \in [Calls -> Frame] /\ rotated \in [Providers -> Nat]
        /\ mem \in [Providers -> Version \cup {Down}] /\ owner \in [Providers -> Calls \cup {Nobody}]
    BY <1>2, <2>1 DEF Init
  <2> QED
    BY <1>1, <2>1, <2>2 DEF Init, IdTypeOK
<1>4. NumbersGrow /\ DiskKeeps /\ MemKeeps
    BY <1>1 DEF Init, NumbersGrow, DiskKeeps, MemKeeps
<1>5. \A c \in Calls : call[c] = Idle
    BY DEF Init
<1>6. \A c \in Calls : CallKeeps(c)
    BY <1>2, <1>5 DEF Init, CallKeeps, Held
<1>7. \A c, d \in Calls : Apart(c, d)
    BY <1>2, <1>5 DEF Apart
<1> QED
    BY <1>3, <1>4, <1>6, <1>7 DEF IInv

\* One call goes from what it was to a frame k that keeps to the rules.  The others keep
\* to theirs: versions and keys only grow, what is committed is new or was this call's,
\* and another name in the config is a new version or is on record as stale.
LEMMA CallMoves ==
    ASSUME IInv, NEW c \in Calls, NEW k,
           call' = [call EXCEPT ![c] = k],
           IdTypeOK', NumbersGrow', DiskKeeps', MemKeeps', CallKeeps(c)',
           newest <= newest', keyFile <= keyFile', docs \subseteq docs', committed \subseteq committed',
           \A p \in Providers : mem'[p] = Down => mem[p] = Down,
           \A p \in Providers : rotated'[p] = rotated[p] \/ owner[p] = c,
           \A p \in Providers : owner'[p] = owner[p] \/ owner[p] \notin Calls \ {c},
           \A v \in committed' : \/ v \in committed \/ v.rev > newest
                                 \/ Pending(call[c]) /\ v = call[c].next,
           stale => stale',
           named' = named \/ named' \notin committed \/ stale',
           keyFile' = keyFile \/ named' \notin committed,
           Pending(k) => \/ k.next.rev > newest
                         \/ Pending(call[c]) /\ k.next = call[c].next
    PROVE  IInv'
<1>1. call[c] \in Frame /\ call'[c] = k
      /\ \A d \in Calls \ {c} : call'[d] = call[d] /\ call[d] \in Frame
    BY DEF IInv, IdTypeOK
<1>2. \A d \in Calls : Of[d] \in Providers
    BY CallsHaveProviders
<1>3. newest \in Nat /\ newest' \in Nat /\ keyFile \in Nat /\ keyFile' \in Nat
    BY MaxRevIsNat DEF IInv, IdTypeOK
<1>4. ASSUME NEW d \in Calls \ {c} PROVE CallKeeps(d)'
  <2>1. CallKeeps(d) /\ call'[d] = call[d] /\ call[d] \in Frame /\ Of[d] \in Providers
    BY <1>1, <1>2 DEF IInv
  <2>2. call[d].next.rev \in Nat /\ call[d].next.key \in Nat
    BY <2>1 DEF Frame, Version
  <2>3. call[d].at \in Held => owner[Of[d]] = d /\ owner'[Of[d]] = d /\ rotated'[Of[d]] = rotated[Of[d]]
    BY <2>1 DEF CallKeeps
  <2>4. Pending(call[d]) => PendingKeeps(d)'
    <3> SUFFICES ASSUME Pending(call[d]) PROVE PendingKeeps(d)'
      OBVIOUS
    <3>1. PendingKeeps(d) /\ call[d].base \in committed /\ call[d].at \in Held
      BY <2>1 DEF CallKeeps, Pending, Held
    <3>2. call[d].next \notin committed'
      BY <3>1, <2>1, <2>2, <1>3 DEF PendingKeeps, IInv, Apart
    <3>3. call[d].next.rev <= newest' /\ rotated'[Of[d]] <= call[d].next.key /\ call[d].next.key <= keyFile'
      BY <3>1, <2>2, <2>3, <1>3 DEF PendingKeeps
    <3>4. ~stale' /\ call[d].base = named' => call[d].next.key = keyFile'
      BY <3>1 DEF PendingKeeps
    <3> QED
      BY <3>1, <3>2, <3>3, <3>4, <2>1 DEF PendingKeeps
  <2>5. call[d].at = "swap" => call[d].next.key <= keyFile'
    BY <2>1, <2>2, <1>3 DEF CallKeeps
  <2> QED
    BY <2>1, <2>3, <2>4, <2>5 DEF CallKeeps
<1>5. \A d \in Calls : CallKeeps(d)'
    BY <1>4
<1>6. \A d \in Calls \ {c} : Pending(call[d]) => call[d].next.rev <= newest /\ call[d].next.rev \in Nat
    BY <1>1 DEF IInv, CallKeeps, PendingKeeps, Frame, Version
<1>7. \A d \in Calls \ {c} : Pending(k) /\ Pending(call[d]) => k.next.rev # call[d].next.rev
    BY <1>3, <1>6 DEF IInv, Apart
<1>8. \A d, e \in Calls : Apart(d, e)'
    BY <1>1, <1>7 DEF IInv, Apart
<1> QED
    BY <1>5, <1>8 DEF IInv

\* A step that leaves the keys, the history and the agents in memory alone.
LEMMA QuietMoves ==
    ASSUME IInv, NEW c \in Calls, NEW k \in Frame,
           call' = [call EXCEPT ![c] = k],
           UNCHANGED <<keyFile, mem, history>>,
           config' \in {config, Torn},
           newest' \in newest..MaxRev,
           docs \subseteq docs', docs' \subseteq Version,
           registered' \in committed,
           CallKeeps(c)',
           \/ owner' = owner
           \/ owner[Of[c]] \in {Nobody, c} /\ \E o \in {Nobody, c} : owner' = [owner EXCEPT ![Of[c]] = o],
           Pending(k) => \/ k.next.rev > newest
                         \/ Pending(call[c]) /\ k.next = call[c].next
    PROVE  IInv'
<1>1. UNCHANGED <<named, committed, stale, rotated, keyFile, mem>>
    BY DEF history
<1>2. newest \in Nat /\ newest' \in Nat /\ newest <= newest' /\ newest' \in 0..MaxRev /\ keyFile \in Nat
    BY MaxRevIsNat DEF IInv, IdTypeOK
<1>3. owner' \in [Providers -> Calls \cup {Nobody}]
      /\ \A p \in Providers : owner'[p] = owner[p] \/ owner[p] \notin Calls \ {c}
    BY CallsHaveProviders DEF IInv, IdTypeOK
<1>4. IdTypeOK'
    BY <1>1, <1>2, <1>3 DEF IInv, IdTypeOK
<1>5. \A v \in committed : v.rev \in Nat
    BY DEF IInv, IdTypeOK, Version
<1>6. NumbersGrow'
    BY <1>1, <1>2, <1>5 DEF IInv, NumbersGrow
<1>7. DiskKeeps' /\ MemKeeps'
    BY <1>1 DEF IInv, DiskKeeps, MemKeeps
<1>8. /\ \A p \in Providers : mem'[p] = Down => mem[p] = Down
      /\ \A p \in Providers : rotated'[p] = rotated[p] \/ owner[p] = c
    BY <1>1
<1>9. /\ committed \subseteq committed' /\ named' = named
      /\ \A v \in committed' : v \in committed \/ v.rev > newest \/ (Pending(call[c]) /\ v = call[c].next)
  <2>1. committed' = committed /\ named' = named
    BY <1>1
  <2> QED
    BY <2>1
<1>10. keyFile <= keyFile' /\ keyFile' = keyFile
    BY <1>1, <1>2
<1>11. stale => stale'
    BY <1>1
<1> QED
    BY <1>2, <1>3, <1>4, <1>6, <1>7, <1>8, <1>9, <1>10, <1>11, CallMoves
-----------------------------------------------------------------------------
\* What stands before any step.
LEMMA Stands ==
    ASSUME IInv, NEW c \in Calls
    PROVE  /\ newest \in newest..MaxRev /\ newest \in Nat /\ keyFile \in Nat /\ keyFile <= newest
           /\ docs \subseteq Version /\ committed \subseteq docs /\ registered \in committed
           /\ call[c] \in Frame /\ call[c].base \in Version /\ call[c].next \in Version
           /\ Of[c] \in Providers /\ CallKeeps(c)
           /\ \A k : [call EXCEPT ![c] = k][c] = k
           /\ \A o : [owner EXCEPT ![Of[c]] = o][Of[c]] = o
           /\ \A v \in Version : v.rev \in Nat /\ v.key \in Nat
BY MaxRevIsNat, CallsHaveProviders DEF IInv, IdTypeOK, NumbersGrow, DiskKeeps, Frame, Version

\* A call that returns keeps to the rules.
LEMMA ReturnKeeps ==
    ASSUME IInv, NEW c \in Calls, Return(c), First \in committed'
    PROVE  CallKeeps(c)' /\ Idle \in Frame /\ ~Pending(Idle)
<1>1. Idle \in Frame /\ Idle.at = "ready" /\ Idle.base = First
    BY DEF Idle, Frame, Phases, First, Version
<1>2. call'[c] = Idle
    BY Stands DEF Return
<1>3. ~Pending(Idle)
    BY <1>1 DEF Pending
<1> QED
    BY <1>1, <1>2, <1>3 DEF CallKeeps, Held

\* The place of a call is one field of its frame.
LEMMA GotoFrame ==
    ASSUME IInv, NEW c \in Calls, NEW phase \in Phases, Goto(c, phase)
    PROVE  \E k \in Frame :
             /\ call' = [call EXCEPT ![c] = k] /\ call'[c] = k
             /\ k.at = phase /\ k.op = call[c].op /\ k.base = call[c].base
             /\ k.next = call[c].next /\ k.header = call[c].header
<1> DEFINE k == [call[c] EXCEPT !.at = phase]
<1>1. call[c] \in Frame
    BY Stands
<1>2. k \in Frame /\ k.at = phase /\ k.op = call[c].op /\ k.base = call[c].base
      /\ k.next = call[c].next /\ k.header = call[c].header
    BY <1>1 DEF Frame
<1>3. call' = [call EXCEPT ![c] = k]
    BY DEF Goto
<1> HIDE DEF k
<1>4. call'[c] = k
    BY <1>3, Stands
<1> QED
    BY <1>2, <1>3, <1>4

-----------------------------------------------------------------------------
LEMMA BeginIInv == ASSUME IInv, NEW c \in Calls, NEW o \in {"update", "rotate"}, Begin(c, o) PROVE IInv'
<1> DEFINE k == [Idle EXCEPT !.at = "load", !.op = o, !.base = config]
<1>1. /\ call' = [call EXCEPT ![c] = k]
      /\ config # Torn /\ mem[Of[c]] # Down /\ owner[Of[c]] = Nobody
      /\ owner' = [owner EXCEPT ![Of[c]] = c]
      /\ UNCHANGED <<config, docs, keyFile, newest, mem, registered, history>>
    BY DEF Begin, Lock, disk
<1>2. config \in Version /\ config \in committed
    BY <1>1 DEF IInv, IdTypeOK, DiskKeeps
<1>3. k \in Frame /\ k.at = "load" /\ k.base = config /\ ~Pending(k)
    BY <1>2 DEF Idle, Frame, Phases, First, Version, Pending
<1>4. call'[c] = k /\ owner'[Of[c]] = c
    BY <1>1, Stands
<1> HIDE DEF k
<1>5. CallKeeps(c)'
    BY <1>1, <1>2, <1>3, <1>4 DEF CallKeeps, history
<1> QED
    BY <1>1, <1>3, <1>5, Stands, QuietMoves

LEMMA LoadIInv == ASSUME IInv, NEW c \in Calls, Load(c) PROVE IInv'
<1> DEFINE new == [rev |-> newest + 1, key |-> keyFile]
           g == [call[c] EXCEPT !.header = mem[Of[c]].key]
<1>1. /\ call[c].at = "load" /\ UNCHANGED <<config, docs, keyFile, mem, owner, registered, history>>
      /\ \/ /\ call[c].op = "rotate"
            /\ call' = [call EXCEPT ![c] = [g EXCEPT !.at = "rotate"]]
            /\ newest' = newest
         \/ /\ call[c].op = "update" /\ newest < MaxRev
            /\ call' = [call EXCEPT ![c] = [g EXCEPT !.at = "save", !.next = new]]
            /\ newest' = newest + 1
    BY DEF Load, Loaded, disk
<1>2. mem[Of[c]] \in Version /\ owner[Of[c]] = c /\ call[c].base \in committed
    BY <1>1, Stands DEF IInv, IdTypeOK, CallKeeps, Held
<1>3. g \in Frame /\ g.op = call[c].op /\ g.base = call[c].base
    BY <1>2, Stands DEF Frame, Version
<1>4. UNCHANGED <<named, committed, stale, rotated>>
    BY <1>1 DEF history
<1> HIDE DEF g
<1>5. CASE call[c].op = "rotate" /\ call' = [call EXCEPT ![c] = [g EXCEPT !.at = "rotate"]]
           /\ newest' = newest
  <2> DEFINE k == [g EXCEPT !.at = "rotate"]
  <2>1. k \in Frame /\ k.at = "rotate" /\ k.op = "rotate" /\ k.base = call[c].base /\ ~Pending(k)
    BY <1>3, <1>5 DEF Frame, Phases, Pending
  <2>2. call' = [call EXCEPT ![c] = k]
    BY <1>5
  <2> HIDE DEF k
  <2>3. call'[c] = k
    BY <2>2, Stands
  <2>4. CallKeeps(c)'
    BY <2>1, <2>3, <1>1, <1>2, <1>4, Stands DEF CallKeeps
  <2> QED
    BY <2>1, <2>2, <2>4, <1>1, <1>5, Stands, QuietMoves
<1>6. CASE call[c].op = "update" /\ newest < MaxRev /\ newest' = newest + 1
           /\ call' = [call EXCEPT ![c] = [g EXCEPT !.at = "save", !.next = new]]
  <2> DEFINE k == [g EXCEPT !.at = "save", !.next = new]
  <2>1. new \in Version /\ new.rev = newest + 1 /\ new.key = keyFile
    BY Stands DEF Version
  <2> HIDE DEF new
  <2>2. k \in Frame /\ k.at = "save" /\ k.op = "update" /\ k.base = call[c].base /\ k.next = new
    BY <1>3, <1>6, <2>1 DEF Frame, Phases
  <2>3. call' = [call EXCEPT ![c] = k]
    BY <1>6
  <2> HIDE DEF k
  <2>4. call'[c] = k
    BY <2>3, Stands
  <2>5. new \notin committed
    BY <2>1, Stands DEF IInv, NumbersGrow
  <2>6. PendingKeeps(c)'
    BY <2>1, <2>2, <2>4, <2>5, <1>1, <1>4, <1>6, Stands DEF PendingKeeps, IInv, NumbersGrow
  <2>7. CallKeeps(c)'
    BY <2>2, <2>4, <2>6, <1>1, <1>2, <1>4, Stands DEF CallKeeps
  <2>8. newest' \in newest..MaxRev /\ k.next.rev > newest
    BY <2>1, <2>2, <1>6, MaxRevIsNat, Stands
  <2> QED
    BY <2>2, <2>3, <2>7, <2>8, <1>1, Stands, QuietMoves
<1> QED
    BY <1>1, <1>5, <1>6

LEMMA SaveIInv == ASSUME IInv, NEW c \in Calls, Save(c) PROVE IInv'
<1>1. /\ call[c].at = "save" /\ docs' = docs \cup {call[c].next} /\ Goto(c, "truncate")
      /\ UNCHANGED <<config, keyFile, newest, mem, owner, registered, history>>
    BY DEF Save
<1>2. PICK k \in Frame :
        /\ call' = [call EXCEPT ![c] = k] /\ call'[c] = k
        /\ k.at = "truncate" /\ k.op = call[c].op /\ k.base = call[c].base /\ k.next = call[c].next
    BY <1>1, GotoFrame DEF Phases
<1>3. Pending(call[c]) /\ PendingKeeps(c)
    BY <1>1, Stands DEF CallKeeps, Pending
<1>4. UNCHANGED <<named, committed, stale, rotated>>
    BY <1>1 DEF history
<1>5. PendingKeeps(c)'
    BY <1>1, <1>2, <1>3, <1>4 DEF PendingKeeps
<1>6. CallKeeps(c)'
    BY <1>1, <1>2, <1>4, <1>5, Stands DEF CallKeeps, Held
<1> QED
    BY <1>1, <1>2, <1>3, <1>6, Stands, QuietMoves

\* Reading the config for its email, and taking the mutex with what was read.
LEMMA EmailIInv == ASSUME IInv, NEW c \in Calls, ReadForEmail(c) \/ LockForEmail(c) PROVE IInv'
<1>1. CASE ReadForEmail(c)
  <2> DEFINE k == [Idle EXCEPT !.at = "lock", !.op = "email", !.base = config]
  <2>1. /\ call' = [call EXCEPT ![c] = k] /\ config # Torn /\ mem[Of[c]] # Down
        /\ UNCHANGED <<config, docs, keyFile, newest, mem, owner, registered, history>>
    BY <1>1 DEF ReadForEmail, disk
  <2>2. config \in Version /\ config \in committed
    BY <2>1 DEF IInv, IdTypeOK, DiskKeeps
  <2>3. k \in Frame /\ k.at = "lock" /\ k.op = "email" /\ k.base = config /\ ~Pending(k)
    BY <2>2 DEF Idle, Frame, Phases, First, Version, Pending
  <2> HIDE DEF k
  <2>4. call'[c] = k
    BY <2>1, Stands
  <2>5. CallKeeps(c)'
    BY <2>1, <2>2, <2>3, <2>4 DEF CallKeeps, Held, history
  <2> QED
    BY <2>1, <2>3, <2>5, Stands, QuietMoves
<1>2. CASE LockForEmail(c)
  <2>1. /\ call[c].at = "lock" /\ Goto(c, "truncate") /\ owner[Of[c]] = Nobody
        /\ owner' = [owner EXCEPT ![Of[c]] = c]
        /\ UNCHANGED <<config, docs, keyFile, newest, mem, registered, history>>
    BY <1>2 DEF LockForEmail, Lock, disk
  <2>2. PICK k \in Frame :
          /\ call' = [call EXCEPT ![c] = k] /\ call'[c] = k
          /\ k.at = "truncate" /\ k.op = call[c].op /\ k.base = call[c].base
    BY <2>1, GotoFrame DEF Phases
  <2>3. k.op = "email" /\ ~Pending(k)
    BY <2>1, <2>2, Stands DEF CallKeeps, Pending
  <2>4. owner'[Of[c]] = c
    BY <2>1, Stands
  <2>5. CallKeeps(c)'
    BY <2>1, <2>2, <2>3, <2>4, Stands DEF CallKeeps, history
  <2> QED
    BY <2>1, <2>2, <2>3, <2>5, Stands, QuietMoves
<1> QED
    BY <1>1, <1>2

LEMMA TruncateIInv == ASSUME IInv, NEW c \in Calls, Truncate(c) PROVE IInv'
<1>1. /\ call[c].at = "truncate" /\ Goto(c, "write") /\ config' = Torn
      /\ UNCHANGED <<docs, keyFile, newest, mem, owner, registered, history>>
    BY DEF Truncate
<1>2. PICK k \in Frame :
        /\ call' = [call EXCEPT ![c] = k] /\ call'[c] = k
        /\ k.at = "write" /\ k.op = call[c].op /\ k.base = call[c].base /\ k.next = call[c].next
    BY <1>1, GotoFrame DEF Phases
<1>3. UNCHANGED <<named, committed, stale, rotated>>
    BY <1>1 DEF history
<1>4. Pending(k) => Pending(call[c]) /\ PendingKeeps(c)
    BY <1>1, <1>2, Stands DEF CallKeeps, Pending
<1>5. Pending(k) => PendingKeeps(c)'
    BY <1>1, <1>2, <1>3, <1>4 DEF PendingKeeps
<1>6. CallKeeps(c)'
    BY <1>1, <1>2, <1>3, <1>5, Stands DEF CallKeeps, Held
<1> QED
    BY <1>1, <1>2, <1>4, <1>6, Stands, QuietMoves

LEMMA FailIInv == ASSUME IInv, NEW c \in Calls, Fail(c) PROVE IInv'
<1>1. /\ call[c].at \in Held /\ Return(c) /\ owner' = [owner EXCEPT ![Of[c]] = Nobody]
      /\ UNCHANGED <<config, docs, keyFile, newest, mem, registered, history>>
    BY DEF Fail, Unlock, Held, disk
<1>2. owner[Of[c]] = c /\ First \in committed'
    BY <1>1, Stands DEF CallKeeps, IInv, DiskKeeps, history
<1>3. CallKeeps(c)' /\ Idle \in Frame /\ ~Pending(Idle)
    BY <1>1, <1>2, ReturnKeeps
<1> QED
    BY <1>1, <1>2, <1>3, Stands, QuietMoves DEF Return

LEMMA SendIInv == ASSUME IInv, NEW c \in Calls, Send(c) PROVE IInv'
<1>1. /\ call[c].at = "send" /\ Return(c) /\ registered' \in {registered, call[c].next}
      /\ UNCHANGED <<config, docs, keyFile, newest, mem, owner, history>>
    BY DEF Send, disk
<1>2. registered' \in committed /\ First \in committed'
    BY <1>1, Stands DEF CallKeeps, IInv, DiskKeeps, history
<1>3. CallKeeps(c)' /\ Idle \in Frame /\ ~Pending(Idle)
    BY <1>1, <1>2, ReturnKeeps
<1> QED
    BY <1>1, <1>2, <1>3, Stands, QuietMoves DEF Return

-----------------------------------------------------------------------------
LEMMA StartIInv == ASSUME IInv, NEW p \in Providers, Start(p) PROVE IInv'
<1>1. /\ mem[p] = Down /\ config # Torn
      /\ mem' = [mem EXCEPT ![p] = Loaded(config)]
      /\ rotated' = [rotated EXCEPT ![p] = keyFile]
      /\ UNCHANGED <<config, docs, keyFile, newest, owner, call, registered, named, committed, stale>>
    BY DEF Start, disk
<1>2. config \in Version /\ keyFile \in Nat
    BY <1>1, MaxRevIsNat DEF IInv, IdTypeOK
<1>3. Loaded(config) \in Version /\ Loaded(config).key = keyFile
    BY <1>2 DEF Loaded, Version
<1>4. /\ mem'[p] = Loaded(config) /\ mem'[p] # Down /\ rotated'[p] = keyFile
      /\ \A q \in Providers \ {p} : mem'[q] = mem[q] /\ rotated'[q] = rotated[q]
    BY <1>1, <1>3, NoVersions DEF IInv, IdTypeOK
<1>5. IdTypeOK'
    BY <1>1, <1>2, <1>3 DEF IInv, IdTypeOK
<1>6. NumbersGrow' /\ DiskKeeps'
    BY <1>1, <1>2, <1>4 DEF IInv, NumbersGrow, DiskKeeps
<1>7. MemKeeps'
    BY <1>2, <1>3, <1>4 DEF IInv, MemKeeps
<1>8. ASSUME NEW c \in Calls PROVE CallKeeps(c)'
  <2>1. CallKeeps(c) /\ Of[c] \in Providers
    BY Stands
  <2>2. Pending(call[c]) => PendingKeeps(c) /\ Of[c] # p
    BY <1>1, <2>1 DEF CallKeeps, Pending
  <2>3. Pending(call[c]) => PendingKeeps(c)'
    BY <1>1, <1>4, <2>1, <2>2 DEF PendingKeeps
  <2> QED
    BY <1>1, <1>4, <2>1, <2>3 DEF CallKeeps
<1> QED
    BY <1>1, <1>5, <1>6, <1>7, <1>8 DEF IInv, Apart

LEMMA CrashIInv == ASSUME IInv, NEW p \in Providers, Crash(p) PROVE IInv'
<1>1. /\ mem' = [mem EXCEPT ![p] = Down]
      /\ owner' = [owner EXCEPT ![p] = Nobody]
      /\ call' = [c \in Calls |-> IF Of[c] = p THEN Idle ELSE call[c]]
      /\ UNCHANGED <<config, docs, keyFile, newest, registered, named, committed, stale, rotated>>
    BY DEF Crash, disk, history
<1>2. Idle \in Frame /\ Idle.at = "ready" /\ Idle.base = First /\ ~Pending(Idle)
    BY DEF Idle, Frame, Phases, First, Version, Pending
<1>3. \A q \in Providers : mem'[q] = (IF q = p THEN Down ELSE mem[q])
                        /\ owner'[q] = (IF q = p THEN Nobody ELSE owner[q])
    BY <1>1 DEF IInv, IdTypeOK
<1>4. \A c \in Calls : call'[c] = (IF Of[c] = p THEN Idle ELSE call[c])
    BY <1>1
<1>5. IdTypeOK'
  <2>1. call' \in [Calls -> Frame]
    BY <1>1, <1>2 DEF IInv, IdTypeOK
  <2> QED
    BY <1>1, <2>1 DEF IInv, IdTypeOK
<1>6. NumbersGrow' /\ DiskKeeps' /\ MemKeeps'
    BY <1>1, <1>3 DEF IInv, NumbersGrow, DiskKeeps, MemKeeps
<1>7. ASSUME NEW c \in Calls PROVE CallKeeps(c)'
  <2>1. CASE Of[c] = p
    <3>1. call'[c] = Idle /\ First \in committed'
      BY <2>1, <1>1, <1>4 DEF IInv, DiskKeeps
    <3> QED
      BY <3>1, <1>2 DEF CallKeeps, Held
  <2>2. CASE Of[c] # p
    <3>1. call'[c] = call[c] /\ owner'[Of[c]] = owner[Of[c]] /\ mem'[Of[c]] = mem[Of[c]] /\ CallKeeps(c)
      BY <2>2, <1>3, <1>4, Stands
    <3>2. PendingKeeps(c) => PendingKeeps(c)'
      BY <3>1, <1>1 DEF PendingKeeps
    <3> QED
      BY <3>1, <3>2, <1>1 DEF CallKeeps
  <2> QED
    BY <2>1, <2>2
<1>8. \A c, d \in Calls : Apart(c, d)'
    BY <1>2, <1>4 DEF IInv, Apart
<1> QED
    BY <1>5, <1>6, <1>7, <1>8 DEF IInv

-----------------------------------------------------------------------------
\* A rotation makes a key and a version that nobody has seen.
LEMMA RotateIInv == ASSUME IInv, NEW c \in Calls, Rotate(c) PROVE IInv'
<1> DEFINE new == [rev |-> newest + 1, key |-> newest + 1]
           k == [call[c] EXCEPT !.next = new, !.at = "swap"]
<1>1. /\ call[c].at = "rotate" /\ newest < MaxRev /\ newest' = newest + 1 /\ keyFile' = newest + 1
      /\ docs' = docs \cup {new} /\ config' = new /\ named' = new /\ committed' = committed \cup {new}
      /\ stale' = (stale \/ call[c].base # named)
      /\ call' = [call EXCEPT ![c] = k]
      /\ UNCHANGED <<mem, owner, registered, rotated>>
    BY DEF Rotate, Names
<1>2. new \in Version /\ new.rev = newest + 1 /\ new.key = newest + 1
    BY Stands DEF Version
<1>3. k \in Frame /\ k.at = "swap" /\ k.base = call[c].base /\ k.next = new /\ ~Pending(k)
    BY <1>2, Stands DEF Frame, Phases, Pending
<1> HIDE DEF new, k
<1>4. call'[c] = k
    BY <1>1, Stands
<1>5. newest \in Nat /\ newest + 1 \in 0..MaxRev /\ keyFile \in Nat /\ keyFile <= newest
    BY <1>1, MaxRevIsNat, Stands
<1>6. \A v \in committed : v.rev \in Nat /\ v.rev <= newest
    BY Stands DEF IInv, NumbersGrow
<1>7. new \notin committed
    BY <1>2, <1>5, <1>6
<1>8. call' \in [Calls -> Frame] /\ stale' \in BOOLEAN
    BY <1>1, <1>3 DEF IInv, IdTypeOK
<1>9. IdTypeOK'
    BY <1>1, <1>2, <1>5, <1>8 DEF IInv, IdTypeOK
<1>10. NumbersGrow'
  <2>1. \A p \in Providers : rotated[p] \in Nat /\ rotated[p] <= keyFile
    BY DEF IInv, IdTypeOK, NumbersGrow
  <2> QED
    BY <2>1, <1>1, <1>2, <1>5, <1>6 DEF NumbersGrow
<1>11. DiskKeeps' /\ MemKeeps'
    BY <1>1, <1>2 DEF IInv, DiskKeeps, MemKeeps
<1>12. CallKeeps(c)'
    BY <1>1, <1>2, <1>3, <1>4, <1>5, Stands DEF CallKeeps, Held
<1>13. owner[Of[c]] = c
    BY <1>1, Stands DEF CallKeeps, Held
<1>14. /\ newest <= newest' /\ keyFile <= keyFile' /\ docs \subseteq docs' /\ committed \subseteq committed'
       /\ named' \notin committed
    BY <1>1, <1>5, <1>7
<1>15. \A v \in committed' : \/ v \in committed \/ v.rev > newest
                             \/ Pending(call[c]) /\ v = call[c].next
    BY <1>1, <1>2, <1>5
<1>16. /\ \A p \in Providers : mem'[p] = Down => mem[p] = Down
       /\ \A p \in Providers : rotated'[p] = rotated[p] \/ owner[p] = c
       /\ \A p \in Providers : owner'[p] = owner[p] \/ owner[p] \notin Calls \ {c}
    BY <1>1
<1>17. stale => stale'
    BY <1>1
<1> QED
    BY <1>1, <1>3, <1>9, <1>10, <1>11, <1>12, <1>14, <1>15, <1>16, <1>17, CallMoves

\* The provider takes the rotated agent into memory.
LEMMA SwapIInv == ASSUME IInv, NEW c \in Calls, Swap(c) PROVE IInv'
<1>1. /\ call[c].at = "swap" /\ (Goto(c, "send") \/ Return(c))
      /\ mem' = [mem EXCEPT ![Of[c]] = call[c].next]
      /\ rotated' = [rotated EXCEPT ![Of[c]] = call[c].next.key]
      /\ owner' = [owner EXCEPT ![Of[c]] = Nobody]
      /\ UNCHANGED <<config, docs, keyFile, newest, registered, named, committed, stale>>
    BY DEF Swap, Unlock, disk
<1>2. /\ owner[Of[c]] = c /\ call[c].next \in committed /\ call[c].next.key <= keyFile
      /\ call[c].next \in Version /\ call[c].next.key \in Nat /\ Of[c] \in Providers
      /\ call[c].next # Down /\ newest \in Nat /\ keyFile \in Nat
    BY <1>1, NoVersions, Stands DEF CallKeeps, Held
<1>3. \A p \in Providers : /\ mem'[p] = (IF p = Of[c] THEN call[c].next ELSE mem[p])
                           /\ rotated'[p] = (IF p = Of[c] THEN call[c].next.key ELSE rotated[p])
                           /\ owner'[p] = (IF p = Of[c] THEN Nobody ELSE owner[p])
    BY <1>1 DEF IInv, IdTypeOK
<1>4. PICK k \in Frame : /\ call' = [call EXCEPT ![c] = k] /\ ~Pending(k) /\ CallKeeps(c)'
  <2>1. CASE Goto(c, "send")
    <3>1. PICK k \in Frame :
            /\ call' = [call EXCEPT ![c] = k] /\ call'[c] = k
            /\ k.at = "send" /\ k.base = call[c].base /\ k.next = call[c].next
      BY <2>1, GotoFrame DEF Phases
    <3>2. ~Pending(k) /\ mem'[Of[c]] # Down
      BY <3>1, <1>2, <1>3 DEF Pending
    <3>3. CallKeeps(c)'
      BY <3>1, <3>2, <1>1, <1>2, Stands DEF CallKeeps, Held
    <3> QED
      BY <3>1, <3>2, <3>3
  <2>2. CASE Return(c)
    <3>1. First \in committed'
      BY <1>1 DEF IInv, DiskKeeps
    <3> QED
      BY <2>2, <3>1, ReturnKeeps DEF Return
  <2> QED
    BY <1>1, <2>1, <2>2
<1>5. call' \in [Calls -> Frame] /\ mem' \in [Providers -> Version \cup {Down}]
      /\ owner' \in [Providers -> Calls \cup {Nobody}] /\ rotated' \in [Providers -> Nat]
    BY <1>1, <1>2, <1>4 DEF IInv, IdTypeOK
<1>6. IdTypeOK'
    BY <1>1, <1>5 DEF IInv, IdTypeOK
<1>7. NumbersGrow' /\ DiskKeeps'
    BY <1>1, <1>2, <1>3 DEF IInv, NumbersGrow, DiskKeeps
<1>8. MemKeeps'
    BY <1>2, <1>3 DEF IInv, MemKeeps
<1>9. /\ newest <= newest' /\ keyFile <= keyFile' /\ docs \subseteq docs' /\ committed \subseteq committed'
      /\ named' = named /\ keyFile' = keyFile
    BY <1>1, <1>2
<1>10. \A v \in committed' : \/ v \in committed \/ v.rev > newest
                             \/ Pending(call[c]) /\ v = call[c].next
    BY <1>1
<1>11. /\ \A p \in Providers : mem'[p] = Down => mem[p] = Down
       /\ \A p \in Providers : rotated'[p] = rotated[p] \/ owner[p] = c
       /\ \A p \in Providers : owner'[p] = owner[p] \/ owner[p] \notin Calls \ {c}
    BY <1>2, <1>3
<1>12. stale => stale'
    BY <1>1
<1> QED
    BY <1>4, <1>6, <1>7, <1>8, <1>9, <1>10, <1>11, <1>12, CallMoves

LEMMA WriteVersionIInv == ASSUME IInv, NEW c \in Calls, WriteVersion(c) PROVE IInv'
<1> DEFINE v == call[c].next
<1>1. /\ call[c].at = "write" /\ call[c].op = "update" /\ (Goto(c, "send") \/ Return(c))
      /\ config' = v /\ named' = v /\ committed' = committed \cup {v}
      /\ stale' = (stale \/ call[c].base # named)
      /\ mem' = [mem EXCEPT ![Of[c]] = v]
      /\ owner' = [owner EXCEPT ![Of[c]] = Nobody]
      /\ UNCHANGED <<docs, keyFile, newest, registered, rotated>>
    BY DEF WriteVersion, Names, Unlock
<1>2. Pending(call[c]) /\ PendingKeeps(c) /\ owner[Of[c]] = c
    BY <1>1, Stands DEF CallKeeps, Held, Pending
<1>3. /\ v \in Version /\ v.rev \in Nat /\ v.key \in Nat /\ v # Down /\ Of[c] \in Providers
      /\ newest \in Nat /\ keyFile \in Nat
    BY NoVersions, Stands
<1>4. /\ v \notin committed /\ v \in docs /\ v.rev <= newest /\ rotated[Of[c]] <= v.key
      /\ (~stale /\ call[c].base = named => v.key = keyFile)
    BY <1>1, <1>2 DEF PendingKeeps
<1> HIDE DEF v
<1>5. \A p \in Providers : /\ mem'[p] = (IF p = Of[c] THEN v ELSE mem[p])
                           /\ owner'[p] = (IF p = Of[c] THEN Nobody ELSE owner[p])
    BY <1>1 DEF IInv, IdTypeOK
<1>6. PICK k \in Frame : /\ call' = [call EXCEPT ![c] = k] /\ ~Pending(k) /\ CallKeeps(c)'
  <2>1. CASE Goto(c, "send")
    <3>1. PICK k \in Frame :
            /\ call' = [call EXCEPT ![c] = k] /\ call'[c] = k
            /\ k.at = "send" /\ k.base = call[c].base /\ k.next = v
      BY <2>1, GotoFrame DEF Phases, v
    <3>2. ~Pending(k) /\ mem'[Of[c]] # Down /\ call[c].base \in committed'
      BY <3>1, <1>1, <1>3, <1>5, Stands DEF Pending, CallKeeps
    <3>3. CallKeeps(c)'
      BY <3>1, <3>2, <1>1 DEF CallKeeps, Held
    <3> QED
      BY <3>1, <3>2, <3>3
  <2>2. CASE Return(c)
    <3>1. First \in committed'
      BY <1>1 DEF IInv, DiskKeeps
    <3> QED
      BY <2>2, <3>1, ReturnKeeps DEF Return
  <2> QED
    BY <1>1, <2>1, <2>2
<1>7. call' \in [Calls -> Frame] /\ mem' \in [Providers -> Version \cup {Down}]
      /\ owner' \in [Providers -> Calls \cup {Nobody}] /\ stale' \in BOOLEAN
    BY <1>1, <1>3, <1>6 DEF IInv, IdTypeOK
<1>8. IdTypeOK'
    BY <1>1, <1>3, <1>7 DEF IInv, IdTypeOK
<1>9. NumbersGrow' /\ DiskKeeps'
    BY <1>1, <1>3, <1>4 DEF IInv, NumbersGrow, DiskKeeps
<1>10. MemKeeps'
    BY <1>1, <1>3, <1>4, <1>5 DEF IInv, MemKeeps
<1>11. /\ newest <= newest' /\ keyFile <= keyFile' /\ docs \subseteq docs' /\ committed \subseteq committed'
       /\ named' \notin committed /\ keyFile' = keyFile
    BY <1>1, <1>3, <1>4
<1>12. \A w \in committed' : \/ w \in committed \/ w.rev > newest
                             \/ Pending(call[c]) /\ w = call[c].next
    BY <1>1, <1>2 DEF v
<1>13. /\ \A p \in Providers : mem'[p] = Down => mem[p] = Down
       /\ \A p \in Providers : rotated'[p] = rotated[p] \/ owner[p] = c
       /\ \A p \in Providers : owner'[p] = owner[p] \/ owner[p] \notin Calls \ {c}
    BY <1>1, <1>2, <1>3, <1>5
<1>14. stale => stale'
    BY <1>1
<1> QED
    BY <1>6, <1>8, <1>9, <1>10, <1>11, <1>12, <1>13, <1>14, CallMoves

\* The config gets back the version it had when it was read for the email.
LEMMA WriteEmailIInv == ASSUME IInv, NEW c \in Calls, WriteEmail(c) PROVE IInv'
<1> DEFINE v == call[c].base
<1>1. /\ call[c].at = "write" /\ Return(c)
      /\ config' = v /\ named' = v /\ committed' = committed \cup {v}
      /\ stale' = (stale \/ v # named)
      /\ owner' = [owner EXCEPT ![Of[c]] = Nobody]
      /\ UNCHANGED <<docs, keyFile, newest, mem, registered, rotated>>
    BY DEF WriteEmail, Names, Unlock
<1>2. owner[Of[c]] = c /\ v \in committed /\ v \in Version /\ Of[c] \in Providers
      /\ newest \in Nat /\ keyFile \in Nat
    BY <1>1, Stands DEF CallKeeps, Held
<1> HIDE DEF v
<1>3. committed' = committed /\ First \in committed'
    BY <1>1, <1>2 DEF IInv, DiskKeeps
<1>4. CallKeeps(c)' /\ Idle \in Frame /\ ~Pending(Idle)
    BY <1>1, <1>3, ReturnKeeps
<1>5. call' = [call EXCEPT ![c] = Idle]
    BY <1>1 DEF Return
<1>6. call' \in [Calls -> Frame] /\ owner' \in [Providers -> Calls \cup {Nobody}] /\ stale' \in BOOLEAN
    BY <1>1, <1>4, <1>5 DEF IInv, IdTypeOK
<1>7. IdTypeOK'
    BY <1>1, <1>2, <1>3, <1>6 DEF IInv, IdTypeOK
<1>8. NumbersGrow' /\ DiskKeeps' /\ MemKeeps'
    BY <1>1, <1>2, <1>3 DEF IInv, NumbersGrow, DiskKeeps, MemKeeps
<1>9. /\ newest <= newest' /\ keyFile <= keyFile' /\ docs \subseteq docs' /\ committed \subseteq committed'
      /\ (named' = named \/ stale') /\ keyFile' = keyFile
  <2>1. named' = named \/ stale'
    BY <1>1
  <2>2. newest' = newest /\ keyFile' = keyFile /\ docs' = docs
    BY <1>1
  <2> QED
    BY <2>1, <2>2, <1>2, <1>3
<1>10. \A w \in committed' : \/ w \in committed \/ w.rev > newest
                             \/ Pending(call[c]) /\ w = call[c].next
    BY <1>3
<1>11. /\ \A p \in Providers : mem'[p] = Down => mem[p] = Down
       /\ \A p \in Providers : rotated'[p] = rotated[p] \/ owner[p] = c
       /\ \A p \in Providers : owner'[p] = owner[p] \/ owner[p] \notin Calls \ {c}
  <2>1. \A p \in Providers : owner'[p] = (IF p = Of[c] THEN Nobody ELSE owner[p])
    BY <1>1 DEF IInv, IdTypeOK
  <2> QED
    BY <2>1, <1>1, <1>2
<1>12. stale => stale'
    BY <1>1
<1> QED
    BY <1>4, <1>5, <1>7, <1>8, <1>9, <1>10, <1>11, <1>12, CallMoves

-----------------------------------------------------------------------------
LEMMA NextIInv == IInv /\ [Next]_vars => IInv'
<1> SUFFICES ASSUME IInv, [Next]_vars PROVE IInv'
    OBVIOUS
<1>1. ASSUME NEW p \in Providers, Start(p) \/ Crash(p) PROVE IInv'
    BY <1>1, StartIInv, CrashIInv
<1>2. ASSUME NEW c \in Calls, \/ \E o \in {"update", "rotate"} : Begin(c, o)
                              \/ Load(c) \/ Save(c) \/ Rotate(c) \/ Swap(c)
      PROVE  IInv'
    BY <1>2, BeginIInv, LoadIInv, SaveIInv, RotateIInv, SwapIInv
<1>3. ASSUME NEW c \in Calls, \/ ReadForEmail(c) \/ LockForEmail(c)
                              \/ Truncate(c) \/ WriteVersion(c) \/ WriteEmail(c)
                              \/ Fail(c) \/ Send(c)
      PROVE  IInv'
    BY <1>3, EmailIInv, TruncateIInv, WriteVersionIInv, WriteEmailIInv, FailIInv, SendIInv
<1>4. CASE UNCHANGED vars
    BY <1>4 DEF IInv, IdTypeOK, NumbersGrow, DiskKeeps, MemKeeps, CallKeeps, PendingKeeps, Apart,
                vars, disk, history
<1> QED
    BY <1>1, <1>2, <1>3, <1>4 DEF Next

\* The inductive invariant of the agent's identity.
THEOREM Invariant == Spec => []IInv
<1> QED
    BY InitIInv, NextIInv, PTL DEF Spec

\* The types of the config, the documents and keys, and the calls of jacs_local.rs.
THEOREM TypeCorrect == Spec => []IdTypeOK
<1>1. IInv => IdTypeOK
    BY DEF IInv
<1> QED
    BY <1>1, Invariant, PTL

\* The config names a saved document, whatever write was cut short, and one signed with
\* the key on disk as long as no write replaced a version it had not read.
THEOREM ReloadFinds == Spec => []ReloadFindsIdentity
<1>1. IInv => ReloadFindsIdentity
    BY DEF IInv, DiskKeeps, ReloadFindsIdentity
<1> QED
    BY <1>1, Invariant, PTL

-----------------------------------------------------------------------------
\* A version on its way to the config is newer than the one it is based on, so while no
\* write is stale the config has the newest of the versions it has ever named.
AheadInv ==
    /\ ~stale => \A v \in committed : v.rev <= named.rev
    /\ \A c \in Calls : Pending(call[c]) => call[c].base.rev < call[c].next.rev

LEMMA InitAheadInv == Init => AheadInv
BY DEF Init, AheadInv, Pending, Idle, First

\* Steps that name nothing in the config: no call becomes pending, or one with a new version.
LEMMA AheadStays ==
    ASSUME AheadInv, call \in [Calls -> Frame], UNCHANGED <<named, committed, stale>>,
           NEW c \in Calls, NEW k, call' = [call EXCEPT ![c] = k],
           Pending(k) => \/ k.base.rev < k.next.rev
                         \/ Pending(call[c]) /\ k.base = call[c].base /\ k.next = call[c].next
    PROVE  AheadInv'
BY DEF AheadInv

LEMMA NextAheadInv == IInv /\ AheadInv /\ [Next]_vars => AheadInv'
<1> SUFFICES ASSUME IInv, AheadInv, [Next]_vars PROVE AheadInv'
    OBVIOUS
<1>1. call \in [Calls -> Frame] /\ newest \in Nat /\ committed \subseteq Version /\ named \in Version
    BY MaxRevIsNat DEF IInv, IdTypeOK
<1>2. ASSUME NEW p \in Providers, Start(p) \/ Crash(p) PROVE AheadInv'
  <2>1. UNCHANGED <<named, committed, stale>> /\ \A c \in Calls : call'[c] \in {call[c], Idle}
    BY <1>1, <1>2 DEF Start, Crash, history
  <2>2. ~Pending(Idle)
    BY DEF Pending, Idle
  <2> QED
    BY <2>1, <2>2 DEF AheadInv
<1>3. ASSUME NEW c \in Calls, Load(c) PROVE AheadInv'
  <2>1. call[c].base \in committed /\ call[c].base.rev \in Nat /\ call[c].base.rev <= newest
    BY <1>1 DEF IInv, CallKeeps, NumbersGrow, Version
  <2>2. UNCHANGED <<named, committed, stale>> /\ call[c] \in Frame
    BY <1>1, <1>3 DEF Load, history
  <2>3. PICK k : /\ call' = [call EXCEPT ![c] = k]
                 /\ Pending(k) => k.base.rev < k.next.rev
    <3> DEFINE f == call[c]
               new == [rev |-> newest + 1, key |-> Loaded(f.base).key]
               g == [f EXCEPT !.header = mem[Of[c]].key]
               r == [g EXCEPT !.at = "rotate"]
               u == [g EXCEPT !.at = "save", !.next = new]
    <3>1. r.at = "rotate" /\ u.base = f.base /\ u.next.rev = newest + 1
      BY <2>2 DEF Frame
    <3>2. \/ call' = [call EXCEPT ![c] = r]
          \/ call' = [call EXCEPT ![c] = u]
      BY <1>3 DEF Load
    <3> HIDE DEF r, u
    <3>3. ~Pending(r) /\ u.base.rev < u.next.rev
      BY <1>1, <2>1, <3>1 DEF Pending
    <3> QED
      BY <3>2, <3>3
  <2> QED
    BY <1>1, <2>2, <2>3, AheadStays
<1>4. ASSUME NEW c \in Calls, NEW phase \in Phases, Goto(c, phase), call[c].at # "ready",
             phase \in {"save", "truncate", "write"} /\ call[c].op = "update" =>
               call[c].at \in {"save", "truncate", "write"},
             UNCHANGED <<named, committed, stale>>
      PROVE  AheadInv'
  <2> DEFINE k == [call[c] EXCEPT !.at = phase]
  <2>1. k.at = phase /\ k.op = call[c].op /\ k.base = call[c].base /\ k.next = call[c].next
    BY <1>1 DEF Frame
  <2>2. call' = [call EXCEPT ![c] = k]
    BY <1>4 DEF Goto
  <2> HIDE DEF k
  <2>3. Pending(k) => Pending(call[c])
    BY <1>4, <2>1 DEF Pending
  <2> QED
    BY <1>1, <1>4, <2>1, <2>2, <2>3, AheadStays
<1>5. ASSUME NEW c \in Calls, Return(c), UNCHANGED <<named, committed, stale>> PROVE AheadInv'
  <2>1. ~Pending(Idle)
    BY DEF Pending, Idle
  <2> QED
    BY <1>1, <1>5, <2>1, AheadStays DEF Return
<1>6. ASSUME NEW c \in Calls, Save(c) \/ Truncate(c) \/ LockForEmail(c) PROVE AheadInv'
  <2>1. call[c].at = "lock" => call[c].op = "email"
    BY DEF IInv, CallKeeps
  <2> QED
    BY <1>4, <1>6, <2>1 DEF Save, Truncate, LockForEmail, history, Phases
<1>7. ASSUME NEW c \in Calls, Swap(c) PROVE AheadInv'
    BY <1>4, <1>5, <1>7 DEF Swap, Phases
<1>8. ASSUME NEW c \in Calls, Fail(c) \/ Send(c) PROVE AheadInv'
    BY <1>5, <1>8 DEF Fail, Send, history
<1>9. ASSUME NEW c \in Calls, ReadForEmail(c) \/ \E o \in {"update", "rotate"} : Begin(c, o)
      PROVE  AheadInv'
  <2>1. PICK k : call' = [call EXCEPT ![c] = k] /\ ~Pending(k)
    <3> DEFINE e == [Idle EXCEPT !.at = "lock", !.op = "email", !.base = config]
               b(o) == [Idle EXCEPT !.at = "load", !.op = o, !.base = config]
    <3>1. e.at = "lock" /\ \A o \in {"update", "rotate"} : b(o).at = "load"
      BY DEF Idle
    <3>2. \/ call' = [call EXCEPT ![c] = e]
          \/ \E o \in {"update", "rotate"} : call' = [call EXCEPT ![c] = b(o)]
      BY <1>9 DEF ReadForEmail, Begin
    <3> HIDE DEF e, b
    <3> QED
      BY <3>1, <3>2 DEF Pending
  <2>2. UNCHANGED <<named, committed, stale>>
    BY <1>9 DEF ReadForEmail, Begin, history
  <2> QED
    BY <1>1, <2>1, <2>2, AheadStays
<1>10. ASSUME NEW c \in Calls, NEW v \in Version, Names(c, v), NEW k, call' = [call EXCEPT ![c] = k],
              ~Pending(k),
              (call[c].base = named => named.rev <= v.rev) \/ v.rev > newest
       PROVE  AheadInv'
  <2>1. \A w \in committed : w.rev \in Nat /\ w.rev <= newest
    BY <1>1 DEF IInv, NumbersGrow, Version
  <2>2. v.rev \in Nat /\ named.rev \in Nat
    BY <1>1 DEF Version
  <2>3. ~stale' => \A w \in committed' : w.rev <= named'.rev
    <3> SUFFICES ASSUME ~stale', NEW w \in committed' PROVE w.rev <= named'.rev
      OBVIOUS
    <3>1. /\ named' = v /\ committed' = committed \cup {v}
          /\ ~stale /\ call[c].base = named
      BY <1>10 DEF Names
    <3>2. w \in committed => w.rev <= named.rev
      BY <3>1 DEF AheadInv
    <3>3. named.rev <= v.rev \/ v.rev > newest
      BY <1>10, <3>1
    <3> QED
      BY <1>1, <2>1, <2>2, <3>1, <3>2, <3>3
  <2>4. \A d \in Calls : Pending(call'[d]) => call'[d] = call[d]
    BY <1>1, <1>10
  <2> QED
    BY <2>3, <2>4 DEF AheadInv
<1>11. ASSUME NEW c \in Calls, Rotate(c) PROVE AheadInv'
  <2> DEFINE new == [rev |-> newest + 1, key |-> newest + 1]
             k == [call[c] EXCEPT !.next = new, !.at = "swap"]
  <2>1. new \in Version /\ new.rev > newest
    BY <1>1 DEF Version
  <2>2. k.at = "swap" /\ call' = [call EXCEPT ![c] = k] /\ Names(c, new)
    BY <1>1, <1>11 DEF Rotate, Frame
  <2> HIDE DEF new, k
  <2> QED
    BY <1>10, <2>1, <2>2 DEF Pending
<1>12. ASSUME NEW c \in Calls, WriteVersion(c) PROVE AheadInv'
  <2>1. Pending(call[c]) /\ call[c] \in Frame /\ Names(c, call[c].next) /\ call[c].next \in Version
    BY <1>1, <1>12 DEF WriteVersion, Pending, Frame
  <2>2. call[c].base = named => named.rev <= call[c].next.rev
    BY <1>1, <2>1 DEF AheadInv, Version
  <2>3. PICK k : call' = [call EXCEPT ![c] = k] /\ k.at \in {"send", "ready"}
    <3> DEFINE s == [call[c] EXCEPT !.at = "send"]
    <3>1. s.at = "send" /\ Idle.at = "ready"
      BY <2>1 DEF Idle, Frame
    <3>2. call' = [call EXCEPT ![c] = s] \/ call' = [call EXCEPT ![c] = Idle]
      BY <1>12 DEF WriteVersion, Goto, Return
    <3> HIDE DEF s
    <3> QED
      BY <3>1, <3>2
  <2>4. ~Pending(k)
    BY <2>3 DEF Pending
  <2> QED
    BY <1>10, <2>1, <2>2, <2>3, <2>4
<1>13. ASSUME NEW c \in Calls, WriteEmail(c) PROVE AheadInv'
  <2>1. call[c].base \in Version /\ Names(c, call[c].base) /\ call' = [call EXCEPT ![c] = Idle]
    BY <1>1, <1>13 DEF WriteEmail, Return, Frame
  <2>2. ~Pending(Idle)
    BY DEF Pending, Idle
  <2>3. call[c].base = named => named.rev <= call[c].base.rev
    BY <1>1 DEF Version
  <2> QED
    BY <1>10, <2>1, <2>2, <2>3
<1>14. CASE UNCHANGED vars
    BY <1>14 DEF vars, history, AheadInv
<1> QED
    BY <1>2, <1>3, <1>6, <1>7, <1>8, <1>9, <1>11, <1>12, <1>13, <1>14 DEF Next

\* send_prepared_registration: the server has a version only if the config has named it,
\* and while no write is stale the config has that version or a newer one.
THEOREM ServerFollows == Spec => []ServerKnowsCommitted
<1>1. IInv /\ AheadInv => ServerKnowsCommitted
    BY DEF IInv, DiskKeeps, AheadInv, ServerKnowsCommitted
<1> QED
    BY <1>1, Invariant, InitAheadInv, NextAheadInv, PTL DEF Spec

\* rotate_with_registration: a provider does not go back to a key it has replaced.
THEOREM SignersAdvance == Spec => []NoRetiredSigner
<1>1. IInv => NoRetiredSigner
    BY DEF IInv, MemKeeps, NoRetiredSigner
<1> QED
    BY <1>1, Invariant, PTL

-----------------------------------------------------------------------------
\* Where keys stand in the order they are made: no provider is ahead of the key
\* directory, and what signs a registration is no later than what the registration
\* introduces, from the moment there is a version to register.
SignsAhead(c) ==
    /\ call[c].at = "rotate" => call[c].header <= keyFile
    /\ Pending(call[c]) \/ call[c].at \in {"swap", "send"} => call[c].header <= call[c].next.key

KeyInv ==
    /\ \A p \in Providers : mem[p] # Down => mem[p].key <= keyFile
    /\ \A c \in Calls : SignsAhead(c)

LEMMA InitKeyInv == Init => KeyInv
BY DEF Init, KeyInv, SignsAhead, Pending, Idle, First

\* One call goes to frame k, the providers' agents stay behind the key directory and
\* that only moves on: then everybody's registrations keep to the order.
LEMMA KeysKeep ==
    ASSUME IInv, KeyInv, NEW c \in Calls, NEW k,
           call' = [call EXCEPT ![c] = k],
           keyFile' \in Nat, keyFile <= keyFile',
           \A p \in Providers : \/ mem'[p] = mem[p] \/ mem'[p] = Down
                                \/ mem'[p].key <= keyFile',
           k.at = "rotate" => k.header <= keyFile',
           Pending(k) \/ k.at \in {"swap", "send"} => k.header <= k.next.key
    PROVE  KeyInv'
<1>1. keyFile \in Nat /\ \A p \in Providers : mem[p] # Down => mem[p].key \in Nat
    BY Stands DEF IInv, IdTypeOK, Version
<1>2. \A p \in Providers : mem'[p] # Down => mem'[p].key <= keyFile'
    BY <1>1 DEF KeyInv
<1>3. ASSUME NEW d \in Calls PROVE SignsAhead(d)'
  <2>1. CASE d = c
    <3>1. call'[c] = k
      BY Stands
    <3> QED
      BY <3>1, <2>1 DEF SignsAhead
  <2>2. CASE d # c
    <3>1. call'[d] = call[d] /\ call[d].header \in Nat
      BY <2>2 DEF IInv, IdTypeOK, Frame
    <3> QED
      BY <3>1, <1>1 DEF KeyInv, SignsAhead
  <2> QED
    BY <2>1, <2>2
<1> QED
    BY <1>2, <1>3 DEF KeyInv

\* The same when neither the key directory nor memory changes.
LEMMA KeysStay ==
    ASSUME IInv, KeyInv, NEW c \in Calls, NEW k,
           call' = [call EXCEPT ![c] = k],
           UNCHANGED <<keyFile, mem>>,
           k.at = "rotate" => k.header <= keyFile,
           Pending(k) \/ k.at \in {"swap", "send"} => k.header <= k.next.key
    PROVE  KeyInv'
<1>1. keyFile' \in Nat /\ keyFile <= keyFile' /\ keyFile' = keyFile
    BY Stands
<1>2. \A p \in Providers : mem'[p] = mem[p]
    OBVIOUS
<1> QED
    BY <1>1, <1>2, KeysKeep

\* A call that goes on to another place, with the keys it has.
LEMMA KeysGo ==
    ASSUME IInv, KeyInv, NEW c \in Calls, NEW phase \in Phases, Goto(c, phase),
           UNCHANGED <<keyFile, mem>>,
           phase # "rotate",
           \/ Pending(call[c]) \/ call[c].at = "swap"
           \/ phase \in {"truncate", "write"} /\ call[c].op = "email"
    PROVE  KeyInv'
<1>1. PICK k \in Frame :
        /\ call' = [call EXCEPT ![c] = k] /\ k.at = phase /\ k.op = call[c].op
        /\ k.next = call[c].next /\ k.header = call[c].header
    BY GotoFrame
<1>2. SignsAhead(c) /\ keyFile' = keyFile /\ keyFile \in Nat
    BY Stands DEF KeyInv
<1>3. Pending(k) \/ k.at \in {"swap", "send"} => k.header <= k.next.key
    BY <1>1, <1>2 DEF SignsAhead, Pending
<1> QED
    BY <1>1, <1>3, KeysStay

\* A call that returns.
LEMMA KeysReturn ==
    ASSUME IInv, KeyInv, NEW c \in Calls, Return(c), UNCHANGED <<keyFile, mem>>
    PROVE  KeyInv'
<1>1. call' = [call EXCEPT ![c] = Idle] /\ Idle.at = "ready" /\ ~Pending(Idle)
    BY DEF Return, Idle, Pending
<1> QED
    BY <1>1, KeysStay

LEMMA NextKeyInv == IInv /\ KeyInv /\ [Next]_vars => KeyInv'
<1> SUFFICES ASSUME IInv, KeyInv, [Next]_vars PROVE KeyInv'
    OBVIOUS
<1>1. ASSUME NEW p \in Providers, Start(p) PROVE KeyInv'
  <2>1. mem' = [mem EXCEPT ![p] = Loaded(config)] /\ UNCHANGED <<keyFile, call>>
    BY <1>1 DEF Start, disk
  <2>2. keyFile \in Nat /\ Loaded(config).key = keyFile
    BY MaxRevIsNat DEF IInv, IdTypeOK, Loaded
  <2>3. \A q \in Providers : mem'[q] = (IF q = p THEN Loaded(config) ELSE mem[q])
    BY <2>1 DEF IInv, IdTypeOK
  <2> QED
    BY <2>1, <2>2, <2>3 DEF KeyInv, SignsAhead
<1>2. ASSUME NEW p \in Providers, Crash(p) PROVE KeyInv'
  <2>1. /\ mem' = [mem EXCEPT ![p] = Down] /\ keyFile' = keyFile
        /\ call' = [c \in Calls |-> IF Of[c] = p THEN Idle ELSE call[c]]
    BY <1>2 DEF Crash, disk
  <2>2. \A q \in Providers : mem'[q] # Down => mem'[q] = mem[q]
    BY <2>1 DEF IInv, IdTypeOK
  <2>3. \A c \in Calls : call'[c] = Idle \/ call'[c] = call[c]
    BY <2>1
  <2>4. Idle.at = "ready" /\ ~Pending(Idle)
    BY DEF Idle, Pending
  <2>5. \A c \in Calls : SignsAhead(c)'
    BY <2>1, <2>3, <2>4 DEF KeyInv, SignsAhead
  <2> QED
    BY <2>1, <2>2, <2>5 DEF KeyInv
<1>3. ASSUME NEW c \in Calls, NEW o \in {"update", "rotate"}, Begin(c, o) PROVE KeyInv'
  <2> DEFINE k == [Idle EXCEPT !.at = "load", !.op = o, !.base = config]
  <2>1. call' = [call EXCEPT ![c] = k] /\ UNCHANGED <<keyFile, mem>>
    BY <1>3 DEF Begin, disk
  <2>2. k.at = "load" /\ ~Pending(k)
    BY DEF Idle, Pending
  <2> HIDE DEF k
  <2> QED
    BY <2>1, <2>2, KeysStay
<1>4. ASSUME NEW c \in Calls, Load(c) PROVE KeyInv'
  <2> DEFINE new == [rev |-> newest + 1, key |-> keyFile]
             g == [call[c] EXCEPT !.header = mem[Of[c]].key]
  <2>1. /\ call[c].at = "load" /\ UNCHANGED <<keyFile, mem>>
        /\ \/ call' = [call EXCEPT ![c] = [g EXCEPT !.at = "rotate"]]
           \/ call' = [call EXCEPT ![c] = [g EXCEPT !.at = "save", !.next = new]]
    BY <1>4 DEF Load, Loaded, disk
  <2>2. mem[Of[c]].key <= keyFile
    BY <2>1, Stands DEF KeyInv, CallKeeps
  <2>3. g \in [at : Phases, op : {"none", "update", "rotate", "email"},
                base : Version, next : Version, header : {mem[Of[c]].key}]
    BY Stands DEF Frame
  <2>4. PICK k : /\ call' = [call EXCEPT ![c] = k] /\ k.header <= keyFile
                 /\ k.at = "rotate" \/ (k.at = "save" /\ k.next.key = keyFile)
    <3>1. CASE call' = [call EXCEPT ![c] = [g EXCEPT !.at = "rotate"]]
      <4> DEFINE k == [g EXCEPT !.at = "rotate"]
      <4>1. k.header = mem[Of[c]].key /\ k.at = "rotate"
        BY <2>3
      <4> QED
        BY <2>2, <3>1, <4>1
    <3>2. CASE call' = [call EXCEPT ![c] = [g EXCEPT !.at = "save", !.next = new]]
      <4> DEFINE k == [g EXCEPT !.at = "save", !.next = new]
      <4>1. k.header = mem[Of[c]].key /\ k.at = "save" /\ k.next.key = keyFile
        BY <2>3
      <4> QED
        BY <2>2, <3>2, <4>1
    <3> QED
      BY <2>1, <3>1, <3>2
  <2>5. Pending(k) \/ k.at \in {"swap", "send"} => k.header <= k.next.key
    BY <2>4 DEF Pending
  <2> QED
    BY <2>1, <2>4, <2>5, KeysStay
<1>5. ASSUME NEW c \in Calls, Save(c) PROVE KeyInv'
  <2>1. Goto(c, "truncate") /\ UNCHANGED <<keyFile, mem>> /\ Pending(call[c])
    BY <1>5, Stands DEF Save, CallKeeps, Pending
  <2> QED
    BY <2>1, KeysGo DEF Phases
<1>6. ASSUME NEW c \in Calls, Rotate(c) PROVE KeyInv'
  <2> DEFINE new == [rev |-> newest + 1, key |-> newest + 1]
             k == [call[c] EXCEPT !.next = new, !.at = "swap"]
  <2>1. /\ call[c].at = "rotate" /\ keyFile' = newest + 1 /\ mem' = mem
        /\ call' = [call EXCEPT ![c] = k]
    BY <1>6 DEF Rotate
  <2>2. k.at = "swap" /\ k.next.key = newest + 1 /\ k.header = call[c].header
    BY Stands DEF Frame
  <2> HIDE DEF k
  <2>3. call[c].header <= keyFile /\ call[c].header \in Nat
    BY <2>1, Stands DEF KeyInv, SignsAhead, Frame
  <2>4. keyFile \in Nat /\ newest \in Nat /\ keyFile <= newest
    BY Stands
  <2>5. keyFile' \in Nat /\ keyFile <= keyFile' /\ k.header <= k.next.key
    BY <2>1, <2>2, <2>3, <2>4
  <2> QED
    BY <2>1, <2>2, <2>5, KeysKeep
<1>7. ASSUME NEW c \in Calls, Swap(c) \/ WriteVersion(c) PROVE KeyInv'
  <2>1. /\ Goto(c, "send") \/ Return(c)
        /\ mem' = [mem EXCEPT ![Of[c]] = call[c].next] /\ keyFile' = keyFile
        /\ call[c].at = "swap" \/ Pending(call[c])
    BY <1>7 DEF Swap, WriteVersion, Pending, disk
  <2>2. call[c].next.key <= keyFile /\ keyFile \in Nat
    BY <2>1, Stands DEF CallKeeps, PendingKeeps
  <2>3. \A p \in Providers : mem'[p] = mem[p] \/ mem'[p].key <= keyFile'
    BY <2>1, <2>2 DEF IInv, IdTypeOK
  <2>4. PICK k : /\ call' = [call EXCEPT ![c] = k] /\ k.at # "rotate"
                 /\ Pending(k) \/ k.at \in {"swap", "send"} => k.header <= k.next.key
    <3>1. CASE Goto(c, "send")
      <4>1. PICK k \in Frame :
              /\ call' = [call EXCEPT ![c] = k] /\ k.at = "send"
              /\ k.next = call[c].next /\ k.header = call[c].header
        BY <3>1, GotoFrame DEF Phases
      <4>2. call[c].header <= call[c].next.key
        BY <2>1 DEF KeyInv, SignsAhead
      <4> QED
        BY <4>1, <4>2
    <3>2. CASE Return(c)
      <4>1. Idle.at = "ready" /\ ~Pending(Idle)
        BY DEF Idle, Pending
      <4> QED
        BY <4>1, <3>2 DEF Return
    <3> QED
      BY <2>1, <3>1, <3>2
  <2>5. keyFile' \in Nat /\ keyFile <= keyFile'
    BY <2>1, <2>2
  <2> QED
    BY <2>3, <2>4, <2>5, KeysKeep
<1>8. ASSUME NEW c \in Calls, ReadForEmail(c) PROVE KeyInv'
  <2> DEFINE k == [Idle EXCEPT !.at = "lock", !.op = "email", !.base = config]
  <2>1. call' = [call EXCEPT ![c] = k] /\ UNCHANGED <<keyFile, mem>>
    BY <1>8 DEF ReadForEmail, disk
  <2>2. k.at = "lock" /\ ~Pending(k)
    BY DEF Idle, Pending
  <2> HIDE DEF k
  <2> QED
    BY <2>1, <2>2, KeysStay
<1>9. ASSUME NEW c \in Calls, LockForEmail(c) PROVE KeyInv'
  <2>1. Goto(c, "truncate") /\ UNCHANGED <<keyFile, mem>> /\ call[c].op = "email"
    BY <1>9, Stands DEF LockForEmail, CallKeeps, disk
  <2> QED
    BY <2>1, KeysGo DEF Phases
<1>10. ASSUME NEW c \in Calls, Truncate(c) PROVE KeyInv'
  <2>1. Goto(c, "write") /\ UNCHANGED <<keyFile, mem>> /\ call[c].at = "truncate"
    BY <1>10 DEF Truncate
  <2>2. PICK k \in Frame :
          /\ call' = [call EXCEPT ![c] = k] /\ k.at = "write" /\ k.op = call[c].op
          /\ k.next = call[c].next /\ k.header = call[c].header
    BY <2>1, GotoFrame DEF Phases
  <2>3. Pending(k) \/ k.at \in {"swap", "send"} => k.header <= k.next.key
    BY <2>1, <2>2 DEF KeyInv, SignsAhead, Pending
  <2> QED
    BY <2>1, <2>2, <2>3, KeysStay
<1>11. ASSUME NEW c \in Calls, WriteEmail(c) \/ Fail(c) \/ Send(c) PROVE KeyInv'
  <2>1. Return(c) /\ UNCHANGED <<keyFile, mem>>
    BY <1>11 DEF WriteEmail, Fail, Send, disk
  <2> QED
    BY <2>1, KeysReturn
<1>12. CASE UNCHANGED vars
    BY <1>12 DEF KeyInv, SignsAhead, vars, disk
<1> QED
    BY <1>1, <1>2, <1>3, <1>4, <1>5, <1>6, <1>7, <1>8, <1>9, <1>10, <1>11, <1>12 DEF Next

\* send_prepared_registration, over any number of providers on one config: registrations
\* that arrive late or out of order never bring back a key the server has replaced.
THEOREM ServerKeysAdvance == Spec => ServerKeyAdvances
<1>1. ASSUME IInv, KeyInv, [Next]_vars PROVE registered'.key >= registered.key
  <2>1. registered \in Version /\ registered.key \in Nat
    BY <1>1 DEF IInv, IdTypeOK, Version
  <2>2. ASSUME NEW c \in Calls, Send(c) PROVE registered'.key >= registered.key
    <3>1. CASE registered' = registered
      BY <3>1, <2>1
    <3>2. CASE call[c].header = registered.key /\ registered' = call[c].next
      <4>1. call[c].header <= call[c].next.key /\ call[c].next.key \in Nat
        BY <1>1, <2>2, Stands DEF Send, KeyInv, SignsAhead
      <4> QED
        BY <4>1, <3>2, <2>1
    <3> QED
      BY <2>2, <3>1, <3>2 DEF Send
  <2>3. CASE registered' = registered
    BY <2>3, <2>1
  <2>4. registered' = registered \/ \E c \in Calls : Send(c)
    BY <1>1 DEF Next, vars, disk, history, Start, Crash, Begin, Load, Save, Rotate, Swap, ReadForEmail,
                LockForEmail, Truncate, WriteVersion, WriteEmail, Fail
  <2> QED
    BY <2>2, <2>3, <2>4
<1>2. IInv /\ KeyInv /\ [Next]_vars => [registered'.key >= registered.key]_vars
    BY <1>1
<1> QED
    BY <1>2, InitKeyInv, NextKeyInv, Invariant, PTL DEF Spec, ServerKeyAdvances
================================================================================
