----------------------------- MODULE SignerKeysProofs -----------------------------
(***************************************************************************)
(* Theorems of SignerKeys, for every number of agents, threads and key      *)
(* versions: the types; a document verifies with its signer's key whatever  *)
(* the cache has seen; what makes the provider's own key miss in its file.  *)
(***************************************************************************)
EXTENDS SignerKeys, TLAPS

\* Under the name of a version the cache has that version's key or none.
CacheTrue == \A a \in Agents, v \in Versions : cache[a][v] \in {NoKey, v}

\* A thread that verifies a document asks for its signer's version, and what it got, or
\* is about to keep, is what it asked for.
ThreadTrue(t) ==
    /\ ~th[t].media /\ th[t].pc # "idle" => /\ th[t].agent = th[t].signer
                                           /\ th[t].name = th[t].version
    /\ th[t].pc \in {"truncate", "fill", "insert"} =>
          th[t].key # NoKey /\ (th[t].name = Latest \/ th[t].key = th[t].name)
    /\ th[t].pc = "use" /\ ~th[t].media => th[t].key = th[t].version
    /\ th[t].pc = "done" /\ ~th[t].media => th[t].valid

IInv ==
    /\ TypeOK
    /\ CacheTrue
    /\ \A t \in Threads : ThreadTrue(t)

-----------------------------------------------------------------------------
LEMMA InitIInv == Init => IInv
<1> SUFFICES ASSUME Init PROVE IInv
    OBVIOUS
<1>1. TypeOK
    BY SelfAssumption, KeysAssumption
       DEF Init, TypeOK, Idle, Verification, Versions, Names, Latest, NoKey, Torn
<1>2. CacheTrue
    BY DEF Init, CacheTrue, Names
<1>3. \A t \in Threads : ThreadTrue(t)
    BY DEF Init, ThreadTrue, Idle
<1> QED
    BY <1>1, <1>2, <1>3 DEF IInv

\* A step of one thread that writes no file: the thread goes on to k, and the cache to c.
LEMMA ThreadMoves ==
    ASSUME IInv, NEW t \in Threads, NEW k \in Verification, NEW c, NEW S,
           th' = [th EXCEPT ![t] = k], UNCHANGED <<current, pem, failed>>,
           cache' = c, c \in [Agents -> [Names -> Versions \cup {NoKey}]], CacheTrue',
           fetched' = S, S \in [Agents -> SUBSET Versions],
           ThreadTrue(t)'
    PROVE  IInv'
<1>1. TypeOK'
    BY DEF IInv, TypeOK
<1>2. ASSUME NEW u \in Threads PROVE ThreadTrue(u)'
  <2>1. CASE u = t
    BY <2>1
  <2>2. CASE u # t
    <3>1. th'[u] = th[u]
      BY <2>2 DEF IInv, TypeOK
    <3> QED
      BY <3>1 DEF IInv, ThreadTrue
  <2> QED
    BY <2>1, <2>2
<1> QED
    BY <1>1, <1>2 DEF IInv

LEMMA BeginIInv ==
    ASSUME IInv, NEW t \in Threads, NEW media \in BOOLEAN, NEW a \in Agents, NEW v \in Versions,
           NEW b \in Agents, NEW n \in Names, ~media => b = a /\ n = v,
           Begin(t, media, a, v, b, n)
    PROVE  IInv'
<1> DEFINE k == [pc |-> "ensure", media |-> media, signer |-> a, version |-> v, agent |-> b,
                 name |-> n, key |-> NoKey, valid |-> FALSE]
<1>1. /\ th' = [th EXCEPT ![t] = k]
      /\ UNCHANGED <<current, cache, pem, fetched, failed>>
    BY DEF Begin
<1>2. k \in Verification
    BY DEF Verification, NoKey
<1>3. th'[t] = k
    BY <1>1 DEF IInv, TypeOK
<1>4. ThreadTrue(t)'
    BY <1>3 DEF ThreadTrue
<1>5. CacheTrue' /\ cache \in [Agents -> [Names -> Versions \cup {NoKey}]]
      /\ fetched \in [Agents -> SUBSET Versions]
    BY <1>1 DEF IInv, TypeOK, CacheTrue
<1> HIDE DEF k
<1> QED
    BY <1>1, <1>2, <1>4, <1>5, ThreadMoves

LEMMA StepIInv ==
    ASSUME IInv, NEW t \in Threads,
           Lookup(t) \/ Fetch(t) \/ Truncate(t) \/ Fill(t) \/ FillFails(t)
           \/ Insert(t) \/ Use(t)
    PROVE  IInv'
<1>0. /\ th[t] \in Verification /\ ThreadTrue(t) /\ th \in [Threads -> Verification]
      /\ cache \in [Agents -> [Names -> Versions \cup {NoKey}]] /\ CacheTrue
      /\ fetched \in [Agents -> SUBSET Versions] /\ current \in [Agents -> Versions]
      /\ pem \in [Agents -> Versions \cup {NoKey, Torn}]
      /\ \A v \in Versions : v # Latest /\ v # NoKey /\ v # Torn
      /\ Latest = NoKey /\ Torn # NoKey
      /\ Names = Versions \cup {Latest}
  <2>1. \A v \in Versions : v # Latest /\ v # NoKey /\ v # Torn
    BY KeysAssumption DEF Versions, Latest, NoKey, Torn
  <2>2. Latest = NoKey /\ Torn # NoKey
    BY KeysAssumption DEF Latest, NoKey, Torn
  <2> QED
    BY <2>1, <2>2 DEF IInv, TypeOK, Names
<1>1. CASE Lookup(t)
  <2> DEFINE hit == cache[th[t].agent][th[t].name]
             k == IF hit # NoKey THEN [th[t] EXCEPT !.pc = "use", !.key = hit]
                  ELSE [th[t] EXCEPT !.pc = "fetch"]
  <2>1. hit \in Versions \cup {NoKey} /\ (th[t].name \in Versions => hit \in {NoKey, th[t].name})
    BY <1>0 DEF Verification, CacheTrue
  <2>2. th' = [th EXCEPT ![t] = k] /\ UNCHANGED <<current, cache, pem, fetched, failed>>
        /\ th[t].pc = "ensure"
    BY <1>1 DEF Lookup, Goto
  <2>3. k \in Verification
    BY <1>0, <2>1 DEF Verification
  <2>4. th'[t] = k
    BY <1>0, <2>2
  <2>5. ThreadTrue(t)'
    BY <1>0, <2>1, <2>2, <2>4 DEF ThreadTrue, Verification
  <2>6. CacheTrue'
    BY <1>0, <2>2 DEF CacheTrue
  <2> HIDE DEF k
  <2> QED
    BY <1>0, <2>2, <2>3, <2>5, <2>6, ThreadMoves
<1>2. CASE Fetch(t)
  <2> DEFINE a == th[t].agent
             key == IF th[t].name = Latest THEN current[a] ELSE th[t].name
             got == [th[t] EXCEPT !.pc = "truncate", !.key = key]
             on == [th[t] EXCEPT !.pc = "use"]
  <2>1. a \in Agents /\ key \in Versions
    BY <1>0 DEF Verification
  <2>2. th[t].pc = "fetch" /\ UNCHANGED <<current, cache, pem, failed>> /\ CacheTrue'
    BY <1>0, <1>2 DEF Fetch, CacheTrue
  <2>3. ASSUME th' = [th EXCEPT ![t] = got], fetched' = [fetched EXCEPT ![a] = @ \cup {key}]
        PROVE  IInv'
    <3>1. got \in Verification /\ th'[t] = got
      BY <1>0, <2>1, <2>3 DEF Verification
    <3>2. ThreadTrue(t)'
      BY <1>0, <2>1, <2>2, <3>1 DEF ThreadTrue, Verification
    <3>3. fetched' \in [Agents -> SUBSET Versions]
      BY <1>0, <2>1, <2>3
    <3> HIDE DEF got, key
    <3> QED
      BY <1>0, <2>2, <2>3, <3>1, <3>2, <3>3, ThreadMoves
  <2>4. ASSUME th[t].media, th' = [th EXCEPT ![t] = on], UNCHANGED fetched
        PROVE  IInv'
    <3>1. on \in Verification /\ th'[t] = on
      BY <1>0, <2>4 DEF Verification
    <3>2. ThreadTrue(t)'
      BY <1>0, <2>4, <3>1 DEF ThreadTrue, Verification
    <3> HIDE DEF on
    <3> QED
      BY <1>0, <2>2, <2>4, <3>1, <3>2, ThreadMoves
  <2>5. ASSUME th' = [th EXCEPT ![t] = Idle], UNCHANGED fetched
        PROVE  IInv'
    <3>1. Idle \in Verification /\ th'[t] = Idle
      BY <1>0, <2>5, SelfAssumption, KeysAssumption DEF Verification, Idle, Versions, Names
    <3>2. ThreadTrue(t)'
      BY <3>1 DEF ThreadTrue, Idle
    <3> QED
      BY <1>0, <2>2, <2>5, <3>1, <3>2, ThreadMoves
  <2> QED
    BY <1>2, <2>3, <2>4, <2>5 DEF Fetch, Goto
<1>3. CASE Insert(t)
  <2> DEFINE k == [th[t] EXCEPT !.pc = "use"]
  <2>1. /\ th' = [th EXCEPT ![t] = k] /\ th[t].pc = "insert"
        /\ cache' = [cache EXCEPT ![th[t].agent][th[t].name] = th[t].key]
        /\ UNCHANGED <<current, pem, fetched, failed>>
    BY <1>3 DEF Insert, Goto
  <2>2. th[t].key \in Versions /\ (th[t].name = Latest \/ th[t].key = th[t].name)
        /\ th[t].agent \in Agents /\ th[t].name \in Names
    BY <1>0, <2>1 DEF ThreadTrue, Verification
  <2>3. k \in Verification /\ th'[t] = k
    BY <1>0, <2>1 DEF Verification
  <2>4. ThreadTrue(t)'
    BY <1>0, <2>1, <2>2, <2>3 DEF ThreadTrue, Verification
  <2>5. cache' \in [Agents -> [Names -> Versions \cup {NoKey}]]
    BY <1>0, <2>1, <2>2
  <2>6. CacheTrue'
    BY <1>0, <2>1, <2>2 DEF CacheTrue
  <2> HIDE DEF k
  <2> QED
    BY <1>0, <2>1, <2>3, <2>4, <2>5, <2>6, ThreadMoves
<1>4. CASE Use(t)
  <2> DEFINE key == IF th[t].media THEN pem[th[t].signer] ELSE th[t].key
             k == [th[t] EXCEPT !.pc = "done", !.valid = (key = th[t].version)]
  <2>1. th' = [th EXCEPT ![t] = k] /\ th[t].pc = "use"
        /\ UNCHANGED <<current, cache, pem, fetched, failed>>
    BY <1>4 DEF Use
  <2>2. k \in Verification /\ th'[t] = k
    BY <1>0, <2>1 DEF Verification
  <2>3. ThreadTrue(t)'
    BY <1>0, <2>1, <2>2 DEF ThreadTrue, Verification
  <2>4. CacheTrue'
    BY <1>0, <2>1 DEF CacheTrue
  <2> HIDE DEF k
  <2> QED
    BY <1>0, <2>1, <2>2, <2>3, <2>4, ThreadMoves
\* The steps that write the file.
<1>5. ASSUME Truncate(t) \/ Fill(t) \/ FillFails(t) PROVE IInv'
  <2>1. PICK pc \in {"fill", "insert"} : th' = [th EXCEPT ![t].pc = pc]
    BY <1>5 DEF Truncate, Fill, FillFails, Goto
  <2>2. \A u \in Threads : th'[u] = IF u = t THEN [th[t] EXCEPT !.pc = pc] ELSE th[u]
    BY <1>0, <2>1
  <2>3. th' \in [Threads -> Verification]
    BY <1>0, <2>1 DEF Verification
  <2>4. \A u \in Threads : ThreadTrue(u)'
    <3> TAKE u \in Threads
    <3>1. th[t].pc \in {"truncate", "fill"}
      BY <1>5 DEF Truncate, Fill, FillFails
    <3>2. CASE u = t
      BY <1>0, <2>2, <3>1, <3>2 DEF ThreadTrue, Verification
    <3>3. CASE u # t
      BY <2>2, <3>3 DEF IInv, ThreadTrue
    <3> QED
      BY <3>2, <3>3
  <2>5. /\ UNCHANGED <<current, cache, fetched>> /\ failed' \subseteq Agents
        /\ pem' \in [Agents -> Versions \cup {NoKey, Torn}]
    <3>1. th[t].agent \in Agents /\ th[t].key \in Versions \cup {NoKey} /\ failed \subseteq Agents
      BY <1>0 DEF Verification, IInv, TypeOK
    <3>2. CASE Truncate(t)
      BY <1>0, <3>1, <3>2 DEF Truncate
    <3>3. CASE Fill(t)
      BY <1>0, <3>1, <3>3 DEF Fill
    <3>4. CASE FillFails(t)
      BY <1>0, <3>1, <3>4 DEF FillFails
    <3> QED
      BY <1>5, <3>2, <3>3, <3>4
  <2>7. TypeOK'
    BY <2>3, <2>5 DEF IInv, TypeOK
  <2>8. CacheTrue'
    BY <1>0, <2>5 DEF CacheTrue
  <2> QED
    BY <2>4, <2>7, <2>8 DEF IInv
<1> QED
    BY <1>1, <1>2, <1>3, <1>4, <1>5

LEMMA NextIInv == IInv /\ [Next]_kvars => IInv'
<1> SUFFICES ASSUME IInv, [Next]_kvars PROVE IInv'
    OBVIOUS
<1>1. CASE UNCHANGED kvars
    BY <1>1 DEF kvars, IInv, TypeOK, CacheTrue, ThreadTrue
<1>2. ASSUME NEW a \in Agents, Rotate(a) PROVE IInv'
    BY <1>2, KeysAssumption
       DEF Rotate, IInv, TypeOK, CacheTrue, ThreadTrue, Versions
<1>3. ASSUME NEW t \in Threads, VerifyDocument(t) \/ VerifyMedia(t) PROVE IInv'
  <2>1. \A a \in Agents : 1..current[a] \subseteq Versions
    BY KeysAssumption DEF IInv, TypeOK, Versions
  <2>2. Versions \subseteq Names /\ Latest \in Names
    BY DEF Names
  <2>3. CASE VerifyDocument(t)
    BY <2>1, <2>2, <2>3, BeginIInv DEF VerifyDocument
  <2>4. CASE VerifyMedia(t)
    BY <2>1, <2>2, <2>4, BeginIInv, SelfAssumption DEF VerifyMedia
  <2> QED
    BY <1>3, <2>3, <2>4
<1> QED
    BY <1>1, <1>2, <1>3, StepIInv DEF Next

LEMMA Invariant == Spec => []IInv
BY InitIInv, NextIInv, PTL DEF Spec

-----------------------------------------------------------------------------
\* Every thread is at one of its steps, and cache, files and threads hold keys of agents.
THEOREM TypeCorrect == Spec => []TypeOK
<1>1. IInv => TypeOK
    BY DEF IInv
<1> QED
    BY <1>1, Invariant, PTL

\* A document that its signer did sign never fails to verify for what the provider's
\* cache holds: not after rotations of the signer, not beside other threads.
THEOREM DocumentsVerify == Spec => []DocumentVerdict
<1>1. IInv => DocumentVerdict
    BY DEF IInv, ThreadTrue, DocumentVerdict
<1> QED
    BY <1>1, Invariant, PTL

-----------------------------------------------------------------------------
\* Where a key can be: what the cache, a thread or a PEM file holds was handed out by the
\* registry for that agent; who has kept a key has written the file before, or failed to;
\* and a cut-off file is being written, or was left by a write that failed.
CacheFiled ==
    \A a \in Agents, n \in Names :
        cache[a][n] # NoKey => cache[a][n] \in fetched[a] /\ (pem[a] # NoKey \/ a \in failed)

FileHanded ==
    \A a \in Agents :
        /\ pem[a] \in {NoKey, Torn} \cup fetched[a]
        /\ pem[a] = Torn => Writing(a) \/ a \in failed

ThreadFiled(t) ==
    LET a == th[t].agent IN
    /\ th[t].media => a = Self
    /\ th[t].key # NoKey =>
          /\ th[t].key \in fetched[a]
          /\ th[t].pc # "truncate" => pem[a] # NoKey \/ a \in failed

FileInv == CacheFiled /\ FileHanded /\ \A t \in Threads : ThreadFiled(t)

LEMMA InitFileInv == Init => FileInv
BY KeysAssumption DEF Init, FileInv, CacheFiled, FileHanded, ThreadFiled, Idle, NoKey, Torn

\* Nothing is handed back and no file is removed: what a step does not touch stays true,
\* so a step of one thread has to be looked at for that thread, the cache and the files.
LEMMA FiledStays ==
    ASSUME IInv, FileInv, NEW t \in Threads, NEW k, th' = [th EXCEPT ![t] = k],
           failed \subseteq failed',
           \A a \in Agents : /\ fetched[a] \subseteq fetched'[a]
                             /\ pem[a] # NoKey => pem'[a] # NoKey,
           CacheFiled', FileHanded', ThreadFiled(t)'
    PROVE  FileInv'
<1>1. ASSUME NEW u \in Threads PROVE ThreadFiled(u)'
  <2>1. CASE u = t
    BY <2>1
  <2>2. CASE u # t
    <3>1. th'[u] = th[u] /\ th[u].agent \in Agents
      BY <2>2 DEF IInv, TypeOK, Verification
    <3> QED
      BY <3>1 DEF FileInv, ThreadFiled
  <2> QED
    BY <2>1, <2>2
<1> QED
    BY <1>1 DEF FileInv

\* A thread that is not filling a file leaves the files alone.
LEMMA FilesStay ==
    ASSUME IInv, FileInv, NEW t \in Threads, NEW k, th' = [th EXCEPT ![t] = k],
           th[t].pc # "fill", UNCHANGED <<pem, failed>>,
           \A a \in Agents : fetched[a] \subseteq fetched'[a]
    PROVE  FileHanded'
<1>1. \A a \in Agents : Writing(a) => Writing(a)'
    BY DEF IInv, TypeOK, Writing
<1> QED
    BY <1>1 DEF FileInv, FileHanded

LEMMA NextFileInv == IInv /\ FileInv /\ [Next]_kvars => FileInv'
<1> SUFFICES ASSUME IInv, FileInv, [Next]_kvars PROVE FileInv'
    OBVIOUS
<1>0. /\ th \in [Threads -> Verification]
      /\ cache \in [Agents -> [Names -> Versions \cup {NoKey}]]
      /\ fetched \in [Agents -> SUBSET Versions]
      /\ current \in [Agents -> Versions]
      /\ pem \in [Agents -> Versions \cup {NoKey, Torn}]
      /\ CacheFiled /\ FileHanded /\ \A t \in Threads : ThreadTrue(t) /\ ThreadFiled(t)
      /\ \A v \in Versions : v # Torn
      /\ Torn # NoKey
    BY KeysAssumption DEF IInv, TypeOK, FileInv, Versions, Torn, NoKey
<1>1. CASE UNCHANGED kvars
    BY <1>1 DEF kvars, FileInv, CacheFiled, FileHanded, ThreadFiled, Writing
<1>2. ASSUME NEW a \in Agents, Rotate(a) PROVE FileInv'
    BY <1>2 DEF Rotate, FileInv, CacheFiled, FileHanded, ThreadFiled, Writing
<1>3. ASSUME NEW t \in Threads, VerifyDocument(t) \/ VerifyMedia(t) PROVE FileInv'
  <2>1. PICK media \in BOOLEAN, a \in Agents, v \in Nat, b \in Agents, n \in Names :
           Begin(t, media, a, v, b, n) /\ (media => b = Self)
    <3>1. \A a \in Agents : 1..current[a] \subseteq Versions /\ 1..current[a] \subseteq Nat
      BY <1>0, KeysAssumption DEF Versions
    <3> QED
      BY <1>3, <3>1, SelfAssumption DEF VerifyDocument, VerifyMedia, Names
  <2> DEFINE k == [pc |-> "ensure", media |-> media, signer |-> a, version |-> v, agent |-> b,
                   name |-> n, key |-> NoKey, valid |-> FALSE]
  <2>2. /\ th' = [th EXCEPT ![t] = k] /\ UNCHANGED <<current, cache, pem, fetched, failed>>
        /\ th[t].pc # "fill"
    BY <2>1 DEF Begin
  <2>3. ThreadFiled(t)'
    BY <1>0, <2>1, <2>2 DEF ThreadFiled
  <2>4. CacheFiled'
    BY <1>0, <2>2 DEF CacheFiled
  <2> HIDE DEF k
  <2> QED
    BY <2>2, <2>3, <2>4, FilesStay, FiledStays
<1>4. ASSUME NEW t \in Threads, Lookup(t) PROVE FileInv'
  <2> DEFINE hit == cache[th[t].agent][th[t].name]
             k == IF hit # NoKey THEN [th[t] EXCEPT !.pc = "use", !.key = hit]
                  ELSE [th[t] EXCEPT !.pc = "fetch"]
  <2>1. th' = [th EXCEPT ![t] = k] /\ UNCHANGED <<current, cache, pem, fetched, failed>>
        /\ th[t].pc = "ensure" /\ th'[t] = k
    BY <1>0, <1>4 DEF Lookup, Goto
  <2>2. th[t].agent \in Agents /\ th[t].name \in Names
    BY <1>0 DEF Verification
  <2>3. hit # NoKey => /\ hit \in fetched[th[t].agent]
                       /\ pem[th[t].agent] # NoKey \/ th[t].agent \in failed
    BY <1>0, <2>2 DEF CacheFiled
  <2>4. ThreadFiled(t)'
    BY <1>0, <2>1, <2>3 DEF ThreadFiled, Verification
  <2>5. CacheFiled'
    BY <1>0, <2>1 DEF CacheFiled
  <2> HIDE DEF k
  <2> QED
    BY <2>1, <2>4, <2>5, FilesStay, FiledStays
<1>5. ASSUME NEW t \in Threads, Fetch(t) PROVE FileInv'
  <2> DEFINE a == th[t].agent
             key == IF th[t].name = Latest THEN current[a] ELSE th[t].name
             got == [th[t] EXCEPT !.pc = "truncate", !.key = key]
             on == [th[t] EXCEPT !.pc = "use"]
  <2>1. a \in Agents /\ th[t].pc = "fetch" /\ UNCHANGED <<current, cache, pem, failed>>
    BY <1>0, <1>5 DEF Fetch, Verification
  <2>2. ASSUME th' = [th EXCEPT ![t] = got], fetched' = [fetched EXCEPT ![a] = @ \cup {key}]
        PROVE  FileInv'
    <3>1. th'[t] = got
      BY <1>0, <2>2
    <3>2. \A b \in Agents : fetched[b] \subseteq fetched'[b]
      BY <1>0, <2>2
    <3>3. key \in fetched'[a]
      BY <1>0, <2>1, <2>2
    <3>4. ThreadFiled(t)'
      BY <1>0, <3>1, <3>3 DEF ThreadFiled, Verification
    <3>5. CacheFiled'
      BY <1>0, <2>1, <3>2 DEF CacheFiled
    <3> HIDE DEF got
    <3> QED
      BY <2>1, <2>2, <3>2, <3>4, <3>5, FilesStay, FiledStays
  <2>3. ASSUME NEW k \in {on, Idle}, th' = [th EXCEPT ![t] = k], UNCHANGED fetched
        PROVE  FileInv'
    <3>1. th'[t] = k
      BY <1>0, <2>3
    <3>2. ThreadFiled(t)'
      BY <1>0, <2>1, <2>3, <3>1 DEF ThreadFiled, Verification, Idle
    <3>3. CacheFiled'
      BY <1>0, <2>1, <2>3 DEF CacheFiled
    <3> QED
      BY <2>1, <2>3, <3>2, <3>3, FilesStay, FiledStays
  <2> QED
    BY <1>5, <2>2, <2>3 DEF Fetch, Goto
<1>6. ASSUME NEW t \in Threads, Truncate(t) PROVE FileInv'
  <2>1. th[t].pc = "truncate" /\ th[t].agent \in Agents /\ UNCHANGED <<current, cache, fetched>>
    BY <1>0, <1>6 DEF Truncate, Verification
  <2>2. CASE Goto(t, "fill") /\ pem' = [pem EXCEPT ![th[t].agent] = Torn] /\ UNCHANGED failed
    <3> DEFINE k == [th[t] EXCEPT !.pc = "fill"]
    <3>1. th' = [th EXCEPT ![t] = k] /\ th'[t] = k
      BY <1>0, <2>2 DEF Goto
    <3>2. \A b \in Agents : pem[b] # NoKey => pem'[b] # NoKey
      BY <1>0, <2>1, <2>2
    <3>3. pem'[th[t].agent] = Torn
      BY <1>0, <2>1, <2>2
    <3>4. k.agent = th[t].agent /\ k.key = th[t].key /\ k.media = th[t].media /\ k.pc = "fill"
      BY <1>0 DEF Verification
    <3> HIDE DEF k
    <3>5. ThreadFiled(t)'
      BY <1>0, <2>1, <3>1, <3>3, <3>4 DEF ThreadFiled
    <3>6. CacheFiled'
      BY <1>0, <2>1, <2>2, <3>2 DEF CacheFiled
    <3>7. \A b \in Agents : Writing(b) \/ b = th[t].agent => Writing(b)'
      BY <1>0, <2>1, <3>1, <3>4 DEF Writing
    <3>8. FileHanded'
      BY <1>0, <2>1, <2>2, <3>7 DEF FileHanded
    <3> QED
      BY <2>1, <2>2, <3>1, <3>2, <3>5, <3>6, <3>8, FiledStays
  <2>3. CASE Goto(t, "insert") /\ failed' = failed \cup {th[t].agent} /\ UNCHANGED pem
    <3> DEFINE k == [th[t] EXCEPT !.pc = "insert"]
    <3>1. th' = [th EXCEPT ![t] = k] /\ th'[t] = k
      BY <1>0, <2>3 DEF Goto
    <3>2. k.agent = th[t].agent /\ k.key = th[t].key /\ k.media = th[t].media
      BY <1>0 DEF Verification
    <3> HIDE DEF k
    <3>3. ThreadFiled(t)'
      BY <1>0, <2>1, <2>3, <3>1, <3>2 DEF ThreadFiled
    <3>4. CacheFiled'
      BY <1>0, <2>1, <2>3 DEF CacheFiled
    <3>5. \A b \in Agents : Writing(b) => Writing(b)'
      BY <1>0, <2>1, <3>1 DEF Writing
    <3>6. FileHanded'
      BY <1>0, <2>1, <2>3, <3>5 DEF FileHanded
    <3> QED
      BY <2>1, <2>3, <3>1, <3>3, <3>4, <3>6, FiledStays
  <2> QED
    BY <1>6, <2>2, <2>3 DEF Truncate
<1>7. ASSUME NEW t \in Threads, Fill(t) \/ FillFails(t) PROVE FileInv'
  <2> DEFINE a == th[t].agent
             k == [th[t] EXCEPT !.pc = "insert"]
  <2>1. /\ th' = [th EXCEPT ![t] = k] /\ th[t].pc = "fill" /\ a \in Agents
        /\ UNCHANGED <<current, cache, fetched>> /\ th'[t] = k
        /\ \/ pem' = [pem EXCEPT ![a] = th[t].key] /\ failed' = failed
           \/ pem' \in {pem, [pem EXCEPT ![a] = Torn]} /\ failed' = failed \cup {a}
    BY <1>0, <1>7 DEF Fill, FillFails, Goto, Verification
  <2>2. th[t].key # NoKey /\ th[t].key \in fetched[a] /\ th[t].key # Torn
    BY <1>0, <2>1 DEF ThreadTrue, ThreadFiled, Verification
  <2>3. \A b \in Agents : pem[b] # NoKey => pem'[b] # NoKey
    BY <1>0, <2>1, <2>2
  <2>4. k.agent = a /\ k.key = th[t].key /\ k.media = th[t].media /\ k.pc = "insert"
    BY <1>0 DEF Verification
  <2> HIDE DEF k
  <2>5. ThreadFiled(t)'
    BY <1>0, <2>1, <2>2, <2>3, <2>4 DEF ThreadFiled
  <2>6. CacheFiled'
    BY <1>0, <2>1, <2>3 DEF CacheFiled
  <2>7. \A b \in Agents \ {a} : Writing(b) => Writing(b)'
    BY <1>0, <2>1 DEF Writing
  <2>8. FileHanded'
    <3>1. ASSUME NEW b \in Agents
          PROVE  /\ pem'[b] \in {NoKey, Torn} \cup fetched'[b]
                 /\ pem'[b] = Torn => Writing(b)' \/ b \in failed'
      <4>1. CASE b = a
        BY <1>0, <2>1, <2>2, <4>1 DEF FileHanded
      <4>2. CASE b # a
        BY <1>0, <2>1, <2>7, <4>2 DEF FileHanded
      <4> QED
        BY <4>1, <4>2
    <3> QED
      BY <3>1 DEF FileHanded
  <2>9. failed \subseteq failed'
    BY <2>1
  <2> QED
    BY <2>1, <2>3, <2>5, <2>6, <2>8, <2>9, FiledStays
<1>8. ASSUME NEW t \in Threads, Insert(t) PROVE FileInv'
  <2>1. /\ th' = [th EXCEPT ![t] = [th[t] EXCEPT !.pc = "use"]] /\ th[t].pc = "insert"
        /\ UNCHANGED <<current, pem, fetched, failed>>
        /\ th[t].agent \in Agents /\ th[t].name \in Names
        /\ cache' = [cache EXCEPT ![th[t].agent][th[t].name] = th[t].key]
    BY <1>0, <1>8 DEF Insert, Goto, Verification
  <2>2. /\ th[t].key \in fetched[th[t].agent]
        /\ pem[th[t].agent] # NoKey \/ th[t].agent \in failed
    BY <1>0, <2>1 DEF ThreadTrue, ThreadFiled
  <2>3. ThreadFiled(t)'
    BY <1>0, <2>1, <2>2 DEF ThreadFiled, Verification
  <2>4. CacheFiled'
    BY <1>0, <2>1, <2>2 DEF CacheFiled
  <2> QED
    BY <2>1, <2>3, <2>4, FilesStay, FiledStays
<1>9. ASSUME NEW t \in Threads, Use(t) PROVE FileInv'
  <2> DEFINE key == IF th[t].media THEN pem[th[t].signer] ELSE th[t].key
             k == [th[t] EXCEPT !.pc = "done", !.valid = (key = th[t].version)]
  <2>1. th' = [th EXCEPT ![t] = k] /\ UNCHANGED <<current, cache, pem, fetched, failed>>
        /\ th'[t] = k /\ th[t].pc = "use"
    BY <1>0, <1>9 DEF Use
  <2>2. ThreadFiled(t)'
    BY <1>0, <2>1 DEF ThreadFiled, Verification
  <2>3. CacheFiled'
    BY <1>0, <2>1 DEF CacheFiled
  <2> HIDE DEF k
  <2> QED
    BY <2>1, <2>2, <2>3, FilesStay, FiledStays
<1> QED
    BY <1>1, <1>2, <1>3, <1>4, <1>5, <1>6, <1>7, <1>8, <1>9 DEF Next

\* ensure_signer_key, seed_self_key: whoever found the provider's own key finds a key of it
\* in the PEM file, unless a thread is writing the file again or a write of it has failed.
THEOREM OwnKeyFiled == Spec => []OwnKeyOnFile
<1>1. IInv /\ FileInv => OwnKeyOnFile
  <2> SUFFICES ASSUME IInv, FileInv, NEW t \in Threads,
                      th[t].pc = "use", th[t].key # NoKey, th[t].media
               PROVE  pem[Self] \in fetched[Self] \/ Writing(Self) \/ Self \in failed
      BY DEF OwnKeyOnFile
  <2>1. th[t].agent = Self /\ (pem[Self] # NoKey \/ Self \in failed)
      BY DEF FileInv, ThreadFiled
  <2>2. /\ pem[Self] \in {NoKey, Torn} \cup fetched[Self]
        /\ pem[Self] = Torn => Writing(Self) \/ Self \in failed
      BY SelfAssumption DEF FileInv, FileHanded
  <2> QED
      BY <2>1, <2>2
<1> QED
    BY <1>1, InitFileInv, NextFileInv, Invariant, PTL DEF Spec
=============================================================================
