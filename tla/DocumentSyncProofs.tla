---------------------------- MODULE DocumentSyncProofs ----------------------------
(***************************************************************************)
(* Theorems of DocumentSync, for every set of machines, savers and commands *)
(* and every number of versions: the types; what a push with local metadata *)
(* finds and replaces, its machine has read; a second document comes only   *)
(* from creations that overlapped; a push is refused only when behind.      *)
(***************************************************************************)
EXTENDS DocumentSync, SequenceTheorems, WellFoundedInduction, TLAPS

\* The version that arrived last; while nothing is removed it is the newest.
Arrived == posted[Len(posted)].version

\* While nothing was removed and the server's version is among m's: what m's file must
\* then be.
InStep(m) == gone = {} /\ posted # <<>> /\ Arrived \in local[m]

Aligned(m) == InStep(m) => file[m] \in {Arrived, Torn}

\* Where a command is tells what its machine's file is, and what it may replace.
CmdKeeps(c) ==
    LET k == cmd[c] IN
    k # Idle =>
      /\ k.sync => k.at \in Machines
      /\ k.pc \in {"local", "probe", "cache", "find", "list", "get", "write", "pulled"}
            => k.sync
      /\ k.sync /\ k.pc \in {"local", "probe", "resolve", "fetch", "post"} => file[k.at] = k.text
      /\ k.pc \in {"local", "probe"} => k.expected = None
      /\ k.pc = "resolve" /\ k.sync => k.expected \in local[k.at] \cup {None}
      /\ k.pc \in {"fetch", "get", "write", "pulled"} => k.found \in Known
      /\ k.pc = "fetch" /\ k.sync /\ gone = {} /\ k.expected = k.found => k.text \in {k.found, Torn}
      /\ k.pc = "post" => k.mine \in Versions /\ k.mine \notin Known
      /\ k.pc = "post" /\ k.sync /\ gone = {} /\ k.expected # None /\ k.found # None
            => k.text \in {k.found, Torn}
      /\ k.pc = "cache" => k.mine \in Known /\ file[k.at] = k.mine
      /\ k.pc \in {"get", "write"} /\ InStep(k.at) => k.found = Arrived
      /\ k.pc = "pulled" => file[k.at] = k.found

\* Two commands sync at two machines, and two that post have signed two versions.
Apart(c, d) ==
    cmd[c] # Idle /\ cmd[d] # Idle /\ c # d =>
      /\ cmd[c].sync /\ cmd[d].sync => cmd[c].at # cmd[d].at
      /\ cmd[c].pc = "post" /\ cmd[d].pc = "post" => cmd[c].mine # cmd[d].mine

IInv ==
    /\ TypeOK
    /\ \A m \in Machines : Aligned(m)
    /\ \A c \in Commands : CmdKeeps(c)
    /\ \A c, d \in Commands : Apart(c, d)
-----------------------------------------------------------------------------
\* The operators of the model.

LEMMA MaxExists ==
    ASSUME NEW n \in Nat, NEW S \in SUBSET (1..n), S # {}
    PROVE  Max(S) \in S /\ \A i \in S : Max(S) >= i
<1> DEFINE R == {n - i : i \in S}
           Less == OpToRel(<, Nat)
<1>1. R # {} /\ R \subseteq Nat
  <2>1. \A i \in S : n - i \in Nat
    OBVIOUS
  <2>2. PICK i \in S : TRUE
    OBVIOUS
  <2>3. n - i \in R
    BY <2>2
  <2> QED
    BY <2>1, <2>3
<1>2. \A q, r \in Nat : q < r => <<q, r>> \in Less
    BY DEF OpToRel
<1> HIDE DEF R, Less
<1>3. \E r \in R : \A q \in R : ~(<<q, r>> \in Less)
    BY <1>1, WFMin, NatLessThanWellFounded DEF Less
<1>4. PICK r \in R : \A q \in R : ~(q < r)
    BY <1>1, <1>2, <1>3
<1>5. PICK j \in S : r = n - j
    BY DEF R
<1>6. \A k \in S : j >= k
  <2> TAKE k \in S
  <2>1. n - k \in R
    BY DEF R
  <2>2. ~(n - k < n - j)
    BY <1>4, <1>5, <2>1
  <2> QED
    BY <2>2
<1> QED
    BY <1>5, <1>6 DEF Max

LEMMA KnownVersions ==
    ASSUME TypeOK
    PROVE  /\ Known = {posted[i].version : i \in DOMAIN posted}
           /\ Known \subseteq Versions
           /\ \A v \in Known : Record(v) \in Range(posted) /\ Record(v).doc \in 1..MaxVersions
           /\ Len(posted) \in Nat /\ DOMAIN posted = 1..Len(posted)
           /\ None \notin Versions
<1>1. Len(posted) \in Nat /\ DOMAIN posted = 1..Len(posted)
      /\ \A i \in DOMAIN posted : posted[i] \in Signed
    BY LenProperties, ElementOfSeq DEF TypeOK
<1>2. Known = {posted[i].version : i \in DOMAIN posted}
    BY DEF Known, Range
<1>3. \A v \in Known : Record(v) \in Range(posted)
    BY DEF Known, Record
<1>4. \A r \in Range(posted) : r \in Signed
    BY <1>1 DEF Range
<1>5. None \notin Versions
    BY DEF TypeOK, None, Versions
<1> QED
    BY <1>1, <1>2, <1>3, <1>4, <1>5 DEF TypeOK, Signed

LEMMA NewestVersion ==
    ASSUME TypeOK
    PROVE  /\ Newest \in Known \cup {None}
           /\ gone = {} /\ posted # <<>> => Newest = Arrived
           /\ Newest # None => posted # <<>>
<1> DEFINE live == {i \in DOMAIN posted : posted[i].doc \in Live}
<1>1. Len(posted) \in Nat /\ DOMAIN posted = 1..Len(posted)
      /\ Known = {posted[i].version : i \in DOMAIN posted}
    BY KnownVersions
<1>2. Newest = IF live = {} THEN None ELSE posted[Max(live)].version
    BY DEF Newest
<1>3. live # {} => Max(live) \in live /\ \A i \in live : Max(live) >= i
    BY <1>1, MaxExists
<1>4. ASSUME gone = {}, posted # <<>> PROVE Newest = Arrived
  <2>1. live = 1..Len(posted) /\ Len(posted) >= 1
    BY <1>1, <1>4 DEF Live, Range, TypeOK
  <2>2. Max(live) \in 1..Len(posted) /\ Max(live) >= Len(posted)
    BY <1>3, <2>1
  <2>3. Max(live) = Len(posted)
    BY <1>1, <2>2
  <2> QED
    BY <1>2, <2>1, <2>3 DEF Arrived
<1>5. Newest # None => posted # <<>>
    BY <1>1, <1>2 DEF TypeOK
<1> HIDE DEF live
<1>6. Newest \in Known \cup {None}
  <2>1. CASE live = {}
    BY <1>2, <2>1
  <2>2. CASE live # {}
    BY <1>1, <1>2, <1>3, <2>2 DEF live
  <2> QED
    BY <2>1, <2>2
<1> QED
    BY <1>4, <1>5, <1>6

LEMMA Busy ==
    ASSUME TypeOK, NEW c \in Commands, cmd[c].pc # "idle"
    PROVE  cmd[c] \in Running /\ cmd[c] # Idle
BY DEF TypeOK, Idle

-----------------------------------------------------------------------------
LEMMA InitIInv == Init => IInv
<1> SUFFICES ASSUME Init PROVE IInv
    OBVIOUS
<1>1. \A c \in Commands : cmd[c] = Idle
    BY DEF Init
<1>2. TypeOK
    BY MaxVersionsAssumption DEF Init, TypeOK, Versions, Known, Range, None
<1> QED
    BY <1>1, <1>2 DEF Init, IInv, Aligned, InStep, CmdKeeps, Apart

\* A step of one command that leaves the server's versions and the disks alone.
LEMMA CmdMoves ==
    ASSUME IInv, NEW c \in Commands, NEW k,
           cmd' = [cmd EXCEPT ![c] = k], UNCHANGED <<posted, gone, Disk>>,
           versions' \in Nat, versions <= versions', versions' <= MaxVersions,
           k \in Running' \cup {Idle}, CmdKeeps(c)',
           \A d \in Commands \ {c} : Apart(c, d)'
    PROVE  IInv'
<1>1. Versions \subseteq Versions' /\ Known' = Known
    BY MaxVersionsAssumption DEF IInv, TypeOK, Versions, Known
<1>2. Running \subseteq Running'
    BY <1>1 DEF Running
<1>3. TypeOK'
  <2>1. cmd' \in [Commands -> Running' \cup {Idle}]
    BY <1>2 DEF IInv, TypeOK
  <2>2. posted' \in Seq(Signed) /\ Known' \subseteq Versions'
    BY <1>1 DEF IInv, TypeOK
  <2> QED
    BY <1>1, <2>1, <2>2, MaxVersionsAssumption DEF IInv, TypeOK, Disk
<1>4. \A m \in Machines : Aligned(m)'
    BY DEF IInv, Aligned, InStep, Arrived, Disk
<1>5. \A d \in Commands \ {c} : cmd'[d] = cmd[d]
    BY DEF IInv, TypeOK
<1>6. \A d \in Commands : CmdKeeps(d)'
  <2> TAKE d \in Commands
  <2>1. CASE d = c
    BY <2>1
  <2>2. CASE d # c
    <3>1. cmd'[d] = cmd[d] /\ CmdKeeps(d)
      BY <1>5, <2>2 DEF IInv
    <3> QED
      BY <1>1, <3>1 DEF CmdKeeps, InStep, Arrived, Disk
  <2> QED
    BY <2>1, <2>2
<1>7. \A d, e \in Commands : Apart(d, e)'
  <2> TAKE d, e \in Commands
  <2>1. CASE d = e
    BY <2>1 DEF Apart
  <2>2. CASE d = c /\ d # e
    BY <2>2
  <2>3. CASE e = c /\ d # e
    BY <2>3 DEF Apart
  <2>4. CASE d # c /\ e # c
    BY <1>5, <2>4 DEF IInv, Apart
  <2> QED
    BY <2>1, <2>2, <2>3, <2>4
<1> QED
    BY <1>3, <1>4, <1>6, <1>7 DEF IInv

LEMMA BeginIInv ==
    ASSUME IInv, NEW c \in Commands, NEW m \in Machines \cup Savers, NEW pc, NEW text,
           NEW sync \in BOOLEAN, Begin(c, m, pc, text, sync),
           \/ pc = "local" /\ sync /\ m \in Machines /\ text = file[m]
           \/ pc = "find" /\ sync /\ m \in Machines /\ text = None
           \/ pc = "resolve" /\ ~sync /\ text = None
    PROVE  IInv'
<1> DEFINE k == [pc |-> pc, at |-> m, text |-> text, sync |-> sync, expected |-> None,
                 found |-> None, seen |-> 0, mine |-> None]
<1>1. /\ cmd' = [cmd EXCEPT ![c] = k] /\ cmd'[c] = k
      /\ UNCHANGED <<versions, posted, gone, Disk>>
      /\ \A d \in Commands \ {c} : cmd'[d] = cmd[d]
      /\ sync => \A d \in Commands : cmd[d] # Idle /\ cmd[d].sync => cmd[d].at # m
    BY DEF Begin, Disk, IInv, TypeOK, Syncing
<1>2. versions \in Nat /\ versions <= MaxVersions /\ 0 \in 0..Len(posted)
    BY KnownVersions, MaxVersionsAssumption DEF IInv, TypeOK
<1>3. text \in {None, Torn} \cup Known
    BY DEF IInv, TypeOK
<1>4. k \in Running
    BY <1>2, <1>3 DEF Running
<1>5. k \in Running'
    BY <1>1, <1>4 DEF Running, Versions, Known
<1>6. CmdKeeps(c)'
    BY <1>1 DEF CmdKeeps, Disk
<1>7. \A d \in Commands \ {c} : Apart(c, d)'
    BY <1>1 DEF Apart
<1> HIDE DEF k
<1>8. /\ cmd' = [cmd EXCEPT ![c] = k] /\ UNCHANGED <<posted, gone, Disk>>
      /\ versions' \in Nat /\ versions <= versions' /\ versions' <= MaxVersions
    BY <1>1, <1>2
<1>9. k \in Running' \cup {Idle}
    BY <1>5
<1> QED
    BY <1>7, <1>6, <1>8, <1>9, CmdMoves

LEMMA StopIInv ==
    ASSUME IInv, NEW c \in Commands, End(c), UNCHANGED <<versions, posted, gone, Disk>>
    PROVE  IInv'
<1>1. cmd' = [cmd EXCEPT ![c] = Idle] /\ cmd'[c] = Idle
    BY DEF End, IInv, TypeOK
<1>2. CmdKeeps(c)' /\ \A d \in Commands : Apart(c, d)'
    BY <1>1 DEF CmdKeeps, Apart
<1>3. /\ UNCHANGED <<posted, gone, Disk>>
      /\ versions' \in Nat /\ versions <= versions' /\ versions' <= MaxVersions
    BY MaxVersionsAssumption DEF IInv, TypeOK
<1> QED
    BY <1>1, <1>2, <1>3, CmdMoves

\* A command that goes on to another step and keeps its machine and its version.
LEMMA GoesOn ==
    ASSUME IInv, NEW c \in Commands, NEW k, cmd[c] # Idle,
           cmd' = [cmd EXCEPT ![c] = k], UNCHANGED <<versions, posted, gone, Disk>>,
           k \in Running, k.at = cmd[c].at, k.sync = cmd[c].sync, k.pc # "post", CmdKeeps(c)'
    PROVE  IInv'
<1>1. cmd'[c] = k /\ \A d \in Commands \ {c} : cmd'[d] = cmd[d]
    BY DEF IInv, TypeOK
<1>2. \A d \in Commands \ {c} : Apart(c, d)'
    BY <1>1 DEF Apart, IInv
<1>3. k \in Running'
    BY DEF Running, Versions, Known
<1>4. /\ UNCHANGED <<posted, gone, Disk>>
      /\ versions' \in Nat /\ versions <= versions' /\ versions' <= MaxVersions
    BY MaxVersionsAssumption DEF IInv, TypeOK
<1> QED
    BY <1>2, <1>3, <1>4, CmdMoves

LEMMA ReadLocalIInv ==
    ASSUME IInv, NEW c \in Commands, ReadLocal(c)
    PROVE  IInv'
<1>1. /\ cmd[c].pc = "local" /\ cmd[c].sync /\ cmd[c].at \in Machines
      /\ cmd[c] \in Running /\ cmd[c] # Idle
      /\ UNCHANGED <<versions, posted, gone, Disk>>
    BY Busy DEF IInv, CmdKeeps, ReadLocal, Server
<1>2. file[cmd[c].at] = cmd[c].text /\ cmd[c].expected = None
    BY <1>1 DEF IInv, CmdKeeps
<1>3. CASE Goto(c, "probe")
  <2> DEFINE k == [cmd[c] EXCEPT !.pc = "probe"]
  <2>1. cmd' = [cmd EXCEPT ![c] = k] /\ cmd'[c] = k
    BY <1>3 DEF Goto, IInv, TypeOK
  <2>2. k \in Running /\ k.at = cmd[c].at /\ k.sync = cmd[c].sync /\ k.pc = "probe"
    BY <1>1 DEF Running
  <2>3. CmdKeeps(c)'
    BY <1>1, <1>2, <2>1 DEF CmdKeeps, Disk, Running
  <2> QED
    BY <1>1, <2>1, <2>2, <2>3, GoesOn
<1>4. ASSUME NEW v \in LatestLocal(cmd[c].at),
             cmd' = [cmd EXCEPT ![c].pc = "resolve", ![c].expected = v]
      PROVE  IInv'
  <2> DEFINE k == [cmd[c] EXCEPT !.pc = "resolve", !.expected = v]
  <2>1. cmd' = [cmd EXCEPT ![c] = k] /\ cmd'[c] = k
    BY <1>4 DEF IInv, TypeOK
  <2>2. v \in local[cmd[c].at] /\ v \in Known
    BY <1>1 DEF LatestLocal, IInv, TypeOK
  <2>3. k \in Running /\ k.at = cmd[c].at /\ k.sync = cmd[c].sync /\ k.pc = "resolve"
    BY <1>1, <2>2 DEF Running
  <2>4. CmdKeeps(c)'
    BY <1>1, <1>2, <2>1, <2>2 DEF CmdKeeps, Disk, Running
  <2> QED
    BY <1>1, <2>1, <2>3, <2>4, GoesOn
<1> QED
    BY <1>3, <1>4 DEF ReadLocal

LEMMA ProbeIInv ==
    ASSUME IInv, NEW c \in Commands, Probe(c)
    PROVE  IInv'
<1>1. /\ cmd[c].pc = "probe" /\ cmd[c].sync /\ cmd[c] \in Running /\ cmd[c] # Idle
      /\ cmd[c].at \in Machines
      /\ UNCHANGED <<versions, posted, gone, Disk>>
    BY Busy DEF IInv, CmdKeeps, Probe, Server
<1>2. file[cmd[c].at] = cmd[c].text /\ cmd[c].expected = None
    BY <1>1 DEF IInv, CmdKeeps
<1>3. CASE Goto(c, "resolve")
  <2> DEFINE k == [cmd[c] EXCEPT !.pc = "resolve"]
  <2>1. cmd' = [cmd EXCEPT ![c] = k] /\ cmd'[c] = k
    BY <1>3 DEF Goto, IInv, TypeOK
  <2>2. k \in Running /\ k.at = cmd[c].at /\ k.sync = cmd[c].sync /\ k.pc = "resolve"
    BY <1>1 DEF Running
  <2>3. CmdKeeps(c)'
    BY <1>1, <1>2, <2>1 DEF CmdKeeps, Disk, Running
  <2> QED
    BY <1>1, <2>1, <2>2, <2>3, GoesOn
<1> QED
    BY <1>1, <1>3, StopIInv DEF Probe

\* A step that signs: the new version is above every version there is.
LEMMA Signs ==
    ASSUME IInv, NEW c \in Commands, NEW k, cmd' = [cmd EXCEPT ![c] = k],
           UNCHANGED <<posted, gone, Disk>>, versions' = versions + 1, versions < MaxVersions,
           k.pc = "post", k.mine = versions', k \in Running',
           k.sync => cmd[c] # Idle /\ cmd[c].sync /\ k.at = cmd[c].at,
           CmdKeeps(c)'
    PROVE  IInv'
<1>1. cmd'[c] = k /\ \A d \in Commands \ {c} : cmd'[d] = cmd[d]
    BY DEF IInv, TypeOK
<1>2. versions \in Nat /\ versions' \notin Versions
    BY MaxVersionsAssumption DEF IInv, TypeOK, Versions
<1>3. ASSUME NEW d \in Commands \ {c} PROVE Apart(c, d)'
  <2>1. cmd[d] # Idle /\ cmd[d].pc = "post" => cmd[d].mine \in Versions
    BY DEF IInv, CmdKeeps
  <2>2. cmd[c] # Idle /\ cmd[d] # Idle /\ cmd[c].sync /\ cmd[d].sync => cmd[c].at # cmd[d].at
    BY DEF IInv, Apart
  <2> QED
    BY <1>1, <1>2, <2>1, <2>2 DEF Apart
<1>4. versions' \in Nat /\ versions <= versions' /\ versions' <= MaxVersions
    BY <1>2, MaxVersionsAssumption
<1> QED
    BY <1>3, <1>4, CmdMoves

LEMMA ResolveIInv ==
    ASSUME IInv, NEW c \in Commands, Resolve(c)
    PROVE  IInv'
<1>1. /\ cmd[c].pc = "resolve" /\ cmd[c] \in Running /\ cmd[c] # Idle
      /\ UNCHANGED <<posted, gone, Disk>>
      /\ CmdKeeps(c) /\ TypeOK
    BY Busy DEF IInv, Resolve
<1>2. /\ Len(posted) \in 0..Len(posted) /\ Known \subseteq Versions
      /\ versions \in Nat
    BY KnownVersions, <1>1, MaxVersionsAssumption DEF TypeOK
<1>3. CASE Sign(c, None, Len(posted))
  <2> DEFINE k == [cmd[c] EXCEPT !.pc = "post", !.found = None, !.seen = Len(posted),
                                 !.mine = versions']
  <2>1. cmd' = [cmd EXCEPT ![c] = k] /\ cmd'[c] = k
        /\ versions' = versions + 1 /\ versions < MaxVersions
    BY <1>1, <1>3 DEF Sign, TypeOK
  <2>2. versions' \in Versions' /\ Known' = Known /\ versions' \notin Known
    BY <1>1, <1>2, <2>1 DEF Versions, Known
  <2>3. k \in Running'
    BY <1>1, <1>2, <2>1, <2>2 DEF Running
  <2>4. k.pc = "post" /\ k.mine = versions' /\ k.at = cmd[c].at /\ k.sync = cmd[c].sync
        /\ k.found = None /\ k.text = cmd[c].text
    BY <1>1 DEF Running
  <2> HIDE DEF k
  <2>5. CmdKeeps(c)'
    BY <1>1, <2>1, <2>2, <2>4 DEF CmdKeeps, Disk
  <2> QED
    BY <1>1, <2>1, <2>3, <2>4, <2>5, Signs
<1>4. ASSUME Newest # None,
             cmd' = [cmd EXCEPT ![c].pc = "fetch", ![c].found = Newest, ![c].seen = Len(posted)],
             UNCHANGED versions
      PROVE  IInv'
  <2> DEFINE k == [cmd[c] EXCEPT !.pc = "fetch", !.found = Newest, !.seen = Len(posted)]
  <2>1. cmd' = [cmd EXCEPT ![c] = k] /\ cmd'[c] = k
    BY <1>1, <1>4 DEF TypeOK
  <2>2. Newest \in Known /\ (gone = {} => Newest = Arrived) /\ posted # <<>>
    BY <1>1, <1>4, NewestVersion
  <2>3. k \in Running /\ k.pc = "fetch" /\ k.at = cmd[c].at /\ k.sync = cmd[c].sync
        /\ k.found = Newest /\ k.text = cmd[c].text /\ k.expected = cmd[c].expected
    BY <1>1, <1>2, <2>2 DEF Running
  <2>4. ASSUME k.sync, gone = {}, k.expected = k.found PROVE k.text \in {k.found, Torn}
    <3>1. k.at \in Machines /\ Arrived \in local[k.at] /\ file[k.at] = k.text
      BY <1>1, <1>4, <2>2, <2>3, <2>4 DEF CmdKeeps
    <3>2. Aligned(k.at)
      BY <3>1 DEF IInv
    <3> QED
      BY <2>2, <2>3, <2>4, <3>1, <3>2 DEF Aligned, InStep
  <2> HIDE DEF k
  <2>5. CmdKeeps(c)'
    BY <1>1, <2>1, <2>2, <2>3, <2>4 DEF CmdKeeps, Disk, Known
  <2>6. UNCHANGED <<versions, posted, gone, Disk>>
    BY <1>1, <1>4
  <2> QED
    BY <1>1, <2>1, <2>3, <2>5, <2>6, GoesOn
<1> QED
    BY <1>3, <1>4 DEF Resolve

LEMMA FetchIInv ==
    ASSUME IInv, NEW c \in Commands, Fetch(c)
    PROVE  IInv'
<1>1. /\ cmd[c].pc = "fetch" /\ cmd[c] \in Running /\ cmd[c] # Idle
      /\ UNCHANGED <<posted, gone, Disk>>
      /\ CmdKeeps(c) /\ TypeOK
    BY Busy DEF IInv, Fetch
<1>2. /\ Len(posted) \in 0..Len(posted) /\ Known \subseteq Versions
      /\ versions \in Nat
    BY KnownVersions, <1>1, MaxVersionsAssumption DEF TypeOK
<1>3. CASE ~Stale(c) /\ Sign(c, cmd[c].found, cmd[c].seen)
  <2> DEFINE k == [cmd[c] EXCEPT !.pc = "post", !.found = cmd[c].found, !.seen = cmd[c].seen,
                                 !.mine = versions']
  <2>1. cmd' = [cmd EXCEPT ![c] = k] /\ cmd'[c] = k
        /\ versions' = versions + 1 /\ versions < MaxVersions
    BY <1>1, <1>3 DEF Sign, TypeOK
  <2>2. versions' \in Versions' /\ Known' = Known /\ versions' \notin Known
    BY <1>1, <1>2, <2>1 DEF Versions, Known
  <2>3. k \in Running'
    BY <1>1, <1>2, <2>1, <2>2 DEF Running
  <2>4. k.pc = "post" /\ k.mine = versions' /\ k.at = cmd[c].at /\ k.sync = cmd[c].sync
        /\ k.found = cmd[c].found /\ k.text = cmd[c].text /\ k.expected = cmd[c].expected
    BY <1>1 DEF Running
  <2>5. k.expected \in {None, k.found}
    BY <1>3, <2>4 DEF Stale
  <2> HIDE DEF k
  <2>6. CmdKeeps(c)'
    BY <1>1, <2>1, <2>2, <2>4, <2>5 DEF CmdKeeps, Disk
  <2> QED
    BY <1>1, <2>1, <2>3, <2>4, <2>6, Signs
<1>4. CASE End(c) /\ UNCHANGED versions
  <2>1. End(c) /\ UNCHANGED <<versions, posted, gone, Disk>>
    BY <1>1, <1>4
  <2> QED
    BY <2>1, StopIInv
<1> QED
    BY <1>3, <1>4 DEF Fetch

LEMMA PullFindIInv ==
    ASSUME IInv, NEW c \in Commands, PullFind(c) \/ PullList(c)
    PROVE  IInv'
<1>1. /\ cmd[c].pc \in {"find", "list"} /\ cmd[c] \in Running /\ cmd[c] # Idle
      /\ UNCHANGED <<versions, posted, gone, Disk>>
      /\ CmdKeeps(c) /\ TypeOK
    BY Busy DEF IInv, PullFind, PullList, Server
<1>2. CASE End(c)
    BY <1>1, <1>2, StopIInv
<1>3. ASSUME Newest # None, cmd' = [cmd EXCEPT ![c].pc = "get", ![c].found = Newest]
      PROVE  IInv'
  <2> DEFINE k == [cmd[c] EXCEPT !.pc = "get", !.found = Newest]
  <2>1. cmd' = [cmd EXCEPT ![c] = k] /\ cmd'[c] = k
    BY <1>1, <1>3 DEF TypeOK
  <2>2. Newest \in Known /\ (gone = {} => Newest = Arrived) /\ posted # <<>>
    BY <1>1, <1>3, NewestVersion
  <2>3. k \in Running /\ k.pc = "get" /\ k.at = cmd[c].at /\ k.sync = cmd[c].sync
        /\ k.found = Newest
    BY <1>1, <2>2 DEF Running
  <2> HIDE DEF k
  <2>4. CmdKeeps(c)'
    BY <1>1, <2>1, <2>2, <2>3 DEF CmdKeeps, Disk, Known, InStep, Arrived
  <2> QED
    BY <1>1, <2>1, <2>3, <2>4, GoesOn
<1>4. CASE Goto(c, "list")
  <2> DEFINE k == [cmd[c] EXCEPT !.pc = "list"]
  <2>1. cmd' = [cmd EXCEPT ![c] = k] /\ cmd'[c] = k
    BY <1>1, <1>4 DEF Goto, TypeOK
  <2>2. cmd[c].sync /\ cmd[c].at \in Machines
    BY <1>1 DEF CmdKeeps
  <2>3. k \in Running /\ k.pc = "list" /\ k.at = cmd[c].at /\ k.sync = cmd[c].sync
    BY <1>1 DEF Running
  <2> HIDE DEF k
  <2>4. CmdKeeps(c)'
    BY <2>1, <2>2, <2>3 DEF CmdKeeps
  <2> QED
    BY <1>1, <2>1, <2>3, <2>4, GoesOn
<1> QED
    BY <1>2, <1>3, <1>4 DEF PullFind, PullList

\* update_document replaces the latest version of a live document.
LEMMA LatestOfLive ==
    ASSUME TypeOK, NEW d \in Live
    PROVE  posted[Max({i \in DOMAIN posted : posted[i].doc = d})].version \in Known
<1> DEFINE own == {i \in DOMAIN posted : posted[i].doc = d}
<1>1. own # {} /\ Len(posted) \in Nat /\ own \in SUBSET (1..Len(posted))
      /\ Known = {posted[i].version : i \in DOMAIN posted}
    BY KnownVersions DEF Live, Range
<1>2. Max(own) \in own
    BY <1>1, MaxExists
<1> QED
    BY <1>1, <1>2

LEMMA StartUpdateIInv ==
    ASSUME IInv, NEW c \in Commands, NEW h \in Savers, StartUpdate(c, h)
    PROVE  IInv'
<1>1. /\ UNCHANGED <<posted, gone, Disk>> /\ TypeOK /\ versions \in Nat
      /\ versions' = versions + 1 /\ versions < MaxVersions
    BY MaxVersionsAssumption DEF IInv, TypeOK, StartUpdate
<1>2. Len(posted) \in 0..Len(posted) /\ Known \subseteq Versions
    BY KnownVersions, <1>1
<1>3. versions' \in Versions' /\ Known' = Known /\ versions' \notin Known
  <2>1. Known' = Known
    BY <1>1 DEF Known
  <2>2. versions' \in Versions' /\ versions' \notin Versions
    BY <1>1 DEF Versions
  <2> QED
    BY <1>2, <2>1, <2>2
<1>4. PICK d \in Live :
         cmd' = [cmd EXCEPT ![c] = [pc |-> "post", at |-> h, text |-> None, sync |-> FALSE,
                   expected |-> None,
                   found |-> posted[Max({i \in DOMAIN posted : posted[i].doc = d})].version,
                   seen |-> Len(posted), mine |-> versions']]
    BY Zenon DEF StartUpdate
<1> DEFINE found == posted[Max({i \in DOMAIN posted : posted[i].doc = d})].version
           k == [pc |-> "post", at |-> h, text |-> None, sync |-> FALSE, expected |-> None,
                 found |-> found, seen |-> Len(posted), mine |-> versions']
<1>5. found \in Known
    BY <1>1, LatestOfLive
<1> HIDE DEF found
<1>6. k \in Running'
    BY <1>1, <1>2, <1>5, <1>3 DEF Running
<1>7. cmd' = [cmd EXCEPT ![c] = k] /\ cmd'[c] = k
    BY <1>1, <1>4 DEF found, TypeOK
<1>8. k.pc = "post" /\ k.mine = versions' /\ k.sync = FALSE
    OBVIOUS
<1> HIDE DEF k
<1>9. CmdKeeps(c)'
    BY <1>3, <1>7, <1>8 DEF CmdKeeps
<1> QED
    BY <1>1, <1>6, <1>7, <1>8, <1>9, Signs

\* A step of a syncing command at its machine's disk: it may leave the file in another
\* state and add to the directory, as long as the file stays in step.
LEMMA DiskMoves ==
    ASSUME IInv, NEW c \in Commands, NEW k, NEW a \in Machines,
           cmd[c] # Idle, cmd[c].sync, a = cmd[c].at,
           cmd' = [cmd EXCEPT ![c] = k], UNCHANGED <<versions, posted, gone, skew>>,
           k = Idle \/ (k \in Running /\ k.at = a /\ k.sync /\ k.pc # "post"),
           NEW text \in {None, Torn} \cup Known, file' = [file EXCEPT ![a] = text],
           NEW kept \in SUBSET Known, local' = [local EXCEPT ![a] = @ \cup kept],
           synced' \in [Machines -> {None} \cup Known], held' \in [Machines -> SUBSET Known],
           CmdKeeps(c)', Aligned(a)'
    PROVE  IInv'
<1>1. TypeOK
    BY DEF IInv
<1>2. Known' = Known /\ Versions' = Versions /\ Running' = Running /\ Arrived' = Arrived
    BY DEF Known, Versions, Running, Arrived
<1>3. /\ cmd'[c] = k /\ \A d \in Commands \ {c} : cmd'[d] = cmd[d]
      /\ \A m \in Machines \ {a} : file'[m] = file[m] /\ local'[m] = local[m]
      /\ local[a] \subseteq local'[a]
    BY <1>1 DEF TypeOK
<1>4. TypeOK'
    BY <1>1, <1>2 DEF TypeOK
<1>5. \A m \in Machines : Aligned(m)'
  <2> TAKE m \in Machines
  <2>1. CASE m = a
    BY <2>1
  <2>2. CASE m # a
    BY <1>2, <1>3, <2>2 DEF Aligned, InStep, IInv
  <2> QED
    BY <2>1, <2>2
<1>6. \A d \in Commands : CmdKeeps(d)'
  <2> TAKE d \in Commands
  <2>1. CASE d = c
    BY <2>1
  <2>2. CASE d # c
    <3>1. cmd'[d] = cmd[d] /\ CmdKeeps(d) /\ Apart(c, d)
      BY <1>3, <2>2 DEF IInv
    <3>2. cmd[d] # Idle /\ cmd[d].sync
          => cmd[d].at \in Machines \ {a} /\ file'[cmd[d].at] = file[cmd[d].at]
             /\ local'[cmd[d].at] = local[cmd[d].at]
      BY <1>3, <2>2, <3>1 DEF CmdKeeps, Apart
    <3> QED
      BY <1>2, <3>1, <3>2 DEF CmdKeeps, InStep
  <2> QED
    BY <2>1, <2>2
<1>7. \A d, e \in Commands : Apart(d, e)'
    BY <1>3 DEF IInv, Apart, Idle, Running
<1> QED
    BY <1>4, <1>5, <1>6, <1>7 DEF IInv

LEMMA PullGetIInv ==
    ASSUME IInv, NEW c \in Commands, PullGet(c)
    PROVE  IInv'
<1>0. PICK a \in Machines : a = cmd[c].at
    BY Busy DEF IInv, PullGet, CmdKeeps
<1> DEFINE k == [cmd[c] EXCEPT !.pc = "write"]
<1>1. /\ cmd[c].pc = "get" /\ cmd[c] \in Running /\ cmd[c] # Idle /\ cmd[c].sync
      /\ UNCHANGED <<versions, posted, gone, local, skew, synced, held>>
      /\ CmdKeeps(c) /\ TypeOK
    BY Busy DEF IInv, PullGet, Server, CmdKeeps
<1>2. CASE End(c) /\ UNCHANGED file
  <2>1. UNCHANGED <<versions, posted, gone, Disk>>
    BY <1>1, <1>2 DEF Disk
  <2> QED
    BY <1>2, <2>1, StopIInv
<1>3. CASE Goto(c, "write") /\ file' = [file EXCEPT ![cmd[c].at] = Torn]
  <2>1. cmd' = [cmd EXCEPT ![c] = k] /\ cmd'[c] = k
        /\ file' = [file EXCEPT ![a] = Torn] /\ file'[a] = Torn
    BY <1>0, <1>1, <1>3 DEF Goto, TypeOK
  <2>2. k \in Running /\ k.pc = "write" /\ k.at = a /\ k.sync /\ k.found = cmd[c].found
    BY <1>0, <1>1 DEF Running
  <2>3. /\ local' = [local EXCEPT ![a] = @ \cup {}] /\ synced' \in [Machines -> {None} \cup Known]
        /\ held' \in [Machines -> SUBSET Known]
    BY <1>1 DEF TypeOK
  <2>4. Aligned(a)'
    BY <2>1 DEF Aligned, Torn
  <2> HIDE DEF k
  <2>5. CmdKeeps(c)'
    BY <1>0, <1>1, <2>1, <2>2 DEF CmdKeeps, Known, InStep, Arrived
  <2>6. Torn \in {None, Torn} \cup Known /\ {} \in SUBSET Known
    OBVIOUS
  <2>7. UNCHANGED <<versions, posted, gone, skew>>
    BY <1>1
  <2> QED
    BY <1>0, <1>1, <2>1, <2>2, <2>3, <2>4, <2>5, <2>6, <2>7, DiskMoves
<1> QED
    BY <1>2, <1>3 DEF PullGet

LEMMA PullWriteIInv ==
    ASSUME IInv, NEW c \in Commands, PullWrite(c)
    PROVE  IInv'
<1>0. PICK a \in Machines, found \in Known : a = cmd[c].at /\ found = cmd[c].found
    BY Busy DEF IInv, PullWrite, CmdKeeps
<1> DEFINE k == [cmd[c] EXCEPT !.pc = "pulled"]
<1>1. /\ cmd[c].pc = "write" /\ cmd[c] \in Running /\ cmd[c] # Idle /\ cmd[c].sync
      /\ UNCHANGED <<versions, posted, gone, local, skew, synced>>
      /\ file' = [file EXCEPT ![a] = found] /\ cmd' = [cmd EXCEPT ![c] = k] /\ cmd'[c] = k
      /\ CmdKeeps(c) /\ TypeOK
    BY <1>0, Busy DEF IInv, PullWrite, Server, CmdKeeps, Goto, TypeOK
<1>2. InStep(a) => found = Arrived
    BY <1>0, <1>1 DEF CmdKeeps
<1>3. k \in Running /\ k.pc = "pulled" /\ k.at = a /\ k.sync /\ k.found = found
    BY <1>0, <1>1 DEF Running
<1>4. /\ local' = [local EXCEPT ![a] = @ \cup {}] /\ synced' \in [Machines -> {None} \cup Known]
      /\ file'[a] = found /\ held' \in [Machines -> SUBSET Known]
    BY <1>0, <1>1 DEF TypeOK, PullWrite
<1>5. Aligned(a)'
    BY <1>1, <1>2, <1>4 DEF Aligned, InStep, Arrived
<1> HIDE DEF k
<1>6. CmdKeeps(c)'
    BY <1>1, <1>2, <1>3, <1>4 DEF CmdKeeps, Known
<1>7. /\ found \in {None, Torn} \cup Known /\ {} \in SUBSET Known
      /\ UNCHANGED <<versions, posted, gone, skew>>
    BY <1>1
<1> QED
    BY <1>0, <1>1, <1>3, <1>4, <1>5, <1>6, <1>7, DiskMoves

\* Both caches: the file already holds the version that is added to the directory.
LEMMA CacheIInv ==
    ASSUME IInv, NEW c \in Commands, NEW v \in Known, cmd[c] # Idle, cmd[c].sync,
           file[cmd[c].at] = v, Cache(c, v)
    PROVE  IInv'
<1>0. PICK a \in Machines : a = cmd[c].at
    BY DEF IInv, CmdKeeps
<1>1. /\ TypeOK
      /\ UNCHANGED <<versions, posted, gone, file, skew>>
      /\ local' = [local EXCEPT ![a] = @ \cup {v}] /\ local'[a] = local[a] \cup {v}
      /\ synced' = [synced EXCEPT ![a] = v]
      /\ cmd' = [cmd EXCEPT ![c] = Idle] /\ cmd'[c] = Idle
    BY <1>0 DEF IInv, CmdKeeps, Cache, Server, End, TypeOK
<1>2. synced' \in [Machines -> {None} \cup Known] /\ file' = [file EXCEPT ![a] = v]
      /\ held' \in [Machines -> SUBSET Known]
  <2>1. synced \in [Machines -> {None} \cup Known] /\ file \in [Machines -> {None, Torn} \cup Known]
        /\ held \in [Machines -> SUBSET Known] /\ held' = held
    BY <1>1 DEF TypeOK, Cache
  <2>2. file[a] = v
    BY <1>0
  <2> QED
    BY <1>1, <2>1, <2>2
<1>3. Aligned(a)'
    BY <1>0, <1>1 DEF IInv, Aligned, InStep, Arrived
<1>4. CmdKeeps(c)'
    BY <1>1 DEF CmdKeeps
<1>5. v \in {None, Torn} \cup Known /\ {v} \in SUBSET Known
    OBVIOUS
<1>6. UNCHANGED <<versions, posted, gone, skew>>
    BY <1>1
<1> QED
    BY <1>0, <1>1, <1>2, <1>3, <1>4, <1>5, <1>6, DiskMoves

LEMMA CachesIInv ==
    ASSUME IInv, NEW c \in Commands, PushCache(c) \/ PullCache(c)
    PROVE  IInv'
<1>1. CASE PushCache(c)
  <2>1. /\ cmd[c].pc = "cache" /\ cmd[c] # Idle /\ cmd[c].sync
        /\ cmd[c].mine \in Known /\ file[cmd[c].at] = cmd[c].mine /\ Cache(c, cmd[c].mine)
    BY <1>1, Busy DEF PushCache, IInv, CmdKeeps
  <2> QED
    BY <2>1, CacheIInv
<1>2. CASE PullCache(c)
  <2>1. /\ cmd[c].pc = "pulled" /\ cmd[c] # Idle /\ cmd[c].sync
        /\ cmd[c].found \in Known /\ file[cmd[c].at] = cmd[c].found /\ Cache(c, cmd[c].found)
    BY <1>2, Busy DEF PullCache, IInv, CmdKeeps
  <2> QED
    BY <2>1, CacheIInv
<1> QED
    BY <1>1, <1>2

\* A version that arrives is in nobody's directory, so no file is in step with it, and
\* it belongs to one command.
LEMMA PostIInv ==
    ASSUME IInv, NEW c \in Commands, Post(c)
    PROVE  IInv'
<1> DEFINE doc == IF cmd[c].found = None THEN cmd[c].mine ELSE Record(cmd[c].found).doc
<1>0. PICK k \in Running : k = cmd[c] /\ cmd[c] # Idle /\ k.pc = "post"
    BY Busy DEF IInv, Post
<1> DEFINE new == [version |-> k.mine, doc |-> doc, date |-> k.mine + skew[k.at]]
<1>1. /\ CmdKeeps(c) /\ TypeOK /\ UNCHANGED <<versions, gone, local, skew, synced>>
      /\ posted' = Append(posted, new)
      /\ Versions' = Versions
    BY <1>0 DEF IInv, Post, Versions
<1>2. k.mine \in Versions /\ k.mine \notin Known
    BY <1>0, <1>1 DEF CmdKeeps
<1>3. new \in Signed
  <2>1. versions \in 0..MaxVersions
    BY <1>1 DEF TypeOK
  <2>2. k.mine \in 1..MaxVersions /\ k.mine \in Nat
    BY <1>2, <2>1, MaxVersionsAssumption DEF Versions
  <2>3. k.at \in Machines \cup Savers /\ k.found \in {None} \cup Known
    BY DEF Running
  <2>4. skew[k.at] \in Nat
    BY <1>1, <2>3, SkewsAssumption DEF TypeOK
  <2>5. doc \in 1..MaxVersions
    BY <1>0, <1>1, <2>2, <2>3, KnownVersions
  <2> HIDE DEF doc
  <2> QED
    BY <2>2, <2>4, <2>5 DEF Signed
<1> HIDE DEF doc
<1>4. /\ posted' \in Seq(Signed) /\ posted' # <<>>
      /\ Len(posted) \in Nat /\ Len(posted') = Len(posted) + 1
      /\ DOMAIN posted = 1..Len(posted) /\ DOMAIN posted' = 1..(Len(posted) + 1)
      /\ \A i \in 1..Len(posted) : posted'[i] = posted[i]
      /\ posted'[Len(posted) + 1] = new /\ new.version = k.mine
    BY <1>1, <1>3, AppendProperties, KnownVersions DEF TypeOK
<1> HIDE DEF new
<1>5. Known' = Known \cup {k.mine} /\ Arrived' = k.mine
    BY <1>4 DEF Known, Range, Arrived
<1>6. \A i, j \in DOMAIN posted' : posted'[i].version = posted'[j].version => i = j
  <2>1. \A i \in 1..Len(posted) : posted[i].version \in Known
    BY <1>4 DEF Known, Range
  <2>2. \A i, j \in 1..Len(posted) : posted[i].version = posted[j].version => i = j
    BY <1>1, <1>4 DEF TypeOK
  <2> QED
    BY <1>2, <1>4, <2>1, <2>2
<1>7. Running \subseteq Running'
    BY <1>1, <1>4, <1>5 DEF Running
<1>8. PICK next \in Running' \cup {Idle} :
         /\ cmd' = [cmd EXCEPT ![c] = next]
         /\ next # Idle => /\ k.sync /\ next.sync
                           /\ next.pc = "cache" /\ next.at = k.at /\ next.mine = k.mine
  <2>1. CASE k.sync
    <3> DEFINE next == [k EXCEPT !.pc = "cache", !.text = None, !.found = None,
                                 !.expected = None, !.seen = 0]
    <3>1. cmd' = [cmd EXCEPT ![c] = next]
      BY <1>0, <1>1, <2>1 DEF Post, TypeOK
    <3>2. 0 \in 0..Len(posted)
      BY <1>4
    <3>3. next \in Running /\ next.pc = "cache" /\ next.at = k.at /\ next.mine = k.mine /\ next.sync
      BY <2>1, <3>2 DEF Running
    <3> QED
      BY <1>7, <2>1, <3>1, <3>3
  <2>2. CASE ~k.sync
    BY <1>0, <2>2 DEF Post, End
  <2> QED
    BY <2>1, <2>2
<1>9. /\ cmd'[c] = next /\ \A d \in Commands \ {c} : cmd'[d] = cmd[d]
    BY <1>1, <1>8 DEF TypeOK
<1>10. /\ k.sync => k.at \in Machines /\ file' = [file EXCEPT ![k.at] = k.mine]
       /\ ~k.sync => file' = file
       /\ held' \in [Machines -> SUBSET (Known \cup {k.mine})]
  <2>1. k.sync => k.at \in Machines /\ file[k.at] = k.text
    BY <1>0, <1>1 DEF CmdKeeps
  <2>2. held \in [Machines -> SUBSET Known]
    BY <1>1 DEF TypeOK
  <2>3. k.sync => held' = [held EXCEPT ![k.at] = @ \cup ({file'[k.at]} \cap {k.mine})]
    BY <1>0 DEF Post
  <2>4. ~k.sync => held' = held
    BY <1>0 DEF Post
  <2> QED
    BY <1>0, <1>1, <2>1, <2>2, <2>3, <2>4 DEF Post, TypeOK
<1>11. TypeOK'
  <2>1. Known \subseteq Known' /\ Known' \subseteq Versions'
    BY <1>1, <1>2, <1>5 DEF TypeOK
  <2>2. cmd' \in [Commands -> Running' \cup {Idle}]
    BY <1>1, <1>7, <1>8 DEF TypeOK
  <2>3. file' \in [Machines -> {None, Torn} \cup Known']
    BY <1>1, <1>5, <1>10 DEF TypeOK
  <2>4. /\ local' \in [Machines -> SUBSET Known'] /\ synced' \in [Machines -> {None} \cup Known']
    BY <1>1, <2>1 DEF TypeOK
  <2> QED
    BY <1>1, <1>4, <1>5, <1>6, <1>10, <2>1, <2>2, <2>3, <2>4 DEF TypeOK
<1>12. \A m \in Machines : ~InStep(m)'
    BY <1>1, <1>2, <1>5 DEF InStep, TypeOK
<1>13. \A d \in Commands : CmdKeeps(d)'
  <2> TAKE d \in Commands
  <2>1. CASE d = c
    BY <1>1, <1>5, <1>8, <1>9, <1>10, <2>1 DEF CmdKeeps, TypeOK
  <2>2. CASE d # c
    <3>1. cmd'[d] = cmd[d] /\ CmdKeeps(d) /\ Apart(c, d)
      BY <1>9, <2>2 DEF IInv
    <3>2. cmd[d] # Idle /\ cmd[d].sync
          => cmd[d].at \in Machines /\ file'[cmd[d].at] = file[cmd[d].at]
             /\ ~InStep(cmd[d].at)'
      BY <1>0, <1>1, <1>10, <1>12, <2>2, <3>1 DEF CmdKeeps, Apart, TypeOK
    <3>3. cmd[d] # Idle /\ cmd[d].pc = "post" => cmd[d].mine # k.mine
      BY <1>0, <2>2, <3>1 DEF Apart
    <3> QED
      BY <1>1, <1>5, <3>1, <3>2, <3>3 DEF CmdKeeps
  <2> QED
    BY <2>1, <2>2
<1>14. \A d, e \in Commands : Apart(d, e)'
    BY <1>0, <1>8, <1>9 DEF IInv, Apart
<1> QED
    BY <1>11, <1>12, <1>13, <1>14 DEF IInv, Aligned

LEMMA RemoveIInv == IInv /\ RemoveDocument => IInv'
<1> SUFFICES ASSUME IInv, RemoveDocument PROVE IInv'
    OBVIOUS
<1>1. PICK r \in Live : gone' = gone \cup {r}
    BY DEF RemoveDocument
<1>2. UNCHANGED <<versions, posted, cmd, local, file, skew, synced, held>> /\ TypeOK
    BY DEF RemoveDocument, Disk, IInv
<1>3. Live \subseteq 1..MaxVersions
  <2>1. \A i \in DOMAIN posted : posted[i] \in Signed
    BY <1>2, ElementOfSeq, LenProperties DEF TypeOK
  <2> QED
    BY <2>1 DEF Live, Range, Signed
<1>4. gone' # {} /\ gone' \subseteq 1..MaxVersions
    BY <1>1, <1>2, <1>3 DEF TypeOK
<1>5. Known' = Known /\ Running' = Running /\ Versions' = Versions
    BY <1>2 DEF Known, Running, Versions
<1>6. TypeOK'
    BY <1>2, <1>4, <1>5 DEF TypeOK
<1>7. \A m \in Machines : Aligned(m)'
    BY <1>4 DEF Aligned, InStep
<1>8. \A c \in Commands : CmdKeeps(c)'
    BY <1>2, <1>4, <1>5 DEF IInv, CmdKeeps, InStep
<1>9. \A c, d \in Commands : Apart(c, d)'
    BY <1>2 DEF IInv, Apart
<1> QED
    BY <1>6, <1>7, <1>8, <1>9 DEF IInv

-----------------------------------------------------------------------------
LEMMA NextIInv == IInv /\ [Next]_dvars => IInv'
<1> SUFFICES ASSUME IInv, [Next]_dvars PROVE IInv'
    OBVIOUS
<1>1. ASSUME NEW c \in Commands, PushStep(c) \/ SaveStep(c) \/ PullStep(c) \/ Stop(c)
      PROVE  IInv'
  <2>1. CASE PushStep(c)
    BY <2>1, ReadLocalIInv, ProbeIInv, CachesIInv DEF PushStep
  <2>2. CASE SaveStep(c)
    BY <2>2, ResolveIInv, FetchIInv, PostIInv DEF SaveStep
  <2>3. CASE PullStep(c)
    BY <2>3, PullFindIInv, PullGetIInv, PullWriteIInv, CachesIInv DEF PullStep
  <2>4. CASE Stop(c)
    BY <2>4, StopIInv DEF Stop, Server
  <2> QED
    BY <1>1, <2>1, <2>2, <2>3, <2>4
<1>2. ASSUME NEW c \in Commands, NEW m \in Machines, StartPush(c, m) \/ StartPull(c, m)
      PROVE  IInv'
    BY <1>2, BeginIInv DEF StartPush, StartPull
<1>3. ASSUME NEW c \in Commands, NEW h \in Savers, StartSave(c, h) \/ StartUpdate(c, h)
      PROVE  IInv'
    BY <1>3, BeginIInv, StartUpdateIInv DEF StartSave
<1>4. CASE UNCHANGED dvars
  <2>1. Known' = Known /\ Running' = Running /\ Versions' = Versions /\ Arrived' = Arrived
    BY <1>4 DEF dvars, Known, Running, Versions, Arrived
  <2>2. TypeOK'
    BY <1>4, <2>1 DEF dvars, IInv, TypeOK
  <2>3. \A m \in Machines : Aligned(m)'
    BY <1>4, <2>1 DEF dvars, IInv, Aligned, InStep
  <2>4. \A c, d \in Commands : CmdKeeps(c)' /\ Apart(c, d)'
    BY <1>4, <2>1 DEF dvars, IInv, CmdKeeps, Apart, InStep
  <2> QED
    BY <2>2, <2>3, <2>4 DEF IInv
<1> QED
    BY <1>1, <1>2, <1>3, <1>4, RemoveIInv DEF Next

LEMMA Invariant == Spec => []IInv
<1> QED
    BY InitIInv, NextIInv, PTL DEF Spec

\* Every command of memory sync and soul sync is at one of its steps, and the files,
\* directories and commands speak of versions the server has had, each of them once.
THEOREM TypeCorrect == Spec => []TypeOK
<1>1. IInv => TypeOK
    BY DEF IInv
<1> QED
    BY <1>1, Invariant, PTL

-----------------------------------------------------------------------------
\* What a machine's file or its directory has, the file has had whole.
FileHeld(m) == local[m] \subseteq held[m] /\ file[m] \in held[m] \cup {None, Torn}

\* When c looked its document up, the last version of it was at i.
LastOf(v, seen, i) ==
    /\ i \in 1..seen /\ posted[i].version = v
    /\ \A j \in 1..seen : posted[j].doc = posted[i].doc => j <= i

\* A push that had local metadata expects a version its machine's file has had, and what
\* it is about to replace was the last of its document when it looked.
HeldKeeps(c) ==
    LET k == cmd[c] IN
    k # Idle /\ k.sync =>
      /\ k.expected \in held[k.at] \cup {None}
      /\ k.pc = "post" /\ k.expected # None /\ k.found # None => k.expected = k.found
      /\ k.pc \in {"fetch", "post"} /\ k.found # None => \E i \in 1..k.seen : LastOf(k.found, k.seen, i)

HeldInv == (\A m \in Machines : FileHeld(m)) /\ (\A c \in Commands : HeldKeeps(c))

\* Of the versions of live documents, the newest is the last of its document.
LEMMA NewestIsLast ==
    ASSUME TypeOK, Newest # None
    PROVE  \E i \in 1..Len(posted) : LastOf(Newest, Len(posted), i)
<1> DEFINE live == {i \in DOMAIN posted : posted[i].doc \in Live}
<1>1. Len(posted) \in Nat /\ DOMAIN posted = 1..Len(posted)
    BY KnownVersions
<1>2. live # {} /\ Newest = posted[Max(live)].version
    BY DEF Newest
<1>3. Max(live) \in live /\ \A i \in live : Max(live) >= i
    BY <1>1, <1>2, MaxExists
<1>4. PICK n \in live : n = Max(live)
    BY <1>3
<1>5. \A j \in 1..Len(posted) : posted[j].doc = posted[n].doc => n >= j
    BY <1>1, <1>3, <1>4
<1> QED
    BY <1>1, <1>2, <1>4, <1>5 DEF LastOf

\* A step of c which leaves the server alone, and adds at most to c's machine's disk.
LEMMA HeldMoves ==
    ASSUME IInv, HeldInv, NEW c \in Commands,
           \A d \in Commands \ {c} : cmd'[d] = cmd[d],
           \A i \in 1..Len(posted) : posted'[i] = posted[i],
           \A m \in Machines : held[m] \subseteq held'[m],
           \A m \in Machines : FileHeld(m)', HeldKeeps(c)'
    PROVE  HeldInv'
<1>1. ASSUME NEW d \in Commands PROVE HeldKeeps(d)'
  <2>1. CASE d = c
    BY <2>1
  <2>2. CASE d # c
    <3>1. cmd'[d] = cmd[d] /\ CmdKeeps(d) /\ HeldKeeps(d) /\ TypeOK /\ Len(posted) \in Nat
      BY <2>2, KnownVersions DEF IInv, HeldInv
    <3> SUFFICES ASSUME cmd[d] # Idle, cmd[d].sync PROVE HeldKeeps(d)'
      BY <3>1 DEF HeldKeeps
    <3>2. cmd[d].at \in Machines /\ cmd[d].seen \in 0..Len(posted)
      BY <3>1 DEF CmdKeeps, TypeOK, Running
    <3>3. ASSUME NEW v, NEW i, LastOf(v, cmd[d].seen, i) PROVE LastOf(v, cmd[d].seen, i)'
      BY <3>1, <3>2, <3>3 DEF LastOf
    <3> QED
      BY <3>1, <3>2, <3>3 DEF HeldKeeps
  <2> QED
    BY <2>1, <2>2
<1> QED
    BY <1>1 DEF HeldInv

\* The steps that touch neither the server's versions nor a disk.
LEMMA HeldStays ==
    ASSUME IInv, HeldInv, NEW c \in Commands,
           \A d \in Commands \ {c} : cmd'[d] = cmd[d],
           UNCHANGED <<posted, local, file, held>>, HeldKeeps(c)'
    PROVE  HeldInv'
<1>1. \A m \in Machines : FileHeld(m)'
    BY DEF HeldInv, FileHeld
<1> QED
    BY <1>1, HeldMoves

LEMMA HeldLooks ==
    ASSUME IInv, HeldInv, NEW c \in Commands,
           \/ ReadLocal(c) \/ Probe(c) \/ Resolve(c) \/ Fetch(c)
           \/ PullFind(c) \/ PullList(c) \/ Stop(c)
    PROVE  HeldInv'
<1>1. /\ UNCHANGED <<posted, local, file, held>> /\ TypeOK
      /\ cmd \in [Commands -> Running \cup {Idle}] /\ CmdKeeps(c) /\ HeldKeeps(c)
    BY DEF ReadLocal, Probe, Resolve, Fetch, PullFind, PullList, Stop, Server, Disk, IInv, TypeOK,
           HeldInv
<1>2. CASE End(c)
  <2>1. cmd'[c] = Idle /\ \A d \in Commands \ {c} : cmd'[d] = cmd[d]
    BY <1>1, <1>2 DEF End
  <2> QED
    BY <1>1, <2>1, HeldStays DEF HeldKeeps
<1>3. CASE ~End(c)
  <2>1. cmd[c] \in Running /\ cmd[c] # Idle
    BY <1>1, <1>3, Busy DEF ReadLocal, Probe, Resolve, Fetch, PullFind, PullList, Stop
  <2>2. CASE ReadLocal(c)
    <3>1. CASE Goto(c, "probe")
      <4>1. /\ cmd'[c].pc = "probe" /\ cmd'[c].expected = cmd[c].expected
            /\ cmd'[c].sync = cmd[c].sync /\ cmd'[c].at = cmd[c].at
            /\ \A d \in Commands \ {c} : cmd'[d] = cmd[d]
        BY <1>1, <2>1, <3>1 DEF Goto, Running
      <4> QED
        BY <1>1, <2>1, <4>1, HeldStays DEF HeldKeeps
    <3>2. ASSUME NEW v \in LatestLocal(cmd[c].at),
                 cmd' = [cmd EXCEPT ![c].pc = "resolve", ![c].expected = v]
          PROVE  HeldInv'
      <4>1. /\ cmd'[c].pc = "resolve" /\ cmd'[c].expected = v
            /\ cmd'[c].sync = cmd[c].sync /\ cmd'[c].at = cmd[c].at
            /\ \A d \in Commands \ {c} : cmd'[d] = cmd[d]
        BY <1>1, <2>1, <3>2 DEF Running
      <4>2. cmd[c].at \in Machines
        BY <1>1, <2>1, <2>2 DEF ReadLocal, CmdKeeps
      <4>3. v \in held[cmd[c].at]
        BY <4>2 DEF LatestLocal, HeldInv, FileHeld
      <4> QED
        BY <1>1, <2>1, <4>1, <4>3, HeldStays DEF HeldKeeps
    <3> QED
      BY <2>2, <3>1, <3>2 DEF ReadLocal
  <2>3. CASE Probe(c) \/ PullFind(c) \/ PullList(c)
    <3>1. \/ \E pc \in {"resolve", "list"} : cmd' = [cmd EXCEPT ![c].pc = pc]
          \/ \E n : cmd' = [cmd EXCEPT ![c].pc = "get", ![c].found = n]
      BY <1>3, <2>3 DEF Probe, PullFind, PullList, Goto
    <3>2. /\ cmd'[c].pc \in {"resolve", "list", "get"} /\ cmd'[c].expected = cmd[c].expected
          /\ cmd'[c].sync = cmd[c].sync /\ cmd'[c].at = cmd[c].at
          /\ \A d \in Commands \ {c} : cmd'[d] = cmd[d]
      BY <1>1, <2>1, <3>1 DEF Running
    <3> QED
      BY <1>1, <2>1, <3>2, HeldStays DEF HeldKeeps
  <2>4. CASE Resolve(c)
    <3>1. /\ cmd'[c].expected = cmd[c].expected
          /\ cmd'[c].sync = cmd[c].sync /\ cmd'[c].at = cmd[c].at
          /\ \A d \in Commands \ {c} : cmd'[d] = cmd[d]
          /\ \/ cmd'[c].found = None
             \/ Newest # None /\ cmd'[c].found = Newest /\ cmd'[c].seen = Len(posted)
                /\ cmd'[c].pc = "fetch"
      BY <1>1, <2>1, <2>4 DEF Resolve, Sign, Running
    <3>2. /\ Newest # None => \E i \in 1..Len(posted) : LastOf(Newest, Len(posted), i)
          /\ \A v, n, i : LastOf(v, n, i) <=> LastOf(v, n, i)'
      BY <1>1, NewestIsLast DEF LastOf
    <3>3. CASE cmd'[c].found = None
      <4>1. cmd'[c].sync => cmd'[c].expected \in held'[cmd'[c].at] \cup {None}
        BY <1>1, <2>1, <3>1 DEF HeldKeeps
      <4>2. HeldKeeps(c)'
        BY <3>3, <4>1 DEF HeldKeeps
      <4> QED
        BY <1>1, <3>1, <4>2, HeldStays
    <3>4. CASE /\ Newest # None /\ cmd'[c].found = Newest /\ cmd'[c].seen = Len(posted)
               /\ cmd'[c].pc = "fetch"
      <4>1. cmd'[c].sync => cmd'[c].expected \in held'[cmd'[c].at] \cup {None}
        BY <1>1, <2>1, <3>1 DEF HeldKeeps
      <4>2. (\E i \in 1..cmd[c].seen : LastOf(cmd[c].found, cmd[c].seen, i))'
        BY <3>2, <3>4
      <4>3. HeldKeeps(c)'
        BY <3>4, <4>1, <4>2 DEF HeldKeeps
      <4> QED
        BY <1>1, <3>1, <4>3, HeldStays
    <3> QED
      BY <3>1, <3>3, <3>4
  <2>5. CASE Fetch(c)
    <3>1. ~Stale(c) /\ Sign(c, cmd[c].found, cmd[c].seen)
      BY <1>3, <2>5 DEF Fetch
    <3>2. /\ cmd'[c].pc = "post" /\ cmd'[c].expected = cmd[c].expected
          /\ cmd'[c].found = cmd[c].found /\ cmd'[c].seen = cmd[c].seen
          /\ cmd'[c].sync = cmd[c].sync /\ cmd'[c].at = cmd[c].at
          /\ \A d \in Commands \ {c} : cmd'[d] = cmd[d]
      BY <1>1, <2>1, <3>1 DEF Sign, Running
    <3>3. HeldKeeps(c)'
      BY <1>1, <2>1, <2>5, <3>1, <3>2 DEF HeldKeeps, LastOf, Stale, Fetch
    <3> QED
      BY <1>1, <3>2, <3>3, HeldStays
  <2> QED
    BY <1>3, <2>2, <2>3, <2>4, <2>5 DEF Stop
<1> QED
    BY <1>2, <1>3

\* The steps that write to a machine's disk, or give the server a version.
LEMMA HeldWrites ==
    ASSUME IInv, HeldInv, NEW c \in Commands,
           PullGet(c) \/ PullWrite(c) \/ PushCache(c) \/ PullCache(c) \/ Post(c)
    PROVE  HeldInv'
<1>1. /\ TypeOK /\ CmdKeeps(c) /\ HeldKeeps(c) /\ cmd[c] \in Running /\ cmd[c] # Idle
      /\ cmd \in [Commands -> Running \cup {Idle}]
      /\ file \in [Machines -> {None, Torn} \cup Known]
      /\ local \in [Machines -> SUBSET Known] /\ held \in [Machines -> SUBSET Known]
      /\ \A m \in Machines : FileHeld(m)
    BY Busy DEF PullGet, PullWrite, PushCache, PullCache, Post, IInv, TypeOK, HeldInv
<1>2. CASE PullGet(c)
  <2>1. /\ cmd[c].sync /\ cmd[c].at \in Machines /\ UNCHANGED <<posted, local, held>>
        /\ file' = [file EXCEPT ![cmd[c].at] = Torn] \/ UNCHANGED file
    BY <1>1, <1>2 DEF PullGet, CmdKeeps, Server
  <2>2. \A m \in Machines : FileHeld(m)'
    BY <1>1, <2>1 DEF FileHeld
  <2>3. /\ cmd'[c] = Idle \/ (/\ cmd'[c].pc = "write" /\ cmd'[c].expected = cmd[c].expected
                              /\ cmd'[c].sync = cmd[c].sync /\ cmd'[c].at = cmd[c].at)
        /\ \A d \in Commands \ {c} : cmd'[d] = cmd[d]
    BY <1>1, <1>2 DEF PullGet, End, Goto, Running
  <2>4. HeldKeeps(c)'
    BY <1>1, <2>1, <2>3 DEF HeldKeeps
  <2> QED
    BY <2>1, <2>2, <2>3, <2>4, HeldMoves
<1>3. CASE PullWrite(c)
  <2>1. /\ cmd[c].sync /\ cmd[c].at \in Machines /\ UNCHANGED <<posted, local>>
        /\ file' = [file EXCEPT ![cmd[c].at] = cmd[c].found]
        /\ held' = [held EXCEPT ![cmd[c].at] = @ \cup {cmd[c].found}]
    BY <1>1, <1>3 DEF PullWrite, CmdKeeps, Server
  <2>2. \A m \in Machines : FileHeld(m)' /\ held[m] \subseteq held'[m]
    BY <1>1, <2>1 DEF FileHeld
  <2>3. /\ cmd'[c].pc = "pulled" /\ cmd'[c].expected = cmd[c].expected
        /\ cmd'[c].sync = cmd[c].sync /\ cmd'[c].at = cmd[c].at
        /\ \A d \in Commands \ {c} : cmd'[d] = cmd[d]
    BY <1>1, <1>3 DEF PullWrite, Goto, Running
  <2>4. HeldKeeps(c)'
    BY <1>1, <2>1, <2>2, <2>3 DEF HeldKeeps
  <2> QED
    BY <2>1, <2>2, <2>3, <2>4, HeldMoves
<1>4. ASSUME PushCache(c) \/ PullCache(c) PROVE HeldInv'
  <2>1. PICK v \in Known : /\ local' = [local EXCEPT ![cmd[c].at] = @ \cup {v}]
                           /\ file[cmd[c].at] = v /\ End(c)
                           /\ UNCHANGED <<posted, file, held>>
    BY <1>1, <1>4 DEF PushCache, PullCache, Cache, Server, CmdKeeps
  <2>2. Known \subseteq Nat /\ None \notin Known /\ Torn \notin Known /\ cmd[c].at \in Machines
    <3>1. Known \subseteq 1..versions /\ versions \in 0..MaxVersions
      BY <1>1 DEF TypeOK, Versions
    <3> QED
      BY <1>1, <1>4, <3>1, MaxVersionsAssumption DEF None, Torn, PushCache, PullCache, CmdKeeps
  <2>3. \A m \in Machines : FileHeld(m)'
    BY <1>1, <2>1, <2>2 DEF FileHeld
  <2>4. cmd'[c] = Idle /\ \A d \in Commands \ {c} : cmd'[d] = cmd[d]
    BY <1>1, <2>1 DEF End
  <2>5. HeldKeeps(c)'
    BY <2>4 DEF HeldKeeps
  <2> QED
    BY <2>1, <2>3, <2>4, <2>5, HeldMoves
<1>5. CASE Post(c)
  <2>1. /\ Len(posted) \in Nat /\ posted \in Seq(Signed)
        /\ \E r : posted' = Append(posted, r)
    BY <1>1, <1>5, KnownVersions DEF Post, TypeOK
  <2>2. \A i \in 1..Len(posted) : posted'[i] = posted[i]
    BY <2>1
  <2>3. /\ cmd'[c] = Idle \/ (cmd'[c].pc = "cache" /\ cmd'[c].expected = None)
        /\ \A d \in Commands \ {c} : cmd'[d] = cmd[d]
    <3> DEFINE k == [cmd[c] EXCEPT !.pc = "cache", !.text = None, !.found = None,
                                   !.expected = None, !.seen = 0]
    <3>1. cmd' = [cmd EXCEPT ![c] = k] \/ cmd' = [cmd EXCEPT ![c] = Idle]
      BY <1>5 DEF Post, End
    <3>2. k.pc = "cache" /\ k.expected = None
      BY <1>1 DEF Running
    <3> HIDE DEF k
    <3>3. CASE cmd' = [cmd EXCEPT ![c] = k]
      BY <1>1, <3>2, <3>3
    <3>4. CASE cmd' = [cmd EXCEPT ![c] = Idle]
      BY <1>1, <3>4
    <3> QED
      BY <3>1, <3>3, <3>4
  <2>4. local' = local
    BY <1>5 DEF Post
  <2>5. CASE cmd[c].sync
    <3>1. /\ cmd[c].at \in Machines /\ file[cmd[c].at] = cmd[c].text
          /\ file' = [file EXCEPT ![cmd[c].at] = cmd[c].mine]
      BY <1>1, <1>5, <2>5 DEF Post, CmdKeeps
    <3>2. held' = [held EXCEPT ![cmd[c].at] = @ \cup ({file'[cmd[c].at]} \cap {cmd[c].mine})]
      BY <1>5, <2>5 DEF Post
    <3>3. held' = [held EXCEPT ![cmd[c].at] = @ \cup {cmd[c].mine}]
      BY <1>1, <3>1, <3>2
    <3>4. \A m \in Machines : FileHeld(m)' /\ held[m] \subseteq held'[m]
      BY <1>1, <2>4, <3>1, <3>3 DEF FileHeld
    <3>5. HeldKeeps(c)'
      BY <2>3 DEF HeldKeeps
    <3> QED
      BY <2>2, <2>3, <3>4, <3>5, HeldMoves
  <2>6. CASE ~cmd[c].sync
    <3>1. UNCHANGED <<file, held>>
      BY <1>5, <2>6 DEF Post
    <3>2. \A m \in Machines : FileHeld(m)'
      BY <1>1, <2>4, <3>1 DEF FileHeld
    <3>3. HeldKeeps(c)'
      BY <2>3 DEF HeldKeeps
    <3> QED
      BY <2>2, <2>3, <3>1, <3>2, <3>3, HeldMoves
  <2> QED
    BY <2>5, <2>6
<1> QED
    BY <1>2, <1>3, <1>4, <1>5

LEMMA HeldBegins ==
    ASSUME IInv, HeldInv, NEW c \in Commands,
           \/ \E m \in Machines : StartPush(c, m) \/ StartPull(c, m)
           \/ \E h \in Savers : StartSave(c, h) \/ StartUpdate(c, h)
    PROVE  HeldInv'
<1>1. cmd \in [Commands -> Running \cup {Idle}]
    BY DEF IInv, TypeOK
<1>2. ASSUME NEW m, NEW pc \in {"local", "find", "resolve"}, NEW text, NEW sync,
             Begin(c, m, pc, text, sync)
      PROVE  HeldInv'
  <2>1. /\ cmd'[c].pc = pc /\ cmd'[c].expected = None
        /\ \A d \in Commands \ {c} : cmd'[d] = cmd[d]
        /\ UNCHANGED <<posted, local, file, held>>
    BY <1>1, <1>2 DEF Begin
  <2>2. HeldKeeps(c)'
    BY <2>1 DEF HeldKeeps
  <2> QED
    BY <2>1, <2>2, HeldStays
<1>3. ASSUME NEW h \in Savers, StartUpdate(c, h) PROVE HeldInv'
  <2>1. /\ ~cmd'[c].sync /\ \A d \in Commands \ {c} : cmd'[d] = cmd[d]
        /\ UNCHANGED <<posted, local, file, held>>
    BY <1>1, <1>3 DEF StartUpdate, Disk
  <2> QED
    BY <2>1, HeldStays DEF HeldKeeps
<1> QED
    BY <1>2, <1>3 DEF StartPush, StartPull, StartSave

LEMMA NextHeldInv == IInv /\ HeldInv /\ [Next]_dvars => HeldInv'
<1> SUFFICES ASSUME IInv, HeldInv, [Next]_dvars PROVE HeldInv'
    OBVIOUS
<1>1. ASSUME RemoveDocument \/ UNCHANGED dvars PROVE HeldInv'
  <2>1. UNCHANGED <<posted, cmd, local, file, held>>
    BY <1>1 DEF RemoveDocument, dvars, Disk
  <2> QED
    BY <2>1 DEF HeldInv, FileHeld, HeldKeeps, LastOf
<1>2. ASSUME NEW c \in Commands,
             \/ PushStep(c) \/ SaveStep(c) \/ PullStep(c) \/ Stop(c)
             \/ \E m \in Machines : StartPush(c, m) \/ StartPull(c, m)
             \/ \E h \in Savers : StartSave(c, h) \/ StartUpdate(c, h)
      PROVE  HeldInv'
    BY <1>2, HeldLooks, HeldWrites, HeldBegins DEF PushStep, SaveStep, PullStep
<1> QED
    BY <1>1, <1>2 DEF Next

\* handle_sync: of the versions a document had when a push with local metadata looked it
\* up, the newest is one the machine has read, whatever crashes, is lost or removed: while
\* nothing is removed and no pull was cut off, it is the one the pushed text derives from.
THEOREM NothingOverwrittenUnread == Spec => []NoUnreadOverwrite
<1>1. Init => HeldInv
    BY DEF Init, HeldInv, FileHeld, HeldKeeps
<1>2. IInv /\ HeldInv => NoUnreadOverwrite
  <2> SUFFICES ASSUME IInv, HeldInv PROVE NoUnreadOverwrite
    OBVIOUS
  <2> SUFFICES ASSUME NEW c \in Commands, cmd[c].pc = "post", cmd[c].sync,
                      cmd[c].expected # None, cmd[c].found # None,
                      NEW i \in DOMAIN posted, posted[i].doc = Record(cmd[c].found).doc
               PROVE  \/ i > cmd[c].seen
                      \/ \E j \in DOMAIN posted :
                            /\ posted[j].doc = Record(cmd[c].found).doc /\ j >= i
                            /\ posted[j].version \in
                                  (IF gone = {} /\ cmd[c].text # Torn
                                   THEN {cmd[c].text} ELSE held[cmd[c].at])
    BY DEF NoUnreadOverwrite
  <2>1. /\ TypeOK /\ CmdKeeps(c) /\ HeldKeeps(c) /\ cmd[c] \in Running /\ cmd[c] # Idle
        /\ Len(posted) \in Nat /\ DOMAIN posted = 1..Len(posted)
    BY Busy, KnownVersions DEF IInv, HeldInv
  <2>2. PICK n \in 1..cmd[c].seen : LastOf(cmd[c].found, cmd[c].seen, n)
    BY <2>1 DEF HeldKeeps
  <2>3. n \in DOMAIN posted /\ cmd[c].seen \in Nat
    BY <2>1, <2>2 DEF Running
  <2>4. Record(cmd[c].found) = posted[n]
    <3>1. posted[n] \in Range(posted) /\ posted[n].version = cmd[c].found
      BY <2>2, <2>3 DEF LastOf, Range
    <3>2. Record(cmd[c].found) \in Range(posted) /\ Record(cmd[c].found).version = cmd[c].found
      BY <3>1 DEF Record
    <3> QED
      BY <2>1, <2>3, <3>1, <3>2 DEF Range, TypeOK
  <2>5. cmd[c].found \in held[cmd[c].at]
    BY <2>1 DEF HeldKeeps
  <2>6. gone = {} /\ cmd[c].text # Torn => cmd[c].text = cmd[c].found
    BY <2>1 DEF CmdKeeps
  <2>7. i <= cmd[c].seen => n >= i
    BY <2>1, <2>2, <2>3, <2>4 DEF LastOf
  <2>8. posted[n].version = cmd[c].found
    BY <2>2 DEF LastOf
  <2> QED
    BY <2>1, <2>3, <2>4, <2>5, <2>6, <2>7, <2>8
<1> QED
    BY <1>1, <1>2, Invariant, NextHeldInv, PTL DEF Spec

-----------------------------------------------------------------------------
\* A step that arrives nowhere: what a command is about to create, it creates beside
\* nothing it could have seen.
LEMMA SingletonMoves ==
    ASSUME TypeOK, SingletonUnlessRaced, NEW c \in Commands,
           \A d \in Commands \ {c} : cmd'[d] = cmd[d],
           UNCHANGED posted, gone' = gone,
           cmd'[c].pc = "post" => cmd'[c].found # None \/ Live = {}
    PROVE  SingletonUnlessRaced'
<1>1. Live' = Live
    BY DEF Live
<1>2. Live = {} => \A i \in DOMAIN posted : posted[i].doc \notin Live
    OBVIOUS
<1> QED
    BY <1>1, <1>2 DEF SingletonUnlessRaced

LEMMA NoneIsLive == ASSUME TypeOK, Newest = None PROVE Live = {}
<1> DEFINE live == {i \in DOMAIN posted : posted[i].doc \in Live}
<1>1. Len(posted) \in Nat /\ DOMAIN posted = 1..Len(posted)
      /\ Known = {posted[i].version : i \in DOMAIN posted} /\ Known \subseteq Versions /\ None \notin Versions
    BY KnownVersions
<1>2. live = {}
  <2>1. SUFFICES ASSUME live # {} PROVE FALSE
    OBVIOUS
  <2>2. Max(live) \in live /\ live \subseteq DOMAIN posted
    BY <1>1, <2>1, MaxExists
  <2>3. posted[Max(live)].version = None
    BY <2>1 DEF Newest
  <2> HIDE DEF live
  <2> QED
    BY <1>1, <2>2, <2>3
<1> QED
    BY <1>2 DEF Live, Range

LEMMA SingletonStays ==
    ASSUME IInv, SingletonUnlessRaced, [Next]_dvars
    PROVE  SingletonUnlessRaced'
<1>1. TypeOK /\ Len(posted) \in Nat /\ DOMAIN posted = 1..Len(posted)
      /\ Known \subseteq Versions /\ None \notin Versions
    BY KnownVersions DEF IInv
<1>2. ASSUME NEW c \in Commands, ReadLocal(c) \/ Probe(c) \/ PushCache(c) \/ PullStep(c) \/ Stop(c)
      PROVE  SingletonUnlessRaced'
  <2>1. (UNCHANGED posted /\ gone' = gone /\ cmd[c].pc # "idle") \/ Stop(c)
    BY <1>2 DEF ReadLocal, Probe, PushCache, PullStep, PullFind, PullList, PullGet, PullWrite, PullCache, Cache, Server
  <2>2. UNCHANGED posted /\ gone' = gone
    BY <2>1 DEF Stop, Server
  <2>3. \/ End(c)
        \/ /\ cmd[c] \in Running
           /\ \/ \E pc \in {"probe", "resolve", "list", "write", "pulled"} : Goto(c, pc)
              \/ \E v : cmd' = [cmd EXCEPT ![c].pc = "resolve", ![c].expected = v]
              \/ \E v : cmd' = [cmd EXCEPT ![c].pc = "get", ![c].found = v]
    BY <1>1, <1>2, <2>1, Busy
       DEF ReadLocal, Probe, PushCache, PullStep, PullFind, PullList, PullGet, PullWrite, PullCache, Cache, Stop
  <2>4. cmd'[c].pc # "post" /\ \A d \in Commands \ {c} : cmd'[d] = cmd[d]
    BY <1>1, <2>3 DEF TypeOK, Running, End, Goto, Idle
  <2> QED
    BY <1>1, <2>2, <2>4, SingletonMoves
<1>3. ASSUME NEW c \in Commands, NEW m, NEW pc \in {"local", "find", "resolve"}, NEW text, NEW sync,
             Begin(c, m, pc, text, sync)
      PROVE  SingletonUnlessRaced'
  <2>1. UNCHANGED posted /\ gone' = gone /\ cmd'[c].pc # "post"
        /\ \A d \in Commands \ {c} : cmd'[d] = cmd[d]
    BY <1>1, <1>3 DEF Begin, TypeOK
  <2> QED
    BY <1>1, <2>1, SingletonMoves
<1>4. ASSUME NEW c \in Commands, NEW h \in Savers, StartUpdate(c, h) PROVE SingletonUnlessRaced'
  <2>1. PICK d \in Live :
           cmd' = [cmd EXCEPT ![c] = [pc |-> "post", at |-> h, text |-> None, sync |-> FALSE,
                     expected |-> None,
                     found |-> posted[Max({i \in DOMAIN posted : posted[i].doc = d})].version,
                     seen |-> Len(posted), mine |-> versions']]
    BY <1>4, Zenon DEF StartUpdate
  <2> DEFINE found == posted[Max({i \in DOMAIN posted : posted[i].doc = d})].version
  <2>2. found \in Known
    BY <1>1, LatestOfLive
  <2>3. UNCHANGED posted /\ gone' = gone
    BY <1>4 DEF StartUpdate
  <2> HIDE DEF found
  <2>4. cmd'[c].found = found /\ \A e \in Commands \ {c} : cmd'[e] = cmd[e]
    BY <1>1, <2>1 DEF TypeOK, found
  <2> QED
    BY <1>1, <2>2, <2>3, <2>4, SingletonMoves
<1>5. ASSUME NEW c \in Commands, Resolve(c) \/ Fetch(c) PROVE SingletonUnlessRaced'
  <2>1. UNCHANGED posted /\ gone' = gone /\ cmd[c] \in Running /\ CmdKeeps(c) /\ cmd[c] # Idle
        /\ cmd[c].pc \in {"resolve", "fetch"}
    BY <1>1, <1>5, Busy DEF Resolve, Fetch, IInv
  <2>2. \/ End(c)
        \/ \E v : cmd' = [cmd EXCEPT ![c].pc = "fetch", ![c].found = v, ![c].seen = Len(posted)]
        \/ \E v, n : Sign(c, v, n) /\ (v # None \/ Newest = None)
    BY <1>1, <1>5, <2>1 DEF Resolve, Fetch, CmdKeeps
  <2>3. CASE End(c)
    BY <1>1, <2>1, <2>3, SingletonMoves DEF End, Idle, TypeOK
  <2>4. ASSUME NEW v, cmd' = [cmd EXCEPT ![c].pc = "fetch", ![c].found = v, ![c].seen = Len(posted)]
        PROVE  SingletonUnlessRaced'
    <3>1. cmd'[c].pc = "fetch" /\ \A d \in Commands \ {c} : cmd'[d] = cmd[d]
      BY <1>1, <2>1, <2>4 DEF TypeOK, Running
    <3> QED
      BY <1>1, <2>1, <3>1, SingletonMoves
  <2>5. ASSUME NEW v, NEW n, Sign(c, v, n), v # None \/ Newest = None PROVE SingletonUnlessRaced'
    <3>1. cmd'[c].found = v /\ \A d \in Commands \ {c} : cmd'[d] = cmd[d]
      BY <1>1, <2>1, <2>5 DEF Sign, TypeOK, Running
    <3> QED
      BY <1>1, <2>1, <2>5, <3>1, NoneIsLive, SingletonMoves
  <2> QED
    BY <2>2, <2>3, <2>4, <2>5
\* An arriving version comes after every lookup; the documents that were live stay so.
<1>6. ASSUME NEW c \in Commands, Post(c) PROVE SingletonUnlessRaced'
  <2>1. PICK r : posted' = Append(posted, r) /\ gone' = gone
    BY <1>6 DEF Post
  <2>2. /\ \A i \in 1..Len(posted) : posted'[i] = posted[i]
        /\ DOMAIN posted' = 1..(Len(posted) + 1)
    BY <1>1, <2>1 DEF TypeOK
  <2>3. cmd[c] \in Running
    BY <1>1, <1>6, Busy DEF Post
  <2>4. cmd'[c].pc # "post" /\ \A d \in Commands \ {c} : cmd'[d] = cmd[d]
    BY <1>1, <1>6, <2>3 DEF Post, End, Idle, TypeOK, Running
  <2> SUFFICES ASSUME NEW d \in Commands, cmd'[d].pc = "post", cmd'[d].found = None,
                      NEW i \in DOMAIN posted', posted'[i].doc \in Live'
               PROVE  i > cmd'[d].seen
    BY DEF SingletonUnlessRaced
  <2>5. cmd'[d] = cmd[d] /\ cmd[d].seen \in 0..Len(posted)
    BY <1>1, <2>4, Busy DEF Running
  <2>6. CASE i = Len(posted) + 1
    BY <1>1, <2>5, <2>6
  <2>7. CASE i \in 1..Len(posted)
    <3>1. posted'[i].doc = posted[i].doc /\ posted[i].doc \notin gone
      BY <2>1, <2>2, <2>7 DEF Live
    <3>2. posted[i].doc \in Live
      BY <1>1, <2>7, <3>1 DEF Live, Range
    <3> QED
      BY <1>1, <2>5, <2>7, <3>2 DEF SingletonUnlessRaced
  <2> QED
    BY <1>1, <2>2, <2>6, <2>7
<1>7. ASSUME RemoveDocument \/ UNCHANGED dvars PROVE SingletonUnlessRaced'
  <2>1. UNCHANGED <<posted, cmd>> /\ gone \subseteq gone'
    BY <1>7 DEF RemoveDocument, dvars
  <2>2. Live' \subseteq Live
    BY <2>1 DEF Live
  <2> QED
    BY <2>1, <2>2 DEF SingletonUnlessRaced
<1> QED
    BY <1>2, <1>3, <1>4, <1>5, <1>6, <1>7
       DEF Next, PushStep, SaveStep, StartPush, StartPull, StartSave

\* save_document: a second document of a singleton type comes only from lookups that
\* overlapped its creation, for any number of commands and versions.
THEOREM OneUnlessRaced == Spec => []SingletonUnlessRaced
<1>1. Init => SingletonUnlessRaced
    BY DEF Init, SingletonUnlessRaced
<1> QED
    BY <1>1, Invariant, SingletonStays, PTL DEF Spec

-----------------------------------------------------------------------------
\* What a machine was last in step with is among its copies, and a version is dated by
\* the clock of a host.
CopyKept(m) == synced[m] \in local[m] \cup {None}

DateKept(i) ==
    \E h \in Machines \cup Savers : posted[i].date = posted[i].version + skew[h]

\* While clocks agree and versions arrive in order, a push expects the newest of its
\* machine's copies; when what it found is what the machine was in step with, that is it.
ExpectKeeps(c) ==
    LET k == cmd[c] IN
    k # Idle =>
      /\ ~k.sync => k.expected = None
      /\ Regular /\ k.expected # None /\ k.pc = "resolve" =>
            \A u \in local[k.at] : u <= k.expected
      /\ Regular /\ k.expected # None /\ k.pc = "fetch" /\ k.found = synced[k.at] =>
            k.expected = k.found

ExpectInv ==
    /\ \A m \in Machines : CopyKept(m)
    /\ \A i \in DOMAIN posted : DateKept(i)
    /\ \A c \in Commands : ExpectKeeps(c)

\* While clocks agree, the later date is the higher version.
LEMMA DatesAgree ==
    ASSUME TypeOK, \A i \in DOMAIN posted : DateKept(i), Regular,
           NEW u \in Known, NEW v \in Known, Record(u).date <= Record(v).date
    PROVE  u <= v
<1>1. /\ Known \subseteq Nat /\ skew \in [Machines \cup Savers -> Nat]
      /\ \A h, k \in Machines \cup Savers : skew[h] = skew[k]
  <2>1. Known \subseteq Versions /\ versions \in Nat
    BY MaxVersionsAssumption DEF TypeOK
  <2>2. Known \subseteq Nat
    BY <2>1 DEF Versions
  <2>3. skew \in [Machines \cup Savers -> Nat]
    BY SkewsAssumption DEF TypeOK
  <2> QED
    BY <2>2, <2>3 DEF Regular
<1>2. \A w \in Known : Record(w) \in Range(posted) /\ Record(w).version = w
    BY DEF Known, Record
<1>3. \A w \in Known : \E h \in Machines \cup Savers : Record(w).date = w + skew[h]
  <2> TAKE w \in Known
  <2>1. PICK i \in DOMAIN posted : Record(w) = posted[i]
    BY <1>2 DEF Range
  <2> QED
    BY <1>2, <2>1 DEF DateKept
<1>4. PICK h \in Machines \cup Savers : Record(u).date = u + skew[h]
    BY <1>3
<1>5. PICK k \in Machines \cup Savers : Record(v).date = v + skew[k]
    BY <1>3
<1>6. u \in Nat /\ v \in Nat /\ skew[h] \in Nat /\ skew[h] = skew[k]
    BY <1>1
<1> QED
    BY <1>4, <1>5, <1>6

\* While versions arrive in order, the last is the highest.
LEMMA ArrivedHighest ==
    ASSUME TypeOK, Regular, NEW v \in Known
    PROVE  v <= Arrived /\ posted # <<>>
<1>1. /\ Len(posted) \in Nat /\ DOMAIN posted = 1..Len(posted)
      /\ Known = {posted[i].version : i \in DOMAIN posted}
      /\ Known \subseteq Nat
    BY KnownVersions, MaxVersionsAssumption DEF TypeOK, Versions
<1>2. PICK i \in 1..Len(posted) : v = posted[i].version
    BY <1>1
<1>3. Len(posted) \in DOMAIN posted /\ Arrived \in Nat
    BY <1>1, <1>2 DEF Arrived
<1>4. i < Len(posted) => v < Arrived
    BY <1>1, <1>2, <1>3 DEF Regular, Arrived
<1> QED
    BY <1>1, <1>2, <1>3, <1>4 DEF Arrived

\* A step of one command: the machines of other syncs keep their copies.
LEMMA ExpectMoves ==
    ASSUME IInv, ExpectInv, NEW c \in Commands, Regular' => Regular,
           \A d \in Commands \ {c} : cmd'[d] = cmd[d],
           \A m \in Machines : \/ local'[m] = local[m] /\ synced'[m] = synced[m]
                               \/ cmd[c] # Idle /\ cmd[c].sync /\ cmd[c].at = m,
           \A m \in Machines : CopyKept(m)',
           \A i \in DOMAIN posted' : DateKept(i)',
           ExpectKeeps(c)'
    PROVE  ExpectInv'
<1>1. ASSUME NEW d \in Commands PROVE ExpectKeeps(d)'
  <2>1. CASE d = c
    BY <2>1
  <2>2. CASE d # c
    <3>1. cmd'[d] = cmd[d] /\ CmdKeeps(d) /\ Apart(c, d) /\ ExpectKeeps(d)
      BY <2>2 DEF IInv, ExpectInv
    <3>2. cmd[d] # Idle /\ cmd[d].sync =>
            local'[cmd[d].at] = local[cmd[d].at] /\ synced'[cmd[d].at] = synced[cmd[d].at]
      BY <2>2, <3>1 DEF CmdKeeps, Apart
    <3> QED
      BY <3>1, <3>2 DEF ExpectKeeps
  <2> QED
    BY <2>1, <2>2
<1> QED
    BY <1>1 DEF ExpectInv

\* The same for a step that leaves the server and the copies alone.
LEMMA ExpectStays ==
    ASSUME IInv, ExpectInv, NEW c \in Commands,
           \A d \in Commands \ {c} : cmd'[d] = cmd[d],
           UNCHANGED <<posted, gone, local, skew, synced>>, ExpectKeeps(c)'
    PROVE  ExpectInv'
<1>1. Regular' = Regular
    BY DEF Regular
<1>2. \A m \in Machines : CopyKept(m)'
    BY DEF ExpectInv, CopyKept
<1>3. \A i \in DOMAIN posted' : DateKept(i)'
    BY DEF ExpectInv, DateKept
<1> QED
    BY <1>1, <1>2, <1>3, ExpectMoves

\* The steps that neither look up, nor arrive, nor keep a copy.
LEMMA ExpectPlain ==
    ASSUME IInv, ExpectInv, NEW c \in Commands,
           \/ Probe(c) \/ Fetch(c) \/ PullFind(c) \/ PullList(c) \/ PullGet(c) \/ PullWrite(c) \/ Stop(c)
           \/ \E m \in Machines : StartPush(c, m) \/ StartPull(c, m)
           \/ \E h \in Savers : StartSave(c, h) \/ StartUpdate(c, h)
    PROVE  ExpectInv'
<1>1. /\ UNCHANGED <<posted, gone, local, skew, synced>>
      /\ cmd \in [Commands -> Running \cup {Idle}] /\ CmdKeeps(c) /\ ExpectKeeps(c)
    BY DEF Probe, Fetch, PullFind, PullList, PullGet, PullWrite, Stop, StartPush, StartPull, StartSave,
           StartUpdate, Begin, Server, Disk, IInv, TypeOK, ExpectInv
<1>2. ASSUME Probe(c) \/ Fetch(c) \/ PullFind(c) \/ PullList(c) \/ PullGet(c) \/ PullWrite(c) \/ Stop(c)
      PROVE  ExpectInv'
  <2>1. cmd[c].pc # "idle" \/ Stop(c)
    BY <1>2 DEF Probe, Fetch, PullFind, PullList, PullGet, PullWrite
  <2>2. CASE End(c)
    <3>1. cmd'[c] = Idle /\ \A d \in Commands \ {c} : cmd'[d] = cmd[d]
      BY <1>1, <2>2 DEF End
    <3> QED
      BY <1>1, <3>1, ExpectStays DEF ExpectKeeps
  <2>3. CASE ~End(c)
    <3>1. cmd[c] \in Running /\ cmd[c] # Idle
      BY <1>2, <2>1, <2>3, Busy DEF Stop, IInv
    <3>2. /\ cmd'[c].sync = cmd[c].sync /\ cmd'[c].expected = cmd[c].expected
          /\ cmd'[c].pc \in {"post", "list", "get", "write", "pulled"} \/ cmd'[c].expected = None
          /\ \A d \in Commands \ {c} : cmd'[d] = cmd[d]
      <4>1. CASE Probe(c)
        <5>1. cmd[c].expected = None /\ cmd' = [cmd EXCEPT ![c] = [cmd[c] EXCEPT !.pc = "resolve"]]
          BY <1>1, <2>3, <3>1, <4>1 DEF Probe, Goto, CmdKeeps
        <5> QED
          BY <1>1, <3>1, <5>1 DEF Running
      <4>2. CASE Fetch(c)
        <5>1. PICK n : cmd' = [cmd EXCEPT ![c] = [cmd[c] EXCEPT !.pc = "post",
                          !.found = cmd[c].found, !.seen = cmd[c].seen, !.mine = n]]
          BY <2>3, <4>2 DEF Fetch, Sign
        <5> QED
          BY <1>1, <3>1, <5>1 DEF Running
      <4>3. CASE PullFind(c) \/ PullList(c)
        <5>1. \/ \E n : cmd' = [cmd EXCEPT ![c] = [cmd[c] EXCEPT !.pc = "get", !.found = n]]
              \/ cmd' = [cmd EXCEPT ![c] = [cmd[c] EXCEPT !.pc = "list"]]
          BY <2>3, <4>3 DEF PullFind, PullList, Goto
        <5>2. ASSUME NEW n, cmd' = [cmd EXCEPT ![c] = [cmd[c] EXCEPT !.pc = "get", !.found = n]]
              PROVE  /\ cmd'[c].sync = cmd[c].sync /\ cmd'[c].expected = cmd[c].expected
                     /\ cmd'[c].pc = "get" /\ \A d \in Commands \ {c} : cmd'[d] = cmd[d]
          BY <1>1, <3>1, <5>2 DEF Running
        <5>3. ASSUME cmd' = [cmd EXCEPT ![c] = [cmd[c] EXCEPT !.pc = "list"]]
              PROVE  /\ cmd'[c].sync = cmd[c].sync /\ cmd'[c].expected = cmd[c].expected
                     /\ cmd'[c].pc = "list" /\ \A d \in Commands \ {c} : cmd'[d] = cmd[d]
          BY <1>1, <3>1, <5>3 DEF Running
        <5> QED
          BY <5>1, <5>2, <5>3
      <4>4. CASE PullGet(c) \/ PullWrite(c)
        <5>1. PICK pc \in {"write", "pulled"} : cmd' = [cmd EXCEPT ![c] = [cmd[c] EXCEPT !.pc = pc]]
          BY <2>3, <4>4 DEF PullGet, PullWrite, Goto
        <5> QED
          BY <1>1, <3>1, <5>1 DEF Running
      <4> QED
        BY <1>2, <2>3, <4>1, <4>2, <4>3, <4>4 DEF Stop
    <3>3. ExpectKeeps(c)'
      BY <1>1, <3>1, <3>2 DEF ExpectKeeps
    <3> QED
      BY <1>1, <3>2, <3>3, ExpectStays
  <2> QED
    BY <2>2, <2>3
<1>3. ASSUME \/ \E m \in Machines : StartPush(c, m) \/ StartPull(c, m)
             \/ \E h \in Savers : StartSave(c, h) \/ StartUpdate(c, h)
      PROVE  ExpectInv'
  <2>1. cmd'[c].expected = None /\ \A d \in Commands \ {c} : cmd'[d] = cmd[d]
    <3>1. ASSUME NEW m, NEW pc, NEW text, NEW sync, Begin(c, m, pc, text, sync)
          PROVE  cmd'[c].expected = None /\ \A d \in Commands \ {c} : cmd'[d] = cmd[d]
      BY <1>1, <3>1 DEF Begin
    <3>2. ASSUME NEW h \in Savers, StartUpdate(c, h)
          PROVE  cmd'[c].expected = None /\ \A d \in Commands \ {c} : cmd'[d] = cmd[d]
      BY <1>1, <3>2 DEF StartUpdate
    <3> QED
      BY <1>3, <3>1, <3>2 DEF StartPush, StartPull, StartSave
  <2>2. ExpectKeeps(c)'
    BY <2>1 DEF ExpectKeeps
  <2> QED
    BY <1>1, <2>1, <2>2, ExpectStays
<1> QED
    BY <1>2, <1>3

\* The push that reads what its machine has: the latest date is the highest version.
LEMMA ExpectRead ==
    ASSUME IInv, ExpectInv, NEW c \in Commands, ReadLocal(c)
    PROVE  ExpectInv'
<1>1. /\ UNCHANGED <<posted, gone, local, skew, synced>> /\ TypeOK
      /\ cmd \in [Commands -> Running \cup {Idle}] /\ cmd[c] \in Running /\ cmd[c] # Idle
      /\ cmd[c].sync /\ cmd[c].at \in Machines /\ cmd[c].expected = None
    BY Busy DEF ReadLocal, Server, Disk, IInv, TypeOK, CmdKeeps
<1>2. CASE Goto(c, "probe")
  <2>1. cmd'[c].expected = None /\ \A d \in Commands \ {c} : cmd'[d] = cmd[d]
    BY <1>1, <1>2 DEF Goto, Running
  <2> QED
    BY <1>1, <2>1, ExpectStays DEF ExpectKeeps
<1>3. ASSUME NEW v \in LatestLocal(cmd[c].at),
             cmd' = [cmd EXCEPT ![c].pc = "resolve", ![c].expected = v]
      PROVE  ExpectInv'
  <2>1. /\ cmd'[c].pc = "resolve" /\ cmd'[c].expected = v
        /\ cmd'[c].sync = cmd[c].sync /\ cmd'[c].at = cmd[c].at
        /\ \A d \in Commands \ {c} : cmd'[d] = cmd[d]
    BY <1>1, <1>3 DEF Running
  <2>2. local[cmd[c].at] \subseteq Known /\ v \in Known
    BY <1>1 DEF TypeOK, LatestLocal
  <2>3. ASSUME Regular, NEW u \in local[cmd[c].at] PROVE u <= v
    <3>1. Record(u).date <= Record(v).date
      BY DEF LatestLocal
    <3> QED
      BY <1>1, <2>2, <2>3, <3>1, DatesAgree DEF ExpectInv
  <2>4. Regular' = Regular
    BY <1>1 DEF Regular
  <2>5. ExpectKeeps(c)'
    BY <1>1, <2>1, <2>3, <2>4 DEF ExpectKeeps
  <2> QED
    BY <1>1, <2>1, <2>5, ExpectStays
<1> QED
    BY <1>2, <1>3 DEF ReadLocal

\* The lookup: the server's version is the highest, so when it is the one the machine was
\* in step with, no copy is above it, and what the push expects is not below it.
LEMMA ExpectResolve ==
    ASSUME IInv, ExpectInv, NEW c \in Commands, Resolve(c)
    PROVE  ExpectInv'
<1>1. /\ UNCHANGED <<posted, gone, local, skew, synced>> /\ TypeOK
      /\ cmd \in [Commands -> Running \cup {Idle}] /\ cmd[c] \in Running /\ cmd[c] # Idle
      /\ cmd[c].pc = "resolve" /\ CmdKeeps(c) /\ ExpectKeeps(c)
    BY Busy DEF Resolve, Disk, IInv, TypeOK, ExpectInv
<1>2. /\ cmd'[c].expected = cmd[c].expected /\ cmd'[c].sync = cmd[c].sync
      /\ cmd'[c].at = cmd[c].at /\ \A d \in Commands \ {c} : cmd'[d] = cmd[d]
      /\ cmd'[c].pc = "post" \/ (cmd'[c].pc = "fetch" /\ cmd'[c].found = Newest)
    BY <1>1 DEF Resolve, Sign, Running
<1>3. Regular' = Regular
    BY <1>1 DEF Regular
<1>4. ASSUME Regular, cmd[c].expected # None, cmd'[c].pc = "fetch",
             cmd'[c].found = synced'[cmd[c].at]
      PROVE  cmd'[c].expected = cmd'[c].found
  <2>1. cmd[c].sync /\ cmd[c].at \in Machines /\ cmd[c].expected \in Known
    BY <1>1, <1>4 DEF ExpectKeeps, CmdKeeps, Running
  <2>2. Known \subseteq Versions /\ None \notin Versions /\ Versions \subseteq Nat
    BY <1>1, KnownVersions, MaxVersionsAssumption DEF TypeOK, Versions
  <2>3. cmd[c].expected <= Arrived /\ posted # <<>> /\ gone = {}
    BY <1>1, <1>4, <2>1, ArrivedHighest DEF Regular
  <2>4. cmd'[c].found = Arrived /\ Arrived \in Known
    <3>1. Newest = Arrived
      BY <1>1, <2>3, NewestVersion
    <3>2. Arrived \in Known
      BY <1>1, <2>3, KnownVersions DEF TypeOK, Arrived
    <3> QED
      BY <1>2, <1>4, <3>1, <3>2
  <2>5. Arrived \in local[cmd[c].at]
    BY <1>1, <1>4, <2>1, <2>2, <2>4 DEF ExpectInv, CopyKept
  <2>6. Arrived <= cmd[c].expected
    BY <1>1, <1>4, <2>5 DEF ExpectKeeps
  <2>7. Arrived \in Nat /\ cmd[c].expected \in Nat
    BY <2>1, <2>2, <2>4
  <2> QED
    BY <1>2, <2>3, <2>4, <2>6, <2>7
<1>5. ExpectKeeps(c)'
    BY <1>1, <1>2, <1>3, <1>4 DEF ExpectKeeps
<1> QED
    BY <1>1, <1>2, <1>5, ExpectStays

\* The copy that is kept is the one the machine is in step with.
LEMMA ExpectCache ==
    ASSUME IInv, ExpectInv, NEW c \in Commands, PushCache(c) \/ PullCache(c)
    PROVE  ExpectInv'
<1>1. /\ UNCHANGED <<posted, gone, skew>> /\ TypeOK /\ cmd[c] # Idle
      /\ cmd[c].sync /\ cmd[c].at \in Machines
    BY Busy DEF PushCache, PullCache, Cache, Server, IInv, CmdKeeps
<1>2. PICK v : /\ local' = [local EXCEPT ![cmd[c].at] = @ \cup {v}]
               /\ synced' = [synced EXCEPT ![cmd[c].at] = v] /\ End(c)
    BY Zenon DEF PushCache, PullCache, Cache
<1>3. cmd'[c] = Idle /\ \A d \in Commands \ {c} : cmd'[d] = cmd[d]
    BY <1>1, <1>2 DEF End, TypeOK
<1>4. \A m \in Machines : CopyKept(m)'
    BY <1>1, <1>2 DEF ExpectInv, CopyKept, TypeOK
<1>5. \A m \in Machines : (local'[m] = local[m] /\ synced'[m] = synced[m]) \/ cmd[c].at = m
    BY <1>1, <1>2 DEF TypeOK
<1>6. (\A i \in DOMAIN posted' : DateKept(i)') /\ Regular' = Regular
    BY <1>1 DEF ExpectInv, DateKept, Regular
<1>7. ExpectKeeps(c)'
    BY <1>3 DEF ExpectKeeps
<1> QED
    BY <1>1, <1>3, <1>4, <1>5, <1>6, <1>7, ExpectMoves

\* A version that arrives is dated by its host; if it arrives in order, so did those before.
LEMMA ExpectPost ==
    ASSUME IInv, ExpectInv, NEW c \in Commands, Post(c)
    PROVE  ExpectInv'
<1>1. /\ UNCHANGED <<gone, local, skew, synced>> /\ TypeOK
      /\ cmd \in [Commands -> Running \cup {Idle}] /\ cmd[c] \in Running /\ cmd[c] # Idle
    BY Busy DEF Post, IInv, TypeOK
<1>2. PICK new : posted' = Append(posted, new) /\ new.version = cmd[c].mine
                 /\ new.date = cmd[c].mine + skew[cmd[c].at]
    BY DEF Post
<1>3. /\ Len(posted) \in Nat /\ DOMAIN posted = 1..Len(posted)
      /\ DOMAIN posted' = 1..(Len(posted) + 1) /\ posted'[Len(posted) + 1] = new
      /\ \A i \in 1..Len(posted) : posted'[i] = posted[i]
    BY <1>1, <1>2, KnownVersions DEF TypeOK
<1>4. /\ cmd'[c] = Idle \/ cmd'[c].expected = None
      /\ \A d \in Commands \ {c} : cmd'[d] = cmd[d]
    BY <1>1 DEF Post, End, Running
<1>5. \A i \in DOMAIN posted' : DateKept(i)'
  <2> TAKE i \in DOMAIN posted'
  <2>1. CASE i = Len(posted) + 1
    BY <1>1, <1>2, <1>3, <2>1 DEF DateKept, Running
  <2>2. CASE i \in 1..Len(posted)
    BY <1>1, <1>3, <2>2 DEF DateKept, ExpectInv
  <2> QED
    BY <1>3, <2>1, <2>2
<1>6. Regular' => Regular
    BY <1>1, <1>3 DEF Regular
<1>7. \A m \in Machines : CopyKept(m)'
    BY <1>1 DEF ExpectInv, CopyKept
<1>8. ExpectKeeps(c)'
    BY <1>4 DEF ExpectKeeps
<1> QED
    BY <1>1, <1>4, <1>5, <1>6, <1>7, <1>8, ExpectMoves

LEMMA NextExpectInv == IInv /\ ExpectInv /\ [Next]_dvars => ExpectInv'
<1> SUFFICES ASSUME IInv, ExpectInv, [Next]_dvars PROVE ExpectInv'
    OBVIOUS
<1>1. ASSUME RemoveDocument \/ UNCHANGED dvars PROVE ExpectInv'
  <2>1. UNCHANGED <<posted, cmd, local, skew, synced>> /\ gone \subseteq gone'
    BY <1>1 DEF RemoveDocument, dvars, Disk
  <2>2. Regular' => Regular
    BY <2>1 DEF Regular
  <2> QED
    BY <2>1, <2>2 DEF ExpectInv, CopyKept, DateKept, ExpectKeeps
<1>2. ASSUME NEW c \in Commands,
             \/ PushStep(c) \/ SaveStep(c) \/ PullStep(c) \/ Stop(c)
             \/ \E m \in Machines : StartPush(c, m) \/ StartPull(c, m)
             \/ \E h \in Savers : StartSave(c, h) \/ StartUpdate(c, h)
      PROVE  ExpectInv'
  <2>1. ASSUME ReadLocal(c) \/ Resolve(c) \/ Post(c) \/ PushCache(c) \/ PullCache(c)
        PROVE  ExpectInv'
    BY <2>1, ExpectRead, ExpectResolve, ExpectPost, ExpectCache
  <2> QED
    BY <1>2, <2>1, ExpectPlain DEF PushStep, SaveStep, PullStep
<1> QED
    BY <1>1, <1>2 DEF Next

\* handle_sync: while clocks agree and nothing was removed, a push is refused as stale only
\* on a machine that is behind the server.
THEOREM RefusedWhenBehind == Spec => []RefusedOnlyIfBehind
<1>1. Init => ExpectInv
    BY DEF Init, ExpectInv, CopyKept, DateKept, ExpectKeeps
<1>2. IInv /\ ExpectInv => RefusedOnlyIfBehind
    BY DEF ExpectInv, ExpectKeeps, RefusedOnlyIfBehind, Stale, Idle
<1> QED
    BY <1>1, <1>2, Invariant, NextExpectInv, PTL DEF Spec
=============================================================================
