------------------------------- MODULE DocumentSync -------------------------------
(***************************************************************************)
(* `haiai memory sync` and `haiai soul sync`: the owner's one document of   *)
(* a type, kept as signed versions at the server, as a text file on each    *)
(* machine, and as signed copies in each machine's document directory,      *)
(* whose newest tells the machine what its file was last in step with.      *)
(* Pushes, pulls, plain saves, updates and removals interleave, and any     *)
(* command may die between two of its steps.                                *)
(***************************************************************************)
EXTENDS Naturals, Sequences, FiniteSets, FiniteSetsExt, SequencesExt

CONSTANTS
    Machines,     \* the owner's hosts that sync, each with a file and a document directory
    Savers,       \* hosts that save and update without syncing
    Commands,     \* places for running commands
    MaxVersions,  \* bound: versions ever signed
    Skews         \* how far each machine's clock may be ahead, as a set of functions

ASSUME MaxVersionsAssumption == MaxVersions \in Nat
ASSUME SkewsAssumption == Skews \subseteq [Machines \cup Savers -> Nat]

VARIABLES
    versions, \* how many versions were ever signed; a version is its number
    posted,   \* the signed versions the server has, in the order they arrived
    gone,     \* documents removed from the server
    local,    \* local[m]: the versions in m's document directory
    file,     \* file[m]: the version that the text in m's file derives from
    cmd,      \* cmd[c]: the command in place c
    skew,     \* skew[h]: how far h's clock is ahead
    synced,   \* history: the version m's last complete push or pull ended with
    held      \* history: the versions whose whole text m's file has had in it

dvars == <<versions, posted, gone, local, file, cmd, skew, synced, held>>

None == 0
Torn == MaxVersions + 1   \* the text of a file cut off in the middle of a write
Idle == [pc |-> "idle"]

Live == {r.doc : r \in Range(posted)} \ gone

\* The server's list is read newest first, latest versions of live documents only.
Newest ==
    LET live == {i \in DOMAIN posted : posted[i].doc \in Live}
    IN  IF live = {} THEN None ELSE posted[Max(live)].version

Record(v) == CHOOSE r \in Range(posted) : r.version = v

LatestLocal(m) == {v \in local[m] : \A u \in local[m] : Record(u).date <= Record(v).date}

Init ==
    /\ versions = 0 /\ posted = <<>> /\ gone = {}
    /\ local = [m \in Machines |-> {}]
    /\ file = [m \in Machines |-> None]
    /\ cmd = [c \in Commands |-> Idle]
    /\ skew \in Skews
    /\ synced = [m \in Machines |-> None]
    /\ held = [m \in Machines |-> {}]

-----------------------------------------------------------------------------
Syncing(m) == \E d \in Commands : cmd[d] # Idle /\ cmd[d].sync /\ cmd[d].at = m

\* A command starts; `text` is what it would store, `sync` whether it is a sync. A
\* machine's owner runs one sync at a time: nothing in the code keeps two apart.
Begin(c, m, pc, text, sync) ==
    /\ cmd[c] = Idle
    /\ cmd' = [cmd EXCEPT ![c] = [pc |-> pc, at |-> m, text |-> text, sync |-> sync,
                   expected |-> None, found |-> None, seen |-> 0, mine |-> None]]
    /\ ~(sync /\ Syncing(m))
    /\ UNCHANGED <<versions, posted, gone, local, file, skew, synced, held>>

Goto(c, pc) == cmd' = [cmd EXCEPT ![c].pc = pc]
End(c) == cmd' = [cmd EXCEPT ![c] = Idle]
Server == <<versions, posted, gone>>
Disk == <<local, file, skew, synced, held>>

\* handle_sync, push: the file is read first.
StartPush(c, m) == Begin(c, m, "local", file[m], TRUE)

\* The newest local version is what the push expects to replace.
ReadLocal(c) ==
    /\ cmd[c].pc = "local"
    /\ \/ /\ local[cmd[c].at] = {}
          /\ Goto(c, "probe")
       \/ \E v \in LatestLocal(cmd[c].at) :
             cmd' = [cmd EXCEPT ![c].pc = "resolve", ![c].expected = v]
    /\ UNCHANGED <<Server, Disk>>

\* Without local metadata the push goes on only if the server has no document.
Probe(c) ==
    /\ cmd[c].pc = "probe"
    /\ IF Newest = None THEN Goto(c, "resolve") ELSE End(c)
    /\ UNCHANGED <<Server, Disk>>

-----------------------------------------------------------------------------
\* save_document, step 4: a new version of what was found, or a new document.
Sign(c, found, seen) ==
    /\ versions < MaxVersions
    /\ versions' = versions + 1
    /\ cmd' = [cmd EXCEPT ![c].pc = "post", ![c].found = found, ![c].seen = seen,
                          ![c].mine = versions']

\* Step 1: the summary of the singleton. If there is none, a document is created.
Resolve(c) ==
    /\ cmd[c].pc = "resolve"
    /\ \/ /\ Newest = None
          /\ Sign(c, None, Len(posted))
       \/ /\ Newest # None
          /\ cmd' = [cmd EXCEPT ![c].pc = "fetch", ![c].found = Newest,
                                ![c].seen = Len(posted)]
          /\ UNCHANGED versions
    /\ UNCHANGED <<posted, gone, Disk>>

\* Step 3: the stale version check.
Stale(c) == cmd[c].expected \notin {None, cmd[c].found}

\* Fault: bytes that are not there any more are taken for a document that never was.
FetchOrCreate(c) ==
    /\ cmd[c].pc = "fetch"
    /\ IF Stale(c)
       THEN End(c) /\ UNCHANGED versions
       ELSE Sign(c, IF Record(cmd[c].found).doc \in gone THEN None ELSE cmd[c].found, cmd[c].seen)
    /\ UNCHANGED <<posted, gone, Disk>>

\* The bytes of what was found; a failing call ends the command, and so does Step 3.
Fetch(c) ==
    /\ cmd[c].pc = "fetch"
    /\ IF Stale(c) \/ Record(cmd[c].found).doc \in gone
       THEN End(c) /\ UNCHANGED versions
       ELSE Sign(c, cmd[c].found, cmd[c].seen)
    /\ UNCHANGED <<posted, gone, Disk>>

\* Step 5: the server takes the version. The file a push read now also holds that
\* version's text, unless another command has written to it.
Post(c) ==
    LET k == cmd[c]
        doc == IF k.found = None THEN k.mine ELSE Record(k.found).doc
    IN  /\ k.pc = "post"
        /\ doc \notin gone
        /\ posted' = Append(posted, [version |-> k.mine, doc |-> doc,
                                     date |-> k.mine + skew[k.at]])
        /\ IF k.sync
           THEN /\ cmd' = [cmd EXCEPT ![c].pc = "cache", ![c].text = None, ![c].found = None,
                                         ![c].expected = None, ![c].seen = 0]
                /\ file' = [file EXCEPT ![k.at] = IF @ = k.text THEN k.mine ELSE @]
                /\ held' = [held EXCEPT ![k.at] = @ \cup ({file'[k.at]} \cap {k.mine})]
           ELSE End(c) /\ UNCHANGED <<file, held>>
        /\ UNCHANGED <<versions, gone, local, skew, synced>>

\* cache_signed_sync_artifact, the last step of a push and of a pull.
Cache(c, v) ==
    LET m == cmd[c].at IN
    /\ local' = [local EXCEPT ![m] = @ \cup {v}]
    /\ synced' = [synced EXCEPT ![m] = v]
    /\ End(c)
    /\ UNCHANGED <<Server, file, skew, held>>

\* Fault: the pushed version is not kept locally.
PushForgets(c) ==
    /\ cmd[c].pc = "cache"
    /\ synced' = [synced EXCEPT ![cmd[c].at] = cmd[c].mine]
    /\ End(c)
    /\ UNCHANGED <<Server, local, file, skew, held>>

PushCache(c) == cmd[c].pc = "cache" /\ Cache(c, cmd[c].mine)

-----------------------------------------------------------------------------
\* handle_sync, pull: the newest record of the type, its text, the file, the copy.
StartPull(c, m) == Begin(c, m, "find", None, TRUE)

PullFind(c) ==
    /\ cmd[c].pc = "find"
    /\ IF Newest = None
       THEN Goto(c, "list")
       ELSE cmd' = [cmd EXCEPT ![c].pc = "get", ![c].found = Newest]
    /\ UNCHANGED <<Server, Disk>>

\* No record of the type: all documents are listed, and the first of the type is read.
PullList(c) ==
    /\ cmd[c].pc = "list"
    /\ IF Newest = None
       THEN End(c)
       ELSE cmd' = [cmd EXCEPT ![c].pc = "get", ![c].found = Newest]
    /\ UNCHANGED <<Server, Disk>>

\* Fault: the signed copy is kept before the file is written.
PullGetFirst(c) ==
    LET m == cmd[c].at IN
    /\ cmd[c].pc = "get"
    /\ IF Record(cmd[c].found).doc \in gone
       THEN End(c) /\ UNCHANGED local
       ELSE Goto(c, "write") /\ local' = [local EXCEPT ![m] = @ \cup {cmd[c].found}]
    /\ UNCHANGED <<Server, file, skew, synced, held>>

\* The record's text; then std::fs::write empties the file before it fills it.
PullGet(c) ==
    /\ cmd[c].pc = "get"
    /\ IF Record(cmd[c].found).doc \in gone
       THEN End(c) /\ UNCHANGED file
       ELSE Goto(c, "write") /\ file' = [file EXCEPT ![cmd[c].at] = Torn]
    /\ UNCHANGED <<Server, local, skew, synced, held>>

PullWrite(c) ==
    LET m == cmd[c].at IN
    /\ cmd[c].pc = "write"
    /\ file' = [file EXCEPT ![m] = cmd[c].found]
    /\ held' = [held EXCEPT ![m] = @ \cup {cmd[c].found}]
    /\ Goto(c, "pulled")
    /\ UNCHANGED <<Server, local, skew, synced>>

PullCache(c) == cmd[c].pc = "pulled" /\ Cache(c, cmd[c].found)

-----------------------------------------------------------------------------
\* save_memory and save_soul: an upsert without an expectation.
StartSave(c, h) == Begin(c, h, "resolve", None, FALSE)

\* update_document: fetch by id, sign, post.
StartUpdate(c, h) ==
    /\ cmd[c] = Idle
    /\ versions < MaxVersions
    /\ versions' = versions + 1
    /\ \E d \in Live :
          LET latest == Max({i \in DOMAIN posted : posted[i].doc = d})
          IN  cmd' = [cmd EXCEPT ![c] = [pc |-> "post", at |-> h, text |-> None,
                         sync |-> FALSE, expected |-> None, found |-> posted[latest].version,
                         seen |-> Len(posted), mine |-> versions']]
    /\ UNCHANGED <<posted, gone, Disk>>

\* remove_document: the document with all its versions.
RemoveDocument ==
    /\ \E d \in Live : gone' = gone \cup {d}
    /\ UNCHANGED <<versions, posted, cmd, Disk>>

\* A command dies, or a call of it fails: what it has done stays done. With Post
\* before it, this is also an answer that got lost.
Stop(c) ==
    /\ cmd[c] # Idle
    /\ End(c)
    /\ UNCHANGED <<Server, Disk>>

PushStep(c) == ReadLocal(c) \/ Probe(c) \/ PushCache(c)
SaveStep(c) == Resolve(c) \/ Fetch(c) \/ Post(c)
PullStep(c) == PullFind(c) \/ PullList(c) \/ PullGet(c) \/ PullWrite(c) \/ PullCache(c)

Next ==
    \/ \E c \in Commands :
          \/ PushStep(c) \/ SaveStep(c) \/ PullStep(c) \/ Stop(c)
          \/ \E m \in Machines : StartPush(c, m) \/ StartPull(c, m)
          \/ \E h \in Savers : StartSave(c, h) \/ StartUpdate(c, h)
    \/ RemoveDocument

Spec == Init /\ [][Next]_dvars

-----------------------------------------------------------------------------
Versions == 1..versions
Known == {r.version : r \in Range(posted)}
Signed == [version : 1..MaxVersions, doc : 1..MaxVersions, date : Nat]
Running == [pc : {"local", "probe", "resolve", "fetch", "post", "cache",
                  "find", "list", "get", "write", "pulled"},
            at : Machines \cup Savers, text : {None, Torn} \cup Known, sync : BOOLEAN,
            expected : {None} \cup Known, found : {None} \cup Known,
            seen : 0..Len(posted), mine : {None} \cup Versions]

\* Every command is at one of its steps; files, directories and commands speak of
\* versions the server has had, each of them once.
TypeOK ==
    /\ versions \in 0..MaxVersions
    /\ posted \in Seq(Signed)
    /\ Known \subseteq Versions
    /\ \A i, j \in DOMAIN posted : posted[i].version = posted[j].version => i = j
    /\ gone \subseteq 1..MaxVersions
    /\ local \in [Machines -> SUBSET Known]
    /\ file \in [Machines -> {None, Torn} \cup Known]
    /\ cmd \in [Commands -> Running \cup {Idle}]
    /\ skew \in Skews
    /\ synced \in [Machines -> {None} \cup Known]
    /\ held \in [Machines -> SUBSET Known]

\* What a push that had local metadata is about to replace, its machine has read: of the
\* versions its document had when it was looked up, the newest is the one the pushed text
\* derives from. Where a document was removed, or a crash of a pull has cut the text off,
\* the machine's file has had that newest version whole. The server compares nothing when
\* it takes a version: one that another command posts after the lookup (i > seen) is
\* replaced unread, and nothing is claimed of it.
NoUnreadOverwrite ==
    \A c \in Commands :
        LET k == cmd[c]
            Read == IF gone = {} /\ k.text # Torn THEN {k.text} ELSE held[k.at]
            Of == {i \in DOMAIN posted : posted[i].doc = Record(k.found).doc}
        IN  k.pc = "post" /\ k.sync /\ k.expected # None /\ k.found # None =>
               \A i \in Of : \/ i > k.seen
                             \/ \E j \in Of : j >= i /\ posted[j].version \in Read

\* A second live document of a singleton type comes only from creations that
\* overlapped: whatever is live when a new one is signed came after its lookup.
SingletonUnlessRaced ==
    \A c \in Commands :
        cmd[c].pc = "post" /\ cmd[c].found = None
        => \A i \in DOMAIN posted : posted[i].doc \in Live => i > cmd[c].seen

\* Clocks agree, nothing was removed, versions arrived in the order they were signed.
Regular ==
    /\ \A h, k \in Machines \cup Savers : skew[h] = skew[k]
    /\ gone = {}
    /\ \A i, j \in DOMAIN posted : i < j => posted[i].version < posted[j].version

\* While that is so, a machine whose last sync ended with the server's version is
\* never refused as stale.
RefusedOnlyIfBehind ==
    \A c \in Commands :
        cmd[c].pc = "fetch" /\ Stale(c) /\ Regular
        => cmd[c].found # synced[cmd[c].at]

\* "local memory sync metadata is missing; run `haiai memory sync --pull` before
\* pushing": a push without metadata replaces nothing.
PushNeedsMetadata ==
    \A c \in Commands :
        cmd[c].pc = "post" /\ cmd[c].sync /\ cmd[c].expected = None => cmd[c].found = None
=============================================================================
