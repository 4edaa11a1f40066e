------------------------------- MODULE SignerKeys -------------------------------
(***************************************************************************)
(* The signer keys of the remote provider's verifier: a cache by agent and  *)
(* version, which documents are verified with, and a directory with one PEM *)
(* file for an agent, whatever the version, which images and text files are *)
(* verified with. Threads of the host share both; agents rotate their keys. *)
(***************************************************************************)
EXTENDS Naturals

CONSTANTS
    Agents,   \* signers
    Self,     \* the provider's own agent
    Threads,  \* threads of the host that verify
    MaxKeys   \* bound: key versions of an agent

ASSUME SelfAssumption == Self \in Agents
ASSUME KeysAssumption == MaxKeys \in Nat \ {0}

Versions == 1..MaxKeys
Latest == 0               \* the version name "latest"
Names == Versions \cup {Latest}
NoKey == 0
Torn == MaxKeys + 1       \* a PEM file that is being written, or whose write failed

VARIABLES
    current,  \* current[a]: a's version at the registry; a key is named by its version
    cache,    \* cache[a][n]: the key kept for agent a and version name n
    pem,      \* pem[a]: the key in a's PEM file
    th,       \* th[t]: what thread t verifies, and how far it is
    fetched,  \* history: fetched[a], the keys of a that the registry handed out
    failed    \* history: the agents whose PEM file a thread failed to write

kvars == <<current, cache, pem, th, fetched, failed>>

\* `key`: what ensure_signer_key returned; `valid`: the verdict.
Idle == [pc |-> "idle", media |-> FALSE, signer |-> Self, version |-> 1,
         agent |-> Self, name |-> Latest, key |-> NoKey, valid |-> FALSE]

Init ==
    /\ current \in [Agents -> Versions]
    /\ cache = [a \in Agents |-> [n \in Names |-> NoKey]]
    /\ pem = [a \in Agents |-> NoKey]
    /\ th = [t \in Threads |-> Idle]
    /\ fetched = [a \in Agents |-> {}]
    /\ failed = {}

-----------------------------------------------------------------------------
Begin(t, media, signer, version, agent, name) ==
    /\ th[t].pc \in {"idle", "done"}
    /\ th' = [th EXCEPT ![t] = [pc |-> "ensure", media |-> media, signer |-> signer,
                  version |-> version, agent |-> agent, name |-> name, key |-> NoKey,
                  valid |-> FALSE]]
    /\ UNCHANGED <<current, cache, pem, fetched, failed>>

\* verify_document: the key of the signer's version, which the signature names.
VerifyDocument(t) ==
    \E a \in Agents : \E v \in 1..current[a] : Begin(t, FALSE, a, v, a, v)

\* verify_text_file and verify_image: the provider's own key is seeded first.
VerifyMedia(t) ==
    \E a \in Agents : \E v \in 1..current[a] : Begin(t, TRUE, a, v, Self, Latest)

Goto(t, pc) == th' = [th EXCEPT ![t].pc = pc]

\* ensure_signer_key: the cache, under its read lock.
Lookup(t) ==
    LET hit == cache[th[t].agent][th[t].name] IN
    /\ th[t].pc = "ensure"
    /\ IF hit # NoKey
       THEN th' = [th EXCEPT ![t].pc = "use", ![t].key = hit]
       ELSE Goto(t, "fetch")
    /\ UNCHANGED <<current, cache, pem, fetched, failed>>

\* Fault: the key is kept before its PEM file is written.
FetchAndKeep(t) ==
    LET a == th[t].agent
        key == IF th[t].name = Latest THEN current[a] ELSE th[t].name
    IN  /\ th[t].pc = "fetch"
        /\ th' = [th EXCEPT ![t].pc = "truncate", ![t].key = key]
        /\ fetched' = [fetched EXCEPT ![a] = @ \cup {key}]
        /\ cache' = [cache EXCEPT ![a][th[t].name] = key]
        /\ UNCHANGED <<current, pem, failed>>

\* The registry's answer; without one a document is not verified, and media goes on.
Fetch(t) ==
    LET a == th[t].agent
        key == IF th[t].name = Latest THEN current[a] ELSE th[t].name
    IN  /\ th[t].pc = "fetch"
        /\ \/ /\ th' = [th EXCEPT ![t].pc = "truncate", ![t].key = key]
              /\ fetched' = [fetched EXCEPT ![a] = @ \cup {key}]
           \/ /\ IF th[t].media THEN Goto(t, "use") ELSE th' = [th EXCEPT ![t] = Idle]
              /\ UNCHANGED fetched
        /\ UNCHANGED <<current, cache, pem, failed>>

\* The PEM file is emptied; one that cannot be opened is left as it is, with a warning.
Truncate(t) ==
    LET a == th[t].agent IN
    /\ th[t].pc = "truncate"
    /\ \/ Goto(t, "fill") /\ pem' = [pem EXCEPT ![a] = Torn] /\ UNCHANGED failed
       \/ Goto(t, "insert") /\ failed' = failed \cup {a} /\ UNCHANGED pem
    /\ UNCHANGED <<current, cache, fetched>>

Fill(t) ==
    /\ th[t].pc = "fill"
    /\ Goto(t, "insert")
    /\ pem' = [pem EXCEPT ![th[t].agent] = th[t].key]
    /\ UNCHANGED <<current, cache, fetched, failed>>

\* The write fails after it emptied the file, at once or half way: a warning, and the key
\* is cached as if it had been written.
FillFails(t) ==
    LET a == th[t].agent IN
    /\ th[t].pc = "fill"
    /\ Goto(t, "insert")
    /\ failed' = failed \cup {a}
    /\ pem' \in {pem, [pem EXCEPT ![a] = Torn]}
    /\ UNCHANGED <<current, cache, fetched>>

\* Fault: the key is kept under the agent's every version.
InsertAllVersions(t) ==
    /\ th[t].pc = "insert"
    /\ Goto(t, "use")
    /\ cache' = [cache EXCEPT ![th[t].agent] = [n \in Names |-> th[t].key]]
    /\ UNCHANGED <<current, pem, fetched, failed>>

\* The cache, under its write lock.
Insert(t) ==
    /\ th[t].pc = "insert"
    /\ Goto(t, "use")
    /\ cache' = [cache EXCEPT ![th[t].agent][th[t].name] = th[t].key]
    /\ UNCHANGED <<current, pem, fetched, failed>>

\* The verdict: a signature holds its key's hash, so no other key will do.
Use(t) ==
    LET key == IF th[t].media THEN pem[th[t].signer] ELSE th[t].key IN
    /\ th[t].pc = "use"
    /\ th' = [th EXCEPT ![t].pc = "done", ![t].valid = (key = th[t].version)]
    /\ UNCHANGED <<current, cache, pem, fetched, failed>>

Rotate(a) ==
    /\ current[a] < MaxKeys
    /\ current' = [current EXCEPT ![a] = @ + 1]
    /\ UNCHANGED <<cache, pem, th, fetched, failed>>

Next ==
    \/ \E t \in Threads :
          \/ VerifyDocument(t) \/ VerifyMedia(t)
          \/ Lookup(t) \/ Fetch(t) \/ Truncate(t) \/ Fill(t) \/ FillFails(t) \/ Insert(t) \/ Use(t)
    \/ \E a \in Agents : Rotate(a)

Spec == Init /\ [][Next]_kvars

-----------------------------------------------------------------------------
Writing(a) == \E t \in Threads : th[t].pc = "fill" /\ th[t].agent = a

Verification == [pc : {"idle", "ensure", "fetch", "truncate", "fill", "insert", "use", "done"},
                 media : BOOLEAN, signer : Agents, version : Versions, agent : Agents,
                 name : Names, key : Versions \cup {NoKey}, valid : BOOLEAN]

\* The types.
TypeOK ==
    /\ current \in [Agents -> Versions]
    /\ cache \in [Agents -> [Names -> Versions \cup {NoKey}]]
    /\ pem \in [Agents -> Versions \cup {NoKey, Torn}]
    /\ th \in [Threads -> Verification]
    /\ fetched \in [Agents -> SUBSET Versions]
    /\ failed \subseteq Agents

\* A document that its signer's version did sign verifies, whatever was asked for
\* before, however often the signer has rotated since, and whoever verifies meanwhile.
DocumentVerdict ==
    \A t \in Threads : th[t].pc = "done" /\ ~th[t].media => th[t].valid

\* Whoever found the provider's own key finds a key of it in the file too, through every
\* order of fetches, caching and rotations. A file that is missing or cut off has one of
\* two causes, and no third: a thread is in the middle of writing it again, or a write of
\* it has failed. Which of the own keys the file holds, when several were handed out, is
\* the one written last, so media signed with another of them fails.
OwnKeyOnFile ==
    \A t \in Threads :
        th[t].pc = "use" /\ th[t].media /\ th[t].key # NoKey
        => \/ pem[Self] \in fetched[Self]
           \/ Writing(Self)
           \/ Self \in failed
=============================================================================
