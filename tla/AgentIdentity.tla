----------------------------- MODULE AgentIdentity -----------------------------
(***************************************************************************)
(* The identity of a local agent on disk, in memory and at the server:     *)
(* rust/haiai/src/jacs_local.rs (update_with_registration,                 *)
(* rotate_with_registration, update_config_email) and the registrations of *)
(* rust/haiai/src/client.rs.                                               *)
(*                                                                         *)
(* A config file names the current version of the agent document.  Several *)
(* LocalJacsProviders, in one process or in several, may stand on one      *)
(* config file; each keeps an agent in memory behind a mutex, which orders *)
(* its own calls and nobody else's.  A version is committed locally first  *)
(* and registered with the server afterwards, outside the mutex.  A        *)
(* provider may crash between any two steps, and the config file is        *)
(* truncated before it is written.                                         *)
(*                                                                         *)
(* Of the config only the version it names is kept, of a version only      *)
(* which one it is and which key signs it.                                 *)
(***************************************************************************)
EXTENDS Naturals

CONSTANTS
  Providers,  \* LocalJacsProvider instances on the config file
  Calls,      \* calls that may be in progress
  Of,         \* the provider of a call
  MaxRev,     \* bound: versions created
  Torn,       \* the config file between truncation and writing
  Down,       \* the provider is not loaded
  Nobody      \* the mutex is free

ASSUME CallsHaveProviders == Of \in [Calls -> Providers] /\ Nobody \notin Calls

\* A version of the agent document, or an agent in memory.  Keys are named by the
\* version that introduced them.
Version == [rev : Nat, key : Nat]

ASSUME NoVersions == Torn \notin Version /\ Down \notin Version
ASSUME MaxRevIsNat == MaxRev \in Nat

VARIABLES
  config,      \* the version the config file names, or Torn
  docs,        \* agent documents saved
  keyFile,     \* the key in the key directory
  newest,      \* the last version created
  mem,         \* the agent of each provider
  owner,       \* the call that holds each provider's mutex
  call,        \* the frame of each call
  registered,  \* the version the server has
  named,       \* history: the version last written to the config
  committed,   \* history: the versions ever written there
  stale,       \* history: a write replaced a version it had not read
  rotated      \* history: the last key a provider has loaded or made

disk == <<config, docs, keyFile>>
history == <<named, committed, stale, rotated>>
vars == <<disk, newest, mem, owner, call, registered, history>>

First == [rev |-> 0, key |-> 0]

\* Where a call is, what it does, the version its config named, the version it makes
\* and the key that signed the registration of that.
Phases == {"ready", "load", "save", "rotate", "swap", "lock", "truncate", "write", "send"}
Frame == [at : Phases, op : {"none", "update", "rotate", "email"},
          base : Version, next : Version, header : Nat]
Idle == [at |-> "ready", op |-> "none", base |-> First, next |-> First, header |-> 0]

IdTypeOK ==
  /\ config \in Version \cup {Torn}
  /\ docs \subseteq Version /\ committed \subseteq Version
  /\ keyFile \in 0..MaxRev /\ newest \in 0..MaxRev
  /\ mem \in [Providers -> Version \cup {Down}]
  /\ owner \in [Providers -> Calls \cup {Nobody}]
  /\ call \in [Calls -> Frame]
  /\ registered \in Version /\ named \in Version
  /\ stale \in BOOLEAN /\ rotated \in [Providers -> Nat]

Init ==
  /\ config = First /\ docs = {First} /\ keyFile = 0 /\ newest = 0
  /\ mem = [p \in Providers |-> Down]
  /\ owner = [p \in Providers |-> Nobody]
  /\ call = [c \in Calls |-> Idle]
  /\ registered = First
  /\ named = First /\ committed = {First} /\ stale = FALSE
  /\ rotated = [p \in Providers |-> 0]

\* Fault: an agent signs with the key of its document, not with the one on disk.
LoadedWithItsKey(v) == v

\* Agent::from_config: the document the config names, with the key there is.  Whether
\* JACS loads a document that another key has signed is left open: Fail may follow.
Loaded(v) == [rev |-> v.rev, key |-> keyFile]

Goto(c, phase) == call' = [call EXCEPT ![c].at = phase]
Return(c) == call' = [call EXCEPT ![c] = Idle]
Lock(c) == owner[Of[c]] = Nobody /\ owner' = [owner EXCEPT ![Of[c]] = c]
Unlock(c) == owner' = [owner EXCEPT ![Of[c]] = Nobody]

--------------------------------------------------------------------------------

\* from_config_path.
Start(p) ==
  /\ mem[p] = Down /\ config # Torn /\ config \in docs
  /\ mem' = [mem EXCEPT ![p] = Loaded(config)]
  /\ rotated' = [rotated EXCEPT ![p] = keyFile]
  /\ UNCHANGED <<disk, newest, owner, call, registered, named, committed, stale>>

\* The process of a provider ends, with every call it had in progress.
Crash(p) ==
  /\ mem[p] # Down
  /\ mem' = [mem EXCEPT ![p] = Down]
  /\ owner' = [owner EXCEPT ![p] = Nobody]
  /\ call' = [c \in Calls |-> IF Of[c] = p THEN Idle ELSE call[c]]
  /\ UNCHANGED <<disk, newest, registered, history>>

(***************************************************************************)
(* update_with_registration and rotate_with_registration                   *)
(***************************************************************************)

\* The mutex is taken, then the config is read.
Begin(c, o) ==
  /\ call[c].at = "ready" /\ mem[Of[c]] # Down
  /\ Lock(c)
  /\ config # Torn
  /\ call' = [call EXCEPT ![c] = [Idle EXCEPT !.at = "load", !.op = o, !.base = config]]
  /\ UNCHANGED <<disk, newest, mem, registered, history>>

\* The agent is loaded from disk.  An update makes the next version at once, signed
\* with the key there is, and prepares its registration with the agent in memory; a
\* rotation does so later, with the same one.
Load(c) ==
  LET f == call[c]  new == [rev |-> newest + 1, key |-> Loaded(f.base).key]
      g == [f EXCEPT !.header = mem[Of[c]].key]
  IN  /\ f.at = "load" /\ f.base \in docs
      /\ \/ /\ f.op = "rotate"
            /\ call' = [call EXCEPT ![c] = [g EXCEPT !.at = "rotate"]]
            /\ UNCHANGED newest
         \/ /\ f.op = "update" /\ newest < MaxRev
            /\ call' = [call EXCEPT ![c] = [g EXCEPT !.at = "save", !.next = new]]
            /\ newest' = new.rev
      /\ UNCHANGED <<disk, mem, owner, registered, history>>

\* Fault: the document is not written before the config names it.
SaveLater(c) ==
  /\ call[c].at = "save"
  /\ Goto(c, "truncate")
  /\ UNCHANGED <<disk, newest, mem, owner, registered, history>>

Save(c) ==
  /\ call[c].at = "save"
  /\ docs' = docs \cup {call[c].next}
  /\ Goto(c, "truncate")
  /\ UNCHANGED <<config, keyFile, newest, mem, owner, registered, history>>

\* What a complete write of version v to the config means for the history.
Names(c, v) ==
  /\ config' = v
  /\ named' = v
  /\ committed' = committed \cup {v}
  /\ stale' = (stale \/ call[c].base # named)

\* rotate_with_mutex of JACS, in one step: new key files, a new version signed with
\* the new key, and the config that names it.
Rotate(c) ==
  LET new == [rev |-> newest + 1, key |-> newest + 1]
  IN  /\ call[c].at = "rotate" /\ config # Torn /\ newest < MaxRev
      /\ newest' = new.rev
      /\ keyFile' = new.key
      /\ docs' = docs \cup {new}
      /\ Names(c, new)
      /\ call' = [call EXCEPT ![c].next = new, ![c].at = "swap"]
      /\ UNCHANGED <<mem, owner, registered, rotated>>

\* Fault: a registration that cannot be prepared is returned before the replacement.
SwapUnlessUnprepared(c) ==
  /\ call[c].at = "swap"
  /\ \/ Goto(c, "send") /\ mem' = [mem EXCEPT ![Of[c]] = call[c].next]
     \/ Return(c) /\ UNCHANGED mem
  /\ rotated' = [rotated EXCEPT ![Of[c]] = call[c].next.key]
  /\ Unlock(c)
  /\ UNCHANGED <<disk, newest, registered, named, committed, stale>>

\* The agent in memory is replaced whether or not the registration was prepared.
Swap(c) ==
  /\ call[c].at = "swap"
  /\ Goto(c, "send") \/ Return(c)
  /\ mem' = [mem EXCEPT ![Of[c]] = call[c].next]
  /\ rotated' = [rotated EXCEPT ![Of[c]] = call[c].next.key]
  /\ Unlock(c)
  /\ UNCHANGED <<disk, newest, registered, named, committed, stale>>

(***************************************************************************)
(* update_config_email                                                     *)
(***************************************************************************)

\* The config is read before the mutex is taken.
ReadForEmail(c) ==
  /\ call[c].at = "ready" /\ mem[Of[c]] # Down /\ config # Torn
  /\ call' = [call EXCEPT ![c] = [Idle EXCEPT !.at = "lock", !.op = "email", !.base = config]]
  /\ UNCHANGED <<disk, newest, mem, owner, registered, history>>

LockForEmail(c) ==
  /\ call[c].at = "lock"
  /\ Lock(c)
  /\ Goto(c, "truncate")
  /\ UNCHANGED <<disk, newest, mem, registered, history>>

(***************************************************************************)
(* write_config_signed                                                     *)
(***************************************************************************)

\* An update reads the config once more, for all but the version.
Truncate(c) ==
  /\ call[c].at = "truncate"
  /\ call[c].op = "update" => config # Torn
  /\ config' = Torn
  /\ Goto(c, "write")
  /\ UNCHANGED <<docs, keyFile, newest, mem, owner, registered, history>>

WriteVersion(c) ==
  /\ call[c].at = "write" /\ call[c].op = "update"
  /\ Names(c, call[c].next)
  /\ mem' = [mem EXCEPT ![Of[c]] = call[c].next]
  /\ Unlock(c)
  /\ Goto(c, "send") \/ Return(c)
  /\ UNCHANGED <<docs, keyFile, newest, registered, rotated>>

WriteEmail(c) ==
  /\ call[c].at = "write" /\ call[c].op = "email"
  /\ Names(c, call[c].base)
  /\ Unlock(c)
  /\ Return(c)
  /\ UNCHANGED <<docs, keyFile, newest, mem, registered, rotated>>

\* Fault: the registration goes out although the commit has failed.
FailStillSends(c) ==
  /\ call[c].at \in {"load", "save", "rotate", "truncate", "write"}
  /\ IF call[c].op = "update" /\ call[c].at # "load" THEN Goto(c, "send") ELSE Return(c)
  /\ Unlock(c)
  /\ UNCHANGED <<disk, newest, mem, registered, history>>

\* Reading, loading, signing or writing raises: the call returns the error.
Fail(c) ==
  /\ call[c].at \in {"load", "save", "rotate", "truncate", "write"}
  /\ Return(c)
  /\ Unlock(c)
  /\ UNCHANGED <<disk, newest, mem, registered, history>>

(***************************************************************************)
(* send_prepared_registration.  The server takes a registration that the   *)
(* key it knows has signed; the request or its answer may be lost.         *)
(***************************************************************************)

Send(c) ==
  /\ call[c].at = "send"
  /\ Return(c)
  /\ \/ call[c].header = registered.key /\ registered' = call[c].next
     \/ UNCHANGED registered
  /\ UNCHANGED <<disk, newest, mem, owner, history>>

--------------------------------------------------------------------------------

Next ==
  \/ \E p \in Providers : Start(p) \/ Crash(p)
  \/ \E c \in Calls :
       \/ \E o \in {"update", "rotate"} : Begin(c, o)
       \/ Load(c) \/ Save(c) \/ Rotate(c) \/ Swap(c)
       \/ ReadForEmail(c) \/ LockForEmail(c)
       \/ Truncate(c) \/ WriteVersion(c) \/ WriteEmail(c)
       \/ Fail(c) \/ Send(c)

Spec == Init /\ [][Next]_vars

--------------------------------------------------------------------------------

\* Whatever crashes, fails or runs beside it, the config names a document that is
\* saved; and as long as every write replaced the version it was based on, that
\* document is signed with the key in the key directory, which a reload will use.
ReloadFindsIdentity ==
  config # Torn => config \in docs /\ (~stale => config.key = keyFile)

\* The server hears of a version only when the config has named it: a commit that
\* fails or is cut short half-way is never registered.  As long as every write replaced
\* the version it was based on, the server is also never ahead of the version the
\* config was last given; a stale write may put the config back behind it.
ServerKnowsCommitted ==
  registered \in committed /\ (~stale => registered.rev <= named.rev)

\* "subsequent signing must use the new key": a provider never goes back to a key
\* older than the last one it made or loaded, whether its registration was prepared,
\* sent or lost, and whatever a stale config says.
NoRetiredSigner ==
  \A p \in Providers : mem[p] # Down /\ owner[p] = Nobody => mem[p].key >= rotated[p]

\* The registrations of several providers reach the server in any order, each prepared
\* under a mutex and sent outside it; whichever is taken, late or based on a stale
\* config, the server never goes back to a key that an earlier one has retired.
ServerKeyAdvances == [][registered'.key >= registered.key]_vars
================================================================================
