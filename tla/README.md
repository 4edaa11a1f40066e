# A verification project for HAIAI

HAIAI is an SDK by which an agent signs documents, registers with the HAI
service, exchanges mail, and answers benchmark jobs that arrive over a live event
stream. A Rust core (`rust/haiai`) does the work; `rust/hai-binding-core` exposes
it to Python, Node and Go through opaque handles and JSON; the language packages,
an MCP server and a command line sit on top.

This directory holds TLA+ modules for the parts of that system whose
correctness depends on the order in which things happen, TLC configurations that
check them on small instances, and TLAPS proofs for every instance.

## 1. Inventory

| Part | State | Operations | Hard because |
|---|---|---|---|
| Streaming handle table, `hai-binding-core/src/lib.rs` | counter `NEXT_HANDLE`, two locked maps of connections with last-access times | connect, next event, close, idle sweep, count | callers interleave between critical sections; a polled connection is outside the maps |
| Go stream lifecycle, `go/transport_*.go` | handle, context, `closeOnce`, done and event channels | open, read loop, Close, Events | the loop's poll, several closers and the context race; bounded channel |
| Live streams, `haiai/src/client.rs` | server-key snapshot, replay store, parser buffer, bounded channel, shutdown signal, task | connect, key refresh, read, verify, send, next event, close, abort | keys rotate while events arrive; back pressure; close at any moment; damaged and repeated input |
| Benchmark loop, `haiai/src/client.rs` | reconnect counter, connection | connect, dispatch, close, back off | failures at each step must either retry or end the function |
| Mediator worker, `python/examples/benchmark_mediator.py` | SQLite journal of jobs | handle job, resubmit pending, restart | crash between any two statements; paid calls must not repeat; two workers |
| Agent identity, `haiai/src/jacs_local.rs` | config file, agent documents, key files, in-memory signer behind a lock, environment overrides behind another | load, rotate, update, email write, register, sign | several processes share one config file; local commit precedes registration |
| REST client, `haiai/src/client.rs` | the retry attempt, the idempotency key, a payment being polled | request with retry, send and reply to mail, benchmark, agreement, register, submit a response, free and pro runs | an error answer may follow a commit, and a commit may follow the client's timeout |
| Document sync, `haiai-cli/src/main.rs`, `haiai/src/jacs.rs`, `jacs_local.rs`, `jacs_remote.rs` | the server's signed versions, a text file and signed copies on each machine | push, pull, save, update, remove | read-modify-write over HTTP from several hosts, deaths between steps, dates from different clocks |
| Remote signature verification, `haiai/src/jacs_remote.rs` | key cache by agent and version, one PEM file per agent | verify a document, a text file or an image | rotations, several threads on one directory, a file rewritten in place |
| Remote lists, `haiai/src/jacs_remote.rs` | the cursor and offset of a walk | query, search, list summaries, find by name | the offset inside a page, a cap, records that come and go between pages |
| Local documents, `haiai/src/jacs_local.rs`, `document_store.rs` | files or SQLite rows per version | create, update, latest, list, search | what "latest" means when versions are written concurrently |
| Python and Node streams, `python/src/haiai/client.py`, `node/src/*.ts` | handle, attempt counter, flags | generator of events, disconnect | reconnect policy; abandoned generators |
| MCP server, the rest of the CLI | cached providers and email | tools and commands | second writers of the agent's files |
| Mail, MIME, A2A, signing helpers | none | pure functions over JACS | sequential |

How they interact: a host language calls the binding core, which holds
connections in the handle table; each connection is the reader's end of a live
stream whose task verifies events and sends them over a channel; the Go, Python
and Node packages loop over `next_event`; the Rust benchmark loop uses a live
stream directly; the mediator is an application over the Python generator and
`submit_response`; all of them sign with the local identity. `memory sync` and `soul
sync` of the command line join the remote provider, the local provider's document
directory and a text file; the remote provider verifies what it fetches with keys it keeps
itself.

What makes each part correct:

- handle table: one owner per connection, one connection per number, a bound on
  how many are open;
- Go stream: a stream that ends gives its handle back; Close returns; jobs reach
  the handler;
- live stream: the reader sees a prefix of what arrived, each event verified
  and once, and is given all the task has read when nothing failed; close returns;
- benchmark loop: jobs in order and once, no job lost, the function gives up or
  keeps listening;
- mediator: at most one purchase per job, the server hears the journaled answer
  only, a reply is eventually sent unless a refused one stands before it, unknown
  outcomes are left alone;
- identity: the config on disk names a version that can be loaded, the server only
  hears of committed versions, nobody signs with a key rotated away;
- REST: what is not retried happens at most once, a mail once for its key, a
  success means done, every call returns;
- document sync: of what the server has when a push looks, it replaces nothing its
  owner has not read; one document per type unless creations overlap; a machine in step
  is not refused;
- signer keys: a signature is judged with the key of the version that made it;
- lists: a walk returns the window asked for, a search by name passes over a record for
  known reasons only.

## 2. Modules

| Module | Models | Uses |
|---|---|---|
| `StreamHandles` | the handle table: one action per critical section of `connect_*`, `*_next_event`, `*_close` | |
| `GoStream` | one Go stream over the table: read loop, Close, closeOnce, channel, context | `StreamHandles` (its steps) |
| `CompletionLedger` | abstract: what the mediator promises about paid completions | |
| `MediatorJournal` | the mediator worker: one action per SQL statement or outside call | `CompletionLedger` (refinement) |
| `LiveStream` | one SSE or WebSocket stream of the Rust client | |
| `BenchmarkLoop` | `on_benchmark_job_with_reconnect` over it | `LiveStream` (its steps) |
| `AgentIdentity` | the agent's config, documents and keys on disk, the agents in memory, the version at the server | |
| `DocumentSync` | memory and soul sync: pushes, pulls, saves, updates, removals | |
| `RestCalls` | calls with an effect at the server, and pro runs | |
| `SignerKeys` | the verifier's key cache and PEM files | |
| `PageWalk` | page walks and `find_document` | |
| `StreamHandlesProofs`, `MediatorJournalProofs`, `LiveStreamProofs`, `AgentIdentityProofs`, `DocumentSyncProofs`, `RestCallsProofs`, `SignerKeysProofs`, `PageWalkProofs` | theorems (section 4) | the module each is named after; `StreamHandlesProofs` also `GoStream`, `LiveStreamProofs` also `BenchmarkLoop` |
| `MC*` | instances for TLC | |

Operators whose comment begins with "Fault:" are mutants: the neighbouring
definition as a plausible mistake would have it. They are used by no
specification; each shows that some property notices that mistake.

### StreamHandles
`table` is the content of both maps (a connection is a number and a kind),
`idle` those past `HANDLE_IDLE_TIMEOUT`, `held[c]` the connection a call has in
its frame, `pc[c]` where the call is between locks. `issued` and `stopped` are
history. Time is the action `GrowIdle`. A call on a handle that is not in the
map is answered with an error (poll) or Ok (close) and changes nothing. A host
that drops the future of a connect or a poll is `DialFail`, `InsertDropped` (after the dial, at the
map's lock) or `PollEnd`: in all of them the connection dies with the frame, which Rust's ownership
sees to and no property repeats. A connection dropped or closed is `stopped`; its background task is the
subject of `LiveStream`.

### GoStream
The FFI calls of the reader goroutine, the closers and one unrelated caller are the
steps of `StreamHandles`, so a Close meets a poll exactly as the core lets it.
`closing[g]` is where each call of Close is: after `cancel`, after `closeOnce`,
waiting for `done`. `sync.Once` is atomic here: a second caller of `Do` would
wait for the first, whose FFI close cannot wait for a third party. `raced`
is history: `closeOnce` ran while the loop's poll held the connection.

### LiveStream
`sent` is what arrives on the current connection, `taken` and `checked` how far
the task has read and verified it, `queue` the channel, `got` what `next_event`
returned. Signatures are abstracted to the signing key and the connection an
event is addressed to; `Torn` are events the transport delivers oversized, in
bad UTF-8 or otherwise not parseable. The replay store is the set `consumed`,
which outlives connections; `past` is history, the events released on earlier ones. A WebSocket
message is a chunk of one event, and a failed pong ends its task without an error (`PongFails`). A
stream of server-sent events may end inside an event (`ReadEnd`): the task leaves its loop without a look
at what the parser still holds, so that event is lost and no error says so.

### BenchmarkLoop
The variables of `LiveStream` and the function's own place, attempt counter and
the sequence of jobs given to the handler. `Background` is the stream's task going on by
itself. Delays are not modelled: a backoff may take any time.

### MediatorJournal
`journal[j]` is the row of a job, `current[w]` the reply worker `w` is working on,
`pc[w]` the statement it is at. Every statement commits by itself as in the code, so
`Crash` may fall between any two. Any exception in the loop ends the worker (`Drop`);
`Start` is the operator starting it again. `received` is what the server has accepted,
with or without its acknowledgement arriving, and `answered` (history) what it has answered with a 2xx. The two
differ: `submit_response` returns Ok for a 2xx answer that says `success: false`, and the mediator
marks the row without reading it, so a marked row was answered and need not have been accepted.
`Refused` are the jobs whose replies the server never takes; the submission raises, the worker ends, and
because rows are resent oldest first the later ones wait behind it (`Blocked`).

### AgentIdentity
`config`, `docs` and `keyFile` are the disk, shared by all providers; `mem[p]` and
`owner[p]` are one `LocalJacsProvider`, its agent and the mutex around it; `call[c]` is the frame
of a call of `update_with_registration`, `rotate_with_registration` (`Begin` to
`Send`) or `update_config_email` (`ReadForEmail` to `WriteEmail`). A version of the
agent document is a number and the key that signed it. Reading the config, saving the
document, truncating the config and writing it are steps of their own, and `Crash` or `Fail`
may come between any two. `rotate_with_mutex` belongs to JACS and is one step, with the
effect the calling code relies on; whether JACS refuses to load a document signed with another
key than the one on disk is left open. `registered` is what the server has: it takes a version
whose registration was signed with the key it knows. `named`, `committed`,
`stale` and `rotated` are history.

### DocumentSync
`posted` is the server's sequence of signed versions, `gone` the removed documents,
`local[m]` the signed copies in machine `m`'s document directory, `file[m]` the version its text file
derives from (`Torn` while `std::fs::write` has emptied it), `skew` how far a host's clock is
ahead. `cmd[c]` is the frame of a running command. A push is `StartPush`, `ReadLocal`
(or `Probe` without metadata), then `save_document`: `Resolve`, `Fetch`, `Post`, and last
`PushCache`. A pull is `StartPull`, `PullFind`, `PullGet`, `PullWrite`, `PullCache`. `StartSave`,
`StartUpdate` and `RemoveDocument` are other clients of the owner. `Stop` is a crash, a failed call
or, after `Post`, a lost answer. That a machine runs one sync at a time is assumed of its
owner; nothing in the code enforces it. Texts are named by the version they derive from, so
an edit changes nothing in the model. `PullList` is the pull's second lookup, over all records, when the
search by name found nothing. `synced` is history, and so is `held[m]`, the versions the text
file of `m` has derived from. Nothing compares and swaps: the stale check reads the newest version and
the POST is a request of its own, so a version that another client posts in between is replaced unread. The
model has these steps apart, and `NoUnreadOverwrite` speaks of the versions the server had at the lookup.

### RestCalls
`call[c]` is the frame of one client method: what it sends, under which key, how often it has
tried. `sent` are the requests the server may still commit, `effects` those it did, `payment` the
buyer's side of a purchase. `Send` is one attempt; `Commit` and `Refuse` are the server and may
follow the client's timeout; `AnswerRetryable` is a 429, 500, 502, 503 or 504 from anywhere on the
way, `AnswerError` everything else that is no success. A pro run is a purchase, then
`Poll`s until `PollTimeout`, then a run.

### SignerKeys
`cache[a][n]` is the key kept for agent `a` under the version name `n`, `pem[a]` the one PEM file of an agent,
`th[t]` a thread in `verify_document` or in `verify_text_file` and `verify_image`. `ensure_signer_key` is `Lookup`
under the read lock, `Fetch`, `Truncate` and `Fill` of the file, `Insert` under the write lock. The write may
fail, at the opening (`Truncate` leaves the file as it is) or after the file was emptied (`FillFails` leaves
it cut off): the code warns, caches the key, and with the key cached does not write that file again
for that version. `Rotate` is any agent's rotation at the registry. `fetched` and `failed`, the agents a write of
whose file has failed, are history.

### PageWalk
A record is a number, larger if stored later; `live` is the server's list, read newest first.
`walk` is a walk in progress (its kind, cursor, what the offset has skipped, what is collected), `find` the
search over walks of summaries. The three kinds end differently: queries and searches by the cap, which
summaries do not have, and a search does not stop at an empty page. That a search's list is ordered by rank
and not by date makes no difference to its walk. `find.pushed` is the length of the code's vector of
matches: a record that a store has moved into the next page is pushed a second time and counts twice
towards the limit. `Store` and `Remove` are other clients; `gone`, `grew` and `calm` are history.

## 3. Runs

| Run | Checks | Shows |
|---|---|---|
| `handles` | `ExclusiveOwnership`, `HandleNamesOneConnection`, `OvershootBounded` | ownership of connections through every interleaving of two calls; the limit is overshot by at most two per other caller |
| `go_stream` | `GoTypeOK`, `ReleasedUnlessRaced`, `CloseReturns` | streams give their handle back unless Close meets a poll, and Close returns wherever it meets the loop |
| `go_close` | `CloseTerminates`, violated | a Close that meets a poll leaves the connection open |
| `mediator` | `TypeOK`, `MarkedWasAnswered`, `AnswersItsOwnRequest`, `ImplementsLedger`, `UnknownIsNotRetried`, `RepliesAreSent` | the journal keeps its promises through crashes, lost answers and a second worker, and a reply that is never sent is refused itself or stands behind a refused one |
| `live_stream` | `TypeOK`, `ReleasedIsPrefix`, `ReleasedOnce`, `SilentEndGivesAllRead`, `CloseReturns` | what the reader may rely on, and that a stream which fails never looks like one that ended |
| `benchmark_loop` | `LoopTypeOK`, `JobsInOrder`, `GivesUpOrListens`, `ConsumedIsHandled` | the loop's contract with its handler and its caller |
| `agent_identity` | `ReloadFindsIdentity`, `ServerKnowsCommitted`, `NoRetiredSigner`, `ServerKeyAdvances` | disk, memory and server stay related through races, crashes and lost registrations |
| `document_sync` | `NoUnreadOverwrite`, `SingletonUnlessRaced`, `RefusedOnlyIfBehind` | of the versions at its lookup, a push that had metadata replaces only what its machine has read, whatever dies or overlaps |
| `document_first` | `PushNeedsMetadata`, violated | a first push can replace a document nobody on its machine has read |
| `rest_calls` | `EffectOnce`, `OkMeansDone`, `CallsReturn` | retries and idempotency keys against a server that commits and loses the answer |
| `signer_keys` | `DocumentVerdict`, `OwnKeyOnFile` | verdicts through rotations, concurrent fetches and failed writes |
| `page_walk` | `WalkIsWindow`, `FindMisses`, `FindsNewest` | what a walk returns, what a search by name passes over while others write, and what it returns when nobody does |

The two violated properties state what comments and a message of the repository say of the program;
the counterexamples are real schedules of the code. They are listed under `findings`
in `PROJECT.json`.

Known behaviour, modelled where it bites and stated as no property:

- the handle limit is a check before a dial and can be overshot (`lib.rs:1584`);
- the Go read loop drops an event, a job like any other, when its channel is full
  (`transport_sse.go:84`), and `OnBenchmarkJob` begins its backoff anew after every stream that
  ends (`transport_sse.go:120`);
- one reply the server refuses for good keeps the mediator from sending the later ones
  (`benchmark_mediator.py:98`), at every connect anew, where the repository's `README.md:61` says that unsent
  replies are resent on reconnect; a 2xx answer with `success:false` counts as sent (`:87`);
- a stream of server-sent events that is cut inside an event ends like one that is complete
  (`client.rs:2176`);
- a push has no compare-and-swap: what another client posts between the stale check and the POST is
  replaced unread (`jacs.rs:1058`);
- a PEM file whose write failed stays as the failure left it while its key is cached
  (`jacs_remote.rs:1317`), and media of the provider's own agent then do not verify;
- `find_document` counts a match again that a store has moved into its next page, and may then
  miss an older one (`jacs_remote.rs:870`);
- a read error ends the benchmark loop where a failed connect would be tried again
  (`client.rs:2510`);
- an email update writes the config it read before it took the lock, and so undoes a rotation
  in between (`jacs_local.rs:455`); the signed config is truncated and written in place (`:443`);
- reply and forward take no idempotency key from their caller (`client.rs:1317`);
- a sweep closes connections one by one under the map's lock (`lib.rs:93`);
- a capped walk ends short when its offset is past `AUTO_PAGE_CAP` (`jacs_remote.rs:1056`);
- a Python generator that is abandoned keeps its connection until it is collected
  (`client.py:1949`).

### Bounds
- `handles`: two calls, a limit of two and five connections in all. The worst
  overshoot needs one connection hidden under a poll and one let in by the race,
  so four open at once; the fifth number shows no more get in. Calls are interchangeable,
  hence symmetry.
- `go_stream`: two closers, so that two calls of Close overlap and one of them
  comes after the end; a channel of one, so that it is full after one event; one unrelated
  connection, whose sweeps close idle handles.
- `mediator`: two workers and two jobs, so that workers collide on one job and
  replies are pending for both; two digests, so that an identity is reused. One job's replies are
  refused, so that the other's wait behind it whenever its row is the older one.
  Purchases cannot grow without bound because the primary key admits one; that is what is checked.
- `live_stream`: two connections and three arrivals on each, out of four events (two
  signed with different keys, one for the second connection, one damaged), a channel
  of one: chunks of two and three, duplicates, misdelivery and back pressure all occur.
- `benchmark_loop`: two connections, three events, two attempts; one event of each type
  that is told apart (the rest is the other connection's job). Keys do not rotate here
  beyond the one key appearing and disappearing: `live_stream` covers that.

- `agent_identity`: two calls through one provider and one through another, so that the mutex
  is contended and also bypassed; two new versions, so that each can replace
  the other. A key's number is the order of the rotations. With one call less, three versions
  were checked too, for two providers and for one.
- `document_sync`: a machine that syncs, a host that saves and updates, two commands at a time and
  three versions, so that one can arrive between any two steps of a push whose
  metadata is older still; clocks equal or either two versions ahead. Two machines that sync, without the
  other host, were checked with three versions too.
- `rest_calls`: two calls that may name one key, the three attempts that are the code's default,
  two polls.
- `signer_keys`: two agents, one the provider's own, two threads, two key versions; any write may fail.
- `page_walk`: up to five records, pages of two, a cap of two, limits to three and offsets to
  four: the offset falls inside a page, on its edge and past the end, and the cap is hit. Three
  records are of the name that is looked for, one of them in its bytes only; one has another name and one
  has none. So a match can be counted twice before an older one is met.

`CHECK_DEADLOCK FALSE` is set where the system may stop for good: a Go stream that is
done, a live stream or loop whose connections are used up, REST calls that have all returned, an
agent whose config was cut off by a crash: no reader accepts that file, and nothing in the
code repairs it.

### Fairness
- `GoSpec`: goroutines that can run do run; a poll that waits returns sooner or
  later. The server sends heartbeats, and the stream's task ends when the transport
  breaks. The application need not receive: nothing is assumed of `Receive`.
- `FairStreamSpec`: only the grace timer (`Abort`) and the return of `close`. Key
  fetches may hang and the server may be silent for ever.
- `BenchmarkLoop!FairSpec`: the loop runs, handlers return, the task verifies and
  delivers what it has read. The server owes nothing.
- `MediatorJournal!FairSpec`: workers are restarted and reconnect; a call returns or
  raises; a submission the server does not refuse gets through at some time if it is
  tried again and again (strong fairness, since crashes may intervene). This is the operator's
  side of the README's "resends unsent replies on reconnect".
- `RestCalls`: a call's own next step. Every request has a time limit, and polling has
  `poll_timeout`. Nothing is assumed of the server or of the buyer.

## 4. Proofs

All proofs are for arbitrary constants under the named assumptions of the modules. Each has
an inductive invariant, some a second one that stands on the first, and one lemma or step per action
or group of actions with the same shape.

`StreamHandlesProofs`: `OwnershipInv` is type correctness, the two
ownership properties, and two facts that make them so. `PhaseInv` says in which phases
a call has a connection in hand and whether that connection was already handed out;
`NumberInv` says every number in use is below `NEXT_HANDLE`. Without `NumberInv` a fresh number
could collide with an old one; without `PhaseInv` an insert could put back what
is already in a map. Theorems: `Ownership`, `TypeCorrect`,
`Exclusive`, `OneConnectionPerHandle`.

How far the limit is overshot (`Overshoot`) is a count over calls that cannot see each other.
The load of a kind is what is open of it and what was let through and not yet dialled, and only `Admit`
makes a load grow. A count misses one connection for each other call at most, none for a call that is
itself between its two counts. `SeenKeeps` says what a connect between them can rely on: either what
its first count saw still bounds the SSE load, but for those that can hide one, or somebody was
admitted since and the whole load leaves room for two more calls. For this to survive another admission
the connects must be ordered by their first counts, so `LimitInv` says that some ranking of them exists.
The bound needs a finite set of callers with somebody in it (`CallersFinite`), and is 2 for each
other call because each may hide one connection from each of the two counts.

The same module goes on to Go. It first shows that every step of a Go stream is a step of the handle table or leaves
it alone (`TableImplemented`), so `OwnershipInv` holds under Go as well. To it `GoInv` adds what the
loop's place says of its poll (`PollKeeps`), where the stream's handle is for each place
(`HandleKeeps`: in the table, under the loop's poll, or released), and what a closer's place says of
the context and of `done` (`CloseKeeps`). Theorems: `GoInvariant`, `GoTypeCorrect`, `HandleReleased`. It assumes reader, closers and the other caller to be different goroutines.

`MediatorJournalProofs`: `JournalInv`. `HandsInv` relates a
worker's place to what the journal holds for its job; `OneBuyer` says no two workers
buy for one job, which follows from the primary key; `RowInv` ties rows to purchases
and to what the server has and has answered. From it follow the refinement of `CompletionLedger`
(`LedgerImplemented`: a purchase is `Buy`, a recorded response is `Settle`, a submission `Tell`,
anything else stutters), `MarkedAnswered`, `AnswersOwn` and the action property
`UnknownNotRetried`.

`LiveStreamProofs`: `ReleasedKeeps` says of everything released, read or still in the channel, that it is what
arrived at that place, verified for this connection and on record, or the error, which is last;
`TaskKeeps` says how far the task is for each of its places and that the event in its hand is the next one
and new; `PastKeeps` that what earlier connections released is on record, so that no later one can release
it; `EndKeeps` what a task that ended by itself has left unread. Theorems:
`Invariant`, `TypeCorrect`, `PrefixReleased`, `OnceReleased` (over all connections), `SilenceGivesAllRead`. The module goes on to
the benchmark loop: every step of it keeps the stream's invariant, and `HandledKeeps` adds that a job
handed over is on record and neither in the task's hand, nor in the channel, nor just heard. Theorems:
`LoopInvariant`, `LoopTypeCorrect`, `HandlerInOrder`.

`AgentIdentityProofs`: `NumbersGrow` bounds every version in sight by the last one made; `DiskKeeps`
relates config, documents and key file; `CallKeeps` says what a call's frame is worth at each step,
with `PendingKeeps` for an update that has read the config and not yet written it; `Apart` is the
provider's mutex; `MemKeeps` orders the signer in memory after the last rotation. On it stands
`KeyInv`: no agent in memory is ahead of the key directory, and what signs a registration is no later
than the key the registered version introduces, because the one is read from memory before the other is
read from disk or made. `AheadInv` says that a version on its way to the config is newer than the one it is
based on, so that the config has the newest of the versions it ever named while no write was stale; this gives
`ServerFollows`. A stale write can undo that, and the theorems that speak of config and key, `ReloadFinds`
and `ServerFollows`, claim the less for it. Since the server takes only what the key it knows has signed, an action
property follows, `ServerKeysAdvance`: no registration, however late, takes the server back to a retired key.
Other theorems: `Invariant`, `TypeCorrect`, `ReloadFinds`, `ServerFollows`, `SignersAdvance`.

`DocumentSyncProofs`: `Aligned` says that a machine which holds a copy of the last arrived version has
that version's text in its file, unless a pull has cut it off; `CmdKeeps` says the same of the
text, the expectation and the lookup a command carries; `Apart` that a machine runs one
sync. `HeldInv` adds the history: the copies and the text of a machine are of versions it has held, a push expects
one of these, and what its lookup found was then the last version of its document. Theorems: `TypeCorrect`, `NothingOverwrittenUnread`, `OneUnlessRaced`. On top of it `ExpectInv` says that
what a machine was in step with is among its copies, that a version is dated by the clock of a host, and that,
while clocks agree and versions arrive in order, a push expects the highest of its copies; hence
`RefusedWhenBehind`.

`RestCallsProofs`: `CallKeeps` ties what a call sends to what it is, `RequestKeeps` a request to the call that
made it and to the attempt, `KeyedOnce` says a key has one effect, `DoneKeeps` that a call
which has a success in hand has had its effect. Theorems: `TypeCorrect`, `EffectsOnce`, `SuccessIsDone`.

`SignerKeysProofs`: `CacheTrue` says what is kept under a version's name is that version's key,
`ThreadTrue` the same of a thread's key on its way there. On top of these
`FileInv` says where a key can be: what the cache, a thread or a PEM file holds was handed out by the
registry, who has kept a key has written the file first, unless a write of it has failed, and a file cut off is
being written or was left so by such a failure. Theorems: `TypeCorrect`, `DocumentsVerify`, `OwnKeyFiled`.

`PageWalkProofs`: first what the operators do, for every list: `TopSize`, `NewestIsTop`, `TopBehind`
(behind a first part of the list the count starts again) and `WindowIs`. `TypeInv` adds to the
types that a walk has skipped no more records than lie behind its cursor. On it stand four
invariants. `WindowInv`: an undisturbed walk has skipped what the offset covers of what it has read and
collected the rest; the walk that ends has then a first part of the window, and `WalksAreWindows`
follows from the reason for which it ended. `OnceInv`: while nothing is stored, the list up to a match is no longer
than the offset of the next walk (`PageOnce`, `DoneOnce` and `ScanOnce` for the places of the search), so no record is
matched twice and the length of the vector is the number of records in it. `FindInv`, which holds under every interleaving with other clients:
a record that `find_document` owes (of the name, there since the beginning, unmatched, its read not
failed, no newer record removed) is collected, on the page being scanned, or still ahead of every
offset: what the walks have taken so far is never more than what lies before the record
(`Ahead`, `NotOver`). An empty page then means that nothing is owed, which is `FoundUnlessMoved`. `NewestInv`: undisturbed,
the records looked at are a first part of the list and the matches are those of them that have the
name; hence `NewestFound`. Also `TypeCorrect`. Assumed is that limits and offsets are natural
numbers, that a page has room for a record, and that a record's name is in its summary or its bytes.

Type correctness of `StreamHandles`, `AgentIdentity`, `DocumentSync`, `RestCalls`, `SignerKeys` and `PageWalk` is proved and in no run.

Every safety property of the passing runs is proved. Only model-checked is liveness (`CloseReturns`,
`RepliesAreSent`, `GivesUpOrListens`, `ConsumedIsHandled`, `CallsReturn`), which is out of the prover's reach
like `ENABLED`, and the two properties that are violated. No module here declares a `RECURSIVE` operator.

## 5. What is not modelled

- Time: grace periods, backoffs, idle timeouts and refresh intervals are steps that may
  happen at any moment.
- Cryptography and schemas: the `jacs` crate's verdicts are inputs of the models.
- What the server does with a request beyond accepting, refusing or losing it, except that it keeps
  one effect per idempotency key, as the client's use of keys relies on.
- SQLite errors other than the primary-key conflict: a locked or full database
  raises and ends the worker, as `Crash` does.
- Of the local identity: the creation of agents, signing, and `load_simple_agent`, whose
  second lock (`lock_jacs_config_env`) guards the process environment and is taken
  after the agent's.
- A poll of the core that never returns (the Go fairness excludes it): Close then waits
  with it.
- Of the remote provider: uploads of files and images (one POST each), and field queries, which answer an
  error. `verify_by_id` and `verify_dns` add a fetch before the steps `SignerKeys` has.
- Of the local store: JSON documents, search, and the SQLite and file backends of the `jacs` crate.
- Of the REST client: methods that only read, and the shape of requests and answers.
- The binding core outside the handle table, the FFI shims, the MCP server and the rest of the command line
  parse, forward one call and serialise its answer; mail, MIME and A2A are sequential formatting and
  signing over JACS. Their state, where they have any, is that of the modules above: there is no order of
  steps in them for a model checker to explore. They are most of the repository's lines.
- The Python and Node generators poll the handle table like the Go loop, from a single caller,
  without a lifecycle lock.

## 6. Plan

Done: every module of section 2, with runs and theorems for all.

Left:

1. Python and Node generators over `StreamHandles`, sharing the properties of `GoStream`.
2. `AgentIdentity`: signing with an agent loaded from disk, and the environment lock.
