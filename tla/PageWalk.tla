--------------------------------- MODULE PageWalk ---------------------------------
(***************************************************************************)
(* The remote provider's walks over the server's list of records, page by   *)
(* page behind a cursor: the capped walks of queries and of searches, the   *)
(* walk of summaries, and find_document, which looks for a name by taking   *)
(* one summaries walk after another from a growing offset, while other      *)
(* clients store and remove records.                                        *)
(***************************************************************************)
EXTENDS Naturals, FiniteSets, FiniteSetsExt

CONSTANTS
    MaxRecords,  \* bound: records ever stored; a later one has a larger number
    PageMax,     \* records in a page of the server, at most
    Cap,         \* AUTO_PAGE_CAP
    Named,       \* records of the name that find_document looks for
    InSummary,   \* records whose summary carries their name
    InBytes,     \* records whose name is in their bytes only
    Limits, Offsets  \* what callers ask for

ASSUME PageAssumption == PageMax \in Nat \ {0} /\ Cap \in Nat /\ MaxRecords \in Nat
ASSUME LimitAssumption == Limits \subseteq Nat /\ Offsets \subseteq Nat
ASSUME NameAssumption == Named \subseteq InSummary \cup InBytes

VARIABLES
    stored,  \* how many records were ever stored
    live,    \* the records on the server's list, which is read newest first
    walk,    \* the walk that runs, by itself or for find_document
    find,    \* find_document
    gone,    \* history: records removed since the operation began
    grew,    \* history: a record was stored since then
    calm     \* history: nothing was stored or removed since then, and no read failed

wvars == <<stored, live, walk, find, gone, grew, calm>>

Top(S, k) == {x \in S : Cardinality({y \in S : y > x}) < k}
Window(S, limit, offset) == Top(S, offset + limit) \ Top(S, offset)

Least(a, b) == IF a < b THEN a ELSE b

Kinds == {"keys", "search", "summaries"}

NoWalk == [pc |-> "idle", kind |-> "summaries", limit |-> 0, offset |-> 0,
           cursor |-> MaxRecords + 1, skipped |-> 0, got |-> {}]
NoFind == [pc |-> "idle", limit |-> 0, offset |-> 0, scan |-> {}, matches |-> {}, pushed |-> 0,
           candidate |-> FALSE, metadata |-> FALSE, failed |-> {}, base |-> {}]

Init ==
    /\ stored \in 0..MaxRecords
    /\ live = 1..stored
    /\ walk = NoWalk /\ find = NoFind
    /\ gone = {} /\ grew = FALSE /\ calm = TRUE

-----------------------------------------------------------------------------
Busy == find.pc \notin {"idle", "done", "unsupported"} \/ walk.pc = "page"

Fresh == gone' = {} /\ grew' = FALSE /\ calm' = TRUE

Walk(kind, limit, offset) ==
    walk' = [NoWalk EXCEPT !.pc = "page", !.kind = kind, !.limit = limit, !.offset = offset]

Begin(kind, limit, offset) ==
    /\ ~Busy
    /\ Walk(kind, limit, offset)
    /\ find' = [NoFind EXCEPT !.base = live]
    /\ Fresh
    /\ UNCHANGED <<stored, live>>

\* query_by_type and query_by_agent: the capped walk.
QueryKeys(limit, offset) == Begin("keys", limit, offset)

\* search_documents: capped too, but an empty page does not end it.
SearchDocuments(limit, offset) == Begin("search", limit, offset)

\* list_doc_summaries: no cap; nothing is asked for a limit of 0.
ListSummaries(limit, offset) == limit > 0 /\ Begin("summaries", limit, offset)

After == {x \in live : x < walk.cursor}
Page == Top(After, IF walk.limit = 0 THEN 1 ELSE Least(walk.limit, PageMax))

\* How much of the page the offset still skips.
ToSkip ==
    IF walk.skipped < walk.offset THEN Least(walk.offset - walk.skipped, Cardinality(Page)) ELSE 0

\* What is collected is then `got`, and the walk goes on from the end of the page or
\* ends. The server gives a cursor when more follows, and may give one when nothing
\* does: a search then asks again.
Turn(got) ==
    LET skipped == walk.skipped + ToSkip
        goOn    == /\ Cardinality(got) < walk.limit
                   /\ Page # {} \/ walk.kind = "search"
                   /\ skipped <= Cap \/ walk.kind = "summaries"
        cursor  == IF Page = {} THEN walk.cursor ELSE Min(Page)
    IN  /\ walk.pc = "page"
        /\ \/ /\ goOn
              /\ walk' = [walk EXCEPT !.cursor = cursor, !.skipped = skipped, !.got = got]
           \/ /\ goOn => Page = After
              /\ walk' = [walk EXCEPT !.pc = "done", !.skipped = skipped,
                                      !.got = Top(got, walk.limit)]
        /\ UNCHANGED <<stored, live, find, gone, grew, calm>>

\* Fault: what is left of the page in which the offset falls is dropped.
NextPageDropsRest == Turn(IF ToSkip > 0 THEN walk.got ELSE walk.got \cup Page)

\* One page of a walk: the rest of it after what the offset skips.
NextPage == Turn(walk.got \cup (Page \ Top(Page, ToSkip)))

-----------------------------------------------------------------------------
\* find_document for a name: summaries by the hundred, from the offset reached.
FindDocument(limit) ==
    /\ ~Busy
    /\ limit > 0
    /\ find' = [NoFind EXCEPT !.pc = "list", !.limit = limit, !.base = live]
    /\ Walk("summaries", PageMax, 0)
    /\ Fresh
    /\ UNCHANGED <<stored, live>>

\* An empty page ends the search. Without a match, but with records none of which was
\* seen to have a name, it is the error BackendUnsupported.
FindPage ==
    /\ find.pc = "list" /\ walk.pc = "done"
    /\ find' = IF walk.got # {}
               THEN [find EXCEPT !.pc = "scan", !.scan = walk.got,
                                 !.offset = @ + Cardinality(walk.got)]
               ELSE IF find.matches # {} \/ find.metadata \/ ~find.candidate
               THEN [find EXCEPT !.pc = "done"]
               ELSE [find EXCEPT !.pc = "unsupported"]
    /\ walk' = NoWalk
    /\ UNCHANGED <<stored, live, gone, grew, calm>>

\* Matches are pushed without a look at those already there: a record that is met again
\* is counted towards the limit again.
Scanned(x, found) ==
    LET match  == found /\ x \in Named
        pushed == IF match THEN find.pushed + 1 ELSE find.pushed
    IN  [find EXCEPT !.scan = @ \ {x}, !.candidate = TRUE, !.metadata = @ \/ found,
                     !.matches = IF match THEN @ \cup {x} ELSE @, !.pushed = pushed,
                     !.pc = IF pushed >= find.limit THEN "done" ELSE @]

\* Fault: the bytes of a record are never read for its name.
ScanOnlySummaries ==
    /\ find.pc = "scan" /\ find.scan # {}
    /\ LET x == Max(find.scan) IN find' = Scanned(x, x \in InSummary)
    /\ UNCHANGED <<stored, live, walk, gone, grew, calm>>

\* Fault: the records of a page are looked at in the opposite order.
ScanOldestFirst ==
    LET x == Min(find.scan) IN
    /\ find.pc = "scan" /\ find.scan # {}
    /\ x \in InSummary \/ x \in live
    /\ find' = Scanned(x, x \in InSummary \cup InBytes)
    /\ UNCHANGED <<stored, live, walk, gone, grew, calm>>

\* A record of the page: its name is in the summary, or its bytes are read for it; a
\* read that fails is passed over.
Scan ==
    LET x == Max(find.scan) IN
    /\ find.pc = "scan" /\ find.scan # {}
    /\ \/ /\ x \in InSummary \/ x \in live
          /\ find' = Scanned(x, x \in InSummary \cup InBytes)
          /\ UNCHANGED calm
       \/ /\ x \notin InSummary
          /\ find' = [Scanned(x, FALSE) EXCEPT !.failed = @ \cup {x}]
          /\ calm' = FALSE
    /\ UNCHANGED <<stored, live, walk, gone, grew>>

ScanEnd ==
    /\ find.pc = "scan" /\ find.scan = {}
    /\ find' = [find EXCEPT !.pc = "list"]
    /\ Walk("summaries", PageMax, find.offset)
    /\ UNCHANGED <<stored, live, gone, grew, calm>>

-----------------------------------------------------------------------------
\* Other clients.
Store ==
    /\ stored < MaxRecords
    /\ stored' = stored + 1
    /\ live' = live \cup {stored'}
    /\ grew' = TRUE /\ calm' = FALSE
    /\ UNCHANGED <<walk, find, gone>>

Remove(x) ==
    /\ live' = live \ {x}
    /\ gone' = gone \cup {x}
    /\ calm' = FALSE
    /\ UNCHANGED <<stored, walk, find, grew>>

Next ==
    \/ \E limit \in Limits, offset \in Offsets :
          \/ QueryKeys(limit, offset) \/ SearchDocuments(limit, offset)
          \/ ListSummaries(limit, offset)
    \/ \E limit \in Limits : FindDocument(limit)
    \/ NextPage \/ FindPage \/ Scan \/ ScanEnd
    \/ Store
    \/ \E x \in live : Remove(x)

Spec == Init /\ [][Next]_wvars

-----------------------------------------------------------------------------
Records == 1..MaxRecords

\* The types, and a walk has collected nothing from behind its cursor.
TypeOK ==
    /\ stored \in 0..MaxRecords
    /\ live \subseteq 1..stored
    /\ walk \in [pc : {"idle", "page", "done"}, kind : Kinds, limit : Nat, offset : Nat,
                 cursor : 1..(MaxRecords + 1), skipped : 0..MaxRecords, got : SUBSET Records]
    /\ find \in [pc : {"idle", "list", "scan", "done", "unsupported"}, limit : Nat,
                 offset : Nat, scan : SUBSET Records, matches : SUBSET Records,
                 pushed : Nat, candidate : BOOLEAN, metadata : BOOLEAN, failed : SUBSET Records,
                 base : SUBSET Records]
    /\ walk.pc = "page" => \A x \in walk.got : x >= walk.cursor
    /\ gone \subseteq Records
    /\ grew \in BOOLEAN /\ calm \in BOOLEAN

\* A walk that nobody disturbs returns the records from its offset on, as many as its
\* limit, wherever the offset falls in a page; a capped walk returns a first part of
\* them, and all if its offset is within the cap.
WalkIsWindow ==
    walk.pc = "done" /\ calm =>
        LET all == Window(live, walk.limit, walk.offset)
        IN  /\ walk.got = Top(all, Cardinality(walk.got))
            /\ walk.got = all \/ (walk.kind # "summaries" /\ walk.offset > Cap)

\* A document that is there from beginning to end is found: find_document passes a
\* record of the name over only when it has enough others, when the read of its bytes
\* failed, when a newer record was removed and moved it into the part of the list that
\* was already read, or when a record was stored meanwhile and moved a match into the
\* next page, where it was counted towards the limit a second time. An upsert by name
\* then makes a second document.
FindMisses ==
    find.pc \in {"done", "unsupported"} /\ find.limit > 0 =>
        \A x \in (Named \cap find.base) \ (gone \cup find.matches) :
            \/ Cardinality(find.matches) >= find.limit
            \/ x \in find.failed
            \/ \E y \in gone : y > x
            \/ grew /\ find.pushed >= find.limit

\* Undisturbed, find_document returns the newest records of the name, as many as its
\* limit: callers that ask for one take it for the current document.
FindsNewest ==
    find.pc \in {"done", "unsupported"} /\ find.limit > 0 /\ calm =>
        find.matches = Top(Named \cap live, find.limit)
=============================================================================
