----------------------------- MODULE PageWalkProofs -----------------------------
(***************************************************************************)
(* Theorems of PageWalk, for any number of records, any page, cap, limit    *)
(* and offset: the walks keep their types, an undisturbed walk returns the  *)
(* window that was asked for, find_document counts no record twice while    *)
(* nothing is stored, and it misses no document that stays on the list,     *)
(* unless one of the named things happens.                                  *)
(***************************************************************************)
EXTENDS PageWalk, FiniteSetTheorems, WellFoundedInduction, TLAPS

Above(S, x) == {y \in S : y > x}

\* S begins, from the newest record down, with U.
Newest(U, S) == U \subseteq S /\ \A x \in U, y \in S : y > x => y \in U

-----------------------------------------------------------------------------
\* Sets of records.

LEMMA RecordNumbers ==
    /\ MaxRecords \in Nat
    /\ \A x \in Records : x \in Nat /\ 1 <= x /\ x <= MaxRecords
<1> QED
    BY PageAssumption DEF Records

LEMMA RecordSets ==
    ASSUME NEW S \in SUBSET Records
    PROVE  IsFiniteSet(S) /\ Cardinality(S) \in Nat /\ (Cardinality(S) = 0 <=> S = {})
<1>1. IsFiniteSet(Records)
    BY PageAssumption, FS_Interval DEF Records
<1>2. IsFiniteSet(S)
    BY <1>1, FS_Subset
<1> QED
    BY <1>2, FS_CardinalityType, FS_EmptySet

LEMMA Smaller ==
    ASSUME NEW S \in SUBSET Records, NEW T \in SUBSET S
    PROVE  /\ Cardinality(T) \in Nat /\ Cardinality(S) \in Nat
           /\ Cardinality(T) <= Cardinality(S)
           /\ T # S => Cardinality(T) < Cardinality(S)
<1>1. Cardinality(T) \in Nat /\ Cardinality(S) \in Nat /\ IsFiniteSet(S)
    BY RecordSets
<1>2. Cardinality(T) <= Cardinality(S) /\ (Cardinality(S) = Cardinality(T) => S = T)
    BY <1>1, FS_Subset
<1> QED
    BY <1>1, <1>2

LEMMA Disjoint ==
    ASSUME NEW S \in SUBSET Records, NEW T \in SUBSET Records, S \cap T = {}
    PROVE  Cardinality(S \cup T) = Cardinality(S) + Cardinality(T)
<1>1. Cardinality(S \cup T) = Cardinality(S) + Cardinality(T) - Cardinality(S \cap T)
    BY RecordSets, FS_Union
<1>2. Cardinality(S \cap T) = 0
    BY FS_EmptySet
<1> QED
    BY <1>1, <1>2, RecordSets

LEMMA Without ==
    ASSUME NEW S \in SUBSET Records, NEW T \in SUBSET S
    PROVE  Cardinality(S \ T) = Cardinality(S) - Cardinality(T)
<1>1. S \cap T = T
    OBVIOUS
<1> QED
    BY <1>1, RecordSets, FS_Difference

LEMMA MinExists ==
    ASSUME NEW S \in SUBSET Records, S # {}
    PROVE  Min(S) \in S /\ \A x \in S : Min(S) <= x
<1> DEFINE Less == OpToRel(<, Nat)
<1>1. S \subseteq Nat
    BY RecordNumbers
<1>2. \A x, y \in Nat : x < y => <<x, y>> \in Less
    BY DEF OpToRel
<1>3. \E x \in S : \A y \in S : ~(<<y, x>> \in Less)
    BY <1>1, WFMin, NatLessThanWellFounded
<1> HIDE DEF Less
<1>4. PICK m \in S : \A y \in S : ~(y < m)
    BY <1>1, <1>2, <1>3
<1>5. \A y \in S : m <= y
    BY <1>1, <1>4
<1> QED
    BY <1>5 DEF Min

LEMMA MaxExists ==
    ASSUME NEW S \in SUBSET Records, S # {}
    PROVE  Max(S) \in S /\ \A x \in S : Max(S) >= x
<1> DEFINE R == {MaxRecords - x : x \in S}
           Less == OpToRel(<, Nat)
<1>1. R # {} /\ R \subseteq Nat
    <2>1. \A x \in S : MaxRecords - x \in Nat
        BY RecordNumbers
    <2> QED
        BY <2>1
<1>2. \A x, y \in Nat : x < y => <<x, y>> \in Less
    BY DEF OpToRel
<1> HIDE DEF R
<1>3. \E r \in R : \A q \in R : ~(<<q, r>> \in Less)
    BY <1>1, WFMin, NatLessThanWellFounded
<1> HIDE DEF Less
<1>4. PICK r \in R : \A q \in R : ~(q < r)
    BY <1>1, <1>2, <1>3
<1>5. PICK m \in S : r = MaxRecords - m
    BY DEF R
<1>6. \A x \in S : m >= x
    <2> TAKE x \in S
    <2>1. MaxRecords - x \in R
        BY DEF R
    <2>2. ~(MaxRecords - x < MaxRecords - m)
        BY <1>4, <1>5, <2>1
    <2> QED
        BY <2>2, RecordNumbers
<1> QED
    BY <1>5, <1>6 DEF Max

-----------------------------------------------------------------------------
\* The first k records of a list.

LEMMA AboveSets ==
    ASSUME NEW S \in SUBSET Records, NEW x
    PROVE  Above(S, x) \in SUBSET S /\ Above(S, x) \in SUBSET Records
                /\ Cardinality(Above(S, x)) \in Nat
<1>1. Above(S, x) \in SUBSET S
    BY DEF Above
<1> QED
    BY <1>1, RecordSets

LEMMA TopIsFirst ==
    ASSUME NEW S \in SUBSET Records, NEW k \in Nat
    PROVE  /\ Newest(Top(S, k), S)
           /\ Top(S, k) = {x \in S : Cardinality(Above(S, x)) < k}
<1>1. Top(S, k) = {x \in S : Cardinality(Above(S, x)) < k}
    BY DEF Top, Above
<1>2. ASSUME NEW x \in Top(S, k), NEW y \in S, y > x PROVE y \in Top(S, k)
    <2>1. Above(S, y) \subseteq Above(S, x)
        BY <1>1, <1>2, RecordNumbers DEF Above
    <2>2. Cardinality(Above(S, y)) <= Cardinality(Above(S, x))
        BY <2>1, AboveSets, Smaller
    <2>3. x \in S /\ Cardinality(Above(S, x)) < k
        BY <1>1, <1>2
    <2>4. Cardinality(Above(S, x)) \in Nat /\ Cardinality(Above(S, y)) \in Nat
        BY AboveSets
    <2>5. Cardinality(Above(S, y)) < k
        BY <2>2, <2>3, <2>4
    <2> QED
        BY <1>1, <1>2, <2>5
<1> QED
    BY <1>1, <1>2 DEF Newest

\* A first part that leaves something out lies above what is left.
LEMMA RestBelow ==
    ASSUME NEW S \in SUBSET Records, NEW U \in SUBSET S, Newest(U, S)
    PROVE  \A x \in S \ U : U \subseteq Above(S, x)
<1> QED
    BY RecordNumbers DEF Newest, Above

LEMMA NewestIsTop ==
    ASSUME NEW S \in SUBSET Records, NEW U \in SUBSET S, Newest(U, S)
    PROVE  Top(S, Cardinality(U)) = U
<1>0. U \in SUBSET Records /\ Cardinality(U) \in Nat
    BY RecordSets
<1>1. ASSUME NEW x \in U PROVE Cardinality(Above(S, x)) < Cardinality(U)
    <2>1. Above(S, x) \subseteq U /\ x \notin Above(S, x)
        BY RecordNumbers DEF Above, Newest
    <2> QED
        BY <1>0, <2>1, Smaller
<1>2. ASSUME NEW x \in S \ U PROVE ~(Cardinality(Above(S, x)) < Cardinality(U))
    <2>1. U \subseteq Above(S, x)
        BY RestBelow
    <2>2. Cardinality(U) <= Cardinality(Above(S, x))
        BY <2>1, AboveSets, Smaller
    <2> QED
        BY <1>0, <2>2, AboveSets
<1> QED
    BY <1>0, <1>1, <1>2, TopIsFirst

LEMMA TopSize ==
    ASSUME NEW S \in SUBSET Records, NEW k \in Nat
    PROVE  /\ Top(S, k) \in SUBSET S /\ Top(S, k) \in SUBSET Records
           /\ Cardinality(Top(S, k)) \in Nat
           /\ Cardinality(Top(S, k)) <= k
           /\ Top(S, k) # S => Cardinality(Top(S, k)) = k
           /\ k > 0 /\ S # {} => Top(S, k) # {}
<1> DEFINE U == Top(S, k)
<1>1. U \in SUBSET S /\ U \in SUBSET Records /\ Cardinality(U) \in Nat /\ Newest(U, S)
    BY TopIsFirst, RecordSets DEF Newest
<1>2. \A x \in S : x \in U <=> Cardinality(Above(S, x)) < k
    BY TopIsFirst
<1> HIDE DEF U
<1>3. Cardinality(U) <= k
    <2>1. CASE U = {}
        BY <1>1, <2>1, RecordSets
    <2>2. CASE U # {}
        <3>1. Min(U) \in U /\ \A x \in U : Min(U) <= x
            BY <1>1, <2>2, MinExists
        <3>2. U \subseteq Above(S, Min(U)) \cup {Min(U)}
            BY <1>1, <3>1, RecordNumbers DEF Above
        <3>3. /\ Cardinality(Above(S, Min(U))) < k /\ Cardinality(Above(S, Min(U))) \in Nat
              /\ Min(U) \notin Above(S, Min(U)) /\ Above(S, Min(U)) \in SUBSET Records
              /\ Min(U) \in Records
            BY <1>1, <1>2, <3>1, AboveSets, RecordNumbers DEF Above
        <3>4. Cardinality(Above(S, Min(U)) \cup {Min(U)}) = Cardinality(Above(S, Min(U))) + 1
            BY <3>3, RecordSets, FS_AddElement
        <3>5. Cardinality(U) <= Cardinality(Above(S, Min(U)) \cup {Min(U)})
            BY <3>2, <3>3, Smaller
        <3> QED
            BY <1>1, <3>3, <3>4, <3>5
    <2> QED
        BY <2>1, <2>2
<1>4. ASSUME U # S PROVE Cardinality(U) >= k
    <2>1. S \ U # {} /\ S \ U \in SUBSET Records
        BY <1>1, <1>4
    <2>2. Max(S \ U) \in S \ U /\ \A x \in S \ U : Max(S \ U) >= x
        BY <2>1, MaxExists
    <2>3. Above(S, Max(S \ U)) \subseteq U
        BY <1>1, <2>1, <2>2, RecordNumbers DEF Above, Newest
    <2>4. Cardinality(Above(S, Max(S \ U))) <= Cardinality(U)
        BY <1>1, <2>3, Smaller
    <2>5. ~(Cardinality(Above(S, Max(S \ U))) < k)
        BY <1>2, <2>2
    <2> QED
        BY <1>1, <2>4, <2>5, AboveSets
<1>5. ASSUME k > 0, S # {} PROVE U # {}
    <2>1. Max(S) \in S /\ \A x \in S : Max(S) >= x
        BY <1>5, MaxExists
    <2>2. Above(S, Max(S)) = {}
        BY <2>1, RecordNumbers DEF Above
    <2>3. Max(S) \in U
        BY <1>2, <1>5, <2>1, <2>2, FS_EmptySet
    <2> QED
        BY <2>3
<1> QED
    BY <1>1, <1>3, <1>4, <1>5 DEF U

\* Behind a first part U of the list the count starts again.
LEMMA TopBehind ==
    ASSUME NEW S \in SUBSET Records, NEW U \in SUBSET S, Newest(U, S), NEW x \in S \ U
    PROVE  /\ Above(S, x) = U \cup Above(S \ U, x)
           /\ Cardinality(Above(S, x)) = Cardinality(U) + Cardinality(Above(S \ U, x))
<1>1. U \subseteq Above(S, x)
    BY RestBelow
<1>2. Above(S, x) = U \cup Above(S \ U, x) /\ U \cap Above(S \ U, x) = {}
    BY <1>1 DEF Above
<1>3. U \in SUBSET Records /\ Above(S \ U, x) \in SUBSET Records
    BY DEF Above
<1> QED
    BY <1>2, <1>3, Disjoint

-----------------------------------------------------------------------------
\* One page of a walk.

Collected == walk.got \cup (Page \ Top(Page, ToSkip))
Passed == walk.skipped + ToSkip

\* What the walk has read, or was stored meanwhile where the walk has been.
Read == {x \in live : x >= walk.cursor}

\* An offset is counted on records that are behind the cursor.
SkippedRead == walk.pc = "page" => walk.skipped <= MaxRecords + 1 - walk.cursor

TypeInv == TypeOK /\ SkippedRead

LEMMA WalkTypes ==
    ASSUME TypeOK
    PROVE  /\ live \in SUBSET Records /\ stored \in Nat
           /\ walk.cursor \in Nat /\ walk.skipped \in Nat /\ walk.limit \in Nat /\ walk.offset \in Nat
           /\ walk.got \in SUBSET Records /\ Cardinality(walk.got) \in Nat
           /\ walk.cursor <= MaxRecords + 1 /\ walk.cursor >= 1
           /\ Read \in SUBSET Records /\ Cardinality(Read) \in Nat
<1>1. live \in SUBSET Records /\ stored \in Nat
    BY PageAssumption DEF TypeOK, Records
<1>2. /\ walk.cursor \in 1..(MaxRecords + 1) /\ walk.skipped \in 0..MaxRecords
      /\ walk.limit \in Nat /\ walk.offset \in Nat /\ walk.got \in SUBSET Records
    BY DEF TypeOK
<1>3. Read \in SUBSET Records
    BY <1>1 DEF Read
<1> QED
    BY <1>1, <1>2, <1>3, RecordSets, PageAssumption

LEMMA PageTypes ==
    ASSUME TypeOK
    PROVE  /\ After \in SUBSET live /\ After \in SUBSET Records
           /\ Page \in SUBSET After /\ Page \in SUBSET Records /\ Cardinality(Page) \in Nat
           /\ Newest(Page, After) /\ (Page = {} => After = {})
           /\ Page # {} => Min(Page) \in Page /\ \A x \in Page : Min(Page) <= x
           /\ \A x \in Page : x < walk.cursor
<1> DEFINE k == IF walk.limit = 0 THEN 1 ELSE Least(walk.limit, PageMax)
<1>1. After \in SUBSET live /\ After \in SUBSET Records /\ \A x \in After : x < walk.cursor
    BY WalkTypes DEF After
<1>2. k \in Nat /\ k > 0
    BY WalkTypes, PageAssumption DEF Least
<1>3. Page = Top(After, k)
    BY DEF Page
<1> HIDE DEF k
<1>4. /\ Page \in SUBSET After /\ Page \in SUBSET Records /\ Cardinality(Page) \in Nat
      /\ Page = {} => After = {}
      /\ Newest(Page, After)
    BY <1>1, <1>2, <1>3, TopSize, TopIsFirst
<1> QED
    BY <1>1, <1>4, MinExists

LEMMA SkipTypes ==
    ASSUME TypeOK
    PROVE  /\ ToSkip \in Nat /\ ToSkip <= Cardinality(Page)
           /\ Top(Page, ToSkip) \in SUBSET Page /\ Cardinality(Top(Page, ToSkip)) = ToSkip
           /\ walk.skipped < walk.offset /\ ToSkip < Cardinality(Page)
                 => walk.skipped + ToSkip = walk.offset
           /\ Collected \in SUBSET Records /\ Cardinality(Collected) \in Nat
           /\ Passed \in Nat
<1>1. ToSkip \in Nat /\ ToSkip <= Cardinality(Page)
    BY WalkTypes, PageTypes DEF ToSkip, Least
<1>2. /\ Top(Page, ToSkip) \in SUBSET Page /\ Cardinality(Top(Page, ToSkip)) <= ToSkip
      /\ Top(Page, ToSkip) # Page => Cardinality(Top(Page, ToSkip)) = ToSkip
      /\ Cardinality(Top(Page, ToSkip)) \in Nat
    BY <1>1, PageTypes, TopSize
<1>3. Cardinality(Top(Page, ToSkip)) = ToSkip
    BY <1>1, <1>2, PageTypes
<1>4. walk.skipped < walk.offset /\ ToSkip < Cardinality(Page) => walk.skipped + ToSkip = walk.offset
    BY WalkTypes, PageTypes DEF ToSkip, Least
<1>5. Collected \in SUBSET Records
    BY WalkTypes, PageTypes DEF Collected
<1> QED
    BY <1>1, <1>2, <1>3, <1>4, <1>5, WalkTypes, RecordSets DEF Passed

\* A page ends at its oldest record, so it is no longer than what the cursor moves over.
LEMMA PageLength ==
    ASSUME TypeOK, Page # {}
    PROVE  Cardinality(Page) <= walk.cursor - Min(Page)
<1> DEFINE I == Min(Page)..(walk.cursor - 1)
<1>1. /\ Min(Page) \in Page /\ Min(Page) \in Nat /\ walk.cursor \in Nat
      /\ \A x \in Page : x \in Nat /\ Min(Page) <= x /\ x < walk.cursor
    BY WalkTypes, PageTypes, RecordNumbers
<1>2. Page \subseteq I
    BY <1>1
<1>3. IsFiniteSet(I) /\ Cardinality(I) = walk.cursor - Min(Page)
    <2>1. Min(Page) \in Int /\ walk.cursor - 1 \in Int /\ ~(Min(Page) > walk.cursor - 1)
        BY <1>1
    <2>2. IsFiniteSet(I) /\ Cardinality(I) = (walk.cursor - 1) - Min(Page) + 1
        BY <2>1, FS_Interval
    <2> QED
        BY <1>1, <2>2
<1> HIDE DEF I
<1> QED
    BY <1>2, <1>3, FS_Subset

\* NextPage, as a walk that goes on and one that ends.
GoesOn ==
    /\ Cardinality(Collected) < walk.limit /\ Page # {}
    /\ walk' = [walk EXCEPT !.cursor = Min(Page), !.skipped = Passed, !.got = Collected]

Ends ==
    /\ \/ Cardinality(Collected) >= walk.limit
       \/ Page = {} \/ Page = After
       \/ walk.kind # "summaries" /\ Passed > Cap
    /\ walk' = [walk EXCEPT !.pc = "done", !.skipped = Passed, !.got = Top(Collected, walk.limit)]

LEMMA NextPageIs ==
    ASSUME TypeOK, NextPage
    PROVE  /\ walk.pc = "page" /\ UNCHANGED <<stored, live, find, gone, grew, calm>>
           /\ GoesOn \/ Ends \/ UNCHANGED walk
<1>1. Cardinality(Collected) \in Nat /\ Passed \in Nat /\ walk.limit \in Nat /\ Cap \in Nat
    BY SkipTypes, WalkTypes, PageAssumption
<1> DEFINE goOn == /\ Cardinality(Collected) < walk.limit
                   /\ Page # {} \/ walk.kind = "search"
                   /\ Passed <= Cap \/ walk.kind = "summaries"
           cursor == IF Page = {} THEN walk.cursor ELSE Min(Page)
<1>2. /\ walk.pc = "page" /\ UNCHANGED <<stored, live, find, gone, grew, calm>>
      /\ \/ goOn /\ walk' = [walk EXCEPT !.cursor = cursor, !.skipped = Passed, !.got = Collected]
         \/ /\ goOn => Page = After
            /\ walk' = [walk EXCEPT !.pc = "done", !.skipped = Passed, !.got = Top(Collected, walk.limit)]
    BY DEF NextPage, Turn, Collected, Passed
<1>3. ASSUME Page = {} PROVE Passed = walk.skipped /\ Collected = walk.got
    <2>1. ToSkip = 0
        BY <1>3, SkipTypes, FS_EmptySet
    <2> QED
        BY <1>3, <2>1, WalkTypes DEF Passed, Collected
<1>4. CASE goOn /\ Page = {} /\ walk' = [walk EXCEPT !.cursor = cursor, !.skipped = Passed, !.got = Collected]
    <2>1. walk' = [walk EXCEPT !.cursor = walk.cursor, !.skipped = walk.skipped, !.got = walk.got]
        BY <1>3, <1>4
    <2>2. walk' = walk
        BY <2>1 DEF TypeOK
    <2> QED
        BY <1>2, <2>2
<1>5. CASE goOn /\ Page # {} /\ walk' = [walk EXCEPT !.cursor = cursor, !.skipped = Passed, !.got = Collected]
    BY <1>2, <1>5 DEF GoesOn
<1>6. CASE (goOn => Page = After)
           /\ walk' = [walk EXCEPT !.pc = "done", !.skipped = Passed, !.got = Top(Collected, walk.limit)]
    BY <1>1, <1>2, <1>6 DEF Ends
<1> QED
    BY <1>2, <1>4, <1>5, <1>6

-----------------------------------------------------------------------------
\* Types.

WalkType == [pc : {"idle", "page", "done"}, kind : Kinds, limit : Nat, offset : Nat,
             cursor : 1..(MaxRecords + 1), skipped : 0..MaxRecords, got : SUBSET Records]
FindType == [pc : {"idle", "list", "scan", "done", "unsupported"}, limit : Nat,
             offset : Nat, scan : SUBSET Records, matches : SUBSET Records,
             pushed : Nat, candidate : BOOLEAN, metadata : BOOLEAN, failed : SUBSET Records,
             base : SUBSET Records]

WalkInv ==
    /\ walk \in WalkType
    /\ walk.pc = "page" => \A x \in walk.got : x >= walk.cursor
    /\ SkippedRead

LEMMA TypeParts ==
    TypeInv <=> /\ stored \in 0..MaxRecords /\ live \subseteq 1..stored
                /\ WalkInv /\ find \in FindType
                /\ gone \subseteq Records /\ grew \in BOOLEAN /\ calm \in BOOLEAN
<1> QED
    BY DEF TypeInv, TypeOK, WalkInv, WalkType, FindType

LEMMA FreshWalk ==
    ASSUME NEW kind \in Kinds, NEW limit \in Nat, NEW offset \in Nat,
           Walk(kind, limit, offset)
    PROVE  WalkInv'
<1>1. MaxRecords + 1 \in 1..(MaxRecords + 1) /\ 0 \in 0..MaxRecords
    BY PageAssumption
<1>2. walk' = [pc |-> "page", kind |-> kind, limit |-> limit, offset |-> offset,
               cursor |-> MaxRecords + 1, skipped |-> 0, got |-> {}]
    BY DEF Walk, NoWalk
<1>3. walk' \in WalkType
    BY <1>1, <1>2 DEF WalkType
<1>4. walk'.got = {} /\ walk'.skipped = 0 /\ walk'.cursor = MaxRecords + 1
    BY <1>2
<1> QED
    BY <1>3, <1>4, PageAssumption DEF WalkInv, SkippedRead

LEMMA IdleWalk == walk' = NoWalk => WalkInv'
<1>1. MaxRecords + 1 \in 1..(MaxRecords + 1) /\ 0 \in 0..MaxRecords
    BY PageAssumption
<1> QED
    BY <1>1 DEF NoWalk, WalkInv, WalkType, SkippedRead, Kinds

\* The three walks that callers begin.
LEMMA Begins ==
    ASSUME NEW limit, NEW offset,
           \/ QueryKeys(limit, offset) \/ SearchDocuments(limit, offset)
           \/ ListSummaries(limit, offset)
    PROVE  \E kind \in Kinds : Begin(kind, limit, offset)
<1> QED
    BY DEF QueryKeys, SearchDocuments, ListSummaries, Kinds

LEMMA InitTypes == Init => TypeInv
<1> SUFFICES ASSUME Init PROVE TypeInv
    OBVIOUS
<1>1. MaxRecords + 1 \in 1..(MaxRecords + 1) /\ 0 \in 0..MaxRecords
    BY PageAssumption
<1>2. WalkInv
    BY <1>1 DEF Init, NoWalk, WalkInv, WalkType, SkippedRead, Kinds
<1>3. find \in FindType
    BY DEF Init, NoFind, FindType
<1> QED
    BY <1>2, <1>3, TypeParts DEF Init

LEMMA StartTypes ==
    ASSUME TypeInv, NEW limit \in Limits, NEW offset \in Nat,
           NEW kind \in Kinds, Begin(kind, limit, offset) \/ FindDocument(limit)
    PROVE  TypeInv'
<1>1. limit \in Nat /\ PageMax \in Nat
    BY LimitAssumption, PageAssumption
<1>2. WalkInv'
    BY <1>1, FreshWalk DEF Begin, FindDocument, Kinds
<1>3. live \in SUBSET Records
    BY WalkTypes DEF TypeInv
<1>4. find' \in FindType
    <2>1. NoFind \in FindType
        BY DEF NoFind, FindType
    <2>2. [NoFind EXCEPT !.base = live] \in FindType
        BY <1>3, <2>1 DEF FindType
    <2>3. [NoFind EXCEPT !.pc = "list", !.limit = limit, !.base = live] \in FindType
        BY <1>1, <1>3, <2>1 DEF FindType
    <2> QED
        BY <2>2, <2>3 DEF Begin, FindDocument
<1>5. UNCHANGED <<stored, live>> /\ gone' = {} /\ grew' = FALSE /\ calm' = TRUE
    BY DEF Begin, FindDocument, Fresh
<1>6. stored' \in 0..MaxRecords /\ live' \subseteq 1..stored' /\ gone' \subseteq Records /\ grew' \in BOOLEAN /\ calm' \in BOOLEAN
    BY <1>5, TypeParts
<1> QED
    BY <1>2, <1>4, <1>6 DEF TypeInv, TypeOK, WalkInv, WalkType, FindType

LEMMA NextPageTypes ==
    ASSUME TypeInv, NextPage
    PROVE  TypeInv'
<1>0. TypeOK
    BY DEF TypeInv
<1>1. /\ walk.pc = "page" /\ UNCHANGED <<stored, live, find, gone, grew, calm>>
      /\ GoesOn \/ Ends \/ UNCHANGED walk
    BY <1>0, NextPageIs
<1>2. /\ walk \in WalkType /\ walk.skipped <= MaxRecords + 1 - walk.cursor
      /\ \A x \in walk.got : x >= walk.cursor
      /\ walk.cursor \in Nat /\ walk.cursor >= 1 /\ walk.cursor <= MaxRecords + 1
      /\ walk.skipped \in Nat /\ walk.limit \in Nat /\ MaxRecords \in Nat
    BY <1>0, <1>1, WalkTypes, PageAssumption DEF TypeInv, TypeOK, WalkType, SkippedRead
<1>3. Passed = walk.skipped + ToSkip /\ ToSkip \in Nat /\ ToSkip <= Cardinality(Page)
      /\ Collected \in SUBSET Records /\ Cardinality(Page) \in Nat
    BY <1>0, SkipTypes, PageTypes DEF Passed
<1>4. WalkInv'
    <2>1. CASE GoesOn
        <3>1. /\ Min(Page) \in Page /\ (\A x \in Page : Min(Page) <= x) /\ Min(Page) \in Nat
              /\ Min(Page) >= 1 /\ Min(Page) <= MaxRecords /\ Min(Page) < walk.cursor
              /\ Cardinality(Page) <= walk.cursor - Min(Page)
            BY <1>0, <2>1, PageTypes, PageLength, RecordNumbers DEF GoesOn
        <3>2. Passed <= MaxRecords + 1 - Min(Page) /\ Passed \in 0..MaxRecords
              /\ Min(Page) \in 1..(MaxRecords + 1)
            BY <1>2, <1>3, <3>1
        <3>3. \A x \in Collected : x >= Min(Page)
            BY <1>0, <1>2, <3>1, PageTypes, WalkTypes, RecordNumbers DEF Collected
        <3>4. walk' = [walk EXCEPT !.cursor = Min(Page), !.skipped = Passed, !.got = Collected]
            BY <2>1 DEF GoesOn
        <3>5. walk' \in WalkType
            BY <1>2, <1>3, <3>2, <3>4 DEF WalkType
        <3>6. walk'.cursor = Min(Page) /\ walk'.skipped = Passed /\ walk'.got = Collected
            BY <1>2, <3>4 DEF WalkType
        <3> QED
            BY <3>2, <3>3, <3>5, <3>6 DEF WalkInv, SkippedRead
    <2>2. CASE Ends
        <3>1. Passed \in 0..MaxRecords
            <4>1. CASE Page = {}
                <5>1. ToSkip = 0
                    BY <1>3, <4>1, FS_EmptySet
                <5> QED
                    BY <1>2, <1>3, <5>1
            <4>2. CASE Page # {}
                <5>1. Cardinality(Page) <= walk.cursor - Min(Page) /\ Min(Page) >= 1 /\ Min(Page) \in Nat
                    BY <1>0, <4>2, PageTypes, PageLength, RecordNumbers
                <5> QED
                    BY <1>2, <1>3, <5>1
            <4> QED
                BY <4>1, <4>2
        <3>2. Top(Collected, walk.limit) \in SUBSET Records
            BY <1>2, <1>3, TopSize
        <3> QED
            BY <1>2, <2>2, <3>1, <3>2 DEF Ends, WalkInv, SkippedRead, WalkType
    <2>3. CASE UNCHANGED walk
        BY <2>3 DEF TypeInv, TypeOK, WalkInv, WalkType, SkippedRead
    <2> QED
        BY <1>1, <2>1, <2>2, <2>3
<1>5. stored' \in 0..MaxRecords /\ live' \subseteq 1..stored' /\ gone' \subseteq Records /\ grew' \in BOOLEAN /\ calm' \in BOOLEAN
      /\ find' \in FindType
    BY <1>1, TypeParts
<1> QED
    BY <1>4, <1>5 DEF TypeInv, TypeOK, WalkInv, WalkType, FindType

LEMMA FindTypes ==
    ASSUME TypeInv, FindPage \/ Scan \/ ScanEnd
    PROVE  TypeInv'
<1>1. /\ stored \in 0..MaxRecords /\ live \subseteq 1..stored /\ WalkInv /\ find \in FindType
      /\ gone \subseteq Records /\ grew \in BOOLEAN /\ calm \in BOOLEAN
    BY TypeParts
<1>2. /\ find.offset \in Nat /\ find.scan \in SUBSET Records /\ find.matches \in SUBSET Records
      /\ find.failed \in SUBSET Records /\ walk.got \in SUBSET Records /\ find.pushed \in Nat
    BY <1>1 DEF FindType, WalkInv, WalkType
<1>3. WalkInv' /\ find' \in FindType
    <2>1. CASE FindPage
        <3>1. find.offset + Cardinality(walk.got) \in Nat
            BY <1>2, RecordSets
        <3>2. find' \in FindType
            BY <1>1, <1>2, <2>1, <3>1 DEF FindPage, FindType
        <3> QED
            BY <2>1, <3>2, IdleWalk DEF FindPage
    <2>2. CASE Scan
        <3>1. Max(find.scan) \in Records
            BY <1>2, <2>2, MaxExists DEF Scan
        <3>2. \A found \in BOOLEAN : Scanned(Max(find.scan), found) \in FindType
            <4> TAKE found \in BOOLEAN
            <4> DEFINE match == found /\ Max(find.scan) \in Named
                       m == IF match THEN find.matches \cup {Max(find.scan)} ELSE find.matches
                       n == IF match THEN find.pushed + 1 ELSE find.pushed
            <4>1. m \in SUBSET Records /\ n \in Nat
                BY <1>2, <3>1
            <4> HIDE DEF m, n
            <4> DEFINE known == find.metadata \/ found
                       next == IF n >= find.limit THEN "done" ELSE find.pc
            <4>2. known \in BOOLEAN
                OBVIOUS
            <4>3. next \in {"idle", "list", "scan", "done", "unsupported"}
                BY <1>1 DEF FindType
            <4>4. Scanned(Max(find.scan), found)
                    = [find EXCEPT !.scan = find.scan \ {Max(find.scan)}, !.candidate = TRUE,
                                   !.metadata = known, !.matches = m, !.pushed = n, !.pc = next]
                BY DEF Scanned, m, n
            <4> HIDE DEF known, next
            <4> QED
                BY <1>1, <1>2, <4>1, <4>2, <4>3, <4>4 DEF FindType
        <3>3. find' \in FindType
            <4>1. CASE find' = Scanned(Max(find.scan), Max(find.scan) \in InSummary \cup InBytes)
                <5>1. (Max(find.scan) \in InSummary \cup InBytes) \in BOOLEAN
                    OBVIOUS
                <5> QED
                    BY <3>2, <4>1, <5>1, Zenon
            <4>2. CASE find' = [Scanned(Max(find.scan), FALSE) EXCEPT
                                   !.failed = @ \cup {Max(find.scan)}]
                <5>1. Scanned(Max(find.scan), FALSE) \in FindType
                    BY <3>2
                <5> QED
                    BY <3>1, <4>2, <5>1 DEF FindType
            <4> QED
                BY <2>2, <4>1, <4>2 DEF Scan
        <3> QED
            BY <1>1, <2>2, <3>3 DEF Scan, WalkInv, SkippedRead
    <2>3. CASE ScanEnd
        <3>1. find' \in FindType
            BY <1>1, <2>3 DEF ScanEnd, FindType
        <3>2. WalkInv'
            BY <1>2, <2>3, FreshWalk, PageAssumption DEF ScanEnd, Kinds
        <3> QED
            BY <3>1, <3>2
    <2> QED
        BY <2>1, <2>2, <2>3
<1>4. stored' \in 0..MaxRecords /\ live' \subseteq 1..stored' /\ gone' \subseteq Records /\ grew' \in BOOLEAN /\ calm' \in BOOLEAN
    BY <1>1 DEF FindPage, Scan, ScanEnd
<1> QED
    BY <1>3, <1>4 DEF TypeInv, TypeOK, WalkInv, WalkType, FindType

LEMMA OthersTypes ==
    ASSUME TypeInv, Store \/ \E x \in live : Remove(x)
    PROVE  TypeInv'
<1>1. /\ stored \in 0..MaxRecords /\ live \subseteq 1..stored /\ live \subseteq Records
      /\ gone \subseteq Records
    BY TypeParts, WalkTypes DEF TypeInv
<1>2. UNCHANGED <<walk, find>> /\ calm' \in BOOLEAN /\ grew' \in BOOLEAN
    BY DEF Store, Remove, TypeInv, TypeOK
<1>3. stored' \in 0..MaxRecords /\ live' \subseteq 1..stored' /\ gone' \subseteq Records
    <2>1. CASE Store
        <3>1. stored' \in 0..MaxRecords /\ 1..stored \subseteq 1..stored' /\ stored' \in 1..stored'
            BY <1>1, <2>1, PageAssumption DEF Store
        <3> QED
            BY <1>1, <2>1, <3>1 DEF Store
    <2>2. CASE \E x \in live : Remove(x)
        BY <1>1, <2>2 DEF Remove
    <2> QED
        BY <2>1, <2>2
<1> QED
    BY <1>2, <1>3 DEF TypeInv, TypeOK, SkippedRead

LEMMA NextTypes == TypeInv /\ [Next]_wvars => TypeInv'
<1> SUFFICES ASSUME TypeInv, [Next]_wvars PROVE TypeInv'
    OBVIOUS
<1>1. CASE UNCHANGED wvars
    BY <1>1 DEF wvars, TypeInv, TypeOK, SkippedRead
<1>2. ASSUME NEW limit \in Limits, FindDocument(limit) PROVE TypeInv'
    <2>1. 0 \in Nat /\ "summaries" \in Kinds
        BY DEF Kinds
    <2> QED
        BY <1>2, <2>1, StartTypes
<1>3. ASSUME NEW limit \in Limits, NEW offset \in Offsets, NEW kind \in Kinds,
             Begin(kind, limit, offset)
      PROVE  TypeInv'
    BY <1>3, StartTypes, LimitAssumption
<1> QED
    BY <1>1, <1>2, <1>3, NextPageTypes, FindTypes, OthersTypes, Begins DEF Next

\* The types, whatever a caller asks for and whoever else writes.
THEOREM TypeCorrect == Spec => []TypeOK
<1>1. TypeInv => TypeOK
    BY DEF TypeInv
<1> QED
    BY <1>1, InitTypes, NextTypes, PTL DEF Spec

-----------------------------------------------------------------------------
\* Windows.

LEMMA WindowIs ==
    ASSUME NEW S \in SUBSET Records, NEW limit \in Nat, NEW offset \in Nat
    PROVE  Window(S, limit, offset) = Top(S \ Top(S, offset), limit)
<1> DEFINE U == Top(S, offset)
           R == S \ U
<1>1. /\ U \in SUBSET S /\ Newest(U, S) /\ (U # S => Cardinality(U) = offset)
      /\ R \in SUBSET Records
    BY TopSize, TopIsFirst
<1>2. Window(S, limit, offset) = {x \in S : Cardinality(Above(S, x)) < offset + limit} \ U
    BY TopIsFirst DEF Window
<1>3. Top(R, limit) = {x \in R : Cardinality(Above(R, x)) < limit}
    BY <1>1, TopIsFirst
<1> HIDE DEF U
<1>4. ASSUME NEW x \in R
      PROVE  Cardinality(Above(S, x)) < offset + limit <=> Cardinality(Above(R, x)) < limit
    <2>1. x \in S \ U /\ Cardinality(U) = offset
        BY <1>1
    <2>2. Cardinality(Above(S, x)) = offset + Cardinality(Above(R, x))
        BY <1>1, <2>1, TopBehind
    <2>3. Cardinality(Above(R, x)) \in Nat
        BY <1>1, AboveSets
    <2> QED
        BY <2>2, <2>3
<1>5. Window(S, limit, offset) = Top(R, limit)
    BY <1>2, <1>3, <1>4
<1> QED
    BY <1>5 DEF U

\* The first k of a first part, against the first k of all.
LEMMA TopOfNewest ==
    ASSUME NEW S \in SUBSET Records, NEW U \in SUBSET S, Newest(U, S), NEW k \in Nat
    PROVE  /\ Top(U, k) = U \cap Top(S, k)
           /\ Newest(Top(U, k), Top(S, k))
           /\ Cardinality(U) >= k => Top(U, k) = Top(S, k)
<1>1. /\ U \in SUBSET Records /\ Cardinality(U) \in Nat
      /\ Top(U, k) = {x \in U : Cardinality(Above(U, x)) < k}
      /\ Top(S, k) = {x \in S : Cardinality(Above(S, x)) < k}
    BY TopIsFirst, RecordSets
<1>2. \A x \in U : Above(U, x) = Above(S, x)
    BY RecordNumbers DEF Above, Newest
<1>3. Top(U, k) = U \cap Top(S, k)
    BY <1>1, <1>2
<1>4. Newest(Top(U, k), Top(S, k))
    BY <1>3, TopIsFirst DEF Newest
<1>5. ASSUME Cardinality(U) >= k, NEW x \in S \ U PROVE ~(Cardinality(Above(S, x)) < k)
    <2>1. U \subseteq Above(S, x)
        BY RestBelow
    <2>2. Cardinality(U) <= Cardinality(Above(S, x)) /\ Cardinality(Above(S, x)) \in Nat
        BY <2>1, AboveSets, Smaller
    <2> QED
        BY <1>1, <1>5, <2>2
<1> QED
    BY <1>1, <1>3, <1>4, <1>5

\* What a walk has read, the page, and what is behind it, in the order of the list.
LEMMA ReadAndPage ==
    ASSUME TypeOK
    PROVE  /\ Read \cup Page \in SUBSET live /\ Read \cap Page = {}
           /\ Newest(Read, live) /\ Newest(Read \cup Page, live)
           /\ Cardinality(Read \cup Page) = Cardinality(Read) + Cardinality(Page)
           /\ Page # {} => Read \cup Page = {x \in live : x >= Min(Page)}
           /\ Page = {} \/ Page = After => Read \cup Page = live
           /\ live \ Read = After
<1>1. /\ live \in SUBSET Records /\ walk.cursor \in Nat
      /\ Page \in SUBSET After /\ Newest(Page, After) /\ Page \in SUBSET Records
      /\ Page = {} => After = {}
      /\ Page # {} => Min(Page) \in Page /\ \A x \in Page : Min(Page) <= x
      /\ Read \in SUBSET Records
    BY WalkTypes, PageTypes
<1>2. /\ \A x \in live : x \in Nat /\ (x \in Read <=> x >= walk.cursor)
      /\ \A x \in live : x \in After <=> x < walk.cursor
      /\ Read \subseteq live /\ After \subseteq live
    BY <1>1, RecordNumbers DEF Read, After
<1>3. Newest(Read, live) /\ Read \cap Page = {} /\ live \ Read = After
    BY <1>1, <1>2 DEF Newest
<1>4. Newest(Read \cup Page, live)
    BY <1>1, <1>2 DEF Newest
<1>5. Cardinality(Read \cup Page) = Cardinality(Read) + Cardinality(Page)
    BY <1>1, <1>3, Disjoint
<1>6. ASSUME Page # {} PROVE Read \cup Page = {x \in live : x >= Min(Page)}
    <2>1. \A x \in Read \cup Page : x \in live /\ x >= Min(Page)
        BY <1>1, <1>2, <1>6
    <2>2. \A x \in live : x >= Min(Page) => x \in Read \cup Page
        BY <1>1, <1>2, <1>6 DEF Newest
    <2> QED
        BY <2>1, <2>2
<1> QED
    BY <1>1, <1>2, <1>3, <1>4, <1>5, <1>6

\* The offset of an undisturbed walk falls in the page exactly where the list has it.
LEMMA SkipsOffset ==
    ASSUME TypeOK, walk.skipped = Least(walk.offset, Cardinality(Read))
    PROVE  /\ Page \cap Top(live, walk.offset) = Top(Page, ToSkip)
           /\ Passed = Least(walk.offset, Cardinality(Read \cup Page))
<1>1. /\ live \in SUBSET Records /\ walk.offset \in Nat /\ walk.skipped \in Nat
      /\ Cardinality(Read) \in Nat /\ Read \in SUBSET Records
      /\ Page \in SUBSET After /\ Page \in SUBSET live /\ Page \in SUBSET Records
      /\ Cardinality(Page) \in Nat /\ Newest(Page, After) /\ After \in SUBSET Records
      /\ ToSkip \in Nat
    BY WalkTypes, PageTypes, SkipTypes
<1>2. /\ Read \in SUBSET live /\ Newest(Read, live) /\ live \ Read = After
      /\ Cardinality(Read \cup Page) = Cardinality(Read) + Cardinality(Page)
    BY ReadAndPage
<1>3. ToSkip = IF walk.skipped < walk.offset
               THEN Least(walk.offset - walk.skipped, Cardinality(Page)) ELSE 0
    BY DEF ToSkip
<1>4. ASSUME NEW x \in Page
      PROVE  x \in Top(live, walk.offset) <=> x \in Top(Page, ToSkip)
    <2>1. x \in live \ Read /\ Above(After, x) = Above(Page, x)
        BY <1>1, <1>2, RecordNumbers DEF Above, Newest
    <2>2. Cardinality(Above(live, x)) = Cardinality(Read) + Cardinality(Above(Page, x))
        <3>1. Cardinality(Above(live, x)) = Cardinality(Read) + Cardinality(Above(live \ Read, x))
            <4>1. live \in SUBSET Records /\ Read \in SUBSET live /\ Newest(Read, live)
                BY <1>1, <1>2
            <4>2. x \in live \ Read
                BY <2>1
            <4> QED
                BY <4>1, <4>2, TopBehind
        <3>2. Above(live \ Read, x) = Above(Page, x)
            BY <1>2, <2>1
        <3> QED
            BY <3>1, <3>2
    <2>3. x \notin Above(Page, x) /\ Above(Page, x) \in SUBSET Page
        BY <1>1, RecordNumbers DEF Above
    <2>4. Cardinality(Above(Page, x)) < Cardinality(Page) /\ Cardinality(Above(Page, x)) \in Nat
        BY <1>1, <2>3, Smaller
    <2>5. x \in Top(live, walk.offset) <=> Cardinality(Above(live, x)) < walk.offset
        BY <1>1, TopIsFirst
    <2>6. x \in Top(Page, ToSkip) <=> Cardinality(Above(Page, x)) < ToSkip
        BY <1>1, TopIsFirst
    <2> QED
        BY <1>1, <1>3, <2>2, <2>4, <2>5, <2>6 DEF Least
<1>5. Top(Page, ToSkip) \in SUBSET Page
    BY SkipTypes
<1>6. Passed = Least(walk.offset, Cardinality(Read \cup Page))
    BY <1>1, <1>2, <1>3 DEF Passed, Least
<1> QED
    BY <1>4, <1>5, <1>6

\* While nobody disturbs it, a walk has skipped what the offset covers of the records it
\* has read and has collected the others.
ReadInWindow ==
    walk.pc = "page" /\ calm =>
        /\ walk.skipped = Least(walk.offset, Cardinality(Read))
        /\ walk.got = Read \ Top(live, walk.offset)

WindowInv == ReadInWindow /\ WalkIsWindow

LEMMA FreshWindow ==
    ASSUME NEW kind \in Kinds, NEW limit \in Nat, NEW offset \in Nat,
           Walk(kind, limit, offset), live' \in SUBSET Records
    PROVE  WindowInv'
<1>1. walk' = [pc |-> "page", kind |-> kind, limit |-> limit, offset |-> offset,
               cursor |-> MaxRecords + 1, skipped |-> 0, got |-> {}]
    BY DEF Walk, NoWalk
<1>2. Read' = {}
    BY <1>1, RecordNumbers DEF Read
<1>3. Cardinality(Read') = 0
    BY <1>2, FS_EmptySet
<1>4. ReadInWindow'
    BY <1>1, <1>2, <1>3 DEF ReadInWindow, Least
<1> QED
    BY <1>1, <1>4 DEF WindowInv, WalkIsWindow

\* An undisturbed walk that goes on.
LEMMA GoesOnInWindow ==
    ASSUME TypeOK, ReadInWindow, walk.pc = "page", GoesOn, UNCHANGED <<live, calm>>
    PROVE  WindowInv'
<1>1. walk \in WalkType
    BY DEF TypeOK, WalkType
<1>2. walk' = [walk EXCEPT !.cursor = Min(Page), !.skipped = Passed, !.got = Collected] /\ Page # {}
    BY DEF GoesOn
<1>3. /\ walk'.cursor = Min(Page) /\ walk'.skipped = Passed /\ walk'.got = Collected
      /\ walk'.offset = walk.offset /\ walk'.pc = "page"
    BY <1>1, <1>2 DEF WalkType
<1>4. Read' = Read \cup Page
    BY <1>2, <1>3, ReadAndPage DEF Read
<1>5. ASSUME calm PROVE Collected = (Read \cup Page) \ Top(live, walk.offset)
    <2>1. Page \cap Top(live, walk.offset) = Top(Page, ToSkip)
        BY <1>5, SkipsOffset DEF ReadInWindow
    <2>2. walk.got = Read \ Top(live, walk.offset)
        BY <1>5 DEF ReadInWindow
    <2> QED
        BY <2>1, <2>2 DEF Collected
<1>6. ASSUME calm PROVE Passed = Least(walk.offset, Cardinality(Read \cup Page))
    BY <1>6, SkipsOffset DEF ReadInWindow
<1>7. ReadInWindow'
    BY <1>3, <1>4, <1>5, <1>6 DEF ReadInWindow
<1> QED
    BY <1>3, <1>7 DEF WindowInv, WalkIsWindow

\* An undisturbed walk that ends: it has collected a first part of what is behind the
\* offset, and either as much as the limit, or all of it, or it is over the cap.
LEMMA EndsInWindow ==
    ASSUME TypeOK, ReadInWindow, walk.pc = "page", Ends, UNCHANGED <<live, calm>>
    PROVE  WindowInv'
<1> DEFINE U == Top(live, walk.offset)
           R == live \ U
           all == Top(R, walk.limit)
           got == Top(Collected, walk.limit)
<1>1. walk \in WalkType
    BY DEF TypeOK, WalkType
<1>2. /\ \/ Cardinality(Collected) >= walk.limit
         \/ Page = {} \/ Page = After
         \/ walk.kind # "summaries" /\ Passed > Cap
      /\ walk' = [walk EXCEPT !.pc = "done", !.skipped = Passed, !.got = got]
    BY DEF Ends
<1>3. /\ walk'.pc = "done" /\ walk'.got = got /\ walk'.offset = walk.offset
      /\ walk'.limit = walk.limit /\ walk'.kind = walk.kind
    BY <1>1, <1>2 DEF WalkType
<1>4. /\ live \in SUBSET Records /\ walk.limit \in Nat /\ walk.offset \in Nat
      /\ Collected \in SUBSET Records /\ R \in SUBSET Records
    BY WalkTypes, SkipTypes
<1>5. Window(live, walk.limit, walk.offset) = all
    BY <1>4, WindowIs
<1>6. all \in SUBSET Records /\ got \in SUBSET Records
    BY <1>4, TopSize
<1> HIDE DEF all, got
<1>7. ASSUME calm
      PROVE  /\ got = Top(all, Cardinality(got))
             /\ got = all \/ (walk.kind # "summaries" /\ walk.offset > Cap)
    <2>1. /\ Page \cap U = Top(Page, ToSkip) /\ walk.got = Read \ U
          /\ Passed = Least(walk.offset, Cardinality(Read \cup Page))
        BY <1>7, SkipsOffset DEF ReadInWindow
    <2>2. Collected = (Read \cup Page) \ U
        BY <2>1 DEF Collected
    <2>3. Read \cup Page \in SUBSET live /\ Newest(Read \cup Page, live)
          /\ (Page = {} \/ Page = After => Read \cup Page = live)
        BY ReadAndPage
    <2> HIDE DEF U
    <2>4. Collected \in SUBSET R /\ Newest(Collected, R)
        BY <2>2, <2>3 DEF Newest
    <2> HIDE DEF R
    <2>5. /\ Newest(got, all) /\ got \in SUBSET all
          /\ Cardinality(Collected) >= walk.limit => got = all
        BY <1>4, <2>4, TopOfNewest DEF got, all
    <2>6. got = Top(all, Cardinality(got))
        BY <1>6, <2>5, NewestIsTop
    <2>7. Page = {} \/ Page = After => got = all
        BY <2>2, <2>3 DEF R, got, all
    <2>8. Passed > Cap => walk.offset > Cap
        BY <1>4, <2>1, ReadAndPage, WalkTypes, PageTypes, PageAssumption DEF Least
    <2> QED
        BY <1>2, <1>3, <2>5, <2>6, <2>7, <2>8
<1>8. WalkIsWindow'
    BY <1>3, <1>5, <1>7 DEF WalkIsWindow
<1> QED
    BY <1>3, <1>8 DEF WindowInv, ReadInWindow

LEMMA NextWindow == TypeInv /\ TypeInv' /\ WindowInv /\ [Next]_wvars => WindowInv'
<1> SUFFICES ASSUME TypeInv, TypeInv', WindowInv, [Next]_wvars PROVE WindowInv'
    OBVIOUS
<1>0. TypeOK /\ live \in SUBSET Records /\ live' \in SUBSET Records
    BY PageAssumption DEF TypeInv, TypeOK, Records
<1>1. CASE UNCHANGED wvars
    BY <1>1 DEF wvars, WindowInv, ReadInWindow, WalkIsWindow, Read
<1>2. ASSUME NEW limit \in Limits, NEW offset \in Offsets, NEW kind \in Kinds,
             Begin(kind, limit, offset)
      PROVE  WindowInv'
    BY <1>0, <1>2, FreshWindow, LimitAssumption DEF Begin
<1>3. ASSUME NEW limit \in Limits, FindDocument(limit) PROVE WindowInv'
    BY <1>0, <1>3, FreshWindow, PageAssumption DEF FindDocument, Kinds
<1>4. CASE ScanEnd
    <2>1. find.offset \in Nat
        BY <1>0 DEF TypeOK
    <2> QED
        BY <1>0, <1>4, <2>1, FreshWindow, PageAssumption DEF ScanEnd, Kinds
<1>5. CASE NextPage
    <2>1. walk.pc = "page" /\ UNCHANGED <<live, calm>> /\ (GoesOn \/ Ends \/ UNCHANGED walk)
        BY <1>0, <1>5, NextPageIs
    <2>2. CASE UNCHANGED walk
        BY <2>1, <2>2 DEF WindowInv, ReadInWindow, WalkIsWindow, Read
    <2> QED
        BY <1>0, <2>1, <2>2, GoesOnInWindow, EndsInWindow DEF WindowInv
<1>6. CASE FindPage
    BY <1>6 DEF FindPage, NoWalk, WindowInv, ReadInWindow, WalkIsWindow
<1>7. CASE Scan
    <2>1. UNCHANGED <<live, walk>> /\ (calm' = calm \/ calm' = FALSE)
        BY <1>7 DEF Scan
    <2> QED
        BY <2>1 DEF WindowInv, ReadInWindow, WalkIsWindow, Read
<1>8. CASE Store \/ \E x \in live : Remove(x)
    BY <1>8 DEF Store, Remove, WindowInv, ReadInWindow, WalkIsWindow
<1> QED
    BY <1>1, <1>2, <1>3, <1>4, <1>5, <1>6, <1>7, <1>8, Begins DEF Next

\* auto_paginate_keys and list_doc_summaries: undisturbed, a walk over pages of any size
\* returns the records from its offset on, as many as its limit, and a capped walk a
\* first part of them, or all if the offset is within the cap.
THEOREM WalksAreWindows == Spec => []WalkIsWindow
<1>1. Init => WindowInv
    BY DEF Init, NoWalk, WindowInv, ReadInWindow, WalkIsWindow
<1>2. Init => TypeInv /\ WindowInv
    BY <1>1, InitTypes
<1>3. TypeInv /\ WindowInv /\ [Next]_wvars => (TypeInv /\ WindowInv)'
    BY NextTypes, NextWindow
<1>4. WindowInv => WalkIsWindow
    BY DEF WindowInv
<1> QED
    BY <1>2, <1>3, <1>4, PTL DEF Spec

-----------------------------------------------------------------------------
(***************************************************************************)
(* find_document looks at no record twice while nothing is stored.  What it *)
(* has matched stays within the offset that the next pages skip: the list   *)
(* up to a match is no longer than the offset reached, removals only        *)
(* shorten it, and a store is what would lengthen it.                       *)
(***************************************************************************)

Upto(x) == {y \in live : y >= x}
Before(x) == {y \in After : y >= x}

FindWalk ==
    find.pc = "list" => /\ walk.pc \in {"page", "done"} /\ walk.kind = "summaries"
                        /\ walk.limit = PageMax /\ walk.offset = find.offset

PageOnce ==
    find.pc = "list" /\ walk.pc = "page" =>
        /\ walk.skipped <= walk.offset
        /\ Cardinality(Read \ walk.got) <= walk.skipped
        /\ \A x \in find.matches :
              x \notin walk.got /\ Cardinality(Before(x)) <= walk.offset - walk.skipped

DoneOnce ==
    find.pc = "list" /\ walk.pc = "done" =>
        /\ find.matches \cap walk.got = {}
        /\ \A x \in walk.got : Cardinality(Upto(x)) <= walk.offset + Cardinality(walk.got)

ScanOnce ==
    /\ find.pc \in {"list", "scan"} => \A x \in find.matches : Cardinality(Upto(x)) <= find.offset
    /\ find.pc = "scan" => /\ find.matches \cap find.scan = {}
                           /\ \A x \in find.scan : Cardinality(Upto(x)) <= find.offset

EachOnce == find.pushed = Cardinality(find.matches) /\ PageOnce /\ DoneOnce /\ ScanOnce
OnceInv == (calm => ~grew) /\ (~grew => EachOnce)

LEMMA UptoSets ==
    ASSUME TypeOK, NEW x
    PROVE  /\ Upto(x) \in SUBSET Records /\ Cardinality(Upto(x)) \in Nat
           /\ Before(x) \in SUBSET After /\ Before(x) \in SUBSET Records
           /\ Cardinality(Before(x)) \in Nat
<1>1. Upto(x) \in SUBSET Records /\ Before(x) \in SUBSET After /\ Before(x) \in SUBSET Records
    BY WalkTypes, PageTypes DEF Upto, Before
<1> QED
    BY <1>1, RecordSets

\* What the cursor has passed with a page.
LEMMA CursorMoves ==
    ASSUME TypeOK, GoesOn, UNCHANGED live
    PROVE  Read' = Read \cup Page /\ After' = After \ Page
<1>1. walk'.cursor = Min(Page) /\ Page # {}
    BY DEF TypeOK, GoesOn
<1>2. Read' = Read \cup Page
    BY <1>1, ReadAndPage DEF Read
<1>3. After' = live \ Read' /\ After = live \ Read
    <2>1. \A x \in live : x \in Nat
        BY WalkTypes, RecordNumbers
    <2>2. Min(Page) \in Nat /\ walk.cursor \in Nat
        BY <1>1, PageTypes, WalkTypes, RecordNumbers
    <2> QED
        BY <1>1, <2>1, <2>2 DEF After, Read
<1> QED
    BY <1>2, <1>3

\* A page: what was matched is behind the cursor or within the offset.
LEMMA PageSkipsMatched ==
    ASSUME TypeOK, PageOnce, find.pc = "list", walk.pc = "page"
    PROVE  /\ Passed <= walk.offset
           /\ Cardinality((Read \cup Page) \ Collected) <= Passed
           /\ \A x \in find.matches :
                 x \notin Collected /\ Cardinality(Before(x) \ Page) <= walk.offset - Passed
<1> DEFINE T == Top(Page, ToSkip)
<1>1. /\ walk.offset \in Nat /\ walk.skipped \in Nat /\ ToSkip \in Nat /\ Cardinality(Page) \in Nat
      /\ ToSkip = IF walk.skipped < walk.offset
                  THEN Least(walk.offset - walk.skipped, Cardinality(Page)) ELSE 0
      /\ Page \in SUBSET Records /\ Read \in SUBSET Records /\ Newest(Page, After)
      /\ After \in SUBSET Records
      /\ T \in SUBSET Page /\ Cardinality(T) = ToSkip
      /\ T = {y \in Page : Cardinality(Above(Page, y)) < ToSkip}
    BY WalkTypes, PageTypes, SkipTypes, TopIsFirst DEF ToSkip
<1>2. Passed = walk.skipped + ToSkip /\ Collected = walk.got \cup (Page \ T)
    BY DEF Passed, Collected
<1> HIDE DEF T
<1>3. /\ walk.skipped <= walk.offset /\ Cardinality(Read \ walk.got) <= walk.skipped
      /\ \A x \in find.matches :
            x \notin walk.got /\ Cardinality(Before(x)) <= walk.offset - walk.skipped
    BY DEF PageOnce
<1>4. Passed <= walk.offset
    BY <1>1, <1>2, <1>3 DEF Least
<1>5. Cardinality((Read \cup Page) \ Collected) <= Passed
    <2>1. (Read \ walk.got) \cap T = {}
        BY <1>1, ReadAndPage
    <2>2. Cardinality((Read \ walk.got) \cup T) = Cardinality(Read \ walk.got) + ToSkip
        BY <1>1, <2>1, Disjoint
    <2>3. (Read \cup Page) \ Collected \subseteq (Read \ walk.got) \cup T
        BY <1>2
    <2>4. /\ Cardinality((Read \cup Page) \ Collected) <= Cardinality((Read \ walk.got) \cup T)
          /\ Cardinality((Read \cup Page) \ Collected) \in Nat
          /\ Cardinality(Read \ walk.got) \in Nat
        BY <1>1, <2>3, Smaller, RecordSets
    <2> QED
        BY <1>1, <1>2, <1>3, <2>2, <2>4
<1>6. ASSUME NEW x \in find.matches
      PROVE  x \notin Collected /\ Cardinality(Before(x) \ Page) <= walk.offset - Passed
    <2> DEFINE D == Before(x)
    <2>1. /\ D \in SUBSET After /\ D \in SUBSET Records /\ Cardinality(D) \in Nat
          /\ x \notin walk.got /\ Cardinality(D) <= walk.offset - walk.skipped
          /\ x \in Records
        BY <1>3, UptoSets DEF TypeOK
    <2>2. \A y \in After : y \in D <=> y >= x
        BY DEF Before
    <2>3. D \subseteq Page \/ Page \subseteq D
        BY <1>1, <2>1, <2>2, PageTypes, RecordNumbers DEF Newest
    <2>4. x \in Page => x \in D
        BY <1>1, <2>1, <2>2, PageTypes, RecordNumbers
    <2> HIDE DEF D
    <2>5. CASE D \subseteq Page
        <3>1. Cardinality(D) <= Cardinality(Page)
            BY <1>1, <2>5, Smaller
        <3>2. Cardinality(D) <= ToSkip
            BY <1>1, <1>3, <2>1, <3>1 DEF Least
        <3>3. ASSUME NEW y \in D PROVE y \in T
            <4>1. Above(Page, y) \subseteq D /\ y \notin Above(Page, y)
                BY <1>1, <2>1, <2>2, <2>5, PageTypes, RecordNumbers DEF Above
            <4>2. Cardinality(Above(Page, y)) < Cardinality(D) /\ Cardinality(Above(Page, y)) \in Nat
                BY <2>1, <4>1, Smaller
            <4> QED
                BY <1>1, <2>1, <2>5, <3>2, <4>2
        <3>4. x \notin Collected
            BY <1>2, <2>1, <2>4, <3>3
        <3>5. D \ Page = {}
            BY <2>5
        <3>6. Cardinality(D \ Page) = 0
            BY <3>5, FS_EmptySet
        <3>7. walk.offset - Passed >= 0
            BY <1>1, <1>2, <1>4
        <3> QED
            BY <3>4, <3>6, <3>7 DEF D
    <2>6. CASE Page \subseteq D
        <3>1. Cardinality(Page) <= Cardinality(D)
            BY <2>1, <2>6, Smaller
        <3>2. ToSkip = Cardinality(Page)
            BY <1>1, <1>3, <2>1, <3>1 DEF Least
        <3>3. T = Page
            BY <1>1, <3>2, Smaller
        <3>4. Cardinality(D \ Page) = Cardinality(D) - Cardinality(Page)
            BY <2>1, <2>6, Without
        <3>5. x \notin Collected
            BY <1>2, <2>1, <3>3
        <3> QED
            BY <1>1, <1>2, <2>1, <3>2, <3>4, <3>5 DEF D
    <2> QED
        BY <2>3, <2>5, <2>6
<1> QED
    BY <1>4, <1>5, <1>6

LEMMA GoesOnOnce ==
    ASSUME TypeOK, EachOnce, find.pc = "list", walk.pc = "page", GoesOn, UNCHANGED <<live, find>>
    PROVE  EachOnce'
<1>1. /\ walk'.skipped = Passed /\ walk'.got = Collected /\ walk'.offset = walk.offset
      /\ walk'.pc = "page"
    BY DEF TypeOK, GoesOn
<1>2. Read' = Read \cup Page /\ After' = After \ Page
    BY CursorMoves
<1>3. \A x : Before(x)' = Before(x) \ Page /\ Upto(x)' = Upto(x)
    BY <1>2 DEF Before, Upto
<1>4. PageOnce'
    BY <1>1, <1>2, <1>3, PageSkipsMatched DEF EachOnce, PageOnce
<1>5. DoneOnce' /\ ScanOnce'
    BY <1>1, <1>3 DEF EachOnce, DoneOnce, ScanOnce
<1> QED
    BY <1>4, <1>5 DEF EachOnce

LEMMA EndsOnce ==
    ASSUME TypeOK, EachOnce, find.pc = "list", walk.pc = "page", Ends, UNCHANGED <<live, find>>
    PROVE  EachOnce'
<1> DEFINE got == Top(Collected, walk.limit)
           Z == (Read \cup Page) \ Collected
<1>1. walk'.got = got /\ walk'.offset = walk.offset /\ walk'.pc = "done"
    BY DEF TypeOK, Ends
<1>2. /\ Collected \in SUBSET Records /\ Read \in SUBSET Records /\ Page \in SUBSET Records
      /\ walk.limit \in Nat /\ walk.offset \in Nat /\ Passed \in Nat /\ live \in SUBSET Records
    BY WalkTypes, PageTypes, SkipTypes
<1>3. /\ got \in SUBSET Collected /\ got \in SUBSET Records /\ Cardinality(got) \in Nat
      /\ Newest(got, Collected)
    BY <1>2, TopSize, TopIsFirst
<1>4. /\ Passed <= walk.offset /\ Cardinality(Z) <= Passed
      /\ \A x \in find.matches : x \notin Collected
    BY PageSkipsMatched DEF EachOnce
<1>5. Z \in SUBSET Records /\ Z \cap got = {}
    BY <1>2, <1>3
<1>6. ASSUME NEW x \in got PROVE Cardinality(Upto(x)) <= walk.offset + Cardinality(got)
    <2>1. x \in walk.got \/ x \in Page
        BY <1>3 DEF Collected
    <2>2. Upto(x) \subseteq Read \cup Page
        <3>1. CASE x \in walk.got
            <4>1. x >= walk.cursor /\ x \in Nat /\ walk.cursor \in Nat
                BY <3>1, WalkTypes, RecordNumbers DEF TypeOK
            <4> QED
                BY <1>2, <4>1, RecordNumbers DEF Upto, Read
        <3>2. CASE x \in Page
            <4>1. Newest(Read \cup Page, live)
                BY ReadAndPage
            <4> QED
                BY <1>2, <3>2, <4>1, RecordNumbers DEF Upto, Newest
        <3> QED
            BY <2>1, <3>1, <3>2
    <2>3. ASSUME NEW y \in Upto(x), y \in Collected PROVE y \in got
        <3>1. y = x \/ y > x
            BY <1>2, <1>3, <2>3, RecordNumbers DEF Upto
        <3> QED
            BY <1>3, <2>3, <3>1 DEF Newest
    <2>4. Upto(x) \subseteq got \cup Z
        BY <2>2, <2>3
    <2> HIDE DEF got, Z
    <2>5. Cardinality(got \cup Z) = Cardinality(got) + Cardinality(Z)
        BY <1>3, <1>5, Disjoint
    <2>6. got \cup Z \in SUBSET Records /\ Cardinality(Z) \in Nat
        BY <1>3, <1>5, RecordSets
    <2>7. Cardinality(Upto(x)) <= Cardinality(got \cup Z) /\ Cardinality(Upto(x)) \in Nat
        BY <2>4, <2>6, Smaller
    <2> QED
        BY <1>2, <1>3, <1>4, <2>5, <2>6, <2>7
<1>7. \A x : Upto(x)' = Upto(x)
    BY DEF Upto
<1>8. DoneOnce'
    BY <1>1, <1>3, <1>4, <1>6, <1>7 DEF DoneOnce
<1>9. PageOnce' /\ ScanOnce'
    BY <1>1, <1>7 DEF EachOnce, PageOnce, ScanOnce
<1> QED
    BY <1>8, <1>9 DEF EachOnce

\* A fresh walk of find_document, from the offset that was reached.
LEMMA FreshOnce ==
    ASSUME TypeOK', NEW offset \in Nat, Walk("summaries", PageMax, offset), find'.pc = "list",
           find'.offset = offset, (find.pushed = Cardinality(find.matches))',
           \A x \in find'.matches : Cardinality(Upto(x)') <= offset
    PROVE  EachOnce'
<1>1. walk' = [pc |-> "page", kind |-> "summaries", limit |-> PageMax, offset |-> offset,
               cursor |-> MaxRecords + 1, skipped |-> 0, got |-> {}]
    BY DEF Walk, NoWalk
<1>2. live' \in SUBSET Records
    BY PageAssumption DEF TypeOK, Records
<1>3. After' = live' /\ Read' = {}
    BY <1>1, <1>2, RecordNumbers DEF After, Read
<1>4. (Read \ walk.got)' = {}
    BY <1>3
<1>5. Cardinality((Read \ walk.got)') = 0
    BY <1>4, FS_EmptySet
<1>6. \A x : Before(x)' = Upto(x)'
    BY <1>3 DEF Before, Upto
<1>7. PageOnce'
    BY <1>1, <1>5, <1>6 DEF PageOnce
<1>8. DoneOnce' /\ ScanOnce'
    BY <1>1 DEF DoneOnce, ScanOnce
<1> QED
    BY <1>7, <1>8 DEF EachOnce

LEMMA FindPageOnce ==
    ASSUME TypeOK, FindWalk, EachOnce, FindPage
    PROVE  EachOnce'
<1>1. /\ find.pc = "list" /\ walk.pc = "done" /\ UNCHANGED live /\ walk.offset = find.offset
      /\ find.offset \in Nat /\ Cardinality(walk.got) \in Nat
    BY WalkTypes DEF FindPage, FindWalk, TypeOK
<1>2. \A x : Upto(x)' = Upto(x) /\ Cardinality(Upto(x)) \in Nat
    BY <1>1, UptoSets DEF Upto
<1>3. find'.matches = find.matches /\ find'.pushed = find.pushed
    BY DEF FindPage, TypeOK
<1>4. CASE walk.got # {}
    <2>1. /\ find'.pc = "scan" /\ find'.scan = walk.got
          /\ find'.offset = find.offset + Cardinality(walk.got)
        BY <1>4 DEF FindPage, TypeOK
    <2>2. /\ find.matches \cap walk.got = {}
          /\ \A x \in walk.got : Cardinality(Upto(x)) <= walk.offset + Cardinality(walk.got)
          /\ \A x \in find.matches : Cardinality(Upto(x)) <= find.offset
        BY <1>1 DEF EachOnce, DoneOnce, ScanOnce
    <2>3. \A x \in find.matches : Cardinality(Upto(x)) <= find.offset + Cardinality(walk.got)
        BY <1>1, <1>2, <2>2
    <2>4. ScanOnce'
        BY <1>1, <1>2, <1>3, <2>1, <2>2, <2>3 DEF ScanOnce
    <2> QED
        BY <1>3, <2>1, <2>4 DEF EachOnce, PageOnce, DoneOnce
<1>5. CASE walk.got = {}
    <2>1. find'.pc \in {"done", "unsupported"}
        BY <1>5 DEF FindPage, TypeOK
    <2> QED
        BY <1>3, <2>1 DEF EachOnce, PageOnce, DoneOnce, ScanOnce
<1> QED
    BY <1>4, <1>5

\* A scanned record, the next of the page.
LEMMA ScanIs ==
    ASSUME TypeOK, Scan
    PROVE  LET x == Max(find.scan)
               match == x \in InSummary \cup InBytes /\ x \in Named
           IN  /\ find.pc = "scan" /\ x \in find.scan /\ (\A y \in find.scan : x >= y)
               /\ UNCHANGED <<live, walk, gone, grew>>
               /\ find'.base = find.base /\ find'.limit = find.limit
               /\ find'.offset = find.offset /\ find'.scan = find.scan \ {x}
               /\ find'.pc = (IF find'.pushed >= find.limit THEN "done" ELSE "scan")
               /\ \/ /\ find'.failed = find.failed /\ calm' = calm
                     /\ find'.matches = (IF match THEN find.matches \cup {x} ELSE find.matches)
                     /\ find'.pushed = (IF match THEN find.pushed + 1 ELSE find.pushed)
                  \/ /\ find'.failed = find.failed \cup {x} /\ calm' = FALSE
                     /\ find'.matches = find.matches /\ find'.pushed = find.pushed
<1> DEFINE x == Max(find.scan)
           known == x \in InSummary \cup InBytes
<1>1. /\ find.pc = "scan" /\ find.scan \in SUBSET Records /\ find.scan # {}
      /\ UNCHANGED <<live, walk, gone, grew>>
      /\ \/ find' = Scanned(x, known) /\ calm' = calm
         \/ find' = [Scanned(x, FALSE) EXCEPT !.failed = @ \cup {x}] /\ calm' = FALSE
    BY DEF Scan, TypeOK
<1>2. x \in find.scan /\ \A y \in find.scan : x >= y
    BY <1>1, MaxExists
<1> HIDE DEF x
<1>3. CASE find' = Scanned(x, known) /\ calm' = calm
    <2>1. /\ find'.base = find.base /\ find'.limit = find.limit /\ find'.offset = find.offset
          /\ find'.scan = find.scan \ {x} /\ find'.failed = find.failed
          /\ find'.matches = (IF known /\ x \in Named THEN find.matches \cup {x} ELSE find.matches)
          /\ find'.pushed = (IF known /\ x \in Named THEN find.pushed + 1 ELSE find.pushed)
          /\ find'.pc = (IF find'.pushed >= find.limit THEN "done" ELSE "scan")
        BY <1>1, <1>3 DEF Scanned, TypeOK
    <2> QED
        BY <1>1, <1>2, <1>3, <2>1 DEF x
<1>4. CASE find' = [Scanned(x, FALSE) EXCEPT !.failed = @ \cup {x}] /\ calm' = FALSE
    <2>1. /\ find'.base = find.base /\ find'.limit = find.limit /\ find'.offset = find.offset
          /\ find'.scan = find.scan \ {x} /\ find'.failed = find.failed \cup {x}
          /\ find'.matches = find.matches /\ find'.pushed = find.pushed
          /\ find'.pc = (IF find'.pushed >= find.limit THEN "done" ELSE "scan")
        BY <1>1, <1>4 DEF Scanned, TypeOK
    <2> QED
        BY <1>1, <1>2, <1>4, <2>1 DEF x
<1> QED
    BY <1>1, <1>3, <1>4

LEMMA ScanEachOnce ==
    ASSUME TypeOK, EachOnce, Scan
    PROVE  EachOnce'
<1> DEFINE x == Max(find.scan)
           match == x \in InSummary \cup InBytes /\ x \in Named
<1>1. /\ find.pc = "scan" /\ x \in find.scan /\ UNCHANGED live
      /\ find'.offset = find.offset /\ find'.scan = find.scan \ {x}
      /\ find'.pc \in {"done", "scan"}
      /\ \/ find'.matches = find.matches \cup {x} /\ find'.pushed = find.pushed + 1
         \/ find'.matches = find.matches /\ find'.pushed = find.pushed
    BY ScanIs
<1> HIDE DEF x
<1>2. /\ find.matches \cap find.scan = {} /\ find.pushed = Cardinality(find.matches)
      /\ \A y \in find.scan \cup find.matches : Cardinality(Upto(y)) <= find.offset
    BY <1>1 DEF EachOnce, ScanOnce
<1>3. \A y : Upto(y)' = Upto(y)
    BY <1>1 DEF Upto
<1>4. find.matches \in SUBSET Records
    BY DEF TypeOK
<1>5. Cardinality(find.matches \cup {x}) = Cardinality(find.matches) + 1
    BY <1>1, <1>2, <1>4, RecordSets, FS_AddElement
<1>6. find'.pushed = Cardinality(find'.matches)
    BY <1>1, <1>2, <1>5
<1>7. /\ find'.matches \cap find'.scan = {}
      /\ \A y \in find'.scan \cup find'.matches : Cardinality(Upto(y)') <= find'.offset
    BY <1>1, <1>2, <1>3
<1>8. ScanOnce'
    BY <1>1, <1>7 DEF ScanOnce
<1> QED
    BY <1>1, <1>6, <1>8 DEF EachOnce, PageOnce, DoneOnce

\* A removal only shortens what is counted.
LEMMA RemoveOnce ==
    ASSUME TypeOK, EachOnce, NEW r \in live, Remove(r)
    PROVE  EachOnce'
<1>1. live' \subseteq live /\ UNCHANGED <<walk, find>>
    BY DEF Remove
<1>2. /\ (Read \ walk.got)' \in SUBSET (Read \ walk.got) /\ Read \ walk.got \in SUBSET Records
      /\ \A x : Before(x)' \in SUBSET Before(x) /\ Upto(x)' \in SUBSET Upto(x)
    BY <1>1, WalkTypes DEF Read, Before, After, Upto
<1>3. /\ Cardinality((Read \ walk.got)') <= Cardinality(Read \ walk.got)
      /\ Cardinality((Read \ walk.got)') \in Nat /\ Cardinality(Read \ walk.got) \in Nat
    BY <1>2, Smaller
<1>4. ASSUME NEW x
      PROVE  /\ Cardinality(Before(x)') <= Cardinality(Before(x))
             /\ Cardinality(Before(x)') \in Nat /\ Cardinality(Before(x)) \in Nat
             /\ Cardinality(Upto(x)') <= Cardinality(Upto(x))
             /\ Cardinality(Upto(x)') \in Nat /\ Cardinality(Upto(x)) \in Nat
    BY <1>2, UptoSets, Smaller
<1>5. /\ walk.offset \in Nat /\ walk.skipped \in Nat /\ find.offset \in Nat
      /\ Cardinality(walk.got) \in Nat
    BY WalkTypes DEF TypeOK
<1>6. PageOnce'
    BY <1>1, <1>3, <1>4, <1>5 DEF EachOnce, PageOnce
<1>7. DoneOnce'
    BY <1>1, <1>4, <1>5 DEF EachOnce, DoneOnce
<1>8. ScanOnce'
    BY <1>1, <1>4, <1>5 DEF EachOnce, ScanOnce
<1> QED
    BY <1>1, <1>6, <1>7, <1>8 DEF EachOnce

LEMMA NextOnce == TypeInv /\ TypeInv' /\ FindWalk /\ OnceInv /\ [Next]_wvars => OnceInv'
<1> SUFFICES ASSUME TypeInv, TypeInv', FindWalk, OnceInv, [Next]_wvars PROVE OnceInv'
    OBVIOUS
<1>0. TypeOK /\ TypeOK' /\ Cardinality({}) = 0 /\ 0 \in Nat
    BY FS_EmptySet DEF TypeInv
<1>1. CASE UNCHANGED wvars
    BY <1>1 DEF wvars, OnceInv, EachOnce, PageOnce, DoneOnce, ScanOnce, Read, Before, After, Upto
<1>2. ASSUME NEW limit \in Limits, FindDocument(limit) PROVE OnceInv'
    <2>1. /\ find' = [NoFind EXCEPT !.pc = "list", !.limit = limit, !.base = live]
          /\ Walk("summaries", PageMax, 0) /\ grew' = FALSE
        BY <1>2 DEF FindDocument, Fresh
    <2>2. find'.pc = "list" /\ find'.offset = 0 /\ find'.matches = {} /\ find'.pushed = 0
        BY <2>1 DEF NoFind
    <2>3. EachOnce'
        BY <1>0, <2>1, <2>2, FreshOnce
    <2> QED
        BY <2>1, <2>3 DEF OnceInv
<1>3. ASSUME NEW limit \in Limits, NEW offset \in Offsets, NEW kind \in Kinds,
             Begin(kind, limit, offset)
      PROVE  OnceInv'
    <2>1. find' = [NoFind EXCEPT !.base = live] /\ grew' = FALSE
        BY <1>3 DEF Begin, Fresh
    <2>2. find'.pc = "idle" /\ find'.matches = {} /\ find'.pushed = 0
        BY <2>1 DEF NoFind
    <2> QED
        BY <1>0, <2>1, <2>2 DEF OnceInv, EachOnce, PageOnce, DoneOnce, ScanOnce
<1>4. CASE Store
    BY <1>4 DEF Store, OnceInv
<1>5. ASSUME NEW r \in live, Remove(r) PROVE OnceInv'
    <2>1. UNCHANGED grew /\ calm' = FALSE
        BY <1>5 DEF Remove
    <2> QED
        BY <1>0, <1>5, <2>1, RemoveOnce DEF OnceInv
<1>6. CASE NextPage
    <2>1. /\ walk.pc = "page" /\ UNCHANGED <<live, find, grew, calm>>
          /\ GoesOn \/ Ends \/ UNCHANGED walk
        BY <1>0, <1>6, NextPageIs
    <2>2. CASE find.pc = "list" /\ (GoesOn \/ Ends)
        BY <1>0, <2>1, <2>2, GoesOnOnce, EndsOnce DEF OnceInv
    <2>3. CASE UNCHANGED walk
        BY <2>1, <2>3 DEF OnceInv, EachOnce, PageOnce, DoneOnce, ScanOnce, Read, Before, After, Upto
    <2>4. CASE find.pc # "list"
        BY <2>1, <2>4 DEF OnceInv, EachOnce, PageOnce, DoneOnce, ScanOnce, Upto
    <2> QED
        BY <2>1, <2>2, <2>3, <2>4
<1>7. CASE FindPage
    <2>1. UNCHANGED <<grew, calm>>
        BY <1>7 DEF FindPage
    <2> QED
        BY <1>0, <1>7, <2>1, FindPageOnce DEF OnceInv
<1>8. CASE Scan
    <2>1. UNCHANGED grew /\ (calm' = calm \/ calm' = FALSE)
        BY <1>0, <1>8, ScanIs
    <2> QED
        BY <1>0, <1>8, <2>1, ScanEachOnce DEF OnceInv
<1>9. CASE ScanEnd
    <2>1. /\ find.pc = "scan" /\ find' = [find EXCEPT !.pc = "list"]
          /\ Walk("summaries", PageMax, find.offset) /\ UNCHANGED <<live, grew, calm>>
        BY <1>9 DEF ScanEnd
    <2>2. /\ find'.pc = "list" /\ find'.offset = find.offset /\ find.offset \in Nat
          /\ find'.matches = find.matches /\ find'.pushed = find.pushed
        BY <1>0, <2>1 DEF TypeOK
    <2>3. ASSUME EachOnce PROVE EachOnce'
        <3>1. \A x : Upto(x)' = Upto(x)
            BY <2>1 DEF Upto
        <3>2. \A x \in find'.matches : Cardinality(Upto(x)') <= find.offset
            BY <2>1, <2>2, <2>3, <3>1 DEF EachOnce, ScanOnce
        <3>3. (find.pushed = Cardinality(find.matches))'
            BY <2>2, <2>3 DEF EachOnce
        <3> QED
            BY <1>0, <2>1, <2>2, <3>2, <3>3, FreshOnce
    <2> QED
        BY <2>1, <2>3 DEF OnceInv
<1> QED
    BY <1>1, <1>2, <1>3, <1>4, <1>5, <1>6, <1>7, <1>8, <1>9, Begins DEF Next

-----------------------------------------------------------------------------
(***************************************************************************)
(* find_document.  Owed are the records of the name that it must not miss:  *)
(* no newer record was removed, so the ones before them on the list only    *)
(* grow in number.  Each of them is already collected, or the offsets stay  *)
(* behind it: what the searches have taken (find.offset, and of the walk    *)
(* that runs what it skipped and collected) is no more than what lies       *)
(* before it, and the offset of the walk will not reach over it.            *)
(***************************************************************************)

Owed == {x \in (Named \cap find.base) \ (gone \cup find.matches \cup find.failed) :
            \A y \in gone : ~(y > x)}

\* The walk has x still ahead of it, and its offset ends before x.
Ahead(x) ==
    /\ x \in After
    /\ walk.skipped + Cardinality(walk.got) + Cardinality(Above(After, x)) >= walk.offset
    /\ walk.skipped + Cardinality(walk.got) <= Cardinality(Read)

\* The next offset, with n records taken, ends before x.
NotOver(x, n) == Cardinality(Above(live, x)) >= n

PageOwes ==
    find.pc = "list" /\ walk.pc = "page" =>
        /\ Cardinality(walk.got) < walk.limit
        /\ walk.skipped < walk.offset => walk.got = {}
        /\ \A x \in Owed : x \in walk.got \/ Ahead(x)

DoneOwes ==
    find.pc = "list" /\ walk.pc = "done" =>
        \A x \in Owed : \/ x \in walk.got
                        \/ walk.got # {} /\ NotOver(x, walk.offset + Cardinality(walk.got))

ScanOwes ==
    find.pc = "scan" => \A x \in Owed : x \in find.scan \/ NotOver(x, find.offset)

FindInv ==
    /\ find.base \subseteq live \cup gone
    /\ FindWalk /\ PageOwes /\ DoneOwes /\ ScanOwes
    /\ FindMisses

LEMMA OwedTypes ==
    ASSUME TypeOK, find.base \subseteq live \cup gone
    PROVE  Owed \in SUBSET live /\ Owed \in SUBSET Records
<1> QED
    BY WalkTypes DEF Owed

\* A page adds what it has behind the skipped ones, and holds nothing collected before.
LEMMA CollectedSize ==
    ASSUME TypeOK, walk.pc = "page"
    PROVE  /\ walk.got \cap Page = {}
           /\ Cardinality(Collected) = Cardinality(walk.got) + Cardinality(Page) - ToSkip
<1>1. /\ walk.got \in SUBSET Records /\ Page \in SUBSET Records
      /\ \A x \in walk.got : x >= walk.cursor
      /\ \A x \in Page : x < walk.cursor
      /\ walk.cursor \in Nat
    BY WalkTypes, PageTypes DEF TypeOK
<1>2. walk.got \cap Page = {}
    BY <1>1, RecordNumbers
<1>3. /\ Top(Page, ToSkip) \in SUBSET Page /\ Cardinality(Top(Page, ToSkip)) = ToSkip
      /\ ToSkip \in Nat /\ Cardinality(Page) \in Nat /\ Cardinality(walk.got) \in Nat
    BY SkipTypes, PageTypes, WalkTypes
<1>4. Cardinality(Page \ Top(Page, ToSkip)) = Cardinality(Page) - ToSkip
    BY <1>1, <1>3, Without
<1>5. /\ Page \ Top(Page, ToSkip) \in SUBSET Records
      /\ walk.got \cap (Page \ Top(Page, ToSkip)) = {}
    BY <1>1, <1>2
<1>6. Cardinality(Collected) = Cardinality(walk.got) + Cardinality(Page \ Top(Page, ToSkip))
    BY <1>1, <1>5, Disjoint DEF Collected
<1> QED
    BY <1>2, <1>3, <1>4, <1>6

\* Unless the page lies within the offset as a whole, the offset is over with it.
LEMMA OffsetOver ==
    ASSUME TypeOK, walk.skipped < walk.offset => walk.got = {}, Collected # {}
    PROVE  Passed >= walk.offset
<1>1. /\ ToSkip \in Nat /\ ToSkip <= Cardinality(Page) /\ Top(Page, ToSkip) \in SUBSET Page
      /\ Cardinality(Top(Page, ToSkip)) = ToSkip
      /\ walk.skipped < walk.offset /\ ToSkip < Cardinality(Page) => walk.skipped + ToSkip = walk.offset
      /\ Page \in SUBSET Records /\ Cardinality(Page) \in Nat
      /\ walk.skipped \in Nat /\ walk.offset \in Nat
    BY SkipTypes, PageTypes, WalkTypes
<1>2. CASE walk.skipped >= walk.offset
    BY <1>1, <1>2 DEF Passed
<1>3. CASE walk.skipped < walk.offset
    <2>1. Top(Page, ToSkip) # Page
        BY <1>3 DEF Collected
    <2>2. ToSkip < Cardinality(Page)
        BY <1>1, <2>1, Smaller
    <2> QED
        BY <1>1, <1>3, <2>2 DEF Passed
<1> QED
    BY <1>1, <1>2, <1>3

\* A record that is owed and on the page is not skipped.
LEMMA OwedOnPage ==
    ASSUME TypeOK, walk.skipped < walk.offset => walk.got = {}, NEW x \in Page, Ahead(x)
    PROVE  /\ x \in Page \ Top(Page, ToSkip) /\ x \in Collected
           /\ Above(After, x) = Above(Page, x)
<1>1. /\ Page \in SUBSET Records /\ Newest(Page, After) /\ Page \in SUBSET After
      /\ After \in SUBSET Records /\ ToSkip \in Nat /\ Cardinality(Page) \in Nat
      /\ walk.skipped \in Nat /\ walk.offset \in Nat
    BY PageTypes, SkipTypes, WalkTypes
<1>2. Above(After, x) = Above(Page, x)
    BY <1>1, RecordNumbers DEF Above, Newest
<1>3. Cardinality(Above(Page, x)) \in Nat
    BY <1>1, AboveSets
<1>4. Cardinality(Above(Page, x)) >= ToSkip
    <2>1. CASE walk.skipped < walk.offset
        <3>1. Cardinality(walk.got) = 0
            BY <2>1, FS_EmptySet
        <3>2. walk.skipped + Cardinality(Above(Page, x)) >= walk.offset
            BY <1>1, <1>2, <1>3, <3>1 DEF Ahead
        <3> QED
            BY <1>1, <1>3, <2>1, <3>2 DEF ToSkip, Least
    <2>2. CASE ~(walk.skipped < walk.offset)
        BY <1>3, <2>2 DEF ToSkip
    <2> QED
        BY <2>1, <2>2
<1>5. Top(Page, ToSkip) = {y \in Page : Cardinality(Above(Page, y)) < ToSkip}
    BY <1>1, TopIsFirst
<1>6. x \notin Top(Page, ToSkip)
    BY <1>1, <1>3, <1>4, <1>5
<1> QED
    BY <1>2, <1>6 DEF Collected

LEMMA GoesOnOwes ==
    ASSUME TypeOK, TypeOK', FindInv, find.pc = "list", walk.pc = "page", GoesOn,
           UNCHANGED <<live, find, gone>>
    PROVE  FindInv'
<1>1. /\ walk.offset \in Nat /\ walk.skipped \in Nat /\ Cardinality(walk.got) \in Nat
      /\ ToSkip \in Nat /\ Cardinality(Page) \in Nat /\ Cardinality(Read) \in Nat
      /\ Page \in SUBSET After /\ After \in SUBSET Records /\ Newest(Page, After)
      /\ live \in SUBSET Records
    BY WalkTypes, PageTypes, SkipTypes
<1>2. /\ walk'.cursor = Min(Page) /\ walk'.skipped = Passed /\ walk'.got = Collected
      /\ walk'.pc = "page" /\ walk'.kind = walk.kind /\ walk'.limit = walk.limit
      /\ walk'.offset = walk.offset
    BY DEF TypeOK, GoesOn
<1>3. Page # {} /\ Cardinality(Collected) < walk.limit
    BY DEF GoesOn
<1>4. Read' = Read \cup Page /\ After' = After \ Page
    BY CursorMoves
<1>5. Cardinality(Collected) = Cardinality(walk.got) + Cardinality(Page) - ToSkip
    BY CollectedSize
<1>6. walk.skipped < walk.offset => walk.got = {}
    BY DEF FindInv, PageOwes
<1>7. Passed < walk.offset => Collected = {}
    <2>1. Passed \in Nat
        BY SkipTypes
    <2> QED
        BY <1>1, <1>6, <2>1, OffsetOver
<1>8. Owed' = Owed
    BY DEF Owed
<1>9. ASSUME NEW x \in Owed PROVE x \in Collected \/ Ahead(x)'
    <2>1. CASE x \in walk.got
        BY <2>1 DEF Collected
    <2>2. CASE Ahead(x) /\ x \in Page
        BY <1>6, <2>2, OwedOnPage
    <2>3. CASE Ahead(x) /\ x \notin Page
        <3>1. x \in After \ Page
            BY <2>3 DEF Ahead
        <3>2. Cardinality(Above(After, x)) = Cardinality(Page) + Cardinality(Above(After \ Page, x))
            BY <1>1, <3>1, TopBehind
        <3>3. Cardinality(Above(After \ Page, x)) \in Nat
            BY <1>1, AboveSets
        <3>4. Cardinality(Read \cup Page) = Cardinality(Read) + Cardinality(Page)
            BY ReadAndPage
        <3>5. /\ walk.skipped + Cardinality(walk.got) + Cardinality(Above(After, x)) >= walk.offset
              /\ walk.skipped + Cardinality(walk.got) <= Cardinality(Read)
            BY <2>3 DEF Ahead
        <3>6. Passed + Cardinality(Collected) = walk.skipped + Cardinality(walk.got) + Cardinality(Page)
            BY <1>1, <1>5 DEF Passed
        <3>7. /\ Passed + Cardinality(Collected) + Cardinality(Above(After \ Page, x)) >= walk.offset
              /\ Passed + Cardinality(Collected) <= Cardinality(Read \cup Page)
            BY <1>1, <3>2, <3>3, <3>4, <3>5, <3>6
        <3>8. Above(After, x)' = Above(After \ Page, x)
            BY <1>4 DEF Above
        <3> QED
            BY <1>2, <1>4, <3>1, <3>7, <3>8 DEF Ahead
    <2>4. x \in walk.got \/ Ahead(x)
        BY DEF FindInv, PageOwes
    <2> QED
        BY <2>1, <2>2, <2>3, <2>4
<1>10. PageOwes'
    BY <1>2, <1>3, <1>7, <1>8, <1>9 DEF PageOwes
<1>11. FindWalk' /\ (find'.base \subseteq live' \cup gone')
    BY <1>2 DEF FindInv, FindWalk
<1>12. DoneOwes' /\ ScanOwes' /\ FindMisses'
    BY <1>2 DEF DoneOwes, ScanOwes, FindMisses
<1> QED
    BY <1>10, <1>11, <1>12 DEF FindInv

LEMMA EndsOwes ==
    ASSUME TypeOK, FindInv, find.pc = "list", walk.pc = "page", Ends,
           UNCHANGED <<live, find, gone>>
    PROVE  FindInv'
<1> DEFINE got == Top(Collected, walk.limit)
<1>1. /\ walk.offset \in Nat /\ walk.skipped \in Nat /\ walk.limit \in Nat
      /\ Cardinality(walk.got) \in Nat /\ walk.got \in SUBSET Records /\ walk.cursor \in Nat
      /\ ToSkip \in Nat /\ Cardinality(Page) \in Nat /\ Cardinality(Read) \in Nat
      /\ Page \in SUBSET After /\ After \in SUBSET Records /\ Newest(Page, After)
      /\ Page \in SUBSET Records /\ live \in SUBSET Records
      /\ Collected \in SUBSET Records /\ Cardinality(Collected) \in Nat
      /\ Passed = walk.skipped + ToSkip
    BY WalkTypes, PageTypes, SkipTypes DEF Passed
<1>2. /\ walk'.got = got /\ walk'.pc = "done" /\ walk'.kind = walk.kind
      /\ walk'.limit = walk.limit /\ walk'.offset = walk.offset
    BY DEF TypeOK, Ends
<1>3. walk.kind = "summaries" /\ walk.limit = PageMax /\ walk.limit > 0
    BY PageAssumption DEF FindInv, FindWalk
<1>4. Cardinality(Collected) >= walk.limit \/ Page = {} \/ Page = After
    BY <1>3 DEF Ends
<1>5. /\ got \in SUBSET Collected /\ Cardinality(got) \in Nat /\ got \in SUBSET Records
      /\ Cardinality(got) <= Cardinality(Collected)
      /\ got # Collected => Cardinality(got) = walk.limit
      /\ Collected # {} => got # {}
      /\ Newest(got, Collected)
    <2>1. got \in SUBSET Collected /\ Newest(got, Collected)
        BY <1>1, TopSize, TopIsFirst
    <2> QED
        BY <1>1, <1>3, <2>1, TopSize, Smaller
<1>6. got = {y \in Collected : Cardinality(Above(Collected, y)) < walk.limit}
    BY <1>1, TopIsFirst
<1> HIDE DEF got
<1>7. /\ walk.got \cap Page = {}
      /\ Cardinality(Collected) = Cardinality(walk.got) + Cardinality(Page) - ToSkip
    BY CollectedSize
<1>8. /\ Cardinality(walk.got) < walk.limit
      /\ walk.skipped < walk.offset => walk.got = {}
    BY DEF FindInv, PageOwes
<1>9. Collected # {} => Passed >= walk.offset
    BY <1>8, OffsetOver
<1>10. /\ \A y \in walk.got : y \in Nat /\ y >= walk.cursor
       /\ \A y \in Page : y \in Nat /\ y < walk.cursor
       /\ \A y \in After : y \in Nat /\ y < walk.cursor
    BY <1>1, RecordNumbers, PageTypes DEF TypeOK, After
<1>11. ASSUME NEW x \in walk.got PROVE x \in got
    <2>1. Above(Collected, x) \subseteq walk.got /\ x \notin Above(Collected, x)
        BY <1>1, <1>10 DEF Above, Collected
    <2>2. Cardinality(Above(Collected, x)) < Cardinality(walk.got)
          /\ Cardinality(Above(Collected, x)) \in Nat
        BY <1>1, <2>1, Smaller
    <2>3. Cardinality(Above(Collected, x)) < walk.limit
        BY <1>1, <1>8, <2>2
    <2> QED
        BY <1>6, <2>3 DEF Collected
<1>12. ASSUME NEW x, Ahead(x)
       PROVE  /\ Cardinality(Above(live, x)) = Cardinality(Read) + Cardinality(Above(After, x))
              /\ Cardinality(Above(After, x)) \in Nat /\ Cardinality(Above(live, x)) \in Nat
              /\ walk.skipped + Cardinality(walk.got) <= Cardinality(Read)
    <2>1. /\ Read \in SUBSET live /\ Newest(Read, live) /\ live \ Read = After
          /\ walk.skipped + Cardinality(walk.got) <= Cardinality(Read)
        BY <1>12, ReadAndPage DEF Ahead, Read
    <2>2. x \in live \ Read
        BY <1>12, <2>1 DEF Ahead
    <2>3. Cardinality(Above(live, x)) = Cardinality(Read) + Cardinality(Above(live \ Read, x))
        <3>1. live \in SUBSET Records /\ Read \in SUBSET live /\ Newest(Read, live)
            BY <1>1, <2>1
        <3> QED
            BY <2>2, <3>1, TopBehind
    <2>4. Cardinality(Above(After, x)) \in Nat /\ Cardinality(Above(live, x)) \in Nat
        BY <1>1, AboveSets
    <2> QED
        BY <2>1, <2>3, <2>4
<1>13. ASSUME NEW x \in Page, Ahead(x)
       PROVE  x \in got \/ (got # {} /\ NotOver(x, walk.offset + Cardinality(got)))
    <2> SUFFICES ASSUME x \notin got
                 PROVE  got # {} /\ NotOver(x, walk.offset + Cardinality(got))
        OBVIOUS
    <2> DEFINE A == Above(Page, x)
               T == Top(Page, ToSkip)
    <2>1. x \in Page \ T /\ x \in Collected /\ Above(After, x) = A
        BY <1>8, <1>13, OwedOnPage
    <2>2. got # {} /\ Passed >= walk.offset
        BY <1>5, <1>9, <2>1
    <2>3. got \subseteq Above(Collected, x)
        BY <1>1, <1>5, <2>1, RestBelow
    <2>4. /\ T \in SUBSET Page /\ Cardinality(T) = ToSkip /\ Newest(T, Page)
          /\ A \in SUBSET Page /\ A \in SUBSET Records /\ Cardinality(A) \in Nat
        BY <1>1, SkipTypes, TopIsFirst, AboveSets
    <2>5. T \subseteq A
        BY <1>1, <2>1, <2>4, RestBelow
    <2>6. Above(Collected, x) \subseteq walk.got \cup (A \ T)
        BY DEF Above, Collected
    <2> HIDE DEF A, T
    <2>7. Cardinality(A \ T) = Cardinality(A) - ToSkip
        BY <2>4, <2>5, Without
    <2>8. A \ T \in SUBSET Records /\ walk.got \cap (A \ T) = {}
        BY <1>7, <2>4
    <2>9. Cardinality(walk.got \cup (A \ T)) = Cardinality(walk.got) + Cardinality(A \ T)
        BY <1>1, <2>8, Disjoint
    <2>10. got \subseteq walk.got \cup (A \ T) /\ walk.got \cup (A \ T) \in SUBSET Records
        BY <1>1, <2>3, <2>6, <2>8
    <2>11. Cardinality(got) <= Cardinality(walk.got) + Cardinality(A) - ToSkip
        BY <2>7, <2>9, <2>10, Smaller
    <2>12. /\ Cardinality(Above(live, x)) = Cardinality(Read) + Cardinality(A)
           /\ Cardinality(Above(live, x)) \in Nat
           /\ walk.skipped + Cardinality(walk.got) <= Cardinality(Read)
        BY <1>12, <1>13, <2>1
    <2>13. Cardinality(Above(live, x)) >= walk.offset + Cardinality(got)
        BY <1>1, <1>5, <2>2, <2>4, <2>11, <2>12
    <2> QED
        BY <2>2, <2>13 DEF NotOver
<1>14. ASSUME NEW x, x \notin Page, Ahead(x)
       PROVE  got # {} /\ NotOver(x, walk.offset + Cardinality(got))
    <2>1. Page # {} /\ Page # After /\ x \in After
        BY <1>14, PageTypes DEF Ahead
    <2>2. Cardinality(Collected) >= walk.limit
        BY <1>4, <2>1
    <2>3. Collected # {}
        BY <1>1, <1>3, <2>2, FS_EmptySet
    <2>4. got # {} /\ Passed >= walk.offset
        BY <1>5, <1>9, <2>3
    <2>5. Page \subseteq Above(After, x)
        BY <1>1, <1>14, <2>1, RestBelow
    <2>6. Cardinality(Page) <= Cardinality(Above(After, x))
        BY <1>1, <2>5, AboveSets, Smaller
    <2>7. Cardinality(Above(live, x)) >= walk.offset + Cardinality(got)
        BY <1>1, <1>5, <1>7, <1>12, <1>14, <2>4, <2>6
    <2> QED
        BY <2>4, <2>7 DEF NotOver
<1>15. ASSUME NEW x \in Owed
       PROVE  x \in got \/ (got # {} /\ NotOver(x, walk.offset + Cardinality(got)))
    <2>1. x \in walk.got \/ Ahead(x)
        BY DEF FindInv, PageOwes
    <2> QED
        BY <1>11, <1>13, <1>14, <2>1
<1>16. Owed' = Owed /\ \A x, n : NotOver(x, n)' <=> NotOver(x, n)
    BY DEF Owed, NotOver, Above
<1>17. DoneOwes'
    BY <1>2, <1>15, <1>16 DEF DoneOwes
<1>18. FindWalk' /\ PageOwes' /\ ScanOwes' /\ FindMisses' /\ (find'.base \subseteq live' \cup gone')
    BY <1>2 DEF FindInv, FindWalk, PageOwes, ScanOwes, FindMisses
<1> QED
    BY <1>17, <1>18 DEF FindInv

\* A fresh walk of find_document from an offset that does not reach over what is owed.
LEMMA FreshOwes ==
    ASSUME TypeOK, TypeOK', NEW offset \in Nat, Walk("summaries", PageMax, offset),
           find'.pc = "list", find'.offset = offset, (find.base \subseteq live \cup gone)',
           \A x \in Owed' : NotOver(x, offset)'
    PROVE  FindInv'
<1>1. walk' = [pc |-> "page", kind |-> "summaries", limit |-> PageMax, offset |-> offset,
               cursor |-> MaxRecords + 1, skipped |-> 0, got |-> {}]
    BY DEF Walk, NoWalk
<1>2. live' \in SUBSET Records /\ Owed' \subseteq live'
    BY PageAssumption DEF TypeOK, Records, Owed
<1>3. After' = live' /\ Read' = {}
    BY <1>1, <1>2, RecordNumbers DEF After, Read
<1>4. Cardinality({}) = 0 /\ Cardinality(Read') = 0
    BY <1>3, FS_EmptySet
<1>5. ASSUME NEW x \in Owed' PROVE Ahead(x)'
    <2>1. Cardinality(Above(After', x)) >= offset /\ Cardinality(Above(After', x)) \in Nat
        BY <1>2, <1>3, <1>5, AboveSets DEF NotOver, Above
    <2>2. Above(After, x)' = Above(After', x)
        BY DEF Above
    <2> QED
        BY <1>1, <1>2, <1>3, <1>4, <2>1, <2>2 DEF Ahead
<1>6. PageOwes'
    BY <1>1, <1>4, <1>5, PageAssumption DEF PageOwes
<1>7. FindWalk' /\ DoneOwes' /\ ScanOwes' /\ FindMisses'
    BY <1>1 DEF FindWalk, DoneOwes, ScanOwes, FindMisses
<1> QED
    BY <1>6, <1>7 DEF FindInv

\* A page of summaries goes to the scan; an empty one ends the search, and then nothing
\* is owed any more.
LEMMA FindPageOwes ==
    ASSUME TypeOK, FindInv, FindPage
    PROVE  FindInv'
<1>1. /\ find.pc = "list" /\ walk.pc = "done" /\ walk' = NoWalk
      /\ UNCHANGED <<live, gone>> /\ walk.offset = find.offset
      /\ \A x \in Owed : \/ x \in walk.got
                         \/ walk.got # {} /\ NotOver(x, walk.offset + Cardinality(walk.got))
    BY DEF FindPage, FindInv, FindWalk, DoneOwes
<1>2. \A x, n : NotOver(x, n)' <=> NotOver(x, n)
    BY <1>1 DEF NotOver, Above
<1>3. CASE walk.got # {}
    <2>1. find' = [find EXCEPT !.pc = "scan", !.scan = walk.got,
                               !.offset = find.offset + Cardinality(walk.got)]
        BY <1>3 DEF FindPage
    <2>2. /\ find'.pc = "scan" /\ find'.scan = walk.got
          /\ find'.offset = find.offset + Cardinality(walk.got)
          /\ find'.base = find.base /\ find'.matches = find.matches /\ find'.failed = find.failed
        BY <2>1 DEF TypeOK
    <2>3. Owed' = Owed
        BY <1>1, <2>2 DEF Owed
    <2>4. ScanOwes'
        BY <1>1, <1>2, <2>2, <2>3 DEF ScanOwes
    <2> QED
        BY <1>1, <2>2, <2>4 DEF FindInv, FindWalk, PageOwes, DoneOwes, FindMisses
<1>4. CASE walk.got = {}
    <2>1. Owed = {}
        BY <1>1, <1>4
    <2>2. /\ find'.pc \in {"done", "unsupported"} /\ find'.limit = find.limit
          /\ find'.base = find.base /\ find'.matches = find.matches /\ find'.failed = find.failed
        BY <1>4 DEF FindPage, TypeOK
    <2>3. Owed' = {}
        BY <1>1, <2>1, <2>2 DEF Owed
    <2>4. FindMisses'
        BY <2>3 DEF FindMisses, Owed
    <2> QED
        BY <1>1, <2>2, <2>4 DEF FindInv, FindWalk, PageOwes, DoneOwes, ScanOwes
<1> QED
    BY <1>3, <1>4

\* A record that is owed is matched, or its read fails, when its turn comes.
LEMMA ScanOwed ==
    ASSUME TypeOK, FindInv, OnceInv', Scan
    PROVE  FindInv'
<1> DEFINE x == Max(find.scan)
           known == x \in InSummary \cup InBytes
<1>1. /\ find.pc = "scan" /\ UNCHANGED <<live, walk, gone, grew>>
      /\ find'.base = find.base /\ find'.limit = find.limit /\ find'.offset = find.offset
      /\ find'.scan = find.scan \ {x}
      /\ find'.pc = (IF find'.pushed >= find.limit THEN "done" ELSE "scan")
      /\ \/ /\ find'.failed = find.failed
            /\ find'.matches = IF known /\ x \in Named THEN find.matches \cup {x} ELSE find.matches
         \/ find'.failed = find.failed \cup {x} /\ find'.matches = find.matches
    BY ScanIs
<1> HIDE DEF x
<1>2. ~grew' => find'.pushed = Cardinality(find'.matches)
    BY DEF OnceInv, EachOnce
<1>3. x \in Named => known
    BY NameAssumption
<1>4. Owed' \subseteq Owed \ {x}
    BY <1>1, <1>2, <1>3 DEF Owed
<1>5. \A y, n : NotOver(y, n)' <=> NotOver(y, n)
    BY <1>1 DEF NotOver, Above
<1>6. ScanOwes'
    BY <1>1, <1>2, <1>4, <1>5 DEF FindInv, ScanOwes
<1>7. FindMisses'
    <2>1. find'.pc = "done" => find'.pushed >= find'.limit
        BY <1>1
    <2>2. grew' \in BOOLEAN /\ find'.pc # "unsupported"
        BY <1>1 DEF TypeOK
    <2> QED
        BY <1>2, <2>1, <2>2 DEF FindMisses
<1>8. find'.pc # "list" /\ (find'.base \subseteq live' \cup gone')
    BY <1>1 DEF FindInv
<1> QED
    BY <1>6, <1>7, <1>8 DEF FindInv, FindWalk, PageOwes, DoneOwes

\* Nothing that lies before an owed record is lost when others write.
LEMMA MoreBefore ==
    ASSUME TypeOK, live' \in SUBSET Records, UNCHANGED walk,
           NEW x \in live', x \in Records, Above(live, x) \subseteq Above(live', x)
    PROVE  /\ Ahead(x) => Ahead(x)'
           /\ \A n \in Nat : NotOver(x, n) => NotOver(x, n)'
<1>1. /\ live \in SUBSET Records /\ walk.cursor \in Nat /\ walk.skipped \in Nat
      /\ walk.offset \in Nat /\ Cardinality(walk.got) \in Nat
    BY WalkTypes
<1>2. Above(live, x)' = Above(live', x) /\ Above(After, x)' = Above(After', x)
    BY DEF Above
<1>3. /\ Cardinality(Above(live, x)) <= Cardinality(Above(live', x))
      /\ Cardinality(Above(live, x)) \in Nat /\ Cardinality(Above(live', x)) \in Nat
    BY <1>1, AboveSets, Smaller
<1>4. ASSUME Ahead(x) PROVE Ahead(x)'
    <2>1. x \in After /\ x < walk.cursor
        BY <1>4 DEF Ahead, After
    <2>2. /\ After' \in SUBSET Records /\ Read' \in SUBSET Records /\ x \in After'
          /\ Above(After, x) \subseteq Above(After', x) /\ Read \subseteq Read'
        <3>1. \A y \in Above(live, x) : y \in live'
            BY DEF Above
        <3>2. \A y \in live : y >= walk.cursor => y \in Above(live, x)
            BY <1>1, <2>1, RecordNumbers DEF Above
        <3> QED
            BY <1>1, <2>1, <3>1, <3>2 DEF After, Read, Above
    <2>3. /\ Cardinality(Above(After, x)) <= Cardinality(Above(After', x))
          /\ Cardinality(Above(After, x)) \in Nat /\ Cardinality(Above(After', x)) \in Nat
          /\ Cardinality(Read) <= Cardinality(Read')
          /\ Cardinality(Read) \in Nat /\ Cardinality(Read') \in Nat
        BY <2>2, AboveSets, Smaller
    <2>4. /\ walk.skipped + Cardinality(walk.got) + Cardinality(Above(After, x)) >= walk.offset
          /\ walk.skipped + Cardinality(walk.got) <= Cardinality(Read)
        BY <1>4 DEF Ahead
    <2>5. /\ walk.skipped + Cardinality(walk.got) + Cardinality(Above(After', x)) >= walk.offset
          /\ walk.skipped + Cardinality(walk.got) <= Cardinality(Read')
        BY <1>1, <2>3, <2>4
    <2> QED
        BY <1>2, <2>2, <2>5 DEF Ahead
<1>5. ASSUME NEW n \in Nat, NotOver(x, n) PROVE NotOver(x, n)'
    BY <1>2, <1>3, <1>5 DEF NotOver
<1> QED
    BY <1>4, <1>5

LEMMA OthersOwe ==
    ASSUME TypeOK, FindInv, Store \/ \E y \in live : Remove(y)
    PROVE  FindInv'
<1>1. /\ live \in SUBSET Records /\ Cardinality(walk.got) \in Nat /\ walk.offset \in Nat
      /\ find.offset \in Nat /\ Owed \in SUBSET live
    BY WalkTypes, OwedTypes DEF TypeOK, FindInv
<1>2. UNCHANGED <<walk, find>> /\ gone \subseteq gone' /\ (grew => grew')
    BY DEF Store, Remove
<1>3. /\ live' \in SUBSET Records /\ live \cup gone \subseteq live' \cup gone'
      /\ \A x \in Owed' : x \in Owed /\ x \in live' /\ Above(live, x) \subseteq Above(live', x)
    <2>1. CASE Store
        <3>1. stored + 1 \in Records
            BY <2>1, PageAssumption DEF Store, TypeOK, Records
        <3> QED
            BY <1>1, <2>1, <3>1 DEF Store, Owed, Above
    <2>2. ASSUME NEW y \in live, Remove(y)
          PROVE  /\ live' \in SUBSET Records /\ live \cup gone \subseteq live' \cup gone'
                 /\ \A x \in Owed' : x \in Owed /\ x \in live' /\ Above(live, x) \subseteq Above(live', x)
        <3>1. live' = live \ {y} /\ gone' = gone \cup {y}
            BY <2>2 DEF Remove
        <3>2. \A x \in Owed' : x \in Owed /\ x # y /\ ~(y > x)
            BY <1>2, <3>1 DEF Owed
        <3> QED
            BY <1>1, <3>1, <3>2 DEF Above
    <2> QED
        BY <2>1, <2>2
<1>4. ASSUME NEW x \in Owed'
      PROVE  /\ x \in Owed /\ (Ahead(x) => Ahead(x)')
             /\ \A n \in Nat : NotOver(x, n) => NotOver(x, n)'
    <2>1. x \in Owed /\ x \in live' /\ x \in Records /\ Above(live, x) \subseteq Above(live', x)
        BY <1>1, <1>3
    <2> QED
        BY <1>2, <1>3, <2>1, MoreBefore
<1>5. PageOwes'
    BY <1>2, <1>4 DEF FindInv, PageOwes
<1>6. DoneOwes'
    <2>1. walk.offset + Cardinality(walk.got) \in Nat
        BY <1>1
    <2> QED
        BY <1>2, <1>4, <2>1 DEF FindInv, DoneOwes
<1>7. ScanOwes'
    BY <1>1, <1>2, <1>4 DEF FindInv, ScanOwes
<1>8. FindWalk' /\ FindMisses' /\ (find'.base \subseteq live' \cup gone')
    BY <1>2, <1>3 DEF FindInv, FindWalk, FindMisses
<1> QED
    BY <1>5, <1>6, <1>7, <1>8 DEF FindInv

\* Nothing is owed by a query.
LEMMA QueryOwes ==
    ASSUME NEW kind, NEW limit, NEW offset, Begin(kind, limit, offset)
    PROVE  FindInv'
<1>1. find' = [NoFind EXCEPT !.base = live] /\ UNCHANGED live
    BY DEF Begin
<1>2. find'.pc = "idle" /\ find'.base = live
    BY <1>1 DEF NoFind
<1> QED
    BY <1>1, <1>2 DEF FindInv, FindWalk, PageOwes, DoneOwes, ScanOwes, FindMisses

LEMMA NextOwes == TypeInv /\ TypeInv' /\ OnceInv' /\ FindInv /\ [Next]_wvars => FindInv'
<1> SUFFICES ASSUME TypeInv, TypeInv', OnceInv', FindInv, [Next]_wvars PROVE FindInv'
    OBVIOUS
<1>0. TypeOK /\ TypeOK'
    BY DEF TypeInv
<1>1. CASE UNCHANGED wvars
    BY <1>1 DEF wvars, FindInv, FindWalk, PageOwes, DoneOwes, ScanOwes, FindMisses, Owed, Ahead,
                NotOver, After, Read, Above
<1>2. ASSUME NEW limit \in Limits, FindDocument(limit) PROVE FindInv'
    <2>1. /\ find' = [NoFind EXCEPT !.pc = "list", !.limit = limit, !.base = live]
          /\ Walk("summaries", PageMax, 0) /\ UNCHANGED live
        BY <1>2 DEF FindDocument
    <2>2. find'.pc = "list" /\ find'.offset = 0 /\ find'.base = live
        BY <2>1 DEF NoFind
    <2>3. ASSUME NEW x PROVE NotOver(x, 0)'
        <3>1. live' \in SUBSET Records
            BY <1>0, PageAssumption DEF TypeOK, Records
        <3>2. Cardinality(Above(live', x)) \in Nat
            BY <3>1, AboveSets
        <3> QED
            BY <3>2 DEF NotOver, Above
    <2>4. 0 \in Nat
        OBVIOUS
    <2> QED
        BY <1>0, <2>1, <2>2, <2>3, <2>4, FreshOwes
<1>3. CASE ScanEnd
    <2>1. /\ find.pc = "scan" /\ find.scan = {} /\ find' = [find EXCEPT !.pc = "list"]
          /\ Walk("summaries", PageMax, find.offset) /\ UNCHANGED <<live, gone>>
        BY <1>3 DEF ScanEnd
    <2>2. /\ find'.pc = "list" /\ find'.offset = find.offset /\ find.offset \in Nat
          /\ find'.base = find.base /\ find'.matches = find.matches /\ find'.failed = find.failed
        BY <1>0, <2>1 DEF TypeOK
    <2>3. Owed' = Owed
        BY <2>1, <2>2 DEF Owed
    <2>4. \A x \in Owed' : NotOver(x, find.offset)'
        BY <2>1, <2>3 DEF FindInv, ScanOwes, NotOver, Above
    <2>5. (find.base \subseteq live \cup gone)'
        BY <2>1, <2>2 DEF FindInv
    <2> QED
        BY <1>0, <2>1, <2>2, <2>4, <2>5, FreshOwes
<1>4. CASE NextPage
    <2>1. walk.pc = "page" /\ UNCHANGED <<live, find, gone, grew>> /\ (GoesOn \/ Ends \/ UNCHANGED walk)
        BY <1>0, <1>4, NextPageIs
    <2>2. CASE find.pc = "list" /\ (GoesOn \/ Ends)
        BY <1>0, <2>1, <2>2, GoesOnOwes, EndsOwes
    <2>4. CASE UNCHANGED walk
        BY <2>1, <2>4 DEF FindInv, FindWalk, PageOwes, DoneOwes, ScanOwes, FindMisses, Owed, Ahead,
                          NotOver, After, Read, Above
    <2>3. CASE find.pc # "list"
        BY <2>1, <2>3 DEF FindInv, FindWalk, PageOwes, DoneOwes, ScanOwes, FindMisses, Owed, NotOver,
                          Above
    <2> QED
        BY <2>1, <2>2, <2>3, <2>4
<1>5. ASSUME NEW limit \in Limits, NEW offset \in Offsets, NEW kind \in Kinds,
             Begin(kind, limit, offset)
      PROVE  FindInv'
    BY <1>5, QueryOwes
<1> QED
    BY <1>0, <1>1, <1>2, <1>3, <1>4, <1>5, FindPageOwes, ScanOwed, OthersOwe, Begins DEF Next

FindAll == TypeInv /\ OnceInv /\ FindInv

LEMMA FindAllHolds == (Init => FindAll) /\ (FindAll /\ [Next]_wvars => FindAll')
<1>1. Init => FindInv
    BY DEF Init, NoFind, FindInv, FindWalk, PageOwes, DoneOwes, ScanOwes, FindMisses
<1>2. Init => OnceInv
    BY FS_EmptySet DEF Init, NoFind, OnceInv, EachOnce, PageOnce, DoneOnce, ScanOnce
<1>3. Init => FindAll
    BY <1>1, <1>2, InitTypes DEF FindAll
<1>4. ASSUME FindAll, [Next]_wvars PROVE FindAll'
    <2>1. TypeInv /\ TypeInv' /\ FindWalk /\ FindInv /\ OnceInv
        BY <1>4, NextTypes DEF FindAll, FindInv
    <2>2. OnceInv'
        BY <1>4, <2>1, NextOnce
    <2>3. FindInv'
        BY <1>4, <2>1, <2>2, NextOwes
    <2> QED
        BY <2>1, <2>2, <2>3 DEF FindAll
<1> QED
    BY <1>3, <1>4

\* find_document: whatever is stored and removed while it pages and scans, a record of
\* the name that is on the list from beginning to end is found, unless as many others as
\* the limit were, the read of its bytes failed, a newer record was removed, or a record
\* was stored and the limit was reached with a match counted twice. The last can happen
\* in no other way: while nothing is stored no record is met twice (OnceInv).
THEOREM FoundUnlessMoved == Spec => []FindMisses
<1>1. FindAll => FindMisses
    BY DEF FindAll, FindInv
<1> QED
    BY <1>1, FindAllHolds, PTL DEF Spec

-----------------------------------------------------------------------------
(***************************************************************************)
(* What an undisturbed find_document returns.  The records it has looked at *)
(* are a first part of the list: as far as find.offset between the pages,   *)
(* and as far as that less what is left of the page within one.  It relies  *)
(* on each of its walks returning a window (WindowInv).                     *)
(***************************************************************************)

Looked == Top(live, find.offset) \ (IF find.pc = "scan" THEN find.scan ELSE {})

LookedInOrder ==
    find.pc \in {"list", "scan"} /\ calm =>
        /\ find.pc = "scan" => find.scan \subseteq Top(live, find.offset)
        /\ Newest(Looked, live)
        /\ find.matches = Named \cap Looked
        /\ Cardinality(find.matches) < find.limit

NewestInv == LookedInOrder /\ FindsNewest

\* The list up to the end of a window.
LEMMA TopAndWindow ==
    ASSUME NEW S \in SUBSET Records, NEW limit \in Nat, NEW offset \in Nat,
           NEW got, got = Window(S, limit, offset)
    PROVE  /\ Cardinality(got) \in Nat /\ got \in SUBSET Records
           /\ Top(S, offset + Cardinality(got)) = Top(S, offset) \cup got
           /\ Top(S, offset) \cap got = {}
           /\ limit > 0 /\ got = {} => Top(S, offset) = S
<1> DEFINE U == Top(S, offset)
           R == S \ U
<1>1. U \in SUBSET S /\ R \in SUBSET Records
    BY TopSize
<1>2. got = Top(R, limit)
    BY WindowIs
<1>3. /\ got \in SUBSET R /\ got \in SUBSET Records /\ Cardinality(got) \in Nat /\ Newest(got, R)
      /\ limit > 0 /\ R # {} => got # {}
    BY <1>1, <1>2, TopSize, TopIsFirst
<1>4. Window(S, Cardinality(got), offset) = got
    <2>1. Window(S, Cardinality(got), offset) = Top(R, Cardinality(got))
        BY <1>3, WindowIs
    <2> QED
        BY <1>1, <1>3, <2>1, NewestIsTop
<1>5. U \subseteq Top(S, offset + Cardinality(got))
    <2>1. /\ U = {x \in S : Cardinality(Above(S, x)) < offset}
          /\ Top(S, offset + Cardinality(got)) = {x \in S : Cardinality(Above(S, x)) < offset + Cardinality(got)}
        BY <1>3, TopIsFirst
    <2>2. \A x \in S : Cardinality(Above(S, x)) \in Nat
        BY AboveSets
    <2> QED
        BY <1>3, <2>1, <2>2
<1>6. Top(S, offset + Cardinality(got)) = U \cup got
    BY <1>4, <1>5 DEF Window
<1> QED
    BY <1>1, <1>3, <1>6

\* A page of an undisturbed search is what follows on the list; when nothing does, all
\* of it was looked at, and the matches are all there are.
LEMMA FindPageNewest ==
    ASSUME TypeOK, WindowInv, FindInv, NewestInv, FindPage
    PROVE  NewestInv'
<1>1. /\ find.pc = "list" /\ walk.pc = "done" /\ UNCHANGED <<live, calm>>
      /\ walk.kind = "summaries" /\ walk.limit = PageMax /\ walk.offset = find.offset
      /\ find.offset \in Nat /\ live \in SUBSET Records /\ find.limit \in Nat
    BY WalkTypes DEF FindPage, FindInv, FindWalk, TypeOK
<1>2. CASE ~calm
    BY <1>1, <1>2 DEF NewestInv, LookedInOrder, FindsNewest
<1>3. CASE calm
    <2>1. walk.got = Window(live, PageMax, find.offset)
        BY <1>1, <1>3 DEF WindowInv, WalkIsWindow
    <2>2. /\ Top(live, find.offset + Cardinality(walk.got)) = Top(live, find.offset) \cup walk.got
          /\ Top(live, find.offset) \cap walk.got = {}
          /\ walk.got = {} => Top(live, find.offset) = live
        BY <1>1, <2>1, TopAndWindow, PageAssumption
    <2>3. /\ Looked = Top(live, find.offset) /\ Newest(Looked, live)
          /\ find.matches = Named \cap Looked /\ Cardinality(find.matches) < find.limit
        BY <1>1, <1>3 DEF NewestInv, LookedInOrder, Looked
    <2>4. CASE walk.got # {}
        <3>1. /\ find'.pc = "scan" /\ find'.scan = walk.got /\ find'.matches = find.matches
              /\ find'.offset = find.offset + Cardinality(walk.got) /\ find'.limit = find.limit
            BY <2>4 DEF FindPage, TypeOK
        <3>2. Top(live, find.offset)' = Top(live, find'.offset)
            BY <1>1 DEF Top
        <3>3. Looked' = Looked /\ walk.got \subseteq Top(live, find.offset)'
            BY <2>2, <2>3, <3>1, <3>2 DEF Looked
        <3>4. LookedInOrder'
            BY <1>1, <2>3, <3>1, <3>3 DEF LookedInOrder
        <3> QED
            BY <3>1, <3>4 DEF NewestInv, FindsNewest
    <2>5. CASE walk.got = {}
        <3>1. /\ find'.pc \in {"done", "unsupported"} /\ find'.matches = find.matches
              /\ find'.limit = find.limit
            BY <2>5 DEF FindPage, TypeOK
        <3>2. find.matches = Named \cap live
            BY <2>2, <2>3, <2>5
        <3>3. Top(Named \cap live, find.limit) = Named \cap live
            <4>1. Named \cap live \in SUBSET Records
                BY <1>1
            <4>2. Cardinality(Named \cap live) < find.limit /\ Cardinality(Named \cap live) \in Nat
                BY <2>3, <3>2, <4>1, RecordSets
            <4>3. /\ Top(Named \cap live, find.limit) \in SUBSET (Named \cap live)
                  /\ Top(Named \cap live, find.limit) # Named \cap live
                       => Cardinality(Top(Named \cap live, find.limit)) = find.limit
                BY <1>1, <4>1, TopSize
            <4>4. Cardinality(Top(Named \cap live, find.limit)) <= Cardinality(Named \cap live)
                  /\ Cardinality(Top(Named \cap live, find.limit)) \in Nat
                BY <4>1, <4>3, Smaller
            <4> QED
                BY <1>1, <4>2, <4>3, <4>4
        <3>4. FindsNewest'
            BY <1>1, <3>1, <3>2, <3>3 DEF FindsNewest, Top
        <3> QED
            BY <3>1, <3>4 DEF NewestInv, LookedInOrder
    <2> QED
        BY <2>4, <2>5
<1> QED
    BY <1>2, <1>3

\* The next record of the page is the newest that was not looked at, so the first as
\* many as the limit that match are the newest of the name.
LEMMA ScanNewest ==
    ASSUME TypeOK, NewestInv, OnceInv', Scan
    PROVE  NewestInv'
<1> DEFINE x == Max(find.scan)
           P == Top(live, find.offset)
           L == P \ find.scan
<1>1. /\ find.pc = "scan" /\ find.scan # {} /\ find.scan \in SUBSET Records
      /\ UNCHANGED <<live, walk, gone>> /\ live \in SUBSET Records
      /\ find.limit \in Nat /\ find.offset \in Nat /\ find.matches \in SUBSET Records
    BY WalkTypes DEF Scan, TypeOK
<1>2. x \in find.scan /\ \A y \in find.scan : x >= y
    BY <1>1, MaxExists
<1>3. \/ find' = Scanned(x, x \in InSummary \cup InBytes) /\ calm' = calm
      \/ calm' = FALSE
    BY DEF Scan
<1> HIDE DEF x
<1>4. CASE calm' = FALSE
    BY <1>4 DEF NewestInv, LookedInOrder, FindsNewest
<1>5. CASE find' = Scanned(x, x \in InSummary \cup InBytes) /\ calm' = calm /\ calm
    <2>1. /\ find'.limit = find.limit /\ find'.offset = find.offset /\ find'.scan = find.scan \ {x}
          /\ find'.pc = (IF find'.pushed >= find.limit THEN "done" ELSE "scan")
          /\ find'.pushed = Cardinality(find'.matches)
          /\ find'.matches = IF x \in InSummary \cup InBytes /\ x \in Named
                             THEN find.matches \cup {x} ELSE find.matches
        BY <1>1, <1>5 DEF Scanned, TypeOK, OnceInv, EachOnce
    <2>2. find'.matches = IF x \in Named THEN find.matches \cup {x} ELSE find.matches
        BY <2>1, NameAssumption
    <2>3. /\ find.scan \subseteq P /\ Newest(L, live) /\ find.matches = Named \cap L
          /\ Cardinality(find.matches) < find.limit
        BY <1>1, <1>5 DEF NewestInv, LookedInOrder, Looked
    <2>4. P \in SUBSET live /\ Newest(P, live)
        BY <1>1, TopSize, TopIsFirst
    <2> DEFINE M == L \cup {x}
    <2>5. M = P \ (find.scan \ {x}) /\ M \in SUBSET live /\ find'.matches = Named \cap M
        BY <1>2, <2>2, <2>3, <2>4
    <2>6. Newest(M, live)
        <3>1. ASSUME NEW y \in live, y > x PROVE y \in L
            <4>1. y \in P
                BY <1>2, <2>3, <2>4, <3>1 DEF Newest
            <4>2. y \notin find.scan
                BY <1>1, <1>2, <3>1, RecordNumbers
            <4> QED
                BY <4>1, <4>2
        <3> QED
            BY <2>3, <2>5, <3>1 DEF Newest
    <2>7. Top(live, find.offset)' = P
        BY <1>1, <2>1 DEF Top
    <2> HIDE DEF L, P, M
    <2>8. find'.matches \in SUBSET Records /\ find'.matches \in SUBSET (Named \cap live)
          /\ Named \cap live \in SUBSET Records
        BY <1>1, <2>5
    <2>9. CASE Cardinality(find'.matches) >= find.limit
        <3>1. /\ Cardinality(find.matches) \in Nat /\ Cardinality(find'.matches) \in Nat
              /\ IsFiniteSet(find.matches)
            BY <1>1, <2>8, RecordSets
        <3>2. Cardinality(find.matches \cup {x}) <= Cardinality(find.matches) + 1
            <4>1. Cardinality(find.matches \cup {x})
                    = IF x \in find.matches THEN Cardinality(find.matches) ELSE Cardinality(find.matches) + 1
                BY <3>1, FS_AddElement
            <4> QED
                BY <3>1, <4>1
        <3>3. Cardinality(find'.matches) <= Cardinality(find.matches) + 1
            BY <2>2, <3>1, <3>2
        <3>4. Cardinality(find'.matches) = find.limit
            BY <1>1, <2>3, <2>9, <3>1, <3>3
        <3>5. Newest(find'.matches, Named \cap live)
            BY <2>5, <2>6, <2>8 DEF Newest
        <3>6. Top(Named \cap live, find.limit) = find'.matches
            BY <2>8, <3>4, <3>5, NewestIsTop
        <3>7. find'.pc = "done"
            BY <2>1, <2>9
        <3>8. FindsNewest'
            BY <1>1, <2>1, <3>6 DEF FindsNewest, Top
        <3> QED
            BY <3>7, <3>8 DEF NewestInv, LookedInOrder
    <2>10. CASE ~(Cardinality(find'.matches) >= find.limit)
        <3>1. find'.pc = "scan" /\ Cardinality(find'.matches) < find.limit
            BY <1>1, <2>1, <2>8, <2>10, RecordSets
        <3>2. Looked' = M
            BY <2>1, <2>5, <2>7, <3>1 DEF Looked
        <3>3. find'.scan \subseteq Top(live, find.offset)'
            BY <2>1, <2>3, <2>7
        <3>4. Newest(Looked, live)'
            BY <1>1, <2>6, <3>2 DEF Newest
        <3>5. LookedInOrder'
            BY <2>1, <2>5, <3>1, <3>2, <3>3, <3>4 DEF LookedInOrder
        <3> QED
            BY <3>1, <3>5 DEF NewestInv, FindsNewest
    <2> QED
        BY <2>9, <2>10
<1> QED
    BY <1>3, <1>4, <1>5 DEF NewestInv, LookedInOrder, FindsNewest

LEMMA NextNewest ==
    TypeInv /\ OnceInv' /\ WindowInv /\ FindInv /\ NewestInv /\ [Next]_wvars => NewestInv'
<1> SUFFICES ASSUME TypeInv, OnceInv', WindowInv, FindInv, NewestInv, [Next]_wvars PROVE NewestInv'
    OBVIOUS
<1>0. TypeOK /\ live \in SUBSET Records
    BY WalkTypes DEF TypeInv
<1>1. CASE UNCHANGED wvars \/ NextPage
    <2>1. UNCHANGED <<live, find, calm>>
        BY <1>0, <1>1, NextPageIs DEF wvars
    <2> QED
        BY <2>1 DEF NewestInv, LookedInOrder, FindsNewest, Looked, Top, Newest
<1>2. ASSUME NEW limit \in Limits, FindDocument(limit) PROVE NewestInv'
    <2>1. /\ find' = [NoFind EXCEPT !.pc = "list", !.limit = limit, !.base = live]
          /\ limit > 0 /\ UNCHANGED live
        BY <1>2 DEF FindDocument
    <2>2. find'.pc = "list" /\ find'.offset = 0 /\ find'.matches = {} /\ find'.limit = limit
        BY <2>1 DEF NoFind
    <2>3. Top(live, 0) = {}
        <3>1. Cardinality(Top(live, 0)) <= 0 /\ Cardinality(Top(live, 0)) \in Nat
              /\ Top(live, 0) \in SUBSET Records
            BY <1>0, TopSize
        <3> QED
            BY <3>1, RecordSets
    <2>4. Looked' = {}
        BY <2>1, <2>2, <2>3 DEF Looked, Top
    <2>5. Cardinality({}) < limit
        BY <2>1, FS_EmptySet
    <2> QED
        BY <2>2, <2>4, <2>5 DEF NewestInv, LookedInOrder, FindsNewest, Newest
<1>3. ASSUME NEW limit \in Limits, NEW offset \in Offsets, NEW kind \in Kinds,
             Begin(kind, limit, offset)
      PROVE  NewestInv'
    <2>1. find'.pc = "idle"
        BY <1>3 DEF Begin, NoFind
    <2> QED
        BY <2>1 DEF NewestInv, LookedInOrder, FindsNewest
<1>4. CASE ScanEnd
    <2>1. /\ find.pc = "scan" /\ find.scan = {} /\ UNCHANGED <<live, calm>>
          /\ find' = [find EXCEPT !.pc = "list"]
        BY <1>4 DEF ScanEnd
    <2>2. /\ find'.pc = "list" /\ find'.offset = find.offset /\ find'.matches = find.matches
          /\ find'.limit = find.limit
        BY <1>0, <2>1 DEF TypeOK
    <2>3. Looked' = Looked
        BY <2>1, <2>2 DEF Looked, Top
    <2> QED
        BY <2>1, <2>2, <2>3 DEF NewestInv, LookedInOrder, FindsNewest, Newest
<1>5. CASE Store \/ \E x \in live : Remove(x)
    BY <1>5 DEF Store, Remove, NewestInv, LookedInOrder, FindsNewest
<1> QED
    BY <1>0, <1>1, <1>2, <1>3, <1>4, <1>5, FindPageNewest, ScanNewest, Begins DEF Next

\* find_document: undisturbed, it returns the newest records of the name, as many as its
\* limit, through pages of any size.
THEOREM NewestFound == Spec => []FindsNewest
<1>1. Init => FindAll /\ WindowInv /\ NewestInv
    <2>1. Init => WindowInv /\ NewestInv
        BY DEF Init, NoFind, NoWalk, WindowInv, ReadInWindow, WalkIsWindow, NewestInv,
               LookedInOrder, FindsNewest
    <2> QED
        BY <2>1, FindAllHolds
<1>2. ASSUME FindAll, WindowInv, NewestInv, [Next]_wvars
      PROVE  FindAll' /\ WindowInv' /\ NewestInv'
    <2>1. TypeInv /\ TypeInv' /\ OnceInv' /\ FindInv /\ FindAll'
        BY <1>2, FindAllHolds DEF FindAll
    <2> QED
        BY <1>2, <2>1, NextWindow, NextNewest
<1>3. FindAll /\ WindowInv /\ NewestInv /\ [Next]_wvars => (FindAll /\ WindowInv /\ NewestInv)'
    BY <1>2
<1>4. NewestInv => FindsNewest
    BY DEF NewestInv
<1> QED
    BY <1>1, <1>3, <1>4, PTL DEF Spec
=============================================================================
