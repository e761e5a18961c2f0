--------------------------- MODULE ContentDirectory ---------------------------
(* Browse and Search: admission, the query against the database, the answer  *)
(* composed under the catalog lock, and renderers that page through it.      *)
EXTENDS Integers, FiniteSets, SequencesExt

CONSTANTS
    CdRenderers,   \* control points
    CdShelves,     \* generation -> the set of its objects
    CdRecents,     \* generation -> the synthetic children of "Recently Added"
    RecentId,      \* the container they are shown in
    CdAsks,        \* renderer -> what it may want listed
    Alias,         \* the short ids a client may ask by -> the object ids
    MaxActive,     \* MAX_ACTIVE_CATALOG_QUERIES
    MaxAttempts,   \* MAX_ATTEMPTS of query_stable_catalog_snapshot
    PageObjects,   \* MAX_SOAP_PAGE_OBJECTS
    Room,          \* objects that fit in one response
    MaxCalls       \* renderer -> how many requests it sends

ASSUME CdBounds == {MaxActive, MaxAttempts, PageObjects, Room} \subseteq Nat \ {0}

VARIABLES
    cdStored,  \* generation committed to the database
    cdShown,   \* generation of the catalog in memory (update_id)
    cdCache,   \* CatalogQueryCache: its generation and its pages
    cdActive,  \* QueryAdmission.active
    call,      \* the request of each renderer and where its thread is
    listing    \* what each renderer has collected

cdVars == <<cdStored, cdShown, cdCache, cdActive, call, listing>>

Generations == DOMAIN CdShelves
ById(g, id) == CHOOSE o \in CdShelves[g] : o.id = id
Known(g, id) == \E o \in CdShelves[g] : o.id = id
Children(g, id) == {o \in CdShelves[g] : o.parent = id}
NoPage == [ids |-> <<>>, total |-> 0]

\* What a cut of a sorted result keeps: OFFSET and LIMIT, skip and take.
Cut(seq, start, take) ==
    SubSeq(seq, start + 1, IF start + take < Len(seq) THEN start + take ELSE Len(seq))
IdsOf(seq) == [i \in 1 .. Len(seq) |-> seq[i].id]

-----------------------------------------------------------------------------
(* The order of a page.  A sort is a sequence of [key, desc]; without one    *)
(* folders come first, then titles.                                          *)

FolderRank(o) == IF o.folder THEN 0 ELSE 1

SqlOrder(sort) ==
    IF sort = <<>> THEN <<[key |-> "folder", desc |-> FALSE], [key |-> "title", desc |-> FALSE]>>
    ELSE sort
KeyOf(o, key) == IF key = "title" THEN o.title ELSE IF key = "class" THEN o.class ELSE FolderRank(o)

Precedes(a, b, spec) == IF spec.desc THEN KeyOf(a, spec.key) > KeyOf(b, spec.key)
                                     ELSE KeyOf(a, spec.key) < KeyOf(b, spec.key)
SameKey(a, b, spec) == KeyOf(a, spec.key) = KeyOf(b, spec.key)

\* ORDER BY the keys, then OBJECT_ID ascending.
SqlBefore(a, b, sort) ==
    LET specs == SqlOrder(sort)
        First == {i \in DOMAIN specs : ~SameKey(a, b, specs[i])}
    IN  IF First = {} THEN a.id < b.id
        ELSE Precedes(a, b, specs[CHOOSE i \in First : \A j \in First : i <= j])

SqlSorted(S, sort) ==
    LET Place(o) == Cardinality({p \in S : SqlBefore(p, o, sort)}) + 1
    IN  [i \in 1 .. Cardinality(S) |-> CHOOSE o \in S : Place(o) = i]

\* -1, 0 or 1, as the comparison of two children in memory.
Compare(a, b) == IF a < b THEN -1 ELSE IF a > b THEN 1 ELSE 0
cmp_keys(a, b, sort) ==
    LET Default == IF FolderRank(a) # FolderRank(b) THEN FolderRank(a) - FolderRank(b)
                   ELSE Compare(a.title, b.title)
        By(s) == (IF s.desc THEN -1 ELSE 1) * Compare(KeyOf(a, s.key), KeyOf(b, s.key))
        Differ == {i \in DOMAIN sort : By(sort[i]) # 0}
    IN  IF sort = <<>> THEN Default
        ELSE IF Differ = {} THEN 0
        ELSE By(sort[CHOOSE i \in Differ : \A j \in Differ : i <= j])
cmp_child_refs(a, b, sort) ==
    IF cmp_keys(a, b, sort) = 0 THEN Compare(a.id, b.id) ELSE cmp_keys(a, b, sort)

\* A stable sort of children held in no particular order.
controlled_sort(seq, sort) ==
    LET Before(i, j) == LET c == cmp_child_refs(seq[i], seq[j], sort) IN c < 0 \/ (c = 0 /\ i < j)
        Place(i) == Cardinality({j \in DOMAIN seq : Before(j, i)}) + 1
    IN  [n \in DOMAIN seq |-> seq[CHOOSE i \in DOMAIN seq : Place(i) = n]]
Unsorted(S) ==
    [i \in 1 .. Cardinality(S) |-> CHOOSE o \in S : Cardinality({p \in S : p.id >= o.id}) = i]

-----------------------------------------------------------------------------
(* The two ways to a page: SQL over the stored generation, and the catalog   *)
(* in memory.                                                                *)

\* Everything below root: WITH RECURSIVE scope, search_scope.
Closed(g, S) == \A o \in CdShelves[g] : o.parent \in S => o.id \in S
Reach == [g \in Generations |->
    LET Ids == {o.id : o \in CdShelves[g]} \cup {o.parent : o \in CdShelves[g]}
    IN  [root \in Ids |->
          CHOOSE S \in SUBSET Ids :
             /\ root \in S /\ Closed(g, S)
             /\ \A T \in SUBSET S : root \in T /\ Closed(g, T) => T = S]]
Below(g, root) == IF root \in DOMAIN Reach[g] THEN Reach[g][root] ELSE {root}

Wanted(ask, o) == ask.items => ~o.folder
query_search(g, ask) ==
    {o \in CdShelves[g] : /\ {o.id, o.parent, o.ref} \cap Below(g, ask.id) # {}
                          /\ Wanted(ask, o)}
query_children(g, ask) == Children(g, ask.id)

\* "Recently Added" keeps its own order unless the request sorts.
memory_children(g, ask) ==
    IF ask.id # RecentId THEN controlled_sort(Unsorted(Children(g, ask.id)), ask.sort)
    ELSE IF ask.sort = <<>> THEN CdRecents[g]
    ELSE controlled_sort(CdRecents[g], ask.sort)
item_in_scope_noRef(g, ask, o) == {o.id, o.parent} \cap Below(g, ask.id) # {}
item_in_scope(g, ask, o) == {o.id, o.parent, o.ref} \cap Below(g, ask.id) # {}
memory_search(g, ask) ==
    controlled_sort(Unsorted({o \in CdShelves[g] :
                      /\ IF o.folder THEN o.id \in Below(g, ask.id) ELSE item_in_scope(g, ask, o)
                      /\ Wanted(ask, o)}), ask.sort)

\* Both, for every request there is, whole and in order.
remap_object_id(id) == IF id \in DOMAIN Alias THEN Alias[id] ELSE id
Listed == {[a EXCEPT !.id = remap_object_id(@)] : a \in UNION {CdAsks[r] : r \in CdRenderers}}
SqlRows == [g \in Generations |-> [ask \in Listed |->
    SqlSorted(IF ask.op = "search" THEN query_search(g, ask) ELSE query_children(g, ask), ask.sort)]]
MemoryRows == [g \in Generations |-> [ask \in Listed |->
    IF ask.op = "search" THEN memory_search(g, ask) ELSE memory_children(g, ask)]]

\* An empty page past the end, and always the whole total.
PageOf(rows, start, take) == [ids |-> IdsOf(Cut(rows, start, take)), total |-> Len(rows)]
run_catalog_page(g, ask, start, take) == PageOf(SqlRows[g][ask], start, take)
memory_page(g, ask, start, take) == PageOf(MemoryRows[g][ask], start, take)

displayed_child_count(g, id) ==
    IF id = RecentId THEN Len(CdRecents[g]) ELSE Cardinality(Children(g, id))

-----------------------------------------------------------------------------
NoCall == [pc |-> "idle", ask |-> CHOOSE a \in UNION {CdAsks[r] : r \in CdRenderers} : TRUE,
         start |-> 0, tries |-> 0, before |-> 0, snap |-> NoPage, gen |-> 0, stopped |-> FALSE]
NoListing == [ids |-> <<>>, gen |-> 0, total |-> 0, state |-> "new", calls |-> 0]

CdInit ==
    /\ cdStored = 1 /\ cdShown = 1 /\ cdActive = 0
    /\ cdCache = [gen |-> 0, pages |-> {}]
    /\ call = [r \in CdRenderers |-> NoCall]
    /\ listing = [r \in CdRenderers |-> NoListing]

\* A pass commits the next generation, then publishes it under the write lock.
CdCommit ==
    /\ cdStored = cdShown /\ cdStored + 1 \in Generations
    /\ cdStored' = cdStored + 1
    /\ UNCHANGED <<cdShown, cdCache, cdActive, call, listing>>
CdPublish ==
    /\ cdShown' = cdStored /\ cdShown # cdStored
    /\ UNCHANGED <<cdStored, cdCache, cdActive, call, listing>>

Take(ask) == IF ask.count = 0 \/ ask.count > PageObjects THEN PageObjects ELSE ask.count
KeyFor(c) == <<c.ask.op, c.ask.id, c.ask.items, c.ask.sort, c.start, Take(c.ask)>>

\* A renderer asks for the next page of its listing, or starts another.
AskPage(r) ==
    /\ call[r].pc = "idle" /\ listing[r].calls < MaxCalls[r]
    /\ \E ask \in CdAsks[r] :
         /\ listing[r].state = "open" => ask = call[r].ask
         /\ call' = [call EXCEPT ![r] =
              [NoCall EXCEPT !.pc = "wait", !.ask = ask,
                           !.start = IF listing[r].state = "open" THEN Len(listing[r].ids) ELSE 0]]
    /\ listing' = [listing EXCEPT ![r].calls = @ + 1,
                     ![r].ids = IF listing[r].state = "open" THEN @ ELSE <<>>,
                     ![r].state = IF @ = "open" THEN @ ELSE "new"]
    /\ UNCHANGED <<cdStored, cdShown, cdCache, cdActive>>

\* The deadline passes, the server stops, or the work budget is spent.
StopQuery(r) ==
    /\ call[r].pc \notin {"idle", "fault"} /\ ~call[r].stopped
    /\ call' = [call EXCEPT ![r].stopped = TRUE]
    /\ UNCHANGED <<cdStored, cdShown, cdCache, cdActive, listing>>

AcquireQuery_early(r) ==
    /\ call[r].pc = "wait" /\ cdActive < MaxActive
    /\ cdActive' = cdActive + 1
    /\ call' = [call EXCEPT ![r].pc = IF call[r].stopped THEN "fault" ELSE "lookup"]
    /\ UNCHANGED <<cdStored, cdShown, cdCache, listing>>
\* QueryAdmission::acquire: the control is checked before a slot is looked for.
AcquireQuery(r) ==
    /\ call[r].pc = "wait"
    /\ \/ /\ call[r].stopped
          /\ call' = [call EXCEPT ![r].pc = "fault"] /\ UNCHANGED cdActive
       \/ /\ ~call[r].stopped /\ cdActive < MaxActive
          /\ cdActive' = cdActive + 1
          /\ call' = [call EXCEPT ![r].pc = "lookup"]
    /\ UNCHANGED <<cdStored, cdShown, cdCache, listing>>

LookupPage(r) ==
    /\ call[r].pc = "lookup"
    /\ \E c \in {[call[r] EXCEPT !.ask.id = remap_object_id(@)]} :
       \E hits \in {{e \in cdCache.pages : e.key = KeyFor(c)}} :
         call' = [call EXCEPT ![r] =
            IF c.ask.op = "metadata" THEN [@ EXCEPT !.pc = "compose"]
            ELSE IF cdCache.gen = cdShown /\ hits # {}
              THEN [@ EXCEPT !.pc = "compose", !.gen = cdShown,
                             !.snap = (CHOOSE e \in hits : TRUE).page]
            ELSE [@ EXCEPT !.pc = "before"]]
    /\ UNCHANGED <<cdStored, cdShown, cdCache, cdActive, listing>>

\* query_catalog_snapshot_once, its three steps.
ReadUpdateId(r) ==
    /\ call[r].pc = "before"
    /\ call' = [call EXCEPT ![r] =
         IF @.stopped THEN [@ EXCEPT !.pc = "compose"]
         ELSE [@ EXCEPT !.pc = "query", !.before = cdShown]]
    /\ UNCHANGED <<cdStored, cdShown, cdCache, cdActive, listing>>
QueryDatabase(r) ==
    /\ call[r].pc = "query"
    /\ \/ \E ask \in {[call[r].ask EXCEPT !.id = remap_object_id(@)]} :
            call' = [call EXCEPT ![r].pc = "after", ![r].gen = cdStored,
                       ![r].snap = run_catalog_page(cdStored, ask, call[r].start, Take(ask))]
       \/ call' = [call EXCEPT ![r].pc = "compose", ![r].gen = 0]  \* error: fall back
    /\ UNCHANGED <<cdStored, cdShown, cdCache, cdActive, listing>>
CompareAfter(r) ==
    /\ call[r].pc = "after"
    /\ \E c \in {call[r]} :
         call' = [call EXCEPT ![r] =
           IF ~c.stopped /\ c.before = c.gen /\ c.gen = cdShown THEN [c EXCEPT !.pc = "compose"]
           ELSE IF c.stopped \/ c.tries + 1 = MaxAttempts
             THEN [c EXCEPT !.pc = "compose", !.gen = 0]
           ELSE [c EXCEPT !.pc = "before", !.gen = 0, !.tries = @ + 1]]
    /\ UNCHANGED <<cdStored, cdShown, cdCache, cdActive, listing>>

Usable_anyCount(c, ask) == c.gen = cdShown
Usable_anyGeneration(c, ask) ==
    ask.op = "children" => c.snap.total = displayed_child_count(cdShown, ask.id)
\* A page from the database is used only for the generation in memory, and by
\* Browse only if it counts the children that memory shows.
Usable(c, ask) ==
    /\ c.gen = cdShown
    /\ ask.op = "children" =>
         c.snap.total = displayed_child_count(cdShown, ask.id)
\* The page the catalog lock is held for.
Composed(c, ask) ==
    IF c.stopped THEN NoPage
    ELSE IF ask.op = "metadata" THEN [ids |-> <<ask.id>>, total |-> 1]
    ELSE IF Usable(c, ask) THEN c.snap
    ELSE memory_page(cdShown, ask, c.start, Take(ask))

\* build_browse_bounded: what fits is returned, of an unchanged total.
Fitted_total(page) == [ids |-> Cut(page.ids, 0, Room), total |-> Len(Cut(page.ids, 0, Room))]
Fitted(page) == [ids |-> Cut(page.ids, 0, Room), total |-> page.total]
Refused(ask) == ask.op # "search" /\ ask.id # RecentId /\ ~Known(cdShown, ask.id)

\* Everything under the catalog lock; the permit is given back with the answer.
Compose(r) ==
    /\ call[r].pc = "compose"
    /\ cdActive' = cdActive - 1
    /\ \E c \in {call[r]} : \E ask \in {[c.ask EXCEPT !.id = remap_object_id(@)]} :
         /\ call' = [call EXCEPT ![r] =
               IF ~c.stopped /\ Refused(ask) THEN [@ EXCEPT !.pc = "fault"]
               ELSE [@ EXCEPT !.pc = "deliver", !.snap = Fitted(Composed(c, ask)), !.gen = cdShown]]
         /\ cdCache' = IF c.stopped \/ Refused(ask) \/ ask.op = "metadata" \/ ~Usable(c, ask)
                         THEN cdCache
                       ELSE [gen |-> cdShown,
                             pages |-> {[key |-> KeyFor([c EXCEPT !.ask = ask]), page |-> c.snap]}
                                         \cup IF cdCache.gen = cdShown THEN cdCache.pages ELSE {}]
    /\ UNCHANGED <<cdStored, cdShown, listing>>

\* handle_from: no answer of a stopped query leaves the server.
Delivered_always(c) == TRUE
Delivered(c) == ~c.stopped

\* The renderer adds the page to its listing; a new generation starts it again.
Deliver(r) ==
    /\ call[r].pc = "deliver"
    /\ \E c \in {call[r]} : \E old \in {listing[r]} :
         listing' = [listing EXCEPT ![r] =
           IF ~Delivered(c) THEN [@ EXCEPT !.state = "new", !.ids = <<>>]
           ELSE IF c.ask.op = "metadata" THEN
             [@ EXCEPT !.state = "done", !.ids = c.snap.ids, !.gen = c.gen]
           ELSE IF c.start > 0 /\ c.gen # old.gen THEN
             [@ EXCEPT !.state = "new", !.ids = <<>>]
           ELSE LET ids == old.ids \o c.snap.ids
                IN  [@ EXCEPT !.ids = ids, !.gen = c.gen, !.total = c.snap.total,
                       !.state = IF c.snap.ids = <<>> \/ Len(ids) >= c.snap.total
                                 THEN "done" ELSE "open"]]
    /\ call' = [call EXCEPT ![r].pc = "idle"]
    /\ UNCHANGED <<cdStored, cdShown, cdCache, cdActive>>

FailCall(r) ==
    /\ call[r].pc = "fault"
    /\ call' = [call EXCEPT ![r].pc = "idle"]
    /\ listing' = [listing EXCEPT ![r].state = "new", ![r].ids = <<>>]
    /\ UNCHANGED <<cdStored, cdShown, cdCache, cdActive>>

CdStep(r) ==
    \/ AcquireQuery(r) \/ LookupPage(r) \/ ReadUpdateId(r) \/ QueryDatabase(r) \/ CompareAfter(r)
    \/ Compose(r) \/ Deliver(r) \/ FailCall(r)

CdNext ==
    \/ CdCommit \/ CdPublish
    \/ \E r \in CdRenderers : AskPage(r) \/ StopQuery(r) \/ CdStep(r)

CdSpec == CdInit /\ [][CdNext]_cdVars /\ \A r \in CdRenderers : WF_cdVars(CdStep(r))

-----------------------------------------------------------------------------
\* What a listing is of: the container's children, or what the criteria select.
Meant == [g \in Generations |-> [ask \in Listed |->
    IF ask.op = "children" /\ ask.id = RecentId
      THEN IF ask.sort = <<>> THEN CdRecents[g]
           ELSE SqlSorted({CdRecents[g][i] : i \in DOMAIN CdRecents[g]}, ask.sort)
    ELSE SqlSorted(IF ask.op = "search" THEN query_search(g, ask) ELSE query_children(g, ask),
                   ask.sort)]]

\* The pages of one UpdateID add up: they are the listing of that generation from
\* its start, each object once and in order, whether each page came from the
\* database, the query cache or memory; TotalMatches is that listing's length, so a
\* renderer that counts NumberReturned reaches the end (soap, build_browse_bounded).
CdPagesAddUp ==
    \A r \in CdRenderers :
        LET l == listing[r]
            ask == [call[r].ask EXCEPT !.id = remap_object_id(@)]
        IN  l.state \in {"open", "done"} /\ ask.op \in {"children", "search"} =>
              /\ l.ids = IdsOf(Cut(Meant[l.gen][ask], 0, Len(l.ids)))
              /\ l.total = Len(Meant[l.gen][ask])
              /\ l.state = "done" => Len(l.ids) = l.total

\* At most MAX_ACTIVE_CATALOG_QUERIES compose at once, and a permit belongs to one.
CdPermitsHeld ==
    /\ cdActive = Cardinality({r \in CdRenderers :
                     call[r].pc \in {"lookup", "before", "query", "after", "compose"}})
    /\ cdActive <= MaxActive
=============================================================================
