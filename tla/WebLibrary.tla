------------------------------ MODULE WebLibrary ------------------------------
(* The library pages of the web interface: library(), continue_library() and   *)
(* folder::page of the server with their two caches, and the browser's         *)
(* LibraryController, which asks for the pages of one list side by side and    *)
(* shows the list when it has all of it.  Pages are computed in several steps, *)
(* between which the scanner may publish; a generation is a number that wraps, *)
(* the identity (epoch) of a cache does not.                                   *)
EXTENDS Naturals, Sequences, FiniteSets, SequencesExt

CONSTANTS
  WlContents,      \* what may be published: [list |-> ids, kids |-> children of WlFolder]
  WlFolder,        \* the id that is a folder in the folder view
  WlSaved,         \* the ids with saved progress, the latest first
  WlViews,         \* views the user opens
  WlSlots,         \* requests the browser has open at a time
  WlLimit,         \* entries of a page (200 and 100 in the code)
  WlBatch,         \* children read under one lock (256 in the code)
  WlModulus,       \* generations before a wrap (2^32 in the code)
  MaxPublications, MaxLoads, MaxWlFaults,
  WlNone

ASSUME WlAssumption ==
  /\ WlLimit \in Nat \ {0} /\ WlBatch \in Nat \ {0} /\ WlModulus \in Nat \ {0, 1}
  /\ WlViews \subseteq {"library", "folders", "continue"}

MAX_GENERATION_ATTEMPTS == 3
\* LIBRARY_RETRY_DELAYS_MS has two entries.
RETRIES == 2

VARIABLES
  wlDb,      \* the committed catalog [n, list, kids]
  wlCat,     \* the catalog in memory; wlCat.n stands for update_id
  wlQuery,   \* CatalogQueryCache: its epoch and entries
  wlFolders, \* FolderProjectionCache: its epoch, projections and child counts
  wlSlot,    \* the requests
  wlLoad,    \* LibraryController.load and WebApi.librarySnapshot
  wlBuilt,   \* complete lists whose cards are being built
  wlShown,   \* store.library when its status is ready
  wlPast,    \* ghost: everything ever published
  wlFaults

wlVars == <<wlDb, wlCat, wlQuery, wlFolders, wlSlot, wlLoad, wlBuilt, wlShown, wlPast, wlFaults>>
wlServer == <<wlDb, wlCat, wlPast>>
wlBrowser == <<wlLoad, wlBuilt, wlShown>>

Gen(n) == n % WlModulus
Stop(s, off) == IF off + WlLimit < Len(s) THEN off + WlLimit ELSE Len(s)
Cut(s, off) == SubSeq(s, off + 1, Stop(s, off))
IdsIn(c) == {c.list[i] : i \in 1..Len(c.list)}
Population(c) == Len(c.list) + c.kids

\* What a view lists of a catalog, and one page of it.
Known(ids, c) == SelectSeq(ids, LAMBDA x : x \in IdsIn(c))
Asked(view, c) == IF view = "continue" THEN Known(WlSaved, c) ELSE c.list
PageIds(view, c, off) ==
  IF view = "continue" THEN Known(Cut(WlSaved, off), c) ELSE Cut(c.list, off)

NoSlot == [pc |-> "idle"]
NoLoad == [id |-> 0, view |-> WlNone, pc |-> "idle", attempt |-> 0, born |-> 0,
           gen |-> WlNone, total |-> 0, next |-> 0, pages |-> {}]

WlInit ==
  /\ \E c \in WlContents : wlCat = [n |-> 0, list |-> c.list, kids |-> c.kids]
  /\ wlDb = wlCat /\ wlPast = <<wlCat>>
  /\ wlQuery = [epoch |-> 0, entries |-> {}]
  /\ wlFolders = [epoch |-> 0, ids |-> {}, counts |-> {}]
  /\ wlSlot = [s \in WlSlots |-> NoSlot]
  /\ wlLoad = NoLoad /\ wlBuilt = {} /\ wlShown = WlNone /\ wlFaults = 0

-----------------------------------------------------------------------------
(* The scanner: a commit, then the in-memory half under the catalog lock.     *)

WlCommit ==
  /\ wlDb = wlCat /\ wlCat.n < MaxPublications
  /\ \E c \in WlContents : wlDb' = [n |-> wlCat.n + 1, list |-> c.list, kids |-> c.kids]
  /\ UNCHANGED <<wlCat, wlPast, wlQuery, wlFolders, wlSlot, wlBrowser, wlFaults>>

\* apply_prepared_catalog_change with invalidate_catalog_query_cache: both
\* caches are emptied and get a new identity.
WlApply ==
  /\ wlDb # wlCat
  /\ wlCat' = wlDb /\ wlPast' = Append(wlPast, wlDb)
  /\ wlQuery' = [epoch |-> wlDb.n, entries |-> {}]
  /\ wlFolders' = [epoch |-> wlDb.n, ids |-> {}, counts |-> {}]
  /\ UNCHANGED <<wlDb, wlSlot, wlBrowser, wlFaults>>

-----------------------------------------------------------------------------
(* Answers. An answer takes the place of the request in its slot; `pub` is a  *)
(* ghost, the publication it was rendered from.                               *)

WebAnswer(s, a) ==
  wlSlot' = [wlSlot EXCEPT ![s] = [pc |-> "answered", load |-> @.load, view |-> @.view,
                                   off |-> @.off, ans |-> a]]

Fault(s, code) == WebAnswer(s, [code |-> code])

\* WebLibraryPage, labelled with the generation it was rendered under.
WebPage(s, ids, total, kids) ==
  WebAnswer(s, [code |-> "ok", gen |-> Gen(wlCat.n), ids |-> ids, total |-> total,
             kids |-> kids, pub |-> wlCat.n])

Go(s, pc) == wlSlot' = [wlSlot EXCEPT ![s].pc = pc]
Stale(s) == wlSlot[s].want # WlNone /\ wlSlot[s].want # Gen(wlCat.n)

\* query_budget_error: the query's time or work is used up.
Working(s) == wlSlot[s].pc \notin {"idle", "answered"}
Busy(s) ==
  /\ Working(s) /\ wlFaults < MaxWlFaults
  /\ wlFaults' = wlFaults + 1
  /\ Fault(s, "busy")
  /\ UNCHANGED <<wlServer, wlQuery, wlFolders, wlBrowser>>

\* continue_library: everything under one catalog lock.
ContinueLibrary(s) ==
  /\ wlSlot[s].pc = "ask" /\ wlSlot[s].view = "continue"
  /\ IF Stale(s) THEN Fault(s, "changed")
     ELSE LET ids == PageIds("continue", wlCat, wlSlot[s].off)
          IN WebPage(s, ids, Len(ids), WlNone)
  /\ UNCHANGED <<wlServer, wlQuery, wlFolders, wlBrowser, wlFaults>>

-----------------------------------------------------------------------------
(* library(): a page of the database, used when its generation is the one in  *)
(* memory, else a page of the catalog itself; three attempts.                 *)

\* The arguments, and the generation asked for, first without and then with the
\* catalog lock.
Library(s) ==
  /\ wlSlot[s].pc = "ask" /\ wlSlot[s].view = "library"
  /\ IF Stale(s) THEN Fault(s, "changed")
     ELSE wlSlot' = [wlSlot EXCEPT ![s] = [pc |-> "generation", load |-> @.load, view |-> @.view,
                                           off |-> @.off, want |-> @.want, try |-> 1]]
  /\ UNCHANGED <<wlServer, wlQuery, wlFolders, wlBrowser, wlFaults>>

CountsGeneration(s) ==
  /\ wlSlot[s].pc = "generation"
  /\ wlSlot' = [wlSlot EXCEPT ![s] = [pc |-> "cache", load |-> @.load, view |-> @.view,
                 off |-> @.off, want |-> @.want, try |-> @.try, gen |-> Gen(wlCat.n)]]
  /\ UNCHANGED <<wlServer, wlQuery, wlFolders, wlBrowser, wlFaults>>

\* CatalogQueryCache::get forgets every other generation.
Get(entries, key) == {e.page : e \in {x \in entries : x.key = key}}
OneOf(set) == IF set = {} THEN WlNone ELSE CHOOSE x \in set : TRUE

CacheLookup(s) ==
  /\ wlSlot[s].pc = "cache"
  /\ LET kept == {e \in wlQuery.entries : e.gen = wlSlot[s].gen}
     IN /\ wlQuery' = [wlQuery EXCEPT !.entries = kept]
        /\ wlSlot' = [wlSlot EXCEPT ![s] = [pc |-> "before", load |-> @.load, view |-> @.view,
                       off |-> @.off, want |-> @.want, try |-> @.try, gen |-> @.gen,
                       hit |-> OneOf(Get(kept, <<"page", @.off>>)),
                       counts |-> OneOf(Get(kept, <<"count">>)),
                       epoch |-> wlQuery.epoch, before |-> WlNone]]
  /\ UNCHANGED <<wlServer, wlFolders, wlBrowser, wlFaults>>

ReadGenerationBefore(s) ==
  /\ wlSlot[s].pc = "before"
  /\ wlSlot' = [wlSlot EXCEPT ![s].pc = "query", ![s].before = Gen(wlCat.n)]
  /\ UNCHANGED <<wlServer, wlQuery, wlFolders, wlBrowser, wlFaults>>

\* query_db_web_media: one read transaction; the counts of the cache spare it
\* the counting if they are of its generation.
Snapshot(s) ==
  LET c == wlSlot[s].counts
      good == c # WlNone /\ wlSlot[s].gen = Gen(wlDb.n)
  IN [gen |-> Gen(wlDb.n),
      page |-> [ids |-> Cut(wlDb.list, wlSlot[s].off),
                total |-> IF good THEN c.total ELSE Len(wlDb.list),
                pop |-> IF good THEN c.pop ELSE Population(wlDb)]]

Asking(s, snap) ==
  wlSlot' = [wlSlot EXCEPT ![s] = [pc |-> "after", load |-> @.load, view |-> @.view,
               off |-> @.off, want |-> @.want, try |-> @.try, epoch |-> @.epoch,
               before |-> @.before, hit |-> @.hit # WlNone, snap |-> snap]]

QueryDatabase(s) ==
  /\ wlSlot[s].pc = "query"
  /\ \/ /\ wlSlot[s].hit # WlNone
        /\ Asking(s, [gen |-> wlSlot[s].gen, page |-> wlSlot[s].hit])
        /\ UNCHANGED wlFaults
     \/ wlSlot[s].hit = WlNone /\ Asking(s, Snapshot(s)) /\ UNCHANGED wlFaults
     \/ /\ wlSlot[s].hit = WlNone /\ wlFaults < MaxWlFaults
        /\ Asking(s, WlNone) /\ wlFaults' = wlFaults + 1
  /\ UNCHANGED <<wlServer, wlQuery, wlFolders, wlBrowser>>

AttemptFailed(s) ==
  IF wlSlot[s].try = MAX_GENERATION_ATTEMPTS THEN Fault(s, "changed")
  ELSE wlSlot' = [wlSlot EXCEPT ![s] = [pc |-> "generation", load |-> @.load, view |-> @.view,
                                        off |-> @.off, want |-> @.want, try |-> @.try + 1]]

\* query_catalog_snapshot_once
ReadGenerationAfter(s) ==
  /\ wlSlot[s].pc = "after"
  /\ LET q == wlSlot[s]
     IN IF q.snap # WlNone /\ ~(q.before = q.snap.gen /\ q.snap.gen = Gen(wlCat.n))
        THEN AttemptFailed(s) ELSE Go(s, "settle")
  /\ UNCHANGED <<wlServer, wlQuery, wlFolders, wlBrowser, wlFaults>>

\* materialize_db_page
Listed(page) ==
  /\ page.pop = Population(wlCat)
  /\ \A i \in 1..Len(page.ids) : page.ids[i] \in IdsIn(wlCat)

\* CatalogQueryCache::insert
Insert(entries, key, page) ==
  {e \in entries : e.gen = Gen(wlCat.n) /\ e.key # key}
    \cup {[gen |-> Gen(wlCat.n), key |-> key, page |-> page]}

\* Mutation: only the generations are compared, which may have wrapped.
SameCatalog_noEpoch(q) == q.snap = WlNone \/ q.snap.gen = Gen(wlCat.n)

SameCatalog(q) ==
  /\ wlQuery.epoch = q.epoch
  /\ q.snap = WlNone \/ q.snap.gen = Gen(wlCat.n)

\* The end of library(), under the catalog lock.
LibraryPage(s) ==
  /\ wlSlot[s].pc = "settle"
  /\ LET q == wlSlot[s]
         page == q.snap.page
     IN IF ~SameCatalog(q) THEN AttemptFailed(s) /\ UNCHANGED wlQuery
        ELSE IF Stale(s) THEN Fault(s, "changed") /\ UNCHANGED wlQuery
        ELSE IF q.snap # WlNone /\ Listed(page)
        THEN /\ WebPage(s, page.ids, page.total, WlNone)
             /\ wlQuery' = IF q.hit THEN wlQuery
                 ELSE [wlQuery EXCEPT !.entries =
                         Insert(Insert(@, <<"count">>, [page EXCEPT !.ids = <<>>]),
                                <<"page", q.off>>, page)]
        ELSE WebPage(s, Cut(wlCat.list, q.off), Len(wlCat.list), WlNone) /\ UNCHANGED wlQuery
  /\ UNCHANGED <<wlServer, wlFolders, wlBrowser, wlFaults>>

-----------------------------------------------------------------------------
(* folder::page: the ids of a folder are copied in batches, so that a         *)
(* publication never waits for a long folder; every lock compares again.      *)

Moved(s) == Gen(wlCat.n) # wlSlot[s].gen
ItemsOf(set) == {e.value : e \in {x \in set : x.gen = Gen(wlCat.n)}}

Folder(s) ==
  /\ wlSlot[s].pc = "ask" /\ wlSlot[s].view = "folders"
  /\ LET ids == OneOf(ItemsOf(wlFolders.ids))
     IN IF Stale(s) THEN Fault(s, "changed")
        ELSE wlSlot' = [wlSlot EXCEPT ![s] =
               [pc |-> IF ids # WlNone \/ wlCat.list = <<>> THEN "select" ELSE "batch",
                load |-> @.load, view |-> @.view, off |-> @.off, gen |-> Gen(wlCat.n),
                epoch |-> wlFolders.epoch, ids |-> IF ids # WlNone THEN ids ELSE <<>>,
                length |-> Len(wlCat.list), count |-> WlNone]]
  /\ UNCHANGED <<wlServer, wlQuery, wlFolders, wlBrowser, wlFaults>>

CopyBatch(s) ==
  /\ wlSlot[s].pc = "batch"
  /\ LET q == wlSlot[s]
         start == Len(q.ids)
         end == IF start + WlBatch < q.length THEN start + WlBatch ELSE q.length
     IN IF Moved(s) \/ end > Len(wlCat.list) THEN Fault(s, "changed")
        ELSE wlSlot' = [wlSlot EXCEPT ![s].ids = @ \o SubSeq(wlCat.list, start + 1, end),
                                      ![s].pc = IF end = q.length THEN "select" ELSE "batch"]
  /\ UNCHANGED <<wlServer, wlQuery, wlFolders, wlBrowser, wlFaults>>

Selected(s) == Cut(wlSlot[s].ids, wlSlot[s].off)

SelectPage(s) ==
  /\ wlSlot[s].pc = "select"
  /\ IF Moved(s) \/ \E i \in 1..Len(Selected(s)) : Selected(s)[i] \notin IdsIn(wlCat)
     THEN Fault(s, "changed")
     ELSE Go(s, IF Contains(Selected(s), WlFolder) THEN "count" ELSE "publish")
  /\ UNCHANGED <<wlServer, wlQuery, wlFolders, wlBrowser, wlFaults>>

\* The number of children of a folder on the page, from the cache, whose lock
\* alone is held here, ...
CachedCount(s) ==
  /\ wlSlot[s].pc = "count"
  /\ LET cached == {e.value : e \in {x \in wlFolders.counts : x.gen = wlSlot[s].gen}}
     IN wlSlot' = [wlSlot EXCEPT ![s].count = OneOf(cached),
                                 ![s].pc = IF cached = {} THEN "counting" ELSE "publish"]
  /\ UNCHANGED <<wlServer, wlQuery, wlFolders, wlBrowser, wlFaults>>

\* ... or counted (count_folder_children).
CountChildren(s) ==
  /\ wlSlot[s].pc = "counting"
  /\ IF Moved(s) \/ WlFolder \notin IdsIn(wlCat) THEN Fault(s, "changed")
     ELSE wlSlot' = [wlSlot EXCEPT ![s].count = wlCat.kids, ![s].pc = "publish"]
  /\ UNCHANGED <<wlServer, wlQuery, wlFolders, wlBrowser, wlFaults>>

\* Mutation: the identity of the cache is not compared.
Current_noEpoch(s) == ~Moved(s)

Current(s) == ~Moved(s) /\ wlFolders.epoch = wlSlot[s].epoch

\* FolderProjectionCache::insert, insert_child_count: what is there stays.
Kept(set, value) ==
  IF ItemsOf(set) # {} \/ value = WlNone THEN set
  ELSE set \cup {[gen |-> Gen(wlCat.n), value |-> value]}

FolderPage(s) ==
  /\ wlSlot[s].pc = "publish"
  /\ IF Current(s)
     THEN /\ WebPage(s, Selected(s), Len(wlSlot[s].ids), wlSlot[s].count)
          /\ wlFolders' = [wlFolders EXCEPT !.ids = Kept(@, wlSlot[s].ids),
                                            !.counts = Kept(@, wlSlot[s].count)]
     ELSE Fault(s, "changed") /\ UNCHANGED wlFolders
  /\ UNCHANGED <<wlServer, wlQuery, wlBrowser, wlFaults>>

ServeStep(s) ==
  \/ ContinueLibrary(s) \/ Library(s) \/ CountsGeneration(s) \/ CacheLookup(s)
  \/ ReadGenerationBefore(s) \/ QueryDatabase(s) \/ ReadGenerationAfter(s) \/ LibraryPage(s)
  \/ Folder(s) \/ CopyBatch(s) \/ SelectPage(s) \/ CachedCount(s) \/ CountChildren(s)
  \/ FolderPage(s) \/ Busy(s)

-----------------------------------------------------------------------------
(* The browser: LibraryController.load and WebApi.librarySnapshot.            *)

Token == <<wlLoad.id, wlLoad.attempt>>
Fresh(id, view, attempt) ==
  [id |-> id, view |-> view, pc |-> "first", attempt |-> attempt, born |-> wlCat.n,
   gen |-> WlNone, total |-> 0, next |-> 0, pages |-> {}]

\* A navigation replaces the load; LIBRARY_LOADING clears the list.
Navigate(view) ==
  /\ wlLoad.id < MaxLoads
  /\ wlLoad' = Fresh(wlLoad.id + 1, view, 0)
  /\ wlShown' = WlNone
  /\ UNCHANGED <<wlServer, wlQuery, wlFolders, wlSlot, wlBuilt, wlFaults>>

Send(s, off, want) ==
  /\ wlSlot[s].pc = "idle"
  /\ wlSlot' = [wlSlot EXCEPT ![s] = [pc |-> "ask", load |-> Token, view |-> wlLoad.view,
                                      off |-> off, want |-> want]]

\* The first page names no generation, ...
AskFirst(s) ==
  /\ wlLoad.pc = "first" /\ Send(s, 0, WlNone)
  /\ wlLoad' = [wlLoad EXCEPT !.pc = "rest", !.next = WlLimit]
  /\ UNCHANGED <<wlServer, wlQuery, wlFolders, wlBuilt, wlShown, wlFaults>>

\* ... its generation is the one the workers ask for, side by side; the batches
\* of Continue watching are asked for one after the other.
Arrived == {p.off : p \in wlLoad.pages}
AskRest(s) ==
  /\ wlLoad.pc = "rest" /\ wlLoad.gen # WlNone /\ wlLoad.next < wlLoad.total
  /\ wlLoad.view = "continue" => wlLoad.next - WlLimit \in Arrived
  /\ Send(s, wlLoad.next, wlLoad.gen)
  /\ wlLoad' = [wlLoad EXCEPT !.next = @ + WlLimit]
  /\ UNCHANGED <<wlServer, wlQuery, wlFolders, wlBuilt, wlShown, wlFaults>>

\* validate(): the generation and the total of the first page, and a full page.
Valid(load, off, a) ==
  load.view # "continue" =>
    /\ a.gen = load.gen /\ a.total = load.total
    /\ Len(a.ids) = Stop([i \in 1..a.total |-> i], off) - off

WithPage(off, a) ==
  LET first == wlLoad.gen = WlNone
      total == IF wlLoad.view = "continue" THEN Len(WlSaved) ELSE a.total
  IN [wlLoad EXCEPT !.gen = IF first \/ wlLoad.view = "continue" THEN a.gen ELSE @,
                    !.total = IF first THEN total ELSE @,
                    !.pages = @ \cup {[off |-> off, ids |-> a.ids]}]

\* libraryRetryDelay: what may pass by itself is tried again from the first
\* page, without a generation.
Retried ==
  IF wlLoad.attempt < RETRIES
  THEN [wlLoad EXCEPT !.pc = "backoff", !.attempt = @ + 1] ELSE [wlLoad EXCEPT !.pc = "error"]

\* An answer of a load that was replaced or has failed reaches nobody.
Receive(s) ==
  /\ wlSlot[s].pc = "answered"
  /\ wlSlot' = [wlSlot EXCEPT ![s] = NoSlot]
  /\ LET a == wlSlot[s].ans
         off == wlSlot[s].off
     IN wlLoad' =
          IF ~(wlSlot[s].load = Token /\ wlLoad.pc = "rest") THEN wlLoad
          ELSE IF a.code # "ok" THEN Retried
          ELSE IF ~Valid(WithPage(off, a), off, a)
          THEN IF a.gen # wlLoad.gen \/ a.total # wlLoad.total THEN Retried
               ELSE [wlLoad EXCEPT !.pc = "error"]
          ELSE WithPage(off, a)
  /\ UNCHANGED <<wlServer, wlQuery, wlFolders, wlBuilt, wlShown, wlFaults>>

Wake ==
  /\ wlLoad.pc = "backoff"
  /\ wlLoad' = Fresh(wlLoad.id, wlLoad.view, wlLoad.attempt)
  /\ UNCHANGED <<wlServer, wlQuery, wlFolders, wlSlot, wlBuilt, wlShown, wlFaults>>

\* With every page there, the cards are built batch after batch (setTimeout).
Complete ==
  wlLoad.gen # WlNone
  /\ \A k \in 0..wlLoad.total : k * WlLimit < wlLoad.total => k * WlLimit \in Arrived
EntriesOf(pages) ==
  FlattenSeq([k \in 1..Cardinality(pages) |->
                (CHOOSE p \in pages : p.off = (k - 1) * WlLimit).ids])
Build ==
  /\ wlLoad.pc = "rest" /\ Complete
  /\ wlBuilt' = wlBuilt \cup {[id |-> wlLoad.id, view |-> wlLoad.view, gen |-> wlLoad.gen,
                               list |-> EntriesOf(wlLoad.pages),
                               born |-> wlLoad.born, done |-> wlCat.n]}
  /\ wlLoad' = [wlLoad EXCEPT !.pc = "built"]
  /\ UNCHANGED <<wlServer, wlQuery, wlFolders, wlSlot, wlShown, wlFaults>>

\* Mutation: a finished list is published whatever the user opened meanwhile.
Wanted_always(b) == b.id <= wlLoad.id

Wanted(b) == b.id = wlLoad.id

\* LIBRARY_SUCCESS
Show(b) ==
  /\ b \in wlBuilt
  /\ wlBuilt' = wlBuilt \ {b}
  /\ wlShown' = IF Wanted(b) THEN b ELSE wlShown
  /\ UNCHANGED <<wlServer, wlQuery, wlFolders, wlSlot, wlLoad, wlFaults>>

WlNext ==
  \/ WlCommit \/ WlApply
  \/ \E s \in WlSlots : ServeStep(s) \/ AskFirst(s) \/ AskRest(s) \/ Receive(s)
  \/ \E view \in WlViews : Navigate(view)
  \/ Wake \/ Build \/ \E b \in wlBuilt : Show(b)

WlSpec == WlInit /\ [][WlNext]_wlVars

-----------------------------------------------------------------------------
(* Properties.                                                                *)

\* The steps of a request and of a load are the ones named above.
WlTypes ==
  /\ \A s \in WlSlots : wlSlot[s].pc \in {"idle", "ask", "generation", "cache", "before", "query",
       "after", "settle", "batch", "select", "count", "counting", "publish", "answered"}
  /\ wlLoad.pc \in {"idle", "first", "rest", "backoff", "built", "error"}

\* An answer is one publication's page, its total and its label, although it was
\* computed in steps between which the scanner may publish.
AnswersOfOneCatalog ==
  \A s \in WlSlots : wlSlot[s].pc = "answered" /\ wlSlot[s].ans.code = "ok" =>
    LET a == wlSlot[s].ans
        c == wlPast[a.pub + 1]
    IN /\ a.gen = Gen(a.pub) /\ a.ids = PageIds(wlSlot[s].view, c, wlSlot[s].off)
       /\ a.total = IF wlSlot[s].view = "continue" THEN Len(a.ids) ELSE Len(c.list)
       /\ a.kids \in {WlNone, c.kids}

\* What the caches hold for the current generation is of the current catalog.
CachesCurrent ==
  /\ \A e \in wlQuery.entries : e.gen = Gen(wlCat.n) =>
       /\ e.page.total = Len(wlCat.list) /\ e.page.pop = Population(wlCat)
       /\ e.key[1] = "page" => e.page.ids = Cut(wlCat.list, e.key[2])
  /\ ItemsOf(wlFolders.ids) \subseteq {wlCat.list}
  /\ ItemsOf(wlFolders.counts) \subseteq {wlCat.kids}

\* The list on the screen belongs to what the user opened last and is the whole
\* list of one publication, never pages of two; unless the generation wrapped
\* while it was being loaded.
ListsWhole ==
  wlShown # WlNone =>
    /\ wlShown.id = wlLoad.id /\ wlShown.view = wlLoad.view
    /\ wlShown.done - wlShown.born < WlModulus =>
         \E n \in wlShown.born..wlShown.done :
           wlShown.gen = Gen(n) /\ wlShown.list = Asked(wlShown.view, wlPast[n + 1])

WebListsWhole == WlTypes /\ AnswersOfOneCatalog /\ CachesCurrent /\ ListsWhole
=============================================================================
