-------------------------- MODULE CatalogPublication --------------------------
(***************************************************************************)
(* How a change of the media library becomes visible.  A scanner thread    *)
(* prepares it in a private copy of the database (the stage), merges it    *)
(* into the live database in one transaction, and then brings the          *)
(* in-memory catalog and SystemUpdateID up to it; renderers write playback *)
(* bookmarks to the same database and the same catalog meanwhile, and      *)
(* Browse answers are assembled from a database page and the catalog.      *)
(*                                                                         *)
(* An item stands for a DETAILS row with the objects that show it: its     *)
(* value is a version of the file, 0 when there is none.  A bookmark is a  *)
(* number, shown as 0 when it has no row.  A page of a Browse answer is    *)
(* the item table it was computed from, because ids and order depend on    *)
(* the whole of it.  A transaction is one action.                          *)
(***************************************************************************)
EXTENDS Integers, FiniteSets

CONSTANTS
    Items,      \* files under the media roots
    Version,    \* contents a file may have, without 0
    Mark,       \* values of a bookmark, with 0
    Scanners,   \* threads that run passes: startup and inotify, periodic rescan
    Clients,    \* SOAP requests that set a bookmark
    Readers,    \* SOAP Browse and Search requests
    Budget,     \* how often each kind of event may happen
    None

Events == {"change", "pass", "fail", "write", "oneshot", "crash"}
MAX_ATTEMPTS == 3

ASSUME PublicationAssumption ==
    /\ Version \subseteq Nat \ {0}
    /\ Mark \subseteq Nat /\ 0 \in Mark
    /\ Budget \in [Events -> Nat]
    /\ None \notin Nat \cup Scanners \cup Clients
    /\ Scanners \cap Clients = {}

\* A table of items, a table of bookmarks, a page with the generation it was
\* read under, a prepared change, a committed one and a bookmark request.
Table == [Items -> Version \cup {0}]
Marks == [Items -> Mark \cup {None}]
Page == [gen : Nat, page : Table]
Prepared == [replacement : BOOLEAN, rows : Table, expire : BOOLEAN]
Update == [changed : SUBSET Items, rows : Table, marks : [Items -> Mark], id : Nat]
Request == [item : Items, value : Mark, expected : Mark \cup {None}]

ASSUME NoneAssumption == None \notin Prepared \cup Update \cup Request \cup Page

Empty == [i \in Items |-> 0]
NoMarks == [i \in Items |-> None]

\* Mutant: a missing row is not read as zero.
Shown_raw(m) == m

\* A catalog item without a BOOKMARKS row, or without a DETAILS row, shows 0.
Shown(m) == [i \in Items |-> IF m[i] = None THEN 0 ELSE m[i]]

VARIABLES
    disk,           \* the files
    liveRows, liveMarks, oldMarks, liveId, liveEpoch,   \* the live database
    stageRows, stageMarks, stageEpoch, journal,         \* the stage
    session, invalidated, outstanding, resetEpoch,      \* ScanSession
    rows, marks, updateId,      \* App: the catalog and its generation
    cache,          \* App::catalog_query_cache, one key
    gate,           \* ScanControl::gate
    publication,    \* App::catalog_publication
    spc, prepared, update,      \* scanners
    bpc, request,               \* bookmark writers
    rpc, before, snapshot, tries, answer,   \* readers
    used            \* how much of Budget is spent

live == <<liveRows, liveMarks, oldMarks, liveId, liveEpoch>>
stage == <<stageRows, stageMarks, stageEpoch, journal>>
sess == <<session, invalidated, outstanding, resetEpoch>>
app == <<rows, marks, updateId, cache>>
locks == <<gate, publication>>
scanner == <<spc, prepared, update>>
client == <<bpc, request>>
reader == <<rpc, before, snapshot, tries, answer>>
vars == <<disk, live, stage, sess, app, locks, scanner, client, reader, used>>

Init ==
    /\ disk \in Table
    /\ liveRows \in Table /\ liveMarks = NoMarks /\ oldMarks = {}
    /\ liveId = 0 /\ liveEpoch = 0
    /\ stageRows = Empty /\ stageMarks = NoMarks
    /\ stageEpoch = 0 /\ journal = {}
    /\ session = FALSE /\ invalidated = TRUE
    /\ outstanding = None /\ resetEpoch = None
    /\ rows = liveRows /\ marks = Empty /\ updateId = 0
    /\ cache = None
    /\ gate = None /\ publication = None
    /\ spc = [t \in Scanners |-> "idle"]
    /\ prepared = [t \in Scanners |-> None]
    /\ update = [t \in Scanners |-> None]
    /\ bpc = [b \in Clients |-> "idle"]
    /\ request = [b \in Clients |-> None]
    /\ rpc = [r \in Readers |-> "idle"]
    /\ before = [r \in Readers |-> 0]
    /\ snapshot = [r \in Readers |-> None]
    /\ tries = [r \in Readers |-> 0]
    /\ answer = [r \in Readers |-> None]
    /\ used = [e \in Events |-> 0]

Spend(e) == used[e] < Budget[e] /\ used' = [used EXCEPT ![e] = @ + 1]

-----------------------------------------------------------------------------
(* The files and the clock *)

\* A file appears, changes or goes.
DiskChange ==
    /\ Spend("change")
    /\ \E i \in Items, v \in Version \cup {0} :
        v # disk[i] /\ disk' = [disk EXCEPT ![i] = v]
    /\ UNCHANGED <<live, stage, sess, app, locks, scanner, client, reader>>

\* A bookmark grows older than the retention limit.
Age ==
    /\ \E i \in Items : liveMarks[i] # None /\ oldMarks' = oldMarks \cup {i}
    /\ UNCHANGED <<disk, liveRows, liveMarks, liveId, liveEpoch, stage, sess,
                   app, locks, scanner, client, reader, used>>

-----------------------------------------------------------------------------
(* A pass of a scanner *)

Goto(t, pc) == spc' = [spc EXCEPT ![t] = pc]

\* Mutant: the pass does not wait for the gate.
StartPass_no_gate(t) ==
    /\ spc[t] = "idle"
    /\ Spend("pass")
    /\ gate' = t /\ Goto(t, "begin")
    /\ UNCHANGED <<disk, live, stage, sess, app, publication, prepared, update,
                   client, reader>>

\* The thread takes the scan gate and keeps it for the whole pass.
StartPass(t) ==
    /\ spc[t] = "idle" /\ gate = None
    /\ Spend("pass")
    /\ gate' = t /\ Goto(t, "begin")
    /\ UNCHANGED <<disk, live, stage, sess, app, publication, prepared, update,
                   client, reader>>

\* The pass gives up: whatever it prepared is dropped.
EndPass(t) ==
    /\ Goto(t, "idle") /\ gate' = None
    /\ prepared' = [prepared EXCEPT ![t] = None]
    /\ update' = [update EXCEPT ![t] = None]

\* Mutant: the stage takes the epoch the live database has by now.
finish_publication_reads_epoch ==
    \/ /\ resetEpoch = None /\ UNCHANGED <<stage, sess, used>>
    \/ /\ resetEpoch # None
       /\ resetEpoch' = None /\ UNCHANGED <<session, outstanding>>
       /\ stageEpoch' = liveEpoch /\ journal' = {}
       /\ UNCHANGED <<stageRows, stageMarks, invalidated, used>>

\* finish_publication: the stage takes the epoch its changes were merged
\* under, or is given up when that fails.
finish_publication ==
    \/ /\ resetEpoch = None /\ UNCHANGED <<stage, sess, used>>
    \/ /\ resetEpoch # None
       /\ resetEpoch' = None /\ UNCHANGED <<session, outstanding>>
       /\ \/ /\ stageEpoch' = resetEpoch /\ journal' = {}
             /\ UNCHANGED <<stageRows, stageMarks, invalidated, used>>
          \/ /\ Spend("fail")
             /\ invalidated' = TRUE /\ UNCHANGED stage

\* rebackup: a fresh copy of the live database, also for a new session.
Rebackup(t) ==
    /\ spc[t] = "begin"
    /\ ~session \/ invalidated
    /\ session' = TRUE /\ invalidated' = FALSE
    /\ outstanding' = None /\ resetEpoch' = None
    /\ stageRows' = liveRows /\ stageMarks' = liveMarks
    /\ stageEpoch' = liveEpoch /\ journal' = {}
    /\ UNCHANGED <<disk, live, app, locks, scanner, client, reader, used>>

\* The copy fails: the session has no stage and stays invalidated.
RebackupFails(t) ==
    /\ spc[t] = "begin"
    /\ ~session \/ invalidated
    /\ Spend("fail")
    /\ EndPass(t)
    /\ UNCHANGED <<disk, live, stage, sess, app, publication, client, reader>>

\* begin_prepare on a stage that is still good.
BeginPrepare(t) ==
    /\ spc[t] = "begin"
    /\ session /\ ~invalidated /\ outstanding = None
    /\ outstanding' = t /\ journal' = {}
    /\ Goto(t, "scan")
    /\ UNCHANGED <<disk, live, stageRows, stageMarks, stageEpoch, session,
                   invalidated, resetEpoch, app, locks, prepared, update,
                   client, reader, used>>

\* The walk brings the stage up to the disk, for the dirty paths or for all
\* of the library; triggers journal what changes and delete the bookmark of a
\* deleted row.
Walked(dirty) == [i \in Items |-> IF i \in dirty THEN disk[i] ELSE stageRows[i]]

Walk(dirty) ==
    /\ stageRows' = Walked(dirty)
    /\ stageMarks' =
            [i \in Items |-> IF Walked(dirty)[i] = 0 THEN None ELSE stageMarks[i]]
    /\ journal' = journal \cup {i \in Items : Walked(dirty)[i] # stageRows[i]}
    /\ UNCHANGED stageEpoch

\* A scan or a repair carries a replacement catalog, a reconciliation only the
\* journal; a pass over the whole library may also expire bookmarks.
Scan(t, dirty, replacement, expire) ==
    /\ spc[t] = "scan"
    /\ expire => dirty = Items
    /\ Walk(dirty)
    /\ prepared' = [prepared EXCEPT ![t] =
            [replacement |-> replacement, rows |-> Walked(dirty), expire |-> expire]]
    /\ Goto(t, "prepared")
    /\ UNCHANGED <<disk, live, sess, app, locks, update, client, reader, used>>

\* The walk fails half way: the stage holds changes nobody will publish.
ScanFails(t, dirty) ==
    /\ spc[t] = "scan"
    /\ Spend("fail")
    /\ Walk(dirty)
    /\ outstanding' = None /\ invalidated' = TRUE
    /\ EndPass(t)
    /\ UNCHANGED <<disk, live, session, resetEpoch, app, publication, client,
                   reader>>

\* PreparedCatalogChange::drop before publication began.
DropPrepared(t) ==
    /\ spc[t] = "prepared"
    /\ Spend("fail")
    /\ invalidated' = TRUE
    /\ EndPass(t)
    /\ UNCHANGED <<disk, live, stage, session, outstanding, resetEpoch, app,
                   publication, client, reader>>

LockPublication(t) ==
    /\ spc[t] = "prepared" /\ publication = None
    /\ publication' = t /\ Goto(t, "locked")
    /\ UNCHANGED <<disk, live, stage, sess, app, gate, prepared, update, client,
                   reader, used>>

\* merge_attached_scan_stage: the journalled rows; deleting a row deletes its
\* bookmark.  Bookmarks of the stage are never merged.
MergedRows == [i \in Items |-> IF i \in journal THEN stageRows[i] ELSE liveRows[i]]

\* Mutant: the stage's bookmarks are merged with its rows.
MergedMarks_of_stage(expired) ==
    [i \in Items |->
        IF MergedRows[i] = 0 \/ i \in expired THEN None ELSE stageMarks[i]]

MergedMarks(expired) ==
    [i \in Items |->
        IF MergedRows[i] = 0 \/ i \in expired THEN None ELSE liveMarks[i]]

\* Mutant: a new catalog keeps the bookmarks it was prepared with.
HydratedMarks_of_stage(newMarks) == Shown(stageMarks)

\* The new catalog's bookmarks come from the live transaction.
HydratedMarks(newMarks) == Shown(newMarks)

\* The prepared work is still the session's.
Belongs(t) == outstanding = t /\ ~invalidated

\* What changed, by the live database's own capture.
Changed(expired) ==
    {i \in Items : \/ MergedRows[i] # liveRows[i]
                   \/ MergedMarks(expired)[i] # liveMarks[i]}

\* What memory has to do: put in a new catalog, or patch the changed objects.
CatalogUpdate(p, expired) ==
    [changed |-> IF p.replacement THEN Items ELSE Changed(expired),
     rows |-> IF p.replacement THEN p.rows ELSE MergedRows,
     marks |-> HydratedMarks(MergedMarks(expired)),
     id |-> updateId + 1]

\* publish_to_db: one transaction; see CommitFails for its error returns.
Commit(t) ==
    /\ spc[t] = "locked"
    /\ Belongs(t) /\ liveEpoch = stageEpoch
    /\ \E expired \in SUBSET oldMarks :
        /\ expired # {} => prepared[t].expire
        /\ liveRows' = MergedRows /\ liveMarks' = MergedMarks(expired)
        /\ oldMarks' = {i \in oldMarks : MergedMarks(expired)[i] # None}
        /\ \/ /\ prepared[t].replacement \/ Changed(expired) # {}
              /\ updateId = liveId  \* else the generation does not follow
              /\ liveId' = updateId + 1
              /\ update' = [update EXCEPT ![t] = CatalogUpdate(prepared[t], expired)]
           \/ /\ ~prepared[t].replacement /\ Changed(expired) = {}
              /\ UNCHANGED <<liveId, update>>
    /\ liveEpoch' = liveEpoch + 1 /\ resetEpoch' = liveEpoch + 1
    /\ outstanding' = None
    /\ prepared' = [prepared EXCEPT ![t] = None]
    /\ Goto(t, "committed")
    /\ UNCHANGED <<disk, stage, session, invalidated, app, locks, client,
                   reader, used>>

\* Mutant: an error return leaves the publication lock taken.
CommitFails_keeps_lock(t) ==
    /\ spc[t] = "locked"
    /\ \/ /\ ~Belongs(t) \/ liveEpoch # stageEpoch \/ updateId # liveId
          /\ UNCHANGED used
       \/ Spend("fail")
    /\ outstanding' = None /\ invalidated' = TRUE
    /\ EndPass(t)
    /\ UNCHANGED <<disk, live, stage, session, resetEpoch, app, publication,
                   client, reader>>

\* The stage is stale, or the transaction fails and rolls back: the prepared
\* change is dropped.  Errors before the transaction leave outstanding alone.
CommitFails(t) ==
    /\ spc[t] = "locked"
    /\ \/ /\ ~Belongs(t) \/ liveEpoch # stageEpoch \/ updateId # liveId
          /\ UNCHANGED used
       \/ Spend("fail")
    /\ outstanding' \in {outstanding, None} /\ invalidated' = TRUE
    /\ publication' = None
    /\ EndPass(t)
    /\ UNCHANGED <<disk, live, stage, session, resetEpoch, app, client, reader>>

\* The in-memory half, under the catalog write lock: catalog, query cache and
\* generation change together, then the publication lock goes.
Apply(t) ==
    /\ spc[t] = "committed"
    /\ \/ /\ update[t] = None /\ UNCHANGED app
       \/ /\ update[t] # None
          /\ LET u == update[t]
             IN  /\ rows' = [i \in Items |-> IF i \in u.changed THEN u.rows[i] ELSE rows[i]]
                 /\ marks' = [i \in Items |-> IF i \in u.changed THEN u.marks[i] ELSE marks[i]]
                 /\ updateId' = u.id
          /\ cache' = None
    /\ update' = [update EXCEPT ![t] = None]
    /\ publication' = None
    /\ Goto(t, "reset")
    /\ UNCHANGED <<disk, live, stage, sess, gate, prepared, client, reader, used>>

FinishPass(t) ==
    /\ spc[t] = "reset"
    /\ finish_publication
    /\ EndPass(t)
    /\ UNCHANGED <<disk, live, app, publication, client, reader>>

-----------------------------------------------------------------------------
(* Bookmarks: X_SetBookmark (expected = None) and UpdateObject *)

\* resolve_detail_id reads the catalog and lets it go again.
Resolve(b, i, value, expected) ==
    /\ bpc[b] = "idle"
    /\ Spend("write")
    /\ rows[i] # 0
    /\ request' = [request EXCEPT ![b] =
            [item |-> i, value |-> value, expected |-> expected]]
    /\ bpc' = [bpc EXCEPT ![b] = "resolved"]
    /\ UNCHANGED <<disk, live, stage, sess, app, locks, scanner, reader>>

LockBookmark(b) ==
    /\ bpc[b] = "resolved" /\ publication = None
    /\ publication' = b
    /\ bpc' = [bpc EXCEPT ![b] = "locked"]
    /\ UNCHANGED <<disk, live, stage, sess, app, gate, scanner, request, reader,
                   used>>

\* The transaction: bookmark and generation together.
WriteBookmark(b) ==
    LET q == request[b] IN
    /\ bpc[b] = "locked"
    /\ liveRows[q.item] # 0
    /\ q.expected \in {None, Shown(liveMarks)[q.item]}
    /\ liveMarks' = [liveMarks EXCEPT ![q.item] = q.value]
    /\ oldMarks' = oldMarks \ {q.item}
    /\ liveId' = updateId + 1
    /\ bpc' = [bpc EXCEPT ![b] = "written"]
    /\ UNCHANGED <<disk, liveRows, liveEpoch, stage, sess, app, locks, scanner,
                   request, reader, used>>

\* Mutant: the generation is stored whether or not the bookmark is.
RefuseBookmark_spends_id(b) ==
    LET q == request[b] IN
    /\ bpc[b] = "locked"
    /\ \/ liveRows[q.item] = 0
       \/ q.expected \notin {None, Shown(liveMarks)[q.item]}
    /\ liveId' = updateId + 1
    /\ publication' = None
    /\ bpc' = [bpc EXCEPT ![b] = "idle"]
    /\ request' = [request EXCEPT ![b] = None]
    /\ UNCHANGED <<disk, liveRows, liveMarks, oldMarks, liveEpoch, stage, sess,
                   app, gate, scanner, reader, used>>

\* The row is gone, the current value is not the expected one, or SQLite
\* fails: nothing changes.
RefuseBookmark(b) ==
    LET q == request[b] IN
    /\ bpc[b] = "locked"
    /\ \/ /\ \/ liveRows[q.item] = 0
             \/ q.expected \notin {None, Shown(liveMarks)[q.item]}
          /\ UNCHANGED used
       \/ Spend("fail")
    /\ publication' = None
    /\ bpc' = [bpc EXCEPT ![b] = "idle"]
    /\ request' = [request EXCEPT ![b] = None]
    /\ UNCHANGED <<disk, live, stage, sess, app, gate, scanner, reader>>

ApplyBookmark(b) ==
    LET q == request[b] IN
    /\ bpc[b] = "written"
    /\ marks' = [marks EXCEPT ![q.item] = IF rows[q.item] = 0 THEN @ ELSE q.value]
    /\ updateId' = updateId + 1
    /\ cache' = None
    /\ publication' = None
    /\ bpc' = [bpc EXCEPT ![b] = "idle"]
    /\ request' = [request EXCEPT ![b] = None]
    /\ UNCHANGED <<disk, live, stage, sess, rows, gate, scanner, reader, used>>

-----------------------------------------------------------------------------
(* Browse and Search *)

\* The first generation read,
StartQuery(r) ==
    /\ rpc[r] = "idle"
    /\ before' = [before EXCEPT ![r] = updateId]
    /\ rpc' = [rpc EXCEPT ![r] = "lookup"]
    /\ UNCHANGED <<disk, live, stage, sess, app, locks, scanner, client,
                   snapshot, tries, answer, used>>

\* and the page cached under it: CatalogQueryCache::get forgets the pages of
\* every other generation.
Lookup(r) ==
    /\ rpc[r] = "lookup"
    /\ IF cache # None /\ cache.gen = before[r]
       THEN /\ snapshot' = [snapshot EXCEPT ![r] = cache]
            /\ rpc' = [rpc EXCEPT ![r] = "answer"]
            /\ UNCHANGED cache
       ELSE /\ cache' = None
            /\ rpc' = [rpc EXCEPT ![r] = "attempt"]
            /\ UNCHANGED snapshot
    /\ UNCHANGED <<disk, live, stage, sess, rows, marks, updateId, locks,
                   scanner, client, before, tries, answer, used>>

\* query_catalog_snapshot_once: the generation before the query,
ReadBefore(r) ==
    /\ rpc[r] = "attempt"
    /\ before' = [before EXCEPT ![r] = updateId]
    /\ rpc' = [rpc EXCEPT ![r] = "query"]
    /\ UNCHANGED <<disk, live, stage, sess, app, locks, scanner, client,
                   snapshot, tries, answer, used>>

\* one read transaction (without a page, the answer comes from memory),
ReadPage(r) ==
    /\ rpc[r] = "query"
    /\ \/ /\ snapshot' = [snapshot EXCEPT ![r] = [gen |-> liveId, page |-> liveRows]]
          /\ rpc' = [rpc EXCEPT ![r] = "after"]
          /\ UNCHANGED used
       \/ /\ Spend("fail")
          /\ rpc' = [rpc EXCEPT ![r] = "answer"]
          /\ UNCHANGED snapshot
    /\ UNCHANGED <<disk, live, stage, sess, app, locks, scanner, client,
                   before, tries, answer>>

\* and the generation after it.  The request tries MAX_ATTEMPTS times and
\* then answers from memory.
ReadAfter(r) ==
    /\ rpc[r] = "after"
    /\ IF before[r] = snapshot[r].gen /\ snapshot[r].gen = updateId
       THEN /\ rpc' = [rpc EXCEPT ![r] = "answer"]
            /\ UNCHANGED <<snapshot, tries>>
       ELSE /\ snapshot' = [snapshot EXCEPT ![r] = None]
            /\ tries' = [tries EXCEPT ![r] = @ + 1]
            /\ rpc' = [rpc EXCEPT ![r] =
                    IF tries[r] + 1 < MAX_ATTEMPTS THEN "attempt" ELSE "answer"]
    /\ UNCHANGED <<disk, live, stage, sess, app, locks, scanner, client,
                   before, answer, used>>

\* materialize_db_page: the page must fit the catalog it is rendered from.
Present(t) == {i \in Items : t[i] # 0}
Materializes(page) ==
    /\ Cardinality(Present(page)) = Cardinality(Present(rows))
    /\ Present(page) \subseteq Present(rows)

\* Mutant: the page of another generation is rendered when it fits.
Accepted_any_generation(s) == s # None /\ Materializes(s.page)

Accepted(s) == s # None /\ s.gen = updateId /\ Materializes(s.page)

\* Under the catalog read lock: the page if it is of the catalog's
\* generation, the catalog itself otherwise.
Answer(r) ==
    LET s == snapshot[r] IN
    /\ rpc[r] = "answer"
    /\ answer' = [answer EXCEPT ![r] =
            [gen |-> updateId, page |-> IF Accepted(s) THEN s.page ELSE rows]]
    /\ cache' = IF Accepted(s) THEN s ELSE cache
    /\ rpc' = [rpc EXCEPT ![r] = "answered"]
    /\ UNCHANGED <<disk, live, stage, sess, rows, marks, updateId, locks,
                   scanner, client, before, snapshot, tries, used>>

NextQuery(r) ==
    /\ rpc[r] = "answered"
    /\ rpc' = [rpc EXCEPT ![r] = "idle"]
    /\ snapshot' = [snapshot EXCEPT ![r] = None]
    /\ tries' = [tries EXCEPT ![r] = 0]
    /\ before' = [before EXCEPT ![r] = 0]
    /\ answer' = [answer EXCEPT ![r] = None]
    /\ UNCHANGED <<disk, live, stage, sess, app, locks, scanner, client, used>>

-----------------------------------------------------------------------------
(* Other processes, and the end of this one *)

\* rusty-dlna --rescan beside the server: a whole pass of its own, which
\* allocates no generation.
OneShot ==
    /\ Spend("oneshot")
    /\ liveRows' = disk
    /\ \E expired \in SUBSET oldMarks :
        liveMarks' = [i \in Items |->
            IF disk[i] = 0 \/ i \in expired THEN None ELSE liveMarks[i]]
    /\ oldMarks' = {i \in oldMarks : liveMarks'[i] # None}
    /\ liveEpoch' = liveEpoch + 1
    /\ UNCHANGED <<disk, liveId, stage, sess, app, locks, scanner, client, reader>>

\* Mutant: a restarted server counts its generations from zero.
LoadedGeneration_restarts == 0

\* What App::try_from_config takes from the database.
LoadedGeneration == liveId
LoadedMarks == Shown(liveMarks)

\* The process dies and starts again: only the database is left, and App
\* loads the catalog and the generation from it.
Crash ==
    /\ Spend("crash")
    /\ rows' = liveRows /\ marks' = LoadedMarks /\ updateId' = LoadedGeneration
    /\ cache' = None
    /\ gate' = None /\ publication' = None
    /\ session' = FALSE /\ invalidated' = TRUE
    /\ outstanding' = None /\ resetEpoch' = None
    /\ spc' = [t \in Scanners |-> "idle"]
    /\ prepared' = [t \in Scanners |-> None]
    /\ update' = [t \in Scanners |-> None]
    /\ bpc' = [b \in Clients |-> "idle"]
    /\ request' = [b \in Clients |-> None]
    /\ rpc' = [r \in Readers |-> "idle"]
    /\ before' = [r \in Readers |-> 0]
    /\ snapshot' = [r \in Readers |-> None]
    /\ tries' = [r \in Readers |-> 0]
    /\ answer' = [r \in Readers |-> None]
    /\ UNCHANGED <<disk, live, stage>>

-----------------------------------------------------------------------------
ScannerStep(t) ==
    \/ StartPass(t) \/ Rebackup(t) \/ RebackupFails(t) \/ BeginPrepare(t)
    \/ \E dirty \in SUBSET Items, replacement, expire \in BOOLEAN :
            Scan(t, dirty, replacement, expire)
    \/ \E dirty \in SUBSET Items : ScanFails(t, dirty)
    \/ DropPrepared(t) \/ LockPublication(t) \/ Commit(t) \/ CommitFails(t)
    \/ Apply(t) \/ FinishPass(t)

ClientStep(b) ==
    \/ \E i \in Items, v \in Mark, e \in Mark \cup {None} :
            Resolve(b, i, v, e)
    \/ LockBookmark(b) \/ WriteBookmark(b) \/ RefuseBookmark(b)
    \/ ApplyBookmark(b)

ReaderStep(r) ==
    \/ StartQuery(r) \/ Lookup(r) \/ ReadBefore(r) \/ ReadPage(r)
    \/ ReadAfter(r) \/ Answer(r) \/ NextQuery(r)

Next ==
    \/ DiskChange \/ Age \/ OneShot \/ Crash
    \/ \E t \in Scanners : ScannerStep(t)
    \/ \E b \in Clients : ClientStep(b)
    \/ \E r \in Readers : ReaderStep(r)

Spec == Init /\ [][Next]_vars

\* Threads that are inside an operation go on with it.  Nothing is assumed of
\* the start of a pass, of requests, of errors and of other processes.
FairSpec ==
    /\ Spec
    /\ \A t \in Scanners : WF_vars(ScannerStep(t) /\ spc[t] # "idle")
    /\ \A b \in Clients : WF_vars(ClientStep(b) /\ bpc[b] # "idle")
    /\ \A r \in Readers : WF_vars(ReaderStep(r) /\ rpc[r] # "idle")

-----------------------------------------------------------------------------
(* Properties *)

ScannerPc == {"idle", "begin", "scan", "prepared", "locked", "committed", "reset"}
ClientPc == {"idle", "resolved", "locked", "written"}
ReaderPc == {"idle", "lookup", "attempt", "query", "after", "answer", "answered"}

\* The variables keep their types.
TypeOK ==
    /\ disk \in Table /\ liveRows \in Table /\ stageRows \in Table /\ rows \in Table
    /\ liveMarks \in Marks /\ stageMarks \in Marks /\ marks \in [Items -> Mark]
    /\ oldMarks \subseteq Items /\ journal \subseteq Items
    /\ liveId \in Nat /\ updateId \in Nat
    /\ liveEpoch \in Nat /\ stageEpoch \in Nat /\ resetEpoch \in Nat \cup {None}
    /\ session \in BOOLEAN /\ invalidated \in BOOLEAN
    /\ outstanding \in Scanners \cup {None}
    /\ gate \in Scanners \cup {None}
    /\ publication \in Scanners \cup Clients \cup {None}
    /\ spc \in [Scanners -> ScannerPc]
    /\ prepared \in [Scanners -> Prepared \cup {None}]
    /\ update \in [Scanners -> Update \cup {None}]
    /\ bpc \in [Clients -> ClientPc]
    /\ request \in [Clients -> Request \cup {None}]
    /\ rpc \in [Readers -> ReaderPc]
    /\ before \in [Readers -> Nat]
    /\ snapshot \in [Readers -> Page \cup {None}]
    /\ tries \in [Readers -> 0 .. MAX_ATTEMPTS]
    /\ answer \in [Readers -> Page \cup {None}]
    /\ cache \in Page \cup {None}
    /\ used \in [Events -> Nat]

\* No other process has written to the database of this server.
Alone == used["oneshot"] = 0

\* Outside a publication the in-memory generation is the persisted one, so
\* the next publication's generation check cannot fail
\* (apply_prepared_catalog_change, persist_bookmark).
GenerationsAgree == publication = None => updateId = liveId

\* Outside a publication the in-memory catalog is the database's, bookmarks
\* included: whatever failed or was dropped before has left no trace.
CatalogAgrees ==
    publication = None /\ Alone => rows = liveRows /\ marks = Shown(liveMarks)

\* A stage that may be published differs from the live database only in the
\* rows it has journalled: merging the journal makes them equal, and work
\* of a failed pass or under a foreign change is never built upon.
StageTracksLive ==
    session /\ ~invalidated /\ resetEpoch = None /\ stageEpoch = liveEpoch =>
        \A i \in Items \ journal : stageRows[i] = liveRows[i]

\* begin_prepare never meets its error "scan session already has unpublished
\* work": the scan gate keeps passes apart.
NoUnpublishedWork ==
    \A t \in Scanners :
        spc[t] = "begin" /\ session /\ ~invalidated => outstanding = None

\* A bookmark that a renderer has set stays until it is set again, expires or
\* its file goes: no publication brings an older value back.
BookmarksKept ==
    [][\A i \in Items :
        liveMarks'[i] # liveMarks[i] =>
            \/ liveRows'[i] = 0
            \/ i \in oldMarks
            \/ \E b \in Clients : /\ bpc[b] = "locked" /\ bpc'[b] = "written"
                                  /\ request[b].item = i]_vars

\* Renderers cache by SystemUpdateID: what they can see never changes under
\* one generation, over a crash and restart neither.
ChangesAreAnnounced ==
    [][Alone' /\ <<rows, marks>>' # <<rows, marks>> => updateId' # updateId]_vars

\* What a step may never do: lose a bookmark, or change what renderers see
\* without telling them.
ChangesSeenMarksKept == ChangesAreAnnounced /\ BookmarksKept

\* The page of a Browse or Search answer is the page of the catalog it is
\* rendered from, whether it came from SQLite, the query cache or memory.
HonestAnswers ==
    [][Alone => \A r \in Readers :
        answer[r] = None /\ answer'[r] # None =>
            answer'[r] = [gen |-> updateId, page |-> rows]]_vars

\* The publication lock is always given back: scanners and renderers do not
\* wait for each other in a circle.
LockReleased == publication # None ~> publication = None

\* Whatever failed, was dropped or was published by another process: memory
\* and database agree outside a publication, and a stage is built upon only
\* while it is the database plus its journal (ScanSession, App).
PublicationSafe ==
    TypeOK /\ GenerationsAgree /\ StageTracksLive /\ NoUnpublishedWork /\ CatalogAgrees

=============================================================================
