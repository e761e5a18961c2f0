# rustyDLNA: a TLA+ verification project

rustyDLNA is a DLNA/UPnP media server in Rust. It scans media roots into an
SQLite library, answers Browse and Search over SOAP, sends GENA events to
renderers, prepares compatible streams with FFmpeg for renderers and for a
browser player, and does all of this from many threads that share a few mutexes,
a database and two cache directories. This project models the parts of it where
threads, requests, failures, other programs and restarts meet, checks them with
TLC and proves part of them with TLAPS.

Each model is translated from the source; `PROJECT.json` ("map") gives the lines
behind every definition. Source names are kept where TLA+ allows it. Paths below
are relative to `src/crates/`.

Contents: 1 the system; 2 the modules; 3 the runs and their bounds; 4 fairness
and liveness; 5 what is proved; 6 findings; 7 limits of the models and of the
guarantees; 8 what is not modelled; 9 what is left to do.

## 1. The system

| Component | Source | State it keeps | Operations | Module |
|---|---|---|---|---|
| Helper admission gate | `helper/src/gate.rs` | active slots, FIFO of tickets, counters | try one or many, wait with deadline and cancellation, drop | `HelperGate`, `Admission` |
| Helper process supervision | `helper/src/process.rs` | child, process group, capture thread | spawn, observe, terminate, reap, capture | `HelperProcess` |
| GENA eventing | `server/src/events.rs` | subscribers, coalescing queue, workers | subscribe, renew, publish, deliver with retries, retire, stop | `Gena` |
| Retention of completed outputs | `server/src/remux.rs` | generation, thread flag, stop flag | arm, wake or start, sweep, leave, stop | `CleanupScheduler` |
| HTTP connections | `server/src/lifecycle.rs`, `http_delivery.rs`, `http/src` | permits, pending bytes, delivery reports | accept, read, dispatch, answer, write, keep alive, stop | `HttpConnection` |
| Server lifecycle | `server/src/lifecycle.rs`, `main.rs` | threads and stop flags | start, stop in order | `Gena`, `HttpConnection`: their own ends |
| Scan session and publication | `scan/src/session.rs`, `db.rs`, `server/src/lib.rs` | live database, staged copy and journal, catalog, SystemUpdateID, two locks | back up, prepare, commit, apply, reset, bookmark, expiry, restart | `CatalogPublication` |
| Library watcher | `scan/src/watch.rs` | watch tree, pending creates, batch, retry flags | collect events, settle, apply, rebuild | `LibraryWatch` |
| Library reconciliation | `scan/src/lib.rs`, `db.rs` | rows, root devices, probe counters | full, targeted and whole-library passes | `LibraryScan` |
| NFO metadata, playlists | `scan/src/nfo.rs`, `playlist.rs` | fingerprints, playlist rows and members | targeted and full passes | `NfoMetadata`, `Playlists` |
| Object tree and catalog | `scan/src/lib.rs`, `catalog.rs` | OBJECTS, views, catalog in memory | insert, move, prune, rebuild, patch | `LibraryTree` |
| Content Directory | `server/src/catalog_query.rs`, `http_app.rs`, `soap/src` | query permits, generation-keyed cache | Browse, Search, UpdateObject, bookmarks | `ContentDirectory`, `SearchCriteria`, `SoapCall` |
| SSDP, client identification | `ssdp/src`, `server/src/lifecycle.rs`, `protocol/src/client_cache.rs` | announced addresses, reply limits, client cache | announce, answer searches, fetch descriptions, identify | `Discovery` |
| Web library pages | `server/src/web_ui.rs`, `web_ui/folder.rs`, `server/web/api.js`, `library.js` | page and folder caches, the load of one list | page, retry, validate, publish, navigate | `WebLibrary` |
| Original delivery | `server/src/http_app.rs`, `file_delivery.rs` | readers, RAM-cached spans | open, validate, range, stream | `OriginalDelivery` |
| Derived images | `server/src/derived_image_cache.rs` | inventory, active keys, stripes | activate, maintain, make, reject, serve | `DerivedImages` |
| Browser plans | `server/src/web_ui.rs`, `transcode/src/lib.rs`, `remux/fallback.rs` | none between requests but the cached file | plan, build command and key, fall back | `BrowserPlan` |
| Web player | `server/web/player.js`, `core.js`, `source-selection.js` | intent, source, session, timers, budgets | user actions, media events, polls, recovery | `WebPlayer` |
| Media Source pump | `server/web/media-source.js` | buffer, memory budget, seek | fetch, append, prune, seek | `MsePump` |
| Compatible-stream jobs | `server/src/remux.rs` | job registry, sessions, outputs | attach, produce, fall back, publish, detach, supersede, expire | `RemuxJobs` |
| Transcode cache | `server/src/remux/cache.rs`, `cache_monitor.rs` | inventory, reservations, gate, worker queue | reserve, maintain, evict, publish, observe, retire | `TranscodeCache` |
| HLS and seek index | `server/src/remux/hls.rs`, `history.rs`, `completed.rs` | fragments of an output | index, reattach, playlists | `FragmentIndex` |
| Prepared output delivery | `server/src/remux.rs`, `positional.rs` | responses, pinned file | wait, promise, stream | `OutputDelivery` |
| Output validation | `remux/hls/validation.rs`, `source_evidence.rs`, `remux.rs` | what was checked | validate, gather evidence, publish | `OutputCheck` |

How they interact. A change of a file becomes an inotify record, a batch of the
watcher, a pass of the scanner over rows, sidecars, playlists and the object
tree, one transaction of the scan session, a patch of the catalog in memory and a
call of `notify_catalog_publication`, which is the input of eventing. A control
point finds the server by SSDP, is recognised by its address or its requests,
browses pages computed from a generation of the database and rendered from the
catalog, and asks for an original or a compatible stream over a connection of the
listener. A compatible stream is planned, attached to a job, admitted by the
gates, written by a supervised helper, observed by the cache's worker, indexed,
checked, published, delivered while it grows, kept for a while and evicted. The
browser player retries along the server's fallbacks and feeds a Media Source
buffer from the playlists.

Each module contains the calls of its neighbours that change its own state:
`Gena` has the publication's store of SystemUpdateID, `RemuxJobs` has arming and
sweeping as atomic steps and `CleanupScheduler` opens them up, `TranscodeCache`
knows a job as an attempt to have one output, `DerivedImages` a helper as
something that writes or fails.

What is hard here. Locks given up in the middle of an operation (the hub between
admissions, the registry while a producer is reaped, the cache gate between
admission and rename); state read before a wait and used after it (generations,
cache stamps, owners, candidates for eviction, an event about a path that names
another file now); a database transaction followed by an in-memory half that a
crash can cut off; retries of deliveries whose answer was lost; condition
variables whose waiters leave; a process-group number that outlives its process;
budgets and queues at their limits; and a player whose every await may be
answered late. `PROJECT.json` ("hazards") lists the worst forty with their lines
and the properties that cover them.

## 2. The modules

A module has its state as VARIABLES with a prefix of its own, Init, one action per
operation or handler, Next and its properties. An action covers the whole code
between two points at which the mutex is free, an await is reached or another
program may act. `MC*` modules give constants their values and, where they put
several components in one run, choose by `part` or `scene` which of them a
behaviour is about; the others stand still in one state. Mutated forms of
definitions (a dropped check, a swapped order, a missing reset) stand before the
definition they vary and are used by nothing else.

**HelperGate.** The gate's mutex makes every operation one action. A waiter leaves
its mutex only in `Condvar::wait_timeout`, at most 20 ms, so a pass of its loop is
an action and a fruitless one a stutter. **Admission** is the abstract
specification: a queue of demands, slots granted in order and all at once.
`HelperGate` maps its permits and tickets to it (`ImplementsAdmission`).

**HelperProcess.** The thread that supervises one helper, the thread that captures
its output, and outside them the processes, the deadline and the operating system,
which may give the group's number away once it is free. One stream stands for
both; the output is the numbers 1, 2, 3, so that "the beginning, nothing left out"
can be said.

**Gena.** `subs`, `pending`, `ready`, `in_flight` and `stopped` are `EventHub` and
`QueueState`. A publication is three kinds of steps, as in the code: store the new
SystemUpdateID, take sequence numbers under the hub lock, offer one job after the
other to the queue, whose mutex is free in between. A send succeeds, fails, or is
received although the worker sees a failure. Ghost variables remember what a
renderer has received and what it is owed.

**CleanupScheduler.** The retention thread, statement by statement where the mutex
is free; the generation is modelled by what it is compared for (`stale`).

**HttpConnection.** Clients send pieces of requests, several of which may arrive in
one read; times are not measured, a deadline may pass whenever its wait has
nothing to read or cannot write. Ghosts log what was sent and how deliveries ended.

**OriginalDelivery.** One original behind a name whose file is replaced or
rewritten at any moment, a client that resumes a download with Range and If-Range
and one that seeks with Range alone.

**CatalogPublication.** Scanner threads, bookmark writers, readers, another process
that rescans the same database, and restarts. The live database has a change
counter; the stage is its private copy with a journal. A transaction is one action;
`Apply` (swap, cache clear, id store under the catalog lock) is one action, and what
a lock-free reader could see inside it is a cache miss. The `scan_session` mutex is
left out because its users hold the gate. The startup pass, which holds the gate
over several publications, is several passes.

**ContentDirectory** is Browse and Search with permits, cache, generations and
fallbacks, and renderers that page; **SearchCriteria** the parser, its expansion
into OR of AND-groups and the two evaluators, against what a criterion means;
**SoapCall** the fields of a SOAP body, UpdateObject and X_SetBookmark.

**LibraryWatch.** The kernel's records are read one by one, later than the change
they report, by code that looks at what the path names now. **LibraryScan.** A
pass's steps against volumes that come, go and refuse to be read, with symlink
aliases and probes that time out. **NfoMetadata**, **Playlists**: what targeted and
full passes make of sidecars and of playlists that are renamed and saved.
**LibraryTree.** Objects, their ids, views that own one entry per physical file,
and the catalog that follows by patches.

**WebLibrary.** A page is computed in steps between which the scanner may publish:
generation, cache, database, lock, or batches of a folder's ids. The browser asks
for the pages side by side, validates, retries from the first page, and publishes
only a complete list of the newest navigation. A ghost remembers which publication
an answer was made of. The generation is a number modulo `WlModulus`, so that it
wraps within a run, and the identity of a cache is not. One search and one sort
order; that SQL and memory list a catalog alike is taken from the query code.

**Discovery.** The choice of addresses, searches by group and by address with their
limits, descriptions of renderers, and the cache that recognises a client.

**BrowserPlan.** A command is the record of the options that differ between plans;
a title is fixed for a behaviour, one browser after another asks for it. A title
says which of its tracks are English and which are default, because that decides
what a request without a track hears; a finished file says whether it is older than
the hour for which a fallback may stand in for its plan.
**WebPlayer.** Handlers are steps; what they await is outstanding work answered in
any order; positions are small numbers. **MsePump** is the append loop in ticks of
the media clock. **DerivedImages.** A request's steps beside others'; maintenance is
one step because registration takes its gate.

**RemuxJobs.** The bytes of an output are the pair `<<job, attempt>>` that wrote
them, so that a property can say whose bytes are on disk. A deadline is armed or
due. Refusals (helper gate, AI gate, disk space) may happen at any time.
**TranscodeCache.** Attempts, the maintenance by the holder of the gate in ten
actions, and the worker with its bounded queue; growing, touching and reserving go
on beside maintenance as in the code. **FragmentIndex**, **OutputDelivery**,
**OutputCheck**: the index over a growing file, responses that wait for, promise
and stream it, and what makes a file Complete. A reattachment gives the job a new
index; its players keep what they were given. The check ends where `finalize_remux`
has cleaned up; whether the source can be asked for evidence, the cache's limits
hold and the stamp can be written, and when the deadline passes, are choices of the
environment.

Three of the modules are partial by design and named so in `PROJECT.json`:
`LibraryTree` (videos only), `RemuxJobs` (requests with a session id) and
`ContentDirectory` (two services).

## 3. The runs

| Run | Parts and instance | Properties |
|---|---|---|
| `host` | gate: 3 callers, 2 slots, 2 queue places, groups of up to 3; retention: 2 jobs, 2 callers, 2 threads; eventing: 1 SID, 2 workers, to shutdown; listener: 2 connections, 1 permit, pipelined requests; helper: its processes and one that left the group, 3 bytes | `SlotsAccounted`, `NoBypass`, `ImplementsAdmission`, `ExpiryWatched`, `ResponsesInOrder`, `ConnectionsCounted`, `HelpersKept`, `SchedulersProgress` |
| `gena` | 2 SIDs, 2 containers, 2 workers, a queue of one, SEQ modulo 2 | `SubscribersInformed`, `InOrder` |
| `catalog_publication` | 2 items, 2 scanners, 1 writer, one each of file change, failure, bookmark, foreign rescan, crash; or web pages: two navigations over 2 publications, or 2 requests side by side, pages of one entry, generations modulo 2 | `PublicationSafe`, `ChangesSeenMarksKept`, `WebListsWhole` |
| `catalog_answers` | scanner beside reader; two scanners and two writers; two renderers paging through two generations under one permit; criteria; SOAP bodies; hosts, searches, clients | `HonestAnswers`, `LocksReleased`, `AskedAndAnswered`, `SearchesAnswered`, `ClientsKnown` |
| `library` | watcher: 2 root names, 1 in a subdirectory, 3 operations; scanner: 2 roots, 2 files, 1 symlink, 2 changes, 1 fault; originals: 2 clients, 2 changes | `WatcherKeepsUp`, `RowsTruthful`, `OriginalsWhole`, `PassesSound` |
| `directory` | sidecars: 3 videos in 2 folders; playlists: 3 paths, 2 inodes; tree: 2 inodes under several names; transcode cache: 2 outputs, 2 attempts | `EventsSuffice`, `PassesApply`, `TreeSound`, `CacheKept`, `CacheServes` |
| `browser` | plans: nine kinds of title under every request; player: user, failures, server in any order; pictures: 2 requests, 3 keys, 2 stripes | `PlansSound`, `PlayerDriven`, `ViewerKept`, `RecoveryEnds`, `PicturesSound` |
| `streaming` | index and playlists; one reader, one download; every kind of plan over sources longer than it, with each defect or an early end; pump with two quotas | `IndexSound`, `PlaylistsSound`, `AnswersWhole`, `OutputsChecked`, `PumpSafe`, `StreamsEnd` |
| `remux_outputs` | 2 readers, a seek output and a Profile 8 conversion with one fallback | `OutputsHeld` |
| `remux_sessions` | 2 readers of one cacheable output; one session with 2 generations on 2 outputs and one slot | `SessionsAgree` |
| `remux_download`, `folder_lost` | section 6 | violations |

What the properties say is in the comments above them; the ones that group several
statements do so to let one run check them together:

- `SlotsAccounted`: slots are neither lost nor invented, the queue is exactly the
  waiters in order, counters add up. `NoBypass`: nobody is overtaken.
- `ExpiryWatched`: one retention thread at most, and every armed expiry has
  somebody who will look at it.
- `ResponsesInOrder`, `ConnectionsCounted`: every request is answered once and in
  order, and every delivery is counted once under the way it really ended.
- `HelpersKept`: a signal never reaches a foreign group, nobody of the group
  outlives the run, and what was captured is the beginning or the end of what was
  written.
- `SubscribersInformed`, `InOrder`: no update falls between snapshot and first
  event, coalescing loses nothing, retired SIDs are silent, updates come in order.
- `PublicationSafe`: generations meet, a stage that may be built upon is current,
  passes stay apart, and the catalog is the database. `ChangesSeenMarksKept`: what
  is visible never changes under one SystemUpdateID, and no bookmark is lost.
- `WebListsWhole`: an answer is a page of one publication with its own label, the
  caches are current, and the list on the screen is the whole list of one
  publication, for what the user opened last.
- `HonestAnswers`, `AskedAndAnswered`: a page is the page of the catalog it is
  rendered from; pages of one generation add up; calls mean what they say.
- `SearchesAnswered`, `ClientsKnown`: see section 2, Discovery.
- `WatcherKeepsUp`: when everything has settled the catalog is the disk, and no
  directory is unwatched meanwhile. `RowsTruthful`, `PassesSound`: no row shows the
  columns of other content, and no row goes because its volume was away.
- `EventsSuffice`, `PassesApply`, `TreeSound`: a pass over the events leaves what a
  pass over everything would; sidecars, playlists, objects and the catalog in
  memory follow the files.
- `CacheKept`: the inventory agrees with the directory about every file that the
  next maintenance does not look at again anyway, what somebody relies on is on
  disk, and nobody shares an output. `CacheServes`: the least recently used go
  first, and everybody who waits is answered.
- `PicturesSound`: maintenance for one request never takes what another relies on.
- `PlansSound`: equal cache identities mean equal commands, retries keep what must
  be kept, dynamic range is never lost without being reported.
- `PlayerDriven`, `ViewerKept`, `RecoveryEnds`: somebody is always going to move
  the player on, the viewer's intent and position survive recovery, recovery ends.
- `IndexSound`, `PlaylistsSound`: segments tile the output, what is advertised is
  on disk, playlists only grow. `AnswersWhole`: a response sends one attempt's
  bytes and ends normally only with all it promised. `OutputsChecked`: what is
  accepted reaches the end, a sound output is refused only where its length needs
  evidence that cannot be had, and a publication that fails leaves no file. `PumpSafe`, `StreamsEnd`: within memory, and to the end.
- `OutputsHeld`: one producer per destination, pinned bytes are never replaced,
  registered outputs are on disk, reader counts are right. `SessionsAgree`: owners
  are current generations, and unwanted producers are told to stop.

Bounds. Two of each actor are enough for every pairwise race; a third caller of the
gate is what makes overtaking visible. Queue and cache limits are one or two so that
every run meets them. `SeqModulus` makes SEQ wrap within a run (the code's wrap goes
from 2^32-1 to 1). `Budget` counts the events a catalog run may contain: two passes
are the least in which a second one builds upon what the first left behind.
`MaxOps`, `MaxChanges`, `MaxEdits`, `MaxTreeChanges`, `MaxPlEdits` bound what other
programs do to the disk: two renames and a write reach every exchange of two names.
`TcSize`, `cache_max`, `TcSpace` let two outputs exceed the quota, the free space,
or both. `HpBytes` is one more than `HpLimits`, so that capture overflows.
Every property has mutants of the code that its run finds.

Reductions. Interchangeable callers and workers begin in a fixed order
(`FirstBegins`); readers, sessions and items are symmetric where no liveness is
checked; in `browser` a second request only follows a file that is cached, an hour or a new
driver only a file that a fallback made (`Again`), and of the requests that are
refused whatever else they ask one each is sent; in `streaming` an early end of an
output is not combined with a defect of it.

Deadlock is checked by `gena`, `remux_outputs`, `remux_sessions` and
`remux_download`. The other systems may really stop: when the bounded number of
changes, events or requests is spent, or after a shutdown.

## 4. Fairness and liveness

Only weak fairness is used, and only of a thread inside an operation it has begun.
Nothing is assumed of users, control points, browsers, clients, file changes or
other programs; a model in which nobody asks for anything satisfies every property.
In the runs each fairness condition is guarded by its part, so that the parts that
stand still owe nothing.

| Module | Fair | Why the code justifies it |
|---|---|---|
| `HelperGate` | a waiter's pass of its loop; the drop of a permit | waiters look again every 20 ms whoever notifies; a helper's run is bounded by its deadline, and its permit drops with it |
| `HelperProcess` | supervisor, capture thread, deadline | the poll interval and the clock |
| `CleanupScheduler` | callers, the thread, the clock of an armed expiry | statements without a wait, and `wait_timeout` |
| `Gena` | taking and admitting a publication's jobs, the workers, `stop` | a delivery has a connect and a write budget, so it ends |
| `HttpConnection` | permit and back-off, accept, a connection's task | every await has a deadline |
| `CatalogPublication` | a started pass, write or answer | no step waits for another client; SQLite's busy wait is bounded |
| `ContentDirectory` | a call that has begun | the deadline of a query |
| `TranscodeCache` | maintenance by the holder of the gate, the worker, an attempt | the gate's holders do file operations only |
| `OutputDelivery` | supervision, production, a response that was begun | poll intervals; a reader that stops reading is cut off |
| `MsePump` | the pump's step, data being made, `seeked`, the clock | events of the media element and timers of the pump |

Liveness formulas are `[]<>` of "nothing is waiting" or "~>", so a behaviour that
repeats a wait for ever refutes them: `SchedulersProgress` (`WaiterAdmitted`,
`ExpiredIsSwept`, `WorkersFinish`, `ConnectionsEnd`, `RunsReturn`), `LocksReleased`,
`CacheServes` (`CacheProgress`), `StreamsEnd`. `RecoveryEnds` needs no fairness: it
says that automatic replacements of a source stop, whatever comes back.

Liveness and ENABLED are outside the prover's reach and stay with TLC.

## 5. What is proved

TLAPS proves these for all values of the constants that meet the modules' named
assumptions (`..Assumption` in the modules: finite sets of clients, limits that are
positive, values that are not used twice). Each has an inductive invariant, which
TLC checked first on the instance of the run that checks the property.

| Theorem | States | Inductive invariant and why |
|---|---|---|
| `Helper_proofs!GateImplementsAdmission` | `Spec => Abstract!Spec` under the mapping of permits and tickets | every step maps to a step of `Admission` or a stutter; needs `GateInv`, else a grant could take a demand that is not first |
| `StateAddsUp`, `GateConservesSlots`, `QueueMatchesWaiters`, `MetricsBalance`, `FifoAdmission` | `SlotsAccounted` and its parts, `NoBypass` | `GateInv` adds `PermitShape` (slots exactly while a permit is held) and `TicketsDrawn` (tickets below `next_ticket`): without them a drop could free slots never taken, and a ticket could come twice |
| `Retention_proofs!EveryExpiryWatched`, `SingleThread`, `NoLostWakeup` | `ExpiryWatched` and its parts | the flag stands for a thread, or for a caller about to start one, that will look at the registry again |
| `CatalogPublication_proofs!PublicationIsSafe`, `BookmarksSurvive`, `EveryChangeAnnounced`, `AnswersAreHonest`, `ChangesSeenMarksSurvive`, and one theorem per part | `PublicationSafe`, `ChangesSeenMarksKept`, `HonestAnswers` | `IInv` in six layers, below |
| `HttpConnection_proofs!ResponsesAlwaysInOrder`, `ConnectionsAlwaysCounted` | `ResponsesInOrder`, `ConnectionsCounted` | `HcInv`: permits are the listener's plus the connections'; what is buffered, dispatched and logged of a connection are consecutive numbers; the report of a delivery agrees with what was sent |
| `OriginalDelivery_proofs!OriginalsAlwaysWhole` | `OriginalsWhole` | `OrInv`: reads stay inside the promised span; a client's pieces have one version as long as it resumes with a validator that matched |
| `OutputDelivery_proofs!AnswersAlwaysWhole` | `AnswersWhole` | `OdInv`: past readiness the pinned file, the promise and the open file are one attempt; what was seen complete stays so while it is answered |
| `Helper_proofs!HelpersAlwaysKept` | `HelpersKept` | `HpInv`: where the supervising thread is tells the state of the group's leader, and the number is nobody else's until the leader is reaped (`Supervised`); what the reader keeps is a run of consecutive numbers with a known end (`Kept`); a reader that saw the end saw the last writer gone, and none comes back (`Ended`) |
| `Retention_proofs!CacheAlwaysKept` | `CacheKept` | `TcInv`: an output has one attempt, which reserves it until it is registered (`Reserved`); an eviction holds a name no attempt can have (`Evicting`); one attempt is at the gate's places, its holder (`Gated`); what `Relies` and publication count on is on disk (`Kept`); the inventory agrees about every file nobody writes, retires or is due to sweep, maintenance under way or not (`Known`) |
| `LibraryScan_proofs!RowsAlwaysTruthful`, `PassesAlwaysSound` | `RowsTruthful`, `PassesSound` | `ScanInv`: the committed rows and those of the running pass are described in the same terms (`Truthful`); where a pass is tells what it has walked, listed and checked (`Staged`); every dropped row has an excuse that lasts to the commit (`Remembers`); what is known of the roots it trusts (`Looked`); how far an undisturbed pass has come (`Converging`) |
| `WebPlayer_proofs!PlayerAlwaysDriven`, `ViewerAlwaysKept` | `PlayerDriven`, `ViewerKept` | `PlayerInv`: source, retry timer and seek timer exclude each other and agree with the status (`Driven`); what an attached source may still await, and that a source being negotiated awaits nothing else (`Attends`); the clock of a prepared source is offset plus element, or the offset still pending (`Positioned`); whatever drives the player, armed timers included, would resume where the viewer is (`Placed`). Without `Placed` a retry could have been armed anywhere, without `Attends` an answer could come to a source that is gone |

`PassesSound` was first stated without its third exception. The proof of `Looked`
did not close, and a run with one change more (three) found why: a whole pass over a
bare mount point without rows records its device, the volume is mounted, a targeted
pass indexes it, and after an unmount the next whole pass takes the empty directory
for an emptied library. Section 7 lists it among the limits.

The layers of `IInv`: (1) `Types`, with the local values that exist at each program
counter; (2) `Locks`: the gate and the publication lock belong to exactly the
threads whose program counters say so; (3) `Generations`: the id in memory is the
persisted one except between a commit and its in-memory half, when it is one
behind; (4) `Session`: a usable stage differs from the live rows only in its
journal; (5) `Synced`: without a foreign writer the catalog is the database
outside a publication, and inside it the pending update is exactly the difference;
(6) `Pages`: a cached or freshly read page of generation g is the item table of g
while g is current. Each layer is proved from those before it.

The player's handlers are compositions of functions from a controller to a
controller, so `WebPlayer_proofs` says what each function returns (`Resumed`, `Like`,
`Alike`, `Continues`) before it says what a step keeps. `PlayerAssumption` asks that
positions are positions of the title, that probes are negotiations, and that the
allowances are numbers.

Action properties follow from the invariant by one case per action. The modules
with theorems use no RECURSIVE operator.

Only model-checked, besides liveness:

- `Gena` (`SubscribersInformed`, `InOrder`): what `SelectSeq` keeps of the queue for
  every length needs induction over sequences, which the prover cannot instantiate;
- `ContentDirectory` and `SearchCriteria` (`AskedAndAnswered`): recursive evaluation
  of criteria and sorting;
- `OutputsHeld`, `SessionsAgree`, `SearchesAnswered`, `ClientsKnown`,
  `WatcherKeepsUp`, `EventsSuffice`, `PassesApply`, `TreeSound`, `WebListsWhole`,
  `PlansSound`, `IndexSound`, `PlaylistsSound`, `OutputsChecked`, `PumpSafe`,
  `PicturesSound`: their inductive invariants are not
  written yet.

## 6. Findings

`remux_download` (`ExpiryArmed`). `docs/WEB_PLAYER.md` (856-858) says that completed
nonzero-offset output is removed after the lease and retention window. The response
of a native download sets `continue_after_disconnect`. If the producer of a
non-cacheable output completes while such a response is attached, the schedule of
`finish_job` arms nothing because of the reader, and `detach_client` (`remux.rs` 931)
arms nothing because of the flag: the job stays registered, and its file protected
from eviction, until an ordinary reader comes and leaves or the server stops.

`folder_lost` (`EveryFileBrowsable`). The comment at `scan/src/lib.rs` 5069 says
"never steal the other item's row". `attach_objects` looks a file's title up among
the children of its folder and takes over a row without a detail, which a folder's
row is: with `a.mkv` beside `a/` one object is both, and the files below it are in
no listing.

## 7. Limits of the models and of the guarantees

What is excluded from a property because the code does not promise it, and smaller
disagreements met while modelling that no run states.

**Other processes.** `CatalogAgrees`, `ChangesAreAnnounced` and `HonestAnswers` are
for a server alone with its database. `GenerationsAgree`, `StageTracksLive`,
`NoUnpublishedWork` and `BookmarksKept` hold with a rescan by another process too.
A wrap of SystemUpdateID at 2^32 is covered by `WebLibrary` only, where a list that
is loaded across a whole turn of the generation is excluded: neither the browser
nor the generation in a request can tell it from a list of one publication.

**Web pages.** Answers 304 and 404, eviction from the two caches, and filters of the
list of saved titles are left out.

**Content Directory.** `DerivedFrom` on a property other than the class matches in
memory but not in SQL; a Search below an item answers from SQL but is empty in
memory; an object larger than a response gives NumberReturned 0 for ever; a bookmark
that commits after its deadline is answered 501.

**Object tree.** The comment at `db.rs` 3414 ("deleting a sibling cannot reuse an
id") is false for the last child. The incremental cache of Recently Added loses a
surviving alias when the listed one goes, and after deletions can rank an older
file above newer ones that are not cached. A path that comes back with another
inode between passes leaves All Video entries of the old inode; `Place` excludes
it. Audio and image views are left out.

**Watcher and passes.** Two hard links to a closed file in one settling window wait
for the periodic walk; a retry at idle poll rebuilds the tree without clearing
pending creates; CLOSE of a name that was recreated releases the wrong inode; an
in-place rewrite of a hard-linked file refreshes the closed name only. A root
unmounted after the second availability check, or flapping during the walk, can
lose rows; a targeted pass never applies the empty-root rule and never records a
device (`lib.rs` 3941), so a root whose bare mount point was recorded by a whole
pass, then mounted and indexed by targeted passes only, loses its rows at the next
unmount (`lib.rs` 4243: `RowsSurvive` exempts a root recorded bare). A pass that fills
missing stream metadata at startup (`fill_missing_av_meta_with_db`) probes what a
path names now without comparing it with the row's inode, and copies the result to
the row's aliases: a file replaced between the startup reconcile and this pass
gives its columns to hard links of the file it replaced. That pass is not modelled.
A sidecar applied while its video was indexed again and removed afterwards keeps
its metadata. A targeted pass deletes rows of playlists on a root that is away;
hard-linked playlists lose one row from the second synchronisation on.

**Compatible streams.** `Admit` takes waiting for a permit after a supersession as
"the step comes later". Two hazards stay without a property: `cancel_all` takes a
snapshot of the registry while an attachment is past its checks (`remux.rs` 3865),
and the origin probe computes free helper slots from the job gate (`remux.rs` 2438).
`Worker::stop` of the cache stores and notifies without the lock, so an idle worker
may stay parked until the process ends; a job registered after `cancel_all`'s
snapshot keeps its unanswered check; eviction may count the bytes of a failed job's
removed part until the retirement is consumed; files changed from outside are only
corrected by the next sweep.

**Index, validation, delivery.** A new job that takes up a finished file
may give a generation another target duration ("an earlier growing generation's
target is not transferable", `completed.rs`); its list still extends the one given.
Limits of entries, boxes and samples are left out. A first fragment with audio only
passes validation but not the index. A copied seek may lack at its end as much as it
carries before the seek; `source_evidence.rs` takes the last keyframe up to the seek
while FFmpeg's target is 3/23 s earlier for demuxers with decoder delay. HEAD,
malformed ranges and headers are left out; a file cut from outside weakens only the
claims about length; an original rewritten in place during a transfer may mix; the
granularity of file times bounds what a validator can tell apart.

**Player.** A position is lost when audio or quality changes while an Original
opened at a resume point has no metadata yet; a seek in an Original before
`loadedmetadata` is overridden by its start; after a seek to exactly 0 a recovery
starts at the source's start (`position || start`); a seek waiting for the buffer is
dropped by a retry; a stalled native start with a spent budget keeps its spinner; a
queued `playing` after a pause in a hidden tab can change intent. The pump fetches
without its reserve check while a decoder is slow to finish a seek, and pausing
during a fetch that the quota refuses fails the source; encoded groups are assumed
no longer than what a required prune keeps (2 s). Server statuses are monotone per
request.

**Pictures and helpers.** A server starts only if the first maintenance meets the
quota; the limit of inventory entries is left out. A helper's last output is lost if
its reader saw nothing to read before the write and the stop flag after it.

**Connections.** A panic of a request's worker is left out.

## 8. What is not modelled

Listed in `PROJECT.json` with reasons: SQL text, migrations and the schema; parsing
of media, images and XML; the Dolby Vision bitstream rewriter; DIDL-Lite and
descriptions, which are text without state; the JSON handlers of the web interface
other than the library pages and the player's; configuration, metrics and status,
which nothing reads back; the Python tools. The order of start and stop of the server's threads is only
in the modules that end (`Gena`, `HttpConnection`, `TranscodeCache`): a wake-up that
`stop_library_watch_until` sends without its lock can be missed by the periodic
worker, which then costs shutdown its budget (`lifecycle.rs` 850).

## 9. What is left to do

1. Inductive invariants for the parts of `RemuxJobs.OutputsHeld`, then for
   `LibraryWatch.WatcherKeepsUp`.
2. The two gates of producers and probes with the origin probe.
3. The server's lifecycle as one module over the ends of the others.
