---------------------------- MODULE LibraryWatch ----------------------------
(***************************************************************************)
(* The inotify watcher of the media library                                *)
(* (src/crates/scan/src/watch.rs, started by                               *)
(* src/crates/server/src/lifecycle.rs).                                    *)
(*                                                                         *)
(* A media root holds the names RootNames and one subdirectory that holds  *)
(* SubNames.  Other programs create, write, link, rename and remove files  *)
(* while the watcher reads the kernel's event records one by one, always   *)
(* later than the change they report and always looking at what the path   *)
(* names NOW.  A burst of records settles into a batch; the batch is       *)
(* applied to the catalogue, either path by path or, after a directory     *)
(* change, an overflow or a failure, by rebuilding the watch tree and      *)
(* reconciling everything.  A new file waits for its writer's close, and   *)
(* is followed by inode through links, renames and unlinks until then.     *)
(*                                                                         *)
(* A file's content is the number of the operation that last wrote it, so  *)
(* no two contents are equal; catalog[p] is the content the library has    *)
(* indexed for p.                                                          *)
(***************************************************************************)
EXTENDS Integers, Sequences, FiniteSets

CONSTANTS
    RootNames,          \* names directly under the media root
    SubNames,           \* names in the subdirectory
    Unfinished,         \* the names the naming policy refuses (*.part, samples)
    Inodes,             \* inode numbers; a freed one may be used again
    None,               \* no inode, no path, no content
    MaxOps,             \* operations other programs perform
    MaxFail,            \* rebuilds and reconciliations that fail
    QueueLimit,         \* fs.inotify.max_queued_events
    ReconcileAfter,     \* RECONCILE_AFTER: paths of a batch before it collapses
    MaxPendingPaths     \* MAX_PENDING_CREATE_PATHS

ASSUME WatchAssumption ==
    /\ RootNames \cap SubNames = {} /\ None \notin Inodes \cup RootNames \cup SubNames
    /\ {MaxOps, MaxFail, QueueLimit, ReconcileAfter, MaxPendingPaths} \subseteq Nat

VARIABLES
    name,       \* the directory entries: path -> inode
    content,    \* inode -> the operation that last wrote it
    writer,     \* inode -> the directory entry through which it is open for writing
    sub,        \* whether the subdirectory is there
    ops,        \* operations performed so far
    watched,    \* the directories of the live watch tree
    queue,      \* kernel records the watcher has not read
    newWatched, \* the directories of the tree under construction
    newQueue,   \* kernel records of the tree under construction
    listed,     \* whether the root's listing showed the subdirectory
    pc,         \* where the watcher thread is
    batch,      \* PendingBatch
    pend,       \* PendingCreates
    retry,      \* PendingFullRetry: a full reconciliation is owed
    fails,      \* failures so far
    catalog,    \* path -> the indexed content
    early,      \* names changed before the first watch tree was complete
    multi       \* inodes that have had two names at once

files == <<name, content, writer, sub, ops, early, multi>>
kernel == <<watched, queue>>
building == <<newWatched, newQueue, listed>>
watcher == <<pc, batch, pend, retry, fails>>
vars == <<files, kernel, building, watcher, catalog>>

Paths == RootNames \cup SubNames

Dir(p) == IF p \in SubNames THEN "sub" ELSE "root"

Names(i) == {p \in Paths : name[p] = i}

Exists(p) == name[p] # None

\* What a reconciliation that looks at p now records for it.
OnDisk(p) == IF Exists(p) /\ p \notin Unfinished THEN content[name[p]] ELSE None

NoHistory == [sources |-> {}, eligible |-> {}, creates |-> 0, single |-> FALSE,
              movesFrom |-> 0, movedBlind |-> FALSE]

EmptyPending ==
    [hist |-> [i \in Inodes |-> None], byPath |-> [p \in Paths |-> None], vanished |-> {}]

EmptyBatch == [full |-> FALSE, awaiting |-> FALSE, add |-> {}, remove |-> {}, dirs |-> FALSE]

-----------------------------------------------------------------------------
(* The kernel: a record goes to every tree that watches the directory; the *)
(* record that finds a queue full is replaced by one overflow record.      *)

Records(q, on, evs) ==
    LET seen == SelectSeq(evs, LAMBDA e : e.dir \in on)
        Put(s, e) == IF Len(s) < QueueLimit THEN Append(s, e)
                     ELSE IF s[Len(s)].kind = "overflow" THEN s
                     ELSE Append(s, [kind |-> "overflow", path |-> None, dir |-> None])
    IN CASE Len(seen) = 0 -> q
         [] Len(seen) = 1 -> Put(q, seen[1])
         [] OTHER         -> Put(Put(q, seen[1]), seen[2])

Ev(kind, p) == [kind |-> kind, path |-> p, dir |-> Dir(p)]

DirEv(kind) == [kind |-> kind, path |-> None, dir |-> "root"]

SelfEv == [kind |-> "self", path |-> None, dir |-> "sub"]

Emit(evs) ==
    /\ queue' = Records(queue, watched, evs)
    /\ newQueue' = Records(newQueue, newWatched, evs)
    /\ UNCHANGED listed

(***************************************************************************)
(* Other programs.  Every operation is one step; a rename moves an open    *)
(* writer's directory entry with it, an unlink leaves the entry's name.    *)
(***************************************************************************)
Touch(ps) ==
    /\ ops < MaxOps
    /\ pc # "stopped"
    /\ ops' = ops + 1
    /\ early' = IF pc \in {"start", "startTree"} THEN early \cup ps ELSE early
    /\ UNCHANGED <<watcher, catalog>>

Present(p) == p \in RootNames \/ sub

Free(i) == Names(i) = {} /\ writer[i] = None

Create(p, i) ==
    /\ Touch({p})
    /\ Present(p) /\ ~Exists(p) /\ Free(i)
    /\ name' = [name EXCEPT ![p] = i]
    /\ content' = [content EXCEPT ![i] = ops']
    /\ writer' = [writer EXCEPT ![i] = p]
    /\ multi' = multi \ {i}
    /\ Emit(<<Ev("create", p)>>)
    /\ UNCHANGED <<sub, watched, newWatched>>

Close(i) ==
    /\ writer[i] # None
    /\ Touch(Names(i) \cup {writer[i]})
    /\ content' = [content EXCEPT ![i] = ops']
    /\ writer' = [writer EXCEPT ![i] = None]
    /\ Emit(<<Ev("close", writer[i])>>)
    /\ UNCHANGED <<name, sub, multi, watched, newWatched>>

Link(p, q) ==
    /\ Touch({q})
    /\ Exists(p) /\ Present(q) /\ ~Exists(q)
    /\ name' = [name EXCEPT ![q] = name[p]]
    /\ multi' = multi \cup {name[p]}
    /\ Emit(<<Ev("create", q)>>)
    /\ UNCHANGED <<content, writer, sub, watched, newWatched>>

Unlink(p) ==
    /\ Touch({p})
    /\ Exists(p)
    /\ name' = [name EXCEPT ![p] = None]
    /\ Emit(<<Ev("delete", p)>>)
    /\ UNCHANGED <<content, writer, sub, multi, watched, newWatched>>

Rename(p, q) ==
    /\ Touch({p, q})
    /\ Exists(p) /\ Present(q) /\ name[q] # name[p]
    /\ name' = [name EXCEPT ![q] = name[p], ![p] = None]
    /\ writer' = [i \in Inodes |->
                    IF i = name[p] /\ writer[i] = p THEN q ELSE writer[i]]
    /\ Emit(<<Ev("from", p), Ev("to", q)>>)
    /\ UNCHANGED <<content, sub, multi, watched, newWatched>>

\* The subdirectory leaves the root with everything in it.
DirectoryOut ==
    /\ Touch(SubNames)
    /\ sub
    /\ \A i \in Inodes : writer[i] \notin SubNames
    /\ sub' = FALSE
    /\ name' = [p \in Paths |-> IF p \in SubNames THEN None ELSE name[p]]
    /\ Emit(<<DirEv("dirOut"), SelfEv>>)
    /\ watched' = watched \ {"sub"} /\ newWatched' = newWatched \ {"sub"}
    /\ UNCHANGED <<content, writer, multi>>

\* A directory appears, empty or moved in with a finished file in it.
DirectoryIn(p, i) ==
    /\ Touch(SubNames)
    /\ ~sub
    /\ sub' = TRUE
    /\ \/ i = None /\ UNCHANGED <<name, content, multi>>
       \/ /\ i # None /\ Free(i)
          /\ name' = [name EXCEPT ![p] = i]
          /\ content' = [content EXCEPT ![i] = ops']
          /\ multi' = multi \ {i}
    /\ Emit(<<DirEv("dirIn")>>)
    /\ UNCHANGED <<writer, watched, newWatched>>

Other ==
    \/ \E p \in Paths, i \in Inodes : Create(p, i)
    \/ \E i \in Inodes : Close(i)
    \/ \E p, q \in Paths : Link(p, q) \/ Rename(p, q)
    \/ \E p \in Paths : Unlink(p)
    \/ DirectoryOut
    \/ \E p \in SubNames, i \in Inodes \cup {None} : DirectoryIn(p, i)

-----------------------------------------------------------------------------
(* PendingBatch *)

Collapse(b) == [EmptyBatch EXCEPT !.full = TRUE]

BatchSize(b) == Cardinality(b.add) + Cardinality(b.remove) + (IF b.dirs THEN 1 ELSE 0)

Bounded_never(b) == b

Bounded(b) == IF BatchSize(b) >= ReconcileAfter THEN Collapse(b) ELSE b

AddFiles(b, ps) ==
    IF b.full \/ ps = {} THEN b
    ELSE Bounded([b EXCEPT !.add = @ \cup ps, !.remove = @ \ ps])

RemoveFile(b, p) ==
    IF b.full THEN b
    ELSE Bounded([b EXCEPT !.add = @ \ {p}, !.remove = @ \cup {p}])

AddDir_topologyIgnored(b) == b

AddDir(b) == IF b.full THEN b ELSE Bounded([b EXCEPT !.dirs = TRUE])

RemoveTree(b) ==
    IF b.full THEN b
    ELSE Bounded([b EXCEPT !.add = @ \ SubNames, !.remove = @ \ SubNames, !.dirs = TRUE])

RequiresFull(b) == b.full \/ b.dirs

IsEmpty(b) == ~b.full /\ ~b.awaiting /\ ~b.dirs /\ b.add = {} /\ b.remove = {}

\* promote_pending_retry_batch
Promote(b) == IF IsEmpty(b) /\ retry THEN [b EXCEPT !.full = TRUE] ELSE b

-----------------------------------------------------------------------------
(* PendingCreates *)

Tracked(d) == {p \in Paths : d.byPath[p] # None}

CanTrack(d, p) == Cardinality(Tracked(d) \cup {p}) <= MaxPendingPaths

History(d, i) == IF d.hist[i] = None THEN NoHistory ELSE d.hist[i]

ObserveCreate(d, i, p) ==
    LET h == History(d, i)
        k == [h EXCEPT !.creates = IF @ < 2 THEN @ + 1 ELSE @,
                       !.single = @ \/ Cardinality(Names(i)) <= 1,
                       !.sources = IF d.hist[i] = None THEN {p} ELSE @,
                       !.eligible = IF p \in Unfinished THEN @ ELSE @ \cup {p}]
    IN [d EXCEPT !.hist[i] = k, !.byPath[p] = i]

ObserveVanished(d, p) ==
    IF Cardinality(d.vanished) + 1 <= MaxPendingPaths
    THEN [d EXCEPT !.vanished = @ \cup {p}] ELSE d

ObserveMovedTo(d, i, p) ==
    LET k == [d.hist[i] EXCEPT
                !.sources = @ \cup {p},
                !.movesFrom = IF @ > 0 THEN @ - 1 ELSE 0,
                !.movedBlind = @ \/ d.hist[i].movesFrom = 0,
                !.eligible = IF p \in Unfinished THEN @ ELSE @ \cup {p}]
    IN [d EXCEPT !.hist[i] = k, !.byPath[p] = i]

ObserveUnlink(d, p) ==
    LET i == d.byPath[p]
    IN IF i = None \/ d.hist[i] = None THEN d ELSE [d EXCEPT !.hist[i].eligible = @ \ {p}]

ObserveMovedFrom(d, p) ==
    LET i == d.byPath[p]
    IN IF i = None \/ d.hist[i] = None THEN d
       ELSE [d EXCEPT !.hist[i] = [@ EXCEPT !.sources = @ \ {p}, !.eligible = @ \ {p},
                                            !.movesFrom = @ + 1]]

\* The inodes whose history a close of p ends: the one p names, else the
\* one p was recorded for, else, when p's creation was never seen, every
\* pending inode of its directory.
Released(d, p) ==
    LET i == IF Exists(p) THEN name[p] ELSE d.byPath[p]
    IN IF i # None THEN {i}
       ELSE IF p \notin d.vanished THEN {}
       ELSE {j \in Inodes : d.hist[j] # None
                             /\ \E q \in d.hist[j].eligible : Dir(q) = Dir(p)}

ForgetAll(d, is) ==
    [d EXCEPT !.hist = [i \in Inodes |-> IF i \in is THEN None ELSE @[i]],
              !.byPath = [p \in Paths |-> IF @[p] \in is THEN None ELSE @[p]]]

EligibleOf(d, is) == UNION {d.hist[i].eligible : i \in {j \in is : d.hist[j] # None}}

ObserveClose(d, p) ==
    [ForgetAll(d, Released(d, p)) EXCEPT
        !.vanished = IF Exists(p) \/ d.byPath[p] # None THEN @ ELSE @ \ {p}]

\* A lone link(2) to a closed file has no close to wait for.
Settled(d) ==
    {i \in Inodes : /\ d.hist[i] # None
                    /\ ~d.hist[i].single /\ d.hist[i].creates = 1 /\ ~d.hist[i].movedBlind}

Orphaned(d) == \E i \in Inodes : d.hist[i] # None /\ d.hist[i].sources = {}

-----------------------------------------------------------------------------
(* collect_events: one record, judged by what its path names now. *)

Result(b, d) == [batch |-> b, pend |-> d]

CollectCreate(p) ==
    IF ~Exists(p) THEN Result(batch, ObserveVanished(pend, p))
    ELSE IF ~CanTrack(pend, p) THEN Result(Collapse(batch), EmptyPending)
    ELSE Result([batch EXCEPT !.awaiting = TRUE], ObserveCreate(pend, name[p], p))

CollectMovedTo(p) ==
    IF ~Exists(p) \/ pend.hist[name[p]] = None
    THEN Result(IF p \in Unfinished THEN batch ELSE AddFiles(batch, {p}), pend)
    ELSE IF ~CanTrack(pend, p) THEN Result(Collapse(batch), EmptyPending)
    ELSE Result(batch, ObserveMovedTo(pend, name[p], p))

CollectClose(p) ==
    LET names == EligibleOf(pend, Released(pend, p)) \cup ({p} \ Unfinished)
    IN Result(AddFiles(batch, names), ObserveClose(pend, p))

Collected(e) ==
    CASE e.kind = "overflow" -> Result(Collapse(batch), EmptyPending)
      [] e.kind # "overflow" /\ batch.full -> Result(batch, pend)
      [] ~batch.full /\ e.kind = "self" -> Result(Collapse(batch), pend)
      [] ~batch.full /\ e.kind = "create" -> CollectCreate(e.path)
      [] ~batch.full /\ e.kind = "to" -> CollectMovedTo(e.path)
      [] ~batch.full /\ e.kind = "close" -> CollectClose(e.path)
      [] ~batch.full /\ e.kind = "delete" ->
            Result(RemoveFile(batch, e.path), ObserveUnlink(pend, e.path))
      [] ~batch.full /\ e.kind = "from" ->
            Result(RemoveFile(batch, e.path), ObserveMovedFrom(pend, e.path))
      [] ~batch.full /\ e.kind = "dirIn" -> Result(AddDir(batch), pend)
      [] ~batch.full /\ e.kind = "dirOut" -> Result(RemoveTree(batch), pend)

-----------------------------------------------------------------------------
(* The watcher thread *)

Goto(at) == pc' = at

\* A batch that will be reconciled in full needs no creation history.
Keep(b, d) == IF retry \/ RequiresFull(b) THEN EmptyPending ELSE d

\* run_inotify_core: the poll finds a record while no batch is open; the
\* record either opens one or says nothing about media.
ReadFirst ==
    /\ pc = "idle" /\ queue # <<>>
    /\ LET c == Collected(Head(queue))
           b == Promote(c.batch)
       IN /\ batch' = b
          /\ pend' = IF IsEmpty(b) THEN c.pend ELSE Keep(b, c.pend)
          /\ Goto(IF IsEmpty(b) THEN "idle" ELSE "settling")
    /\ queue' = Tail(queue)
    /\ UNCHANGED <<files, watched, building, retry, fails, catalog>>

ReadMore ==
    /\ pc = "settling" /\ queue # <<>>
    /\ LET c == Collected(Head(queue)) IN batch' = c.batch /\ pend' = c.pend
    /\ queue' = Tail(queue)
    /\ UNCHANGED <<files, watched, building, pc, retry, fails, catalog>>

\* SETTLE without a record, or MAX_BATCH_DELAY with some still unread.
Settle ==
    /\ pc = "settling"
    /\ LET ready == EligibleOf(pend, Settled(pend))
           s == IF Orphaned(pend) THEN Collapse(batch) ELSE AddFiles(batch, ready)
           d == IF Orphaned(pend) THEN EmptyPending ELSE ForgetAll(pend, Settled(pend))
           b == Promote([s EXCEPT !.awaiting = FALSE])
       IN /\ batch' = IF IsEmpty(b) THEN EmptyBatch ELSE b
          /\ pend' = IF IsEmpty(b) THEN d ELSE Keep(b, d)
          /\ Goto(IF IsEmpty(b) THEN "idle"
                  ELSE IF retry \/ RequiresFull(b) THEN "rebuild" ELSE "targeted")
    /\ UNCHANGED <<files, kernel, building, retry, fails, catalog>>

\* The poll times out with a full reconciliation owed and its delay over.
RetryDue ==
    /\ pc = "idle" /\ queue = <<>> /\ retry
    /\ batch' = [EmptyBatch EXCEPT !.full = TRUE]
    /\ Goto("rebuild")
    /\ UNCHANGED <<files, kernel, building, pend, retry, fails, catalog>>

\* rebuild_watch_tree_until builds a whole new tree beside the live one:
\* the root's watch, then the directories its listing shows.
BuildRoot(at, next) ==
    /\ pc = at
    /\ newWatched' = {"root"} /\ newQueue' = <<>> /\ listed' = sub
    /\ Goto(next)
    /\ UNCHANGED <<files, kernel, batch, pend, retry, fails, catalog>>

Swap(next) ==
    /\ watched' = newWatched \cup (IF listed /\ sub THEN {"sub"} ELSE {})
    /\ queue' = newQueue
    /\ newWatched' = {} /\ newQueue' = <<>> /\ listed' = FALSE
    /\ Goto(next)

RebuildRoot == BuildRoot("rebuild", "tree")

RebuildDone ==
    /\ pc = "tree"
    /\ Swap("full")
    /\ UNCHANGED <<files, batch, pend, retry, fails, catalog>>

\* No watch capacity: the old tree stays live and the debt is recorded.
RebuildFails ==
    /\ pc = "tree" /\ fails < MaxFail
    /\ fails' = fails + 1
    /\ newWatched' = {} /\ newQueue' = <<>> /\ listed' = FALSE
    /\ retry' = TRUE /\ batch' = EmptyBatch /\ Goto("idle")
    /\ UNCHANGED <<files, kernel, pend, catalog>>

ReconcilePaths(ps) == catalog' = [p \in Paths |-> IF p \in ps THEN OnDisk(p) ELSE catalog[p]]

Reconciled ==
    /\ retry' = FALSE /\ batch' = EmptyBatch /\ Goto("idle")
    /\ UNCHANGED <<files, kernel, building, pend, fails>>

ApplyTargeted ==
    /\ pc = "targeted"
    /\ ReconcilePaths(batch.add \cup batch.remove)
    /\ Reconciled

\* A failed targeted publication is replaced by a full one on the spot.
TargetedFails ==
    /\ pc = "targeted" /\ fails < MaxFail
    /\ fails' = fails + 1
    /\ Goto("full")
    /\ UNCHANGED <<files, kernel, building, batch, pend, retry, catalog>>

ApplyFull ==
    /\ pc = "full"
    /\ ReconcilePaths(Paths)
    /\ Reconciled

FullFails_debtForgotten ==
    /\ pc = "full" /\ fails < MaxFail
    /\ fails' = fails + 1
    /\ batch' = EmptyBatch /\ Goto("idle")
    /\ UNCHANGED <<files, kernel, building, pend, retry, catalog>>

FullFails ==
    /\ pc = "full" /\ fails < MaxFail
    /\ fails' = fails + 1
    /\ retry' = TRUE /\ batch' = EmptyBatch /\ Goto("idle")
    /\ UNCHANGED <<files, kernel, building, pend, catalog>>

\* The first tree is built after the startup pass has filled the catalogue.
StartRoot == BuildRoot("start", "startTree")

StartDone ==
    /\ pc = "startTree"
    /\ Swap("idle")
    /\ UNCHANGED <<files, batch, pend, retry, fails, catalog>>

\* Cancellation is seen at the two loop heads and while a tree is built.
Stop ==
    /\ pc \in {"start", "startTree", "idle", "settling", "rebuild", "tree"}
    /\ Goto("stopped")
    /\ watched' = {} /\ queue' = <<>> /\ newWatched' = {} /\ newQueue' = <<>> /\ listed' = FALSE
    /\ batch' = EmptyBatch /\ pend' = EmptyPending
    /\ UNCHANGED <<files, retry, fails, catalog>>

\* The periodic worker: the same reconciliation under the same gate, which
\* the watcher holds from the settled batch until it is applied.
PeriodicReconcile ==
    /\ pc \notin {"stopped", "rebuild", "tree", "targeted", "full"}
    /\ catalog # [p \in Paths |-> OnDisk(p)]
    /\ ReconcilePaths(Paths)
    /\ UNCHANGED <<files, kernel, building, watcher>>

Thread ==
    \/ StartRoot \/ StartDone \/ ReadFirst \/ ReadMore \/ Settle \/ RetryDue
    \/ RebuildRoot \/ RebuildDone \/ ApplyTargeted \/ ApplyFull

Failure == RebuildFails \/ TargetedFails \/ FullFails

Init ==
    /\ \E p \in RootNames, i \in Inodes :
          /\ name = [q \in Paths |-> IF q = p THEN i ELSE None]
          /\ content = [j \in Inodes |-> 0]
          /\ catalog = [q \in Paths |-> IF q = p /\ q \notin Unfinished THEN 0 ELSE None]
    /\ writer = [i \in Inodes |-> None]
    /\ sub \in BOOLEAN
    /\ ops = 0 /\ early = {} /\ multi = {}
    /\ watched = {} /\ queue = <<>> /\ newWatched = {} /\ newQueue = <<>>
    /\ listed = FALSE
    /\ pc = "start" /\ batch = EmptyBatch /\ pend = EmptyPending
    /\ retry = FALSE /\ fails = 0

Next == Other \/ Thread \/ Failure \/ Stop \/ PeriodicReconcile

Spec == Init /\ [][Next]_vars

-----------------------------------------------------------------------------
\* Every variable keeps its kind and the kernel queues their limit.
TypeOK ==
    /\ name \in [Paths -> Inodes \cup {None}]
    /\ content \in [Inodes -> 0..MaxOps]
    /\ writer \in [Inodes -> Paths \cup {None}]
    /\ watched \cup newWatched \subseteq {"root", "sub"}
    /\ Len(queue) <= QueueLimit + 1 /\ Len(newQueue) <= QueueLimit + 1
    /\ Cardinality(Tracked(pend)) <= MaxPendingPaths
    /\ Cardinality(pend.vanished) <= MaxPendingPaths
    /\ batch.add \cup batch.remove \subseteq Paths /\ BatchSize(batch) < ReconcileAfter
    /\ catalog \in [Paths -> 0..MaxOps \cup {None}]

\* The watcher has nothing left to do and no file is being written.
Quiet ==
    /\ pc = "idle" /\ queue = <<>> /\ ~retry
    /\ \A i \in Inodes : writer[i] = None

\* Names no program touched before the first watch tree could report it.
Watchable == Paths \ early

Held(p) == Exists(p) /\ pend.hist[name[p]] # None

(***************************************************************************)
(* No change is forgotten.  When the watcher is at rest, with no record    *)
(* unread, no full reconciliation owed and every writer closed, the        *)
(* catalogue agrees with the disk: a removed name is gone from it, and a   *)
(* present one is in it unless its inode's creation history is still held. *)
(* A file that never had two names is indexed with the content its last    *)
(* writer left; of a hard-linked one only the name the close reports is    *)
(* sure to be current (run_inotify_core, collect_events, apply_batch).     *)
(***************************************************************************)
Converged ==
    Quiet =>
        \A p \in Watchable :
            /\ OnDisk(p) = None => catalog[p] = None
            /\ OnDisk(p) # None /\ ~Held(p) => catalog[p] # None
            /\ Exists(p) /\ ~Held(p) /\ name[p] \notin multi => catalog[p] = OnDisk(p)

(***************************************************************************)
(* No directory is left unwatched: one that appears while a tree is built  *)
(* is either in the listing or reported by the root's new watch, so the    *)
(* watcher at rest watches it (add_tree_watches_with_limit).               *)
(***************************************************************************)
NoBlindDirectory == Quiet /\ sub /\ early = {} => "sub" \in watched

\* At rest the watcher has told the library everything: the catalogue agrees
\* with the disk and every directory is watched (run_inotify_core).
WatcherKeepsUp == TypeOK /\ Converged /\ NoBlindDirectory

=============================================================================
