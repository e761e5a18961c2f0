----------------------------- MODULE LibraryScan ----------------------------
(***************************************************************************)
(* Reconciling the library database with the media roots                   *)
(* (src/crates/scan/src/lib.rs over src/crates/scan/src/db.rs).            *)
(*                                                                         *)
(* Real files live on the volumes of the configured roots; Shortcut is a   *)
(* symlink to the file Target in another root.  A volume may be unmounted  *)
(* (the mount point is then an empty directory on another device), its     *)
(* root may be missing, and a directory may refuse to be read.  A pass     *)
(* decides which roots it cannot trust, lists what it can see, removes the *)
(* rows it judges gone, indexes what it listed and commits; programs and   *)
(* mounts change the disk between any two of its steps.  A row is what     *)
(* DETAILS keeps of a path: inode, the content its size and time stand     *)
(* for, the content its stream columns describe, and how often the probe   *)
(* has timed out.  `entries` are the rows that own the entry of their      *)
(* physical file in the All Video view.                                    *)
(***************************************************************************)
EXTENDS Integers, FiniteSets

CONSTANTS
    Roots, Files, Shortcut, Target, LsInodes, Nil,
    RootOf,             \* Files \cup {Shortcut} -> Roots
    MaxChanges,         \* changes made by other programs and by the administrator
    MaxFaults           \* probes that fail or run into their deadline

ASSUME ScanAssumption ==
    /\ Target \in Files /\ Shortcut \notin Files /\ Nil \notin LsInodes \cup Files
    /\ RootOf \in [Files \cup {Shortcut} -> Roots] /\ IsFiniteSet(Files)
    /\ Nil \notin [ino : LsInodes, ver : Nat, desc : Nat \cup {Nil}, rev : Int]
    /\ MaxChanges \in Nat /\ MaxFaults \in Nat

VARIABLES
    disk,       \* Files -> inode on the file's volume
    stamp,      \* inode -> the operation that last wrote it
    mount,      \* root -> "volume", "bare" or "missing"
    sealed,     \* files in a directory that may not be read
    changes, faults,
    rows, entries, recorded,    \* the committed database
    pass,       \* the running pass, or Nil
    late,       \* roots that went away where a pass trusted them, or came back during one
    swapped,    \* inodes that a surviving row left or joined
    absent,     \* files that were not on their volume at some point of this pass
    calm        \* nothing has changed since the pass began

db == <<rows, entries, recorded>>
world == <<disk, stamp, mount, sealed, changes>>
ghosts == <<late, swapped, absent, calm>>
lsVars == <<world, faults, db, pass, ghosts>>

LsPaths == Files \cup {Shortcut}

FileOf(p) == IF p = Shortcut THEN Target ELSE p

\* The inode a path leads to now, if it can be opened.
Visible(p) ==
    LET f == FileOf(p) IN
    IF mount[RootOf[p]] = "volume" /\ mount[RootOf[f]] = "volume" /\ f \notin sealed
    THEN disk[f] ELSE Nil

\* path_is_definitely_gone: a refused directory proves nothing.
Gone(p) == Visible(p) = Nil /\ ~(FileOf(p) \in sealed /\ mount[RootOf[FileOf(p)]] = "volume")

\* A root whose listing shows no entry.
ListsNothing(r) ==
    mount[r] # "volume"
        \/ \A p \in LsPaths : RootOf[p] = r => p # Shortcut /\ disk[FileOf(p)] = Nil

Device(r) == IF mount[r] = "volume" THEN "volume" ELSE "bare"

NewRow(i) == [ino |-> i, ver |-> stamp[i], desc |-> Nil, rev |-> 0]

-----------------------------------------------------------------------------
(* Other programs and the administrator *)

Change(paths) ==
    /\ changes < MaxChanges
    /\ changes' = changes + 1
    /\ calm' = (pass = Nil)
    /\ absent' = IF pass = Nil THEN {} ELSE absent \cup paths
    /\ UNCHANGED <<faults, db, pass, swapped>>

FreeInode(i) == \A f \in Files : disk[f] # i

\* A new file, or one put in the place of another (rename over it).
WriteNew(f, i) ==
    /\ Change({}) /\ FreeInode(i)
    /\ mount[RootOf[f]] = "volume" /\ f \notin sealed
    /\ disk' = [disk EXCEPT ![f] = i]
    /\ stamp' = [stamp EXCEPT ![i] = changes']
    /\ UNCHANGED <<mount, sealed, late>>

Rewrite(f) ==
    /\ Change({}) /\ disk[f] # Nil /\ mount[RootOf[f]] = "volume" /\ f \notin sealed
    /\ stamp' = [stamp EXCEPT ![disk[f]] = changes']
    /\ UNCHANGED <<disk, mount, sealed, late>>

HardLink(f, g) ==
    /\ Change({})
    /\ mount[RootOf[f]] = "volume" /\ RootOf[f] = RootOf[g]
    /\ disk[f] # Nil /\ disk[g] # disk[f] /\ {f, g} \cap sealed = {}
    /\ disk' = [disk EXCEPT ![g] = disk[f]]
    /\ UNCHANGED <<stamp, mount, sealed, late>>

Delete(f) ==
    /\ Change({f}) /\ disk[f] # Nil /\ mount[RootOf[f]] = "volume" /\ f \notin sealed
    /\ disk' = [disk EXCEPT ![f] = Nil]
    /\ UNCHANGED <<stamp, mount, sealed, late>>

Seal(f) ==
    /\ Change({})
    /\ sealed' = IF f \in sealed THEN sealed \ {f} ELSE sealed \cup {f}
    /\ UNCHANGED <<disk, stamp, mount, late>>

\* From its second availability check to its end a pass trusts a root; a
\* targeted pass never applies the empty-root rule and trusts it throughout.
Trusting == pass # Nil /\ (pass.checked \/ pass.kind = "dirty")

Remount(r, m) ==
    /\ Change({}) /\ mount[r] # m
    /\ mount' = [mount EXCEPT ![r] = m]
    /\ late' = IF Trusting \/ (pass # Nil /\ m = "volume") THEN late \cup {r} ELSE late
    /\ UNCHANGED <<disk, stamp, sealed>>

World ==
    \/ \E f \in Files, i \in LsInodes : WriteNew(f, i)
    \/ \E f \in Files : Rewrite(f) \/ Delete(f) \/ Seal(f)
    \/ \E f, g \in Files : HardLink(f, g)
    \/ \E r \in Roots, m \in {"volume", "bare", "missing"} : Remount(r, m)

-----------------------------------------------------------------------------
(* hold_newly_unavailable_media_roots.  A targeted pass looks only at the  *)
(* roots that own its paths and never applies the empty-root rule.  The    *)
(* catalog items of a root are counted among the rows known by then.       *)

\* Mutation: an empty mount point counts as an emptied library.
Unavailable_missingOnly(kind, dirty, known) ==
    {r \in Roots : mount[r] = "missing" /\ (kind = "dirty" => \E p \in dirty : RootOf[p] = r)}

Unavailable(kind, dirty, known) ==
    {r \in Roots :
        /\ kind = "dirty" => \E p \in dirty : RootOf[p] = r
        /\ \/ mount[r] = "missing"
           \/ /\ kind # "dirty" /\ ListsNothing(r)
              /\ recorded[r] # Device(r)
              /\ \E p \in LsPaths : RootOf[p] = r /\ known[p] # Nil}

HeldBack(p) == RootOf[p] \in pass.roots \/ p \in pass.paths

\* HeldSubtrees::keeps_alias; the whole-library scan passes its holds alone.
KeepsAlias(p) == HeldBack(p) \/ (pass.kind # "scan" /\ ListsNothing(RootOf[p]))

Begin(kind, dirty, scope) ==
    /\ pass = Nil
    /\ LET roots == Unavailable(kind, dirty, rows)
       IN pass' = [kind |-> kind, at |-> "walk", roots |-> roots, paths |-> {},
                   walk |-> Roots \ roots,
                   scope |-> {p \in scope : kind = "dirty" => RootOf[p] \notin roots},
                   listed |-> {}, todo |-> {}, checked |-> FALSE,
                   rows |-> rows, entries |-> entries, lost |-> {}]
    /\ calm' = TRUE /\ absent' = {f \in Files : disk[f] = Nil}
    /\ late' = IF kind = "dirty" THEN late \cup {r \in Roots : mount[r] = "bare"} ELSE late
    /\ UNCHANGED <<world, faults, db, swapped>>

\* monitor_dirty_with_db with no dirty path, and with some; scan_with_db.
Reconcile == Begin("full", {}, LsPaths)

ReconcileDirty(p) == Begin("dirty", {p}, {p})

Scan == Begin("scan", {}, LsPaths)

\* What a walk finds below a root: what may not be opened is held, what is
\* gone is not listed, and a root that went missing is held as a whole.
Listing(r) ==
    LET here == {p \in pass.scope : RootOf[p] = r}
        seen == {p \in here : Visible(p) # Nil}
    IN [pass EXCEPT !.walk = @ \ {r}, !.listed = @ \cup seen, !.todo = @ \cup seen,
                    !.paths = @ \cup {p \in here : Visible(p) = Nil /\ ~Gone(p)},
                    !.roots = IF mount[r] = "missing" THEN @ \cup {r} ELSE @]

\* list_media_files, list_dirty_media_files, list_into
Walk(r) ==
    /\ pass # Nil /\ pass.kind # "scan" /\ pass.at = "walk" /\ r \in pass.walk
    /\ pass' = [Listing(r) EXCEPT !.at = IF pass.walk = {r} THEN "hold" ELSE "walk"]
    /\ UNCHANGED <<world, faults, db, ghosts>>

\* DbWalker::walk
WalkAndQueue(r) ==
    /\ pass # Nil /\ pass.kind = "scan" /\ pass.at = "walk" /\ r \in pass.walk
    /\ pass' = [Listing(r) EXCEPT !.at = IF pass.walk = {r} THEN "index" ELSE "walk"]
    /\ UNCHANGED <<world, faults, db, ghosts>>

NothingToWalk ==
    /\ pass # Nil /\ pass.at = "walk" /\ pass.walk = {}
    /\ pass' = [pass EXCEPT !.at = IF pass.kind = "scan" THEN "index" ELSE "hold"]
    /\ UNCHANGED <<world, faults, db, ghosts>>

HoldAgain ==
    /\ pass # Nil /\ pass.at = "hold"
    /\ pass' = [pass EXCEPT !.roots = @ \cup Unavailable(pass.kind, pass.scope, pass.rows),
                            !.at = "judge", !.checked = TRUE]
    /\ UNCHANGED <<world, faults, db, ghosts>>

\* remove_path_and_symlink_aliases: the row, and every alias of its inode that
\* leads nowhere and is not kept.
WithAliases(out) ==
    out \cup {q \in LsPaths : /\ pass.rows[q] # Nil /\ Gone(q) /\ ~KeepsAlias(q)
                            /\ \E p \in out : pass.rows[p].ino = pass.rows[q].ino}

Removed(out) ==
    [pass EXCEPT !.rows = [p \in LsPaths |-> IF p \in out THEN Nil ELSE @[p]],
                 !.entries = @ \ out, !.listed = {},
                 !.lost = @ \cup {pass.rows[p].ino : p \in out}]

\* A reconciliation judges a row by its own listing ...
Judge ==
    /\ pass # Nil /\ pass.at = "judge" /\ pass.kind # "scan"
    /\ LET out == {p \in pass.scope : pass.rows[p] # Nil /\ ~HeldBack(p) /\ p \notin pass.listed}
       IN pass' = [Removed(WithAliases(out)) EXCEPT !.at = "index"]
    /\ UNCHANGED <<world, faults, db, ghosts>>

\* ... a scan asks the disk again (prune_missing_files).
PruneMissing ==
    /\ pass # Nil /\ pass.at = "judge" /\ pass.kind = "scan"
    /\ LET out == {p \in LsPaths : pass.rows[p] # Nil /\ ~HeldBack(p) /\ Gone(p)}
       IN pass' = [Removed(WithAliases(out)) EXCEPT !.at = "finish"]
    /\ UNCHANGED <<world, faults, db, ghosts>>

-----------------------------------------------------------------------------
(* Indexing one listed path.  Stream columns are taken from an alias that   *)
(* stands for the same content and was probed, else from a new probe.      *)

Aliases(rs, p) == {q \in LsPaths \ {p} : rs[q] # Nil /\ rs[q].ino = rs[p].ino}

Source(rs, p) == {q \in Aliases(rs, p) : rs[q].ver = rs[p].ver /\ rs[q].rev = 1}

\* A finished probe describes every alias of the inode at once.
Described(rs, p, d) ==
    [q \in LsPaths |-> IF q = p \/ q \in Aliases(rs, p)
                     THEN [rs[q] EXCEPT !.desc = d, !.rev = 1] ELSE rs[q]]

\* Mutation: the columns of the replaced content stay.
Deferred_keepsOld(rs, p) ==
    IF rs[p].rev = -2 THEN Described(rs, p, Nil)
    ELSE [rs EXCEPT ![p] = [@ EXCEPT !.rev = IF @ < 0 THEN @ - 1 ELSE -1]]

\* Mutation: the count of expiries starts past its limit.
Deferred_spent(rs, p) ==
    [rs EXCEPT ![p] = [@ EXCEPT !.rev = -3, !.desc = Nil]]

\* defer_detail_stream_probe: the third expiry in a row is cached as a failure.
Deferred(rs, p) ==
    LET r == rs[p] IN
    IF r.rev = -2 THEN Described(rs, p, Nil)
    ELSE [rs EXCEPT ![p] = [r EXCEPT !.rev = IF r.rev < 0 THEN r.rev - 1 ELSE -1,
                                     !.desc = IF r.rev = 0 THEN Nil ELSE r.desc]]

\* apply_or_reuse_probe
Probe(rs, p, out) ==
    IF Source(rs, p) # {}
    THEN LET q == CHOOSE x \in Source(rs, p) : TRUE
         IN [rs EXCEPT ![p] = [@ EXCEPT !.desc = rs[q].desc, !.rev = 1]]
    ELSE CASE out = "ok"      -> Described(rs, p, stamp[rs[p].ino])
           [] out = "failed"  -> Described(rs, p, Nil)
           [] out = "timeout" -> Deferred(rs, p)

\* Mutation: only the inode is updated, not size and time.
Restat_inodeOnly(rs, p, i) == [rs EXCEPT ![p] = [@ EXCEPT !.ino = i, !.rev = 0]]

Restat(rs, p, i) == [rs EXCEPT ![p] = [@ EXCEPT !.ino = i, !.ver = stamp[i], !.rev = 0]]

\* refresh_replaced_inode_aliases: siblings that now lead to the new inode.
Siblings(rs, old, new, p) ==
    {q \in LsPaths \ {p} : rs[q] # Nil /\ rs[q].ino = old /\ Visible(q) = new /\ old # new}

IndexKnown(p, i, out) ==
    LET old  == pass.rows[p].ino
        mine == Probe(Restat(pass.rows, p, i), p, out)
        sibs == Siblings(mine, old, i, p)
        all  == [q \in LsPaths |-> IF q \notin sibs THEN mine[q]
                                 ELSE [ino |-> i, ver |-> stamp[i], desc |-> mine[p].desc,
                                       rev |-> mine[p].rev]]
    IN /\ pass' = [pass EXCEPT !.rows = all, !.todo = @ \ {p}]
       /\ swapped' = IF old = i THEN swapped ELSE swapped \cup {old, i}

\* A probe that timed out is tried again by every whole-library pass.
RetryProbe(p, out) ==
    /\ pass' = [pass EXCEPT !.rows = Probe(@, p, out), !.todo = @ \ {p}]
    /\ UNCHANGED swapped

\* find_inode_source, clone_detail_for_path: a row of the same content gives
\* the new one its columns.
Twins(rs, p) == {q \in Aliases(rs, p) : rs[q].ver = rs[p].ver}

Cloned(rs, p) ==
    LET q == CHOOSE x \in Twins(rs, p) : TRUE
    IN [rs EXCEPT ![p] = [@ EXCEPT !.desc = rs[q].desc, !.rev = rs[q].rev]]

\* attach_objects: All Video gets an entry unless the inode has one.
Attached(owners, rs, p) == IF owners \cap Aliases(rs, p) = {} THEN owners \cup {p} ELSE owners

\* index_one_file_with_artwork
IndexNew(p, i, out) ==
    LET fresh == [pass.rows EXCEPT ![p] = NewRow(i)]
    IN /\ pass' = [pass EXCEPT
                    !.rows = IF Twins(fresh, p) # {} THEN Cloned(fresh, p) ELSE Probe(fresh, p, out),
                    !.entries = Attached(@, fresh, p), !.todo = @ \ {p}]
       /\ UNCHANGED swapped

\* The row agrees with the file (or the file cannot be opened just now).
Unchanged(p) ==
    /\ pass' = [pass EXCEPT !.todo = @ \ {p}]
    /\ UNCHANGED swapped

Same(p) ==
    LET r == pass.rows[p] IN r.ino = Visible(p) /\ r.ver = stamp[Visible(p)]

Retries(p) == pass.rows[p].rev < 0 /\ pass.kind # "dirty"

Index(p, out) ==
    /\ pass # Nil /\ pass.at = "index" /\ p \in pass.todo
    /\ out # "ok" => faults < MaxFaults
    /\ faults' = IF out # "ok" THEN faults + 1 ELSE faults
    /\ LET i == Visible(p)
       IN \/ i = Nil /\ out = "ok" /\ Unchanged(p)
          \/ i # Nil /\ pass.rows[p] = Nil /\ IndexNew(p, i, out)
          \/ /\ i # Nil /\ pass.rows[p] # Nil
             /\ \/ ~Same(p) /\ IndexKnown(p, i, out)
                \/ Same(p) /\ Retries(p) /\ RetryProbe(p, out)
                \/ Same(p) /\ ~Retries(p) /\ out = "ok" /\ Unchanged(p)
    /\ UNCHANGED <<world, db, late, absent, calm>>

Indexed ==
    /\ pass # Nil /\ pass.at = "index" /\ pass.todo = {}
    /\ pass' = [pass EXCEPT !.at = IF pass.kind = "scan" THEN "hold" ELSE "finish"]
    /\ UNCHANGED <<world, faults, db, ghosts>>

\* Mutation: nothing takes over the entry of a removed path.
Rehomed_never(heirs) == heirs = {}

\* rehome_removed_inode_virtuals: an inode that lost a path gives its entry
\* to a survivor when no path of it has one.
Rehomed(heirs) ==
    /\ heirs \subseteq {p \in LsPaths : pass.rows[p] # Nil /\ pass.rows[p].ino \in pass.lost}
    /\ \A i \in pass.lost :
          LET of == {p \in LsPaths : pass.rows[p] # Nil /\ pass.rows[p].ino = i}
          IN Cardinality(heirs \cap of) =
                IF of = {} \/ of \cap pass.entries # {} THEN 0 ELSE 1

EndOfPass ==
    /\ pass' = Nil
    /\ absent' = {} /\ calm' = TRUE
    /\ UNCHANGED <<late, swapped>>

\* record_media_root_devices
Recorded ==
    [r \in Roots |-> IF pass.kind = "dirty" \/ r \in pass.roots \/ mount[r] = "missing"
                     THEN recorded[r] ELSE Device(r)]

\* The end of a pass and the commit of everything it did.
Finish ==
    /\ pass # Nil /\ pass.at = "finish"
    /\ \E heirs \in SUBSET LsPaths :
          Rehomed(heirs) /\ entries' = pass.entries \cup heirs
    /\ rows' = pass.rows
    /\ recorded' = Recorded
    /\ EndOfPass
    /\ UNCHANGED <<world, faults>>

\* Cancellation, an I/O error below a root or a database error: the
\* transaction is dropped and the published catalogue stays.
Abort ==
    /\ pass # Nil
    /\ EndOfPass
    /\ UNCHANGED <<world, faults, db>>

LsInit ==
    /\ \E i \in LsInodes : disk = [f \in Files |-> IF f = Target THEN i ELSE Nil]
    /\ stamp = [i \in LsInodes |-> 0]
    /\ mount = [r \in Roots |-> "volume"] /\ sealed = {}
    /\ changes = 0 /\ faults = 0
    /\ rows = [p \in LsPaths |-> Nil] /\ entries = {} /\ recorded = [r \in Roots |-> Nil]
    /\ pass = Nil /\ late = {} /\ swapped = {} /\ absent = {} /\ calm = TRUE

Pass ==
    \/ Reconcile \/ Scan \/ \E p \in LsPaths : ReconcileDirty(p)
    \/ \E r \in Roots : Walk(r) \/ WalkAndQueue(r)
    \/ NothingToWalk \/ HoldAgain \/ Judge \/ PruneMissing \/ Indexed \/ Finish \/ Abort
    \/ \E p \in LsPaths, out \in {"ok", "failed", "timeout"} : Index(p, out)

LsNext == World \/ Pass

LsSpec == LsInit /\ [][LsNext]_lsVars

-----------------------------------------------------------------------------
ScanTypeOK ==
    /\ disk \in [Files -> LsInodes \cup {Nil}]
    /\ recorded \in [Roots -> {"volume", "bare", Nil}]
    /\ \A p \in LsPaths : rows[p] # Nil =>
          rows[p].ino \in LsInodes /\ rows[p].ver \in 0..MaxChanges /\ rows[p].rev \in -2..1

RowLost(p) == rows[p] # Nil /\ rows'[p] = Nil

\* No row is published with stream columns of a content older than the size
\* and time it carries, whatever aliases, deferrals and replacements did.
NeverPrevious ==
    \A p \in LsPaths : rows[p] # Nil /\ rows[p].desc # Nil => rows[p].desc >= rows[p].ver

\* All Video lists a physical file once, whichever of its hard links and
\* symlinks came and went (an inode left or joined by a surviving row is
\* excluded: update_detail_stat does not move entries).
OneEntryPerFile ==
    \A i \in LsInodes \ swapped :
        (\E p \in LsPaths : rows[p] # Nil /\ rows[p].ino = i) =>
            Cardinality({p \in entries : rows[p] # Nil /\ rows[p].ino = i}) = 1

Agrees(p) ==
    \/ HeldBack(p)
    \/ Visible(p) = Nil /\ rows'[p] = Nil
    \/ /\ Visible(p) # Nil /\ rows'[p] # Nil
       /\ rows'[p].ino = Visible(p) /\ rows'[p].ver = stamp[Visible(p)]

\* What a committed pass leaves may be believed: columns never describe an
\* earlier content, and All Video lists a file once.
RowsTruthful == ScanTypeOK /\ NeverPrevious /\ OneEntryPerFile

\* A committed pass drops the row of a real file only if the file was off its
\* volume at some moment of that pass: an unmounted or missing root, a refused
\* directory, or an alias lost elsewhere never costs a row its identity.  The
\* exceptions are a root that changed where the pass no longer looked (`late`)
\* and one whose bare mount point was the device recorded last: targeted passes
\* index what is mounted there and record nothing, so the next unmount reads as
\* an emptied root.
RowsSurvive ==
    \A f \in Files :
        RowLost(f) => f \in absent \/ RootOf[f] \in late \/ recorded[RootOf[f]] = "bare"

\* A pass during which nothing changed leaves every path of its scope that it
\* did not hold as the disk has it: listed, restated, or gone.
PassConverges ==
    pass # Nil /\ pass' = Nil /\ db # db' /\ calm =>
       \A p \in pass.scope : Agrees(p)

\* Every pass that commits keeps what it may not drop and, undisturbed, leaves
\* the database as the disk is.
PassesSound == [][RowsSurvive /\ PassConverges]_lsVars

=============================================================================
