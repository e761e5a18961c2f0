---------------------------- MODULE LibraryTree ----------------------------
(***************************************************************************)
(* The object tree of the library: what a pass of the scanner writes into  *)
(* OBJECTS and DETAILS for the files it lists, and how the catalog in      *)
(* memory follows (crates/scan/src/lib.rs, db.rs and catalog.rs).          *)
(*                                                                         *)
(* An object id is the sequence of its numbers: 64$1$2 is <<64, 1, 2>>.    *)
(* Browse Folders is <<64>> and stands for the folder of a media root, its *)
(* mirror under Video is <<15>>, All Video <<8>>, the genres <<5>>.  Files *)
(* are videos; a hard link is a second path with the same inode; Tagged    *)
(* are the inodes whose metadata names a genre.                            *)
(***************************************************************************)
EXTENDS Integers, SequencesExt

CONSTANTS Listing,      \* the paths of a media root in the order a pass lists them
          TreeInodes, Tagged, TreeTimes,
          RecentLimit,
          MaxTreeChanges, MaxTreePasses

VARIABLES onDisk,       \* path -> [ino, mtime], for the files there are
          lib,          \* the database: rows, details, the next detail id
          cat,          \* the catalog in memory
          treeChanges, treePasses     \* bounds

ltVars == <<onDisk, lib, cat, treeChanges, treePasses>>

Paths == ToSet(Listing)
Browse == <<64>>
Mirror == <<15>>
AllVideo == <<8>>
Genres == <<5>>
VirtualContainers == {Browse, Mirror, AllVideo, Genres}
NoObject == <<>>

Container(parent, name) == [parent |-> parent, name |-> name, detail |-> 0, ref |-> FALSE]
Item(parent, name, d, ref) == [parent |-> parent, name |-> name, detail |-> d, ref |-> ref]

Upsert(db, id, row) == [db EXCEPT !.rows = (id :> row) @@ @]
Without(f, S) == [x \in DOMAIN f \ S |-> f[x]]

Children(db, parent) == {id \in DOMAIN db.rows : db.rows[id].parent = parent}
Named(db, parent, name) ==
    LET ids == {id \in Children(db, parent) : db.rows[id].name = name}
    IN  IF ids = {} THEN NoObject ELSE CHOOSE id \in ids : TRUE
NextChild_counts(db, parent) ==
    Append(parent, 1 + Cardinality({id \in Children(db, parent) : Len(id) = Len(parent) + 1}))

\* One past the highest suffix there is: the id of the last child is used
\* again once that child is gone.
NextChild(db, parent) ==
    Append(parent, 1 + FoldSet(LAMBDA id, m : Max({m, id[Len(id)]}), 0,
                               {id \in Children(db, parent) : Len(id) = Len(parent) + 1}))

InodeOf(db, id) == db.details[db.rows[id].detail].ino
HasInode(db, parent, ino) ==
    \E id \in Children(db, parent) : db.rows[id].detail # 0 /\ InodeOf(db, id) = ino
HasInodeNamed(db, parent, ino, name) ==
    \E id \in Children(db, parent) :
        /\ db.rows[id].detail # 0 /\ InodeOf(db, id) = ino /\ db.rows[id].name = name
BrowseObject(db, d) ==
    LET ids == {id \in DOMAIN db.rows : db.rows[id].detail = d /\ ~db.rows[id].ref}
    IN  IF ids = {} THEN NoObject
        ELSE CHOOSE id \in ids : \A other \in ids : Len(id) <= Len(other)

-----------------------------------------------------------------------------
(* Writing one file's objects.                                             *)

\* folder_object_id: the child of that name, whatever it is, or a new folder.
FolderStep(at, name) ==
    LET found == Named(at.db, at.id, name)
        fresh == NextChild(at.db, at.id)
    IN  IF found # NoObject THEN [db |-> at.db, id |-> found]
        ELSE [db |-> Upsert(at.db, fresh, Container(at.id, name)), id |-> fresh]

EnsureFolderChain(db, path) ==
    FoldLeft(FolderStep, [db |-> db, id |-> Browse], Front(path))

Typed(id) == <<Mirror[1]>> \o Tail(id)
Ancestors(id) == {SubSeq(id, 1, n) : n \in 2 .. Len(id)}
EnsureTypedChain(db, folder) ==
    FoldSet(LAMBDA id, to :
                Upsert(to, Typed(id),
                       [Container(Typed(Front(id)), db.rows[id].name) EXCEPT !.ref = TRUE]),
            db, Ancestors(folder))

\* The entries of one detail in the views by metadata, one per inode.
AttachVirtuals(db, d, name) ==
    LET mine == {id \in DOMAIN db.rows : db.rows[id].detail = d /\ id[1] = Genres[1]}
        cleared == [db EXCEPT !.rows = Without(@, mine)]
        genre == FolderStep([db |-> cleared, id |-> Genres], "genre")
        ino == db.details[d].ino
    IN  IF ino \notin Tagged THEN cleared
        ELSE IF HasInode(genre.db, genre.id, ino) THEN genre.db
        ELSE Upsert(genre.db, Append(genre.id, d), Item(genre.id, name, d, TRUE))

AttachAllVideo(db, d, name) ==
    IF HasInode(db, AllVideo, db.details[d].ino) THEN db
    ELSE Upsert(db, Append(AllVideo, d), Item(AllVideo, name, d, TRUE))

\* Which object a file becomes in its folder: a row of that name is taken over
\* unless it belongs to another file.
ObjectFor(db, folder, d, name) ==
    LET known == IF HasInodeNamed(db, folder, db.details[d].ino, name)
                 THEN BrowseObject(db, d) ELSE NoObject
        found == Named(db, folder, name)
    IN  IF known # NoObject THEN known
        ELSE IF found # NoObject /\ db.rows[found].detail \in {0, d} THEN found
        ELSE NextChild(db, folder)

AttachObjects(db, folder, d, name) ==
    LET id == ObjectFor(db, folder, d, name)
        placed == Upsert(db, id, Item(folder, name, d, FALSE))
        typed == EnsureTypedChain(AttachAllVideo(placed, d, name), folder)
        mirrored == Upsert(typed, Typed(id), Item(Typed(folder), name, d, TRUE))
    IN  AttachVirtuals(mirrored, d, name)

-----------------------------------------------------------------------------
(* A pass over the listed paths.                                           *)

DetailsAt(db, path) == {d \in DOMAIN db.details : db.details[d].path = path}

DropMissing(db, seen, disk) ==
    LET gone == {d \in DOMAIN db.details :
                     db.details[d].path \in seen \ DOMAIN disk}
    IN  [db EXCEPT !.rows = Without(@, {id \in DOMAIN @ : @[id].detail \in gone}),
                   !.details = Without(@, gone),
                   !.removed = {db.details[d].ino : d \in gone}]

\* A file that is listed already keeps its objects, except in a rebuild.
IndexPath(db, path, file, again) ==
    LET d == CHOOSE x \in DetailsAt(db, path) : TRUE
        known == DetailsAt(db, path) # {}
        entry == [path |-> path, ino |-> file.ino, mtime |-> file.mtime]
        chain == EnsureFolderChain(db, path)
        held == [chain.db EXCEPT !.details = ((IF known THEN d ELSE db.next) :> entry) @@ @,
                                 !.next = IF known THEN @ ELSE @ + 1]
    IN  IF known /\ ~again /\ HasInodeNamed(held, chain.id, file.ino, Last(path)) THEN held
        ELSE AttachObjects(held, chain.id, IF known THEN d ELSE db.next, Last(path))

Rehome_dropped(db) == [db EXCEPT !.removed = {}]

\* The views list one entry per inode, owned by the path that came first; when
\* that path goes a surviving one takes the entry.
Rehome(db) ==
    LET survivors == {d \in DOMAIN db.details : db.details[d].ino \in db.removed}
        Adopt(to, d) ==
            LET id == BrowseObject(to, d)
            IN  IF id = NoObject THEN to
                ELSE AttachVirtuals(AttachAllVideo(to, d, to.rows[id].name), d, to.rows[id].name)
    IN  [FoldLeft(Adopt, db, SetToSortSeq(survivors, <)) EXCEPT !.removed = {}]

PruneEmptyFolders(db) ==
    LET Empty(rows) == {id \in DOMAIN rows \ VirtualContainers :
                            /\ rows[id].detail = 0
                            /\ ~\E c \in DOMAIN rows : rows[c].parent = id}
        Round(rows, n) == Without(rows, Empty(rows))
    IN  [db EXCEPT !.rows = FoldLeft(Round, @, [n \in 1 .. Cardinality(DOMAIN @) |-> n])]

PassOver(db, seen, disk) ==
    LET listed == SelectSeq(Listing, LAMBDA p : p \in seen \cap DOMAIN disk)
        indexed == FoldLeft(LAMBDA to, p : IndexPath(to, p, disk[p], FALSE),
                            DropMissing(db, seen, disk), listed)
    IN  PruneEmptyFolders(Rehome(indexed))

\* rebuild_objects puts the saved rows of live details back under their ids and
\* indexes every known file again.
RebuildObjects(db, disk) ==
    LET kept == DropMissing(db, Paths, disk)
        Again(to, d) == IndexPath(to, to.details[d].path, disk[to.details[d].path], TRUE)
    IN  PruneEmptyFolders(Rehome(FoldLeft(Again, kept, SetToSortSeq(DOMAIN kept.details, <))))

-----------------------------------------------------------------------------
(* The catalog in memory.                                                  *)

\* A total order on object ids.
IdLess(a, b) ==
    \/ IsStrictPrefix(a, b)
    \/ \E n \in 1 .. Min({Len(a), Len(b)}) :
           a[n] < b[n] /\ SubSeq(a, 1, n - 1) = SubSeq(b, 1, n - 1)

InMemory(db, id) ==
    [parent |-> db.rows[id].parent, name |-> db.rows[id].name,
     detail |-> db.rows[id].detail, ref |-> db.rows[id].ref,
     ino |-> InodeOf(db, id), mtime |-> db.details[db.rows[id].detail].mtime]

Representative(items, d) ==
    CHOOSE id \in {i \in DOMAIN items : items[i].detail = d} :
        \A other \in {i \in DOMAIN items : items[i].detail = d} \ {id} :
            \/ ~items[id].ref /\ items[other].ref
            \/ items[id].ref = items[other].ref /\ IdLess(id, other)

\* The Recently Added view: the newest files, one per inode.
Eligible(items) == {id \in DOMAIN items : ~items[id].ref /\ id[1] = Browse[1]}
Newer(items, a, b) ==
    \/ items[a].mtime > items[b].mtime
    \/ items[a].mtime = items[b].mtime /\ IdLess(a, b)
Ranked_aliases(items, ids) == SetToSortSeq(ids, LAMBDA a, b : Newer(items, a, b))

Ranked(items, ids) ==
    LET best == {id \in ids : \A other \in ids \ {id} :
                     items[other].ino = items[id].ino => Newer(items, id, other)}
    IN  SetToSortSeq(best, LAMBDA a, b : Newer(items, a, b))
Newest(seq, n) == SubSeq(seq, 1, Min({n, Len(seq)}))
CandidateLimit == Min({2 * RecentLimit, RecentLimit + 1000})

WithRecent(c, candidates) ==
    [c EXCEPT !.candidates = candidates, !.recent = Newest(candidates, RecentLimit)]
RebuildRecent(c) == WithRecent(c, Newest(Ranked(c.items, Eligible(c.items)), CandidateLimit))
RefreshRecent(c, changed, wasFull) ==
    LET ids == (ToSet(c.candidates) \cup changed) \cap Eligible(c.items)
        ranked == Newest(Ranked(c.items, ids), CandidateLimit)
    IN  IF wasFull /\ Len(ranked) < RecentLimit THEN RebuildRecent(c)
        ELSE WithRecent(c, ranked)

ItemIds(db) == {id \in DOMAIN db.rows : db.rows[id].detail # 0}
LoadCatalog(db) ==
    LET ids == ItemIds(db)
        folders == DOMAIN db.rows \ ids
        items == [id \in ids |-> InMemory(db, id)]
    IN  RebuildRecent(
          [items |-> items,
           folders |-> [f \in folders |->
                          [parent |-> db.rows[f].parent, name |-> db.rows[f].name,
                           kids |-> Children(db, f)]],
           byDetail |-> [d \in {items[id].detail : id \in ids} |-> Representative(items, d)],
           candidates |-> <<>>, recent |-> <<>>])

PatchOf_rowsOnly(old, new) ==
    LET Differ(f, g) == {x \in DOMAIN f \cup DOMAIN g :
                            ~(x \in DOMAIN f /\ x \in DOMAIN g /\ f[x] = g[x])}
        objects == Differ(old.rows, new.rows)
        details == Differ(old.details, new.details)
    IN  [objects |-> objects, details |-> details, items |-> ItemIds(new) \cap objects]

\* The rows one committed pass touched: the triggers of the publication.
\* A change to an object also counts as a change to its detail.
PatchOf(old, new) ==
    LET Differ(f, g) == {x \in DOMAIN f \cup DOMAIN g :
                            ~(x \in DOMAIN f /\ x \in DOMAIN g /\ f[x] = g[x])}
        objects == Differ(old.rows, new.rows)
        touched == UNION {{db.rows[id].detail : id \in objects \cap DOMAIN db.rows} : db \in {old, new}}
        details == Differ(old.details, new.details) \cup (touched \ {0})
    IN  [objects |-> objects, details |-> details,
         items |-> {id \in ItemIds(new) : id \in objects \/ new.rows[id].detail \in details}]

ApplyPatch(c, db, patch) ==
    LET removed == patch.objects \cup patch.items
        parents == {c.items[id].parent : id \in removed \cap DOMAIN c.items}
                     \cup {c.folders[id].parent : id \in removed \cap DOMAIN c.folders}
        kept == Without(c.folders, removed)
        trimmed == [f \in DOMAIN kept |->
                       IF f \in parents THEN [kept[f] EXCEPT !.kids = @ \ removed] ELSE kept[f]]
        incoming == {f \in patch.objects \cap DOMAIN db.rows : db.rows[f].detail = 0}
        folders == [f \in incoming |->
                       [parent |-> db.rows[f].parent, name |-> db.rows[f].name,
                        kids |-> IF f \in DOMAIN c.folders THEN c.folders[f].kids ELSE {}]] @@ trimmed
        linked == [f \in DOMAIN folders |->
                       [folders[f] EXCEPT !.kids =
                           @ \cup {id \in incoming \cup patch.items : db.rows[id].parent = f}]]
        items == [id \in patch.items |-> InMemory(db, id)] @@ Without(c.items, removed)
        left == Without(c.byDetail, patch.details)
        fresh == {db.rows[id].detail : id \in patch.items}
        \* A representative stays unless it is gone or a patched item comes before it.
        Candidates(d) ==
            {id \in patch.items : db.rows[id].detail = d}
              \cup ({left[x] : x \in {d} \cap DOMAIN left} \cap DOMAIN items)
        byDetail == [d \in fresh |->
                       Representative([id \in Candidates(d) |-> items[id]], d)] @@ left
    IN  RefreshRecent([c EXCEPT !.items = items, !.folders = linked, !.byDetail = byDetail],
                      patch.items, Len(c.candidates) = CandidateLimit)

-----------------------------------------------------------------------------
EmptyLibrary ==
    [rows |-> [id \in VirtualContainers |-> Container(NoObject, "virtual")],
     details |-> <<>>, removed |-> {}, next |-> 1]

LtInit ==
    /\ onDisk = <<>> /\ lib = EmptyLibrary /\ cat = LoadCatalog(EmptyLibrary)
    /\ treeChanges = 0 /\ treePasses = 0

Changed(disk) ==
    /\ treeChanges < MaxTreeChanges
    /\ onDisk' = disk /\ treeChanges' = treeChanges + 1
    /\ UNCHANGED <<lib, cat, treePasses>>

\* A file appears, under an inode of its own or as another link to one.  A
\* path that is still indexed comes back with the inode it had.
Place(path, ino, mtime) ==
    /\ path \notin DOMAIN onDisk
    /\ \A d \in DetailsAt(lib, path) : lib.details[d].ino = ino
    /\ \A p \in DOMAIN onDisk : onDisk[p].ino = ino => onDisk[p].mtime = mtime
    /\ Changed((path :> [ino |-> ino, mtime |-> mtime]) @@ onDisk)
Unlink(path) ==
    /\ path \in DOMAIN onDisk
    /\ Changed(Without(onDisk, {path}))
\* Writing in place changes the time under every link.
Rewrite(ino, mtime) ==
    /\ \E p \in DOMAIN onDisk : onDisk[p].ino = ino /\ onDisk[p].mtime # mtime
    /\ Changed([p \in DOMAIN onDisk |->
                  IF onDisk[p].ino = ino THEN [onDisk[p] EXCEPT !.mtime = mtime] ELSE onDisk[p]])

\* One pass, over everything or over the paths a watcher names, committed and
\* published in one step.
Pass(seen) ==
    LET done == PassOver(lib, seen, onDisk)
    IN  /\ treePasses < MaxTreePasses /\ treePasses' = treePasses + 1
        /\ done # lib
        /\ lib' = done
        /\ cat' = ApplyPatch(cat, done, PatchOf(lib, done))
        /\ UNCHANGED <<onDisk, treeChanges>>

Rebuild ==
    /\ treePasses < MaxTreePasses /\ treePasses' = treePasses + 1
    /\ lib' = RebuildObjects(lib, onDisk) /\ lib' # lib
    /\ cat' = LoadCatalog(lib')
    /\ UNCHANGED <<onDisk, treeChanges>>

Restart ==
    /\ cat' = LoadCatalog(lib)
    /\ UNCHANGED <<onDisk, lib, treeChanges, treePasses>>

LtNext ==
    \/ \E p \in Paths, i \in TreeInodes, t \in TreeTimes : Place(p, i, t)
    \/ \E p \in Paths : Unlink(p)
    \/ \E i \in TreeInodes, t \in TreeTimes : Rewrite(i, t)
    \/ \E seen \in SUBSET Paths \ {{}} : Pass(seen)
    \/ Rebuild \/ Restart

LtSpec == LtInit /\ [][LtNext]_ltVars

-----------------------------------------------------------------------------
(* Properties.                                                             *)

LtTypeOK ==
    /\ DOMAIN onDisk \subseteq Paths
    /\ \A id \in DOMAIN lib.rows : lib.rows[id].detail \in DOMAIN lib.details \cup {0}
    /\ DOMAIN cat.items \subseteq DOMAIN lib.rows
    /\ treeChanges \in 0 .. MaxTreeChanges /\ treePasses \in 0 .. MaxTreePasses

\* The catalog that follows the passes patch by patch is the one a restart
\* would load: the same items, the same children in every folder, the same
\* object for each detail (Catalog::apply_patch, LibraryDb::load_catalog).
PatchesAddUp ==
    LET loaded == LoadCatalog(lib)
    IN  /\ cat.items = loaded.items /\ cat.byDetail = loaded.byDetail
        /\ DOMAIN cat.folders = DOMAIN loaded.folders
        /\ \A f \in DOMAIN cat.folders :
               /\ cat.folders[f].kids = loaded.folders[f].kids
               /\ cat.folders[f].kids \subseteq DOMAIN cat.folders \cup DOMAIN cat.items

\* Recently Added holds files there are, newest first, one per inode, within
\* its limit, and so do the candidates it is refilled from
\* (Catalog::refresh_recent_index).
RecentSound ==
    /\ Len(cat.recent) <= RecentLimit /\ cat.recent = Newest(cat.candidates, RecentLimit)
    /\ ToSet(cat.candidates) \subseteq Eligible(cat.items)
    /\ \A i, j \in DOMAIN cat.candidates : i < j =>
           /\ Newer(cat.items, cat.candidates[i], cat.candidates[j])
           /\ cat.items[cat.candidates[i]].ino # cat.items[cat.candidates[j]].ino

\* However the links of a file come and go, All Video and the genre list it
\* exactly once, through a path that is indexed
\* (attach_objects, rehome_removed_inode_virtuals).
ListedOnce ==
    \A i \in {lib.details[d].ino : d \in DOMAIN lib.details} :
        LET Entries(root) == {id \in ItemIds(lib) : id[1] = root[1] /\ InodeOf(lib, id) = i}
        IN  /\ Cardinality(Entries(AllVideo)) = 1
            /\ Cardinality(Entries(Genres)) = IF i \in Tagged THEN 1 ELSE 0

\* What is indexed can be reached: each detail's file has an object in the
\* folder its path names, under folders (never under another file).
EveryFileBrowsable ==
    \A d \in DOMAIN lib.details :
        LET path == lib.details[d].path
            Step(ids, name) ==
                {id \in DOMAIN lib.rows :
                    lib.rows[id].parent \in ids /\ lib.rows[id].name = name /\ lib.rows[id].detail = 0}
            folders == FoldLeft(Step, {Browse}, Front(path))
        IN  \E id \in ItemIds(lib) :
                /\ lib.rows[id].parent \in folders /\ lib.rows[id].name = Last(path)
                /\ InodeOf(lib, id) = lib.details[d].ino

\* The patched catalog is the loaded one and its views are sound, and the rows
\* show every file where it is, once in each view.
CatalogFollows == LtTypeOK /\ PatchesAddUp /\ RecentSound
TreeTruthful == ListedOnce /\ EveryFileBrowsable
TreeSound == CatalogFollows /\ TreeTruthful

-----------------------------------------------------------------------------
(* Values of Listing: what a media root holds, in the order of a pass.     *)

\* Two files beside a folder with a third.
Spread == <<<<"a">>, <<"b">>, <<"d", "a">>>>
\* A file whose title is the name of the folder beside it.
Namesake == <<<<"a">>, <<"a", "b">>>>
=============================================================================
