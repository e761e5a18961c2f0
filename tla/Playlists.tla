----------------------------- MODULE Playlists ------------------------------
(***************************************************************************)
(* M3U and PLS playlists: src/crates/scan/src/playlist.rs over db.rs.      *)
(*                                                                         *)
(* A pass reads the playlists it knows of (targeted) or finds (full) and   *)
(* rewrites their rows, their members and the objects a control point      *)
(* browses.  A playlist keeps its row, and so its object ids, across a     *)
(* rename (by inode) and across a rewrite that makes a new file (by path). *)
(* Playlists below a directory that cannot be read keep what they had.     *)
(* A pass runs in one transaction; other programs change files between     *)
(* passes.  Paths are numbered in their sort order.                        *)
(***************************************************************************)
EXTENDS Naturals, FiniteSets, Sequences, SequencesExt

CONSTANTS
    PlPaths,        \* a set of numbers: playlist file names, in sort order
    PlRoot,         \* PlPaths -> its media root
    PlInodes,       \* a set of numbers above 0
    Tracks,         \* media files an entry may name
    PlEntries,      \* what a playlist may list: sequences of Tracks
    KindOf,         \* Tracks -> "audio", "video" or "image"
    MaxPlEdits      \* changes made by other programs

ASSUME PlAssumption ==
    /\ PlPaths \subseteq Nat \ {0} /\ PlInodes \subseteq Nat \ {0}
    /\ IsFiniteSet(PlPaths) /\ MaxPlEdits \in Nat

VARIABLES
    plDisk,         \* PlPaths -> the file of that name, or NoFile
    have,           \* Tracks on disk
    away,           \* media roots that are unmounted or unreadable
    plEdits,
    plRows,         \* id -> row of PLAYLISTS with its PLAYLIST_ITEMS
    lastId,         \* AUTOINCREMENT
    objects,        \* object id <<kind, playlist, position>> -> the track
    indexed,        \* Tracks with a DETAILS row
    plEvents,       \* names other programs touched since the last pass
    announced,      \* the last pass reported a change
    steady          \* no root was away since a full pass saw them all

library == <<plDisk, have, away>>
plCatalog == <<plRows, lastId, objects, indexed>>
plVars == <<library, plEdits, plCatalog, plEvents, announced, steady>>

NoFile == [inode |-> 0, entries |-> <<>>]
MediaEvent == 0     \* a media file came or went
Kinds == {"audio", "video", "image"}
PlPresent(p) == plDisk[p].inode # 0
Away(p) == PlRoot[p] \in away

-----------------------------------------------------------------------------
(* Reading: desired_playlists *)

\* Entries that name no media file of the library are skipped.
Resolved(p) == SelectSeq(plDisk[p].entries, LAMBDA t : t \in have)

PlReadable(p) == PlPresent(p) /\ ~Away(p)

\* collect_playlist_paths
Found == {p \in PlPaths : PlReadable(p)}

\* sync_targeted_playlists
Known == {plRows[i].path : i \in DOMAIN plRows} \cup (plEvents \cap PlPaths)

-----------------------------------------------------------------------------
(* Writing: sync_playlist_paths *)

RowOf(i) == [id |-> i, row |-> plRows[i]]
NoMatch == [id |-> 0, row |-> [path |-> 0, inode |-> 0, items |-> <<>>]]

\* The rows by inode; of several, the last one.
ByInode(inode) ==
    LET some == {i \in DOMAIN plRows : plRows[i].inode = inode}
    IN IF some = {} THEN NoMatch ELSE RowOf(CHOOSE i \in some : \A j \in some : j <= i)

ByPath(p) ==
    LET some == {i \in DOMAIN plRows : plRows[i].path = p}
    IN IF some = {} THEN NoMatch ELSE RowOf(CHOOSE i \in some : \A j \in some : j <= i)

\* Mutation: a playlist is only known by its name.
Match_byPath(p, taken) == ByPath(p)

\* The row a playlist continues; an inode is matched once.
Match(p, taken) ==
    LET same == ByInode(plDisk[p].inode)
    IN IF same.id # 0 /\ plDisk[p].inode \notin taken THEN same ELSE ByPath(p)

\* Members of one kind, in order, become the container's children.
ObjectsOf(id, items) ==
    UNION {LET members == SelectSeq(items, LAMBDA t : KindOf[t] = kind)
           IN {[key |-> <<kind, id, n>>, track |-> members[n]] : n \in 1..Len(members)}
           : kind \in Kinds}

Upserted(old, new) ==
    LET keys == {o.key : o \in new}
    IN [k \in DOMAIN old \cup keys |->
            IF k \in keys THEN (CHOOSE o \in new : o.key = k).track ELSE old[k]]

Write(st, p) ==
    LET old  == Match(p, st.taken)
        id   == IF old.id = 0 THEN st.lastId + 1 ELSE old.id
        row  == [path |-> p, inode |-> plDisk[p].inode, items |-> Resolved(p)]
        kids == ObjectsOf(id, row.items)
    IN [rows    |-> [i \in DOMAIN st.rows \cup {id} |-> IF i = id THEN row ELSE st.rows[i]],
        lastId  |-> IF old.id = 0 THEN id ELSE st.lastId,
        objects |-> Upserted(st.objects, kids),
        desired |-> st.desired \cup {o.key : o \in kids},
        matched |-> st.matched \cup {id},
        taken   |-> st.taken \cup {plDisk[p].inode},
        changed |-> st.changed \/ old.id = 0 \/ old.row.path # p
                    \/ old.row.inode # plDisk[p].inode
                    \/ (IF id \in DOMAIN st.rows THEN st.rows[id].items ELSE <<>>) # row.items]

\* Mutation: every playlist that was not read is dropped.
Retained_none(st, held) == {}

\* Rows whose file could not be looked at keep their place.
Retained(st, held) == {i \in DOMAIN plRows \ st.matched : PlRoot[plRows[i].path] \in held}

\* Mutation: objects of the positions a shorter playlist gave up stay.
Swept_rowsOnly(st, kept) == {k \in DOMAIN st.objects : k[2] \in kept \cup st.matched}

\* delete_missing_playlist_objects
Swept(st, kept) ==
    {k \in DOMAIN st.objects : k \in st.desired \/ k[2] \in kept}

\* Mutation: playlists whose members alone changed go unreported.
PlChanged_rowsOnly(st, keep) == DOMAIN st.rows # keep

PlChanged(st, keep) == st.changed \/ DOMAIN st.rows # keep

\* held is the set of roots this pass knows to be away.
Sync(paths, held) ==
    LET without == [i \in DOMAIN plRows |->      \* ON DELETE CASCADE
                       [plRows[i] EXCEPT !.items = SelectSeq(@, LAMBDA t : t \in have)]]
        start == [rows |-> without, lastId |-> lastId, desired |-> {}, matched |-> {},
                  objects |-> [k \in {k \in DOMAIN objects : objects[k] \in have} |-> objects[k]],
                  taken |-> {}, changed |-> FALSE]
        done == FoldLeft(Write, start, SetToSortSeq(paths \cap Found, LAMBDA a, b : a < b))
        kept == Retained(done, held)
        keep == kept \cup done.matched
    IN /\ plRows' = [i \in keep |-> done.rows[i]]
       /\ lastId' = done.lastId
       /\ objects' = [k \in Swept(done, kept) |-> done.objects[k]]
       /\ announced' = (have # indexed \/ PlChanged(done, keep))

-----------------------------------------------------------------------------
(* Passes.  The media walk comes first: its rows are those of the files.   *)

PlPass == indexed' = have /\ plEvents' = {} /\ UNCHANGED <<library, plEdits>>

FullPass == PlPass /\ Sync(PlPaths, away) /\ steady' = (steady \/ away = {})

\* Mutation: new media leaves the playlists that wait for it alone.
Wanted_playlistEvents == plEvents \cap PlPaths # {}

\* Whether a targeted pass looks at the playlists at all.
Wanted == (indexed # have \/ plEvents \cap PlPaths # {}) /\ Known # {}

\* Only the roots that own an event are checked.
TargetedPass ==
    /\ plEvents # {} /\ PlPass /\ UNCHANGED steady
    /\ IF Wanted THEN Sync(Known, away \cap {PlRoot[p] : p \in plEvents \cap PlPaths})
       ELSE announced' = (indexed # have) /\ UNCHANGED <<plRows, lastId, objects>>

-----------------------------------------------------------------------------
(* Other programs *)

PlTouch(names) == plEvents' = plEvents \cup names /\ plEdits < MaxPlEdits
                /\ plEdits' = plEdits + 1 /\ UNCHANGED <<plCatalog, announced>>

PlOnDisk == {plDisk[p].inode : p \in PlPaths}

\* A playlist written under its final name by rename: a new file each time.
SavePlaylist(p, inode, entries) ==
    /\ ~Away(p) /\ inode \notin PlOnDisk
    /\ inode \notin {plRows[i].inode : i \in DOMAIN plRows}
    /\ plDisk' = [plDisk EXCEPT ![p] = [inode |-> inode, entries |-> entries]]
    /\ PlTouch({p}) /\ UNCHANGED <<have, away, steady>>

EditPlaylist(p, entries) ==
    /\ PlReadable(p) /\ entries # plDisk[p].entries
    /\ plDisk' = [plDisk EXCEPT ![p].entries = entries]
    /\ PlTouch({p}) /\ UNCHANGED <<have, away, steady>>

RenamePlaylist(p, q) ==
    /\ PlReadable(p) /\ ~Away(q) /\ p # q /\ PlRoot[p] = PlRoot[q]
    /\ plDisk' = [plDisk EXCEPT ![q] = plDisk[p], ![p] = NoFile]
    /\ PlTouch({p, q}) /\ UNCHANGED <<have, away, steady>>

DeletePlaylist(p) ==
    /\ PlReadable(p)
    /\ plDisk' = [plDisk EXCEPT ![p] = NoFile]
    /\ PlTouch({p}) /\ UNCHANGED <<have, away, steady>>

ToggleTrack(t) ==
    /\ have' = IF t \in have THEN have \ {t} ELSE have \cup {t}
    /\ PlTouch({MediaEvent}) /\ UNCHANGED <<plDisk, away, steady>>

\* Mounting and unmounting leave no event.
ToggleRoot(r) ==
    /\ away' = IF r \in away THEN away \ {r} ELSE away \cup {r}
    /\ PlTouch({}) /\ steady' = FALSE /\ UNCHANGED <<plDisk, have>>

PlInit ==
    /\ plDisk = [p \in PlPaths |-> NoFile] /\ have = {} /\ away = {} /\ plEdits = 0
    /\ plRows = <<>> /\ lastId = 0 /\ objects = <<>> /\ indexed = {}
    /\ plEvents = {} /\ announced = FALSE /\ steady = TRUE

PlNext ==
    \/ FullPass \/ TargetedPass
    \/ \E p \in PlPaths :
         \/ \E i \in PlInodes, e \in PlEntries : SavePlaylist(p, i, e)
         \/ \E e \in PlEntries : EditPlaylist(p, e)
         \/ \E q \in PlPaths : RenamePlaylist(p, q)
         \/ DeletePlaylist(p)
    \/ \E t \in Tracks : ToggleTrack(t)
    \/ \E p \in PlPaths : ToggleRoot(PlRoot[p])

PlSpec == PlInit /\ [][PlNext]_plVars

-----------------------------------------------------------------------------
(* Properties *)

\* A name was taken over by a new file while the file that had it is still
\* there under another name: two playlists then lay claim to one row.
Clash == \E i \in DOMAIN plRows, p, q \in Found :
            /\ plRows[i].path = p /\ plDisk[p].inode # plRows[i].inode
            /\ q # p /\ plDisk[q].inode = plRows[i].inode

Mirrors(i, p) == plRows[i] = [path |-> p, inode |-> plDisk[p].inode, items |-> Resolved(p)]

\* Events alone keep the playlists right: with every event handled, no root
\* away since and no claim in dispute, each row shows what its file says.
EventsCover ==
    plEvents = {} /\ steady =>
        \A i \in DOMAIN plRows : PlPresent(plRows[i].path) => Mirrors(i, plRows[i].path)

\* A full pass leaves one row for every playlist that can be read, with the
\* members it names, and objects for exactly those members
\* (sync_playlists, unless two files lay claim to one row).
PlaylistsSettle ==
    FullPass /\ ~Clash =>
     /\ \A p \in Found : Cardinality({i \in DOMAIN plRows' : plRows'[i].path = p}) = 1
     /\ \A i \in DOMAIN plRows' : Mirrors(i, plRows[i].path)' \/ Away(plRows'[i].path)
     /\ {[key |-> k, track |-> objects'[k]] : k \in DOMAIN objects'}
          = UNION {ObjectsOf(i, plRows'[i].items) : i \in DOMAIN plRows'}

\* A playlist keeps its row and its object ids while its file is renamed,
\* edited in place or saved again under its name (sync_playlist_paths).
PlaylistsKeepIds ==
    (FullPass \/ TargetedPass) /\ ~Clash /\ plRows' # plRows =>
     \A i \in DOMAIN plRows, p \in Found :
         (plDisk[p].inode = plRows[i].inode
          \/ (p = plRows[i].path /\ plDisk[p].inode \notin {plRows[j].inode : j \in DOMAIN plRows}))
         /\ p \in {plRows'[j].path : j \in DOMAIN plRows'}
             => i \in DOMAIN plRows' /\ plRows'[i].path = p

\* A playlist below a root that is away keeps its row, its members that are
\* still in the library and their objects through a whole-library pass.
WholePassKeepsAway ==
    FullPass => \A i \in DOMAIN plRows :
     Away(plRows[i].path) /\ plRows[i].inode \notin {plDisk[p].inode : p \in Found} =>
         /\ i \in DOMAIN plRows'
         /\ plRows'[i].path = plRows[i].path
         /\ have = indexed => \A k \in DOMAIN objects :
                                  k[2] = i => k \in DOMAIN objects'

\* A pass that changed what a control point sees reports a change, so that
\* the catalog is published (sync_playlist_paths returns changed).
ChangesAnnounced ==
    (FullPass \/ TargetedPass) /\ <<plRows, objects>>' # <<plRows, objects>> => announced'

\* Passes over the playlists: rows follow their files, ids survive, roots that
\* are away keep theirs, and changes are announced.
PlaylistsFollowed == [][PlaylistsSettle /\ PlaylistsKeepIds /\ WholePassKeepsAway /\ ChangesAnnounced]_plVars

=============================================================================
