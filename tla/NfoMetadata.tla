---------------------------- MODULE NfoMetadata -----------------------------
(***************************************************************************)
(* Curated metadata from NFO sidecars (src/crates/scan/src/nfo.rs and      *)
(* lib.rs over db.rs).                                                     *)
(*                                                                         *)
(* A video has its own sidecar, or the folder's movie.nfo while it is the  *)
(* only video there, and inherits tvshow.nfo.  All names of one physical   *)
(* file share one presentation, taken from the first name that has any.    *)
(* A row keeps what it shows and the fingerprint of the sidecars it was    *)
(* last rebuilt from.  Passes are targeted (the events of other programs)  *)
(* or full, and the files change between any two of their steps.  A text   *)
(* stands for everything a sidecar says; an empty one resets the row to    *)
(* what the file itself provides.                                          *)
(***************************************************************************)
EXTENDS Naturals, FiniteSets

CONSTANTS
    Videos,         \* names of video files
    Folder,         \* Videos -> the directory of a name
    Physical,       \* Videos -> the physical file behind a name
    Rank,           \* Videos -> its place in the order of path names
    Texts,          \* what a well-formed sidecar may say
    MaxEdits        \* changes made by other programs

ASSUME NfoAssumption ==
    /\ IsFiniteSet(Videos) /\ MaxEdits \in Nat
    /\ \A v \in Videos : Rank[v] \in Nat
    /\ {"none", "bad"} \cap Texts = {}

VARIABLES
    names,          \* videos on disk
    own, movie, show,   \* the sidecars: per video, per folder, and tvshow.nfo
    nfoStamp,          \* physical file -> its size and time
    edits,
    details,        \* Videos -> its row, or NoRow
    dirty,          \* names and folders reported and not yet handled
    nfoPass,        \* the running pass, or NoPass
    borrowed,       \* physical files shown from a sidecar no row has on record
    lean            \* physical files with one name that never left it

sidecars == <<own, movie, show>>
nfoVars == <<names, sidecars, nfoStamp, edits, details, dirty, nfoPass, borrowed, lean>>

Folders == {Folder[v] : v \in Videos}
NfoFiles == {Physical[v] : v \in Videos}
Empty == <<"none", "none">>
NoRow == [shown |-> Empty, print |-> Empty, stamp |-> 0, is |-> FALSE]
NoPass == [on |-> FALSE, full |-> FALSE, todo |-> {}, folders |-> {}, calm |-> TRUE]

Rows(d) == {v \in Videos : d[v].is}
AliasesOf(d, v) == {w \in Rows(d) : Physical[w] = Physical[v]}

-----------------------------------------------------------------------------
(* Effective metadata of a name: nfo_lookup_with_policy *)

\* sole_candidate_video_in_dir
Sole(v) == {w \in names : Folder[w] = Folder[v]} = {v}

Local(v) ==
    IF own[v] # "none" THEN own[v]
    ELSE IF Sole(v) THEN movie[Folder[v]] ELSE "none"

Parsed(text) == IF text = "bad" THEN "none" ELSE text

Lookup(v) == <<Parsed(Local(v)), Parsed(show)>>

Invalid(v) == "bad" \in {Local(v), show}

\* The name whose metadata describes the physical file.
Selected(aliases) ==
    LET some == {v \in aliases : Lookup(v) # Empty}
        from == IF some = {} THEN aliases ELSE some
    IN CHOOSE v \in from : \A w \in from : Rank[v] <= Rank[w]

-----------------------------------------------------------------------------
(* Row updates *)

Show(d, who, meta) == [v \in Videos |-> IF v \in who THEN [d[v] EXCEPT !.shown = meta] ELSE d[v]]

\* Mutation: only the selected name is described.
ApplyTo_itself(d, v, meta) == IF meta = Empty THEN d ELSE Show(d, {v}, meta)

\* apply_nfo_to_detail: an empty sidecar changes nothing, another one also
\* describes every alias.
ApplyTo(d, v, meta) == IF meta = Empty THEN d ELSE Show(d, AliasesOf(d, v), meta)

Stamped(d, who, meta) ==
    [v \in Videos |-> IF v \in who THEN [d[v] EXCEPT !.print = meta] ELSE d[v]]

\* Mutation: a malformed sidecar reads as a removed one.
Refresh_trusting(d, aliases) ==
    LET meta == Lookup(Selected(aliases))
    IN IF aliases = {} THEN d
       ELSE Stamped(ApplyTo(Show(d, aliases, Empty), Selected(aliases), meta), aliases, meta)

\* refresh_nfo_periodic for one physical file
Refresh(d, aliases) ==
    LET meta == Lookup(Selected(aliases))
        same == \A v \in aliases : d[v].print = meta
        base == IF same THEN d ELSE Show(d, aliases, Empty)
    IN IF \/ aliases = {} \/ \E v \in aliases : Invalid(v)
          \/ same /\ \A v \in aliases : d[v].shown = meta
       THEN d
       ELSE Stamped(ApplyTo(base, Selected(aliases), meta), aliases, meta)

\* A probe of the physical file resets what its aliases show (embedded tags
\* are copied to them); it is spared when an alias is already up to date.
Probed(d, v) ==
    IF \E w \in AliasesOf(d, v) \ {v} : d[w].stamp = d[v].stamp THEN d
    ELSE Show(d, AliasesOf(d, v), d[v].shown)

\* monitor_dirty_with_db: size or time of a known file changed.  apply_nfo
\* leaves the recorded fingerprint as it was.
NfoChanged(d, v) ==
    LET fresh == [d EXCEPT ![v] = [@ EXCEPT !.stamp = nfoStamp[Physical[v]], !.shown = Empty]]
    IN ApplyTo(Probed(fresh, v), v, Lookup(v))

\* index_one_file_with_artwork: a name of a file that is not known ...
Inserted(d, v) ==
    LET fresh == [d EXCEPT ![v] = [shown |-> Empty, print |-> Lookup(v),
                                   stamp |-> nfoStamp[Physical[v]], is |-> TRUE]]
    IN ApplyTo(Probed(fresh, v), v, Lookup(v))

\* ... and another name of one that is.
ClonedFrom(d, v, w) ==
    LET both == [d EXCEPT ![v] = d[w]]
        all  == AliasesOf(both, v)
    IN IF Invalid(v) \/ Lookup(v) = Empty THEN both
       ELSE IF \A u \in all : both[u].print = Empty
            THEN Stamped(ApplyTo(both, v, Lookup(v)), all, Lookup(v))
            ELSE Refresh(both, all)

RowIndexed(d, v) ==
    LET twins == {w \in AliasesOf(d, v) : d[w].stamp = nfoStamp[Physical[v]]}
    IN IF d[v].is THEN IF d[v].stamp = nfoStamp[Physical[v]] THEN d ELSE NfoChanged(d, v)
       ELSE IF twins = {} THEN Inserted(d, v)
       ELSE ClonedFrom(d, v, CHOOSE w \in twins : TRUE)

-----------------------------------------------------------------------------
(* Other programs *)

Edit(events) ==
    /\ edits < MaxEdits /\ edits' = edits + 1
    /\ dirty' = dirty \cup events
    /\ nfoPass' = [nfoPass EXCEPT !.calm = FALSE]
    /\ UNCHANGED <<details, borrowed>>

WriteSidecar ==
    \E text \in Texts \cup {"none", "bad"} :
       /\ \/ \E v \in names :
                /\ own[v] # text /\ own' = [own EXCEPT ![v] = text] /\ UNCHANGED <<movie, show>>
                /\ Edit({Folder[v]})
          \/ \E f \in Folders :
                /\ movie[f] # text /\ movie' = [movie EXCEPT ![f] = text] /\ UNCHANGED <<own, show>>
                /\ Edit({f})
          \/ /\ show # text /\ show' = text /\ UNCHANGED <<own, movie>>
             /\ Edit(Folders)
       /\ UNCHANGED <<names, nfoStamp, lean>>

AddName(v) ==
    /\ v \notin names /\ Edit({v})
    /\ names' = names \cup {v}
    /\ lean' = IF \E w \in Videos \ {v} : Physical[w] = Physical[v] /\ (w \in names \/ details[w].is)
               THEN lean \ {Physical[v]} ELSE lean
    /\ UNCHANGED <<sidecars, nfoStamp>>

RemoveName(v) ==
    /\ v \in names /\ Edit({v})
    /\ names' = names \ {v}
    /\ lean' = lean \ {Physical[v]}
    /\ UNCHANGED <<sidecars, nfoStamp>>

RewriteVideo(v) ==
    /\ v \in names /\ Edit({v})
    /\ nfoStamp' = [nfoStamp EXCEPT ![Physical[v]] = edits']
    /\ UNCHANGED <<names, sidecars, lean>>

-----------------------------------------------------------------------------
(* Passes *)

\* Mutation: a video that arrives or leaves does not concern movie.nfo.
FoldersOf_sidecarsOnly(events, todo) == events \cap Folders

\* Folders of changed sidecars, and those whose movie.nfo may now apply to
\* another video.
FoldersOf(events, todo) ==
    (events \cap Folders) \cup {Folder[v] : v \in {w \in todo : movie[Folder[w]] # "none"}}

\* Listing: rows of names that are gone are removed first.
BeginPass(full) ==
    /\ ~nfoPass.on
    /\ full \/ dirty # {}
    /\ LET todo == IF full THEN Videos ELSE dirty \cap Videos
       IN /\ details' = [v \in Videos |-> IF v \in todo \ names THEN NoRow ELSE details[v]]
          /\ nfoPass' = [on |-> TRUE, full |-> full, todo |-> todo \cap names, calm |-> TRUE,
                         folders |-> FoldersOf(dirty, todo)]
    /\ dirty' = {}
    /\ UNCHANGED <<names, sidecars, nfoStamp, edits, borrowed, lean>>

IndexVideo(v) ==
    /\ nfoPass.on /\ v \in nfoPass.todo
    /\ details' = IF v \in names THEN RowIndexed(details, v) ELSE details
    /\ nfoPass' = [nfoPass EXCEPT !.todo = @ \ {v}]
    /\ borrowed' = IF \E w \in Videos : details'[w].shown # Empty /\ details'[w].print # details'[w].shown
                                         /\ Physical[w] = Physical[v]
                   THEN borrowed \cup {Physical[v]} ELSE borrowed
    /\ UNCHANGED <<names, sidecars, nfoStamp, edits, dirty, lean>>

\* apply_nfo_in_dir, or every row of a full pass
RefreshFolder(f) ==
    /\ nfoPass.on /\ nfoPass.todo = {} /\ ~nfoPass.full /\ f \in nfoPass.folders
    /\ details' = [v \in Videos |->
          LET near == {w \in names : Folder[w] = f /\ details[w].is /\ Physical[w] = Physical[v]}
          IN IF near = {} THEN details[v] ELSE Refresh(details, AliasesOf(details, v))[v]]
    /\ nfoPass' = [nfoPass EXCEPT !.folders = @ \ {f}]
    /\ UNCHANGED <<names, sidecars, nfoStamp, edits, dirty, borrowed, lean>>

RefreshAll ==
    /\ nfoPass.on /\ nfoPass.todo = {} /\ nfoPass.full
    /\ details' = [v \in Videos |-> Refresh(details, AliasesOf(details, v))[v]]
    /\ nfoPass' = NoPass
    /\ UNCHANGED <<names, sidecars, nfoStamp, edits, dirty, borrowed, lean>>

EndPass ==
    /\ nfoPass.on /\ nfoPass.todo = {} /\ ~nfoPass.full /\ nfoPass.folders = {}
    /\ nfoPass' = NoPass
    /\ UNCHANGED <<names, sidecars, nfoStamp, edits, details, dirty, borrowed, lean>>

NfoInit ==
    /\ names = {} /\ edits = 0 /\ dirty = {}
    /\ own = [v \in Videos |-> "none"] /\ movie = [f \in Folders |-> "none"] /\ show = "none"
    /\ nfoStamp = [p \in NfoFiles |-> 0]
    /\ details = [v \in Videos |-> NoRow]
    /\ nfoPass = NoPass /\ borrowed = {} /\ lean = NfoFiles

NfoNext ==
    \/ WriteSidecar
    \/ \E v \in Videos : AddName(v) \/ RemoveName(v) \/ RewriteVideo(v) \/ IndexVideo(v)
    \/ \E full \in BOOLEAN : BeginPass(full)
    \/ \E f \in Folders : RefreshFolder(f)
    \/ RefreshAll \/ EndPass

NfoSpec == NfoInit /\ [][NfoNext]_nfoVars

-----------------------------------------------------------------------------
Effective(d, v) == Lookup(Selected(AliasesOf(d, v)))

Readable(d, v) == \A w \in AliasesOf(d, v) : ~Invalid(w)

\* For a file with one name the events alone are enough: when they are all
\* handled the row shows what its sidecars say.
EventsSettle ==
    ~nfoPass.on /\ dirty = {} =>
       \A v \in Rows(details) :
          Physical[v] \in lean \ borrowed /\ Readable(details, v) =>
              details[v].shown = Effective(details, v)

\* After a full pass during which nothing changed, every name of a physical
\* file shows the metadata of the first of its names that has any.
FullPassSettles ==
    nfoPass.on /\ nfoPass.full /\ nfoPass.calm /\ ~nfoPass'.on =>
       \A v \in Rows(details') : Readable(details', v) /\ Physical[v] \notin borrowed =>
           details'[v].shown = Effective(details', v)

\* A malformed sidecar, perhaps half written, never costs a row what it shows.
MalformedKeeps ==
    \A v \in Rows(details) :
       details[v].shown # Empty /\ details'[v].is /\ details'[v].shown = Empty
           /\ details'[v].stamp = details[v].stamp /\ Physical[v] \in lean
         => ~Invalid(v)

\* Passes apply the sidecars as they are, and never a broken one.
SidecarsApplied == [][FullPassSettles /\ MalformedKeeps]_nfoVars

=============================================================================
