--------------------------- MODULE FragmentIndex ----------------------------
(* The index over the fragments of a prepared output (remux/hls.rs with      *)
(* history.rs and completed.rs) and the playlists made from it               *)
(* (serve_fragment_playlist).  A producer appends boxes while requests index *)
(* the file under the job's index lock; a request reads whether the job is   *)
(* complete before it takes that lock.  Times are milliseconds.              *)
EXTENDS Integers, Sequences, FiniteSets, SequencesExt

CONSTANTS
    Movies,          \* outputs: [video, independent, frags]
    Gens,            \* generations of native playlists
    MsePlayers,      \* clients that page through the fragments
    PageMax,         \* MAX_MSE_PLAYLIST_FRAGMENTS
    ResourceMax,     \* MSE_RESOURCE_MAX_BYTES
    MaxGenerations,  \* 2 * (MAX_WEB_PLAYBACK_SESSIONS + 1)
    MaxTampers,      \* changes to the file from outside
    MaxJobs          \* jobs that serve the file one after the other

ASSUME Gens \cap MsePlayers = {}

VARIABLES
    movie,    \* the output being produced
    written,  \* its bytes on disk
    pstate,   \* the job: "growing", "complete", "failed", "cancelled"
    version,  \* of the file's content and metadata
    idx,      \* the job's Index
    kept,     \* completed indexes kept by the process
    req,      \* per client: <<>> or <<[complete]>>, a request past its state check
    shown,    \* per generation: <<>> or <<playlist>>, the last one it was given
    got,      \* per Media Source player: fragments it was given
    jobs      \* jobs so far

fiVars == <<movie, written, pstate, version, idx, kept, req, shown, got, jobs>>
Clients == Gens \cup MsePlayers

MIN_CONTINUATION == 1
STARTUP_BUFFER == 1000
COPIED_LOOKAHEAD == 20000
COPIED_TARGET_FLOOR == 10
Max2(x, y) == IF x > y THEN x ELSE y
Min2(x, y) == IF x < y THEN x ELSE y

\* A duration as a target: rounded to seconds, at least one.
Secs(d) == Max2((d + 500) \div 1000, 1)

-----------------------------------------------------------------------------
(* The file: an initialization box, then a moof and an mdat per fragment.   *)

\* A moof and the initialization are one byte, an mdat is as given.
BoxKind(i) == IF i = 1 THEN "moov" ELSE IF i % 2 = 0 THEN "moof" ELSE "mdat"
BoxCount(m) == 1 + 2 * Len(m.frags)
BoxEnd(m) ==
    LET end[i \in 0..BoxCount(m)] ==
          IF i = 0 THEN 0
          ELSE end[i - 1] + IF BoxKind(i) = "mdat" THEN m.frags[i \div 2].bytes ELSE 1
    IN  end
MovieBytes(m) == BoxEnd(m)[BoxCount(m)]

\* parse_traf of the timing track, or parse_moof's continuation, timed by the
\* other tracks from the end of everything indexed before.
Timing(f, covered) ==
    IF ~f.cont
      THEN [dec |-> <<f.dec>>, dur |-> f.dur, ra |-> f.ra, safe |-> f.safe, cont |-> FALSE]
      ELSE LET extension == IF covered # <<>> THEN f.dec + f.dur - covered[1] ELSE f.dur
           IN [dec |-> covered, dur |-> Max2(extension, MIN_CONTINUATION), ra |-> FALSE,
               safe |-> TRUE, cont |-> TRUE]

-----------------------------------------------------------------------------
(* The index *)

EmptyIndex ==
    [scan |-> 0, boxes |-> 0, init |-> 0, pend |-> <<>>, seg |-> <<>>, frags |-> <<>>,
     timing |-> <<>>, tend |-> <<>>, covered |-> <<>>, reliable |-> FALSE, ftime |-> 0,
     dstart |-> 0, dependent |-> 0, segs |-> <<>>, stime |-> 0, ftarget |-> 0, starget |-> 0,
     targets |-> <<>>, final |-> FALSE, ident |-> <<>>, failed |-> FALSE]

push_segment(ix, s) ==
    [ix EXCEPT !.stime = @ + s.dur, !.starget = Max2(@, Secs(s.dur)), !.segs = Append(@, s)]

\* Audio already counted by a continuation is not counted again.
AddedTime_whole(ix, t) == t.dur
AddedTime(ix, t) ==
    IF ~t.cont /\ ix.covered # <<>> /\ ix.covered[1] > t.dec[1]
      THEN Max2(t.dec[1] + t.dur - ix.covered[1], MIN_CONTINUATION)
      ELSE t.dur

Moof(ix, m, k) ==
    LET before == IF ix.covered # <<>> THEN ix.covered ELSE ix.tend
        t == Timing(m.frags[k], before)
        contiguous == t.dec # <<>> /\ (ix.tend # <<>> =>
                          t.dec[1] - ix.tend[1] \in -2..2)
        end == t.dec[1] + t.dur
        timed == IF t.cont
                   THEN [ix EXCEPT !.covered = IF t.dec = <<>> THEN <<>> ELSE <<t.dec[1] + t.dur>>]
                   ELSE [ix EXCEPT !.reliable = (ix.frags = <<>> \/ @) /\ contiguous /\ t.safe,
                                   !.tend = <<end>>,
                                   !.covered = IF @ # <<>> THEN <<Max2(@[1], end)>> ELSE <<end>>]
    IN [timed EXCEPT !.pend = <<[offset |-> BoxEnd(m)[2 * k - 1], dur |-> AddedTime(ix, t),
                                 ra |-> ~m.video \/ t.ra, cont |-> t.cont]>>]

\* Where a decoder that wants this fragment has to start.
EntryTime_own(ix, ra) == ix.ftime
EntryTime(ix, ra) == IF ra THEN ix.ftime ELSE ix.dstart

push_fragment(ix, f, end) ==
    LET cont == f.cont /\ ix.seg # <<>>
        ra == f.ra /\ ~cont
        dstart == EntryTime(ix, ra)
        s == [offset |-> f.offset, len |-> end - f.offset, dur |-> f.dur]
        joined == [ix EXCEPT !.dstart = dstart, !.pend = <<>>,
                     !.timing = Append(@, IF ix.reliable THEN <<ix.ftime, dstart>> ELSE <<>>),
                     !.ftime = @ + f.dur, !.ftarget = Max2(@, Secs(f.dur)),
                     !.frags = Append(@, s), !.dependent = IF ra \/ cont THEN @ ELSE @ + 1]
    IN IF ~ra /\ ~cont /\ ix.seg = <<>> THEN [ix EXCEPT !.failed = TRUE]
       ELSE IF ra THEN [(IF ix.seg = <<>> THEN joined ELSE push_segment(joined, ix.seg[1]))
                          EXCEPT !.seg = <<s>>]
       ELSE [joined EXCEPT !.seg[1].len = end - ix.seg[1].offset, !.seg[1].dur = @ + f.dur]

\* One complete box.
Box(ix, m, i) ==
    LET done == CASE BoxKind(i) = "moov" -> [ix EXCEPT !.init = BoxEnd(m)[i]]
                  [] BoxKind(i) = "moof" -> Moof(ix, m, i \div 2)
                  [] OTHER -> push_fragment(ix, ix.pend[1], BoxEnd(m)[i])
    IN IF ix.failed THEN ix ELSE [done EXCEPT !.scan = BoxEnd(m)[i], !.boxes = i]

\* The end of the output closes the last segment.
Finalize_dropsLast(ix, avail) ==
    IF ix.pend # <<>> \/ ix.scan # avail THEN [ix EXCEPT !.failed = TRUE]
    ELSE [ix EXCEPT !.seg = <<>>, !.final = TRUE, !.ident = <<version>>]

Finalize(ix, avail) ==
    IF ix.pend # <<>> \/ ix.scan # avail THEN [ix EXCEPT !.failed = TRUE]
    ELSE [(IF ix.seg = <<>> THEN ix ELSE push_segment(ix, ix.seg[1]))
            EXCEPT !.seg = <<>>, !.final = TRUE, !.ident = <<version>>]

KeptFor(v) == SelectSeq(kept, LAMBDA e : e.ident = v)

\* Boxes that are on disk as a whole and not scanned yet.
WholeBoxes_begun(ix) == {i \in 1..BoxCount(movie) : i > ix.boxes /\ BoxEnd(movie)[i - 1] < written}
WholeBoxes(ix) == {i \in 1..BoxCount(movie) : i > ix.boxes /\ BoxEnd(movie)[i] <= written}

same_content_any(ix, v) == TRUE
same_content(ix, v) == ix.ident[1] = v

Scan(ix, complete, v) ==
    LET whole == WholeBoxes(ix)
        scanned == FoldLeft(LAMBDA acc, i : Box(acc, movie, i), ix,
                            [n \in 1..Cardinality(whole) |-> ix.boxes + n])
    IN IF ix.ident # <<>> THEN [ix EXCEPT !.failed = ~same_content(ix, v)]
       ELSE IF written < ix.scan THEN [ix EXCEPT !.failed = TRUE]
       ELSE IF complete /\ ix.scan = 0 /\ KeptFor(v) # <<>> THEN KeptFor(v)[1].index
       ELSE IF complete /\ ~ix.final /\ ~scanned.failed THEN Finalize(scanned, written)
       ELSE scanned

\* update_file: an index that failed once stays failed.
update_file(ix, complete) == IF ix.failed THEN ix ELSE Scan(ix, complete, version)

\* completed::insert: one index per identity, without playlist targets.
insert(ix) ==
    IF ~ix.final \/ ix.frags = <<>> THEN kept
    ELSE Append(SelectSeq(kept, LAMBDA e : e.ident # ix.ident[1]),
                [ident |-> ix.ident[1], index |-> [ix EXCEPT !.targets = <<>>]])

-----------------------------------------------------------------------------
(* Playlists *)

Playable(ix) == ix.init > 0 /\ ix.segs # <<>>
has_startup_buffer(ix, complete) == Playable(ix) /\ (complete \/ ix.stime >= STARTUP_BUFFER)

TargetOf(ix, g) == SelectSeq(ix.targets, LAMBDA e : e.gen = g)

has_dependent_startup_buffer(ix, complete, g, lookahead) ==
    /\ has_startup_buffer(ix, complete)
    /\ \/ complete \/ ix.final \/ ~lookahead \/ TargetOf(ix, g) # <<>>
       \/ ix.stime >= COPIED_LOOKAHEAD

has_independent_startup_buffer(ix, complete) ==
    ix.init > 0 /\ ix.frags # <<>> /\ ix.dependent = 0
      /\ (complete \/ ix.ftime >= STARTUP_BUFFER)

has_mse_fragments_after(ix, after, complete) ==
    /\ ix.init > 0
    /\ IF after = 0 THEN ix.frags # <<>> /\ (complete \/ ix.ftime >= STARTUP_BUFFER)
       ELSE Len(ix.frags) > after \/ complete

ChosenTarget(ix, independent) ==
    LET observed == Max2(IF independent THEN ix.ftarget ELSE ix.starget, 1)
    IN IF independent \/ ix.final THEN observed ELSE Max2(observed, COPIED_TARGET_FLOOR)

\* The target a generation keeps once it has one.
FrozenTarget_follows(ix, g, target) == target
FrozenTarget(ix, g, target) ==
    IF TargetOf(ix, g) # <<>> THEN TargetOf(ix, g)[1].target ELSE target

playlist_view_for(ix, independent, g) ==
    LET list == IF independent THEN ix.frags ELSE ix.segs
        target == ChosenTarget(ix, independent)
        frozen == FrozenTarget(ix, g, target)
        refused == \/ independent /\ ix.dependent # 0
                   \/ list = <<>>
                   \/ TargetOf(ix, g) = <<>> /\ Len(ix.targets) >= MaxGenerations
                   \/ target > frozen
    IN [ok |-> ~refused, list |-> list, target |-> frozen, ended |-> ix.final]

Page_repeats(list, after, end) == SubSeq(list, IF after > 1 THEN after ELSE after + 1, end)
Page(list, after, end) == SubSeq(list, after + 1, end)

mse_playlist_view(ix, after) ==
    LET end == Min2(after + PageMax, Len(ix.frags))
        ended == ix.final /\ end = Len(ix.frags)
        refused == \/ after > Len(ix.frags)
                   \/ end = after /\ ~ended
                   \/ \E k \in (after + 1)..end : ix.frags[k].len > ResourceMax
    IN [ok |-> ~refused, list |-> Page(ix.frags, after, end), ended |-> ended]

-----------------------------------------------------------------------------
(* Actions *)

\* The producer appends a byte, its output is published, or it stops.
WriteOutput ==
    /\ pstate = "growing" /\ written < MovieBytes(movie)
    /\ written' = written + 1
    /\ UNCHANGED <<movie, pstate, version, idx, kept, req, shown, got, jobs>>

PublishOutput ==
    /\ pstate = "growing" /\ written = MovieBytes(movie)
    /\ pstate' = "complete"
    /\ UNCHANGED <<movie, written, version, idx, kept, req, shown, got, jobs>>

Stop(s) ==
    /\ pstate = "growing" /\ pstate' = s
    /\ UNCHANGED <<movie, written, version, idx, kept, req, shown, got, jobs>>

\* Something else shortens the file or rewrites it in place.
Tamper(n) ==
    /\ version < MaxTampers
    /\ written' = n /\ version' = version + 1
    /\ UNCHANGED <<movie, pstate, idx, kept, req, shown, got, jobs>>

\* The job is dropped and another one takes up the finished file, for the
\* same players, which keep what they have been given.
Reattach ==
    /\ pstate = "complete" /\ jobs < MaxJobs /\ \A c \in Clients : req[c] = <<>>
    /\ idx' = EmptyIndex /\ jobs' = jobs + 1
    /\ UNCHANGED <<movie, written, pstate, version, kept, req, shown, got>>

\* The head of the request's loop: the job's state, then whether it is done.
AskIndex(c) ==
    /\ req[c] = <<>> /\ pstate \in {"growing", "complete"} /\ written > 0
    /\ req' = [req EXCEPT ![c] = <<[complete |-> pstate = "complete"]>>]
    /\ UNCHANGED <<movie, written, pstate, version, idx, kept, shown, got, jobs>>

\* Under the index lock; a request without an answer goes round again.
NativeView(g, lookahead) ==
    LET complete == req[g][1].complete
        ix == update_file(idx, complete)
        ready == IF movie.independent THEN has_independent_startup_buffer(ix, complete)
                 ELSE has_dependent_startup_buffer(ix, complete, g, lookahead)
        view == playlist_view_for(ix, movie.independent, g)
        target == IF TargetOf(ix, g) # <<>> \/ ix.failed \/ ~ready \/ ~view.ok \/ view.list = <<>>
                    THEN <<>> ELSE <<[gen |-> g, target |-> view.target]>>
    IN /\ req[g] # <<>> /\ req' = [req EXCEPT ![g] = <<>>]
       /\ idx' = [ix EXCEPT !.targets = @ \o target]
       /\ kept' = IF ix.final /\ ~idx.final /\ ~ix.failed THEN insert(ix) ELSE kept
       /\ shown' = IF ix.failed \/ ~ready \/ ~view.ok THEN shown
                   ELSE [shown EXCEPT ![g] = <<[list |-> view.list, target |-> view.target,
                                                ended |-> view.ended, job |-> jobs]>>]
       /\ UNCHANGED <<movie, written, pstate, version, got, jobs>>

\* A Media Source player asks for what follows the fragments it has.
MseView(c) ==
    LET complete == req[c][1].complete
        ix == update_file(idx, complete)
        after == Len(got[c])
        view == mse_playlist_view(ix, after)
    IN /\ req[c] # <<>> /\ req' = [req EXCEPT ![c] = <<>>]
       /\ idx' = ix
       /\ kept' = IF ix.final /\ ~idx.final /\ ~ix.failed THEN insert(ix) ELSE kept
       /\ got' = IF ix.failed \/ ~has_mse_fragments_after(ix, after, complete) \/ ~view.ok THEN got
                 ELSE [got EXCEPT ![c] = @ \o view.list]
       /\ UNCHANGED <<movie, written, pstate, version, shown, jobs>>

\* The session replaced its source: its generations may start again.
forget_generation(g) ==
    /\ (TargetOf(idx, g) # <<>> \/ shown[g] # <<>>) /\ req[g] = <<>>
    /\ idx' = [idx EXCEPT !.targets = SelectSeq(@, LAMBDA e : e.gen # g)]
    /\ shown' = [shown EXCEPT ![g] = <<>>]
    /\ UNCHANGED <<movie, written, pstate, version, kept, req, got, jobs>>

FiInit ==
    /\ movie \in Movies /\ written = 0 /\ pstate = "growing" /\ version = 0
    /\ idx = EmptyIndex /\ kept = <<>> /\ jobs = 1
    /\ req = [c \in Clients |-> <<>>]
    /\ shown = [g \in Gens |-> <<>>] /\ got = [c \in MsePlayers |-> <<>>]

FiNext ==
    \/ WriteOutput \/ PublishOutput \/ Reattach
    \/ \E s \in {"failed", "cancelled"} : Stop(s)
    \/ \E n \in {written, written - 1} \cap Nat : Tamper(n)
    \/ \E c \in Clients : AskIndex(c)
    \/ \E g \in Gens : forget_generation(g) \/ \E la \in BOOLEAN : NativeView(g, la)
    \/ \E c \in MsePlayers : MseView(c)

FiSpec == FiInit /\ [][FiNext]_fiVars

-----------------------------------------------------------------------------
(* Properties *)

Prefix(s, t) == Len(s) <= Len(t) /\ SubSeq(t, 1, Len(s)) = s

\* What a client was told of an EVENT playlist stays true: later playlists of
\* its generation extend it, also when another job takes up the finished file,
\* and nothing follows the end.  Its target duration stays as long as the job
\* does; a new job takes the maximum it knows, "an earlier growing
\* generation's target is not transferable" (playlist_view_for, push_fragment,
\* completed.rs insert).
PlaylistsOnlyGrow ==
    \A g \in Gens : shown[g] # <<>> /\ shown'[g] # <<>> =>
       LET before == shown[g][1]
           now == shown'[g][1]
       IN /\ Prefix(before.list, now.list)
          /\ before.job = now.job => now.target = before.target
          /\ before.ended => now.ended /\ now.list = before.list

\* A native playlist covers the bytes after the initialization without gap or
\* overlap, every entry starts where a decoder can, no entry is longer than
\* the target, and an ended list reaches the end of the file.
SegmentsTile ==
    \A g \in Gens : shown[g] # <<>> =>
        LET p == shown[g][1]
            starts == {BoxEnd(movie)[2 * k - 1] : k \in
                         {j \in 1..Len(movie.frags) : ~movie.video \/ movie.frags[j].ra}}
        IN \A n \in 1..Len(p.list) :
             /\ p.list[n].offset = IF n = 1 THEN 1 ELSE p.list[n - 1].offset + p.list[n - 1].len
             /\ p.list[n].offset \in starts \/ movie.independent
             /\ Secs(p.list[n].dur) <= p.target
             /\ p.ended /\ n = Len(p.list) => p.list[n].offset + p.list[n].len = MovieBytes(movie)

\* A playlist names only bytes that are on disk, however the request's look
\* at the job's state and its indexing interleave with the producer.
AdvertisedIsOnDisk ==
    version = 0 =>
        /\ \A g \in Gens : shown[g] # <<>> =>
             \A n \in 1..Len(shown[g][1].list) :
                 shown[g][1].list[n].offset + shown[g][1].list[n].len <= written
        /\ \A c \in MsePlayers : \A n \in 1..Len(got[c]) :
             got[c][n].offset + got[c][n].len <= written

\* Paging with the count of fragments it has, a Media Source player gets every
\* fragment once and in order.
PagesMeet ==
    \A c \in MsePlayers : \A n \in 1..Len(got[c]) : got[c][n].offset = BoxEnd(movie)[2 * n - 1]

\* The time indexed is the time covered: audio that a fragment carries past
\* the pictures is counted once, to a millisecond a fragment, while the
\* timeline has no gaps.
TimeCountedOnce ==
    idx.reliable /\ idx.frags # <<>> /\ idx.pend = <<>> =>
        LET n == Len(idx.frags)
            ends == {movie.frags[k].dec + movie.frags[k].dur : k \in 1..n}
            last == CHOOSE e \in ends : \A d \in ends : e >= d
        IN idx.ftime - (last - movie.frags[1].dec) \in 0..(3 * n)

\* The decoder entry advertised with a fragment is the time of the latest
\* fragment up to it that a decoder can start at.
SeekEntriesDecode ==
    \A n \in 1..Len(idx.timing) : idx.timing[n] # <<>> =>
        LET entries == {k \in 1..n : ~movie.frags[k].cont /\ (~movie.video \/ movie.frags[k].ra)}
            k == CHOOSE e \in entries : \A d \in entries : e >= d
            before[j \in 0..n] == IF j = 0 THEN 0 ELSE before[j - 1] + idx.frags[j].dur
        IN idx.timing[n] = <<before[n - 1], before[k - 1]>>

\* A finished index answers only for the file it was made from: once the
\* completed file changes, no playlist is served from it.
CompletedIsCurrent ==
    \A g \in Gens :
       shown'[g] \notin {<<>>, shown[g]} /\ idx'.ident # <<>> => idx'.ident[1] = version

\* What the index advertises is decodable, adjoins, and is on disk.
IndexSound ==
    SegmentsTile /\ AdvertisedIsOnDisk /\ PagesMeet /\ TimeCountedOnce /\ SeekEntriesDecode

\* Playlists already given out stay true, and a completed index speaks for the
\* file it was made from.
PlaylistsSound == [][PlaylistsOnlyGrow /\ CompletedIsCurrent]_fiVars

=============================================================================
