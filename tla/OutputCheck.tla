---------------------------- MODULE OutputCheck -----------------------------
(* How a finished output becomes Complete: its structure (validation.rs),    *)
(* its coverage against the catalog and, in doubt, against the source        *)
(* (source_evidence.rs), the rechecks around the rename                      *)
(* (publish_finished_output), and where a copied seek starts.                *)
(* Times are milliseconds.                                                   *)
EXTENDS Integers, Sequences, FiniteSets, SequencesExt

CONSTANTS
    Sources,   \* [start, catalog, ends, keys, delay, pts]: ends of the video and audio streams
    Plans,     \* [video, copy, audios, audio, seek]: what was negotiated
    Losses,    \* how much of the end an encoder that dies quietly leaves out
    Defects,   \* ways in which the file is not what its muxer should write
    MaxChanges \* changes of the file by something else

VARIABLES
    src, want, lost, defect,  \* the source, the plan, and what went wrong
    chk                       \* the publication: [pc, change, seen, cancelled, late, files, why]

ocVars == <<src, want, lost, defect, chk>>

TOLERANCE == 250
GOP == 10000
WINDOW_LEAD == 30000
WINDOW_TRAIL == 60000
KEYFRAME_SEARCH == 300000
LANDING_LEAD == 1000
DTS_HEURISTIC == 130

Larger(a, b) == IF a > b THEN a ELSE b
Smaller(a, b) == IF a < b THEN a ELSE b
MaxOf(S) == CHOOSE x \in S : \A y \in S : x >= y
MinOf(S) == CHOOSE x \in S : \A y \in S : x <= y
Options(S) == IF S = {} THEN <<>> ELSE <<MaxOf(S)>>

-----------------------------------------------------------------------------
(* What FFmpeg makes of a source.  Source times are from the container's     *)
(* start.  Stream 1 is the video, stream n + 2 is audio n.                   *)

Audios == {n + 2 : n \in CASE want.audios = 0 -> {} [] want.audios = 1 -> {want.audio}
                           [] OTHER -> 0..(Len(src.ends) - 2)}
Selected == {i \in (IF want.video THEN {1} ELSE {}) \cup Audios : i <= Len(src.ends)}
SelectedEnd == MaxOf({src.ends[i] : i \in Selected})

\* The input seek lands on the last keyframe that the demuxer's target
\* reaches; everything is copied from there.
SeekTarget == want.seek - (IF src.delay /\ ~src.pts THEN DTS_HEURISTIC ELSE 0)
Landing == Options({k \in src.keys : k <= SeekTarget})
OutputZero ==
    IF want.copy /\ want.seek > 0 /\ Landing # <<>> THEN Landing[1] ELSE want.seek

\* Two fragments of every track, the second up to where the track ends.
CutAt == 1000
TrackEnd(i) == Larger(Smaller(src.ends[i], SelectedEnd - lost) - OutputZero, 2 * CutAt)
Tracks == SetToSortSeq(Selected, LAMBDA a, b : a < b)
CodecOf(i) == IF i = 1 THEN "video" ELSE "audio"
Output ==
    LET t == Tracks
        frag(n, from(_), to(_)) ==
          [seq |-> n, media |-> TRUE, ra |-> TRUE,
           runs |-> [k \in DOMAIN t |-> [dec |-> from(k), end |-> to(k)]]]
        one == frag(1, LAMBDA k : 0, LAMBDA k : CutAt)
        two == frag(2, LAMBDA k : CutAt, LAMBDA k : TrackEnd(t[k]))
        codecs == [k \in DOMAIN t |-> CodecOf(t[k])]
        made(c, f) == [codecs |-> c, configs |-> [k \in DOMAIN c |-> TRUE], frags |-> f]
        whole == made(codecs, <<one, two>>)
    IN CASE defect = "wrong_codec" -> [whole EXCEPT !.codecs[1] = "other"]
         [] defect = "bad_config" -> [whole EXCEPT !.configs[1] = FALSE]
         [] defect = "lost_track" -> made(Tail(codecs), <<>>)
         [] defect = "gap" -> made(codecs, <<one, [two EXCEPT !.runs[1].dec = @ + 500]>>)
         [] defect = "no_media" -> made(codecs, <<one, [two EXCEPT !.media = FALSE]>>)
         [] defect = "regressed" -> made(codecs, <<two, one>>)
         [] defect = "late_start" -> made(codecs, <<two>>)
         [] defect = "no_entry" -> made(codecs, <<[one EXCEPT !.ra = FALSE], two>>)
         [] OTHER -> whole

-----------------------------------------------------------------------------
(* validate_finished_structure *)

ExpectedCodecs == [k \in DOMAIN Tracks |-> CodecOf(Tracks[k])]

\* Every sample entry carries a decoder configuration that can be read.
Configured(out) == \A k \in DOMAIN out.configs : out.configs[k]

\* initialization: the negotiated tracks and codecs, in order.
initialization(out) ==
    [ok |-> Configured(out) /\ out.codecs = ExpectedCodecs /\ out.codecs # <<>>, seq |-> 0,
     tracks |-> [k \in DOMAIN out.codecs |-> [start |-> <<>>, end |-> 0]]]

\* fragment_track: a track goes on where it stopped, and a first picture
\* needs nothing before it.
Contiguous_forward(track, run) == track.start = <<>> \/ run.dec >= track.end - 2
Contiguous(track, run) == track.start = <<>> \/ run.dec - track.end \in -2..2

fragment_track(track, run, first, ra) ==
    [ok |-> Contiguous(track, run) /\ run.end > run.dec /\ (first => ra),
     track |-> [start |-> IF track.start = <<>> THEN <<run.dec>> ELSE track.start, end |-> run.end]]

Fragment(acc, out, f) ==
    LET seen(k) == fragment_track(acc.tracks[k], f.runs[k],
                                  out.codecs[k] = "video" /\ acc.tracks[k].start = <<>>, f.ra)
    IN IF ~acc.ok THEN acc
       ELSE [ok |-> f.seq > acc.seq /\ f.media /\ \A k \in DOMAIN acc.tracks : seen(k).ok,
             seq |-> f.seq, tracks |-> [k \in DOMAIN acc.tracks |-> seen(k).track]]

validate_finished_structure(out) ==
    LET end == FoldLeft(LAMBDA acc, f : Fragment(acc, out, f), initialization(out), out.frags)
    IN [ok |-> /\ end.ok /\ out.frags # <<>>
               /\ \A k \in DOMAIN end.tracks : end.tracks[k].start # <<>>
                    /\ end.tracks[k].start[1] \in -TOLERANCE..TOLERANCE,
        ends |-> {end.tracks[k].end : k \in DOMAIN end.tracks}]

-----------------------------------------------------------------------------
(* validate_coverage *)

NoEvidence == [selected |-> <<>>, key |-> <<>>]

\* The selected streams' end replaces a longer container duration.
Duration_extended(evidence) ==
    LET all == {src.catalog[k] : k \in DOMAIN src.catalog}
                 \cup {evidence.selected[k] : k \in DOMAIN evidence.selected}
    IN IF all = {} THEN <<>> ELSE <<Larger(MaxOf(all) - want.seek, 0)>>

Duration(evidence) ==
    LET all == {src.catalog[k] : k \in DOMAIN src.catalog}
                 \cup {evidence.selected[k] : k \in DOMAIN evidence.selected}
    IN IF all = {} THEN <<>> ELSE <<Larger(MinOf(all) - want.seek, 0)>>

Preroll(evidence) ==
    IF ~(want.copy /\ want.seek > 0) THEN TOLERANCE
    ELSE IF evidence.key # <<>> /\ evidence.key[1] <= want.seek
           THEN Larger(want.seek - evidence.key[1] + 500, GOP)
           ELSE GOP

Shortfall(d) == Smaller(Larger(d \div 20, 50), 1000)

validate_coverage(ends, evidence) ==
    LET d == Duration(evidence)
    IN d # <<>> =>
         /\ \A e \in ends : e <= d[1] + Preroll(evidence) + 1000
         /\ MaxOf(ends) + Shortfall(d[1]) >= d[1]

\* gather: packets in a window around the output's end, and the keyframe a
\* copied seek had to start from.
WindowStart(longest) == Larger(src.start + want.seek + longest - WINDOW_LEAD, 0)

\* The last packet of a stream that the window shows.
SeenEnd_noTrail(i, from) ==
    IF src.start + src.ends[i] < from THEN from ELSE Smaller(src.start + src.ends[i], from + WINDOW_LEAD)
SeenEnd(i, from) ==
    IF src.start + src.ends[i] < from THEN from
    ELSE Smaller(src.start + src.ends[i], from + WINDOW_LEAD + WINDOW_TRAIL)

gather(longest) ==
    LET from == WindowStart(longest)
        reach == {k \in src.keys : k <= want.seek /\ k >= want.seek - KEYFRAME_SEARCH}
    IN [selected |-> <<MaxOf({SeenEnd(i, from) : i \in Selected}) - src.start>>,
        key |-> IF want.copy /\ want.seek > 0 /\ want.video THEN Options(reach) ELSE <<>>]

\* The source is asked only when the catalog cannot explain the length, and
\* may have no answer: no descriptor, FFprobe fails, no such stream.
Judged(answers) ==
    LET s == validate_finished_structure(Output)
        covers(evidence) == validate_coverage(s.ends, evidence)
    IN IF ~s.ok THEN "rejected"
       ELSE IF covers(NoEvidence) THEN "accepted"
       ELSE IF ~answers THEN "no_evidence"
       ELSE IF covers(gather(MaxOf(s.ends))) THEN "accepted" ELSE "rejected"

-----------------------------------------------------------------------------
(* copied_seek_origin: the demuxer's own seek, repeated. *)

\* A demuxer that seeks by decode time starts a little earlier.
CopiedSeekTarget_plain == want.seek
CopiedSeekTarget == want.seek - (IF src.delay /\ ~src.pts THEN DTS_HEURISTIC ELSE 0)
copied_seek_origin ==
    LET landed == Options({k \in src.keys : k <= CopiedSeekTarget})
    IN IF want.seek = 0 THEN <<0>>
       ELSE SelectSeq(landed, LAMBDA k : k >= want.seek - KEYFRAME_SEARCH /\ k <= want.seek + LANDING_LEAD)

-----------------------------------------------------------------------------
(* publish_finished_output and finalize_remux *)

Goes(to) == chk' = to /\ UNCHANGED <<src, want, lost, defect>>
Becomes(pc) == Goes([chk EXCEPT !.pc = pc])
Give(why) == Goes([chk EXCEPT !.pc = "failing", !.why = why])

\* The checkpoints of a thread that can be told to stop or run out of time.
Interrupted == chk.cancelled \/ chk.late

\* Snapshot, structure and coverage of the pinned descriptor.
Validate ==
    /\ chk.pc = "produced"
    /\ \E answers \in BOOLEAN :
         IF Interrupted THEN Give("interrupted")
         ELSE IF Judged(answers) # "accepted" THEN Give(Judged(answers))
         ELSE Goes([chk EXCEPT !.pc = "validated", !.seen = chk.change])

\* snapshot.unchanged: by descriptor and by name.
Unchanged_always == TRUE
Unchanged == chk.seen = chk.change

Recheck ==
    /\ chk.pc = "validated"
    /\ IF Unchanged THEN Becomes("unpublished") ELSE Give("changed")

\* Under the completion and output locks: the limits of the cache,
\* cancellation and deadline, the snapshot again, and the rename.
Rename ==
    /\ chk.pc = "unpublished"
    /\ \E possible \in BOOLEAN :
         IF ~possible THEN Give("refused")
         ELSE IF Interrupted THEN Give("interrupted")
         ELSE IF ~Unchanged THEN Give("changed")
         ELSE Goes([chk EXCEPT !.pc = "renamed", !.files = {"dest"}])

\* Still under them, the stamp of a reusable output and one look more before
\* anyone may call it complete; a failure takes back what was renamed.
Cacheable == want.seek = 0
Published == {"dest"} \cup (IF Cacheable THEN {"stamp"} ELSE {})
Complete ==
    /\ chk.pc = "renamed"
    /\ \E stamped \in BOOLEAN :
         IF (stamped \/ ~Cacheable) /\ Unchanged /\ ~Interrupted
           THEN Goes([chk EXCEPT !.pc = "complete", !.files = Published])
           ELSE Goes([chk EXCEPT !.pc = "failing", !.why = "taken_back", !.files = {}])

\* Mutation: a publication that failed leaves its staging file.
finalize_remux_leavesPart == chk.pc = "failing" /\ Becomes(IF chk.cancelled THEN "cancelled" ELSE "failed")
finalize_remux ==
    /\ chk.pc = "failing"
    /\ Goes([chk EXCEPT !.pc = IF chk.cancelled THEN "cancelled" ELSE "failed",
                        !.files = @ \ {"part"}])

\* cancel takes the completion lock.
CancelCheck ==
    /\ chk.pc \notin {"renamed", "failed", "cancelled"} /\ ~chk.cancelled
    /\ Goes([chk EXCEPT !.cancelled = TRUE, !.why = IF chk.pc = "complete" THEN "too_late" ELSE @])

\* The deadline of the check, or of the job, passes; that of a cancelled job
\* changes nothing more.
DeadlinePasses ==
    /\ chk.pc \in {"produced", "unpublished", "renamed"} /\ ~Interrupted
    /\ Goes([chk EXCEPT !.late = TRUE])

\* Something else writes to the file between the first look and the last (what
\* it writes before is part of what is looked at).
Change ==
    /\ chk.pc \in {"validated", "unpublished", "renamed"} /\ chk.change < MaxChanges
    /\ Goes([chk EXCEPT !.change = @ + 1])

OcInit ==
    /\ src \in Sources /\ want \in Plans /\ lost \in Losses /\ defect \in Defects
    /\ Selected # {} /\ SelectedEnd > want.seek + 2 * CutAt
    /\ chk = [pc |-> "produced", change |-> 0, seen |-> 0, cancelled |-> FALSE, late |-> FALSE,
               files |-> {"part"}, why |-> "none"]

OcNext ==
    \/ Validate \/ Recheck \/ Rename \/ Complete \/ finalize_remux
    \/ CancelCheck \/ DeadlinePasses \/ Change
OcSpec == OcInit /\ [][OcNext]_ocVars

-----------------------------------------------------------------------------
(* Properties *)

Accepted == chk.pc \in {"validated", "unpublished", "renamed", "complete"}

\* An accepted output reaches the end of what was selected, or of what the
\* catalog promised, to a second: an encoder that stopped early and exited
\* well is found out even where the container runs longer than its streams.
\* (A copied seek may lack as much at its end as it carries before the seek:
\* a length cannot tell.)
AcceptedReachesTheEnd ==
    Accepted =>
        LET end == IF src.catalog = <<>> THEN SelectedEnd ELSE Smaller(SelectedEnd, src.catalog[1])
            made == MaxOf({TrackEnd(i) : i \in Selected})
        IN src.catalog # <<>> => made + 1000 >= end - want.seek

\* An accepted output has every selected track, one that a decoder can begin,
\* and each runs from its start without a gap.
AcceptedIsUnbroken ==
    Accepted =>
        /\ Len(Output.codecs) = Cardinality(Selected) /\ defect # "bad_config"
        /\ \A k \in DOMAIN Output.codecs : \A n \in 1..Len(Output.frags) :
             LET r == Output.frags[n].runs[k]
             IN IF n = 1 THEN r.dec <= TOLERANCE
                ELSE r.dec - Output.frags[n - 1].runs[k].end \in -2..2

\* A sound output is never refused for what its container or a distant
\* keyframe made of its length, within the keyframe search, unless a keyframe
\* lies between the demuxer's target and the seek (the evidence takes that
\* one, the demuxer the one before).  Where the source cannot be asked, one is
\* refused only if its streams end elsewhere than its container, or its
\* keyframe is further away than a group of pictures usually is.
SoundIsAccepted ==
    LET broken == lost > 0 \/ defect # "none"
    IN /\ chk.why = "rejected" =>
            \/ broken
            \/ \E k \in src.keys : k > SeekTarget /\ k <= want.seek
            \/ want.copy /\ want.seek - OutputZero > KEYFRAME_SEARCH
            \/ src.catalog # <<>> /\ src.catalog[1] < SelectedEnd
       /\ chk.why = "no_evidence" =>
            \/ broken
            \/ src.catalog # <<SelectedEnd>>
            \/ want.copy /\ want.seek - OutputZero > GOP

\* The origin reported for a copied seek is the source time of output zero.
OriginIsOutputZero ==
    want.copy /\ want.seek > 0 /\ copied_seek_origin # <<>> => copied_seek_origin[1] = OutputZero

\* What becomes Complete is, to the last look under the locks, the file that
\* was validated, and was not cancelled before.
CompleteIsValidated ==
    chk.pc = "complete" => chk.seen = chk.change /\ (chk.cancelled => chk.why = "too_late")

\* Wherever a publication fails or is cancelled, neither staging file nor
\* output nor stamp is left for a later request to find; a complete output is
\* there with its stamp if it may be reused (publish_finished_output,
\* finalize_remux).
FailureLeavesNothing ==
    /\ chk.pc \in {"failed", "cancelled"} => chk.files = {}
    /\ chk.pc = "complete" => chk.files = Published

\* The check accepts no output that stops early or has a hole, refuses no
\* sound one, publishes exactly what it looked at, and leaves nothing when it
\* fails.
OutputsChecked ==
    /\ AcceptedReachesTheEnd /\ AcceptedIsUnbroken /\ SoundIsAccepted
    /\ OriginIsOutputZero /\ CompleteIsValidated /\ FailureLeavesNothing

=============================================================================
