------------------------------ MODULE MsePump -------------------------------
(* media-source.js: the loop that feeds a Media Source buffer from a growing *)
(* playlist, within a reserve of time and a budget of memory, around a       *)
(* player that pauses, plays and seeks in what is buffered.  Steps between   *)
(* two awaits are one action.  Times are ticks of the media clock.           *)
EXTENDS Integers, Sequences

CONSTANTS
    Films,      \* [copied, fallback, reorder, segs: Seq([start, end, decodeStart, bytes])]
    Ahead,      \* MEDIA_SOURCE_BUFFER_AHEAD_WALL_SECONDS
    Behind,     \* MEDIA_SOURCE_RETAIN_BEHIND_SECONDS
    BehindLeast,\* what a required prune keeps
    BufferMax,  \* MEDIA_SOURCE_BUFFER_MAX_BYTES
    Quotas,     \* what the browser holds before it refuses an append
    Margin,     \* of a copied picture's reordering
    MaxTries,   \* refused appends before the deadline
    MaxSeeks, MaxPauses

VARIABLES
    film,       \* what the producer writes
    made,       \* how much of it the playlist lists: [n, ended]
    ms          \* the pump, its buffer [lo, hi) and the media element

mpVars == <<film, made, ms>>

Count == Len(film.segs)
StartOf(i) == film.segs[i].start
EndOf(i) == film.segs[i].end
DecodeStart(i) == film.segs[i].decodeStart
FilmEnd == EndOf(Count)
Bytes(i) == film.segs[i].bytes
Raps == {DecodeStart(i) : i \in 1..Count}
Least(S) == CHOOSE x \in S : \A y \in S : x <= y
Most(S) == CHOOSE x \in S : \A y \in S : x >= y
RapBefore(t) == Most({r \in Raps : r <= t})

\* Does the buffer hold anything of segment i?
Overlaps(s, i) == s.lo < s.hi /\ StartOf(i) < s.hi /\ EndOf(i) > s.lo
Holds(s, t) == s.lo <= t /\ t < s.hi
BytesOf(S) ==
    LET sum[i \in 0..Count] == IF i = 0 THEN 0 ELSE sum[i - 1] + (IF i \in S THEN Bytes(i) ELSE 0)
    IN sum[Count]

\* retainedMediaSourceBytes: a fragment counts whole while any of it remains.
Retained_ahead(s) == BytesOf({i \in s.segs : Overlaps(s, i) /\ EndOf(i) > s.pos})
Retained(s) == BytesOf({i \in s.segs : Overlaps(s, i)})
InBrowser(s) == BytesOf({i \in 1..s.appended : Overlaps(s, i)})

\* bufferedRangeSecondsAhead
SecondsAhead_all(s) == s.hi - s.lo
SecondsAhead(s) == IF s.lo <= s.pos /\ s.pos <= s.hi THEN s.hi - s.pos ELSE 0

-----------------------------------------------------------------------------
(* The controller the player asks. *)

Busy(s) == s.pc \in {"appending", "removing", "initializing"}

\* reusableMediaSourceSeek: with everything its decoder needs.
Reusable(s, t) ==
    /\ Holds(s, t)
    /\ \E i \in s.segs :
         /\ StartOf(i) <= t /\ t < EndOf(i)
         /\ s.lo <= DecodeStart(i)
    /\ s.copied => s.hi >= (IF s.done /\ FilmEnd > t THEN Least({t + Margin, FilmEnd}) ELSE t + Margin)

canSeek_busy(s, t) == Reusable(s, t) /\ s.pc # "failed"
canSeek(s, t) == ~Busy(s) /\ Reusable(s, t) /\ s.pc # "failed"

\* needsSeekData: buffered is not yet decoded, and playback waits for the seek.
needsSeekData_buffered(s) == s.target # <<>> /\ ~Holds(s, s.target[1])
needsSeekData(s) == s.target # <<>> /\ (~Holds(s, s.target[1]) \/ s.seeking)

\* applyPendingSeek, of the player: to the target once it is buffered.
applyPendingSeek(s) ==
    IF s.target = <<>> \/ ~Holds(s, s.target[1]) THEN s
    ELSE IF s.pos # s.target[1] THEN [s EXCEPT !.pos = s.target[1], !.seeking = TRUE]
    ELSE IF s.seeking THEN s ELSE [s EXCEPT !.target = <<>>]

-----------------------------------------------------------------------------
(* pumpMediaSource, from one await to the next. *)

FailPump(s, why) == [s EXCEPT !.pc = "failed", !.why = why]
WaitsForPlay(s) == s.appended > 0 /\ s.paused /\ ~needsSeekData(s)

\* pruneMediaSourceBuffer: where a removal would end, rounded down to a random
\* access point where the pictures are copied.
RemoveEnd_playhead(s, required) ==
    LET desired == Most({0, s.pos - (IF required THEN BehindLeast ELSE Behind)})
        boundary == Most({0} \cup {r \in {DecodeStart(i) : i \in s.segs} : r <= desired})
    IN IF s.copied THEN boundary ELSE Most({boundary, desired})
RemoveEnd(s, required) ==
    LET position == IF s.target = <<>> THEN s.pos ELSE Least({s.target[1], s.hi})
        desired == Most({0, position - (IF required THEN BehindLeast ELSE Behind)})
        boundary == Most({0} \cup {r \in {DecodeStart(i) : i \in s.segs} : r <= desired})
    IN IF s.copied THEN boundary ELSE Most({boundary, desired})
Prunable(s, required) == s.lo < s.hi /\ RemoveEnd(s, required) > s.lo
Removing(s, required, back) ==
    [s EXCEPT !.pc = "removing", !.to = RemoveEnd(s, required), !.back = back]

Top(s) == [s EXCEPT !.pc = IF WaitsForPlay(s) THEN "waitTop" ELSE "listing", !.fresh = FALSE]
Fits(s) == Retained(s) + Bytes(s.appended + 1) <= BufferMax
Get(s) == [s EXCEPT !.pc = "getting"]

\* The memory loop, after its first prune.
Crowded(s) ==
    IF Fits(s) THEN Get(s)
    ELSE IF needsSeekData(s)
           THEN IF Prunable(s, TRUE) THEN Removing(s, TRUE, "last") ELSE FailPump(s, "resource_limit")
           ELSE IF ~s.paused /\ SecondsAhead(s) = 0 THEN FailPump(s, "resource_limit")
           ELSE [s EXCEPT !.pc = "waitRoom"]
Room(s) ==
    IF Fits(s) THEN Get(s)
    ELSE IF Prunable(s, FALSE) THEN Removing(s, FALSE, "crowded") ELSE Crowded(s)
Reserve(s) ==
    IF ~needsSeekData(s) /\ SecondsAhead(s) >= Ahead THEN [s EXCEPT !.pc = "waitReserve"] ELSE Room(s)

\* After the last listed fragment.
Tailing(s) ==
    IF s.lend THEN IF s.target # <<>> /\ ~Holds(s, s.target[1]) THEN FailPump(s, "seek")
                   ELSE [s EXCEPT !.pc = "done", !.done = TRUE]
    ELSE IF WaitsForPlay(s) THEN [s EXCEPT !.pc = "waitTail"]
    ELSE IF s.fresh THEN Top(s) ELSE [s EXCEPT !.pc = "waitPoll"]
NextSegment(s) ==
    IF s.appended = s.listed THEN Tailing(s)
    ELSE IF WaitsForPlay(s) THEN [s EXCEPT !.pc = "waitSegment"] ELSE Reserve(s)

\* appendMediaSourceResource: the browser may refuse for want of memory.
AppendTo(s, quota) ==
    IF InBrowser(s) + Bytes(s.appended + 1) <= quota THEN [s EXCEPT !.pc = "appending"]
    ELSE IF s.tries = MaxTries THEN FailPump(s, "quota")
    ELSE LET t == [s EXCEPT !.tries = @ + 1] IN
         IF Prunable(t, TRUE) THEN Removing(t, TRUE, "quota")
         ELSE IF t.paused THEN FailPump(t, "quota") ELSE [t EXCEPT !.pc = "waitQuota"]

\* An await of the pump ends.
To(s) == ms' = s /\ UNCHANGED <<film, made>>
Listed ==
    /\ ms.pc = "listing" /\ (made.n > 0 \/ made.ended)
    /\ \E s \in {[ms EXCEPT !.listed = made.n, !.lend = made.ended]} :
          To(IF s.init THEN NextSegment(s)
             ELSE [s EXCEPT !.pc = "initializing", !.copied = @ /\ ~film.fallback])
Initialized ==
    /\ ms.pc = "initializing"
    /\ \E s \in {[ms EXCEPT !.init = TRUE]} : To(NextSegment(s))
Waited ==
    \/ ms.pc = "waitReserve" /\ To(Reserve(ms))
    \/ ms.pc = "waitRoom" /\ To(Room(ms))
    \/ ms.pc = "waitPoll" /\ To(Top(ms))
    \/ ms.pc = "waitQuota" /\ To(AppendTo(ms, ms.quota))
Got == ms.pc = "getting" /\ \E s \in {[ms EXCEPT !.tries = 0]} : To(AppendTo(s, ms.quota))
Appended ==
    /\ ms.pc = "appending"
    /\ \E n \in {ms.appended + 1} :
       \E grown \in {[ms EXCEPT !.appended = n, !.segs = @ \cup {n}, !.fresh = TRUE,
                                !.lo = IF ms.lo < ms.hi THEN @ ELSE StartOf(n), !.hi = EndOf(n)]} :
       \E s \in {applyPendingSeek(grown)} :
          To(IF Prunable(s, FALSE) THEN Removing(s, FALSE, "next") ELSE NextSegment(s))

\* remove takes what depends on the removed frames along; then reconcile.
Removed ==
    /\ ms.pc = "removing"
    /\ \E to \in {Least({r \in Raps : r >= ms.to} \cup {ms.hi})} :
       \E s \in {[ms EXCEPT !.lo = Most({@, Least({to, ms.hi})}), !.to = 0]} :
       \E t \in {[s EXCEPT !.segs = {i \in @ : Overlaps(s, i)}]} :
          To(CASE ms.back = "next" -> NextSegment(t)
               [] ms.back = "crowded" -> Crowded(t)
               [] ms.back = "last" -> IF Fits(t) THEN Get(t) ELSE FailPump(t, "resource_limit")
               [] ms.back = "quota" -> [t EXCEPT !.pc = "waitQuota"])

-----------------------------------------------------------------------------
(* The producer, the browser and the user; the player replaces a source     *)
(* whose pump failed.                                                       *)

Make ==
    /\ ms.pc # "failed" /\ made.n < Count /\ made' = [made EXCEPT !.n = @ + 1] /\ UNCHANGED <<film, ms>>
MakeEnd == ms.pc # "failed" /\ made.n = Count /\ ~made.ended /\ made' = [made EXCEPT !.ended = TRUE] /\ UNCHANGED <<film, ms>>

\* The browser's own collection: whole groups before the one being played.
Evict ==
    /\ ms.pc = "appending" /\ ms.lo < ms.hi /\ ms.lo < RapBefore(ms.pos) /\ Holds(ms, ms.pos)
    /\ To([ms EXCEPT !.lo = RapBefore(ms.pos)])

\* The decoder shows the picture that was sought.
Decodable(s, t) == Holds(s, t) /\ s.lo <= RapBefore(t) /\ s.hi >= Least({t + film.reorder, FilmEnd})
Seeked == ms.pc # "failed" /\ ms.seeking /\ Decodable(ms, ms.pos) /\ To(applyPendingSeek([ms EXCEPT !.seeking = FALSE]))

Tick ==
    /\ ms.pc # "failed" /\ ~ms.paused /\ ~ms.seeking /\ Holds(ms, ms.pos)
    /\ To([ms EXCEPT !.pos = @ + 1])

\* "play" wakes a pump that waits for it; #attemptPlay waits for a pending target.
PlayMedia ==
    /\ ms.pc # "failed" /\ ms.paused /\ ms.target = <<>>
    /\ LET s == [ms EXCEPT !.paused = FALSE]
       IN To(CASE s.pc = "waitTop" -> Top(s)
               [] s.pc = "waitSegment" -> Reserve(s)
               [] s.pc = "waitTail" -> IF s.fresh THEN Top(s) ELSE [s EXCEPT !.pc = "waitPoll"]
               [] OTHER -> s)
PauseMedia == ms.pc # "failed" /\ ~ms.paused /\ ms.pauses < MaxPauses /\ To([ms EXCEPT !.paused = TRUE, !.pauses = @ + 1])

\* seekTo within the buffer; a busy buffer is asked again by waitForSeek.
SeekInBuffer(t) ==
    /\ ms.seeks < MaxSeeks /\ canSeek(ms, t)
    /\ To([ms EXCEPT !.target = <<t>>, !.pos = t, !.seeking = TRUE, !.seeks = @ + 1])

MpInit ==
    /\ film \in Films /\ made = [n |-> 0, ended |-> FALSE]
    /\ \E q \in Quotas, paused \in BOOLEAN, target \in {<<>>} \cup {<<t>> : t \in 1..(FilmEnd - 1)} :
         /\ target # <<>> => paused
         /\ ms = [pc |-> "listing", listed |-> 0, lend |-> FALSE, appended |-> 0, fresh |-> FALSE,
                  init |-> FALSE, copied |-> film.copied, to |-> 0, back |-> "none", tries |-> 0,
                  why |-> "none", done |-> FALSE, quota |-> q, lo |-> 0, hi |-> 0, segs |-> {},
                  pos |-> 0, paused |-> paused, target |-> target, seeking |-> FALSE,
                  seeks |-> 0, pauses |-> 0]

PumpStep == Listed \/ Initialized \/ Waited \/ Got \/ Appended \/ Removed
MpNext ==
    \/ PumpStep \/ Make \/ MakeEnd \/ Evict \/ Seeked \/ Tick \/ PlayMedia \/ PauseMedia
    \/ \E t \in 0..(FilmEnd - 1) : SeekInBuffer(t)

\* The event loop, the producer, the decoder and the media clock go on.
MpFairness ==
    /\ WF_mpVars(PumpStep) /\ WF_mpVars(Make \/ MakeEnd)
    /\ WF_mpVars(Seeked) /\ WF_mpVars(Tick)
MpSpec == MpInit /\ [][MpNext]_mpVars /\ MpFairness

-----------------------------------------------------------------------------
(* Properties *)

\* What the buffer holds, fragments counted whole, stays within the budget,
\* whatever was pruned, sought or collected in between.
MemoryBounded == InBrowser(ms) <= BufferMax

\* The buffer never loses what the picture being sought depends on, nor what
\* plays next, to a prune that was computed for another position.
SeekPrerequisites ==
    /\ ms.seeking => ms.lo <= RapBefore(ms.pos)
    /\ ms.lo < ms.hi /\ ms.target = <<>> => ms.lo <= ms.pos

\* A paused seek ends though nobody presses play: the pump does not wait for
\* playback while playback waits for the seek.
PausedSeekCompletes == []<>(ms.target = <<>> \/ ms.pc = "failed")

\* A player that keeps playing is fed to the end.
PlayedToTheEnd == (<>[](~ms.paused)) => <>(ms.pc \in {"done", "failed"})

\* The pump gives up on its own budget only where a fragment does not fit next to the
\* group it is kept for, or where a decoder that has all it needs is slower to
\* finish its seek than the connection is to fill the budget.
Window(i) ==
    {j \in 1..i : EndOf(j) > RapBefore(Most({0, StartOf(i) - Behind - film.reorder}))}
RefusesOnlyWhatCannotFit ==
    ms.why = "resource_limit" =>
        \/ \E i \in 1..Count : BytesOf(Window(i)) > BufferMax
        \/ ms.seeking /\ Decodable(ms, ms.pos)

\* The pump stays within the browser's memory without dropping what the seek
\* or the playhead needs, and gives up only on what cannot fit.
PumpSafe == MemoryBounded /\ SeekPrerequisites /\ RefusesOnlyWhatCannotFit

=============================================================================
