----------------------------- MODULE WebPlayer ------------------------------
(* The playback controller of the web application (web/player.js with its   *)
(* source selection and recovery rules).  Event handlers run to completion, *)
(* so a handler is one step; what it awaits (negotiation, status answers,   *)
(* play(), a buffered seek) and its timers are outstanding work in the      *)
(* state, answered in any order.  Cancelling a source aborts its signal:    *)
(* what it still awaits is dropped with it.  Positions are small numbers in *)
(* two-position segments; a playback session number is only compared, so it *)
(* is kept modulo 2.                                                        *)
EXTENDS Integers, Sequences, FiniteSets

CONSTANTS
    Envs,        \* browsers: [dev, mse, hdr, hevcRepair, hevcCopy]
    Probes,      \* stream negotiations the browser's probes can lead to
    Dur,         \* the title ends here; positions are 0..Dur
    Starts,      \* positions a title is opened at
    MaxRetries,  \* nextCompatibleRetry: 3
    MaxBusy,     \* the admission window, in busy retries (5 min in the code)
    MaxReloads,  \* MAX_COMPATIBLE_SOURCE_RELOADS
    MaxActs      \* user actions, refreshes and healthy intervals

VARIABLES
    env,    \* the browser and its capabilities
    wp,     \* the controller: see WpInit
    acts,   \* what the user and the library did so far
    wanted  \* ghost: position last asked for or played

wpVars == <<env, wp, acts, wanted>>

NoPos == 0 - 1
Preparing == {"loading", "waiting", "seeking"}
Seg(p) == 2 * (p \div 2)

\* A stream negotiation: video and audio treatment, and the encoded output.
NoNego == [v |-> "none", a |-> "none", out |-> "h264"]
Negos == [v : {"copy", "repair"}, a : {"copy", "transcode"}, out : {"h264"}]
         \cup [v : {"transcode"}, a : {"copy", "transcode"}, out : {"h264", "hdr"}]

\* A title has a length, probing the browser decides on streams, and the
\* allowances are numbers.
ASSUME PlayerAssumption ==
    /\ Dur \in Nat /\ Starts \subseteq 0..Dur /\ Probes \subseteq Negos
    /\ MaxRetries \in Nat /\ MaxBusy \in Nat /\ MaxReloads \in Nat /\ MaxActs \in Nat

NoSrc == [on |-> FALSE, mode |-> "none", start |-> 0, nego |-> NoNego, q |-> "none",
          mse |-> FALSE, native |-> FALSE, negotiating |-> FALSE, force |-> "none",
          retry |-> FALSE, reloads |-> 0, startup |-> FALSE, rec |-> <<>>,
          wait |-> <<>>, epoch |-> TRUE, srv |-> "idle"]

NoPlayback == [item |-> FALSE, status |-> "idle", mode |-> "none", intent |-> "paused",
               time |-> 0, off |-> 0, pending |-> NoPos, nego |-> NoNego, q |-> "none"]

\* The media element: decoded position within the source, readiness.
Element0 == [local |-> 0, meta |-> FALSE, ready |-> FALSE, paused |-> TRUE]

\* initialCompatibleRecovery
Recovery0 == [n |-> 0, busy |-> 0, pend |-> "none"]

-----------------------------------------------------------------------------
\* What a load is asked for; the callers override what they force.
Options(start, intent) ==
    [start |-> start, intent |-> intent, force |-> "none", nego |-> NoNego,
     q |-> "none", retry |-> FALSE]

\* chooseSource: which delivery, and whether it is refused.
chooseSource(c, force) ==
    LET ask == IF force # "none" THEN force
               ELSE IF c.prefMode = "compat" THEN "compat"
               ELSE IF c.direct THEN "original" ELSE "any"
    IN  CASE ask = "original" -> [mode |-> "original", blocked |-> FALSE]
          [] ask = "compat" -> IF c.transcoding THEN [mode |-> "compat", blocked |-> FALSE]
                               ELSE [mode |-> "original", blocked |-> TRUE]
          [] OTHER -> [mode |-> IF c.transcoding THEN "compat" ELSE "original",
                       blocked |-> FALSE]

\* SourceSelector.prepare: a native HLS plan is complete at once.
prepare(c, o) ==
    LET sel == chooseSource(c, o.force)
        compat == sel.mode = "compat"
        native == compat /\ env.dev = "safari"
        q == IF ~compat THEN "none" ELSE IF o.q # "none" THEN o.q ELSE c.prefQ
        copies == native /\ o.nego = NoNego /\ env.hevcCopy /\ q = "auto"
    IN  [mode |-> sel.mode, blocked |-> sel.blocked, native |-> native, q |-> q,
         nego |-> IF ~compat THEN NoNego
                  ELSE IF o.nego # NoNego THEN o.nego
                  ELSE IF ~native THEN NoNego
                  ELSE IF copies THEN [v |-> "copy", a |-> "transcode", out |-> "h264"]
                  ELSE [v |-> "transcode", a |-> "transcode",
                        out |-> IF env.hdr THEN "hdr" ELSE "h264"]]

\* SourceSelector.#delivery: Media Source or a native loader, and what
\* Android's Media Source makes of the negotiated streams.
delivery(p) ==
    LET n == p.nego
        android == env.dev = "android" /\ p.mode = "compat"
        hdrType == n.out = "hdr" /\ env.hdr
        n1 == IF android /\ n.out = "hdr" /\ ~hdrType
              THEN [n EXCEPT !.v = "transcode", !.out = "h264"] ELSE n
        wrapped == android /\ (hdrType \/ env.mse)
        n2 == IF wrapped THEN [n1 EXCEPT !.v = IF @ = "copy" THEN "copy" ELSE "transcode",
                                         !.out = IF hdrType THEN "hdr" ELSE "h264"]
              ELSE n1
        copied == env.mse /\ env.dev = "desktop" /\ n2.v = "copy" /\ n2.a = "transcode"
        encoded == ~p.native /\ n2.v = "transcode"
                   /\ (IF n2.out = "hdr" THEN env.hdr ELSE env.mse)
    IN  [nego |-> n2, mse |-> p.mode = "compat" /\ (wrapped \/ copied \/ encoded),
         q |-> IF wrapped /\ n2.v # "copy" /\ ~hdrType /\ p.q = "auto" THEN "low" ELSE p.q]

\* negotiateCompatibleStreams: what probing the browser may decide.
negotiateCompatibleStreams(q) ==
    {n \in Probes : /\ (q # "auto" => n.v = "transcode")
                    /\ (n.out = "hdr" => env.hdr)}

-----------------------------------------------------------------------------
\* Mutant: the retry delay survives.
cancelSource_retryStays(c) ==
    [c EXCEPT !.src = NoSrc, !.pb.pending = NoPos, !.seekT = <<>>]

(* #cancelSource: the source's listeners, timers and requests are aborted,  *)
(* and the controller's own two timers are stopped.                         *)
cancelSource(c) ==
    [c EXCEPT !.src = NoSrc, !.pb.pending = NoPos, !.retryT = <<>>, !.seekT = <<>>]

NewSession(c) ==
    [c EXCEPT !.sess = 1 - @, !.enrich = FALSE, !.rec.pend = IF @ = "none" THEN "none" ELSE "old"]

\* Mutant: the source goes, the spinner stays.
failSource_silent(c) == IF ~c.src.on THEN c ELSE cancelSource(c)

\* #failSource: the terminal error, with nothing left running.
failSource(c) ==
    IF ~c.src.on THEN c
    ELSE [cancelSource(c) EXCEPT !.pb.status = "error", !.el.paused = TRUE]

\* #attemptPlay up to its await: play() unpauses the element.
attemptPlay(c) ==
    IF ~c.src.on \/ c.src.negotiating \/ (c.src.mse /\ c.pb.pending # NoPos) THEN c
    ELSE [c EXCEPT !.el.paused = FALSE]

\* The second half of #loadSource: PLAYBACK_SOURCE_READY, #attachSource.
attachSource(c) ==
    LET s == c.src
        d == delivery([nego |-> s.nego, q |-> s.q, mode |-> s.mode, native |-> s.native])
        compat == s.mode = "compat"
        src == [s EXCEPT
                  !.negotiating = FALSE, !.force = "none", !.nego = d.nego, !.q = d.q,
                  !.mse = d.mse,
                  !.startup = ~compat /\ c.prefMode = "auto" /\ c.transcoding]
        pb == [c.pb EXCEPT
                 !.nego = d.nego, !.q = d.q,
                 !.pending = IF compat /\ s.start > c.pb.off THEN s.start ELSE NoPos]
        c1 == [c EXCEPT !.src = src, !.pb = pb]
    IN  IF c1.pb.intent = "playing" THEN attemptPlay(c1) ELSE c1

\* #loadSource: replace the source.  Only an unforced plan of a non-native
\* browser has to wait for the capability probes.
loadSource(c, o) ==
    LET p == prepare(c, o)
        c0 == NewSession(cancelSource(c))
        off == IF p.mode = "compat" THEN Seg(o.start) ELSE 0
        c1 == [c0 EXCEPT
                 !.susp = FALSE, !.el = Element0,
                 !.src = [NoSrc EXCEPT !.on = TRUE, !.mode = p.mode, !.start = o.start,
                                       !.nego = p.nego, !.q = p.q, !.native = p.native,
                                       !.force = o.force, !.retry = o.retry,
                                       !.srv = IF o.retry THEN "producing" ELSE "idle",
                                       !.negotiating = TRUE],
                 !.pb = [NoPlayback EXCEPT !.item = TRUE, !.status = "loading", !.mode = p.mode,
                                           !.intent = o.intent, !.time = o.start, !.off = off,
                                           !.q = p.q]]
    IN  IF p.blocked THEN failSource(c1)
        ELSE IF p.mode = "compat" /\ p.nego = NoNego THEN c1
        ELSE attachSource(c1)

\* Mutant: the element's clock is always the title's.
globalTime_elementOnly(c) == IF c.src.on THEN c.pb.off + c.el.local ELSE c.pb.time

\* globalTime: where the title is, whatever the element shows meanwhile.
globalTime(c) ==
    IF c.src.wait # <<>> THEN c.src.wait[1]
    ELSE IF ~c.src.on THEN c.pb.time
    ELSE IF c.pb.pending # NoPos THEN c.pb.pending
    ELSE IF c.pb.mode = "compat"
            /\ (c.pb.status = "seeking"
                \/ (c.pb.status \in {"loading", "waiting"} /\ c.pb.time > c.pb.off /\ c.el.local = 0))
    THEN c.pb.time
    ELSE c.pb.off + c.el.local

\* JavaScript's "position || start".
Or(p, start) == IF p > 0 THEN p ELSE start

-----------------------------------------------------------------------------
\* admittedCompatibleRecovery, healthyCompatibleRecovery
admitted(r, st) ==
    IF st \in {"starting", "producing"} /\ r.pend = "none" THEN [r EXCEPT !.busy = 0]
    ELSE r
healthy(r) == IF r.pend = "none" THEN [r EXCEPT !.n = 0] ELSE r

\* Mutant: one more than the allowance.
nextCompatibleRetry_extra(r, busy) ==
    CASE r.pend = "this" -> <<r>>
      [] r.pend # "this" /\ busy ->
            IF r.busy >= MaxBusy THEN <<>> ELSE <<[r EXCEPT !.busy = @ + 1, !.pend = "this"]>>
      [] OTHER -> IF r.n > MaxRetries THEN <<>>
                  ELSE <<[n |-> r.n + 1, busy |-> 0, pend |-> "this"]>>

\* nextCompatibleRetry: <<>> when the allowance is spent.
nextCompatibleRetry(r, busy) ==
    CASE r.pend = "this" -> <<r>>
      [] r.pend # "this" /\ busy ->
            IF r.busy >= MaxBusy THEN <<>>
            ELSE <<[r EXCEPT !.busy = @ + 1, !.pend = "this"]>>
      [] OTHER -> IF r.n >= MaxRetries THEN <<>>
                  ELSE <<[n |-> r.n + 1, busy |-> 0, pend |-> "this"]>>

\* #scheduleCompatibleRetry: [did |-> whether recovery is under way, c |-> ...]
scheduleCompatibleRetry(c, start, intent, nego, busy) ==
    LET r == nextCompatibleRetry(c.rec, busy)
        target == Or(c.pb.time, start)
    IN  IF r = <<>> THEN [did |-> FALSE, c |-> c]
        ELSE IF r[1] = c.rec THEN [did |-> TRUE, c |-> c]
        ELSE [did |-> TRUE,
              c |-> [cancelSource(c) EXCEPT
                       !.rec = r[1], !.el = Element0, !.pb.status = "loading", !.pb.intent = intent,
                       !.retryT = <<[start |-> target, nego |-> nego, q |-> c.pb.q]>>]]

\* #fallbackNativeHlsCopy: a failed copy is re-encoded.
nativeHls(c) == c.pb.mode = "compat" /\ env.dev = "safari"
nativeCopyFails(c) == nativeHls(c) /\ c.pb.nego.v = "copy"
\* Mutant: re-encoding starts playing.
fallbackNativeHlsCopy_plays(c) ==
    loadSource(c, [Options(Or(globalTime(c), c.pb.time), "playing") EXCEPT
                     !.force = "compat", !.q = c.prefQ,
                     !.nego = [v |-> "transcode", a |-> "transcode", out |-> "h264"]])

fallbackNativeHlsCopy(c) ==
    loadSource(c, [Options(Or(globalTime(c), c.pb.time), c.pb.intent) EXCEPT
                     !.force = "compat", !.q = c.prefQ,
                     !.nego = [v |-> "transcode", a |-> "transcode",
                               out |-> IF env.hdr THEN "hdr" ELSE "h264"]])

\* Mutant: the one reconnection is offered again and again.
compatibleDecodeRecovery_again(c, code, st) ==
    LET n == c.src.nego IN
    IF code \in {3, 4} /\ c.src.mse /\ st = "producing" /\ n.v = "copy"
    THEN <<[nego |-> n, q |-> c.pb.q, retry |-> TRUE]>>
    ELSE <<>>

\* compatibleDecodeRecovery: the next plan of the codec ladder, or <<>>.
compatibleDecodeRecovery(c, code, st) ==
    LET n == c.src.nego
        q == IF c.pb.q # "none" THEN c.pb.q ELSE c.prefQ
        portable == [v |-> "transcode", a |-> "transcode", out |-> "h264"]
        step(n2, q2, r) == <<[nego |-> n2, q |-> q2, retry |-> r]>>
    IN  CASE code \notin {3, 4} -> <<>>
          [] code \in {3, 4} /\ c.src.mse /\ ~c.src.retry /\ st = "producing"
             /\ (n.v = "copy" \/ n.out = "hdr") -> step(n, q, TRUE)
          [] OTHER ->
             IF c.src.mse /\ env.hdr /\ n.v = "copy"
             THEN step([n EXCEPT !.v = "transcode", !.out = "hdr"], q, FALSE)
             ELSE IF n.out = "hdr" THEN step(portable, q, FALSE)
             ELSE IF ~c.src.mse /\ n.v = "transcode" /\ env.dev = "android" /\ env.mse
             THEN step(n, q, FALSE)
             ELSE IF n.v = "copy" \/ n.a = "copy" \/ (n.v = "repair" /\ env.hevcRepair)
             THEN step(portable, q, FALSE)
             ELSE IF n.a = "transcode" /\ q = "auto" /\ c.prefQ = "auto"
             THEN step(n, "low", FALSE)
             ELSE <<>>

\* #recoverSource up to its status request; a source recovers once at a time.
handleMediaError(c, code, net) ==
    IF ~c.src.on \/ c.src.rec # <<>> THEN c
    ELSE IF c.src.mode = "original" /\ c.prefMode = "auto" /\ c.transcoding
    THEN loadSource(c, [Options(Or(globalTime(c), c.src.start), c.pb.intent)
                          EXCEPT !.force = "compat"])
    ELSE [c EXCEPT !.src.rec = <<[code |-> code, net |-> net]>>]

\* #recoverSource after it, in the order of the code: wait or retry a
\* producer that is not there, retry a dropped transfer, re-encode a native
\* copy, step down the codec ladder, retry a live producer, give up.
recoverSource(c0, r, st, elementError) ==
    LET c == [c0 EXCEPT !.src.rec = <<>>, !.rec = admitted(@, st)]
        intent == c.pb.intent
        here == Or(globalTime(c), c.src.start)
        absent == st \in {"queued", "cancelled", "idle"} /\ (st = "queued" \/ r.code # 4)
        try1 == scheduleCompatibleRetry(c, c.src.start, intent, c.src.nego, st = "queued")
        try2 == scheduleCompatibleRetry(c, here, intent, c.src.nego, FALSE)
        net == r.net /\ ~elementError
        code == IF net THEN 3 ELSE r.code
        plan == compatibleDecodeRecovery(c, code, st)
    IN  CASE c.src.mode # "compat" -> failSource(c)
          [] c.src.mode = "compat" /\ absent /\ try1.did -> try1.c
          [] OTHER ->
             IF net /\ st \in {"offline", "starting", "producing"} /\ try2.did THEN try2.c
             ELSE IF net /\ st = "offline" THEN failSource(c)
             ELSE IF (code \in {3, 4} \/ st = "failed") /\ nativeCopyFails(c)
             THEN fallbackNativeHlsCopy(c)
             ELSE IF plan # <<>>
             THEN loadSource(c, [Options(here, intent) EXCEPT
                                   !.force = "compat", !.nego = plan[1].nego, !.q = plan[1].q,
                                   !.retry = plan[1].retry])
             ELSE IF code # 4 /\ st = "producing" /\ try2.did THEN try2.c
             ELSE failSource(c)

-----------------------------------------------------------------------------
Statuses == {"idle", "queued", "starting", "producing", "failed", "cancelled"}

Do(c) == wp' = c
User == acts < MaxActs /\ acts' = acts + 1
ByItself == UNCHANGED <<acts, env>>

WpInit ==
    /\ env \in Envs
    /\ wp \in [pb : {NoPlayback}, src : {NoSrc}, el : {Element0}, rec : {Recovery0},
               retryT : {<<>>}, seekT : {<<>>}, enrich : {FALSE}, sess : {0},
               susp : {FALSE}, hidden : {FALSE}, transcoding : {TRUE},
               direct : BOOLEAN, prefMode : {"auto"}, prefQ : {"auto"}]
    /\ acts = 0 /\ wanted = 0

-----------------------------------------------------------------------------
\* select, up to the enrichment it awaits.
SelectTitle ==
    /\ User
    /\ Do([NewSession(cancelSource([wp EXCEPT !.rec = Recovery0])) EXCEPT
             !.pb = [NoPlayback EXCEPT !.item = TRUE], !.el = Element0, !.enrich = TRUE])
    /\ wanted' = 0 /\ UNCHANGED env

\* select, after it: a saved or linked position starts there, unless something
\* else started a session meanwhile.
Enriched ==
    /\ wp.enrich
    /\ \E start \in Starts :
         Do(loadSource(wp, Options(start, "playing"))) /\ wanted' = start
    /\ ByItself

\* #finishPlayback
finishPlayback(c) ==
    [cancelSource(c) EXCEPT !.pb.status = "ended", !.pb.intent = "paused", !.pb.time = Dur,
                            !.el.paused = TRUE]

\* The restart of seekTo: the source goes, a debounce timer loads the next.
restartAt(c, target) ==
    [cancelSource(c) EXCEPT
       !.el = Element0, !.pb.time = target, !.pb.status = "seeking",
       !.seekT = <<[start |-> target, nego |-> c.pb.nego, q |-> c.pb.q]>>]
bufferedSeek(c, target) ==
    [c EXCEPT !.src.wait = <<>>, !.pb.time = target, !.pb.pending = target,
              !.pb.status = "seeking", !.seekT = <<>>]

\* sameSource in seekTo: the attached Media Source can serve the target.
reusable(c) == c.src.on /\ c.src.mse /\ c.el.ready /\ c.src.epoch
               /\ c.src.srv \notin {"idle", "cancelled", "failed"}

\* seekTo
SeekTo(target) ==
    /\ User /\ wp.pb.item
    /\ LET c == [wp EXCEPT !.rec = Recovery0, !.src.wait = <<>>] IN
       \/ target = Dur /\ Do(finishPlayback(c))
       \/ /\ target < Dur /\ ~c.src.on /\ c.pb.status # "seeking"
          /\ Do(loadSource(c, [Options(target, c.pb.intent) EXCEPT
                   !.force = IF c.pb.mode = "none" THEN "none" ELSE c.pb.mode,
                   !.nego = c.pb.nego, !.q = c.pb.q]))
       \/ /\ target < Dur /\ c.src.on /\ c.pb.mode = "original"
          /\ Do([c EXCEPT !.el.local = target, !.pb.time = target])
       \/ /\ target < Dur /\ c.pb.mode = "compat" /\ (c.src.on \/ c.pb.status = "seeking")
          /\ \/ reusable(c) /\ target >= c.pb.off /\ Do(bufferedSeek(c, target))
             \/ reusable(c) /\ target >= c.pb.off
                /\ Do([c EXCEPT !.src.wait = <<target>>])
             \/ Do(restartAt(c, target))
    /\ wanted' = IF target = Dur THEN 0 ELSE IF wp'.src.wait # <<>> THEN wanted ELSE target
    /\ UNCHANGED env

\* waitForSeek settled: the buffer covers the target by now, or it does not.
WaitedSeek ==
    /\ wp.src.wait # <<>>
    /\ LET c == [wp EXCEPT !.src.wait = <<>>]  t == wp.src.wait[1] IN
       \/ reusable(c) /\ Do(bufferedSeek(c, t))
       \/ Do(restartAt(c, t))
    /\ wanted' = wp.src.wait[1] /\ ByItself

SeekTimer ==
    /\ wp.seekT # <<>>
    /\ LET t == wp.seekT[1] IN
       Do(loadSource([wp EXCEPT !.seekT = <<>>],
                     [Options(t.start, wp.pb.intent) EXCEPT
                        !.force = "compat", !.nego = t.nego, !.q = t.q]))
    /\ ByItself /\ UNCHANGED wanted

RetryTimer ==
    /\ wp.retryT # <<>>
    /\ LET t == wp.retryT[1]
           c == [wp EXCEPT !.retryT = <<>>, !.rec.pend = IF @ = "this" THEN "none" ELSE @] IN
       Do(loadSource(c, [Options(t.start, wp.pb.intent) EXCEPT
                           !.force = "compat", !.nego = t.nego, !.q = t.q]))
    /\ ByItself /\ UNCHANGED wanted

\* #restartSuspendedNativeHls
suspended(c) == c.susp /\ ~c.hidden /\ nativeHls(c)
resumeSuspended(c) ==
    loadSource(c, [Options(c.pb.time, "playing") EXCEPT
                     !.force = "compat", !.nego = c.pb.nego, !.q = c.pb.q])

\* togglePlay, and the error banner's first action.
TogglePlay ==
    /\ User /\ wp.pb.item
    /\ LET c == [wp EXCEPT !.rec = Recovery0]
           pausing == wp.pb.status = "playing"
                      \/ (wp.pb.intent = "playing" /\ wp.pb.status \in Preparing) IN
       \/ /\ wp.pb.status = "ended"
          /\ Do(loadSource(c, [Options(0, "playing") EXCEPT !.force = wp.pb.mode]))
          /\ wanted' = 0
       \/ /\ wp.pb.status = "error"
          /\ Do(loadSource(c, [Options(wp.pb.time, "playing") EXCEPT
                                 !.force = wp.pb.mode, !.q = wp.pb.q]))
          /\ wanted' = wp.pb.time
       \/ /\ wp.pb.status \notin {"ended", "error"} /\ UNCHANGED wanted
          /\ Do(IF pausing THEN [wp EXCEPT !.pb.intent = "paused", !.el.paused = TRUE]
                ELSE IF suspended(wp) THEN resumeSuspended(wp)
                ELSE attemptPlay([wp EXCEPT !.pb.intent = "playing"]))
    /\ UNCHANGED env

\* #selectAudioTrack and #selectQuality; a quality preference bumps the
\* negotiation epoch.
SelectAudio ==
    /\ User /\ wp.pb.item /\ wp.transcoding
    /\ Do(loadSource(wp, [Options(globalTime(wp), wp.pb.intent) EXCEPT !.force = "compat"]))
    /\ wanted' = globalTime(wp) /\ UNCHANGED env

SelectQuality(q) ==
    /\ User /\ q # wp.prefQ
    /\ LET c == [wp EXCEPT !.prefQ = q, !.src.epoch = FALSE,
                           !.prefMode = IF q # "auto" THEN "compat" ELSE @] IN
       Do(IF wp.pb.item /\ (q # "auto" \/ wp.pb.mode = "compat")
          THEN loadSource(c, [Options(globalTime(c), wp.pb.intent) EXCEPT
                                !.force = IF q # "auto" THEN "compat" ELSE "none"])
          ELSE [c EXCEPT !.src = IF wp.src.on THEN @ ELSE NoSrc])
    /\ wanted' = IF wp.pb.item THEN globalTime(wp) ELSE wanted
    /\ UNCHANGED env

\* closePlayback
Close ==
    /\ User /\ wp.pb.item
    /\ Do([NewSession(cancelSource(wp)) EXCEPT !.rec = Recovery0, !.pb = NoPlayback,
             !.el = Element0, !.susp = FALSE])
    /\ wanted' = 0 /\ UNCHANGED env

\* The library's answer changes what the server can do.
CapabilitiesChange ==
    /\ User
    /\ Do([wp EXCEPT !.transcoding = ~@, !.src.epoch = IF wp.src.on THEN FALSE ELSE @])
    /\ UNCHANGED <<env, wanted>>

\* Visibility: native HLS is presumed suspended until it is seen running.
Visibility ==
    /\ User
    /\ \E kept \in BOOLEAN :
         Do([wp EXCEPT !.hidden = ~@,
                       !.susp = IF ~wp.hidden THEN (@ \/ nativeHls(wp))
                                ELSE @ /\ ~(kept /\ wp.src.on /\ ~wp.el.paused)])
    /\ UNCHANGED <<env, wanted>>

-----------------------------------------------------------------------------
\* The await of #loadSource: streams negotiated, unless the capabilities
\* they were negotiated for have changed.
Negotiated ==
    /\ wp.src.on /\ wp.src.negotiating
    /\ \/ /\ wp.src.epoch
          /\ \E n \in negotiateCompatibleStreams(wp.src.q) :
               Do(attachSource([wp EXCEPT !.src.nego = n]))
       \/ /\ ~wp.src.epoch
          /\ Do(loadSource(wp, [Options(wp.src.start, wp.pb.intent) EXCEPT
                                  !.force = wp.src.force,
                                  !.q = IF wp.src.q = "auto" THEN "none" ELSE wp.src.q]))
    /\ ByItself /\ UNCHANGED wanted

Attached == wp.src.on /\ ~wp.src.negotiating
\* A media element in error, or stalled, reports nothing but that.
Alive == Attached /\ (wp.src.rec # <<>> => wp.src.rec[1].net)

\* The generation's producer as the server reports it (RemuxJobs), when
\* asked; a reattachment adopts the producer of the source it replaces.  The
\* controller treats "ready" as "producing".
Reports(st) ==
    CASE st = "idle" -> {"idle", "queued", "starting", "producing"}
      [] st = "queued" -> {"queued", "starting", "cancelled"}
      [] st = "starting" -> {"starting", "producing", "failed"}
      [] st = "producing" -> {"producing", "failed", "cancelled"}
      [] OTHER -> {st}
Answers == Reports(wp.src.srv) \cup {"offline"}
\* What the source remembers of an answer.
heard(c, st) == IF st = "offline" THEN c ELSE [c EXCEPT !.src.srv = st]

\* #scheduleCompatibleStartupRecovery, armed by a poll of a source whose
\* element shows nothing.
needsStartup(c) == ~c.src.startup /\ ~(c.el.ready /\ c.pb.pending = NoPos)

\* #pollTranscodeState: one answer.
Poll ==
    /\ Attached /\ wp.src.mode = "compat" /\ wp.pb.status \notin {"ended", "error"}
    /\ \E st \in Answers :
       LET preparing == wp.pb.status \in Preparing
           c == [heard(wp, st) EXCEPT !.rec = admitted(@, st)]
           try == scheduleCompatibleRetry(c, c.pb.time, c.pb.intent, c.pb.nego, FALSE) IN
       Do(CASE st = "offline" -> IF preparing THEN failSource(c) ELSE c
            [] st = "failed" ->
                 IF nativeCopyFails(c) THEN fallbackNativeHlsCopy(c) ELSE failSource(c)
            [] st = "cancelled" -> IF try.did THEN try.c ELSE failSource(c)
            [] OTHER ->
                 LET c1 == IF preparing /\ st \in {"queued", "starting", "producing"}
                           THEN [c EXCEPT !.pb.status = "loading"] ELSE c
                 IN  IF preparing /\ ~c.src.mse /\ st = "producing" /\ needsStartup(c)
                     THEN [c1 EXCEPT !.src.startup = TRUE] ELSE c1)
    /\ ByItself /\ UNCHANGED wanted

\* The status request of a recovery is answered.
Recovered ==
    /\ wp.src.on /\ wp.src.rec # <<>>
    /\ \E st \in Answers, elementError \in {FALSE, wp.src.rec[1].net} :
         Do(recoverSource(heard(wp, st), wp.src.rec[1], st, elementError))
    /\ wanted' = IF wp.src.wait # <<>> THEN wp'.pb.time ELSE wanted
    /\ ByItself

\* The startup timer of an original (#scheduleOriginalBufferRecovery) or of
\* a native compatible source.
OriginalStall(c) ==
    IF c.prefMode = "auto" /\ c.transcoding /\ c.pb.intent = "playing" /\ c.pb.status \in Preparing
    THEN loadSource(c, [Options(Or(Or(c.pb.time, globalTime(c)), c.src.start), c.pb.intent) EXCEPT
                          !.force = "compat", !.q = "low"])
    ELSE c
CompatibleStall(c) ==
    LET here == Or(c.pb.time, c.src.start) IN
    IF c.pb.status \notin Preparing \/ (c.el.ready /\ c.pb.pending = NoPos) THEN c
    ELSE IF nativeCopyFails(c) THEN fallbackNativeHlsCopy(c)
    ELSE IF c.src.nego.v = "transcode" /\ env.dev = "android" /\ env.mse
    THEN loadSource(c, [Options(here, c.pb.intent) EXCEPT
                          !.force = "compat", !.nego = c.src.nego, !.q = c.pb.q])
    ELSE IF c.src.reloads >= MaxReloads
    THEN scheduleCompatibleRetry(c, here, c.pb.intent, c.src.nego, FALSE).c
    ELSE [c EXCEPT !.src.reloads = @ + 1, !.pb.status = "loading", !.el = [Element0 EXCEPT !.paused = c.el.paused]]

StartupTimer ==
    /\ wp.src.on /\ wp.src.startup
    /\ LET c == [wp EXCEPT !.src.startup = FALSE] IN
       Do(IF c.src.mode = "original" THEN OriginalStall(c) ELSE CompatibleStall(c))
    /\ ByItself /\ UNCHANGED wanted

-----------------------------------------------------------------------------
\* applyPendingSeek: the requested position becomes the element's.
settled(c) == [c EXCEPT !.el.local = IF c.pb.pending = NoPos THEN @ ELSE c.pb.pending - c.pb.off,
                        !.pb.pending = NoPos]

\* loadedmetadata: an original moves to its start; a prepared stream has its
\* position pending already.
Metadata ==
    /\ Alive /\ wp.src.mode = "original" /\ ~wp.el.meta
    /\ LET s == wp.src.start IN
       Do([wp EXCEPT !.el.meta = TRUE, !.pb.time = s, !.el.local = IF s > 0 THEN s ELSE @])
    /\ wanted' = wp.src.start /\ ByItself

\* canplay, seeked and loadeddata: readyToPlay.
CanPlay ==
    /\ Alive /\ (wp.el.meta \/ wp.src.mode = "compat")
    /\ LET c == [settled(wp) EXCEPT !.el.ready = TRUE,
                                    !.src.startup = IF wp.src.mode = "compat" THEN FALSE ELSE @] IN
       Do(IF ~c.el.paused THEN [c EXCEPT !.pb.status = "playing", !.pb.intent = "playing"]
          ELSE LET c1 == [c EXCEPT !.pb.status = "paused"] IN
               IF c.pb.intent = "playing" THEN attemptPlay(c1) ELSE c1)
    /\ ByItself /\ UNCHANGED wanted

\* playing
Playing ==
    /\ Alive /\ wp.el.ready /\ ~wp.el.paused
    /\ wp.src.mse \/ wp.pb.pending = NoPos
    /\ Do([wp EXCEPT !.pb.status = "playing", !.pb.intent = "playing", !.src.startup = FALSE,
                     !.susp = @ /\ wp.hidden])
    /\ ByItself /\ UNCHANGED wanted

\* play() rejected: autoplay policy, or a failing element.
PlayRejected ==
    /\ Alive /\ ~wp.el.paused /\ wp.pb.status # "playing"
    /\ LET c == [wp EXCEPT !.el.paused = TRUE] IN
       \/ Do([c EXCEPT !.pb.status = "paused", !.pb.intent = "paused"])
       \/ Do(handleMediaError(c, 4, FALSE))
    /\ ByItself /\ UNCHANGED wanted

\* The platform pauses the element; hidden pages keep the user's intent.
PlatformPause ==
    /\ Alive /\ ~wp.el.paused /\ wp.pb.status = "playing"
    /\ Do([wp EXCEPT !.el.paused = TRUE, !.pb.status = "paused",
                     !.pb.intent = IF wp.hidden THEN @ ELSE "paused"])
    /\ ByItself /\ UNCHANGED wanted

\* waiting
Buffering ==
    /\ Alive /\ wp.pb.status = "playing"
    /\ Do([wp EXCEPT !.pb.status = "waiting",
                     !.src.startup = @ \/ (wp.src.mode = "original" /\ wp.prefMode = "auto"
                                           /\ wp.transcoding)])
    /\ ByItself /\ UNCHANGED wanted

\* timeupdate: the title advances.
TimeUpdate ==
    /\ Alive /\ wp.el.ready /\ ~wp.el.paused /\ wp.pb.pending = NoPos
    /\ wp.pb.off + wp.el.local < Dur
    /\ LET t == wp.pb.off + wp.el.local + 1 IN
       /\ Do([wp EXCEPT !.el.local = @ + 1, !.pb.time = t])
       /\ wanted' = t
    /\ ByItself

\* ended: a real end, or a resource that ran out early.
Ended ==
    /\ Alive /\ wp.el.ready /\ ~wp.el.paused
    /\ LET early == wp.src.mode = "compat" /\ globalTime(wp) < Dur IN
       Do(IF early THEN handleMediaError(wp, 3, FALSE) ELSE finishPlayback(wp))
    /\ ByItself /\ UNCHANGED wanted

\* error, a failed fetch or append, a Media Source deadline.
MediaError ==
    /\ Attached /\ wp.src.rec = <<>> /\ wp.pb.status \notin {"ended", "error"}
    /\ \/ \E code \in {3, 4} : Do(handleMediaError(wp, code, FALSE))
       \/ wp.src.mse /\ Do(handleMediaError(wp, 2, TRUE))
       \/ /\ wp.src.mse /\ ~wp.hidden
          /\ wp.pb.intent = "playing" \/ wp.pb.pending # NoPos
          /\ Do(handleMediaError(wp, 3, FALSE))
    /\ ByItself /\ UNCHANGED wanted

\* onHealthy: thirty seconds of decoded progress renew the allowance.
Healthy ==
    /\ User
    /\ Attached /\ wp.src.mode = "compat" /\ wp.pb.status = "playing" /\ wp.pb.intent = "playing"
    /\ wp.src.rec = <<>> /\ wp.pb.pending = NoPos /\ wp.el.ready /\ ~wp.hidden
    /\ Do([wp EXCEPT !.rec = healthy(@), !.src.retry = FALSE])
    /\ UNCHANGED <<env, wanted>>

UserNext ==
    \/ SelectTitle \/ (\E t \in 0..Dur : SeekTo(t)) \/ TogglePlay \/ SelectAudio
    \/ (\E q \in {"auto", "low"} : SelectQuality(q)) \/ Close \/ CapabilitiesChange
    \/ Visibility \/ Healthy

WpNext ==
    \/ UserNext \/ Enriched \/ WaitedSeek \/ SeekTimer \/ RetryTimer \/ Negotiated
    \/ Poll \/ Recovered \/ StartupTimer
    \/ Metadata \/ CanPlay \/ Playing \/ PlayRejected \/ PlatformPause \/ Buffering
    \/ TimeUpdate \/ Ended \/ MediaError

WpSpec == WpInit /\ [][WpNext]_wpVars

-----------------------------------------------------------------------------
WpTypeOK ==
    /\ wp.pb.status \in {"idle", "ended", "error", "paused", "playing"} \cup Preparing
    /\ wp.pb.mode \in {"none", "original", "compat"}
    /\ wp.pb.time \in 0..Dur /\ wp.pb.pending \in {NoPos} \cup 0..Dur
    /\ wp.src.srv \in Statuses /\ wp.src.nego \in Negos \cup {NoNego}
    /\ wp.rec.n \in 0..MaxRetries /\ wp.rec.busy \in 0..MaxBusy

Drivers == {d \in {"source", "retry", "seek"} :
              CASE d = "source" -> wp.src.on [] d = "retry" -> wp.retryT # <<>>
                [] OTHER -> wp.seekT # <<>>}

(* Playback has one driver: an attached or negotiating source, a retry      *)
(* delay or a seek debounce (player.js #source, #retryTimer, #seekTimer),   *)
(* never two, so no load is started behind another's back.                  *)
OneDriver == Cardinality(Drivers) <= 1

(* The spinner always has something behind it: while the player says        *)
(* loading, waiting or seeking, a source, a retry or a seek is under way,   *)
(* and when it has stopped, finished or failed nothing runs in the          *)
(* background (player.js 1877-1931, 3028-3060).                             *)
SpinnerIsDriven ==
    /\ wp.pb.status \in Preparing => Drivers # {}
    /\ wp.pb.status \in {"error", "ended"} \/ ~wp.pb.item => Drivers = {}

Replaced == wp'.sess # wp.sess /\ wp'.src.on
\* Neither the user, nor the rest of what the user started.
Automatic == acts' = acts /\ ~wp.enrich /\ wp.src.wait = <<>>

(* Automatic recovery ends: unless the user, the library or sustained       *)
(* decoded progress intervenes, sources are replaced only finitely often    *)
(* whatever the browser and the server answer (core.js 1125-1170, 1228-1271).*)
RecoveryEnds == <>[][~(Replaced /\ Automatic)]_wpVars

(* Recovery never changes the user's mind: a source replaced by a fallback, *)
(* retry, timer or renegotiation carries the intent of that moment, also    *)
(* when Pause was pressed while an answer was outstanding                   *)
(* (player.js 2018, 2050, 1926).                                            *)
IntentKept ==
    Automatic /\ (Replaced \/ wp'.retryT # wp.retryT) => wp'.pb.intent = wp.pb.intent

(* Recovery resumes where the title was: every automatic replacement, and   *)
(* every retry it schedules, starts at the position last sought or played   *)
(* (player.js 374-396, 1900, 2086), positions beyond the start of the title.*)
PositionKept ==
    Automatic /\ wanted > 0
      => /\ (Replaced => wp'.src.start = wanted)
         /\ (wp'.retryT # wp.retryT /\ wp'.retryT # <<>> => wp'.retryT[1].start = wanted)

\* What the player does by itself never costs the viewer what they chose: play
\* or pause, and the position.
ViewerKept == [][IntentKept /\ PositionKept]_wpVars

\* While the player shows that it is preparing, exactly one thing is under way
\* that will end it, and nothing runs behind a stopped player.
PlayerDriven == WpTypeOK /\ OneDriver /\ SpinnerIsDriven

=============================================================================
