-------------------------- MODULE WebPlayer_proofs ---------------------------
(***************************************************************************)
(* Proofs about WebPlayer for any browsers, probes, starting positions and *)
(* allowances.  The handlers are compositions of functions on the          *)
(* controller, so what they keep is said of a controller: Sane relates its *)
(* source, timers, status and positions, Placed(c, w) says where it would  *)
(* resume when the viewer is at w.                                         *)
(***************************************************************************)
EXTENDS WebPlayer, FiniteSetTheorems, TLAPS

Opt(S) == {<<>>} \cup {<<x>> : x \in S}
Places == 0..Dur
Modes == {"none", "original", "compat"}
Intents == {"playing", "paused"}
Qualities == {"none", "auto", "low"}
Plans == Negos \cup {NoNego}
Timers == [start : Places, nego : Plans, q : Qualities]
Sources ==
  [on : BOOLEAN, mode : Modes, start : Places, nego : Plans, q : Qualities, mse : BOOLEAN,
   native : BOOLEAN, negotiating : BOOLEAN, force : Modes, retry : BOOLEAN, reloads : Int,
   startup : BOOLEAN, rec : Opt([code : 2..4, net : BOOLEAN]), wait : Opt(Places),
   epoch : BOOLEAN, srv : Statuses]
Playbacks ==
  [item : BOOLEAN, status : {"idle", "ended", "error", "paused", "playing"} \cup Preparing,
   mode : Modes, intent : Intents, time : Places, off : Places, pending : {NoPos} \cup Places,
   nego : Plans, q : Qualities]
Elements == [local : Places, meta : BOOLEAN, ready : BOOLEAN, paused : BOOLEAN]
Recoveries == [n : 0..MaxRetries, busy : 0..MaxBusy, pend : {"none", "this", "old"}]
Controllers ==
  [pb : Playbacks, src : Sources, el : Elements, rec : Recoveries, retryT : Opt(Timers),
   seekT : Opt(Timers), enrich : BOOLEAN, sess : 0..1, susp : BOOLEAN, hidden : BOOLEAN,
   transcoding : BOOLEAN, direct : BOOLEAN, prefMode : {"auto", "compat"}, prefQ : {"auto", "low"}]

\* One driver, and none behind a player that stopped.
Driven(c) ==
  /\ c.src.on => c.pb.item /\ c.retryT = <<>> /\ c.seekT = <<>> /\ c.pb.status \notin {"idle", "error", "ended"}
  /\ c.retryT # <<>> \/ c.seekT # <<>> =>
       c.pb.item /\ c.pb.mode = "compat" /\ c.pb.status \in {"loading", "seeking"}
  /\ c.retryT = <<>> \/ c.seekT = <<>>
  /\ c.pb.status \in Preparing => c.src.on \/ c.retryT # <<>> \/ c.seekT # <<>>
  /\ c.pb.status \in {"paused", "playing"} => c.src.on
  /\ c.pb.status = "idle" => c.pb.mode = "none"
  /\ c.enrich => ~c.src.on /\ c.retryT = <<>> /\ c.seekT = <<>>

\* A source that is gone awaits nothing; what an attached one awaits.
Attends(c) ==
  /\ ~c.src.on => c.src.wait = <<>> /\ c.src.rec = <<>> /\ c.pb.pending = NoPos /\ ~c.src.negotiating
  /\ c.src.on => c.src.mode = c.pb.mode /\ c.pb.mode # "none"
  /\ c.src.negotiating => c.src.rec = <<>> /\ c.src.wait = <<>> /\ c.pb.pending = NoPos
                          /\ c.pb.mode = "compat" /\ c.pb.status = "loading" /\ ~c.src.mse
                          /\ c.src.start = c.pb.time /\ c.el = Element0 /\ ~c.src.startup
                          /\ (env.dev = "safari" => c.src.native)
  /\ c.src.wait # <<>> => c.src.mse /\ c.src.wait[1] >= c.pb.off
  /\ c.src.mse => c.src.on /\ c.pb.mode = "compat" /\ env.dev # "safari" /\ ~c.src.startup

\* The positions agree: those of a prepared source with its clock.
Positioned(c) ==
  /\ c.pb.off + c.el.local <= Dur
  /\ c.pb.mode = "original" => c.pb.off = 0 /\ c.pb.pending = NoPos
  /\ c.src.on /\ c.pb.mode = "original" => c.el.local = 0 \/ c.pb.time \in {0, c.el.local}
  /\ c.src.on /\ c.pb.mode = "compat" =>
       /\ c.pb.time >= c.pb.off
       /\ c.pb.pending \in {NoPos, c.pb.time}
       /\ ~c.el.ready => c.el.local = 0
       /\ ~c.src.negotiating /\ c.pb.pending = NoPos => c.pb.time = c.pb.off + c.el.local
       /\ c.pb.status = "seeking" => c.pb.pending # NoPos

Sane(c) == c \in Controllers /\ Driven(c) /\ Attends(c) /\ Positioned(c)

\* Whatever drives the player resumes at w, the position last asked for or
\* played, unless that is the start of the title.
Placed(c, w) ==
  w > 0 =>
    /\ c.pb.mode = "compat" /\ (c.src.on \/ c.retryT # <<>> \/ c.seekT # <<>>) => c.pb.time = w
    /\ c.retryT # <<>> => c.retryT[1].start = w
    /\ c.seekT # <<>> => c.seekT[1].start = w
    /\ c.src.on /\ c.pb.mode = "original" =>
         /\ c.pb.time \in {0, w} /\ c.el.local \in {0, w}
         /\ c.pb.time = 0 => c.el.local = w
         /\ c.el.local = 0 => c.src.start = w

PlayerInv == Sane(wp) /\ Placed(wp, wanted) /\ wanted \in Places /\ acts \in Nat /\ env \in Envs

-----------------------------------------------------------------------------
(* What the functions on a controller return.                              *)

Loads == [start : Places, intent : Intents, force : Modes, nego : Plans, q : Qualities, retry : BOOLEAN]

\* A position or its default is a position.
LEMMA Or_Places == ASSUME NEW p \in Places, NEW s \in Places PROVE Or(p, s) \in Places
BY DEF Or

\* The segment a position is in begins within the title, and not after it.
LEMMA Seg_Places ==
  ASSUME NEW p \in Places
  PROVE  Seg(p) \in Places /\ Seg(p) <= p
BY PlayerAssumption DEF Seg, Places

\* No source at all is a source.
LEMMA NoSrc_Source == NoSrc \in Sources
<1>1. NoNego \in Plans
  BY DEF Plans
<1> QED BY <1>1, PlayerAssumption DEF NoSrc, Sources, Opt, Places, Modes, Qualities, Statuses

\* The media element as #resetMediaElement leaves it.
LEMMA Element0_Element == Element0 \in Elements
BY PlayerAssumption DEF Element0, Elements, Places

\* A source goes with its timers.
LEMMA CancelShape ==
  ASSUME NEW c \in Controllers
  PROVE  /\ cancelSource(c) \in Controllers
         /\ cancelSource(c) = [c EXCEPT !.src = NoSrc, !.pb = [c.pb EXCEPT !.pending = NoPos],
                                        !.retryT = <<>>, !.seekT = <<>>]
         /\ [c.pb EXCEPT !.pending = NoPos] \in Playbacks
<1>1. c.pb \in Playbacks
  BY DEF Controllers
<1>2. [c.pb EXCEPT !.pending = NoPos] \in Playbacks
  BY <1>1 DEF Playbacks
<1>3. cancelSource(c) = [c EXCEPT !.src = NoSrc, !.pb = [c.pb EXCEPT !.pending = NoPos],
                                        !.retryT = <<>>, !.seekT = <<>>]
  BY DEF cancelSource, Controllers
<1>4. <<>> \in Opt(Timers)
  BY DEF Opt
<1> HIDE DEF NoSrc
<1> QED BY <1>2, <1>3, <1>4, NoSrc_Source DEF Controllers

\* A source that was loaded and is not attached yet.
Unattached(c) ==
  /\ c \in Controllers /\ c.src.on /\ c.src.negotiating /\ c.src.mode = c.pb.mode
  /\ \/ c.pb.mode = "original" /\ c.pb.off = 0
     \/ c.pb.mode = "compat" /\ c.src.nego \in Negos /\ c.pb.off <= c.pb.time
        /\ (env.dev = "safari" => c.src.native)
  /\ c.pb.item /\ c.pb.status = "loading" /\ c.pb.pending = NoPos
  /\ c.retryT = <<>> /\ c.seekT = <<>> /\ ~c.enrich /\ c.src.rec = <<>> /\ c.src.wait = <<>>
  /\ c.src.start = c.pb.time /\ c.el = Element0 /\ ~c.src.startup /\ ~c.src.mse

\* A controller that resumes at t with intent i, if it does not give up.
Resumed(d, t, i) ==
  /\ Sane(d) /\ d.pb.intent = i /\ d.pb.time = t /\ d.src.wait = <<>>
  /\ d.retryT = <<>> /\ d.seekT = <<>> /\ d.el.local = 0
  /\ d.src.on => d.src.start = t

\* What the selector makes of a delivery: a plan is kept or replaced by one.
LEMMA DeliveryTyped ==
  ASSUME NEW p, p.nego \in Plans, p.q \in Qualities, p.mode \in Modes
  PROVE  /\ p.nego \in Negos => delivery(p).nego \in Negos
         /\ p.mode # "compat" => delivery(p).nego = p.nego
         /\ delivery(p).q \in Qualities /\ delivery(p).mse \in BOOLEAN
         /\ delivery(p).mse => p.mode = "compat" /\ (env.dev = "safari" => ~p.native)
<1>1. p.mode # "compat" => delivery(p).nego = p.nego
  BY DEF delivery
<1>2. delivery(p).q \in Qualities
  <2>1. delivery(p).q = p.q \/ delivery(p).q = "low"
    BY Zenon DEF delivery
  <2> QED BY <2>1 DEF Qualities
<1>2a. delivery(p).mse \in BOOLEAN
  BY Zenon DEF delivery
<1>3. delivery(p).mse => p.mode = "compat" /\ (env.dev = "safari" => ~p.native)
  BY Zenon DEF delivery
<1>4. ASSUME p.nego \in Negos PROVE delivery(p).nego \in Negos
  BY <1>4 DEF delivery, Negos
<1> QED BY <1>1, <1>2, <1>2a, <1>3, <1>4

\* #attachSource leaves a player that resumes where its source starts.
LEMMA AttachResumes ==
  ASSUME NEW c, Unattached(c)
  PROVE  /\ Resumed(attachSource(c), c.pb.time, c.pb.intent) /\ attachSource(c).src.on
         /\ attachSource(c).sess = c.sess
<1> DEFINE s == c.src
           e == delivery([nego |-> s.nego, q |-> s.q, mode |-> s.mode, native |-> s.native])
           src == [s EXCEPT !.negotiating = FALSE, !.force = "none", !.nego = e.nego, !.q = e.q,
                            !.mse = e.mse,
                            !.startup = ~(s.mode = "compat") /\ c.prefMode = "auto" /\ c.transcoding]
           pb == [c.pb EXCEPT !.nego = e.nego, !.q = e.q,
                              !.pending = IF s.mode = "compat" /\ s.start > c.pb.off THEN s.start ELSE NoPos]
           d1 == [c EXCEPT !.src = src, !.pb = pb]
<1>1. c.src \in Sources /\ c.pb \in Playbacks /\ c.el \in Elements
  BY DEF Unattached, Controllers
<1>2. s.nego \in Plans /\ s.q \in Qualities /\ s.mode \in Modes /\ s.start \in Places /\ c.pb.off \in Places
  BY <1>1 DEF Sources, Playbacks
<1>3. /\ e.nego \in Plans /\ e.q \in Qualities /\ e.mse \in BOOLEAN
      /\ e.mse => s.mode = "compat" /\ env.dev # "safari"
  BY <1>2, DeliveryTyped DEF Unattached, Plans
<1> HIDE DEF e
<1>4. src \in Sources /\ pb \in Playbacks
  <2>1. src \in Sources
    BY <1>1, <1>3 DEF Sources, Modes
  <2>2. pb \in Playbacks
    BY <1>1, <1>2, <1>3 DEF Playbacks
  <2> QED BY <2>1, <2>2
<1>5. /\ src.on /\ src.mode = s.mode /\ src.start = s.start /\ src.rec = <<>> /\ src.wait = <<>>
      /\ ~src.negotiating /\ src.mse = e.mse /\ (src.startup => s.mode # "compat")
  BY <1>1 DEF Sources, Unattached
<1>6. /\ pb.item /\ pb.mode = c.pb.mode /\ pb.status = "loading" /\ pb.intent = c.pb.intent
      /\ pb.time = c.pb.time /\ pb.off = c.pb.off
      /\ pb.pending = IF s.mode = "compat" /\ s.start > c.pb.off THEN s.start ELSE NoPos
  BY <1>1 DEF Playbacks, Unattached
<1>7. attachSource(c) = IF c.pb.intent = "playing" THEN attemptPlay(d1) ELSE d1
  <2>1. d1.pb.intent = c.pb.intent
    BY <1>6 DEF Unattached, Controllers
  <2> QED BY <2>1 DEF attachSource, e
<1> HIDE DEF src, pb
<1>8. ASSUME NEW el \in Elements, el.local = 0, ~el.ready, NEW d, d = [d1 EXCEPT !.el = el]
      PROVE  Resumed(d, c.pb.time, c.pb.intent) /\ d.src.on /\ d.sess = c.sess
  <2>1. /\ d \in Controllers /\ d.src = src /\ d.pb = pb /\ d.el = el /\ d.retryT = <<>> /\ d.seekT = <<>>
        /\ ~d.enrich /\ d.sess = c.sess
    BY <1>4, <1>8 DEF Unattached, Controllers
  <2>2. Driven(d)
    BY <2>1, <1>5, <1>6 DEF Driven, Preparing
  <2>3. Attends(d)
    BY <2>1, <1>3, <1>5, <1>6 DEF Attends, Unattached
  <2>4. Positioned(d)
    <3>1. /\ c.pb.time \in Places /\ c.pb.off \in Places /\ s.start = c.pb.time /\ s.mode = c.pb.mode
          /\ s.mode = "original" => c.pb.off = 0
          /\ s.mode # "original" => s.mode = "compat" /\ c.pb.off <= c.pb.time
      BY <1>1, <1>2 DEF Unattached, Playbacks
    <3>2. \A p \in Places : p \in Nat /\ p <= Dur
      BY PlayerAssumption DEF Places
    <3> QED BY ONLY <3>1, <3>2, <2>1, <1>6, <1>8, PlayerAssumption DEF Positioned, NoPos, Preparing
  <2> QED BY <2>1, <2>2, <2>3, <2>4, <1>5, <1>6, <1>8 DEF Resumed, Sane, Unattached
<1>9. d1 = [d1 EXCEPT !.el = c.el] /\ c.el.local = 0 /\ ~c.el.ready
  <2>1. d1 \in Controllers /\ d1.el = c.el
    BY <1>4 DEF Unattached, Controllers
  <2>2. d1 = [d1 EXCEPT !.el = d1.el]
    BY ONLY <2>1 DEF Controllers
  <2>3. c.el.local = 0 /\ ~c.el.ready
    BY DEF Unattached, Element0
  <2> QED BY ONLY <2>1, <2>2, <2>3
<1>10. attemptPlay(d1) = d1 \/ attemptPlay(d1) = [d1 EXCEPT !.el = [c.el EXCEPT !.paused = FALSE]]
  BY DEF attemptPlay, Unattached, Controllers
<1>11. [c.el EXCEPT !.paused = FALSE] \in Elements /\ [c.el EXCEPT !.paused = FALSE].local = 0
       /\ ~[c.el EXCEPT !.paused = FALSE].ready
  BY <1>1, <1>9 DEF Elements
<1> HIDE DEF d1
<1>12. \/ attachSource(c) = [d1 EXCEPT !.el = c.el]
       \/ attachSource(c) = [d1 EXCEPT !.el = [c.el EXCEPT !.paused = FALSE]]
  BY <1>7, <1>9, <1>10
<1> QED BY <1>1, <1>8, <1>9, <1>11, <1>12

\* A source that fails leaves nothing running, and the position it had.
LEMMA FailStops ==
  ASSUME NEW c \in Controllers, c.src.on, c.pb.item, ~c.enrich, c.pb.off + c.el.local <= Dur,
         c.pb.mode = "original" => c.pb.off = 0
  PROVE  /\ Sane(failSource(c)) /\ ~failSource(c).src.on /\ failSource(c).sess = c.sess
         /\ failSource(c).retryT = <<>> /\ failSource(c).seekT = <<>> /\ failSource(c).src.wait = <<>>
         /\ failSource(c).pb.intent = c.pb.intent /\ failSource(c).pb.time = c.pb.time
         /\ failSource(c).el.local = c.el.local
<1> DEFINE d0 == cancelSource(c)
           pb == [d0.pb EXCEPT !.status = "error"]
           el == [c.el EXCEPT !.paused = TRUE]
           d == [d0 EXCEPT !.pb = pb, !.el = el]
<1>1. /\ d0 \in Controllers /\ d0.src = NoSrc /\ d0.pb \in Playbacks /\ d0.retryT = <<>> /\ d0.seekT = <<>>
      /\ d0.sess = c.sess /\ d0.enrich = c.enrich /\ d0.el = c.el /\ c.el \in Elements
      /\ d0.pb = [c.pb EXCEPT !.pending = NoPos] /\ c.pb \in Playbacks
  <2>1. /\ d0 \in Controllers /\ c.pb \in Playbacks /\ c.el \in Elements
        /\ d0 = [c EXCEPT !.src = NoSrc, !.pb = [c.pb EXCEPT !.pending = NoPos],
                          !.retryT = <<>>, !.seekT = <<>>]
    BY CancelShape DEF Controllers
  <2> HIDE DEF d0
  <2> QED BY <2>1 DEF Controllers
<1>2. failSource(c) = d
  BY <1>1 DEF failSource, Controllers
<1> HIDE DEF d0
<1>3. /\ pb \in Playbacks /\ pb.status = "error" /\ pb.item /\ pb.intent = c.pb.intent
      /\ pb.time = c.pb.time /\ pb.off = c.pb.off /\ pb.mode = c.pb.mode /\ pb.pending = NoPos
  BY <1>1 DEF Playbacks
<1>4. el \in Elements /\ el.local = c.el.local
  BY <1>1 DEF Elements
<1> HIDE DEF pb, el
<1>5. /\ d \in Controllers /\ d.src = NoSrc /\ d.pb = pb /\ d.el = el /\ d.retryT = <<>>
      /\ d.seekT = <<>> /\ d.sess = c.sess /\ d.enrich = c.enrich
  BY <1>1, <1>3, <1>4 DEF Controllers
<1> HIDE DEF d
<1>6. Driven(d) /\ Attends(d) /\ Positioned(d)
  BY <1>3, <1>4, <1>5 DEF Driven, Attends, Positioned, NoSrc, Preparing
<1> QED BY <1>2, <1>3, <1>4, <1>5, <1>6 DEF Sane, NoSrc

\* What the selector prepares for a load.
LEMMA PrepareTyped ==
  ASSUME NEW c \in Controllers, NEW o \in Loads
  PROVE  /\ prepare(c, o).mode \in {"original", "compat"} /\ prepare(c, o).blocked \in BOOLEAN
         /\ prepare(c, o).native \in BOOLEAN
         /\ prepare(c, o).native <=> prepare(c, o).mode = "compat" /\ env.dev = "safari"
         /\ prepare(c, o).nego \in Plans /\ prepare(c, o).q \in Qualities
         /\ prepare(c, o).blocked => prepare(c, o).mode = "original"
<1>1. o.force \in Modes /\ o.nego \in Plans /\ o.q \in Qualities
  BY DEF Loads
<1>2. c.prefQ \in Qualities
  BY DEF Controllers, Qualities
<1>3. /\ chooseSource(c, o.force).mode \in {"original", "compat"}
      /\ chooseSource(c, o.force).blocked \in BOOLEAN
      /\ chooseSource(c, o.force).blocked => chooseSource(c, o.force).mode = "original"
  BY <1>1 DEF chooseSource, Modes, Controllers
<1>4. /\ prepare(c, o).mode = chooseSource(c, o.force).mode
      /\ prepare(c, o).blocked = chooseSource(c, o.force).blocked
  BY DEF prepare
<1>5. prepare(c, o).native = (chooseSource(c, o.force).mode = "compat" /\ env.dev = "safari")
  BY DEF prepare
<1>6. prepare(c, o).q \in {"none", o.q, c.prefQ}
  BY DEF prepare
<1>7. prepare(c, o).nego \in {o.nego, NoNego} \cup Negos
  <2> HIDE DEF Negos
  <2>1. /\ [v |-> "copy", a |-> "transcode", out |-> "h264"] \in Negos
        /\ [v |-> "transcode", a |-> "transcode", out |-> "hdr"] \in Negos
        /\ [v |-> "transcode", a |-> "transcode", out |-> "h264"] \in Negos
    BY DEF Negos
  <2> QED BY <2>1 DEF prepare
<1> QED BY <1>1, <1>2, <1>3, <1>4, <1>5, <1>6, <1>7 DEF Plans, Qualities

\* A load forgets everything about the source before it: where it starts and
\* with which intent is what it was asked for.
LEMMA LoadResumes ==
  ASSUME NEW c \in Controllers, NEW o \in Loads
  PROVE  Resumed(loadSource(c, o), o.start, o.intent)
<1> DEFINE p == prepare(c, o)
           off == IF p.mode = "compat" THEN Seg(o.start) ELSE 0
           d0 == cancelSource(c)
           rec == [d0.rec EXCEPT !.pend = IF @ = "none" THEN "none" ELSE "old"]
           src == [NoSrc EXCEPT !.on = TRUE, !.mode = p.mode, !.start = o.start,
                                !.nego = p.nego, !.q = p.q, !.native = p.native,
                                !.force = o.force, !.retry = o.retry,
                                !.srv = IF o.retry THEN "producing" ELSE "idle",
                                !.negotiating = TRUE]
           pb == [NoPlayback EXCEPT !.item = TRUE, !.status = "loading", !.mode = p.mode,
                                    !.intent = o.intent, !.time = o.start, !.off = off, !.q = p.q]
           c1 == [NewSession(d0) EXCEPT !.susp = FALSE, !.el = Element0, !.src = src, !.pb = pb]
<1>1. /\ p.mode \in {"original", "compat"} /\ p.blocked \in BOOLEAN /\ p.native \in BOOLEAN
      /\ p.native <=> p.mode = "compat" /\ env.dev = "safari"
      /\ p.nego \in Plans /\ p.q \in Qualities /\ (p.blocked => p.mode = "original")
  BY PrepareTyped
<1>2. /\ o.start \in Places /\ o.intent \in Intents /\ o.force \in Modes /\ o.retry \in BOOLEAN
  BY DEF Loads
<1>3. loadSource(c, o) = IF p.blocked THEN failSource(c1)
                         ELSE IF p.mode = "compat" /\ p.nego = NoNego THEN c1
                         ELSE attachSource(c1)
  BY DEF loadSource
<1>4. d0 \in Controllers /\ d0.retryT = <<>> /\ d0.seekT = <<>>
  <2>1. /\ d0 \in Controllers
        /\ d0 = [c EXCEPT !.src = NoSrc, !.pb = [c.pb EXCEPT !.pending = NoPos],
                          !.retryT = <<>>, !.seekT = <<>>]
    BY CancelShape
  <2> HIDE DEF d0
  <2> QED BY <2>1 DEF Controllers
<1> HIDE DEF p, d0
<1>5. /\ src \in Sources /\ src.on /\ src.mode = p.mode /\ src.start = o.start /\ src.nego = p.nego
      /\ src.native = p.native /\ src.negotiating /\ src.rec = <<>> /\ src.wait = <<>>
      /\ ~src.startup /\ ~src.mse
  <2>1. NoSrc \in Sources /\ NoSrc.rec = <<>> /\ NoSrc.wait = <<>> /\ ~NoSrc.startup /\ ~NoSrc.mse
    BY NoSrc_Source DEF NoSrc
  <2> HIDE DEF NoSrc
  <2> QED BY <1>1, <1>2, <2>1 DEF Sources, Modes, Statuses
<1>6. off \in Places /\ off <= o.start /\ (p.mode = "original" => off = 0)
  BY <1>1, <1>2, Seg_Places, PlayerAssumption DEF Places
<1> HIDE DEF off
<1>7. /\ pb \in Playbacks /\ pb.item /\ pb.status = "loading" /\ pb.mode = p.mode /\ pb.intent = o.intent
      /\ pb.time = o.start /\ pb.off = off /\ pb.pending = NoPos
  BY <1>1, <1>2, <1>6 DEF NoPlayback, Playbacks, Plans, Modes, Preparing
<1>8. rec \in Recoveries
  BY <1>4 DEF Controllers, Recoveries
<1> HIDE DEF src, pb
<1>9. /\ c1 \in Controllers /\ c1.src = src /\ c1.pb = pb /\ c1.el = Element0 /\ c1.retryT = <<>>
      /\ c1.seekT = <<>> /\ ~c1.enrich
  <2>1. d0.sess \in 0..1 => 1 - d0.sess \in 0..1
    OBVIOUS
  <2>2. NewSession(d0) = [d0 EXCEPT !.sess = 1 - d0.sess, !.enrich = FALSE, !.rec = rec]
    BY <1>4 DEF NewSession, Controllers
  <2> HIDE DEF rec, Element0
  <2>3. NewSession(d0) \in Controllers /\ ~NewSession(d0).enrich
        /\ NewSession(d0).retryT = <<>> /\ NewSession(d0).seekT = <<>>
    BY <1>4, <1>8, <2>1, <2>2 DEF Controllers
  <2> QED BY <1>5, <1>7, <2>3, Element0_Element DEF Controllers
<1> HIDE DEF c1
<1>10. o.start \in Nat /\ o.start <= Dur /\ off \in Nat /\ off <= Dur
  BY <1>2, <1>6, PlayerAssumption DEF Places
<1>11. CASE p.blocked
  <2>1. c1.src.on /\ c1.pb.item /\ c1.pb.off + c1.el.local <= Dur
        /\ (c1.pb.mode = "original" => c1.pb.off = 0)
    BY <1>5, <1>6, <1>7, <1>9, <1>10 DEF Element0
  <2>2. c1.pb.intent = o.intent /\ c1.pb.time = o.start /\ c1.el.local = 0
    BY <1>7, <1>9 DEF Element0
  <2> QED BY <1>3, <1>9, <1>11, <2>1, <2>2, FailStops DEF Resumed
<1>12. CASE ~p.blocked /\ p.mode = "compat" /\ p.nego = NoNego
  <2>1. c1.pb.off <= c1.pb.time /\ c1.pb.time <= Dur /\ c1.pb.off \in Nat /\ c1.pb.time \in Nat
    BY <1>6, <1>7, <1>9, <1>10
  <2>2. Driven(c1)
    BY <1>5, <1>7, <1>9, <1>12 DEF Driven, Preparing
  <2>3. Attends(c1)
    BY <1>1, <1>5, <1>7, <1>9, <1>12 DEF Attends
  <2>4. Positioned(c1)
    BY <1>5, <1>7, <1>9, <1>12, <2>1, PlayerAssumption DEF Positioned, Element0
  <2> QED BY <1>3, <1>5, <1>7, <1>9, <1>12, <2>2, <2>3, <2>4 DEF Resumed, Sane, Element0
<1>13. CASE ~p.blocked /\ ~(p.mode = "compat" /\ p.nego = NoNego)
  <2>1. Unattached(c1)
    BY <1>1, <1>5, <1>6, <1>7, <1>9, <1>13 DEF Unattached, Plans
  <2> QED BY <1>3, <1>7, <1>9, <1>13, <2>1, AttachResumes
<1> QED BY <1>11, <1>12, <1>13

-----------------------------------------------------------------------------
(* What the player does by itself.                                         *)

\* From c to d without the viewer, who is at w: neither the intent nor the
\* position of what is started differs.
Continues(c, d, w) ==
  /\ Sane(d) /\ Placed(d, w)
  /\ (d.sess # c.sess /\ d.src.on) \/ d.retryT # c.retryT => d.pb.intent = c.pb.intent
  /\ w > 0 /\ d.sess # c.sess /\ d.src.on => d.src.start = w

\* A player that resumes where it was goes on for the viewer.
LEMMA ResumedContinues ==
  ASSUME NEW c, NEW d, NEW t, NEW w \in Places, Resumed(d, t, c.pb.intent), w > 0 => t = w
  PROVE  Continues(c, d, w)
<1>1. Placed(d, w)
  BY DEF Resumed, Placed
<1> QED BY <1>1 DEF Resumed, Continues

\* Of what says where a controller is, d differs from c in an answer at most.
Like(c, d) ==
  /\ d \in Controllers
  /\ d.pb = c.pb /\ d.el = c.el /\ d.retryT = c.retryT /\ d.seekT = c.seekT
  /\ d.enrich = c.enrich /\ d.sess = c.sess
  /\ d.src.on = c.src.on /\ d.src.mode = c.src.mode /\ d.src.start = c.src.start
  /\ d.src.native = c.src.native /\ d.src.mse = c.src.mse
  /\ d.src.negotiating = c.src.negotiating /\ d.src.wait = c.src.wait
  /\ d.src.rec = <<>> \/ d.src.rec = c.src.rec
  /\ d.src.startup => c.src.startup

\* An answer alone moves nobody.
LEMMA LikeKeeps ==
  ASSUME NEW c, NEW d, Sane(c), Like(c, d)
  PROVE  /\ Sane(d) /\ globalTime(d) = globalTime(c)
         /\ \A w : Placed(c, w) => Placed(d, w)
         /\ \A w : Placed(c, w) => Continues(c, d, w)
<1>1. Driven(d) /\ Attends(d) /\ Positioned(d)
  BY DEF Like, Sane, Driven, Attends, Positioned
<1>2. globalTime(d) = globalTime(c)
  BY DEF Like, globalTime
<1>3. \A w : Placed(c, w) => Placed(d, w)
  BY DEF Like, Placed
<1> QED BY <1>1, <1>2, <1>3 DEF Like, Sane, Continues

\* Where the title is.
LEMMA GlobalTime ==
  ASSUME NEW c, Sane(c)
  PROVE  /\ globalTime(c) \in Places
         /\ c.src.wait # <<>> => globalTime(c) = c.src.wait[1]
         /\ ~c.src.on => globalTime(c) = c.pb.time
         /\ c.src.wait = <<>> /\ c.pb.mode = "compat" => globalTime(c) = c.pb.time
         /\ c.src.on /\ c.pb.mode = "original" => c.src.wait = <<>> /\ globalTime(c) = c.el.local
<1>1. c.src \in Sources /\ c.pb \in Playbacks /\ c.el \in Elements
  BY DEF Sane, Controllers
<1>2. /\ c.src.wait \in Opt(Places) /\ c.pb.time \in Places /\ c.pb.off \in Places
      /\ c.el.local \in Places /\ c.pb.pending \in {NoPos} \cup Places
  BY <1>1 DEF Sources, Playbacks, Elements
<1>3. \A p \in Places : p \in Nat /\ p <= Dur
  BY PlayerAssumption DEF Places
<1>4. CASE c.src.wait # <<>>
  <2>1. globalTime(c) = c.src.wait[1]
    BY <1>4 DEF globalTime
  <2>2. c.src.wait[1] \in Places
    BY <1>2, <1>4 DEF Opt
  <2>3. c.src.on /\ c.pb.mode = "compat"
    BY <1>4 DEF Sane, Attends
  <2> QED BY <1>4, <2>1, <2>2, <2>3
<1>5. CASE c.src.wait = <<>> /\ ~c.src.on
  <2> QED BY <1>2, <1>5 DEF globalTime
<1>6. CASE c.src.wait = <<>> /\ c.src.on /\ c.pb.mode = "original"
  <2>1. c.pb.pending = NoPos /\ c.pb.off = 0
    BY <1>6 DEF Sane, Positioned
  <2> QED BY <1>2, <1>3, <1>6, <2>1 DEF globalTime
<1>7. CASE c.src.wait = <<>> /\ c.src.on /\ c.pb.mode = "compat"
  <2>1. /\ c.pb.time >= c.pb.off /\ c.pb.pending \in {NoPos, c.pb.time}
        /\ ~c.src.negotiating /\ c.pb.pending = NoPos => c.pb.time = c.pb.off + c.el.local
        /\ c.src.negotiating => c.pb.status = "loading" /\ c.el.local = 0 /\ c.pb.pending = NoPos
    BY <1>7 DEF Sane, Positioned, Attends, Element0
  <2> QED BY <1>2, <1>3, <1>7, <2>1 DEF globalTime
<1>8. c.src.on => c.pb.mode \in {"original", "compat"}
  <2>1. c.pb.mode \in Modes
    BY <1>1 DEF Playbacks
  <2> QED BY <2>1 DEF Sane, Attends, Modes
<1> QED BY <1>4, <1>5, <1>6, <1>7, <1>8

\* Whoever asks where to resume is told where the viewer is.
LEMMA Here ==
  ASSUME NEW c, NEW w \in Places, Sane(c), Placed(c, w), c.src.on, c.src.wait = <<>>, w > 0
  PROVE  /\ Or(globalTime(c), c.src.start) = w
         /\ c.pb.mode = "compat" => c.pb.time = w /\ globalTime(c) = w
         /\ Or(Or(c.pb.time, globalTime(c)), c.src.start) = w
<1>1. c.pb.mode \in {"original", "compat"}
  <2>1. c.pb.mode \in Modes
    BY DEF Sane, Controllers, Playbacks
  <2> QED BY <2>1 DEF Sane, Attends, Modes
<1>2. CASE c.pb.mode = "compat"
  BY <1>2, GlobalTime DEF Placed, Or
<1>3. CASE c.pb.mode = "original"
  <2>1. globalTime(c) = c.el.local
    BY <1>3, GlobalTime
  <2>2. /\ c.pb.time \in {0, w} /\ c.el.local \in {0, w}
        /\ c.pb.time = 0 => c.el.local = w
        /\ c.el.local = 0 => c.src.start = w
    BY <1>3 DEF Placed
  <2> QED BY <1>3, <2>1, <2>2 DEF Or
<1> QED BY <1>1, <1>2, <1>3

\* A generation retry stays within its allowances.
LEMMA NextRetryTyped ==
  ASSUME NEW r \in Recoveries, NEW busy
  PROVE  /\ nextCompatibleRetry(r, busy) # <<>> => nextCompatibleRetry(r, busy)[1] \in Recoveries
<1>1. r.n \in 0..MaxRetries /\ r.busy \in 0..MaxBusy
  BY DEF Recoveries
<1>2. r.n < MaxRetries => r.n + 1 \in 0..MaxRetries
  BY <1>1, PlayerAssumption
<1>3. r.busy < MaxBusy => r.busy + 1 \in 0..MaxBusy
  BY <1>1, PlayerAssumption
<1>4. 0 \in 0..MaxBusy /\ MaxRetries \in Nat /\ MaxBusy \in Nat
  BY PlayerAssumption
<1>5. CASE r.pend = "this"
  BY <1>5 DEF nextCompatibleRetry
<1>6. CASE r.pend # "this" /\ busy
  <2>1. nextCompatibleRetry(r, busy) = IF r.busy >= MaxBusy THEN <<>>
                                       ELSE <<[r EXCEPT !.busy = @ + 1, !.pend = "this"]>>
    BY <1>6 DEF nextCompatibleRetry
  <2>2. r.busy < MaxBusy => [r EXCEPT !.busy = @ + 1, !.pend = "this"] \in Recoveries
    BY <1>3 DEF Recoveries
  <2> QED BY <1>1, <1>4, <2>1, <2>2
<1>7. CASE r.pend # "this" /\ ~busy
  <2>1. nextCompatibleRetry(r, busy) = IF r.n >= MaxRetries THEN <<>>
                                       ELSE <<[n |-> r.n + 1, busy |-> 0, pend |-> "this"]>>
    BY <1>7 DEF nextCompatibleRetry
  <2>2. r.n < MaxRetries => [n |-> r.n + 1, busy |-> 0, pend |-> "this"] \in Recoveries
    BY <1>2, <1>4 DEF Recoveries
  <2> QED BY <1>1, <1>4, <2>1, <2>2
<1> QED BY <1>5, <1>6, <1>7

\* From c to d by scheduling a retry, or with one scheduled already.
Retried(c, d) ==
  /\ Sane(d) /\ d.pb.time = c.pb.time
  /\ d = c \/ d.src.wait = <<>>
  /\ \A w \in Places : Placed(c, w) => Continues(c, d, w)
  /\ d = c \/ Placed(d, c.pb.time)

\* A retry that is scheduled, or was already, keeps position and intent.
LEMMA RetryKeeps ==
  ASSUME NEW c, Sane(c), c.src.on, c.pb.mode = "compat",
         NEW start \in Places, NEW nego \in Plans, NEW busy,
         scheduleCompatibleRetry(c, start, c.pb.intent, nego, busy).did,
         NEW d, d = scheduleCompatibleRetry(c, start, c.pb.intent, nego, busy).c
  PROVE  Retried(c, d)
<1> DEFINE r == nextCompatibleRetry(c.rec, busy)
           target == Or(c.pb.time, start)
           d0 == cancelSource(c)
           pb == [d0.pb EXCEPT !.status = "loading", !.intent = c.pb.intent]
           e == [d0 EXCEPT !.rec = r[1], !.el = Element0, !.pb = pb,
                           !.retryT = <<[start |-> target, nego |-> nego, q |-> c.pb.q]>>]
<1>1. /\ d0 \in Controllers /\ d0.src = NoSrc /\ d0.pb = [c.pb EXCEPT !.pending = NoPos] /\ d0.seekT = <<>>
      /\ d0.sess = c.sess /\ d0.enrich = c.enrich
  <2>1. /\ d0 \in Controllers /\ c \in Controllers
        /\ d0 = [c EXCEPT !.src = NoSrc, !.pb = [c.pb EXCEPT !.pending = NoPos],
                          !.retryT = <<>>, !.seekT = <<>>]
    BY CancelShape DEF Sane
  <2> HIDE DEF d0
  <2> QED BY <2>1 DEF Controllers
<1>2. c.pb \in Playbacks /\ c.rec \in Recoveries /\ c \in Controllers /\ d0.pb \in Playbacks
  BY <1>1 DEF Sane, Controllers
<1>3. c.pb.time \in Places /\ c.pb.off \in Places /\ c.pb.q \in Qualities /\ c.pb.intent \in Intents
  BY <1>2 DEF Playbacks
<1>4. r # <<>> /\ (r[1] = c.rec \/ d = e) /\ (r[1] = c.rec => d = c)
  <2>1. r # <<>>
    BY DEF scheduleCompatibleRetry
  <2>2. ASSUME r[1] # c.rec PROVE d = e
    <3>1. d = [cancelSource(c) EXCEPT
                 !.rec = r[1], !.el = Element0, !.pb.status = "loading", !.pb.intent = c.pb.intent,
                 !.retryT = <<[start |-> target, nego |-> nego, q |-> c.pb.q]>>]
      BY <2>1, <2>2 DEF scheduleCompatibleRetry
    <3> HIDE DEF r, target
    <3>2. d = e
      BY ONLY <1>1, <3>1 DEF Controllers
    <3> QED BY <3>2
  <2> QED BY <2>1, <2>2 DEF scheduleCompatibleRetry
<1>5. CASE r[1] = c.rec
  BY <1>4, <1>5, LikeKeeps DEF Retried, Sane, Continues
<1>6. CASE d = e
  <2>1. r[1] \in Recoveries
    BY <1>2, <1>4, NextRetryTyped
  <2>2. target \in Places /\ (c.pb.time > 0 => target = c.pb.time)
    BY <1>3, Or_Places DEF Or
  <2>3. [start |-> target, nego |-> nego, q |-> c.pb.q] \in Timers
    BY <1>3, <2>2 DEF Timers
  <2> HIDE DEF r, target, d0
  <2>4. /\ pb \in Playbacks /\ pb.status = "loading" /\ pb.intent = c.pb.intent /\ pb.time = c.pb.time
        /\ pb.item = c.pb.item /\ pb.mode = c.pb.mode /\ pb.off = c.pb.off /\ pb.pending = NoPos
    BY <1>1, <1>2, <1>3 DEF Playbacks, Preparing
  <2> HIDE DEF pb
  <2>5. /\ e \in Controllers /\ e.src = NoSrc /\ e.pb = pb /\ e.el = Element0 /\ e.seekT = <<>>
        /\ e.retryT = <<[start |-> target, nego |-> nego, q |-> c.pb.q]>>
        /\ e.sess = c.sess /\ e.enrich = c.enrich
    <3> HIDE DEF NoSrc, Element0
    <3> QED BY <1>1, <2>1, <2>3, <2>4, Element0_Element DEF Controllers, Opt
  <2> HIDE DEF e
  <2>6. e.retryT # <<>> /\ e.retryT[1].start = target /\ ~e.src.on /\ e.src.wait = <<>> /\ e.src.rec = <<>>
        /\ ~e.src.negotiating /\ ~e.src.mse /\ e.el.local = 0
    BY <2>5 DEF NoSrc, Element0
  <2>7. Driven(e) /\ Attends(e)
    BY <2>4, <2>5, <2>6 DEF Driven, Attends, Sane, Preparing
  <2>8. Positioned(e)
    BY <1>3, <2>4, <2>5, <2>6, PlayerAssumption DEF Positioned, Places
  <2>9. ASSUME NEW w \in Places, w > 0 => c.pb.time = w
        PROVE  Placed(e, w) /\ Continues(c, e, w)
    BY <2>2, <2>4, <2>5, <2>6, <2>7, <2>8, <2>9 DEF Placed, Continues, Sane
  <2>10. \A w \in Places : Placed(c, w) /\ w > 0 => c.pb.time = w
    BY DEF Placed
  <2>11. Placed(e, c.pb.time)
    BY <1>3, <2>9
  <2>12. /\ Sane(e) /\ e.pb.time = c.pb.time /\ e.src.wait = <<>> /\ Placed(e, c.pb.time)
         /\ \A w \in Places : Placed(c, w) => Continues(c, e, w)
    BY <2>4, <2>5, <2>6, <2>7, <2>8, <2>9, <2>10, <2>11 DEF Sane
  <2> QED BY <1>6, <2>12 DEF Retried
<1> QED BY <1>4, <1>5, <1>6

\* Without its native copy the player resumes where the element was.
LEMMA FallbackResumes ==
  ASSUME NEW c, Sane(c)
  PROVE  Resumed(fallbackNativeHlsCopy(c), Or(globalTime(c), c.pb.time), c.pb.intent)
<1> DEFINE t == Or(globalTime(c), c.pb.time)
           o == [Options(t, c.pb.intent) EXCEPT
                     !.force = "compat", !.q = c.prefQ,
                     !.nego = [v |-> "transcode", a |-> "transcode",
                               out |-> IF env.hdr THEN "hdr" ELSE "h264"]]
<1>1. c \in Controllers /\ c.pb \in Playbacks /\ c.prefQ \in Qualities
  BY DEF Sane, Controllers, Qualities
<1>2. c.pb.time \in Places /\ c.pb.intent \in Intents
  BY <1>1 DEF Playbacks
<1>3. t \in Places
  BY <1>2, GlobalTime, Or_Places
<1>4. fallbackNativeHlsCopy(c) = loadSource(c, o)
  BY DEF fallbackNativeHlsCopy
<1> HIDE DEF t
<1>5. [v |-> "transcode", a |-> "transcode", out |-> IF env.hdr THEN "hdr" ELSE "h264"] \in Plans
  BY DEF Plans, Negos
<1>6. o \in Loads /\ o.start = t /\ o.intent = c.pb.intent
  <2> HIDE DEF Plans
  <2> QED BY <1>1, <1>2, <1>3, <1>5 DEF Options, Loads, Modes
<1> HIDE DEF o
<1> QED BY <1>1, <1>4, <1>6, LoadResumes DEF t

\* An error of the element or the transfer: Original playback falls back to a
\* prepared stream, which asks the server first.
LEMMA ErrorKeeps ==
  ASSUME NEW c, Sane(c), c.src.on => ~c.src.negotiating, NEW code \in 2..4, NEW net \in BOOLEAN,
         NEW w \in Places, Placed(c, w)
  PROVE  Continues(c, handleMediaError(c, code, net), w)
<1> DEFINE t == Or(globalTime(c), c.src.start)
           o == [Options(t, c.pb.intent) EXCEPT !.force = "compat"]
           d == [c EXCEPT !.src = [c.src EXCEPT !.rec = <<[code |-> code, net |-> net]>>]]
<1>1. c \in Controllers /\ c.pb \in Playbacks /\ c.src \in Sources
  BY DEF Sane, Controllers
<1>2. c.pb.intent \in Intents /\ c.src.start \in Places
  BY <1>1 DEF Playbacks, Sources
<1>3. t \in Places
  BY <1>2, GlobalTime, Or_Places
<1>4. \/ handleMediaError(c, code, net) = c
      \/ c.src.on /\ c.src.mode = "original" /\ handleMediaError(c, code, net) = loadSource(c, o)
      \/ c.src.on /\ handleMediaError(c, code, net) = d
  BY <1>1 DEF handleMediaError, Controllers
<1>5. CASE handleMediaError(c, code, net) = c
  BY <1>5 DEF Continues
<1>6. CASE c.src.on /\ c.src.mode = "original" /\ handleMediaError(c, code, net) = loadSource(c, o)
  <2>1. c.src.wait = <<>>
    BY <1>6, GlobalTime DEF Sane, Attends
  <2>2. w > 0 => t = w
    BY <1>6, <2>1, Here
  <2> HIDE DEF t
  <2>3. o \in Loads /\ o.start = t /\ o.intent = c.pb.intent
    BY <1>2, <1>3 DEF Options, Loads, Plans, Modes, Qualities
  <2> HIDE DEF o
  <2>5. Resumed(loadSource(c, o), t, c.pb.intent)
    BY <1>1, <2>3, LoadResumes
  <2> QED BY <1>6, <2>2, <2>5, ResumedContinues
<1>7. CASE c.src.on /\ handleMediaError(c, code, net) = d
  <2>1. <<[code |-> code, net |-> net]>> \in Opt([code : 2..4, net : BOOLEAN])
    BY DEF Opt
  <2>2. /\ d \in Controllers /\ d.pb = c.pb /\ d.el = c.el /\ d.retryT = c.retryT /\ d.seekT = c.seekT
        /\ d.enrich = c.enrich /\ d.sess = c.sess /\ d.src = [c.src EXCEPT !.rec = <<[code |-> code, net |-> net]>>]
    <3>1. [c.src EXCEPT !.rec = <<[code |-> code, net |-> net]>>] \in Sources
      BY <1>1, <2>1 DEF Sources
    <3> QED BY <1>1, <3>1 DEF Controllers
  <2>3. /\ d.src.on = c.src.on /\ d.src.mode = c.src.mode /\ d.src.start = c.src.start
        /\ d.src.mse = c.src.mse /\ d.src.native = c.src.native
        /\ d.src.negotiating = c.src.negotiating /\ d.src.wait = c.src.wait
        /\ d.src.startup = c.src.startup
    BY <1>1, <2>2 DEF Sources
  <2> HIDE DEF d
  <2>4. Driven(d) /\ Attends(d) /\ Positioned(d) /\ Placed(d, w)
    BY <1>7, <2>2, <2>3 DEF Sane, Driven, Attends, Positioned, Placed
  <2> QED BY <1>7, <2>2, <2>4 DEF Sane, Continues
<1> QED BY <1>4, <1>5, <1>6, <1>7

\* What failing leaves of a sane controller.
LEMMA FailKeeps ==
  ASSUME NEW c, Sane(c)
  PROVE  /\ Sane(failSource(c)) /\ (c.src.on => failSource(c).src.wait = <<>>)
         /\ \A w \in Places : Placed(c, w) => Continues(c, failSource(c), w)
         /\ c.src.on => Placed(failSource(c), failSource(c).pb.time)
<1>1. CASE ~c.src.on
  <2>1. failSource(c) = c
    BY <1>1 DEF failSource
  <2> QED BY <1>1, <2>1 DEF Continues
<1>2. CASE c.src.on
  <2>1. c \in Controllers /\ c.pb.item /\ ~c.enrich /\ c.retryT = <<>> /\ c.pb.off + c.el.local <= Dur
        /\ (c.pb.mode = "original" => c.pb.off = 0)
    BY <1>2 DEF Sane, Driven, Positioned
  <2>2. /\ Sane(failSource(c)) /\ ~failSource(c).src.on /\ failSource(c).sess = c.sess
        /\ failSource(c).retryT = <<>> /\ failSource(c).seekT = <<>> /\ failSource(c).src.wait = <<>>
    BY <1>2, <2>1, FailStops
  <2> QED BY <2>1, <2>2 DEF Continues, Placed
<1> QED BY <1>1, <1>2

\* The step down the codec ladder asks for a plan and a quality there are.
LEMMA DecodePlans ==
  ASSUME NEW c \in Controllers, NEW code, NEW st, compatibleDecodeRecovery(c, code, st) # <<>>
  PROVE  LET p == compatibleDecodeRecovery(c, code, st)[1] IN
         p.nego \in Plans /\ p.q \in Qualities /\ p.retry \in BOOLEAN
<1> DEFINE n == c.src.nego
           q == IF c.pb.q # "none" THEN c.pb.q ELSE c.prefQ
           R == {<<[nego |-> m, q |-> u, retry |-> r]>> : m \in Plans, u \in Qualities, r \in BOOLEAN}
<1>1. n \in Plans /\ q \in Qualities
  BY DEF Controllers, Sources, Playbacks, Qualities
<1>2. /\ [v |-> "transcode", a |-> "transcode", out |-> "h264"] \in Plans
      /\ n.v = "copy" => [n EXCEPT !.v = "transcode", !.out = "hdr"] \in Plans
  <2> HIDE DEF n
  <2>1. n.v = "copy" => n \in Negos
    BY <1>1 DEF Plans, NoNego
  <2>2. ASSUME n \in Negos PROVE [n EXCEPT !.v = "transcode", !.out = "hdr"] \in [v : {"transcode"}, a : {"copy", "transcode"}, out : {"h264", "hdr"}]
    BY <2>2 DEF Negos
  <2> QED BY <2>1, <2>2 DEF Plans, Negos
<1>3. compatibleDecodeRecovery(c, code, st) \in R \cup {<<>>}
  <2> HIDE DEF n, q
  <2>1. \A m \in Plans, u \in Qualities, r \in BOOLEAN : <<[nego |-> m, q |-> u, retry |-> r]>> \in R
    OBVIOUS
  <2>2. "low" \in Qualities
    BY DEF Qualities
  <2> HIDE DEF R, Plans, Qualities
  <2> QED BY <1>1, <1>2, <2>1, <2>2 DEF compatibleDecodeRecovery, n, q
<1> QED BY <1>3

\* What an answer makes of the retries it admits.
LEMMA AdmittedTyped ==
  ASSUME NEW r \in Recoveries, NEW st
  PROVE  admitted(r, st) \in Recoveries
<1>1. 0 \in 0..MaxBusy
  BY PlayerAssumption
<1> QED BY <1>1 DEF admitted, Recoveries

\* The step down the codec ladder.
StepDown(c, code, st) ==
  LET plan == compatibleDecodeRecovery(c, code, st)[1] IN
  loadSource(c, [Options(Or(globalTime(c), c.src.start), c.pb.intent) EXCEPT
                   !.force = "compat", !.nego = plan.nego, !.q = plan.q, !.retry = plan.retry])

\* Whatever recovery ends in is one of these.
RecoversTo(c, st, d) ==
  \/ d = failSource(c)
  \/ \E start \in {c.src.start, Or(globalTime(c), c.src.start)}, busy \in {st = "queued", FALSE} :
       /\ c.src.mode = "compat"
       /\ scheduleCompatibleRetry(c, start, c.pb.intent, c.src.nego, busy).did
       /\ d = scheduleCompatibleRetry(c, start, c.pb.intent, c.src.nego, busy).c
  \/ c.src.mode = "compat" /\ d = fallbackNativeHlsCopy(c)
  \/ \E code : compatibleDecodeRecovery(c, code, st) # <<>> /\ d = StepDown(c, code, st)

\* The ways in which #recoverSource can end.
LEMMA RecoverCases ==
  ASSUME NEW c0, NEW c, NEW r, NEW st, NEW elementError,
         c = [c0 EXCEPT !.src.rec = <<>>, !.rec = admitted(c0.rec, st)],
         NEW d, d = recoverSource(c0, r, st, elementError)
  PROVE  RecoversTo(c, st, d)
<1> DEFINE here == Or(globalTime(c), c.src.start)
           net == r.net /\ ~elementError
           code == IF net THEN 3 ELSE r.code
           absent == st \in {"queued", "cancelled", "idle"} /\ (st = "queued" \/ r.code # 4)
           try1 == scheduleCompatibleRetry(c, c.src.start, c.pb.intent, c.src.nego, st = "queued")
           try2 == scheduleCompatibleRetry(c, here, c.pb.intent, c.src.nego, FALSE)
           plan == compatibleDecodeRecovery(c, code, st)
           load == StepDown(c, code, st)
<1>1. recoverSource(c0, r, st, elementError) =
        CASE c.src.mode # "compat" -> failSource(c)
          [] c.src.mode = "compat" /\ absent /\ try1.did -> try1.c
          [] OTHER ->
             IF net /\ st \in {"offline", "starting", "producing"} /\ try2.did THEN try2.c
             ELSE IF net /\ st = "offline" THEN failSource(c)
             ELSE IF (code \in {3, 4} \/ st = "failed") /\ nativeCopyFails(c)
             THEN fallbackNativeHlsCopy(c)
             ELSE IF plan # <<>> THEN load
             ELSE IF code # 4 /\ st = "producing" /\ try2.did THEN try2.c
             ELSE failSource(c)
  BY DEF recoverSource, StepDown
<1> HIDE DEF try1, try2, load, absent, net, code, here, plan
<1>2. \/ recoverSource(c0, r, st, elementError) = failSource(c)
      \/ c.src.mode = "compat" /\ try1.did /\ recoverSource(c0, r, st, elementError) = try1.c
      \/ c.src.mode = "compat" /\ try2.did /\ recoverSource(c0, r, st, elementError) = try2.c
      \/ c.src.mode = "compat" /\ recoverSource(c0, r, st, elementError) = fallbackNativeHlsCopy(c)
      \/ plan # <<>> /\ recoverSource(c0, r, st, elementError) = load
  BY <1>1
<1> QED BY <1>2 DEF RecoversTo, try1, try2, load, plan, here

\* A recovery whose answer arrived keeps position and intent, whatever it
\* does; a seek that was waiting is what it resumes at.
RecoveredTo(c, d) ==
  /\ Sane(d)
  /\ \A w \in Places : c.src.wait = <<>> /\ Placed(c, w) => Continues(c, d, w)
  /\ c.src.wait # <<>> => Placed(d, d.pb.time)

\* However recovery ends, the player resumes where it was, or where a seek waits to go.
LEMMA RecoverKeeps ==
  ASSUME NEW c0, Sane(c0), c0.src.on, c0.src.rec # <<>>,
         NEW r \in [code : 2..4, net : BOOLEAN], NEW st, NEW elementError,
         NEW d, d = recoverSource(c0, r, st, elementError)
  PROVE  RecoveredTo(c0, d)
<1>a. PICK c : c = [c0 EXCEPT !.src.rec = <<>>, !.rec = admitted(c0.rec, st)]
  OBVIOUS
<1> DEFINE here == Or(globalTime(c), c.src.start)
           Good(e) == /\ Sane(e)
                      /\ \A w \in Places : c.src.wait = <<>> /\ Placed(c, w) => Continues(c, e, w)
                      /\ c.src.wait # <<>> => Placed(e, e.pb.time)
<1>1. Like(c0, c) /\ c.src.wait = c0.src.wait /\ c.src.on /\ c.src.rec = <<>>
  <2>1. c0 \in Controllers /\ c0.src \in Sources /\ admitted(c0.rec, st) \in Recoveries
    BY AdmittedTyped DEF Sane, Controllers
  <2> DEFINE src == [c0.src EXCEPT !.rec = <<>>]
  <2>2. src \in Sources /\ src.rec = <<>> /\ src.wait = c0.src.wait /\ src.on
        /\ src.on = c0.src.on /\ src.mode = c0.src.mode /\ src.start = c0.src.start
        /\ src.native = c0.src.native /\ src.mse = c0.src.mse
        /\ src.negotiating = c0.src.negotiating /\ src.startup = c0.src.startup
    BY <2>1 DEF Sources, Opt
  <2>3. c = [c0 EXCEPT !.src = src, !.rec = admitted(c0.rec, st)]
    BY <1>a, <2>1 DEF Controllers
  <2> HIDE DEF src
  <2> QED BY <2>1, <2>2, <2>3 DEF Like, Controllers
<1>2. Sane(c) /\ c \in Controllers /\ c.sess = c0.sess /\ c.retryT = c0.retryT /\ c.pb = c0.pb
      /\ \A w : Placed(c0, w) => Placed(c, w)
  BY <1>1, LikeKeeps DEF Sane, Like
<1>3. c.src.start \in Places /\ c.src.nego \in Plans /\ c.pb.intent \in Intents /\ c.pb.time \in Places
  BY <1>2 DEF Controllers, Sources, Playbacks
<1>4. here \in Places
  BY <1>2, <1>3, GlobalTime, Or_Places
<1>5. Good(failSource(c))
  BY <1>1, <1>2, FailKeeps
<1>6. ASSUME NEW e, NEW t \in Places, Resumed(e, t, c.pb.intent),
             \A w \in Places : c.src.wait = <<>> /\ Placed(c, w) /\ w > 0 => t = w
      PROVE  Good(e)
  <2>1. Sane(e) /\ e.pb.time = t
    BY <1>6 DEF Resumed
  <2>2. Placed(e, e.pb.time)
    BY <1>6, <2>1 DEF Resumed, Placed
  <2>3. ASSUME NEW w \in Places, c.src.wait = <<>>, Placed(c, w) PROVE Continues(c, e, w)
    BY <1>6, <2>3, ResumedContinues
  <2> QED BY <2>1, <2>2, <2>3
<1>7. ASSUME c.src.mode = "compat", NEW start \in Places, NEW busy,
             scheduleCompatibleRetry(c, start, c.pb.intent, c.src.nego, busy).did
      PROVE  Good(scheduleCompatibleRetry(c, start, c.pb.intent, c.src.nego, busy).c)
  <2> DEFINE e == scheduleCompatibleRetry(c, start, c.pb.intent, c.src.nego, busy).c
  <2>0. PICK x : x = e
    OBVIOUS
  <2> HIDE DEF e
  <2>1. c.pb.mode = "compat"
    BY <1>1, <1>2, <1>7 DEF Sane, Attends
  <2>2. /\ Sane(e) /\ e.pb.time = c.pb.time
        /\ \A w \in Places : Placed(c, w) => Continues(c, e, w)
        /\ e = c \/ Placed(e, c.pb.time)
    <3>1. x = scheduleCompatibleRetry(c, start, c.pb.intent, c.src.nego, busy).c
      BY <2>0 DEF e
    <3>2. /\ Sane(x) /\ x.pb.time = c.pb.time
          /\ \A w \in Places : Placed(c, w) => Continues(c, x, w)
          /\ x = c \/ Placed(x, c.pb.time)
      <4>1. Retried(c, x)
        BY <1>1, <1>2, <1>3, <1>7, <2>1, <3>1, RetryKeeps
      <4> QED BY <4>1 DEF Retried
    <3> QED BY <2>0, <3>2
  <2>3. Placed(c, c.pb.time)
    BY <1>1, <1>2, <2>1 DEF Placed, Sane, Driven
  <2>4. Good(e)
    BY <2>2, <2>3
  <2> QED BY <2>4 DEF e
<1>8. ASSUME c.src.mode = "compat" PROVE Good(fallbackNativeHlsCopy(c))
  <2> DEFINE t == Or(globalTime(c), c.pb.time)
  <2>1. Resumed(fallbackNativeHlsCopy(c), t, c.pb.intent)
    BY <1>2, FallbackResumes
  <2>2. t \in Places
    BY <1>2, <1>3, GlobalTime, Or_Places
  <2>3. ASSUME NEW w \in Places, c.src.wait = <<>>, Placed(c, w), w > 0 PROVE t = w
    <3>1. c.pb.mode = "compat"
      BY <1>1, <1>2, <1>8 DEF Sane, Attends
    <3> QED BY <1>1, <1>2, <2>3, <3>1, Here DEF Or
  <2> QED BY <1>6, <2>1, <2>2, <2>3
<1>9. ASSUME NEW code, compatibleDecodeRecovery(c, code, st) # <<>>
      PROVE  Good(StepDown(c, code, st))
  <2> DEFINE p == compatibleDecodeRecovery(c, code, st)[1]
             o == [Options(here, c.pb.intent) EXCEPT
                     !.force = "compat", !.nego = p.nego, !.q = p.q, !.retry = p.retry]
  <2>1. p.nego \in Plans /\ p.q \in Qualities /\ p.retry \in BOOLEAN
    BY <1>2, <1>9, DecodePlans
  <2>2. \A w \in Places : c.src.wait = <<>> /\ Placed(c, w) /\ w > 0 => here = w
    BY <1>1, <1>2, Here
  <2> HIDE DEF p, here
  <2>3. o \in Loads /\ o.start = here /\ o.intent = c.pb.intent
    BY <1>3, <1>4, <2>1 DEF Options, Loads, Modes
  <2> HIDE DEF o
  <2>4. Resumed(loadSource(c, o), here, c.pb.intent)
    BY <1>2, <2>3, LoadResumes
  <2>5. Good(loadSource(c, o))
    BY <1>4, <1>6, <2>2, <2>4
  <2> QED BY <2>5 DEF StepDown, o, p, here
<1>10. Good(d)
  <2> HIDE DEF Good, here
  <2>1. \/ d = failSource(c)
        \/ \E start \in {c.src.start, here}, busy \in {st = "queued", FALSE} :
             /\ c.src.mode = "compat"
             /\ scheduleCompatibleRetry(c, start, c.pb.intent, c.src.nego, busy).did
             /\ d = scheduleCompatibleRetry(c, start, c.pb.intent, c.src.nego, busy).c
        \/ c.src.mode = "compat" /\ d = fallbackNativeHlsCopy(c)
        \/ \E code : compatibleDecodeRecovery(c, code, st) # <<>> /\ d = StepDown(c, code, st)
    <3>1. RecoversTo(c, st, d)
      BY <1>a, RecoverCases
    <3> QED BY <3>1 DEF RecoversTo, here
  <2>2. ASSUME NEW start \in {c.src.start, here}, NEW busy \in {st = "queued", FALSE},
               c.src.mode = "compat",
               scheduleCompatibleRetry(c, start, c.pb.intent, c.src.nego, busy).did,
               d = scheduleCompatibleRetry(c, start, c.pb.intent, c.src.nego, busy).c
        PROVE  Good(d)
    <3>1. start \in Places
      BY <1>3, <1>4
    <3> QED BY ONLY <1>7, <2>2, <3>1, Zenon
  <2> QED BY ONLY <1>5, <1>8, <1>9, <2>1, <2>2, Zenon
<1>11. Sane(d) /\ (c.src.wait # <<>> => Placed(d, d.pb.time))
       /\ \A w \in Places : c.src.wait = <<>> /\ Placed(c, w) => Continues(c, d, w)
  BY <1>10
<1> HIDE DEF Good
<1>12. \A w \in Places : Continues(c, d, w) => Continues(c0, d, w)
  BY <1>2 DEF Continues
<1> QED BY <1>1, <1>2, <1>11, <1>12 DEF RecoveredTo

-----------------------------------------------------------------------------
(* The steps.  A step of the player continues; a step of the viewer, or of *)
(* what the viewer awaits, may start over at the position it asks for.     *)

\* Whatever options callers override, a load starts where they say.
Ask(o, t, i) == o \in Loads /\ o.start = t /\ o.intent = i

\* The options left open in a load.
LEMMA FalseOption == NoNego \in Plans /\ "none" \in Qualities /\ "none" \in Modes
BY DEF Plans, Qualities, Modes

\* The options of a load ask for the position and the intent they are built from.
LEMMA Asked ==
  ASSUME NEW t \in Places, NEW i \in Intents, NEW f \in Modes, NEW n \in Plans, NEW q \in Qualities
  PROVE  /\ Ask(Options(t, i), t, i)
         /\ Ask([Options(t, i) EXCEPT !.force = f], t, i)
         /\ Ask([Options(t, i) EXCEPT !.force = f, !.q = q], t, i)
         /\ Ask([Options(t, i) EXCEPT !.force = f, !.nego = n, !.q = q], t, i)
<1>1. NoNego \in Plans /\ "none" \in Qualities /\ "none" \in Modes
  BY DEF Plans, Qualities, Modes
<1> HIDE DEF NoNego, Plans, Modes, Qualities
<1>2. Ask(Options(t, i), t, i)
  BY <1>1 DEF Ask, Options, Loads
<1>3. Ask([Options(t, i) EXCEPT !.force = f], t, i)
  BY <1>1 DEF Ask, Options, Loads
<1>4. Ask([Options(t, i) EXCEPT !.force = f, !.q = q], t, i)
  BY <1>1 DEF Ask, Options, Loads
<1>5. Ask([Options(t, i) EXCEPT !.force = f, !.nego = n, !.q = q], t, i)
  BY <1>1 DEF Ask, Options, Loads
<1> QED BY <1>2, <1>3, <1>4, <1>5

\* A load resumes at the position it is asked for.
LEMMA AskedResumes ==
  ASSUME NEW c \in Controllers, NEW o, NEW t, NEW i, Ask(o, t, i), NEW d, d = loadSource(c, o)
  PROVE  Resumed(d, t, i)
BY LoadResumes DEF Ask

\* A player that resumes at t is in place for a viewer at t.
LEMMA ResumedPlaced ==
  ASSUME NEW d, NEW t, NEW i, Resumed(d, t, i), NEW w, w > 0 => t = w
  PROVE  Sane(d) /\ Placed(d, w)
BY DEF Resumed, Placed

\* The fields of a sane controller.
LEMMA Fields ==
  ASSUME NEW c, Sane(c)
  PROVE  /\ c \in Controllers /\ c.src \in Sources /\ c.pb \in Playbacks /\ c.el \in Elements
         /\ c.rec \in Recoveries
         /\ c.pb.intent \in Intents /\ c.pb.time \in Places /\ c.pb.off \in Places
         /\ c.pb.mode \in Modes /\ c.pb.nego \in Plans /\ c.pb.q \in Qualities
         /\ c.pb.pending \in {NoPos} \cup Places
         /\ c.src.start \in Places /\ c.src.nego \in Plans /\ c.src.q \in Qualities
         /\ c.src.force \in Modes /\ c.src.mode \in Modes /\ c.src.wait \in Opt(Places)
         /\ c.el.local \in Places /\ c.prefQ \in Qualities
         /\ c.retryT \in Opt(Timers) /\ c.seekT \in Opt(Timers)
<1>1. c \in Controllers
  BY DEF Sane
<1>2. /\ c.src \in Sources /\ c.pb \in Playbacks /\ c.el \in Elements /\ c.rec \in Recoveries
      /\ c.prefQ \in Qualities /\ c.retryT \in Opt(Timers) /\ c.seekT \in Opt(Timers)
  BY <1>1 DEF Controllers, Qualities
<1>3. /\ c.pb.intent \in Intents /\ c.pb.time \in Places /\ c.pb.off \in Places
      /\ c.pb.mode \in Modes /\ c.pb.nego \in Plans /\ c.pb.q \in Qualities
      /\ c.pb.pending \in {NoPos} \cup Places
  BY <1>2 DEF Playbacks
<1>4. /\ c.src.start \in Places /\ c.src.nego \in Plans /\ c.src.q \in Qualities
      /\ c.src.force \in Modes /\ c.src.mode \in Modes /\ c.src.wait \in Opt(Places)
  BY <1>2 DEF Sources
<1>5. c.el.local \in Places
  BY <1>2 DEF Elements
<1> QED BY <1>1, <1>2, <1>3, <1>4, <1>5

\* The fields of an armed timer.
LEMMA TimerFields ==
  ASSUME NEW s \in Opt(Timers), s # <<>>
  PROVE  s[1].start \in Places /\ s[1].nego \in Plans /\ s[1].q \in Qualities
<1>1. s[1] \in Timers
  BY DEF Opt
<1> QED BY <1>1 DEF Timers

\* d is c but for what is shown and heard, and for what the viewer wants.
Alike(c, d) ==
  /\ d \in Controllers /\ d.sess = c.sess
  /\ d.enrich = c.enrich /\ d.retryT = c.retryT /\ d.seekT = c.seekT
  /\ d.src.on = c.src.on /\ d.src.mode = c.src.mode /\ d.src.start = c.src.start
  /\ d.src.native = c.src.native /\ d.src.mse = c.src.mse
  /\ d.src.negotiating = c.src.negotiating /\ d.src.wait = c.src.wait
  /\ d.src.rec = <<>> \/ d.src.rec = c.src.rec
  /\ d.src.startup => c.src.startup \/ (~c.src.mse /\ ~c.src.negotiating)
  /\ d.pb.item = c.pb.item /\ d.pb.mode = c.pb.mode /\ d.pb.time = c.pb.time
  /\ d.pb.off = c.pb.off /\ d.pb.pending = c.pb.pending
  /\ \/ d.pb.status = c.pb.status
     \/ c.src.on /\ ~c.src.negotiating /\ d.pb.status \in {"paused", "playing", "loading", "waiting"}
  /\ d.el.local = c.el.local /\ d.el.ready = c.el.ready
  /\ c.src.negotiating => d.el = c.el

\* What is shown and heard moves nobody.
LEMMA AlikeKeeps ==
  ASSUME NEW c, NEW d, Sane(c), Alike(c, d)
  PROVE  /\ Sane(d) /\ \A w : Placed(c, w) => Placed(d, w)
         /\ \A w : Placed(c, w) => Continues(c, d, w)
<1>1. Driven(d) /\ Attends(d)
  BY DEF Alike, Sane, Driven, Attends, Preparing
<1>2. Positioned(d)
  BY DEF Alike, Sane, Positioned
<1>3. \A w : Placed(c, w) => Placed(d, w)
  BY DEF Alike, Placed
<1> QED BY <1>1, <1>2, <1>3 DEF Alike, Sane, Continues

\* Two halves of a step without the viewer.
LEMMA ContinuesAfter ==
  ASSUME NEW c, NEW e, NEW d, NEW w, Continues(e, d, w),
         e.sess = c.sess, e.retryT = c.retryT, e.pb.intent = c.pb.intent
  PROVE  Continues(c, d, w)
BY DEF Continues

\* What is left when the source goes.
LEMMA Cancelled ==
  ASSUME NEW c, Sane(c), NEW d0, d0 = cancelSource(c)
  PROVE  /\ d0 \in Controllers /\ d0.src = NoSrc /\ d0.pb \in Playbacks /\ d0.retryT = <<>> /\ d0.seekT = <<>>
         /\ d0.sess = c.sess /\ d0.enrich = c.enrich /\ d0.el = c.el
         /\ d0.pb = [c.pb EXCEPT !.pending = NoPos]
<1>1. /\ d0 \in Controllers /\ c \in Controllers
      /\ d0 = [c EXCEPT !.src = NoSrc, !.pb = [c.pb EXCEPT !.pending = NoPos], !.retryT = <<>>, !.seekT = <<>>]
      /\ [c.pb EXCEPT !.pending = NoPos] \in Playbacks
  BY CancelShape DEF Sane
<1> HIDE DEF NoSrc
<1> QED BY <1>1 DEF Controllers

\* What is left of a source and its element: nothing that is waited for.
LEMMA NothingLeft ==
  /\ ~NoSrc.on /\ NoSrc.wait = <<>> /\ NoSrc.rec = <<>> /\ ~NoSrc.negotiating /\ ~NoSrc.mse
  /\ ~NoSrc.startup /\ Element0.local = 0
BY DEF NoSrc, Element0

\* The end of the title.
LEMMA FinishKeeps ==
  ASSUME NEW c, Sane(c), c.pb.item, NEW d, d = finishPlayback(c)
  PROVE  /\ Sane(d) /\ (\A w : Placed(d, w)) /\ d.sess = c.sess /\ d.retryT = <<>>
<1>1. PICK d0 : d0 = cancelSource(c)
  OBVIOUS
<1> DEFINE pb == [d0.pb EXCEPT !.status = "ended", !.intent = "paused", !.time = Dur]
           el == [c.el EXCEPT !.paused = TRUE]
<1>2. /\ d0 \in Controllers /\ d0.src = NoSrc /\ d0.pb \in Playbacks /\ d0.retryT = <<>> /\ d0.seekT = <<>>
      /\ d0.sess = c.sess /\ d0.enrich = c.enrich /\ d0.el = c.el
      /\ d0.pb = [c.pb EXCEPT !.pending = NoPos]
  BY <1>1, Cancelled
<1>3. d = [d0 EXCEPT !.pb = pb, !.el = el]
  BY <1>1, <1>2 DEF finishPlayback, Controllers
<1>4. Dur \in Places
  BY PlayerAssumption DEF Places
<1>5. c.pb \in Playbacks /\ c.el \in Elements
  BY Fields
<1>6. /\ pb \in Playbacks /\ pb.status = "ended" /\ pb.item
      /\ pb.off = c.pb.off /\ pb.mode = c.pb.mode /\ pb.pending = NoPos
  BY <1>2, <1>4, <1>5 DEF Playbacks, Intents
<1>7. el \in Elements /\ el.local = c.el.local
  BY <1>5 DEF Elements
<1> HIDE DEF pb, el, NoSrc
<1>8. /\ d \in Controllers /\ d.src = NoSrc /\ d.pb = pb /\ d.el = el /\ d.retryT = <<>>
      /\ d.seekT = <<>> /\ d.sess = c.sess /\ d.enrich = c.enrich
  BY ONLY <1>2, <1>3, <1>6, <1>7 DEF Controllers
<1>9. Driven(d) /\ Attends(d) /\ Positioned(d)
  <2>1. Driven(d)
    BY <1>6, <1>8, NothingLeft DEF Driven, Preparing
  <2>2. Attends(d)
    BY <1>6, <1>8, NothingLeft DEF Attends
  <2>3. Positioned(d)
    BY <1>6, <1>7, <1>8, NothingLeft DEF Positioned, Sane
  <2> QED BY <2>1, <2>2, <2>3
<1>10. \A w : Placed(d, w)
  BY <1>8, NothingLeft DEF Placed
<1> QED BY <1>8, <1>9, <1>10 DEF Sane

\* A seek outside what is prepared: the debounce timer takes over.
LEMMA RestartKeeps ==
  ASSUME NEW c, Sane(c), c.pb.mode = "compat", c.pb.item, ~c.enrich, NEW t \in Places,
         NEW d, d = restartAt(c, t)
  PROVE  Sane(d) /\ Placed(d, t) /\ d.src.wait = <<>>
<1>1. PICK d0 : d0 = cancelSource(c)
  OBVIOUS
<1> DEFINE pb == [d0.pb EXCEPT !.time = t, !.status = "seeking"]
           s == [start |-> t, nego |-> c.pb.nego, q |-> c.pb.q]
<1>2. /\ d0 \in Controllers /\ d0.src = NoSrc /\ d0.pb \in Playbacks /\ d0.retryT = <<>> /\ d0.seekT = <<>>
      /\ d0.sess = c.sess /\ d0.enrich = c.enrich /\ d0.el = c.el
      /\ d0.pb = [c.pb EXCEPT !.pending = NoPos]
  BY <1>1, Cancelled
<1>3. d = [d0 EXCEPT !.el = Element0, !.pb = pb, !.seekT = <<s>>]
  <2> HIDE DEF s, Element0
  <2>1. d = [d0 EXCEPT !.el = Element0, !.pb.time = t, !.pb.status = "seeking", !.seekT = <<s>>]
    BY <1>1 DEF restartAt, s
  <2> QED BY <1>2, <2>1 DEF Controllers
<1>4. c.pb \in Playbacks /\ c.pb.nego \in Plans /\ c.pb.q \in Qualities /\ c.pb.off \in Places
  BY Fields
<1>5. /\ pb \in Playbacks /\ pb.status = "seeking" /\ pb.item /\ pb.time = t
      /\ pb.off = c.pb.off /\ pb.mode = "compat" /\ pb.pending = NoPos
  BY <1>2, <1>4 DEF Playbacks, Preparing
<1>6. s \in Timers /\ s.start = t
  BY <1>4 DEF Timers
<1> HIDE DEF pb, s, NoSrc, Element0
<1>7. /\ d \in Controllers /\ d.src = NoSrc /\ d.pb = pb /\ d.el = Element0 /\ d.retryT = <<>>
      /\ d.seekT = <<s>> /\ d.enrich = c.enrich
  <2>1. <<s>> \in Opt(Timers)
    BY <1>6 DEF Opt
  <2>2. pb \in Playbacks /\ Element0 \in Elements
    BY <1>5, Element0_Element
  <2> QED BY ONLY <1>2, <1>3, <2>1, <2>2 DEF Controllers
<1>8. d.seekT # <<>> /\ d.seekT[1].start = t
  BY <1>6, <1>7
<1>9. Driven(d) /\ Attends(d)
  BY <1>5, <1>7, <1>8, NothingLeft DEF Driven, Attends, Preparing
<1>10. Positioned(d)
  BY <1>4, <1>5, <1>7, NothingLeft, PlayerAssumption DEF Positioned, Places
<1>11. Placed(d, t)
  BY <1>5, <1>7, <1>8, NothingLeft DEF Placed
<1> QED BY <1>7, <1>9, <1>10, <1>11, NothingLeft DEF Sane

\* A seek within what is prepared.
LEMMA BufferedKeeps ==
  ASSUME NEW c, Sane(c), reusable(c), c.pb.mode = "compat", NEW t \in Places, t >= c.pb.off,
         NEW d, d = bufferedSeek(c, t)
  PROVE  Sane(d) /\ Placed(d, t) /\ d.src.wait = <<>>
<1> DEFINE pb == [c.pb EXCEPT !.time = t, !.pending = t, !.status = "seeking"]
           src == [c.src EXCEPT !.wait = <<>>]
<1>1. c \in Controllers /\ c.pb \in Playbacks /\ c.src \in Sources
  BY Fields
<1>2. d = [c EXCEPT !.src = src, !.pb = pb, !.seekT = <<>>]
  BY <1>1 DEF bufferedSeek, Controllers
<1>3. /\ pb \in Playbacks /\ pb.status = "seeking" /\ pb.item = c.pb.item /\ pb.time = t
      /\ pb.off = c.pb.off /\ pb.mode = c.pb.mode /\ pb.pending = t
  BY <1>1 DEF Playbacks, Preparing
<1>4. /\ src \in Sources /\ src.wait = <<>> /\ src.on = c.src.on /\ src.mode = c.src.mode
      /\ src.start = c.src.start /\ src.mse = c.src.mse /\ src.native = c.src.native
      /\ src.negotiating = c.src.negotiating /\ src.rec = c.src.rec /\ src.startup = c.src.startup
  BY <1>1 DEF Sources, Opt
<1> HIDE DEF pb, src
<1>5. /\ d \in Controllers /\ d.src = src /\ d.pb = pb /\ d.el = c.el /\ d.retryT = c.retryT
      /\ d.seekT = <<>> /\ d.enrich = c.enrich
  BY <1>1, <1>2, <1>3, <1>4 DEF Controllers, Opt
<1>6. c.src.on /\ c.src.mse /\ ~c.src.negotiating
  BY DEF reusable, Sane, Attends
<1>7. Driven(d) /\ Attends(d)
  BY <1>3, <1>4, <1>5, <1>6 DEF Sane, Driven, Attends, Preparing
<1>8. Positioned(d)
  <2>1. t # NoPos
    BY PlayerAssumption DEF Places, NoPos
  <2> QED BY <1>3, <1>4, <1>5, <1>6, <2>1 DEF Sane, Positioned
<1>9. Placed(d, t)
  BY <1>3, <1>4, <1>5, <1>6 DEF Placed, Sane, Driven
<1> QED BY <1>4, <1>5, <1>7, <1>8, <1>9 DEF Sane

\* What every step has to keep.
StepKeeps == PlayerInv' /\ IntentKept /\ PositionKept

\* A step that leaves the browser alone and ends in d, with the viewer at w.
LEMMA SaneNext ==
  ASSUME UNCHANGED env, NEW d, wp' = d, NEW w, wanted' = w, acts' \in Nat, w \in Places, env \in Envs,
         Sane(d), Placed(d, w)
  PROVE  PlayerInv'
<1>1. Driven(wp)' /\ Positioned(wp)' /\ (wp \in Controllers)'
  BY DEF Sane, Driven, Positioned
<1>2. Attends(wp)'
  BY DEF Sane, Attends
<1>3. Placed(wp, wanted)'
  BY DEF Placed
<1> QED BY <1>1, <1>2, <1>3 DEF PlayerInv, Sane

\* A step of the player alone that goes on for the viewer.
LEMMA Onward ==
  ASSUME PlayerInv, UNCHANGED <<acts, env, wanted>>, NEW d, wp' = d, Continues(wp, d, wanted)
  PROVE  StepKeeps
<1>1. PlayerInv'
  <2>1. Sane(d) /\ Placed(d, wanted) /\ wanted \in Places /\ acts \in Nat /\ env \in Envs
    BY DEF Continues, PlayerInv
  <2> QED BY <2>1, SaneNext
<1>2. IntentKept
  BY DEF Continues, IntentKept, Replaced
<1>3. PositionKept
  <2>1. wanted > 0 /\ Replaced => wp'.src.start = wanted
    BY DEF Continues, Replaced
  <2>2. wanted > 0 /\ wp'.retryT # <<>> => wp'.retryT[1].start = wanted
    BY DEF Continues, Placed
  <2> QED BY <2>1, <2>2 DEF PositionKept
<1> QED BY <1>1, <1>2, <1>3 DEF StepKeeps

\* A step that ends in d, with the viewer at w, and is no replacement of a source by the player.
LEMMA Moved ==
  ASSUME PlayerInv, UNCHANGED env, acts' \in Nat, NEW d, wp' = d, NEW w \in Places, wanted' = w,
         Sane(d), Placed(d, w), Automatic => d.sess = wp.sess /\ d.retryT = wp.retryT
  PROVE  StepKeeps
<1>1. PlayerInv'
  BY SaneNext DEF PlayerInv
<1>2. IntentKept /\ PositionKept
  BY DEF IntentKept, PositionKept, Replaced
<1> QED BY <1>1, <1>2 DEF StepKeeps

\* The viewer's turn is no step of the player alone.
LEMMA TheViewersTurn ==
  ASSUME PlayerInv, User
  PROVE  acts' \in Nat /\ ~Automatic
BY DEF PlayerInv, User, Automatic

-----------------------------------------------------------------------------
(* The viewer.                                                             *)

\* A new title, or none: nothing of the old session is left.
LEMMA ClearedKeeps ==
  ASSUME NEW pb,
         pb.status = "idle", pb.mode = "none", pb.off = 0, pb.pending = NoPos,
         NEW d, d \in Controllers, d.src = NoSrc, d.pb = pb, d.el = Element0, d.retryT = <<>>,
         d.seekT = <<>>
  PROVE  Sane(d) /\ Placed(d, 0)
<1>1. Driven(d) /\ Attends(d)
  BY NothingLeft DEF Driven, Attends, Preparing
<1>2. Positioned(d)
  BY NothingLeft, PlayerAssumption DEF Positioned
<1> QED BY <1>1, <1>2 DEF Sane, Placed

\* A new session keeps the source, what is played and the timers.
LEMMA NewSessionTyped ==
  ASSUME NEW c \in Controllers
  PROVE  /\ NewSession(c) \in Controllers /\ NewSession(c).src = c.src /\ NewSession(c).pb = c.pb
         /\ NewSession(c).el = c.el /\ NewSession(c).retryT = c.retryT /\ NewSession(c).seekT = c.seekT
<1> DEFINE rec == [c.rec EXCEPT !.pend = IF @ = "none" THEN "none" ELSE "old"]
<1>1. rec \in Recoveries /\ 1 - c.sess \in 0..1
  BY DEF Controllers, Recoveries
<1>2. NewSession(c) = [c EXCEPT !.sess = 1 - c.sess, !.enrich = FALSE, !.rec = rec]
  BY DEF NewSession, Controllers
<1> HIDE DEF rec
<1> QED BY <1>1, <1>2 DEF Controllers

\* A fresh recovery is within its allowances.
LEMMA Recovery0_Recovery == Recovery0 \in Recoveries
BY PlayerAssumption DEF Recovery0, Recoveries

\* Nothing played is a playback.
LEMMA NoPlayback_Playback ==
  /\ NoPlayback \in Playbacks /\ [NoPlayback EXCEPT !.item = TRUE] \in Playbacks
  /\ \A pb \in {NoPlayback, [NoPlayback EXCEPT !.item = TRUE]} :
       pb.status = "idle" /\ pb.mode = "none" /\ pb.off = 0 /\ pb.pending = NoPos
<1>1. 0 \in Places /\ NoNego \in Plans
  BY PlayerAssumption DEF Places, Plans
<1>2. /\ NoPlayback \in Playbacks /\ NoPlayback.status = "idle" /\ NoPlayback.mode = "none"
      /\ NoPlayback.off = 0 /\ NoPlayback.pending = NoPos
  BY <1>1 DEF NoPlayback, Playbacks, Modes, Qualities, Intents
<1> HIDE DEF NoPlayback
<1>3. [NoPlayback EXCEPT !.item = TRUE] \in Playbacks
  BY <1>2 DEF Playbacks
<1>4. \A pb \in {NoPlayback, [NoPlayback EXCEPT !.item = TRUE]} :
        pb.status = "idle" /\ pb.mode = "none" /\ pb.off = 0 /\ pb.pending = NoPos
  BY <1>2 DEF Playbacks
<1> QED BY <1>2, <1>3, <1>4

\* The viewer selects a title (select).
LEMMA SelectTitleKeeps == ASSUME PlayerInv, SelectTitle PROVE StepKeeps
<1>1. PICK a : a = [wp EXCEPT !.rec = Recovery0]
  OBVIOUS
<1>2. PICK b : b = cancelSource(a)
  OBVIOUS
<1>3. PICK e : e = NewSession(b)
  OBVIOUS
<1>4. PICK d : d = [e EXCEPT !.pb = [NoPlayback EXCEPT !.item = TRUE], !.el = Element0, !.enrich = TRUE]
  OBVIOUS
<1>5. wp' = d /\ wanted' = 0 /\ UNCHANGED env /\ User
  BY <1>1, <1>2, <1>3, <1>4 DEF SelectTitle, Do
<1>6. a \in Controllers
  BY <1>1, Recovery0_Recovery DEF PlayerInv, Sane, Controllers
<1>7. b \in Controllers /\ b.src = NoSrc /\ b.retryT = <<>> /\ b.seekT = <<>>
  <2>1. /\ b \in Controllers
        /\ b = [a EXCEPT !.src = NoSrc, !.pb = [a.pb EXCEPT !.pending = NoPos], !.retryT = <<>>, !.seekT = <<>>]
    BY <1>2, <1>6, CancelShape
  <2> HIDE DEF NoSrc
  <2> QED BY <1>6, <2>1 DEF Controllers
<1>8. e \in Controllers /\ e.src = NoSrc /\ e.retryT = <<>> /\ e.seekT = <<>>
  BY <1>3, <1>7, NewSessionTyped
<1> HIDE DEF NoSrc, NoPlayback, Element0
<1>9. /\ d \in Controllers /\ d.src = NoSrc /\ d.pb = [NoPlayback EXCEPT !.item = TRUE]
      /\ d.el = Element0 /\ d.retryT = <<>> /\ d.seekT = <<>>
  BY <1>4, <1>8, NoPlayback_Playback, Element0_Element DEF Controllers
<1>10. Sane(d) /\ Placed(d, 0)
  BY <1>9, NoPlayback_Playback, ClearedKeeps
<1>11. 0 \in Places
  BY PlayerAssumption DEF Places
<1> QED BY <1>5, <1>10, <1>11, Moved, TheViewersTurn

\* The viewer closes the player (closePlayback).
LEMMA CloseKeeps == ASSUME PlayerInv, Close PROVE StepKeeps
<1>1. PICK b : b = cancelSource(wp)
  OBVIOUS
<1>2. PICK e : e = NewSession(b)
  OBVIOUS
<1>3. PICK d : d = [e EXCEPT !.rec = Recovery0, !.pb = NoPlayback, !.el = Element0, !.susp = FALSE]
  OBVIOUS
<1>4. wp' = d /\ wanted' = 0 /\ UNCHANGED env /\ User
  BY <1>1, <1>2, <1>3 DEF Close, Do
<1>5. b \in Controllers /\ b.src = NoSrc /\ b.retryT = <<>> /\ b.seekT = <<>>
  BY <1>1, Cancelled DEF PlayerInv
<1>6. e \in Controllers /\ e.src = NoSrc /\ e.retryT = <<>> /\ e.seekT = <<>>
  BY <1>2, <1>5, NewSessionTyped
<1> HIDE DEF NoSrc, NoPlayback, Element0, Recovery0
<1>7. /\ d \in Controllers /\ d.src = NoSrc /\ d.pb = NoPlayback /\ d.el = Element0
      /\ d.retryT = <<>> /\ d.seekT = <<>>
  BY <1>3, <1>6, NoPlayback_Playback, Recovery0_Recovery, Element0_Element DEF Controllers
<1>8. Sane(d) /\ Placed(d, 0)
  BY <1>7, NoPlayback_Playback, ClearedKeeps
<1>9. 0 \in Places
  BY PlayerAssumption DEF Places
<1> QED BY <1>4, <1>8, <1>9, Moved, TheViewersTurn

\* A seek gives up what a recovery counted and a seek that was waiting.
ReadyToSeek(c, e) ==
  /\ Sane(e) /\ (\A w : Placed(c, w) => Placed(e, w)) /\ e.src.wait = <<>>
  /\ e.pb = c.pb /\ e.src.on = c.src.on /\ e.retryT = c.retryT /\ e.enrich = c.enrich

\* seekTo forgets the recovery and the seek that waited.
LEMMA SeekReady ==
  ASSUME NEW c, Sane(c), NEW e, e = [c EXCEPT !.rec = Recovery0, !.src.wait = <<>>]
  PROVE  ReadyToSeek(c, e)
<1> DEFINE src == [c.src EXCEPT !.wait = <<>>]
<1>1. c \in Controllers /\ c.src \in Sources
  BY Fields
<1>2. e = [c EXCEPT !.rec = Recovery0, !.src = src]
  BY <1>1 DEF Controllers
<1>3. /\ src \in Sources /\ src.wait = <<>> /\ src.on = c.src.on /\ src.mode = c.src.mode
      /\ src.start = c.src.start /\ src.mse = c.src.mse /\ src.native = c.src.native
      /\ src.negotiating = c.src.negotiating /\ src.rec = c.src.rec /\ src.startup = c.src.startup
  BY <1>1 DEF Sources, Opt
<1> HIDE DEF src, Recovery0
<1>4. /\ e \in Controllers /\ e.src = src /\ e.pb = c.pb /\ e.el = c.el /\ e.retryT = c.retryT
      /\ e.seekT = c.seekT /\ e.enrich = c.enrich
  BY <1>1, <1>2, <1>3, Recovery0_Recovery DEF Controllers
<1>5. Driven(e) /\ Attends(e) /\ Positioned(e)
  BY <1>3, <1>4 DEF Sane, Driven, Attends, Positioned
<1>6. \A w : Placed(c, w) => Placed(e, w)
  BY <1>3, <1>4 DEF Placed
<1> QED BY <1>3, <1>4, <1>5, <1>6 DEF ReadyToSeek, Sane

\* A seek in the file itself.
LEMMA OriginalSeekKeeps ==
  ASSUME NEW c, Sane(c), c.src.on, c.pb.mode = "original", NEW t \in Places,
         NEW d, d = [c EXCEPT !.el.local = t, !.pb.time = t]
  PROVE  Sane(d) /\ Placed(d, t) /\ d.src = c.src
<1> DEFINE pb == [c.pb EXCEPT !.time = t]
           el == [c.el EXCEPT !.local = t]
<1>1. c \in Controllers /\ c.pb \in Playbacks /\ c.el \in Elements
  BY Fields
<1>2. d = [c EXCEPT !.el = el, !.pb = pb]
  BY <1>1 DEF Controllers
<1>3. /\ pb \in Playbacks /\ pb.status = c.pb.status /\ pb.item = c.pb.item /\ pb.time = t
      /\ pb.off = c.pb.off /\ pb.mode = c.pb.mode /\ pb.pending = c.pb.pending
  BY <1>1 DEF Playbacks
<1>4. el \in Elements /\ el.local = t
  BY <1>1 DEF Elements
<1> HIDE DEF pb, el
<1>5. /\ d \in Controllers /\ d.src = c.src /\ d.pb = pb /\ d.el = el /\ d.retryT = c.retryT
      /\ d.seekT = c.seekT /\ d.enrich = c.enrich
  BY <1>1, <1>2, <1>3, <1>4 DEF Controllers
<1>6. Driven(d) /\ Attends(d)
  BY <1>3, <1>5 DEF Sane, Driven, Attends
<1>7. Positioned(d)
  BY <1>3, <1>4, <1>5, PlayerAssumption DEF Sane, Positioned, Places
<1>8. Placed(d, t)
  BY <1>3, <1>4, <1>5 DEF Placed, Sane, Driven
<1> QED BY <1>5, <1>6, <1>7, <1>8 DEF Sane

\* A seek that waits for the buffer.
WaitsToSeek(c, d) ==
  Sane(d) /\ (\A w : Placed(c, w) => Placed(d, w)) /\ d.src.wait # <<>>

\* A seek that waits for its segment leaves the player in place.
LEMMA WaitingKeeps ==
  ASSUME NEW c, Sane(c), reusable(c), c.pb.mode = "compat", NEW t \in Places, t >= c.pb.off,
         NEW d, d = [c EXCEPT !.src.wait = <<t>>]
  PROVE  WaitsToSeek(c, d)
<1> DEFINE src == [c.src EXCEPT !.wait = <<t>>]
<1>1. c \in Controllers /\ c.src \in Sources
  BY Fields
<1>2. d = [c EXCEPT !.src = src]
  BY <1>1 DEF Controllers
<1>3. /\ src \in Sources /\ src.wait = <<t>> /\ src.on = c.src.on /\ src.mode = c.src.mode
      /\ src.start = c.src.start /\ src.mse = c.src.mse /\ src.native = c.src.native
      /\ src.negotiating = c.src.negotiating /\ src.rec = c.src.rec /\ src.startup = c.src.startup
  BY <1>1 DEF Sources, Opt
<1> HIDE DEF src
<1>4. /\ d \in Controllers /\ d.src = src /\ d.pb = c.pb /\ d.el = c.el /\ d.retryT = c.retryT
      /\ d.seekT = c.seekT /\ d.enrich = c.enrich
  BY <1>1, <1>2, <1>3 DEF Controllers
<1>5. c.src.on /\ c.src.mse /\ ~c.src.negotiating /\ <<t>>[1] = t /\ <<t>> # <<>>
  BY DEF reusable, Sane, Attends
<1>6. Driven(d) /\ Attends(d) /\ Positioned(d)
  <2>1. Driven(c) /\ Attends(c) /\ Positioned(c)
    BY DEF Sane
  <2>2. Driven(d)
    BY ONLY <1>3, <1>4, <2>1 DEF Driven
  <2>3. Attends(d)
    BY ONLY <1>3, <1>4, <1>5, <2>1, t >= c.pb.off DEF Attends
  <2>4. Positioned(d)
    BY ONLY <1>3, <1>4, <2>1 DEF Positioned
  <2> QED BY <2>2, <2>3, <2>4
<1>7. \A w : Placed(c, w) => Placed(d, w)
  BY <1>3, <1>4 DEF Placed
<1> QED BY <1>3, <1>4, <1>5, <1>6, <1>7 DEF WaitsToSeek, Sane

\* The viewer seeks (seekTo).
LEMMA SeekToKeeps == ASSUME PlayerInv, NEW target \in 0..Dur, SeekTo(target) PROVE StepKeeps
<1>1. PICK c : c = [wp EXCEPT !.rec = Recovery0, !.src.wait = <<>>]
  OBVIOUS
<1>2. PICK d : d = wp'
  OBVIOUS
<1>3. /\ Sane(c) /\ (\A w : Placed(wp, w) => Placed(c, w)) /\ c.src.wait = <<>>
      /\ c.pb = wp.pb /\ c.src.on = wp.src.on /\ c.retryT = wp.retryT /\ c.enrich = wp.enrich
  <2>1. ReadyToSeek(wp, c)
    BY <1>1, SeekReady DEF PlayerInv
  <2> QED BY <2>1 DEF ReadyToSeek
<1>4. /\ \/ target = Dur /\ d = finishPlayback(c)
         \/ /\ target < Dur
            /\ d = loadSource(c, [Options(target, c.pb.intent) EXCEPT
                     !.force = IF c.pb.mode = "none" THEN "none" ELSE c.pb.mode,
                     !.nego = c.pb.nego, !.q = c.pb.q])
         \/ /\ target < Dur /\ c.src.on /\ c.pb.mode = "original"
            /\ d = [c EXCEPT !.el.local = target, !.pb.time = target]
         \/ /\ target < Dur /\ c.pb.mode = "compat" /\ (c.src.on \/ c.pb.status = "seeking")
            /\ \/ reusable(c) /\ target >= c.pb.off /\ d = bufferedSeek(c, target)
               \/ reusable(c) /\ target >= c.pb.off /\ d = [c EXCEPT !.src.wait = <<target>>]
               \/ d = restartAt(c, target)
      /\ wanted' = IF target = Dur THEN 0 ELSE IF d.src.wait # <<>> THEN wanted ELSE target
      /\ UNCHANGED env /\ User /\ wp.pb.item
  BY <1>1, <1>2 DEF SeekTo, Do
<1>5. target \in Places /\ 0 \in Places /\ wanted \in Places /\ Placed(wp, wanted)
  BY PlayerAssumption DEF Places, PlayerInv
<1>6. c.pb.status = "seeking" \/ c.src.on => ~c.enrich
  BY <1>3 DEF Sane, Driven, Preparing
<1>7. ASSUME NEW w \in Places, wanted' = w, Sane(d), Placed(d, w) PROVE StepKeeps
  BY <1>2, <1>4, <1>7, Moved, TheViewersTurn
<1>8. CASE target = Dur /\ d = finishPlayback(c)
  BY <1>3, <1>4, <1>5, <1>7, <1>8, FinishKeeps
<1>9. CASE /\ target < Dur
           /\ d = loadSource(c, [Options(target, c.pb.intent) EXCEPT
                     !.force = IF c.pb.mode = "none" THEN "none" ELSE c.pb.mode,
                     !.nego = c.pb.nego, !.q = c.pb.q])
  <2>1. c \in Controllers /\ c.pb.intent \in Intents /\ c.pb.nego \in Plans /\ c.pb.q \in Qualities
        /\ (IF c.pb.mode = "none" THEN "none" ELSE c.pb.mode) \in Modes
    BY <1>3, Fields
  <2>2. Ask([Options(target, c.pb.intent) EXCEPT
               !.force = IF c.pb.mode = "none" THEN "none" ELSE c.pb.mode,
               !.nego = c.pb.nego, !.q = c.pb.q], target, c.pb.intent)
    BY <1>5, <2>1, Asked
  <2>3. Resumed(d, target, c.pb.intent)
    BY <1>9, <2>1, <2>2, AskedResumes
  <2>4. Sane(d) /\ Placed(d, target) /\ d.src.wait = <<>>
    BY <2>3, ResumedPlaced DEF Resumed
  <2> QED BY <1>4, <1>5, <1>7, <1>9, <2>4
<1>10. CASE target < Dur /\ c.src.on /\ c.pb.mode = "original"
            /\ d = [c EXCEPT !.el.local = target, !.pb.time = target]
  <2>1. Sane(d) /\ Placed(d, target) /\ d.src = c.src
    BY <1>3, <1>5, <1>10, OriginalSeekKeeps
  <2> QED BY <1>3, <1>4, <1>5, <1>7, <1>10, <2>1
<1>11. CASE target < Dur /\ c.pb.mode = "compat" /\ reusable(c) /\ target >= c.pb.off
            /\ d = bufferedSeek(c, target)
  <2>1. Sane(d) /\ Placed(d, target) /\ d.src.wait = <<>>
    BY <1>3, <1>5, <1>11, BufferedKeeps
  <2> QED BY <1>4, <1>5, <1>7, <1>11, <2>1
<1>12. CASE target < Dur /\ c.pb.mode = "compat" /\ reusable(c) /\ target >= c.pb.off
            /\ d = [c EXCEPT !.src.wait = <<target>>]
  <2>1. Sane(d) /\ Placed(d, wanted) /\ d.src.wait # <<>>
    <3>1. WaitsToSeek(c, d)
      BY <1>3, <1>5, <1>12, WaitingKeeps
    <3> QED BY <1>3, <1>5, <3>1 DEF WaitsToSeek
  <2> QED BY <1>4, <1>5, <1>7, <1>12, <2>1
<1>13. CASE target < Dur /\ c.pb.mode = "compat" /\ (c.src.on \/ c.pb.status = "seeking")
            /\ d = restartAt(c, target)
  <2>1. Sane(d) /\ Placed(d, target) /\ d.src.wait = <<>>
    BY <1>3, <1>4, <1>5, <1>6, <1>13, RestartKeeps
  <2> QED BY <1>4, <1>5, <1>7, <1>13, <2>1
<1> QED BY <1>4, <1>8, <1>9, <1>10, <1>11, <1>12, <1>13

\* The viewer presses play or pause (togglePlay).
LEMMA TogglePlayKeeps == ASSUME PlayerInv, TogglePlay PROVE StepKeeps
<1>1. PICK c : c = [wp EXCEPT !.rec = Recovery0]
  OBVIOUS
<1>2. PICK d : d = wp'
  OBVIOUS
<1>3. /\ wp \in Controllers /\ Sane(wp) /\ wp.pb \in Playbacks /\ wp.el \in Elements /\ wp.src \in Sources
      /\ wp.pb.mode \in Modes /\ wp.pb.q \in Qualities /\ wp.pb.time \in Places /\ wp.pb.nego \in Plans
      /\ wanted \in Places /\ Placed(wp, wanted)
  BY Fields DEF PlayerInv
<1>4. c \in Controllers
  <2> HIDE DEF Recovery0
  <2> QED BY <1>1, <1>3, Recovery0_Recovery DEF Controllers
<1>5. 0 \in Places /\ "playing" \in Intents
  BY PlayerAssumption DEF Places, Intents
<1>6. UNCHANGED env /\ User /\ wp.pb.item
  BY DEF TogglePlay
<1>7. ASSUME NEW w \in Places, wanted' = w, Sane(d), Placed(d, w) PROVE StepKeeps
  BY <1>2, <1>6, <1>7, Moved, TheViewersTurn
<1>8. CASE wanted' = 0 /\ d = loadSource(c, [Options(0, "playing") EXCEPT !.force = wp.pb.mode])
  <2>1. Ask([Options(0, "playing") EXCEPT !.force = wp.pb.mode], 0, "playing")
    BY <1>3, <1>5, Asked, FalseOption
  <2>2. Resumed(d, 0, "playing")
    BY <1>4, <1>8, <2>1, AskedResumes
  <2> QED BY <1>5, <1>7, <1>8, <2>2, ResumedPlaced
<1>9. CASE /\ wanted' = wp.pb.time
           /\ d = loadSource(c, [Options(wp.pb.time, "playing") EXCEPT !.force = wp.pb.mode, !.q = wp.pb.q])
  <2>1. Ask([Options(wp.pb.time, "playing") EXCEPT !.force = wp.pb.mode, !.q = wp.pb.q],
            wp.pb.time, "playing")
    BY <1>3, <1>5, Asked, FalseOption
  <2>2. Resumed(d, wp.pb.time, "playing")
    BY <1>4, <1>9, <2>1, AskedResumes
  <2> QED BY <1>3, <1>7, <1>9, <2>2, ResumedPlaced
<1>10. ASSUME wanted' = wanted, wp.pb.status \notin {"ended", "error"}, suspended(wp),
              d = resumeSuspended(wp)
       PROVE  StepKeeps
  <2>1. Ask([Options(wp.pb.time, "playing") EXCEPT !.force = "compat", !.nego = wp.pb.nego, !.q = wp.pb.q],
            wp.pb.time, "playing")
    <3>1. "compat" \in Modes
      BY DEF Modes
    <3> QED BY <1>3, <1>5, <3>1, Asked
  <2>2. Resumed(d, wp.pb.time, "playing")
    BY <1>3, <1>10, <2>1, AskedResumes DEF resumeSuspended
  <2>3. wanted > 0 => wp.pb.time = wanted
    <3>1. wp.pb.mode = "compat"
      BY <1>10 DEF suspended, nativeHls
    <3>2. wp.pb.status \in {"paused", "playing"} \cup Preparing
      BY <1>3, <1>10, <3>1 DEF Sane, Driven, Playbacks
    <3>3. wp.src.on \/ wp.retryT # <<>> \/ wp.seekT # <<>>
      BY <1>3, <3>2 DEF Sane, Driven
    <3> QED BY <1>3, <3>1, <3>3 DEF Placed
  <2> QED BY <1>3, <1>7, <1>10, <2>2, <2>3, ResumedPlaced
<1>11. ASSUME NEW i \in Intents, NEW paused \in BOOLEAN, wanted' = wanted,
              paused \/ (~wp.src.negotiating) \/ d.el = wp.el,
              wp.src.negotiating => wp.el.paused,
              \/ d = [wp EXCEPT !.pb = [wp.pb EXCEPT !.intent = i], !.el = [wp.el EXCEPT !.paused = paused]]
              \/ d = [wp EXCEPT !.pb = [wp.pb EXCEPT !.intent = i]]
       PROVE  StepKeeps
  <2> DEFINE pb == [wp.pb EXCEPT !.intent = i]
             el == [wp.el EXCEPT !.paused = paused]
  <2>1. /\ pb \in Playbacks /\ pb.status = wp.pb.status /\ pb.item = wp.pb.item /\ pb.time = wp.pb.time
        /\ pb.off = wp.pb.off /\ pb.mode = wp.pb.mode /\ pb.pending = wp.pb.pending
    BY <1>3 DEF Playbacks
  <2>2. el \in Elements /\ el.local = wp.el.local /\ el.ready = wp.el.ready
        /\ (wp.el.paused /\ paused => el = wp.el)
    BY <1>3 DEF Elements
  <2> HIDE DEF pb, el
  <2>3. /\ d \in Controllers /\ d.src = wp.src /\ d.pb = pb /\ d.el \in {wp.el, el}
        /\ d.retryT = wp.retryT /\ d.seekT = wp.seekT /\ d.enrich = wp.enrich /\ d.sess = wp.sess
    <3>1. d = [wp EXCEPT !.pb = pb, !.el = el] \/ d = [wp EXCEPT !.pb = pb]
      BY <1>11 DEF pb, el
    <3> QED BY ONLY <1>3, <2>1, <2>2, <3>1 DEF Controllers
  <2>4. Alike(wp, d)
    BY <1>11, <2>1, <2>2, <2>3 DEF Alike
  <2> QED BY <1>3, <1>7, <1>11, <2>4, AlikeKeeps
<1>12. CASE wanted' = wanted /\ d = [wp EXCEPT !.pb.intent = "paused", !.el.paused = TRUE]
  <2>1. d = [wp EXCEPT !.pb = [wp.pb EXCEPT !.intent = "paused"], !.el = [wp.el EXCEPT !.paused = TRUE]]
    BY <1>3, <1>12 DEF Controllers
  <2>2. wp.src.negotiating => wp.el.paused
    BY <1>3 DEF Sane, Attends, Element0
  <2> QED BY <1>11, <1>12, <2>1, <2>2 DEF Intents
<1>13. CASE wanted' = wanted /\ d = attemptPlay([wp EXCEPT !.pb.intent = "playing"])
  <2>1. [wp EXCEPT !.pb.intent = "playing"] = [wp EXCEPT !.pb = [wp.pb EXCEPT !.intent = "playing"]]
    BY <1>3 DEF Controllers
  <2>2. PICK e : e = [wp EXCEPT !.pb = [wp.pb EXCEPT !.intent = "playing"]]
    OBVIOUS
  <2>3. e \in Controllers /\ e.src = wp.src /\ e.el = wp.el
        /\ [e EXCEPT !.el.paused = FALSE] = [wp EXCEPT !.pb = [wp.pb EXCEPT !.intent = "playing"],
                                                       !.el = [wp.el EXCEPT !.paused = FALSE]]
    <3>1. [wp.pb EXCEPT !.intent = "playing"] \in Playbacks
      BY <1>3 DEF Playbacks, Intents
    <3> QED BY <1>3, <2>2, <3>1 DEF Controllers
  <2>4. d = e \/ (~wp.src.negotiating /\ d = [e EXCEPT !.el.paused = FALSE])
    BY <1>13, <2>1, <2>2, <2>3 DEF attemptPlay
  <2>5. wp.src.negotiating => wp.el.paused
    BY <1>3 DEF Sane, Attends, Element0
  <2>6. d = e => d.el = wp.el
    BY <2>3
  <2> QED BY <1>5, <1>11, <1>13, <2>2, <2>3, <2>4, <2>5, <2>6
<1>14. \/ wanted' = 0 /\ d = loadSource(c, [Options(0, "playing") EXCEPT !.force = wp.pb.mode])
       \/ /\ wanted' = wp.pb.time
          /\ d = loadSource(c, [Options(wp.pb.time, "playing") EXCEPT !.force = wp.pb.mode, !.q = wp.pb.q])
       \/ /\ wanted' = wanted /\ wp.pb.status \notin {"ended", "error"}
          /\ \/ d = [wp EXCEPT !.pb.intent = "paused", !.el.paused = TRUE]
             \/ suspended(wp) /\ d = resumeSuspended(wp)
             \/ d = attemptPlay([wp EXCEPT !.pb.intent = "playing"])
  BY <1>1, <1>2 DEF TogglePlay, Do
<1> QED BY <1>8, <1>9, <1>10, <1>12, <1>13, <1>14

\* The viewer picks an audio track (#selectAudioTrack).
LEMMA SelectAudioKeeps == ASSUME PlayerInv, SelectAudio PROVE StepKeeps
<1>1. PICK d : d = wp'
  OBVIOUS
<1>2. PICK t : t = globalTime(wp)
  OBVIOUS
<1>3. wp \in Controllers /\ Sane(wp) /\ wp.pb.intent \in Intents /\ "compat" \in Modes
  BY Fields DEF PlayerInv, Modes
<1>4. t \in Places
  BY <1>2, <1>3, GlobalTime
<1>5. d = loadSource(wp, [Options(t, wp.pb.intent) EXCEPT !.force = "compat"])
      /\ wanted' = t /\ UNCHANGED env /\ User
  BY <1>1, <1>2 DEF SelectAudio, Do
<1>6. Ask([Options(t, wp.pb.intent) EXCEPT !.force = "compat"], t, wp.pb.intent)
  BY <1>3, <1>4, Asked, FalseOption
<1>7. Resumed(d, t, wp.pb.intent)
  BY <1>3, <1>5, <1>6, AskedResumes
<1>8. Sane(d) /\ Placed(d, t)
  BY <1>7, ResumedPlaced
<1> QED BY <1>1, <1>4, <1>5, <1>8, Moved, TheViewersTurn

\* Where the title is, is where an undriven or Original player is placed.
LEMMA GlobalPlaced ==
  ASSUME NEW c, Sane(c), c.pb.mode # "compat"
  PROVE  Placed(c, globalTime(c))
<1>1. c.pb.mode = "original" \/ ~c.src.on
  BY Fields DEF Sane, Attends, Modes
<1>2. c.retryT = <<>> /\ c.seekT = <<>>
  BY DEF Sane, Driven
<1>3. CASE ~c.src.on
  BY <1>2, <1>3 DEF Placed
<1>4. CASE c.src.on /\ c.pb.mode = "original"
  <2>1. globalTime(c) = c.el.local /\ (c.el.local = 0 \/ c.pb.time \in {0, c.el.local})
    BY <1>4, GlobalTime DEF Sane, Positioned
  <2> QED BY <1>2, <1>4, <2>1 DEF Placed
<1> QED BY <1>1, <1>3, <1>4

\* The viewer picks a quality (#selectQuality).
LEMMA SelectQualityKeeps ==
  ASSUME PlayerInv, NEW q \in {"auto", "low"}, SelectQuality(q)
  PROVE  StepKeeps
<1> DEFINE src == [wp.src EXCEPT !.epoch = FALSE]
           mode == IF q # "auto" THEN "compat" ELSE wp.prefMode
           force == IF q # "auto" THEN "compat" ELSE "none"
<1>1. PICK d : d = wp'
  OBVIOUS
<1>2. PICK c : c = [wp EXCEPT !.prefQ = q, !.src.epoch = FALSE,
                              !.prefMode = IF q # "auto" THEN "compat" ELSE @]
  OBVIOUS
<1>3. /\ wp \in Controllers /\ Sane(wp) /\ wp.src \in Sources /\ wanted \in Places
      /\ wp.pb.intent \in Intents /\ Placed(wp, wanted)
  BY Fields DEF PlayerInv
<1>4. /\ src \in Sources /\ src.on = wp.src.on /\ src.mode = wp.src.mode /\ src.start = wp.src.start
      /\ src.native = wp.src.native /\ src.mse = wp.src.mse /\ src.negotiating = wp.src.negotiating
      /\ src.wait = wp.src.wait /\ src.rec = wp.src.rec /\ src.startup = wp.src.startup
  BY <1>3 DEF Sources
<1>5. c = [wp EXCEPT !.prefQ = q, !.src = src, !.prefMode = mode]
  BY <1>2, <1>3 DEF Controllers
<1>6. mode \in {"auto", "compat"} /\ force \in Modes
  BY <1>3 DEF Controllers, Modes
<1> HIDE DEF src, mode, force
<1>7. c \in Controllers /\ Like(wp, c)
  <2>1. /\ c \in Controllers /\ c.src = src /\ c.pb = wp.pb /\ c.el = wp.el /\ c.retryT = wp.retryT
        /\ c.seekT = wp.seekT /\ c.enrich = wp.enrich /\ c.sess = wp.sess
    BY <1>3, <1>4, <1>5, <1>6 DEF Controllers
  <2> QED BY <1>4, <2>1 DEF Like
<1>8. Sane(c) /\ globalTime(c) = globalTime(wp) /\ (\A w : Placed(wp, w) => Placed(c, w))
  BY <1>3, <1>7, LikeKeeps
<1>9. PICK t : t = globalTime(c)
  OBVIOUS
<1>10. t \in Places
  BY <1>8, <1>9, GlobalTime
<1>11. /\ \/ wp.pb.item /\ d = loadSource(c, [Options(t, wp.pb.intent) EXCEPT !.force = force])
          \/ ~(wp.pb.item /\ wp.pb.mode = "compat")
             /\ d = [c EXCEPT !.src = IF wp.src.on THEN @ ELSE NoSrc]
       /\ wanted' = IF wp.pb.item THEN t ELSE wanted
       /\ UNCHANGED env /\ User
  BY <1>1, <1>2, <1>8, <1>9, Zenon DEF SelectQuality, Do, force
<1>12. ASSUME NEW w \in Places, wanted' = w, Sane(d), Placed(d, w) PROVE StepKeeps
  BY <1>1, <1>11, <1>12, Moved, TheViewersTurn
<1>13. CASE wp.pb.item /\ d = loadSource(c, [Options(t, wp.pb.intent) EXCEPT !.force = force])
  <2>1. Ask([Options(t, wp.pb.intent) EXCEPT !.force = force], t, wp.pb.intent)
    BY <1>3, <1>6, <1>10, Asked, FalseOption
  <2>2. Resumed(d, t, wp.pb.intent)
    BY <1>7, <1>13, <2>1, AskedResumes
  <2> QED BY <1>10, <1>11, <1>12, <1>13, <2>2, ResumedPlaced
<1>14. CASE ~(wp.pb.item /\ wp.pb.mode = "compat") /\ d = [c EXCEPT !.src = IF wp.src.on THEN @ ELSE NoSrc]
  <2>1. /\ c.pb = wp.pb /\ c.src.on = wp.src.on
    BY <1>7 DEF Like
  <2>2. CASE wp.src.on
    <3>1. d = c
      BY <1>7, <1>14, <2>2 DEF Controllers
    <3>2. wp.pb.item /\ wp.pb.mode # "compat"
      BY <1>3, <1>14, <2>2 DEF Sane, Driven
    <3>3. Placed(d, t)
      BY <1>8, <1>9, <2>1, <3>1, <3>2, GlobalPlaced
    <3> QED BY <1>8, <1>10, <1>11, <1>12, <3>1, <3>2, <3>3
  <2>3. CASE ~wp.src.on
    <3>1. d = [c EXCEPT !.src = NoSrc]
      BY <1>14, <2>3
    <3> HIDE DEF NoSrc
    <3>2. /\ d \in Controllers /\ d.src = NoSrc /\ d.pb = c.pb /\ d.el = c.el /\ d.retryT = c.retryT
          /\ d.seekT = c.seekT /\ d.enrich = c.enrich
      BY <1>7, <3>1, NoSrc_Source DEF Controllers
    <3>3. ~c.src.on /\ c.pb.pending = NoPos /\ c.retryT = <<>> /\ c.seekT = <<>>
      BY <1>3, <1>8, <1>14, <2>1, <2>3 DEF Sane, Driven, Attends
    <3>4. Sane(d)
      BY <1>8, <3>2, <3>3, NothingLeft DEF Sane, Driven, Attends, Positioned
    <3>5. \A w : Placed(d, w)
      BY <3>2, <3>3, NothingLeft DEF Placed
    <3> QED BY <1>3, <1>10, <1>11, <1>12, <3>4, <3>5
  <2> QED BY <2>2, <2>3
<1> QED BY <1>11, <1>13, <1>14

\* What the library answers, what is visible, what played well.
LEMMA AsideKeeps ==
  ASSUME PlayerInv, CapabilitiesChange \/ Visibility \/ Healthy
  PROVE  StepKeeps
<1> DEFINE src1 == [wp.src EXCEPT !.epoch = IF wp.src.on THEN FALSE ELSE @]
           src2 == [wp.src EXCEPT !.retry = FALSE]
<1>1. PICK d : d = wp'
  OBVIOUS
<1>2. /\ wp \in Controllers /\ Sane(wp) /\ wp.src \in Sources /\ wanted \in Places /\ Placed(wp, wanted)
      /\ wp.rec \in Recoveries
  BY Fields DEF PlayerInv
<1>3. \A s \in {src1, src2} :
        /\ s \in Sources /\ s.on = wp.src.on /\ s.mode = wp.src.mode /\ s.start = wp.src.start
        /\ s.native = wp.src.native /\ s.mse = wp.src.mse /\ s.negotiating = wp.src.negotiating
        /\ s.wait = wp.src.wait /\ s.rec = wp.src.rec /\ s.startup = wp.src.startup
  <2> DEFINE Same(s) ==
        /\ s \in Sources /\ s.on = wp.src.on /\ s.mode = wp.src.mode /\ s.start = wp.src.start
        /\ s.native = wp.src.native /\ s.mse = wp.src.mse /\ s.negotiating = wp.src.negotiating
        /\ s.wait = wp.src.wait /\ s.rec = wp.src.rec /\ s.startup = wp.src.startup
  <2>1. \A e \in BOOLEAN : Same([wp.src EXCEPT !.epoch = e])
    BY <1>2 DEF Sources
  <2>2. Same([wp.src EXCEPT !.retry = FALSE])
    BY <1>2 DEF Sources
  <2>3. wp.src.epoch \in BOOLEAN
    BY <1>2 DEF Sources
  <2> HIDE DEF Same
  <2>4. Same(src1)
    BY <2>1, <2>3
  <2>5. \A s \in {src1, src2} : Same(s)
    BY <2>2, <2>4
  <2> QED BY <2>5 DEF Same
<1>4. UNCHANGED <<env, wanted>> /\ User
  BY DEF CapabilitiesChange, Visibility, Healthy
<1>5. ASSUME Like(wp, d) PROVE StepKeeps
  BY <1>1, <1>2, <1>4, <1>5, LikeKeeps, Moved, TheViewersTurn
<1>6. CASE CapabilitiesChange
  <2>1. d = [wp EXCEPT !.transcoding = ~@, !.src = src1]
    BY <1>1, <1>2, <1>6 DEF CapabilitiesChange, Do, Controllers
  <2>2. PICK s : s = src1
    OBVIOUS
  <2>3. /\ s \in Sources /\ s.on = wp.src.on /\ s.mode = wp.src.mode /\ s.start = wp.src.start
        /\ s.native = wp.src.native /\ s.mse = wp.src.mse /\ s.negotiating = wp.src.negotiating
        /\ s.wait = wp.src.wait /\ s.rec = wp.src.rec /\ s.startup = wp.src.startup
    BY <1>3, <2>2
  <2> HIDE DEF src1
  <2>4. /\ d \in Controllers /\ d.src = s /\ d.pb = wp.pb /\ d.el = wp.el /\ d.retryT = wp.retryT
        /\ d.seekT = wp.seekT /\ d.enrich = wp.enrich /\ d.sess = wp.sess
    BY <1>2, <2>1, <2>2, <2>3 DEF Controllers
  <2> QED BY <1>5, <2>3, <2>4 DEF Like
<1>7. CASE Visibility
  <2>1. PICK x \in BOOLEAN : d = [wp EXCEPT !.hidden = ~@, !.susp = x]
    <3>1. PICK kept \in BOOLEAN :
            d = [wp EXCEPT !.hidden = ~@,
                           !.susp = IF ~wp.hidden THEN (@ \/ nativeHls(wp))
                                    ELSE @ /\ ~(kept /\ wp.src.on /\ ~wp.el.paused)]
      BY <1>1, <1>7 DEF Visibility, Do
    <3>2. (IF ~wp.hidden THEN (wp.susp \/ nativeHls(wp))
           ELSE wp.susp /\ ~(kept /\ wp.src.on /\ ~wp.el.paused)) \in BOOLEAN
      BY Zenon
    <3> QED BY <1>2, <3>1, <3>2 DEF Controllers
  <2>2. /\ d \in Controllers /\ d.src = wp.src /\ d.pb = wp.pb /\ d.el = wp.el /\ d.retryT = wp.retryT
        /\ d.seekT = wp.seekT /\ d.enrich = wp.enrich /\ d.sess = wp.sess
    BY <1>2, <2>1 DEF Controllers
  <2> QED BY <1>5, <2>2 DEF Like
<1>8. CASE Healthy
  <2>1. d = [wp EXCEPT !.rec = healthy(wp.rec), !.src = src2]
    BY <1>1, <1>2, <1>8 DEF Healthy, Do, Controllers
  <2>2. PICK s : s = src2
    OBVIOUS
  <2>3. /\ s \in Sources /\ s.on = wp.src.on /\ s.mode = wp.src.mode /\ s.start = wp.src.start
        /\ s.native = wp.src.native /\ s.mse = wp.src.mse /\ s.negotiating = wp.src.negotiating
        /\ s.wait = wp.src.wait /\ s.rec = wp.src.rec /\ s.startup = wp.src.startup
    BY <1>3, <2>2
  <2>4. healthy(wp.rec) \in Recoveries
    BY <1>2, PlayerAssumption DEF healthy, Recoveries
  <2> HIDE DEF src2
  <2>5. /\ d \in Controllers /\ d.src = s /\ d.pb = wp.pb /\ d.el = wp.el /\ d.retryT = wp.retryT
        /\ d.seekT = wp.seekT /\ d.enrich = wp.enrich /\ d.sess = wp.sess
    BY <1>2, <2>1, <2>2, <2>3, <2>4 DEF Controllers
  <2> QED BY <1>5, <2>3, <2>5 DEF Like
<1> QED BY <1>6, <1>7, <1>8

-----------------------------------------------------------------------------
(* The player by itself.                                                   *)

\* The title's details arrive (select).
LEMMA EnrichedKeeps == ASSUME PlayerInv, Enriched PROVE StepKeeps
<1>1. PICK d : d = wp'
  OBVIOUS
<1>2. PICK start \in Starts : d = loadSource(wp, Options(start, "playing")) /\ wanted' = start
  BY <1>1 DEF Enriched, Do
<1>3. wp \in Controllers /\ start \in Places /\ "playing" \in Intents
  BY Fields, PlayerAssumption DEF PlayerInv, Places, Intents
<1>4. Ask(Options(start, "playing"), start, "playing")
  BY <1>3, Asked, FalseOption
<1>5. Resumed(d, start, "playing")
  BY <1>2, <1>3, <1>4, AskedResumes
<1>6. Sane(d) /\ Placed(d, start)
  BY <1>5, ResumedPlaced
<1>7. UNCHANGED <<acts, env>> /\ acts' \in Nat /\ ~Automatic
  BY DEF Enriched, ByItself, Automatic, PlayerInv
<1> QED BY <1>1, <1>2, <1>3, <1>6, <1>7, Moved

\* The status a seek waited for arrives (seekTo).
LEMMA WaitedSeekKeeps == ASSUME PlayerInv, WaitedSeek PROVE StepKeeps
<1> DEFINE src == [wp.src EXCEPT !.wait = <<>>]
           t == wp.src.wait[1]
<1>1. PICK d : d = wp'
  OBVIOUS
<1>2. PICK c : c = [wp EXCEPT !.src.wait = <<>>]
  OBVIOUS
<1>3. /\ wp \in Controllers /\ Sane(wp) /\ wp.src \in Sources /\ wp.src.wait \in Opt(Places)
  BY Fields DEF PlayerInv
<1>4. wp.src.wait # <<>> /\ t \in Places
  BY <1>3 DEF WaitedSeek, Opt
<1>5. /\ src \in Sources /\ src.on = wp.src.on /\ src.mode = wp.src.mode /\ src.start = wp.src.start
      /\ src.native = wp.src.native /\ src.mse = wp.src.mse /\ src.negotiating = wp.src.negotiating
      /\ src.wait = <<>> /\ src.rec = wp.src.rec /\ src.startup = wp.src.startup
  BY <1>3 DEF Sources, Opt
<1> HIDE DEF src, t
<1>6. /\ c \in Controllers /\ c.src = src /\ c.pb = wp.pb /\ c.el = wp.el /\ c.retryT = wp.retryT
      /\ c.seekT = wp.seekT /\ c.enrich = wp.enrich
  BY <1>2, <1>3, <1>5 DEF src, Controllers
<1>7. Sane(c)
  BY <1>3, <1>5, <1>6 DEF Sane, Driven, Attends, Positioned
<1>8. c.src.on /\ c.pb.mode = "compat" /\ c.pb.item /\ ~c.enrich /\ t >= c.pb.off
  BY <1>3, <1>4, <1>5, <1>6 DEF Sane, Driven, Attends, t
<1>9. (reusable(c) /\ d = bufferedSeek(c, t)) \/ d = restartAt(c, t)
  BY <1>1, <1>2 DEF WaitedSeek, Do, t
<1>10. Sane(d) /\ Placed(d, t)
  BY <1>4, <1>7, <1>8, <1>9, BufferedKeeps, RestartKeeps
<1>11. UNCHANGED <<acts, env>> /\ acts' \in Nat /\ ~Automatic /\ wanted' = t
  BY DEF WaitedSeek, ByItself, Automatic, PlayerInv, t
<1> QED BY <1>1, <1>4, <1>10, <1>11, Moved

\* The two timers of the controller load what they were set for.
LEMMA TimerKeeps == ASSUME PlayerInv, SeekTimer \/ RetryTimer PROVE StepKeeps
<1>1. PICK d : d = wp'
  OBVIOUS
<1>2. /\ wp \in Controllers /\ Sane(wp) /\ wp.rec \in Recoveries /\ Placed(wp, wanted) /\ wanted \in Places
      /\ wp.retryT \in Opt(Timers) /\ wp.seekT \in Opt(Timers) /\ wp.pb.intent \in Intents
  BY Fields DEF PlayerInv
<1>3. PICK c \in Controllers, s \in {wp.seekT, wp.retryT} :
        /\ s # <<>>
        /\ d = loadSource(c, [Options(s[1].start, wp.pb.intent) EXCEPT
                                !.force = "compat", !.nego = s[1].nego, !.q = s[1].q])
  <2>1. CASE SeekTimer
    <3>1. PICK c : c = [wp EXCEPT !.seekT = <<>>]
      OBVIOUS
    <3>2. c \in Controllers
      BY <1>2, <3>1 DEF Controllers, Opt
    <3>3. /\ wp.seekT # <<>>
          /\ d = loadSource(c, [Options(wp.seekT[1].start, wp.pb.intent) EXCEPT
                                !.force = "compat", !.nego = wp.seekT[1].nego, !.q = wp.seekT[1].q])
      BY <1>1, <2>1, <3>1 DEF SeekTimer, Do
    <3> QED BY <3>2, <3>3
  <2>2. CASE RetryTimer
    <3> DEFINE rec == [wp.rec EXCEPT !.pend = IF @ = "this" THEN "none" ELSE @]
    <3>1. PICK c : c = [wp EXCEPT !.retryT = <<>>, !.rec.pend = IF @ = "this" THEN "none" ELSE @]
      OBVIOUS
    <3>2. rec \in Recoveries /\ <<>> \in Opt(Timers)
      BY <1>2 DEF Recoveries, Opt
    <3>3. c = [wp EXCEPT !.retryT = <<>>, !.rec = rec]
      BY <1>2, <3>1 DEF Controllers
    <3> HIDE DEF rec
    <3>4. c \in Controllers
      BY <1>2, <3>2, <3>3 DEF Controllers
    <3>5. /\ wp.retryT # <<>>
          /\ d = loadSource(c, [Options(wp.retryT[1].start, wp.pb.intent) EXCEPT
                                !.force = "compat", !.nego = wp.retryT[1].nego, !.q = wp.retryT[1].q])
      BY <1>1, <2>2, <3>1 DEF RetryTimer, Do
    <3> QED BY <3>4, <3>5
  <2> QED BY <2>1, <2>2
<1>4. PICK t, n, q : t = s[1].start /\ n = s[1].nego /\ q = s[1].q
  OBVIOUS
<1>5. t \in Places /\ n \in Plans /\ q \in Qualities /\ "compat" \in Modes
  BY <1>2, <1>3, <1>4, TimerFields DEF Modes
<1>6. Ask([Options(t, wp.pb.intent) EXCEPT !.force = "compat", !.nego = n, !.q = q], t, wp.pb.intent)
  BY <1>2, <1>5, Asked
<1>7. Resumed(d, t, wp.pb.intent)
  BY <1>2, <1>3, <1>4, <1>6, AskedResumes
<1>8. wanted > 0 => t = wanted
  BY <1>2, <1>3, <1>4 DEF Placed
<1>9. Continues(wp, d, wanted)
  BY <1>2, <1>5, <1>7, <1>8, ResumedContinues
<1>10. UNCHANGED <<acts, env, wanted>>
  BY DEF SeekTimer, RetryTimer, ByItself
<1> QED BY <1>1, <1>9, <1>10, Onward

\* The browser has decided on the streams (#loadSource).
LEMMA NegotiatedKeeps == ASSUME PlayerInv, Negotiated PROVE StepKeeps
<1>1. PICK d : d = wp'
  OBVIOUS
<1>2. /\ wp \in Controllers /\ Sane(wp) /\ Placed(wp, wanted) /\ wanted \in Places /\ wp.src \in Sources
      /\ wp.pb.intent \in Intents /\ wp.pb.time \in Places /\ wp.src.force \in Modes /\ wp.src.q \in Qualities
  BY Fields DEF PlayerInv
<1>3. /\ wp.src.on /\ wp.src.negotiating /\ wp.src.rec = <<>> /\ wp.src.wait = <<>> /\ wp.pb.pending = NoPos
      /\ wp.pb.mode = "compat" /\ wp.src.mode = "compat" /\ wp.pb.status = "loading" /\ ~wp.src.mse
      /\ wp.src.start = wp.pb.time /\ wp.el = Element0 /\ ~wp.src.startup
      /\ (env.dev = "safari" => wp.src.native)
      /\ wp.pb.item /\ ~wp.enrich /\ wp.retryT = <<>> /\ wp.seekT = <<>> /\ wp.pb.time >= wp.pb.off
  BY <1>2 DEF Negotiated, Sane, Attends, Driven, Positioned
<1>4. wanted > 0 => wp.pb.time = wanted
  BY <1>2, <1>3 DEF Placed
<1>5. UNCHANGED <<acts, env, wanted>>
  BY DEF Negotiated, ByItself
<1>6. ASSUME Resumed(d, wp.pb.time, wp.pb.intent) PROVE StepKeeps
  BY <1>1, <1>2, <1>4, <1>5, <1>6, ResumedContinues, Onward
<1>7. ASSUME NEW n \in Negos, d = attachSource([wp EXCEPT !.src.nego = n]) PROVE StepKeeps
  <2> DEFINE src == [wp.src EXCEPT !.nego = n]
  <2>1. PICK c : c = [wp EXCEPT !.src.nego = n]
    OBVIOUS
  <2>2. c = [wp EXCEPT !.src = src]
    BY <1>2, <2>1 DEF Controllers
  <2>3. /\ src \in Sources /\ src.on = wp.src.on /\ src.mode = wp.src.mode /\ src.start = wp.src.start
        /\ src.native = wp.src.native /\ src.mse = wp.src.mse /\ src.negotiating = wp.src.negotiating
        /\ src.wait = wp.src.wait /\ src.rec = wp.src.rec /\ src.startup = wp.src.startup /\ src.nego = n
    <3>1. n \in Plans
      BY <1>7 DEF Plans
    <3> QED BY <1>2, <3>1 DEF Sources
  <2> HIDE DEF src
  <2>4. /\ c \in Controllers /\ c.src = src /\ c.pb = wp.pb /\ c.el = wp.el /\ c.retryT = wp.retryT
        /\ c.seekT = wp.seekT /\ c.enrich = wp.enrich
    BY <1>2, <2>2, <2>3 DEF Controllers
  <2>5. Unattached(c)
    BY <1>2, <1>3, <2>3, <2>4, Fields DEF Unattached, Places
  <2>6. Resumed(d, c.pb.time, c.pb.intent)
    BY <1>7, <2>1, <2>5, AttachResumes
  <2> QED BY <1>6, <2>4, <2>6
<1>8. ASSUME d = loadSource(wp, [Options(wp.src.start, wp.pb.intent) EXCEPT
                                  !.force = wp.src.force,
                                  !.q = IF wp.src.q = "auto" THEN "none" ELSE wp.src.q])
      PROVE  StepKeeps
  <2>1. PICK q : q = IF wp.src.q = "auto" THEN "none" ELSE wp.src.q
    OBVIOUS
  <2>2. q \in Qualities
    BY <1>2, <2>1 DEF Qualities
  <2>3. Ask([Options(wp.pb.time, wp.pb.intent) EXCEPT !.force = wp.src.force, !.q = q],
            wp.pb.time, wp.pb.intent)
    BY <1>2, <2>2, Asked, FalseOption
  <2>4. Resumed(d, wp.pb.time, wp.pb.intent)
    BY <1>2, <1>3, <1>8, <2>1, <2>3, AskedResumes
  <2> QED BY <1>6, <2>4
<1>9. negotiateCompatibleStreams(wp.src.q) \subseteq Negos
  BY PlayerAssumption DEF negotiateCompatibleStreams
<1>10. \/ \E n \in negotiateCompatibleStreams(wp.src.q) : d = attachSource([wp EXCEPT !.src.nego = n])
       \/ d = loadSource(wp, [Options(wp.src.start, wp.pb.intent) EXCEPT
                                  !.force = wp.src.force,
                                  !.q = IF wp.src.q = "auto" THEN "none" ELSE wp.src.q])
  BY <1>1 DEF Negotiated, Do
<1> QED BY <1>7, <1>8, <1>9, <1>10

\* An answer of the server is remembered and may admit a recovery.
LEMMA HeardLike ==
  ASSUME NEW c, Sane(c), NEW st \in Statuses \cup {"offline"}, NEW e, e = heard(c, st)
  PROVE  Like(c, e) /\ e.src.rec = c.src.rec /\ e \in Controllers
<1> DEFINE src == [c.src EXCEPT !.srv = st]
<1>1. c \in Controllers /\ c.src \in Sources
  BY Fields
<1>2. CASE st = "offline"
  BY <1>1, <1>2 DEF heard, Like
<1>3. CASE st # "offline"
  <2>1. e = [c EXCEPT !.src = src]
    BY <1>1, <1>3 DEF heard, Controllers
  <2>2. /\ src \in Sources /\ src.on = c.src.on /\ src.mode = c.src.mode /\ src.start = c.src.start
        /\ src.native = c.src.native /\ src.mse = c.src.mse /\ src.negotiating = c.src.negotiating
        /\ src.wait = c.src.wait /\ src.rec = c.src.rec /\ src.startup = c.src.startup
    BY <1>1, <1>3 DEF Sources
  <2> HIDE DEF src
  <2>3. /\ e \in Controllers /\ e.src = src /\ e.pb = c.pb /\ e.el = c.el /\ e.retryT = c.retryT
        /\ e.seekT = c.seekT /\ e.enrich = c.enrich /\ e.sess = c.sess
    BY <1>1, <2>1, <2>2 DEF Controllers
  <2> QED BY <2>2, <2>3 DEF Like
<1> QED BY <1>2, <1>3

\* The retries an answer admits are no more than an answer.
LEMMA AdmittedLike ==
  ASSUME NEW c, Sane(c), NEW st, NEW e, e = [c EXCEPT !.rec = admitted(@, st)]
  PROVE  Like(c, e) /\ e.src = c.src /\ e \in Controllers
<1>1. c \in Controllers /\ admitted(c.rec, st) \in Recoveries
  BY Fields, AdmittedTyped
<1> QED BY <1>1 DEF Like, Controllers

\* The producer answers with a status, or not at all.
LEMMA AnswersTyped ==
  ASSUME PlayerInv
  PROVE  Answers \subseteq Statuses \cup {"offline"}
<1>1. wp.src.srv \in Statuses
  BY Fields DEF PlayerInv, Sources
<1> QED BY <1>1 DEF Answers, Reports, Statuses

\* Recovery of a prepared stream, begun again elsewhere, or given up.
LEMMA FallbackContinues ==
  ASSUME NEW c, Sane(c), c.src.on, c.pb.mode = "compat", c.src.wait = <<>>, NEW w \in Places, Placed(c, w),
         NEW d, d = fallbackNativeHlsCopy(c)
  PROVE  Continues(c, d, w)
<1> DEFINE t == Or(globalTime(c), c.pb.time)
<1>1. Resumed(d, t, c.pb.intent)
  BY FallbackResumes
<1>2. globalTime(c) \in Places /\ c.pb.time \in Places
  BY GlobalTime, Fields
<1>3. w > 0 => t = w
  BY <1>2, Here DEF Or
<1> HIDE DEF t
<1> QED BY <1>1, <1>3, ResumedContinues

\* The two halves of an answer.
LEMMA LikeThen ==
  ASSUME NEW c, NEW e, NEW d, NEW w, Like(c, e), Continues(e, d, w)
  PROVE  Continues(c, d, w)
BY DEF Like, Continues

\* The status of the producer is polled (#pollTranscodeState).
LEMMA PollKeeps == ASSUME PlayerInv, Poll PROVE StepKeeps
<1>1. PICK d : d = wp'
  OBVIOUS
<1>2. PICK st \in Answers :
        LET preparing == wp.pb.status \in Preparing
            c == [heard(wp, st) EXCEPT !.rec = admitted(@, st)]
            try == scheduleCompatibleRetry(c, c.pb.time, c.pb.intent, c.pb.nego, FALSE) IN
        d = CASE st = "offline" -> IF preparing THEN failSource(c) ELSE c
              [] st = "failed" -> IF nativeCopyFails(c) THEN fallbackNativeHlsCopy(c) ELSE failSource(c)
              [] st = "cancelled" -> IF try.did THEN try.c ELSE failSource(c)
              [] OTHER ->
                   LET c1 == IF preparing /\ st \in {"queued", "starting", "producing"}
                             THEN [c EXCEPT !.pb.status = "loading"] ELSE c
                   IN  IF preparing /\ ~c.src.mse /\ st = "producing" /\ needsStartup(c)
                       THEN [c1 EXCEPT !.src.startup = TRUE] ELSE c1
  BY <1>1 DEF Poll, Do
<1>3. PICK h : h = heard(wp, st)
  OBVIOUS
<1>4. PICK c : c = [h EXCEPT !.rec = admitted(@, st)]
  OBVIOUS
<1>5. /\ Sane(wp) /\ Placed(wp, wanted) /\ wanted \in Places /\ st \in Statuses \cup {"offline"}
      /\ wp.src.on /\ ~wp.src.negotiating /\ wp.src.mode = "compat" /\ UNCHANGED <<acts, env, wanted>>
  BY AnswersTyped DEF PlayerInv, Poll, ByItself, Attached
<1>6. Like(wp, h) /\ Sane(h)
  BY <1>3, <1>5, HeardLike, LikeKeeps
<1>7. Like(h, c) /\ Sane(c) /\ c \in Controllers
  BY <1>4, <1>6, AdmittedLike, LikeKeeps
<1>8. Like(wp, c)
  BY <1>6, <1>7 DEF Like
<1>9. Sane(c) /\ Placed(c, wanted)
  BY <1>5, <1>8, LikeKeeps
<1>10. /\ c.src.on /\ ~c.src.negotiating /\ c.src.mode = "compat" /\ c.pb.mode = "compat" /\ c.pb = wp.pb
  BY <1>5, <1>8, <1>9 DEF Like, Sane, Attends
<1>11. ASSUME Continues(c, d, wanted) PROVE StepKeeps
  <2>1. Continues(wp, d, wanted)
    BY <1>8, <1>11, LikeThen
  <2> QED BY <1>1, <1>5, <2>1, Onward DEF PlayerInv
<1>12. \/ d = failSource(c) \/ d = c
       \/ nativeCopyFails(c) /\ d = fallbackNativeHlsCopy(c)
       \/ LET try == scheduleCompatibleRetry(c, c.pb.time, c.pb.intent, c.pb.nego, FALSE) IN
          try.did /\ d = try.c
       \/ d = [c EXCEPT !.pb.status = "loading"]
       \/ ~c.src.mse /\ d = [c EXCEPT !.src.startup = TRUE]
       \/ ~c.src.mse /\ d = [[c EXCEPT !.pb.status = "loading"] EXCEPT !.src.startup = TRUE]
  BY <1>2, <1>3, <1>4
<1>13. CASE d = failSource(c) \/ d = c
  <2>1. Continues(c, c, wanted)
    BY <1>9 DEF Continues
  <2> QED BY <1>5, <1>9, <1>11, <1>13, <2>1, FailKeeps
<1>14. CASE nativeCopyFails(c) /\ d = fallbackNativeHlsCopy(c)
  <2>1. c.src.wait = <<>>
    BY <1>8, <1>9, <1>14 DEF nativeCopyFails, nativeHls, Sane, Attends
  <2> QED BY <1>5, <1>9, <1>10, <1>11, <1>14, <2>1, FallbackContinues
<1>15. ASSUME NEW try, try = scheduleCompatibleRetry(c, c.pb.time, c.pb.intent, c.pb.nego, FALSE),
              try.did, d = try.c
       PROVE  StepKeeps
  <2>1. c.pb.time \in Places /\ c.pb.nego \in Plans
    BY <1>9, Fields
  <2>2. Retried(c, d)
    BY <1>9, <1>10, <1>15, <2>1, RetryKeeps
  <2> QED BY <1>5, <1>9, <1>11, <2>2 DEF Retried
<1>16. ASSUME NEW status \in {c.pb.status, "loading"}, NEW startup \in BOOLEAN,
              startup => c.src.startup \/ ~c.src.mse,
              d = [c EXCEPT !.pb = [c.pb EXCEPT !.status = status], !.src = [c.src EXCEPT !.startup = startup]]
       PROVE  StepKeeps
  <2> DEFINE pb == [c.pb EXCEPT !.status = status]
             src == [c.src EXCEPT !.startup = startup]
  <2>1. c.pb \in Playbacks /\ c.src \in Sources
    BY <1>9, Fields
  <2>2. /\ src \in Sources /\ src.on = c.src.on /\ src.mode = c.src.mode /\ src.start = c.src.start
        /\ src.native = c.src.native /\ src.mse = c.src.mse /\ src.negotiating = c.src.negotiating
        /\ src.wait = c.src.wait /\ src.rec = c.src.rec /\ src.startup = startup
    BY <2>1 DEF Sources
  <2>3. /\ pb \in Playbacks /\ pb.status = status /\ pb.item = c.pb.item /\ pb.time = c.pb.time
        /\ pb.off = c.pb.off /\ pb.mode = c.pb.mode /\ pb.pending = c.pb.pending
    BY <2>1 DEF Playbacks, Preparing
  <2> HIDE DEF pb, src
  <2>4. /\ d \in Controllers /\ d.src = src /\ d.pb = pb /\ d.el = c.el /\ d.retryT = c.retryT
        /\ d.seekT = c.seekT /\ d.enrich = c.enrich /\ d.sess = c.sess
    BY <1>7, <1>16, <2>2, <2>3 DEF pb, src, Controllers
  <2>5. Alike(c, d)
    BY <1>10, <1>16, <2>2, <2>3, <2>4 DEF Alike
  <2> QED BY <1>9, <1>11, <2>4, <2>5, AlikeKeeps
<1>17. c.src.startup \in BOOLEAN /\ c.pb \in Playbacks /\ c.src \in Sources
  BY <1>9, Fields DEF Sources
<1>18. CASE d = [c EXCEPT !.pb.status = "loading"]
  <2>1. [c.src EXCEPT !.startup = c.src.startup] = c.src
    BY <1>17 DEF Sources
  <2>2. d = [c EXCEPT !.pb = [c.pb EXCEPT !.status = "loading"], !.src = c.src]
    BY <1>7, <1>18 DEF Controllers
  <2> QED BY <1>16, <1>17, <2>1, <2>2
<1>19. CASE ~c.src.mse /\ d = [c EXCEPT !.src.startup = TRUE]
  <2>1. [c.pb EXCEPT !.status = c.pb.status] = c.pb
    BY <1>17 DEF Playbacks
  <2>2. d = [c EXCEPT !.pb = c.pb, !.src = [c.src EXCEPT !.startup = TRUE]]
    BY <1>7, <1>19 DEF Controllers
  <2> QED BY <1>16, <1>19, <2>1, <2>2
<1>20. CASE ~c.src.mse /\ d = [[c EXCEPT !.pb.status = "loading"] EXCEPT !.src.startup = TRUE]
  <2>1. d = [c EXCEPT !.pb = [c.pb EXCEPT !.status = "loading"], !.src = [c.src EXCEPT !.startup = TRUE]]
    BY <1>7, <1>20 DEF Controllers
  <2> QED BY <1>16, <1>20, <2>1
<1> QED BY <1>12, <1>13, <1>14, <1>15, <1>18, <1>19, <1>20

\* The status that a failed source waited for arrives (#recoverSource).
LEMMA RecoveredKeeps == ASSUME PlayerInv, Recovered PROVE StepKeeps
<1>1. PICK d : d = wp'
  OBVIOUS
<1>2. PICK st \in Answers, elementError \in {FALSE, wp.src.rec[1].net} :
        d = recoverSource(heard(wp, st), wp.src.rec[1], st, elementError)
  BY <1>1 DEF Recovered, Do
<1>3. PICK h : h = heard(wp, st)
  OBVIOUS
<1>4. PICK r : r = wp.src.rec[1]
  OBVIOUS
<1>5. /\ Sane(wp) /\ Placed(wp, wanted) /\ wanted \in Places /\ acts \in Nat /\ env \in Envs
      /\ wp.src.on /\ wp.src.rec # <<>>
      /\ UNCHANGED <<acts, env>> /\ wanted' = IF wp.src.wait # <<>> THEN d.pb.time ELSE wanted
  BY <1>1 DEF PlayerInv, Recovered, ByItself
<1>6. st \in Statuses \cup {"offline"}
  BY AnswersTyped
<1>7. Like(wp, h) /\ h.src.rec = wp.src.rec /\ Sane(h) /\ Placed(h, wanted)
  BY <1>3, <1>5, <1>6, HeardLike, LikeKeeps
<1>8. h.src.on /\ h.src.rec # <<>> /\ h.src.wait = wp.src.wait
  BY <1>5, <1>7 DEF Like
<1>9. r \in [code : 2..4, net : BOOLEAN]
  <2>1. wp.src.rec \in Opt([code : 2..4, net : BOOLEAN])
    BY <1>5, Fields DEF Sources
  <2> QED BY <1>4, <1>5, <2>1 DEF Opt
<1>10. RecoveredTo(h, d)
  BY <1>2, <1>3, <1>4, <1>7, <1>8, <1>9, RecoverKeeps
<1>11. CASE wp.src.wait = <<>>
  <2>1. Continues(wp, d, wanted)
    BY <1>5, <1>7, <1>8, <1>10, <1>11, LikeThen DEF RecoveredTo
  <2> QED BY <1>1, <1>5, <1>11, <2>1, Onward
<1>12. CASE wp.src.wait # <<>>
  <2>1. Sane(d) /\ Placed(d, d.pb.time)
    BY <1>8, <1>10, <1>12 DEF RecoveredTo
  <2>2. PICK t : t = d.pb.time
    OBVIOUS
  <2>3. t \in Places
    BY <2>1, <2>2, Fields
  <2>4. ~Automatic /\ acts' \in Nat /\ wanted' = t /\ Placed(d, t) /\ UNCHANGED env
    BY <1>5, <1>12, <2>1, <2>2 DEF Automatic
  <2> QED BY <1>1, <2>1, <2>3, <2>4, Moved
<1> QED BY <1>11, <1>12

\* The original stalls (#scheduleOriginalBufferRecovery).
LEMMA OriginalStallKeeps ==
  ASSUME NEW c, Sane(c), c.src.on, c.src.wait = <<>>, NEW w \in Places, Placed(c, w),
         NEW d, d = OriginalStall(c)
  PROVE  Continues(c, d, w)
<1>1. PICK t : t = Or(Or(c.pb.time, globalTime(c)), c.src.start)
  OBVIOUS
<1>2. c \in Controllers /\ c.pb.intent \in Intents /\ t \in Places
  BY <1>1, Fields, GlobalTime DEF Or
<1>3. w > 0 => t = w
  BY <1>1, Here
<1>4. d = c \/ d = loadSource(c, [Options(t, c.pb.intent) EXCEPT !.force = "compat", !.q = "low"])
  BY <1>1 DEF OriginalStall
<1>5. CASE d = c
  BY <1>5 DEF Continues
<1>6. CASE d = loadSource(c, [Options(t, c.pb.intent) EXCEPT !.force = "compat", !.q = "low"])
  <2>1. "compat" \in Modes /\ "low" \in Qualities
    BY DEF Modes, Qualities
  <2>2. Ask([Options(t, c.pb.intent) EXCEPT !.force = "compat", !.q = "low"], t, c.pb.intent)
    BY <1>2, <2>1, Asked, FalseOption
  <2>3. Resumed(d, t, c.pb.intent)
    BY <1>2, <1>6, <2>2, AskedResumes
  <2> QED BY <1>2, <1>3, <2>3, ResumedContinues
<1> QED BY <1>4, <1>5, <1>6

\* A prepared stream stalls (#scheduleCompatibleStartupRecovery).
LEMMA CompatibleStallKeeps ==
  ASSUME NEW c, Sane(c), c.src.on, ~c.src.negotiating, c.pb.mode = "compat", c.src.wait = <<>>,
         NEW w \in Places, Placed(c, w), NEW d, d = CompatibleStall(c)
  PROVE  Continues(c, d, w)
<1>1. PICK t : t = Or(c.pb.time, c.src.start)
  OBVIOUS
<1>2. /\ c \in Controllers /\ c.pb.intent \in Intents /\ c.pb.time \in Places /\ c.src.start \in Places
      /\ c.src.nego \in Plans /\ c.pb.q \in Qualities /\ c.pb \in Playbacks /\ c.src \in Sources /\ c.el \in Elements
  BY Fields
<1>3. t \in Places /\ (w > 0 => t = w)
  BY <1>1, <1>2, Here DEF Or
<1>4. PICK e : e = [Element0 EXCEPT !.paused = c.el.paused]
  OBVIOUS
<1>5. \/ d = c
      \/ d = fallbackNativeHlsCopy(c)
      \/ d = loadSource(c, [Options(t, c.pb.intent) EXCEPT
                              !.force = "compat", !.nego = c.src.nego, !.q = c.pb.q])
      \/ d = scheduleCompatibleRetry(c, t, c.pb.intent, c.src.nego, FALSE).c
      \/ /\ ~(c.el.ready /\ c.pb.pending = NoPos)
         /\ d = [c EXCEPT !.src.reloads = @ + 1, !.pb.status = "loading", !.el = e]
  BY <1>1, <1>4 DEF CompatibleStall
<1>6. Continues(c, c, w)
  BY DEF Continues
<1>7. CASE d = fallbackNativeHlsCopy(c)
  BY <1>7, FallbackContinues
<1>8. CASE d = loadSource(c, [Options(t, c.pb.intent) EXCEPT
                                !.force = "compat", !.nego = c.src.nego, !.q = c.pb.q])
  <2>1. "compat" \in Modes
    BY DEF Modes
  <2>2. Ask([Options(t, c.pb.intent) EXCEPT !.force = "compat", !.nego = c.src.nego, !.q = c.pb.q],
            t, c.pb.intent)
    BY <1>2, <1>3, <2>1, Asked
  <2>3. Resumed(d, t, c.pb.intent)
    BY <1>2, <1>8, <2>2, AskedResumes
  <2> QED BY <1>3, <2>3, ResumedContinues
<1>9. CASE d = scheduleCompatibleRetry(c, t, c.pb.intent, c.src.nego, FALSE).c
  <2>1. CASE scheduleCompatibleRetry(c, t, c.pb.intent, c.src.nego, FALSE).did
    <3>1. Retried(c, d)
      BY <1>2, <1>3, <1>9, <2>1, RetryKeeps
    <3> QED BY <3>1 DEF Retried
  <2>2. CASE ~scheduleCompatibleRetry(c, t, c.pb.intent, c.src.nego, FALSE).did
    <3>1. d = c
      BY <1>9, <2>2 DEF scheduleCompatibleRetry
    <3> QED BY <1>6, <3>1
  <2> QED BY <2>1, <2>2
<1>10. CASE /\ ~(c.el.ready /\ c.pb.pending = NoPos)
            /\ d = [c EXCEPT !.src.reloads = @ + 1, !.pb.status = "loading", !.el = e]
  <2>0. PICK n \in Int : n = c.src.reloads + 1
    BY <1>2 DEF Sources
  <2> DEFINE src == [c.src EXCEPT !.reloads = n]
             pb == [c.pb EXCEPT !.status = "loading"]
  <2>1. d = [c EXCEPT !.src = src, !.pb = pb, !.el = e]
    BY <1>2, <1>10, <2>0 DEF Controllers
  <2>2. /\ src \in Sources /\ src.on = c.src.on /\ src.mode = c.src.mode /\ src.start = c.src.start
        /\ src.native = c.src.native /\ src.mse = c.src.mse /\ src.negotiating = c.src.negotiating
        /\ src.wait = c.src.wait /\ src.rec = c.src.rec /\ src.startup = c.src.startup
    BY <1>2 DEF Sources
  <2>3. /\ pb \in Playbacks /\ pb.status = "loading" /\ pb.item = c.pb.item /\ pb.time = c.pb.time
        /\ pb.off = c.pb.off /\ pb.mode = c.pb.mode /\ pb.pending = c.pb.pending
    BY <1>2 DEF Playbacks, Preparing
  <2>4. e \in Elements /\ e.local = 0 /\ ~e.ready
    <3>1. Element0 \in Elements /\ Element0.local = 0 /\ ~Element0.ready /\ c.el.paused \in BOOLEAN
      BY <1>2, Element0_Element DEF Element0, Elements
    <3> HIDE DEF Element0
    <3> QED BY <1>4, <3>1 DEF Elements
  <2> HIDE DEF src, pb
  <2>5. /\ d \in Controllers /\ d.src = src /\ d.pb = pb /\ d.el = e /\ d.retryT = c.retryT
        /\ d.seekT = c.seekT /\ d.enrich = c.enrich /\ d.sess = c.sess
    BY ONLY <1>2, <2>1, <2>2, <2>3, <2>4 DEF Controllers
  <2>6. Driven(d) /\ Attends(d)
    BY <2>2, <2>3, <2>5 DEF Sane, Driven, Attends, Preparing
  <2>7. Positioned(d)
    <3>1. c.pb.off \in Places /\ c.pb.off <= Dur
      BY Fields, PlayerAssumption DEF Places
    <3>2. c.pb.pending = NoPos => c.pb.time = c.pb.off + c.el.local /\ c.el.local = 0
      BY <1>2, <1>10 DEF Sane, Positioned, Elements
    <3> QED BY <2>2, <2>3, <2>4, <2>5, <3>1, <3>2, PlayerAssumption DEF Sane, Positioned, Places
  <2>8. Placed(d, w)
    BY <2>2, <2>3, <2>5 DEF Placed
  <2> QED BY <2>5, <2>6, <2>7, <2>8 DEF Sane, Continues
<1> QED BY <1>5, <1>6, <1>7, <1>8, <1>9, <1>10

\* A prepared stream has not started in time (#scheduleCompatibleStartupRecovery).
LEMMA StartupTimerKeeps == ASSUME PlayerInv, StartupTimer PROVE StepKeeps
<1> DEFINE src == [wp.src EXCEPT !.startup = FALSE]
<1>1. PICK d : d = wp'
  OBVIOUS
<1>2. PICK c : c = [wp EXCEPT !.src.startup = FALSE]
  OBVIOUS
<1>3. /\ wp \in Controllers /\ Sane(wp) /\ wp.src \in Sources /\ wanted \in Places /\ Placed(wp, wanted)
      /\ wp.src.on /\ wp.src.startup /\ UNCHANGED <<acts, env, wanted>>
  BY Fields DEF PlayerInv, StartupTimer, ByItself
<1>4. /\ src \in Sources /\ src.on = wp.src.on /\ src.mode = wp.src.mode /\ src.start = wp.src.start
      /\ src.native = wp.src.native /\ src.mse = wp.src.mse /\ src.negotiating = wp.src.negotiating
      /\ src.wait = wp.src.wait /\ src.rec = wp.src.rec /\ ~src.startup
  BY <1>3 DEF Sources
<1>5. c = [wp EXCEPT !.src = src]
  BY <1>2, <1>3 DEF Controllers
<1> HIDE DEF src
<1>6. /\ c \in Controllers /\ c.src = src /\ c.pb = wp.pb /\ c.el = wp.el /\ c.retryT = wp.retryT
      /\ c.seekT = wp.seekT /\ c.enrich = wp.enrich /\ c.sess = wp.sess
  BY <1>3, <1>4, <1>5 DEF Controllers
<1>7. Like(wp, c)
  BY <1>4, <1>6 DEF Like
<1>8. Sane(c) /\ Placed(c, wanted)
  BY <1>3, <1>7, LikeKeeps
<1>9. /\ c.src.on /\ ~c.src.negotiating /\ c.src.wait = <<>> /\ c.src.mode = c.pb.mode
      /\ c.pb.mode \in {"original", "compat"}
  <2>1. wp.pb.mode \in Modes
    BY <1>3, Fields
  <2> QED BY <1>3, <1>4, <1>6, <2>1 DEF Sane, Attends, Modes
<1>10. d = IF c.src.mode = "original" THEN OriginalStall(c) ELSE CompatibleStall(c)
  BY <1>1, <1>2 DEF StartupTimer, Do
<1>11. Continues(c, d, wanted)
  BY <1>3, <1>8, <1>9, <1>10, OriginalStallKeeps, CompatibleStallKeeps
<1>12. Continues(wp, d, wanted)
  BY <1>7, <1>11, LikeThen
<1> QED BY <1>1, <1>3, <1>12, Onward

-----------------------------------------------------------------------------
(* The media element.                                                      *)

\* What every event of the element finds.
LEMMA AliveFacts ==
  ASSUME PlayerInv, Attached
  PROVE  /\ wp \in Controllers /\ Sane(wp) /\ wp.src \in Sources /\ wp.pb \in Playbacks /\ wp.el \in Elements
         /\ wp.src.on /\ ~wp.src.negotiating /\ wp.src.mode = wp.pb.mode /\ wp.pb.mode \in {"original", "compat"}
         /\ wp.pb.item /\ wp.retryT = <<>> /\ wp.seekT = <<>> /\ ~wp.enrich
         /\ wanted \in Places /\ Placed(wp, wanted) /\ acts \in Nat /\ env \in Envs
<1>1. Sane(wp) /\ wp.pb.mode \in Modes
  BY Fields DEF PlayerInv
<1> QED BY <1>1, Fields DEF PlayerInv, Attached, Sane, Driven, Attends, Modes

\* A controller with what it shows and wants changed.
Shown(c, status, intent, paused, startup, susp) ==
  [c EXCEPT !.pb = [c.pb EXCEPT !.status = status, !.intent = intent],
            !.el = [c.el EXCEPT !.paused = paused],
            !.src = [c.src EXCEPT !.startup = startup], !.susp = susp]

\* A change of what is shown leaves the player in place.
LEMMA ShownKeeps ==
  ASSUME PlayerInv, Attached, NEW status \in {wp.pb.status, "paused", "playing", "waiting"},
         NEW intent \in Intents, NEW paused \in BOOLEAN, NEW startup \in BOOLEAN, NEW susp \in BOOLEAN,
         startup => wp.src.startup \/ ~wp.src.mse,
         NEW d, d = Shown(wp, status, intent, paused, startup, susp)
  PROVE  Alike(wp, d)
<1> DEFINE pb == [wp.pb EXCEPT !.status = status, !.intent = intent]
           el == [wp.el EXCEPT !.paused = paused]
           src == [wp.src EXCEPT !.startup = startup]
<1>1. /\ wp \in Controllers /\ wp.src \in Sources /\ wp.pb \in Playbacks /\ wp.el \in Elements
      /\ wp.src.on /\ ~wp.src.negotiating
  BY AliveFacts
<1>2. /\ pb \in Playbacks /\ pb.status = status /\ pb.item = wp.pb.item /\ pb.time = wp.pb.time
      /\ pb.off = wp.pb.off /\ pb.mode = wp.pb.mode /\ pb.pending = wp.pb.pending
  BY <1>1 DEF Playbacks, Preparing
<1>3. el \in Elements /\ el.local = wp.el.local /\ el.ready = wp.el.ready
  BY <1>1 DEF Elements
<1>4. /\ src \in Sources /\ src.on = wp.src.on /\ src.mode = wp.src.mode /\ src.start = wp.src.start
      /\ src.native = wp.src.native /\ src.mse = wp.src.mse /\ src.negotiating = wp.src.negotiating
      /\ src.wait = wp.src.wait /\ src.rec = wp.src.rec /\ src.startup = startup
  BY <1>1 DEF Sources
<1> HIDE DEF pb, el, src
<1>5. d = [wp EXCEPT !.pb = pb, !.el = el, !.src = src, !.susp = susp]
  BY DEF Shown, pb, el, src
<1>6. /\ d \in Controllers /\ d.src = src /\ d.pb = pb /\ d.el = el /\ d.retryT = wp.retryT
      /\ d.seekT = wp.seekT /\ d.enrich = wp.enrich /\ d.sess = wp.sess
  BY ONLY <1>1, <1>2, <1>3, <1>4, <1>5 DEF Controllers
<1> QED BY <1>1, <1>2, <1>3, <1>4, <1>6 DEF Alike

\* An update of parts of the controller, part by part.
LEMMA ByParts ==
  ASSUME NEW c, Sane(c)
  PROVE  /\ c.pb = [c.pb EXCEPT !.status = c.pb.status, !.intent = c.pb.intent]
         /\ \A i : [c.pb EXCEPT !.intent = i] = [c.pb EXCEPT !.status = c.pb.status, !.intent = i]
         /\ \A s : [c.pb EXCEPT !.status = s] = [c.pb EXCEPT !.status = s, !.intent = c.pb.intent]
         /\ c.el = [c.el EXCEPT !.paused = c.el.paused]
         /\ c.src = [c.src EXCEPT !.startup = c.src.startup]
<1>1. c.src \in Sources /\ c.pb \in Playbacks /\ c.el \in Elements
  BY Fields
<1> QED BY <1>1 DEF Sources, Playbacks, Elements

\* The element plays (playing).
LEMMA PlayingKeeps == ASSUME PlayerInv, Playing PROVE StepKeeps
<1>1. PICK d : d = wp'
  OBVIOUS
<1>2. PICK susp : susp = (wp.susp /\ wp.hidden)
  OBVIOUS
<1>3. susp \in BOOLEAN /\ wp.el.paused \in BOOLEAN /\ "playing" \in Intents
  <2>1. wp.el.paused \in BOOLEAN
    BY Fields DEF PlayerInv, Elements
  <2> QED BY <1>2, <2>1 DEF Intents
<1>4. Attached /\ UNCHANGED <<acts, env, wanted>>
  BY DEF Playing, Alive, ByItself
<1>5. d = Shown(wp, "playing", "playing", wp.el.paused, FALSE, susp)
  <2>1. wp \in Controllers /\ Sane(wp)
    BY Fields DEF PlayerInv
  <2>2. d = [wp EXCEPT !.pb.status = "playing", !.pb.intent = "playing", !.src.startup = FALSE, !.susp = susp]
    BY <1>1, <1>2 DEF Playing, Do
  <2>3. d = [wp EXCEPT !.pb = [wp.pb EXCEPT !.status = "playing", !.intent = "playing"],
                       !.el = wp.el, !.src = [wp.src EXCEPT !.startup = FALSE], !.susp = susp]
    BY ONLY <2>1, <2>2 DEF Controllers
  <2> QED BY <2>1, <2>3, ByParts DEF Shown
<1>6. Alike(wp, d)
  BY <1>3, <1>4, <1>5, ShownKeeps
<1>7. Continues(wp, d, wanted)
  BY <1>6, AlikeKeeps DEF PlayerInv
<1> QED BY <1>1, <1>4, <1>7, Onward

\* The element waits for data (waiting).
LEMMA BufferingKeeps == ASSUME PlayerInv, Buffering PROVE StepKeeps
<1>1. PICK d : d = wp'
  OBVIOUS
<1>2. PICK startup : startup = (wp.src.startup \/ (wp.src.mode = "original" /\ wp.prefMode = "auto" /\ wp.transcoding))
  OBVIOUS
<1>3. Attached /\ UNCHANGED <<acts, env, wanted>>
  BY DEF Buffering, Alive, ByItself
<1>4. /\ startup \in BOOLEAN /\ wp.el.paused \in BOOLEAN /\ wp.pb.intent \in Intents /\ wp.susp \in BOOLEAN
      /\ wp \in Controllers /\ Sane(wp) /\ (startup => wp.src.startup \/ ~wp.src.mse)
  <2>1. wp.el.paused \in BOOLEAN /\ wp.pb.intent \in Intents /\ wp \in Controllers /\ Sane(wp) /\ wp.susp \in BOOLEAN
    BY Fields DEF PlayerInv, Elements, Controllers
  <2>2. wp.src.mode = "original" => ~wp.src.mse
    BY <2>1, <1>3 DEF Sane, Attends, Attached
  <2> QED BY <1>2, <2>1, <2>2
<1>5. d = Shown(wp, "waiting", wp.pb.intent, wp.el.paused, startup, wp.susp)
  <2>1. d = [wp EXCEPT !.pb.status = "waiting", !.src.startup = startup]
    BY <1>1, <1>2, <1>4 DEF Buffering, Do, Controllers
  <2>2. d = [wp EXCEPT !.pb = [wp.pb EXCEPT !.status = "waiting"],
                       !.el = wp.el, !.src = [wp.src EXCEPT !.startup = startup], !.susp = wp.susp]
    BY ONLY <1>4, <2>1 DEF Controllers
  <2> QED BY <1>4, <2>2, ByParts DEF Shown
<1>6. Alike(wp, d)
  BY <1>3, <1>4, <1>5, ShownKeeps
<1>7. Continues(wp, d, wanted)
  BY <1>6, AlikeKeeps DEF PlayerInv
<1> QED BY <1>1, <1>3, <1>7, Onward

\* The platform pauses the element (pause).
LEMMA PlatformPauseKeeps == ASSUME PlayerInv, PlatformPause PROVE StepKeeps
<1>1. PICK d : d = wp'
  OBVIOUS
<1>2. PICK i : i = IF wp.hidden THEN wp.pb.intent ELSE "paused"
  OBVIOUS
<1>3. Attached /\ UNCHANGED <<acts, env, wanted>>
  BY DEF PlatformPause, Alive, ByItself
<1>4. i \in Intents /\ wp \in Controllers /\ Sane(wp) /\ wp.susp \in BOOLEAN /\ wp.src.startup \in BOOLEAN
  BY <1>2, Fields DEF PlayerInv, Controllers, Sources, Intents
<1>5. d = Shown(wp, "paused", i, TRUE, wp.src.startup, wp.susp)
  <2>1. d = [wp EXCEPT !.el.paused = TRUE, !.pb.status = "paused",
                       !.pb.intent = IF wp.hidden THEN @ ELSE "paused"]
    BY <1>1 DEF PlatformPause, Do
  <2>2. wp.pb \in Playbacks
    BY <1>4, Fields
  <2>3. d = [wp EXCEPT !.pb = [wp.pb EXCEPT !.status = "paused", !.intent = i],
                       !.el = [wp.el EXCEPT !.paused = TRUE], !.src = wp.src, !.susp = wp.susp]
    <3>1. CASE wp.hidden
      BY ONLY <1>2, <1>4, <2>1, <2>2, <3>1 DEF Controllers, Playbacks
    <3>2. CASE ~wp.hidden
      BY ONLY <1>2, <1>4, <2>1, <2>2, <3>2 DEF Controllers, Playbacks
    <3> QED BY <3>1, <3>2
  <2> QED BY <1>4, <2>3, ByParts DEF Shown
<1>6. Alike(wp, d)
  BY <1>3, <1>4, <1>5, ShownKeeps
<1>7. Continues(wp, d, wanted)
  BY <1>6, AlikeKeeps DEF PlayerInv
<1> QED BY <1>1, <1>3, <1>7, Onward

\* The browser refuses to play (#attemptPlay).
LEMMA PlayRejectedKeeps == ASSUME PlayerInv, PlayRejected PROVE StepKeeps
<1>1. PICK d : d = wp'
  OBVIOUS
<1>2. PICK c : c = [wp EXCEPT !.el.paused = TRUE]
  OBVIOUS
<1>3. Attached /\ UNCHANGED <<acts, env, wanted>>
  BY DEF PlayRejected, Alive, ByItself
<1>4. /\ wp \in Controllers /\ Sane(wp) /\ wp.susp \in BOOLEAN /\ wp.src.startup \in BOOLEAN /\ "paused" \in Intents
      /\ wp.pb.intent \in Intents
  BY Fields DEF PlayerInv, Controllers, Sources, Intents
<1>5. \/ d = [c EXCEPT !.pb.status = "paused", !.pb.intent = "paused"]
      \/ d = handleMediaError(c, 4, FALSE)
  BY <1>1, <1>2 DEF PlayRejected, Do
<1>6. CASE d = [c EXCEPT !.pb.status = "paused", !.pb.intent = "paused"]
  <2>1. d = [wp EXCEPT !.pb = [wp.pb EXCEPT !.status = "paused", !.intent = "paused"],
                       !.el = [wp.el EXCEPT !.paused = TRUE], !.src = wp.src, !.susp = wp.susp]
    <3>1. wp.pb \in Playbacks
      BY <1>4, Fields
    <3> QED BY ONLY <1>2, <1>4, <1>6, <3>1 DEF Controllers, Playbacks
  <2>2. d = Shown(wp, "paused", "paused", TRUE, wp.src.startup, wp.susp)
    BY <1>4, <2>1, ByParts DEF Shown
  <2>3. Alike(wp, d)
    BY <1>3, <1>4, <2>2, ShownKeeps
  <2>4. Continues(wp, d, wanted)
    BY <2>3, AlikeKeeps DEF PlayerInv
  <2> QED BY <1>1, <1>3, <2>4, Onward
<1>7. CASE d = handleMediaError(c, 4, FALSE)
  <2>1. c = [wp EXCEPT !.pb = wp.pb, !.el = [wp.el EXCEPT !.paused = TRUE], !.src = wp.src, !.susp = wp.susp]
    BY ONLY <1>2, <1>4 DEF Controllers
  <2>2. c = Shown(wp, wp.pb.status, wp.pb.intent, TRUE, wp.src.startup, wp.susp)
    BY <1>4, <2>1, ByParts DEF Shown
  <2>3. Alike(wp, c)
    BY <1>3, <1>4, <2>2, ShownKeeps
  <2>4. Sane(c) /\ Placed(c, wanted) /\ wanted \in Places
    BY <2>3, AlikeKeeps DEF PlayerInv
  <2>5. ~c.src.negotiating /\ c.sess = wp.sess /\ c.retryT = wp.retryT /\ c.pb = wp.pb
    <3>1. c.pb = wp.pb
      BY <1>4, <2>1 DEF Controllers
    <3> QED BY <1>3, <2>3, <3>1 DEF Alike, Attached
  <2>6. Continues(c, d, wanted)
    <3>1. PICK net \in BOOLEAN : d = handleMediaError(c, 4, net)
      BY <1>7
    <3>2. 4 \in 2..4
      OBVIOUS
    <3> QED BY <2>4, <2>5, <3>1, <3>2, ErrorKeeps
  <2>7. Continues(wp, d, wanted)
    BY <2>5, <2>6, ContinuesAfter
  <2> QED BY <1>1, <1>3, <2>7, Onward
<1> QED BY <1>5, <1>6, <1>7

\* The element has its metadata (loadedmetadata).
LEMMA MetadataKeeps == ASSUME PlayerInv, Metadata PROVE StepKeeps
<1> DEFINE s == wp.src.start
           pb == [wp.pb EXCEPT !.time = s]
           el == [wp.el EXCEPT !.meta = TRUE, !.local = IF s > 0 THEN s ELSE wp.el.local]
<1>1. PICK d : d = wp'
  OBVIOUS
<1>2. Attached /\ UNCHANGED <<acts, env>> /\ wanted' = s /\ wp.src.mode = "original"
  BY DEF Metadata, Alive, ByItself
<1>3. /\ wp \in Controllers /\ Sane(wp) /\ wp.pb \in Playbacks /\ wp.el \in Elements /\ acts \in Nat
      /\ wp.pb.mode = "original" /\ s \in Places /\ wp.el.local \in Places /\ wp.src.on
      /\ wp.pb.off = 0 /\ wp.pb.pending = NoPos /\ wp.retryT = <<>> /\ wp.seekT = <<>>
      /\ (wp.el.local = 0 \/ wp.pb.time \in {0, wp.el.local})
  BY <1>2, AliveFacts, Fields DEF Sane, Positioned
<1> HIDE DEF s
<1>4. d = [wp EXCEPT !.pb = pb, !.el = el]
  <2>1. d = [wp EXCEPT !.el.meta = TRUE, !.pb.time = s, !.el.local = IF s > 0 THEN s ELSE @]
    BY <1>1 DEF Metadata, Do, s
  <2> QED BY ONLY <1>3, <2>1 DEF Controllers, Elements
<1>5. /\ pb \in Playbacks /\ pb.status = wp.pb.status /\ pb.item = wp.pb.item /\ pb.time = s
      /\ pb.off = wp.pb.off /\ pb.mode = wp.pb.mode /\ pb.pending = wp.pb.pending
  BY <1>3 DEF Playbacks
<1>6. el \in Elements /\ el.local = IF s > 0 THEN s ELSE wp.el.local
  BY <1>3 DEF Elements
<1> HIDE DEF pb, el
<1>7. /\ d \in Controllers /\ d.src = wp.src /\ d.pb = pb /\ d.el = el /\ d.retryT = wp.retryT
      /\ d.seekT = wp.seekT /\ d.enrich = wp.enrich /\ d.sess = wp.sess
  BY ONLY <1>3, <1>4, <1>5, <1>6 DEF Controllers
<1>8. Driven(d) /\ Attends(d)
  BY <1>2, <1>3, <1>5, <1>7 DEF Sane, Driven, Attends, Attached
<1>9. Positioned(d)
  BY <1>3, <1>5, <1>6, <1>7, PlayerAssumption DEF Positioned, Places
<1>10. Placed(d, s)
  BY <1>3, <1>5, <1>6, <1>7 DEF Placed
<1>11. Sane(d)
  BY <1>7, <1>8, <1>9 DEF Sane
<1> QED BY <1>1, <1>2, <1>3, <1>7, <1>10, <1>11, Moved

\* The element's clock moves on (timeupdate).
LEMMA TimeUpdateKeeps == ASSUME PlayerInv, TimeUpdate PROVE StepKeeps
<1> DEFINE t == wp.pb.off + wp.el.local + 1
           pb == [wp.pb EXCEPT !.time = t]
           el == [wp.el EXCEPT !.local = @ + 1]
<1>1. PICK d : d = wp'
  OBVIOUS
<1>2. Attached /\ UNCHANGED <<acts, env>> /\ wanted' = t /\ wp.pb.pending = NoPos
      /\ wp.pb.off + wp.el.local < Dur /\ wp.el.ready
  BY DEF TimeUpdate, Alive, ByItself
<1>3. /\ wp \in Controllers /\ Sane(wp) /\ wp.pb \in Playbacks /\ wp.el \in Elements /\ acts \in Nat
      /\ wp.pb.off \in Places /\ wp.el.local \in Places /\ wp.src.on /\ ~wp.src.negotiating
      /\ wp.retryT = <<>> /\ wp.seekT = <<>> /\ wp.src.mode = wp.pb.mode /\ wp.pb.mode \in {"original", "compat"}
  BY <1>2, AliveFacts, Fields
<1>4. t \in Places /\ wp.el.local + 1 \in Places /\ t > wp.pb.off
  BY <1>2, <1>3, PlayerAssumption DEF Places
<1>5. d = [wp EXCEPT !.pb = pb, !.el = el]
  <2>1. d = [wp EXCEPT !.el.local = @ + 1, !.pb.time = t]
    BY <1>1 DEF TimeUpdate, Do
  <2> HIDE DEF t
  <2> QED BY ONLY <1>3, <2>1 DEF Controllers
<1>6. /\ pb \in Playbacks /\ pb.status = wp.pb.status /\ pb.item = wp.pb.item /\ pb.time = t
      /\ pb.off = wp.pb.off /\ pb.mode = wp.pb.mode /\ pb.pending = NoPos
  <2> HIDE DEF t
  <2> QED BY <1>2, <1>3, <1>4 DEF Playbacks
<1>7. el \in Elements /\ el.local = wp.el.local + 1 /\ el.ready = wp.el.ready
  BY <1>3, <1>4 DEF Elements
<1> HIDE DEF pb, el
<1>8. /\ d \in Controllers /\ d.src = wp.src /\ d.pb = pb /\ d.el = el /\ d.retryT = wp.retryT
      /\ d.seekT = wp.seekT /\ d.enrich = wp.enrich /\ d.sess = wp.sess
  <2> HIDE DEF t
  <2> QED BY ONLY <1>3, <1>5, <1>6, <1>7 DEF Controllers
<1>9. Driven(d) /\ Attends(d)
  BY <1>2, <1>3, <1>6, <1>8 DEF Sane, Driven, Attends
<1>10. Positioned(d)
  <2>1. wp.pb.mode = "original" => wp.pb.off = 0
    BY <1>3 DEF Sane, Positioned
  <2>2. wp.pb.mode = "compat" => wp.pb.status # "seeking"
    BY <1>2, <1>3 DEF Sane, Positioned
  <2>3. wp.pb.off \in Nat /\ wp.el.local \in Nat /\ Dur \in Nat /\ t = wp.pb.off + (wp.el.local + 1)
    BY <1>3, PlayerAssumption DEF Places
  <2> HIDE DEF t
  <2>4. d.pb.off + d.el.local <= Dur
    BY ONLY <1>2, <1>6, <1>7, <1>8, <2>3
  <2>5. d.pb.mode = "original" => d.pb.off = 0 /\ d.pb.pending = NoPos
    BY ONLY <1>6, <1>8, <2>1
  <2>6. d.pb.mode = "original" => d.pb.time = d.el.local
    BY ONLY <1>6, <1>7, <1>8, <2>1, <2>3
  <2>7. /\ d.pb.time >= d.pb.off /\ d.pb.time = d.pb.off + d.el.local
        /\ d.pb.pending = NoPos /\ d.el.ready
    <3>1. d.pb.time = t /\ d.pb.off = wp.pb.off /\ d.pb.pending = NoPos /\ d.el.local = wp.el.local + 1
      BY ONLY <1>6, <1>7, <1>8
    <3>2. d.el.ready
      BY ONLY <1>2, <1>7, <1>8
    <3>3. wp.pb.off + (wp.el.local + 1) >= wp.pb.off
      BY ONLY <2>3
    <3> QED BY ONLY <2>3, <3>1, <3>2, <3>3
  <2>8. d.pb.mode = "compat" => d.pb.status # "seeking"
    BY ONLY <1>6, <1>8, <2>2
  <2> QED BY ONLY <2>4, <2>5, <2>6, <2>7, <2>8 DEF Positioned
<1>11. Placed(d, t)
  <2>1. wp.pb.mode = "original" => wp.pb.off = 0
    BY <1>3 DEF Sane, Positioned
  <2>2. wp.pb.mode = "original" => t = wp.el.local + 1
    BY <1>3, <2>1 DEF Places
  <2>3. wp.el.local + 1 # 0
    BY <1>3, PlayerAssumption DEF Places
  <2> HIDE DEF t
  <2> QED BY <1>3, <1>4, <1>6, <1>7, <1>8, <2>2, <2>3 DEF Placed
<1>12. Sane(d)
  BY <1>8, <1>9, <1>10 DEF Sane
<1> HIDE DEF t
<1> QED BY <1>1, <1>2, <1>3, <1>4, <1>8, <1>11, <1>12, Moved

\* The element reaches the end (ended).
LEMMA EndedKeeps == ASSUME PlayerInv, Ended PROVE StepKeeps
<1>1. PICK d : d = wp'
  OBVIOUS
<1>2. Attached /\ UNCHANGED <<acts, env, wanted>>
  BY DEF Ended, Alive, ByItself
<1>3. d = handleMediaError(wp, 3, FALSE) \/ d = finishPlayback(wp)
  BY <1>1 DEF Ended, Do
<1>4. /\ Sane(wp) /\ Placed(wp, wanted) /\ wanted \in Places /\ ~wp.src.negotiating /\ wp.pb.item
      /\ wp.retryT = <<>>
  BY <1>2, AliveFacts
<1>5. CASE d = handleMediaError(wp, 3, FALSE)
  <2>1. Continues(wp, d, wanted)
    <3>1. PICK net \in BOOLEAN : d = handleMediaError(wp, 3, net)
      BY <1>5
    <3>2. 3 \in 2..4
      OBVIOUS
    <3> QED BY <1>4, <3>1, <3>2, ErrorKeeps
  <2> QED BY <1>1, <1>2, <2>1, Onward
<1>6. CASE d = finishPlayback(wp)
  <2>1. Sane(d) /\ (\A w : Placed(d, w)) /\ d.sess = wp.sess /\ d.retryT = <<>>
    BY <1>4, <1>6, FinishKeeps
  <2>2. Continues(wp, d, wanted)
    BY <1>4, <2>1 DEF Continues
  <2> QED BY <1>1, <1>2, <2>2, Onward
<1> QED BY <1>3, <1>5, <1>6

\* The element reports an error (#handleMediaError).
LEMMA MediaErrorKeeps == ASSUME PlayerInv, MediaError PROVE StepKeeps
<1>1. PICK d : d = wp'
  OBVIOUS
<1>2. Attached /\ UNCHANGED <<acts, env, wanted>>
  BY DEF MediaError, ByItself
<1>3. PICK code \in 2..4, net \in BOOLEAN : d = handleMediaError(wp, code, net)
  <2>1. \/ \E code \in {3, 4} : d = handleMediaError(wp, code, FALSE)
        \/ d = handleMediaError(wp, 2, TRUE)
        \/ d = handleMediaError(wp, 3, FALSE)
    BY <1>1 DEF MediaError, Do
  <2>2. TRUE \in BOOLEAN /\ FALSE \in BOOLEAN /\ 2 \in 2..4 /\ 3 \in 2..4 /\ 4 \in 2..4
    OBVIOUS
  <2> QED BY ONLY <2>1, <2>2, Zenon
<1>4. Sane(wp) /\ Placed(wp, wanted) /\ wanted \in Places /\ ~wp.src.negotiating
  BY <1>2, AliveFacts
<1>5. Continues(wp, d, wanted)
  BY <1>3, <1>4, ErrorKeeps
<1> QED BY <1>1, <1>2, <1>5, Onward

\* A controller whose position is the element's, ready to play.
SettledAs(c, local, status, intent, paused, startup) ==
  [c EXCEPT !.pb = [c.pb EXCEPT !.pending = NoPos, !.status = status, !.intent = intent],
            !.el = [c.el EXCEPT !.local = local, !.ready = TRUE, !.paused = paused],
            !.src = [c.src EXCEPT !.startup = startup]]

\* Once a source is ready, its clock is where it was asked to start.
LEMMA SettledKeeps ==
  ASSUME NEW c, Sane(c), c.src.on, ~c.src.negotiating,
         NEW local, local = IF c.pb.pending = NoPos THEN c.el.local ELSE c.pb.pending - c.pb.off,
         NEW status \in {"paused", "playing"}, NEW intent \in Intents, NEW paused \in BOOLEAN,
         NEW startup \in BOOLEAN, startup => c.src.startup,
         NEW w, Placed(c, w),
         NEW d, d = SettledAs(c, local, status, intent, paused, startup)
  PROVE  Continues(c, d, w)
<1> DEFINE pb == [c.pb EXCEPT !.pending = NoPos, !.status = status, !.intent = intent]
           el == [c.el EXCEPT !.local = local, !.ready = TRUE, !.paused = paused]
           src == [c.src EXCEPT !.startup = startup]
<1>1. /\ c \in Controllers /\ c.pb \in Playbacks /\ c.src \in Sources /\ c.el \in Elements
      /\ c.pb.time \in Places /\ c.pb.off \in Places /\ c.el.local \in Places
      /\ c.pb.mode \in {"original", "compat"} /\ c.src.mode = c.pb.mode /\ c.retryT = <<>> /\ c.seekT = <<>>
  BY Fields DEF Sane, Attends, Driven, Modes
<1>2. c.pb.mode = "original" => local = c.el.local /\ c.pb.off = 0
  BY <1>1 DEF Sane, Positioned
<1>3. c.pb.mode = "compat" => c.pb.time = c.pb.off + local /\ c.pb.time >= c.pb.off /\ local \in Places
  <2>1. /\ c.pb.mode = "compat" => /\ c.pb.time >= c.pb.off
                                   /\ c.pb.pending \in {NoPos, c.pb.time}
                                   /\ c.pb.pending = NoPos => c.pb.time = c.pb.off + c.el.local
    BY <1>1 DEF Sane, Positioned
  <2>2. c.pb.time \in Nat /\ c.pb.off \in Nat /\ c.pb.time <= Dur /\ Dur \in Nat
    BY <1>1, PlayerAssumption DEF Places
  <2>3. CASE c.pb.pending = NoPos
    BY <1>1, <2>1, <2>3
  <2>4. CASE c.pb.pending # NoPos
    <3>1. c.pb.mode = "compat" => local = c.pb.time - c.pb.off /\ c.pb.time >= c.pb.off
      BY <2>1, <2>4
    <3>2. \A a, b \in Nat : a <= Dur /\ a >= b => a - b \in 0..Dur /\ a = b + (a - b)
      BY PlayerAssumption
    <3> QED BY <2>2, <3>1, <3>2 DEF Places
  <2> QED BY <2>3, <2>4
<1>4. local \in Places /\ c.pb.off + local <= Dur
  <2>1. c.pb.off + c.el.local <= Dur
    BY DEF Sane, Positioned
  <2>2. c.pb.time <= Dur
    BY <1>1, PlayerAssumption DEF Places
  <2> QED BY <1>1, <1>2, <1>3, <2>1, <2>2
<1>5. /\ pb \in Playbacks /\ pb.status = status /\ pb.item = c.pb.item /\ pb.time = c.pb.time
      /\ pb.off = c.pb.off /\ pb.mode = c.pb.mode /\ pb.pending = NoPos
  BY <1>1 DEF Playbacks, Preparing
<1>6. el \in Elements /\ el.local = local /\ el.ready
  <2> HIDE DEF Places
  <2> QED BY <1>1, <1>4 DEF Elements
<1>7. /\ src \in Sources /\ src.on = c.src.on /\ src.mode = c.src.mode /\ src.start = c.src.start
      /\ src.native = c.src.native /\ src.mse = c.src.mse /\ src.negotiating = c.src.negotiating
      /\ src.wait = c.src.wait /\ src.rec = c.src.rec /\ src.startup = startup
  BY <1>1 DEF Sources
<1>8. d = [c EXCEPT !.pb = pb, !.el = el, !.src = src]
  BY DEF SettledAs
<1> HIDE DEF pb, el, src
<1>9. /\ d \in Controllers /\ d.src = src /\ d.pb = pb /\ d.el = el /\ d.retryT = c.retryT
      /\ d.seekT = c.seekT /\ d.enrich = c.enrich /\ d.sess = c.sess
  BY ONLY <1>1, <1>5, <1>6, <1>7, <1>8 DEF Controllers
<1>10. Driven(d) /\ Attends(d)
  <2>1. Driven(d)
    BY <1>1, <1>5, <1>7, <1>9 DEF Sane, Driven, Preparing
  <2>2. c.src.mse => c.src.on /\ c.pb.mode = "compat" /\ env.dev # "safari" /\ ~c.src.startup
    BY DEF Sane, Attends
  <2>3. c.src.wait # <<>> => c.src.mse /\ c.src.wait[1] >= c.pb.off
    BY DEF Sane, Attends
  <2>4. c.pb.mode # "none"
    BY <1>1
  <2>5. Attends(d)
    BY ONLY <1>1, <1>5, <1>7, <1>9, <2>2, <2>3, <2>4, c.src.on, ~c.src.negotiating, startup => c.src.startup
       DEF Attends
  <2> QED BY <2>1, <2>5
<1>11. Positioned(d)
  <2>1. c.pb.mode = "original" => c.el.local = 0 \/ c.pb.time \in {0, c.el.local}
    BY DEF Sane, Positioned
  <2> QED BY ONLY <1>1, <1>2, <1>3, <1>4, <1>5, <1>6, <1>7, <1>9, <2>1 DEF Positioned
<1>12. Placed(d, w)
  BY <1>1, <1>2, <1>5, <1>6, <1>7, <1>9 DEF Placed
<1> QED BY <1>9, <1>10, <1>11, <1>12 DEF Sane, Continues

\* The element has data to play (loadeddata, readyToPlay).
LEMMA CanPlayKeeps == ASSUME PlayerInv, CanPlay PROVE StepKeeps
<1>1. PICK d : d = wp'
  OBVIOUS
<1>2. PICK c : c = [settled(wp) EXCEPT !.el.ready = TRUE,
                                       !.src.startup = IF wp.src.mode = "compat" THEN FALSE ELSE @]
  OBVIOUS
<1>3. PICK local : local = IF wp.pb.pending = NoPos THEN wp.el.local ELSE wp.pb.pending - wp.pb.off
  OBVIOUS
<1>4. PICK startup : startup = IF wp.src.mode = "compat" THEN FALSE ELSE wp.src.startup
  OBVIOUS
<1>5. Attached /\ UNCHANGED <<acts, env, wanted>>
  BY DEF CanPlay, Alive, ByItself
<1>6. /\ wp \in Controllers /\ Sane(wp) /\ wp.src \in Sources /\ wp.pb \in Playbacks /\ wp.el \in Elements
      /\ wp.src.on /\ ~wp.src.negotiating /\ wp.pb.intent \in Intents /\ Placed(wp, wanted)
  BY <1>5, AliveFacts, Fields
<1>7. startup \in BOOLEAN /\ (startup => wp.src.startup) /\ wp.el.paused \in BOOLEAN
      /\ "playing" \in Intents
  BY <1>4, <1>6 DEF Sources, Elements, Intents
<1>8. PICK pb0, el0, src0 :
        /\ pb0 = [wp.pb EXCEPT !.pending = NoPos]
        /\ el0 = [wp.el EXCEPT !.local = local, !.ready = TRUE]
        /\ src0 = [wp.src EXCEPT !.startup = startup]
  OBVIOUS
<1>9. c = [wp EXCEPT !.pb = pb0, !.el = el0, !.src = src0]
  <2>1. settled(wp) = [wp EXCEPT !.el.local = local, !.pb.pending = NoPos]
    BY <1>3, <1>6 DEF settled, Controllers, Elements
  <2>2. settled(wp) = [wp EXCEPT !.el = [wp.el EXCEPT !.local = local], !.pb = pb0]
    BY ONLY <1>6, <1>8, <2>1 DEF Controllers
  <2>3. PICK s : s = settled(wp)
    OBVIOUS
  <2>4. /\ s.el = [wp.el EXCEPT !.local = local] /\ s.src = wp.src /\ s.pb = pb0
        /\ s = [wp EXCEPT !.el = [wp.el EXCEPT !.local = local], !.pb = pb0]
    BY ONLY <1>6, <2>2, <2>3 DEF Controllers
  <2>5. c = [s EXCEPT !.el = [s.el EXCEPT !.ready = TRUE], !.src = src0]
    BY ONLY <1>2, <1>4, <1>6, <1>8, <2>3, <2>4 DEF Controllers, Sources
  <2>6. [s.el EXCEPT !.ready = TRUE] = el0
    BY ONLY <1>6, <1>8, <2>4 DEF Elements
  <2> QED BY ONLY <1>6, <2>4, <2>5, <2>6 DEF Controllers
<1>10. c.pb = pb0 /\ c.el = el0 /\ c.src = src0
  BY ONLY <1>6, <1>9 DEF Controllers
<1>11. /\ pb0 \in Playbacks /\ pb0.pending = NoPos /\ src0.on /\ ~src0.negotiating
  BY ONLY <1>6, <1>8 DEF Playbacks, Sources
<1>12. PICK status \in {"paused", "playing"}, intent \in Intents, paused \in BOOLEAN :
         d = [c EXCEPT !.pb = [pb0 EXCEPT !.status = status, !.intent = intent],
                       !.el = [el0 EXCEPT !.paused = paused]]
  <2>1. d = IF ~c.el.paused THEN [c EXCEPT !.pb.status = "playing", !.pb.intent = "playing"]
            ELSE IF c.pb.intent = "playing" THEN attemptPlay([c EXCEPT !.pb.status = "paused"])
            ELSE [c EXCEPT !.pb.status = "paused"]
    BY <1>1, <1>2 DEF CanPlay, Do
  <2>2. attemptPlay([c EXCEPT !.pb.status = "paused"]) =
          [c EXCEPT !.pb = [pb0 EXCEPT !.status = "paused"], !.el = [el0 EXCEPT !.paused = FALSE]]
    <3>1. PICK c1 : c1 = [c EXCEPT !.pb.status = "paused"]
      OBVIOUS
    <3>2. /\ c1 = [c EXCEPT !.pb = [pb0 EXCEPT !.status = "paused"]] /\ c1.src = src0 /\ c1.el = el0
          /\ c1.pb = [pb0 EXCEPT !.status = "paused"]
      BY ONLY <1>6, <1>9, <1>10, <3>1 DEF Controllers
    <3>3. c1.pb.pending = NoPos
      BY ONLY <1>11, <3>2 DEF Playbacks
    <3>4. attemptPlay(c1) = [c1 EXCEPT !.el.paused = FALSE]
      BY <1>11, <3>2, <3>3 DEF attemptPlay
    <3>5. [c1 EXCEPT !.el.paused = FALSE] =
            [c EXCEPT !.pb = [pb0 EXCEPT !.status = "paused"], !.el = [el0 EXCEPT !.paused = FALSE]]
      BY ONLY <1>6, <1>9, <1>10, <3>2 DEF Controllers
    <3> QED BY <3>1, <3>4, <3>5
  <2>3. [pb0 EXCEPT !.status = "paused"] = [pb0 EXCEPT !.status = "paused", !.intent = wp.pb.intent]
    BY ONLY <1>6, <1>8 DEF Playbacks
  <2>4. el0 = [el0 EXCEPT !.paused = wp.el.paused]
    BY ONLY <1>6, <1>8 DEF Elements
  <2>5. [c EXCEPT !.pb.status = "playing", !.pb.intent = "playing"] =
          [c EXCEPT !.pb = [pb0 EXCEPT !.status = "playing", !.intent = "playing"], !.el = el0]
    BY ONLY <1>6, <1>9, <1>10 DEF Controllers
  <2>6. [c EXCEPT !.pb.status = "paused"] = [c EXCEPT !.pb = [pb0 EXCEPT !.status = "paused"], !.el = el0]
    BY ONLY <1>6, <1>9, <1>10 DEF Controllers
  <2>7. "paused" \in {"paused", "playing"} /\ "playing" \in {"paused", "playing"} /\ FALSE \in BOOLEAN
    OBVIOUS
  <2>8. \/ d = [c EXCEPT !.pb = [pb0 EXCEPT !.status = "playing", !.intent = "playing"],
                         !.el = [el0 EXCEPT !.paused = wp.el.paused]]
        \/ d = [c EXCEPT !.pb = [pb0 EXCEPT !.status = "paused", !.intent = wp.pb.intent],
                         !.el = [el0 EXCEPT !.paused = FALSE]]
        \/ d = [c EXCEPT !.pb = [pb0 EXCEPT !.status = "paused", !.intent = wp.pb.intent],
                         !.el = [el0 EXCEPT !.paused = wp.el.paused]]
    BY ONLY <2>1, <2>2, <2>3, <2>4, <2>5, <2>6
  <2> QED BY ONLY <1>6, <1>7, <2>7, <2>8, Zenon
<1>13. d = SettledAs(wp, local, status, intent, paused, startup)
  <2>1. [pb0 EXCEPT !.status = status, !.intent = intent] =
          [wp.pb EXCEPT !.pending = NoPos, !.status = status, !.intent = intent]
    BY ONLY <1>8
  <2>2. [el0 EXCEPT !.paused = paused] = [wp.el EXCEPT !.local = local, !.ready = TRUE, !.paused = paused]
    BY ONLY <1>8
  <2>3. d = [wp EXCEPT !.pb = [pb0 EXCEPT !.status = status, !.intent = intent],
                       !.el = [el0 EXCEPT !.paused = paused], !.src = src0]
    BY ONLY <1>6, <1>9, <1>12 DEF Controllers
  <2> QED BY ONLY <1>8, <2>1, <2>2, <2>3 DEF SettledAs
<1>14. Continues(wp, d, wanted)
  BY <1>3, <1>6, <1>7, <1>13, SettledKeeps
<1> QED BY <1>1, <1>5, <1>14, Onward

-----------------------------------------------------------------------------
(* The theorems.                                                           *)

\* A player that has been given nothing.
LEMMA InitKeeps == WpInit => PlayerInv
<1> SUFFICES ASSUME WpInit PROVE PlayerInv
  OBVIOUS
<1>1. /\ wp.pb = NoPlayback /\ wp.src = NoSrc /\ wp.el = Element0 /\ wp.rec = Recovery0 /\ wp.retryT = <<>>
      /\ wp.seekT = <<>> /\ wp.enrich = FALSE /\ env \in Envs /\ acts = 0 /\ wanted = 0
  <2> HIDE DEF NoPlayback, NoSrc, Element0, Recovery0
  <2> QED BY DEF WpInit
<1>2. wp \in Controllers
  <2>1. <<>> \in Opt(Timers) /\ 0 \in 0..1
    BY DEF Opt
  <2>2. /\ NoPlayback \in Playbacks /\ NoSrc \in Sources /\ Element0 \in Elements /\ Recovery0 \in Recoveries
    BY NoPlayback_Playback, NoSrc_Source, Element0_Element, Recovery0_Recovery
  <2> HIDE DEF NoPlayback, NoSrc, Element0, Recovery0
  <2> QED BY <2>1, <2>2 DEF WpInit, Controllers
<1>3. 0 \in Places
  BY PlayerAssumption DEF Places
<1> HIDE DEF NoPlayback, NoSrc, Element0
<1>4. Sane(wp) /\ Placed(wp, 0)
  BY <1>1, <1>2, NoPlayback_Playback, ClearedKeeps
<1> QED BY <1>1, <1>3, <1>4 DEF PlayerInv

\* Every step keeps the invariant and does as the viewer wants.
LEMMA StepKept == PlayerInv /\ WpNext => StepKeeps
<1> SUFFICES ASSUME PlayerInv, WpNext PROVE StepKeeps
  OBVIOUS
<1>1. CASE UserNext
  BY <1>1, SelectTitleKeeps, SeekToKeeps, TogglePlayKeeps, SelectAudioKeeps, SelectQualityKeeps,
     CloseKeeps, AsideKeeps DEF UserNext
<1>2. CASE Enriched \/ WaitedSeek \/ SeekTimer \/ RetryTimer \/ Negotiated \/ Poll \/ Recovered \/ StartupTimer
  BY <1>2, EnrichedKeeps, WaitedSeekKeeps, TimerKeeps, NegotiatedKeeps, PollKeeps, RecoveredKeeps,
     StartupTimerKeeps
<1>3. CASE \/ Metadata \/ CanPlay \/ Playing \/ PlayRejected \/ PlatformPause \/ Buffering
           \/ TimeUpdate \/ Ended \/ MediaError
  BY <1>3, MetadataKeeps, CanPlayKeeps, PlayingKeeps, PlayRejectedKeeps, PlatformPauseKeeps,
     BufferingKeeps, TimeUpdateKeeps, EndedKeeps, MediaErrorKeeps
<1> QED BY <1>1, <1>2, <1>3 DEF WpNext

\* Nothing happens.
LEMMA StutterKept == PlayerInv /\ UNCHANGED wpVars => PlayerInv'
BY DEF wpVars, PlayerInv, Sane, Driven, Attends, Positioned, Placed

\* What the invariant says of drivers and spinners.
LEMMA InvDriven == PlayerInv => PlayerDriven
<1> SUFFICES ASSUME PlayerInv PROVE PlayerDriven
  OBVIOUS
<1>1. /\ wp \in Controllers /\ Sane(wp) /\ wp.src \in Sources /\ wp.pb \in Playbacks /\ wp.rec \in Recoveries
  BY Fields DEF PlayerInv
<1>2. WpTypeOK
  <2>1. wp.src.srv \in Statuses /\ wp.src.nego \in Negos \cup {NoNego}
    BY <1>1 DEF Sources, Plans
  <2>2. /\ wp.pb.status \in {"idle", "ended", "error", "paused", "playing"} \cup Preparing
        /\ wp.pb.mode \in {"none", "original", "compat"}
        /\ wp.pb.time \in 0..Dur /\ wp.pb.pending \in {NoPos} \cup 0..Dur
    BY <1>1 DEF Playbacks, Modes, Places
  <2>3. wp.rec.n \in 0..MaxRetries /\ wp.rec.busy \in 0..MaxBusy
    BY <1>1 DEF Recoveries
  <2> QED BY <2>1, <2>2, <2>3 DEF WpTypeOK
<1>3. /\ wp.src.on => "source" \in Drivers
      /\ wp.retryT # <<>> => "retry" \in Drivers
      /\ wp.seekT # <<>> => "seek" \in Drivers
      /\ \A d \in Drivers : \/ d = "source" /\ wp.src.on
                            \/ d = "retry" /\ wp.retryT # <<>>
                            \/ d = "seek" /\ wp.seekT # <<>>
  BY DEF Drivers
<1>4. OneDriver
  <2>1. \A d, e \in Drivers : d = e
    BY <1>1, <1>3 DEF Sane, Driven
  <2>2. CASE Drivers = {}
    BY <2>2, FS_EmptySet DEF OneDriver
  <2>3. CASE Drivers # {}
    <3>1. PICK d : d \in Drivers
      BY <2>3
    <3>2. Drivers = {d}
      BY <2>1, <3>1
    <3>3. Cardinality({d}) = 1
      BY FS_Singleton
    <3> QED BY <3>2, <3>3 DEF OneDriver
  <2> QED BY <2>2, <2>3
<1>5. SpinnerIsDriven
  <2>1. wp.pb.status \in Preparing => Drivers # {}
    BY <1>1, <1>3 DEF Sane, Driven
  <2>2. wp.pb.status \in {"error", "ended"} \/ ~wp.pb.item => Drivers = {}
    <3>1. wp.pb.status \in {"error", "ended"} \/ ~wp.pb.item
            => ~wp.src.on /\ wp.retryT = <<>> /\ wp.seekT = <<>>
      BY <1>1 DEF Sane, Driven
    <3> QED BY <1>3, <3>1
  <2> QED BY <2>1, <2>2 DEF SpinnerIsDriven
<1> QED BY <1>2, <1>4, <1>5 DEF PlayerDriven

(* Whatever the browser, the server and the viewer do, in any order: the    *)
(* player has at most one driver, has one while it shows that it prepares,  *)
(* and none once it has stopped, finished or failed (player.js #source,     *)
(* #retryTimer, #seekTimer).                                                *)
THEOREM PlayerAlwaysDriven == WpSpec => []PlayerDriven
<1>1. PlayerInv /\ [WpNext]_wpVars => PlayerInv'
  BY StepKept, StutterKept DEF StepKeeps
<1> QED BY InitKeeps, InvDriven, <1>1, PTL DEF WpSpec

(* No step that the player takes by itself changes play or pause, or leads  *)
(* to a source or a retry that starts anywhere but where the viewer is      *)
(* (player.js #recoverSource, #scheduleCompatibleRetry, #loadSource).       *)
THEOREM ViewerAlwaysKept == WpSpec => ViewerKept
<1>1. PlayerInv /\ [WpNext]_wpVars => PlayerInv'
  BY StepKept, StutterKept DEF StepKeeps
<1>2. PlayerInv /\ [WpNext]_wpVars => [IntentKept /\ PositionKept]_wpVars
  BY StepKept DEF StepKeeps
<1> QED BY InitKeeps, <1>1, <1>2, PTL DEF WpSpec, ViewerKept
=============================================================================
