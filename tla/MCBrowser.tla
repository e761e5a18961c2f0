----------------------------- MODULE MCBrowser ------------------------------
(* Instances of BrowserPlan, WebPlayer and DerivedImages for TLC: a          *)
(* behaviour is about one of them.                                          *)
EXTENDS BrowserPlan, WebPlayer, DerivedImages, TLC

CONSTANTS q1, q2

\* Titles: playable, HDR of every kind, sound only, and an unusual codec.
Title(codec, hdr, depth, tracks, reordered, w) ==
    [video |-> codec # "none", codec |-> codec, hdr |-> hdr, depth |-> depth, plain |-> TRUE,
     tracks |-> tracks, english |-> {}, default |-> {}, reordered |-> reordered, width |-> w, height |-> (w * 9) \div 16,
     rated |-> TRUE, length |-> 20]
\* The tracks in English, and those marked as default.
Marked(t, english, default) == [t EXCEPT !.english = english, !.default = default]
Film(h) ==
    LET t == Title("hevc", h, 10, <<"dts", "aac">>, h = "Hdr10", 1920)
    IN CASE h = "Sdr" -> Marked(t, {1}, {2})
         [] h = "Hdr10" -> Marked(t, {}, {1})
         [] h = "DolbyVisionProfile8" -> Marked(t, {1, 2}, {1})
         [] h = "DolbyVisionProfile7" -> Marked(t, {1, 2}, {2})
         [] OTHER -> t
MCTitles ==
    {Title("h264", "Sdr", 8, tr, tr = <<>>, 640) : tr \in {<<"aac">>, <<>>}}
    \cup {Film(h) : h \in Hdrs}
    \cup {Title("none", "Unknown", 8, <<"aac">>, FALSE, 0),
          Title("other", "Hdr10", 8, <<"eac3">>, FALSE, 640)}

Request(v, out, ca, au, q, p, s, d, n, dl) ==
    [video |-> v, output |-> out, copyAudio |-> ca, audio |-> au, quality |-> q, preset |-> p,
     start |-> s, delivery |-> d,
     ext |-> CASE d \in {"hls", "mse"} -> "m3u8" [] d = "hls_segment" -> "m4s" [] OTHER -> "mp4",
     range |-> d = "hls_segment", after |-> FALSE, native |-> n, download |-> dl]
\* Of what is refused whatever else is asked, one request each is enough.
AlwaysRefused(r) ==
    \/ r.video # "transcode" /\ (r.output # "none" \/ r.quality # "auto") /\ ~r.native
    \/ r.download # "none" /\ r.delivery # "mp4"
AllRequests ==
    {Request(v, out, ca, au, q, p, 0, "mse", FALSE, "none") :
       v \in {"copy", "repair", "transcode"}, out \in {"none", "hevc_hdr10"}, ca \in BOOLEAN,
       au \in {0, 2}, q \in {"auto", "data_saver"}, p \in {"balanced", "fast_start"}}
    \cup
    {Request(v, out, ca, au, "auto", "balanced", s, "mse", FALSE, "none") :
       v \in {"copy", "repair", "transcode"}, out \in {"none", "hevc_hdr10"}, ca \in BOOLEAN,
       au \in {0, 2}, s \in {3, 9}}
    \cup {Request(v, "none", FALSE, au, q, "balanced", 0, d, TRUE, dl) :
       v \in {"copy", "transcode"}, au \in {0, 2}, q \in {"auto", "full_hd"},
       d \in {"mp4", "hls_segment"}, dl \in {"none", "one", "all"}}
MCRequests ==
    {r \in AllRequests : ~AlwaysRefused(r)}
    \cup {Request("copy", "hevc_hdr10", FALSE, 0, "auto", "balanced", 0, "mse", FALSE, "none"),
          Request("repair", "none", FALSE, 0, "data_saver", "balanced", 0, "mse", FALSE, "none"),
          Request("copy", "none", FALSE, 0, "auto", "balanced", 0, "hls_segment", TRUE, "all")}

\* A browser with Media Source Extensions and one that plays HLS itself.
Browser(d, m, h, cp) == [dev |-> d, mse |-> m, hdr |-> h, hevcRepair |-> TRUE, hevcCopy |-> cp]
MCEnvs == {Browser("android", TRUE, TRUE, FALSE), Browser("safari", FALSE, TRUE, TRUE)}
Nego(v, au, o) == [v |-> v, a |-> au, out |-> o]
MCProbes == {Nego("copy", "transcode", "h264"), Nego("transcode", "copy", "hdr")}

\* Pictures x and y are there when the server starts, and perhaps a part of z.
MCStripe == [k \in ImgKeys |-> IF k = "x" THEN 1 ELSE 2]
MCFound ==
    {[disk |-> ("x" :> [bytes |-> a, used |-> u]) @@ ("y" :> [bytes |-> 2, used |-> 1]), temps |-> t] :
       a \in 1 .. 2, u \in 0 .. 1, t \in {{}, {<<"z", "earlier">>}}}
\* Of two requests that are alike the first begins first.
ImagesStep == ImgNext /\ (imgReq[q1].pc = "idle" => imgReq'[q2].pc = imgReq[q2].pc)

VARIABLE part

\* A second request follows only on a file in the cache, and is followed up
\* only where that file answers it.  An hour or a new driver is waited for only
\* where a fallback made the file: nobody asks the age of any other.
Again ==
    part = "plan" => /\ asks = 1 /\ ~job.on => slots # {}
                     /\ asks = 2 => answer.kind = "cached"
                     /\ driver = 2 \/ (\E s \in slots : s.aged) => \E s \in slots : s.skipped # <<>>

\* In a behaviour about the player every request to the planner is spent.
PlanSpent ==
    /\ title = Title("other", "Hdr10", 8, <<"eac3">>, FALSE, 640) /\ encoder = "libx264"
    /\ asks = MaxAsks /\ job = NoJob /\ slots = {} /\ driver = 1 /\ answer = [kind |-> None]

PlayerStill == wp.direct /\ env.mse
ImagesStill == imgTemps = {} /\ "x" \in DOMAIN imgDisk /\ imgDisk["x"].used = 0

MCInit ==
    /\ WpInit /\ ImgInit
    /\ \/ part = "plan" /\ PlanInit /\ PlayerStill /\ ImagesStill
       \/ part = "player" /\ PlanSpent /\ ImagesStill
       \/ part = "images" /\ PlanSpent /\ PlayerStill
MCNext ==
    /\ UNCHANGED part
    /\ \/ part = "plan" /\ PlanNext /\ UNCHANGED <<wpVars, imgVars>>
       \/ part = "player" /\ WpNext /\ UNCHANGED <<planVars, imgVars>>
       \/ part = "images" /\ ImagesStep /\ UNCHANGED <<planVars, wpVars>>
MCSpec == MCInit /\ [][MCNext]_<<planVars, wpVars, imgVars, part>>
=============================================================================
