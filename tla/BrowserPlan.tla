---------------------------- MODULE BrowserPlan -----------------------------
(***************************************************************************)
(* How a browser's request becomes a command, a cache identity and the     *)
(* chain of attempts that fills the cache: media in                        *)
(* src/crates/server/src/web_ui.rs, the browser half of                    *)
(* src/crates/transcode/src/lib.rs, src/crates/server/src/remux/fallback.rs*)
(* and the attempt loop of remux.rs.                                       *)
(*                                                                         *)
(* A title is fixed for a behaviour.  One browser after another asks for   *)
(* it; a request is refused, answered from the finished file of its cache  *)
(* slot, or runs its command and, when that fails, the fallbacks it        *)
(* carries.  A command is the record of the FFmpeg options that differ     *)
(* between two plans; wording, paths and constant options are left out.    *)
(***************************************************************************)
EXTENDS Integers, FiniteSets, Sequences, SequencesExt

CONSTANTS
    Titles,         \* the titles a behaviour may be about
    Requests,       \* the requests a browser may send
    Encoders,       \* configured web.encoder values
    MaxAsks         \* requests of one behaviour

ASSUME PlanAssumption ==
    /\ Encoders \subseteq {"libx264", "h264_nvenc"} /\ MaxAsks \in Nat

VARIABLES
    title,          \* the item of the catalog
    encoder,        \* web.encoder
    asks,           \* requests so far
    job,            \* the running job, or NoJob
    slots,          \* finished outputs: cache key -> what is on disk
    driver,         \* the device and driver the commands meet
    answer          \* the last reply

planVars == <<title, encoder, asks, job, slots, driver, answer>>

NoJob == [on |-> FALSE]
None == "none"
Hdrs == {"Sdr", "Hdr10", "DolbyVisionProfile5", "DolbyVisionProfile7", "DolbyVisionProfile8",
         "DolbyVisionOther", "Unknown"}
Nvenc == {"h264_nvenc", "hevc_nvenc"}

-----------------------------------------------------------------------------
(* Qualities: BrowserQuality *)

max_width(q)  == CASE q \in {"auto", "uhd_high"} -> 3840 [] q = "full_hd" -> 1920
                   [] q = "data_saver" -> 1280 [] q = "low_360" -> 640
max_height(q) == CASE q \in {"auto", "uhd_high"} -> 2160 [] q = "full_hd" -> 1080
                   [] q = "data_saver" -> 720 [] q = "low_360" -> 360
mobile_safe_h264(q) == q \in {"data_saver", "sd_480", "low_360"}

-----------------------------------------------------------------------------
(* What the stored probe allows *)

\* Mutation: Dolby Vision is taken for a picture a browser can show.
browser_requires_sdr_tonemap_hdr10(hdr) == hdr = "Hdr10"

browser_requires_sdr_tonemap(hdr) == hdr \notin {"Sdr", "Unknown"}

\* profile is whether the stored profile, pixel format and level are plain.
browser_video_codec_compatible(t) ==
    CASE t.codec = "h264" -> t.plain /\ t.depth <= 8 /\ ~browser_requires_sdr_tonemap(t.hdr)
      [] t.codec = "hevc" -> t.plain /\ t.depth <= 10
                             /\ t.hdr \in {"Sdr", "Hdr10", "DolbyVisionProfile8"}
      [] OTHER -> FALSE

browser_can_remux_video(t) == ~t.reordered /\ browser_video_codec_compatible(t)

browser_can_remux_audio(codec) == codec \in {"aac", "ac3", "eac3", "mp3"}

native_hdr10_available(t) ==
    /\ t.video /\ encoder = "h264_nvenc" /\ t.codec = "hevc" /\ t.depth > 8
    /\ t.hdr \in {"Hdr10", "DolbyVisionProfile7", "DolbyVisionProfile8"}

\* Mutation: a copy that cannot be made falls back to H.264 for every source.
native_copy_fallback_output_sdr(t) == "h264_sdr"

native_copy_fallback_output(t) ==
    IF t.hdr = "Sdr" THEN "h264_sdr"
    ELSE IF native_hdr10_available(t) THEN "hevc_hdr10" ELSE None

browser_repair_video_encoder(t) ==
    IF encoder = "h264_nvenc" /\ t.codec = "hevc" /\ t.depth > 8
       /\ t.hdr \in {"Hdr10", "DolbyVisionProfile8"}
    THEN "hevc_nvenc" ELSE encoder

browser_hardware_decode(enc, t) == IF enc \in Nvenc /\ t.codec = "hevc" THEN "Cuda" ELSE None

\* Mutation: Vulkan decode for every encode of such a source.
browser_sdr_hardware_decode_any(enc, t) ==
    IF enc \in Nvenc /\ t.codec = "hevc" /\ t.hdr \in {"Hdr10", "DolbyVisionProfile8"}
    THEN "Vulkan" ELSE browser_hardware_decode(enc, t)

browser_sdr_hardware_decode(enc, t) ==
    IF enc = "h264_nvenc" /\ t.codec = "hevc" /\ t.hdr \in {"Hdr10", "DolbyVisionProfile8"}
    THEN "Vulkan" ELSE browser_hardware_decode(enc, t)

browser_hdr_hardware_decode(enc, t) ==
    IF t.hdr = "DolbyVisionProfile7" THEN None ELSE browser_hardware_decode(enc, t)

\* A neural upscale is for small, plain 8-bit SDR pictures, up to twice.
AiUpscale(t, r) ==
    /\ r.download = None /\ ~r.native /\ t.video /\ r.quality # "auto"
    /\ max_width(r.quality) > t.width /\ max_height(r.quality) > t.height
    /\ t.hdr = "Sdr" /\ t.depth = 8 /\ t.rated /\ encoder = "h264_nvenc"
    /\ (max_width(r.quality) <= 2 * t.width \/ max_height(r.quality) <= 2 * t.height)

-----------------------------------------------------------------------------
(* The request: media *)

Fixed == {"hls_init", "hls_segment", "mse_init", "mse_segment"}

\* The extension and the byte range each delivery needs.
valid_delivery_path(r) ==
    /\ r.ext = CASE r.delivery \in {"hls", "mse"} -> "m3u8"
                 [] r.delivery \in {"hls_segment", "mse_segment"} -> "m4s"
                 [] OTHER -> "mp4"
    /\ r.range = (r.delivery \in Fixed)
    /\ r.after => r.delivery = "mse"

\* The first track of a lossy codec that a browser can be given, else the first.
pick_audio_index(tracks) ==
    LET lossy == {i \in 1..Len(tracks) : tracks[i] \in {"aac", "ac3", "eac3", "mp3"}}
    IN IF lossy # {} THEN Min(lossy) ELSE 1

\* A viewer who names no track hears English, of that the default, or else the
\* default.
default_audio_index(t) ==
    LET told == SelectSeq(<<t.english \cap t.default, t.english, t.default>>, LAMBDA S : S # {})
    IN IF told # <<>> THEN Min(told[1]) ELSE pick_audio_index(t.tracks)

\* 0 stands for a request that names none.
AudioIndex(t, r) == IF r.audio = 0 THEN default_audio_index(t) ELSE r.audio

SelectedAudio(t, r) == IF t.tracks = <<>> THEN None ELSE t.tracks[AudioIndex(t, r)]

\* The errors a request is refused with, in the order the checks are made:
\* those of the parameters alone ...
RequestRefusal(r) ==
    IF ~valid_delivery_path(r) THEN "invalid_delivery"
    ELSE IF r.video # "transcode" /\ r.output # None THEN "invalid_video_output"
    ELSE IF r.download # None /\ (r.delivery # "mp4" \/ r.start # 0) THEN "invalid_download_audio"
    ELSE None

\* ... and those of the item asked for.
ItemRefusal(t, r) ==
    IF r.audio # 0 /\ r.audio \notin 1..Len(t.tracks) \cup {IF t.tracks = <<>> THEN 1 ELSE 0}
    THEN "invalid_audio"
    ELSE IF r.start >= t.length THEN "invalid_start"
    ELSE IF r.output = "hevc_hdr10" /\ ~native_hdr10_available(t) THEN "video_output_unavailable"
    ELSE IF r.video = "copy" /\ ~(t.video /\ r.quality = "auto"
                                  /\ (browser_can_remux_video(t)
                                      \/ (r.native /\ native_copy_fallback_output(t) # None)))
    THEN "video_copy_unavailable"
    ELSE IF r.video = "repair" /\ ~(t.video /\ r.quality = "auto" /\ t.codec \in {"h264", "hevc"})
    THEN "video_repair_unavailable"
    ELSE IF r.copyAudio /\ ~browser_can_remux_audio(SelectedAudio(t, r)) THEN "audio_copy_unavailable"
    ELSE None

Refusal(t, r) == IF RequestRefusal(r) # None THEN RequestRefusal(r) ELSE ItemRefusal(t, r)

VideoOutput(t, r) ==
    IF r.video = "copy" /\ ~browser_can_remux_video(t) THEN native_copy_fallback_output(t)
    ELSE IF r.output = None THEN "h264_sdr" ELSE r.output

CopiesVideo(t, r) == r.video = "copy" /\ browser_can_remux_video(t)

\* Native downloads carry their audio tracks one by one: at most one list.
NativeAudio(t, r) ==
    IF r.download = None THEN <<>>
    ELSE LET keep == {i \in 1..Len(t.tracks) : r.download = "all" \/ i = AudioIndex(t, r)}
         IN <<SetToSortSeq({[index |-> i, codec |-> t.tracks[i],
                             copy |-> browser_can_remux_audio(t.tracks[i])] : i \in keep},
                           LAMBDA a, b : a.index < b.index)>>

Plan(t, r) ==
    LET output == VideoOutput(t, r)
        repair == IF r.video = "repair" THEN browser_repair_video_encoder(t) ELSE None
        enc    == IF ~t.video \/ CopiesVideo(t, r) THEN "copy"
                  ELSE IF output = "hevc_hdr10" THEN "hevc_nvenc"
                  ELSE IF repair # None THEN repair ELSE encoder
    IN [encoder |-> enc,
        keepHdr |-> repair = "hevc_nvenc" \/ output = "hevc_hdr10",
        decode  |-> IF output = "hevc_hdr10" THEN browser_hdr_hardware_decode(enc, t)
                    ELSE browser_sdr_hardware_decode(enc, t),
        audio   |-> IF r.copyAudio THEN "copy" ELSE "aac",
        index   |-> AudioIndex(t, r), quality |-> r.quality,
        ai      |-> AiUpscale(t, r), tracks |-> NativeAudio(t, r)]

BrowserOutputOptions(t, r) ==
    [preset |-> r.preset, video |-> IF t.video THEN t.codec ELSE None,
     sound |-> SelectedAudio(t, r), hdr |-> t.hdr, start |-> r.start,
     hls |-> r.delivery # "mp4"]

-----------------------------------------------------------------------------
(* The command: browser_ffmpeg_os_args *)

\* browser_output_policy
Policy(p, o) ==
    LET has    == o.video # None
        copied == has /\ p.encoder = "copy"
        needs  == has /\ browser_requires_sdr_tonemap(o.hdr)
    IN [needs   |-> needs,
        tonemap |-> needs /\ p.encoder \notin {"copy", "hevc_nvenc"},
        bsf     |-> p.audio = "copy" /\ o.sound = "aac",
        hvc1    |-> o.video = "hevc" /\ p.encoder \in {"copy", "hevc_nvenc"},
        seek    |-> IF o.start = 0 \/ ~has \/ (copied <=> p.audio = "copy") THEN "accurate"
                    ELSE IF p.audio = "copy" THEN "trim" ELSE "loose"]

\* The filters grow_args gives an encoder, before any tone mapping.
browser_scale_filter(p) ==
    IF p.encoder = "copy" THEN <<>>
    ELSE IF p.decode = "Cuda" THEN <<"scale_cuda", "hwdownload">> ELSE <<"scale">>

Libplacebo(decode) ==
    CASE decode = "Vulkan" -> <<"libplacebo", "hwdownload">>
      [] decode = "Cuda" -> <<"hwdownload", "hwupload", "libplacebo", "hwdownload">>
      [] OTHER -> <<"hwupload", "libplacebo", "hwdownload">>

Preset(p, o) ==
    IF o.video = None \/ p.encoder = "copy" \/ o.preset = "balanced" THEN "default" ELSE o.preset

DecodePreroll == 5

\* Mutation: a short seek keeps the whole lead.
Seek_fixedLead(o, policy) ==
    IF o.start = 0 THEN [before |-> 0, after |-> 0, loose |-> FALSE]
    ELSE IF policy.seek = "trim"
    THEN [before |-> IF o.start > DecodePreroll THEN o.start - DecodePreroll ELSE 0,
          after |-> DecodePreroll, loose |-> FALSE]
    ELSE [before |-> o.start, after |-> 0, loose |-> policy.seek = "loose"]

\* apply_browser_input_seek
Seek(o, policy) ==
    LET lead == IF o.start < DecodePreroll THEN o.start ELSE DecodePreroll
    IN IF o.start = 0 THEN [before |-> 0, after |-> 0, loose |-> FALSE]
       ELSE IF policy.seek = "trim" THEN [before |-> o.start - lead, after |-> lead, loose |-> FALSE]
       ELSE [before |-> o.start, after |-> 0, loose |-> policy.seek = "loose"]

\* ffmpeg_grow_args: one option per audio output.
AudioArgs(p, policy) ==
    IF p.tracks # <<>>
    THEN [n \in 1..Len(p.tracks[1]) |-> LET track == p.tracks[1][n] IN
            [index |-> track.index, codec |-> IF track.copy THEN "copy" ELSE "aac",
             bsf |-> track.copy /\ track.codec = "aac", first |-> track.index = p.index]]
    ELSE <<[index |-> p.index, codec |-> p.audio, bsf |-> policy.bsf, first |-> TRUE]>>

\* Colours: HDR10 signalling, or BT.709 once mapped to SDR.
Colour(p, policy) ==
    IF policy.tonemap THEN "bt709"
    ELSE IF p.encoder = "hevc_nvenc" /\ p.keepHdr THEN "bt2020-pq" ELSE "untouched"

Command(p, o) ==
    LET policy == Policy(p, o)
    IN [decode  |-> p.decode, encoder |-> p.encoder,
        preset  |-> Preset(p, o),
        quality |-> IF p.encoder = "copy" THEN None ELSE p.quality,
        mobile  |-> p.encoder \in {"libx264", "h264_nvenc"} /\ mobile_safe_h264(p.quality),
        idr     |-> p.encoder \in Nvenc,
        filters |-> IF policy.tonemap \/ p.ai THEN Libplacebo(p.decode) ELSE browser_scale_filter(p),
        shader  |-> p.ai,
        colour  |-> Colour(p, policy), tag |-> policy.hvc1,
        audio   |-> AudioArgs(p, policy), stereo |-> p.audio = "aac" /\ p.tracks = <<>>,
        gop     |-> IF p.encoder = "copy" THEN 0 ELSE IF o.hls THEN 1 ELSE 2,
        paced   |-> o.hls /\ (p.encoder # "copy" \/ p.audio # "copy"),
        seek    |-> Seek(o, policy)]

-----------------------------------------------------------------------------
(* Cache identity: browser_cache_key_from_base *)

\* transcode_cache_key_with_tools; source and tools are fixed here.
BaseKey(p) == <<p.encoder, p.decode, p.audio, p.index, p.keepHdr, p.quality>>

\* Mutation: the speed of the encode is no part of the identity.
CacheKey_presetless(p, o) ==
    LET policy == Policy(p, o)
    IN [base |-> BaseKey(p), preset |-> "default", tonemap |-> policy.tonemap,
        hdr |-> policy.needs, bsf |-> policy.bsf, hvc1 |-> policy.hvc1,
        mixed |-> policy.seek # "accurate", hls |-> o.hls, ai |-> p.ai,
        tracks |-> p.tracks, start |-> o.start]

CacheKey(p, o) ==
    LET policy == Policy(p, o)
    IN [base |-> BaseKey(p), preset |-> Preset(p, o), tonemap |-> policy.tonemap,
        hdr |-> policy.needs, bsf |-> policy.bsf, hvc1 |-> policy.hvc1,
        mixed |-> policy.seek # "accurate", hls |-> o.hls, ai |-> p.ai,
        tracks |-> p.tracks, start |-> o.start]

\* effective_fallback_cache_key
FallbackIdentity(key, command, device) == <<key, command, device>>

-----------------------------------------------------------------------------
(* The job: its command, its fallbacks and what its output must contain *)

HardwareFallback(p) == IF p.decode = "Vulkan" THEN <<[p EXCEPT !.decode = "Cuda"]>> ELSE <<>>

PortableFallback(t, p) ==
    IF (t.video /\ p.encoder # "libx264") \/ p.audio # "aac"
    THEN <<[p EXCEPT !.encoder = IF t.video THEN "libx264" ELSE @,
                     !.decode = None, !.audio = "aac"]>>
    ELSE <<>>

\* The codecs the finished file of a request must have.
Expected(t, r) ==
    LET p == Plan(t, r)
    IN [video |-> IF ~t.video THEN None
                  ELSE IF p.encoder = "copy" THEN t.codec
                  ELSE IF p.encoder = "hevc_nvenc" THEN "hevc" ELSE "h264",
        audio |-> IF p.tracks # <<>>
                  THEN [n \in 1..Len(p.tracks[1]) |->
                            IF p.tracks[1][n].copy THEN p.tracks[1][n].codec ELSE "aac"]
                  ELSE IF t.tracks = <<>> THEN <<>>
                  ELSE <<IF r.copyAudio THEN SelectedAudio(t, r) ELSE "aac">>]

\* Mutation: a fallback is checked against the codecs of the first attempt.
Expectation_ofRequest(e, c) == e

\* fallback.rs expectation: re-encoded streams have the encoder's codec.
Expectation(e, c) ==
    [video |-> IF c.encoder = "copy" \/ e.video = None THEN e.video
               ELSE IF c.encoder \in {"libx264", "h264_nvenc"} THEN "h264" ELSE "hevc",
     audio |-> [n \in 1..Len(e.audio) |->
                    IF n <= Len(c.audio) /\ c.audio[n].codec # "copy"
                    THEN c.audio[n].codec ELSE e.audio[n]]]

JobSpec(t, r) ==
    LET p == Plan(t, r)
        o == BrowserOutputOptions(t, r)
        fallbacks == HardwareFallback(p) \o PortableFallback(t, p)
    IN [key |-> CacheKey(p, o), expected |-> Expected(t, r), cacheable |-> r.start = 0,
        attempts |-> <<Command(p, o)>> \o [n \in 1..Len(fallbacks) |-> Command(fallbacks[n], o)]]

-----------------------------------------------------------------------------
(* Requests, attempts and publication *)

\* What is at the place of a key: the command that made it, under which stamp,
\* and whether that is more than an hour ago.
Slot(key) == {s \in slots : s.key = key}

\* Mutation: a fallback is as good as the plan for ever.
ReusableFallback_forever(s, spec) ==
    \E n \in 2..Len(spec.attempts) :
        s.stamp = <<FallbackIdentity(spec.key, spec.attempts[n], driver), "unsupported">>

\* reusable: a fallback stands in for the plan only when every attempt before
\* it failed for good on this device, and only for an hour.
ReusableFallback(s, spec) ==
    /\ ~s.aged
    /\ \E n \in 2..Len(spec.attempts) :
         s.stamp = <<FallbackIdentity(spec.key, spec.attempts[n], driver), "unsupported">>

Ready(s, spec) == spec.cacheable /\ (s.stamp = <<spec.key>> \/ ReusableFallback(s, spec))

\* What cannot be reused is removed before its key is produced again.
Ask(r) ==
    /\ asks < MaxAsks /\ ~job.on /\ asks' = asks + 1
    /\ LET refused == Refusal(title, r)
           spec == JobSpec(title, r)
           ready == {s \in Slot(spec.key) : Ready(s, spec)}
           found == CHOOSE s \in ready : TRUE
       IN IF refused # None
          THEN answer' = [kind |-> refused] /\ UNCHANGED <<job, slots>>
          ELSE IF ready # {}
          THEN /\ answer' = [kind |-> "cached", r |-> r, made |-> found.made,
                             skipped |-> found.skipped, aged |-> found.aged]
               /\ UNCHANGED <<job, slots>>
          ELSE /\ job' = [on |-> TRUE, r |-> r, spec |-> spec, at |-> 1, failure |-> None, classes |-> <<>>]
               /\ slots' = slots \ Slot(spec.key)
               /\ answer' = [kind |-> "live"]
    /\ UNCHANGED <<title, encoder, driver>>

\* Mutation: only the last failure decides about reuse.
Worst_last(prior, failure) == failure

Worst(prior, failure) == IF prior \in {None, "unsupported"} THEN failure ELSE prior

\* A failed attempt moves on unless a reader already pinned its output.
AttemptFails(class, pinned) ==
    /\ job.on
    /\ IF job.at < Len(job.spec.attempts) /\ ~pinned
       THEN job' = [job EXCEPT !.at = @ + 1, !.failure = Worst(@, class),
                               !.classes = Append(@, class)]
       ELSE job' = NoJob
    /\ UNCHANGED <<title, encoder, asks, slots, driver, answer>>

Stamp(j) ==
    IF j.at = 1 THEN <<j.spec.key>>
    ELSE <<FallbackIdentity(j.spec.key, j.spec.attempts[j.at], driver), j.failure>>

\* The command succeeds; its output is validated and takes the slot.
AttemptSucceeds ==
    /\ job.on
    /\ LET c == job.spec.attempts[job.at]
       IN slots' = IF ~job.spec.cacheable THEN slots
                   ELSE slots \cup
                        {[key |-> job.spec.key, stamp |-> Stamp(job), made |-> c,
                          skipped |-> job.classes, aged |-> FALSE]}
    /\ job' = NoJob
    /\ UNCHANGED <<title, encoder, asks, driver, answer>>

\* The driver is updated or the device replaced.
ChangeDriver ==
    /\ ~job.on /\ driver = 1 /\ driver' = 2
    /\ UNCHANGED <<title, encoder, asks, job, slots, answer>>

\* Of an hour only matters whether it has passed since a file was made.
HourPasses ==
    /\ \E s \in slots : ~s.aged
    /\ slots' = {[s EXCEPT !.aged = TRUE] : s \in slots}
    /\ UNCHANGED <<title, encoder, asks, job, driver, answer>>

PlanInit ==
    /\ title \in Titles /\ encoder \in Encoders /\ asks = 0
    /\ job = NoJob /\ slots = {} /\ driver = 1 /\ answer = [kind |-> None]

PlanNext ==
    \/ \E r \in Requests : Ask(r)
    \/ \E class \in {"unsupported", "resource"}, pinned \in BOOLEAN : AttemptFails(class, pinned)
    \/ AttemptSucceeds
    \/ ChangeDriver
    \/ HourPasses

PlanSpec == PlanInit /\ [][PlanNext]_planVars

-----------------------------------------------------------------------------
(* Properties *)

Accepted == {r \in Requests : Refusal(title, r) = None}

\* Two requests with one cache key mean one command, so a cached file never
\* answers a request it was not made for
\* (browser_cache_key_from_base against browser_ffmpeg_os_args).
KeyDeterminesCommand ==
    asks = 0 =>
        Cardinality({JobSpec(title, r).key : r \in Accepted})
          = Cardinality({[key |-> JobSpec(title, r).key, made |-> JobSpec(title, r).attempts[1],
                          expected |-> JobSpec(title, r).expected] : r \in Accepted})

\* HDR pictures are copied to a client that can take them, stay PQ-signalled
\* HEVC, or are tone-mapped to BT.709 SDR, in the plan and in its fallbacks;
\* nothing encodes them unmapped (media, browser_output_policy).
DynamicRangeKept ==
    job.on /\ title.video /\ title.hdr \notin {"Sdr", "Unknown"} =>
        \A n \in 1..Len(job.spec.attempts) :
            LET c == job.spec.attempts[n]
            IN \/ c.encoder = "copy" /\ browser_video_codec_compatible(title)
               \/ c.encoder = "hevc_nvenc" /\ c.colour = "bt2020-pq"
               \/ c.colour = "bt709" /\ Contains(c.filters, "libplacebo")

\* A native client that asked to copy HDR video gets HDR video first.
NativeCopyKeepsHdr ==
    job.on /\ job.at = 1 /\ job.r.native /\ job.r.video = "copy" /\ title.hdr # "Sdr" =>
        job.spec.attempts[1].encoder \in {"copy", "hevc_nvenc"}

\* Every filter graph starts where the decoder leaves its frames: CUDA frames
\* are scaled or downloaded there, Vulkan frames go to libplacebo, and frames
\* in memory are never downloaded.
GraphsFit ==
    job.on => \A n \in 1..Len(job.spec.attempts) :
        LET c == job.spec.attempts[n]
        IN IF c.encoder = "copy" THEN c.filters = <<>> /\ ~c.shader
           ELSE CASE c.decode = "Cuda" -> c.filters[1] \in {"scale_cuda", "hwdownload"}
                  [] c.decode = "Vulkan" -> c.filters[1] = "libplacebo"
                  [] OTHER -> c.filters[1] \in {"scale", "hwupload"}

\* However a seek is split over input and output, the file starts at the
\* second asked for, and copied and encoded tracks start together.
SeeksMeet ==
    job.on => \A n \in 1..Len(job.spec.attempts) :
        LET c == job.spec.attempts[n]
            copiesVideo == title.video /\ c.encoder = "copy"
            copiesAudio == c.audio # <<>> /\ c.audio[1].codec = "copy"
        IN /\ c.seek.before + c.seek.after = job.r.start
           /\ title.video /\ ~copiesVideo /\ copiesAudio /\ job.r.start > 0 /\ job.r.download = None
                => c.seek.after > 0

\* The codecs a finished file is checked for are those its command writes,
\* for the plan and for each fallback (fallback.rs expectation).
ChecksWhatItMade ==
    job.on => \A n \in 1..Len(job.spec.attempts) :
        LET c == job.spec.attempts[n]
            e == Expectation(job.spec.expected, c)
        IN /\ e.video = IF ~title.video THEN None
                        ELSE IF c.encoder = "copy" THEN title.codec
                        ELSE IF c.encoder = "hevc_nvenc" THEN "hevc" ELSE "h264"
           /\ \A k \in 1..Len(e.audio) :
                e.audio[k] = IF c.audio[k].codec = "copy" THEN title.tracks[c.audio[k].index]
                             ELSE c.audio[k].codec

\* A file served from the cache was made by the plan's own command, or within
\* the last hour by a fallback, after every attempt before it proved
\* unsupported (reusable, stamp_key).
CacheAnswersHonestly ==
    answer.kind = "cached" =>
        LET spec == JobSpec(title, answer.r)
        IN \/ answer.made = spec.attempts[1]
           \/ \E n \in 2..Len(spec.attempts) :
                /\ answer.made = spec.attempts[n]
                /\ answer.skipped = [k \in 1..(n - 1) |-> "unsupported"] /\ ~answer.aged

\* A request, its cache key, its command, its check and the cached file it may
\* be answered with all mean the same output (media, browser_output_policy).
CommandsHonest ==
    KeyDeterminesCommand /\ SeeksMeet /\ ChecksWhatItMade /\ CacheAnswersHonestly

\* Pictures keep the dynamic range that was promised, through filter graphs
\* that fit their decoder, in the plan and in each of its fallbacks.
PicturesKept == DynamicRangeKept /\ NativeCopyKeepsHdr /\ GraphsFit

\* What is planned for a browser is honest about its commands and its pictures.
PlansSound == CommandsHonest /\ PicturesKept

=============================================================================
