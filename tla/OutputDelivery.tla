--------------------------- MODULE OutputDelivery ---------------------------
(* Responses over a prepared output (remux.rs: wait_ready, serve_remux,      *)
(* serve_finished, serve_growing, serve_hls_resource, the native downloads   *)
(* and stream_growing).  A producer grows, replaces, publishes or drops the  *)
(* file while responses wait for it, promise a range of it and stream it.    *)
(* Bytes are counted in units; a range is [start, last) with last optional.  *)
EXTENDS Integers, Sequences, FiniteSets

CONSTANTS
    Readers,      \* requests over time of one connection each
    Downloader,   \* a native client that joins ranges into an archive
    Wanted,       \* what readers may ask: [kind, start, last]
    Total,        \* size of the finished output
    Batch,        \* most bytes of one download range
    MaxInodes,    \* attempts at the output
    MaxAsks,      \* requests
    MaxActive,    \* of them at a time
    MaxCuts       \* truncations from outside

\* Readers ask for resources, or for the output from somewhere on.
ASSUME OdAssumption ==
    /\ IsFiniteSet(Readers) /\ Downloader \notin Readers
    /\ Total \in Nat \ {0} /\ Batch \in Nat \ {0} /\ MaxInodes \in Nat \ {0}
    /\ MaxAsks \in Nat /\ MaxActive \in Nat /\ MaxCuts \in Nat
    /\ \A q \in Wanted :
         /\ q = [kind |-> q.kind, start |-> q.start, last |-> q.last]
         /\ q.kind \in {"plain", "resource"} /\ q.start \in Nat
         /\ \/ q.last = <<>> /\ q.kind = "plain"
            \/ q.last = <<q.last[1]>> /\ q.last[1] \in Nat /\ q.start <= q.last[1]

VARIABLES
    job,    \* the RemuxJob and its file
    size,   \* bytes of each attempt
    rd,     \* a response per client
    arch,   \* what the downloader has
    cuts,   \* truncations so far
    asks    \* requests so far

odVars == <<job, size, rd, arch, cuts, asks>>
OdClients == Readers \cup {Downloader}
FIRST_BYTES == 1

Idle ==
    [pc |-> "idle", req |-> [kind |-> "none"], tag |-> <<>>, note |-> FALSE,
     st |-> "none", need |-> 0, of |-> 0, upto |-> <<>>, pos |-> 0, fd |-> 0, out |-> "none"]

Streaming == {"look", "read", "stat", "end", "write", "park"}
\* Between asking to be told of the next change and acting on it.
Listening == {"pin", "soon", "patient", "measure", "more", "read", "stat", "end", "park"}

-----------------------------------------------------------------------------
(* The job *)

Live == job.state \in {"preprocessing", "starting", "growing"}
Unavailable == job.flag \/ job.state = "failed"

\* The file a path leads to: the pinned descriptor, or the current attempt.
CurrentFile == IF job.pinned # <<>> THEN job.pinned[1] ELSE job.file
current_len == size[CurrentFile]

\* changed.notify_waiters: everyone who has asked to be told.
NotifyAll ==
    rd' = [r \in OdClients |-> [rd[r] EXCEPT !.note = @ \/ rd[r].pc \in Listening]]

\* transition: the state, then a notification.
Transition(s) == job' = [job EXCEPT !.state = s, !.owed = TRUE]

JobUnchanged == UNCHANGED <<size, arch, cuts, asks>>

\* ffmpeg writes.
Produce ==
    /\ job.state \in {"starting", "growing"} /\ size[job.file] < Total
    /\ size' = [size EXCEPT ![job.file] = @ + 1]
    /\ UNCHANGED <<job, rd, arch, cuts, asks>>

\* The producer's poll: enough bytes make it Growing, a Growing one tells.
Poll ==
    /\ job.state \in {"preprocessing", "starting"} /\ ~job.flag /\ ~job.owed
    /\ Transition(IF job.state = "preprocessing" THEN "starting"
                  ELSE IF size[job.file] >= FIRST_BYTES THEN "growing" ELSE "starting")
    /\ job'.state # job.state
    /\ UNCHANGED rd /\ JobUnchanged

PollGrowing ==
    /\ job.state = "growing" /\ \E r \in OdClients : ~rd[r].note /\ rd[r].pc \in Listening
    /\ NotifyAll /\ UNCHANGED job /\ JobUnchanged

Notify ==
    /\ job.owed /\ job' = [job EXCEPT !.owed = FALSE]
    /\ NotifyAll /\ JobUnchanged

\* The encoder failed before anyone was shown its bytes: another attempt, to
\* the same name, decided and cleared under the output lock.
Fallback ==
    /\ job.state \in {"starting", "growing"} /\ job.pinned = <<>> /\ ~job.flag
    /\ job.file < MaxInodes
    /\ job' = [job EXCEPT !.state = "starting", !.file = @ + 1, !.owed = TRUE]
    /\ UNCHANGED <<size, rd, arch, cuts, asks>>

Publish ==
    /\ job.state \in {"starting", "growing"} /\ size[job.file] = Total /\ ~job.flag
    /\ Transition("complete") /\ UNCHANGED rd /\ JobUnchanged

Fail ==
    /\ Live /\ ~job.flag
    /\ Transition("failed") /\ UNCHANGED rd /\ JobUnchanged

\* cancel sets the flag; the producer publishes the state later.
Cancel ==
    /\ Live /\ ~job.flag
    /\ job' = [job EXCEPT !.flag = TRUE]
    /\ NotifyAll /\ JobUnchanged

Reap ==
    /\ Live /\ job.flag
    /\ Transition("cancelled") /\ UNCHANGED rd /\ JobUnchanged

\* The job leaves the registry.  Another one adopts the finished file, or
\* starts over.
Replace(adopt) ==
    /\ ~Live /\ ~job.owed /\ \A r \in OdClients : rd[r].pc = "idle"
    /\ \/ adopt /\ job.state = "complete"
          /\ job' = [job EXCEPT !.pinned = <<>>]
          /\ job' # job
       \/ ~adopt /\ job.file < MaxInodes
          /\ job' = [state |-> "starting", flag |-> FALSE, owed |-> FALSE, pinned |-> <<>>,
                     file |-> job.file + 1]
    /\ UNCHANGED <<size, rd, arch, cuts, asks>>

\* Something else shortens the published file.
Truncate ==
    /\ job.state = "complete" /\ cuts < MaxCuts /\ size[job.file] > 1
    /\ size' = [size EXCEPT ![job.file] = @ - 1] /\ cuts' = cuts + 1
    /\ UNCHANGED <<job, rd, arch, asks>>

-----------------------------------------------------------------------------
(* Responses *)

Go(r, f) == rd' = [rd EXCEPT ![r] = f] /\ UNCHANGED <<size, arch, cuts, asks>>
End(r, out) ==
    Go(r, [Idle EXCEPT !.pc = "done", !.out = out, !.upto = rd[r].upto, !.pos = rd[r].pos])

\* Headers sent for [start, upto) of a file: the promise of the response.
Promise(r, start, upto, of) ==
    [Idle EXCEPT !.pc = "open", !.pos = start, !.upto = upto, !.of = of]

Ask(r, q, tag) ==
    /\ rd[r].pc = "idle" /\ asks < MaxAsks /\ asks' = asks + 1
    /\ Cardinality({c \in OdClients : rd[c].pc # "idle"}) < MaxActive
    /\ rd' = [rd EXCEPT ![r] = [Idle EXCEPT !.pc = "ready", !.req = q, !.tag = tag]]
    /\ UNCHANGED <<job, size, arch, cuts>>

\* The next range of the archive, guarded by the validator it came with.
AskMore ==
    /\ ~arch.whole
    /\ Ask(Downloader, [kind |-> "progressive", start |-> Len(arch.data), last |-> <<>>],
           IF arch.data = <<>> THEN <<>> ELSE arch.tag)

\* wait_ready_until: ask to be told, then look.  (A change between the two is
\* seen by the look.)  A notification goes round the loop.
WaitReady(r) ==
    /\ rd[r].pc = "ready" \/ (rd[r].pc \in {"patient", "soon"} /\ rd[r].note)
    /\ UNCHANGED job
    /\ Go(r, [rd[r] EXCEPT !.note = FALSE,
                !.out = IF job.state \in {"failed", "cancelled"} THEN job.state ELSE @,
                !.pc = IF job.state \in {"complete", "growing"} THEN "pin"
                       ELSE IF job.state \in {"failed", "cancelled"} THEN "refused"
                       ELSE IF job.state = "preprocessing" THEN "patient" ELSE "soon"])

\* The wait for a first segment, or for an offset, is bounded.
Timeout(r) ==
    /\ rd[r].pc \in {"soon", "more"} /\ ~rd[r].note /\ UNCHANGED job
    /\ Go(r, [rd[r] EXCEPT !.out = "timeout",
                !.pc = IF @ = "more" /\ rd[r].req.kind = "progressive" THEN "flag" ELSE "refused"])

\* pin_ready_output: readiness and descriptor under one lock.
Pinned_pathOnly(f) == job
Pinned(f) == [job EXCEPT !.pinned = <<f>>]

pin_ready_output(r) ==
    /\ rd[r].pc = "pin"
    /\ LET usable == job.state \in {"growing", "complete"} /\ ~job.flag
           ready == usable /\ current_len >= FIRST_BYTES
       IN /\ job' = IF ready THEN Pinned(CurrentFile) ELSE job
          /\ Go(r, [rd[r] EXCEPT
                !.out = IF job.flag \/ job.state \in {"failed", "cancelled"} THEN "cancelled" ELSE @,
                !.pc = IF ready THEN (IF rd[r].st = "resume" THEN "fin" ELSE "route")
                       ELSE IF usable \/ (Live /\ ~job.flag) THEN "soon" ELSE "refused"])

\* A download that could not be readied is told the job's state instead.
Refused(r) ==
    /\ rd[r].pc = "refused" /\ UNCHANGED job
    /\ IF rd[r].req.kind = "progressive" /\ rd[r].st # "resume"
         THEN Go(r, [rd[r] EXCEPT !.pc = "resumable"])
         ELSE End(r, "refused")

\* serve_resumable_download
serve_resumable_download(r) ==
    /\ rd[r].pc = "resumable" /\ UNCHANGED job
    /\ IF job.state = "complete"
         THEN Go(r, [rd[r] EXCEPT !.pc = "pin", !.st = "resume"])
         ELSE End(r, "refused")

\* After readiness: by delivery, and by whether the output is complete.
Route(r) ==
    LET q == rd[r].req
        finished == job.state = "complete" /\ current_len > 0
        whole == q.start = 0 /\ q.last = <<>>
        need == IF q.kind # "progressive" /\ q.last # <<>> THEN q.last[1] ELSE q.start + 1
    IN /\ rd[r].pc = "route" /\ UNCHANGED job
       /\ Go(r, IF q.kind = "plain" /\ finished THEN [rd[r] EXCEPT !.pc = "fin"]
                ELSE IF q.kind = "plain" /\ whole THEN Promise(r, 0, <<>>, CurrentFile)
                ELSE [rd[r] EXCEPT !.pc = "offset", !.need = need])

\* wait_offset: ask to be told, the state, then the length.
WaitOffset(r) ==
    /\ rd[r].pc = "offset" \/ (rd[r].pc = "more" /\ rd[r].note)
    /\ UNCHANGED job
    /\ Go(r, [rd[r] EXCEPT !.note = FALSE, !.st = job.state,
                !.pc = IF job.state \notin {"failed", "cancelled"} THEN "measure"
                       ELSE IF rd[r].req.kind = "progressive" THEN "flag" ELSE "refused"])

Measure(r) ==
    /\ rd[r].pc = "measure" /\ UNCHANGED job
    /\ Go(r, [rd[r] EXCEPT !.pc =
                IF current_len < rd[r].need /\ ~(rd[r].st = "complete" /\ current_len > 0) THEN "more"
                ELSE IF rd[r].req.kind = "progressive" THEN "flag" ELSE "range"])

\* serve_hls_resource and serve_growing: the range of the response.
PromiseRange(r) ==
    LET q == rd[r].req
        have == current_len
        end == IF q.last # <<>> /\ q.last[1] < have THEN q.last[1] ELSE have
    IN /\ rd[r].pc = "range" /\ UNCHANGED job
       /\ IF q.kind = "resource"
            THEN IF job.state = "cancelled" \/ have < q.last[1] THEN End(r, "refused")
                 ELSE Go(r, Promise(r, q.start, q.last, CurrentFile))
          ELSE IF q.start >= have THEN End(r, "refused")
               ELSE Go(r, Promise(r, q.start, <<end>>, CurrentFile))

\* serve_finished: a stale Range is ignored.
serve_finished(r) ==
    LET q == rd[r].req
        tag == <<"completed", CurrentFile>>
        ranged == (q.start > 0 \/ q.last # <<>>) /\ (rd[r].tag = <<>> \/ rd[r].tag = tag)
        have == current_len
        end == IF ranged /\ q.last # <<>> /\ q.last[1] < have THEN q.last[1] ELSE have
        start == IF ranged THEN q.start ELSE 0
    IN /\ rd[r].pc = "fin" /\ UNCHANGED <<job, size, cuts, asks>>
       /\ IF start >= have \/ Unavailable
            THEN End(r, "refused")
            ELSE /\ rd' = [rd EXCEPT ![r] = Promise(r, start, <<end>>, CurrentFile)]
                 /\ arch' = IF r # Downloader THEN arch
                            ELSE [arch EXCEPT !.tag = tag, !.total = <<have>>,
                                              !.data = IF ranged THEN @ ELSE <<>>]

\* serve_progressive_download: complete is read before the length.
ReadFlag(r) ==
    /\ rd[r].pc = "flag" /\ UNCHANGED job
    /\ Go(r, [rd[r] EXCEPT !.pc = "meta", !.st = IF job.state = "complete" THEN "complete" ELSE "none"])

\* Whether the length is told as final.
Final(r) == rd[r].st = "complete"

if_range_matches_any(tag, etag) == TRUE
if_range_matches(tag, etag) == tag = <<>> \/ tag = etag

serve_progressive_download(r) ==
    LET q == rd[r].req
        have == current_len
        etag == <<"file", CurrentFile>>
        end == IF q.start + Batch < have THEN q.start + Batch ELSE have
        told == IF Final(r) THEN <<have>> ELSE <<>>
    IN /\ rd[r].pc = "meta"
       /\ IF Unavailable THEN End(r, "refused") /\ UNCHANGED job
          ELSE IF ~if_range_matches(rd[r].tag, etag) \/ (q.start >= have /\ ~Final(r))
          THEN Go(r, [rd[r] EXCEPT !.pc = "resumable"]) /\ UNCHANGED job
          ELSE /\ rd' = [rd EXCEPT ![r] = IF q.start >= have
                                          THEN [Idle EXCEPT !.pc = "done", !.out = "refused"]
                                          ELSE Promise(r, q.start, <<end>>, CurrentFile)]
               /\ arch' = [arch EXCEPT !.tag = etag, !.total = told]
               /\ UNCHANGED <<job, size, cuts, asks>>

-----------------------------------------------------------------------------
(* stream_growing *)

\* open_output
Open(r) ==
    /\ rd[r].pc = "open"
    /\ IF Unavailable THEN End(r, "cut") /\ UNCHANGED job
       ELSE /\ job' = [job EXCEPT !.pinned = <<CurrentFile>>]
            /\ Go(r, [rd[r] EXCEPT !.fd = CurrentFile, !.pc = "look"])

Met(r) == rd[r].upto # <<>> /\ rd[r].pos >= rd[r].upto[1]

\* Ask to be told of the next change before looking at anything.
Look(r) ==
    /\ rd[r].pc = "look" \/ (rd[r].pc = "park" /\ rd[r].note)
    /\ UNCHANGED job
    /\ IF Met(r) THEN End(r, "whole")
       ELSE IF Unavailable THEN End(r, "cut")
       ELSE Go(r, [rd[r] EXCEPT !.note = FALSE, !.st = job.state, !.pc = "read"])

\* A positioned read, one unit at a time.
Read(r) ==
    /\ rd[r].pc = "read" /\ UNCHANGED job
    /\ Go(r, [rd[r] EXCEPT !.pc = IF rd[r].pos < size[rd[r].fd] THEN "write" ELSE "stat"])

\* What the response took the output for when it looked.
SawComplete_late(r) == job.state = "complete"
SawComplete(r) == rd[r].st = "complete"

\* Nothing to read: the file's length, then whether it was truncated, ended,
\* raced, or is not there yet.
Stat(r) ==
    /\ rd[r].pc = "stat" /\ UNCHANGED job
    /\ Go(r, [rd[r] EXCEPT !.need = size[rd[r].fd], !.pc = "end"])

Again(r) == rd[r].pos < rd[r].need \/ job.state = "complete"
Truncated(r) == rd[r].pos > rd[r].need \/ (SawComplete(r) /\ rd[r].upto # <<>>)

AtEnd_asksLate(r) ==
    /\ rd[r].pc = "end" /\ UNCHANGED job
    /\ IF SawComplete(r) THEN End(r, IF Truncated(r) THEN "cut" ELSE "whole")
       ELSE Go(r, [rd[r] EXCEPT !.pc = IF Again(r) THEN "look" ELSE "park", !.note = FALSE])

AtEnd(r) ==
    /\ rd[r].pc = "end" /\ UNCHANGED job
    /\ IF rd[r].pos >= rd[r].need /\ Truncated(r) THEN End(r, "cut")
       ELSE IF rd[r].pos >= rd[r].need /\ SawComplete(r) THEN End(r, "whole")
       ELSE Go(r, [rd[r] EXCEPT !.pc = IF Again(r) THEN "look" ELSE "park"])

\* A client takes the bytes unless it left or the job ended first.
Write(r) ==
    /\ rd[r].pc = "write" /\ UNCHANGED <<job, size, cuts, asks>>
    /\ rd' = [rd EXCEPT ![r] = [rd[r] EXCEPT !.pos = @ + 1, !.pc = "look", !.st = "none", !.note = FALSE]]
    /\ arch' = IF r = Downloader THEN [arch EXCEPT !.data = Append(@, rd[r].fd)] ELSE arch

Stopped(r) ==
    /\ rd[r].pc = "write" /\ Unavailable /\ UNCHANGED job
    /\ End(r, "cut")

Gone(r) ==
    /\ rd[r].pc \in Streaming \cup {"soon", "patient", "more"} /\ UNCHANGED job
    /\ End(r, "gone")

\* The connection closes; the downloader joins what it got.
Close(r) ==
    /\ rd[r].pc = "done"
    /\ rd' = [rd EXCEPT ![r] = Idle]
    /\ arch' = IF r = Downloader /\ arch.total = <<Len(arch.data)>>
                 THEN [arch EXCEPT !.whole = TRUE] ELSE arch
    /\ UNCHANGED <<job, size, cuts, asks>>

-----------------------------------------------------------------------------
OdInit ==
    /\ \E s \in {"preprocessing", "starting"} :
         job = [state |-> s, flag |-> FALSE, owed |-> FALSE, pinned |-> <<>>, file |-> 1]
    /\ size = [i \in 1..MaxInodes |-> 0]
    /\ rd = [r \in OdClients |-> Idle]
    /\ arch = [data |-> <<>>, tag |-> <<>>, total |-> <<>>, whole |-> FALSE]
    /\ cuts = 0 /\ asks = 0

Respond(r) ==
    \/ WaitReady(r) \/ Timeout(r) \/ pin_ready_output(r) \/ Refused(r)
    \/ serve_resumable_download(r) \/ Route(r) \/ WaitOffset(r) \/ Measure(r)
    \/ PromiseRange(r) \/ serve_finished(r) \/ ReadFlag(r) \/ serve_progressive_download(r)
    \/ Open(r) \/ Look(r) \/ Read(r) \/ Stat(r) \/ AtEnd(r) \/ Write(r) \/ Close(r)

Supervise == Poll \/ Notify \/ Publish \/ Reap

OdNext ==
    \/ Supervise \/ Produce \/ PollGrowing \/ Fallback \/ Fail \/ Cancel \/ Truncate
    \/ \E a \in BOOLEAN : Replace(a)
    \/ \E r \in Readers : \E q \in Wanted : Ask(r, q, <<>>)
    \/ AskMore
    \/ \E r \in OdClients : Respond(r) \/ Stopped(r) \/ Gone(r)

OdFairness ==
    /\ WF_odVars(Supervise) /\ WF_odVars(Produce)
    /\ \A r \in OdClients : WF_odVars(Respond(r))

OdSpec == OdInit /\ [][OdNext]_odVars /\ OdFairness

-----------------------------------------------------------------------------
(* Properties *)

\* A response that ends normally has sent what its headers promised; one
\* without a length has sent the finished output to its end.
PromiseKept ==
    \A r \in OdClients : rd[r].out = "whole" =>
        IF rd[r].upto # <<>> THEN rd[r].pos = rd[r].upto[1]
        ELSE job.state = "complete" /\ (cuts = 0 => rd[r].pos = Total)

\* The bytes of a response come from the file its headers were made from,
\* though the producer may fall back to another attempt at any time.
OneOutput ==
    \A r \in OdClients : rd[r].pc \in Streaming => rd[r].fd = rd[r].of

\* An archive joined from ranges holds one output in order, and is taken for
\* whole only when that output is.
ArchiveIsOneOutput ==
    /\ \A n \in 1..Len(arch.data) : arch.data[n] = arch.data[1]
    /\ arch.whole /\ cuts = 0 => Len(arch.data) = Total

\* Nobody sleeps through the end of the job: every response ends.
ResponsesEnd == \A r \in OdClients : []<>(rd[r].pc = "idle")

\* Every response and every archive joined from responses is one output, and
\* is taken for whole only when it is.
AnswersWhole == PromiseKept /\ OneOutput /\ ArchiveIsOneOutput

=============================================================================
