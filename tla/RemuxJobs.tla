------------------------------ MODULE RemuxJobs ------------------------------
(***************************************************************************)
(* The compatible-stream job registry of crates/server/src/remux.rs: HTTP  *)
(* readers attach to a job, one producer thread per job runs FFmpeg and    *)
(* publishes its output, playback sessions supersede and cancel their      *)
(* older generations, and completed outputs expire.                        *)
(*                                                                         *)
(* A destination path is owned by one job key, so Key stands for both.     *)
(* The bytes of an output are the pair <<job, attempt>> that wrote them.   *)
(* Deadlines have no clock: an armed deadline becomes due in Tick.  All    *)
(* keys belong to one title, as a browser's playback session does.         *)
(***************************************************************************)
EXTENDS Naturals, FiniteSets

CONSTANTS Reader,        \* HTTP requests that attach to a job
          Key,           \* job keys, each with its own destination
          Kind,          \* Kind[k]: which handler built the spec of k
          Session,       \* browser playback sessions
          MaxGen,        \* bound: source generations of a session
          MaxJobs,       \* bound: RemuxJob objects alive at a time
          MaxActive,     \* transcode.max_jobs
          MaxFallback,   \* alternate recipes of a spec
          KeepModes,     \* values of continue_after_disconnect
          Forgettable,   \* sessions that may be pruned when idle
          None

Kinds == {"web_cache", "web_seek", "dlna", "p8"}

ASSUME ConstantsOK ==
    /\ Kind \in [Key -> Kinds]
    /\ KeepModes \in SUBSET BOOLEAN /\ KeepModes # {}
    /\ Forgettable \subseteq Session
    /\ {MaxGen, MaxJobs, MaxActive} \subseteq Nat \ {0}
    /\ MaxFallback \in Nat
    /\ None \notin Session

Web(k) == Kind[k] \in {"web_cache", "web_seek"}
Cacheable(k) == Kind[k] # "web_seek"

Job == 1..MaxJobs
Gen == 1..MaxGen
Content == (Job \X (0..MaxFallback)) \cup {None}
JobState == {"Starting", "Preprocessing", "Growing", "Complete", "Failed",
             "Cancelled"}

VARIABLES job,       \* the RemuxJob objects, "free" until created
          registry,  \* app.remuxes
          sess,      \* app.web_playback_sessions; latest = 0: no entry
          rd,        \* the readers
          part,      \* staging bytes of a destination
          dest,      \* published bytes of a destination
          stamp,     \* the recipe its cache stamp is for
          doomed     \* expired jobs whose output is still to be unlinked

vars == <<job, registry, sess, rd, part, dest, stamp, doomed>>

JobRecord ==
    [key : Key, state : JobState, cancelled : BOOLEAN, clients : Nat,
     deadline : {"none", "armed", "due"}, finalized : BOOLEAN,
     finished : BOOLEAN, owner : [Session -> 0..MaxGen],
     attempt : 0..MaxFallback, fellback : BOOLEAN, output : Content,
     permit : BOOLEAN,
     pc : {"free", "spawn", "run", "verify", "abort", "cleanup", "drop",
           "finish", "arm", "flag", "end"}]

ReaderPc == {"idle", "reserve", "registry", "recheck", "files", "hit", "admit",
             "register", "retiring", "attached", "reading", "arming"}

ReaderRecord ==
    [pc : ReaderPc, key : Key, s : Session \cup {None}, g : 0..MaxGen,
     keep : BOOLEAN, job : Job \cup {None}]

Forgotten == [latest |-> 0, cancelled |-> FALSE]

(***************************************************************************)
(* Views of the state.                                                     *)
(***************************************************************************)
Live(j) == job[j].pc # "free"
Registered(j) == Live(j) /\ registry[job[j].key] = j
Running(state) == state \in {"Starting", "Preprocessing", "Growing"}
Err(state) == state \in {"Failed", "Cancelled"}
Owners(record) == {s \in Session : record.owner[s] # 0}

\* CacheCoordinator::reserve: held from admission to the attempt's return.
Reserved(k) ==
    \E r \in Reader : rd[r].key = k
        /\ rd[r].pc \in {"registry", "recheck", "files", "hit", "admit",
                         "register"}

\* JobGate::in_use: permits of producers and of readers about to start one.
InUse == Cardinality({j \in Job : job[j].permit})
           + Cardinality({r \in Reader : rd[r].pc = "register"})

GenerationCurrent_cancelled_ok(r) ==
    rd[r].s # None => sess[rd[r].s].latest = rd[r].g

GenerationCurrent_absent_ok(r) ==
    rd[r].s # None => \/ sess[rd[r].s].latest = 0
                      \/ /\ sess[rd[r].s].latest = rd[r].g
                         /\ ~sess[rd[r].s].cancelled

\* The generation recheck of register_admitted_job and the fallback gap.
GenerationCurrent(r) ==
    rd[r].s # None => /\ sess[rd[r].s].latest = rd[r].g
                      /\ ~sess[rd[r].s].cancelled

Goto(r, pc) == rd' = [rd EXCEPT ![r].pc = pc]

\* An attempt that ends drops what it learned; the next one starts afresh.
Idle ==
    [pc |-> "idle", key |-> CHOOSE k \in Key : TRUE, s |-> None, g |-> 0,
     keep |-> FALSE, job |-> None]
Return(r) == rd' = [rd EXCEPT ![r] = Idle]

FreeJob ==
    [key |-> CHOOSE k \in Key : TRUE, state |-> "Starting",
     cancelled |-> FALSE, clients |-> 0, deadline |-> "none",
     finalized |-> FALSE, finished |-> FALSE,
     owner |-> [s \in Session |-> 0], attempt |-> 0, fellback |-> FALSE,
     output |-> None, permit |-> FALSE, pc |-> "free"]

Init ==
    /\ job = [j \in Job |-> FreeJob]
    /\ registry = [k \in Key |-> None]
    /\ sess = [s \in Session |-> Forgotten]
    /\ rd = [r \in Reader |-> Idle]
    /\ part = [k \in Key |-> None]
    /\ dest = [k \in Key |-> None]
    /\ stamp = [k \in Key |-> "none"]
    /\ doomed = {}

(***************************************************************************)
(* Attachment: attach_job and attach_job_attempt.                          *)
(***************************************************************************)
\* The bound on job objects counts the readers that may still create one.
Creating == {r \in Reader : rd[r].pc \notin {"idle", "attached", "reading",
                                             "arming"}}
\* A job number is taken while its bytes are on disk or open, too.
HasBytes(j) ==
    \E a \in 0..MaxFallback :
        \/ \E k \in Key : <<j, a>> \in {part[k], dest[k]}
        \/ \E i \in Job : job[i].output = <<j, a>>
Taken(j) == Live(j) \/ HasBytes(j)
Created == {j \in Job : Taken(j)}

\* serve_remux: a GET names its key and, from a browser, its generation.
Start(r) ==
    /\ rd[r].pc = "idle"
    /\ Cardinality(Created) + Cardinality(Creating) < MaxJobs
    /\ \E k \in Key, keep \in KeepModes :
         \E owner \in IF Web(k) THEN Session \X Gen ELSE {<<None, 0>>} :
           rd' = [rd EXCEPT ![r] =
                    [@ EXCEPT !.pc = "reserve", !.key = k, !.s = owner[1],
                              !.g = owner[2], !.keep = keep]]
    /\ UNCHANGED <<job, registry, sess, part, dest, stamp, doomed>>

reserve(r) ==
    /\ rd[r].pc = "reserve"
    /\ IF Reserved(rd[r].key) THEN Return(r) ELSE Goto(r, "registry")
    /\ UNCHANGED <<job, registry, sess, part, dest, stamp, doomed>>

\* prune_web_playback_sessions: owners of a pruned session leave their jobs.
WithoutOwners(jobs, gone) ==
    [j \in Job |->
       IF Registered(j) /\ Web(job[j].key)
       THEN [jobs[j] EXCEPT !.owner = [s \in Session |->
                               IF s \in gone THEN 0 ELSE @[s]]]
       ELSE jobs[j]]

Prunable == SUBSET {s \in Forgettable : sess[s].latest # 0}

\* The other registered jobs that only the superseded session still owned.
SupersededJobs(s, k, jobs) ==
    {j \in Job : /\ Registered(j) /\ job[j].key # k /\ Web(job[j].key)
                 /\ Owners(jobs[j]) = {s}}

Supersede_keeps_running(s, k, jobs) ==
    [j \in Job |->
       IF Registered(j) /\ job[j].key # k /\ Web(job[j].key)
       THEN [jobs[j] EXCEPT !.owner[s] = 0]
       ELSE jobs[j]]

Supersede(s, k, jobs) ==
    [j \in Job |->
       IF Registered(j) /\ job[j].key # k /\ Web(job[j].key)
       THEN [jobs[j] EXCEPT
               !.owner[s] = 0,
               !.cancelled = @ \/ j \in SupersededJobs(s, k, jobs)]
       ELSE jobs[j]]

\* A reader joins a registered job: the request replaces the session's older
\* generation, and the pending disconnect deadline is dropped.
Join(jobs, j, r) ==
    [jobs EXCEPT ![j] = [@ EXCEPT
        !.owner = IF rd[r].s = None THEN @ ELSE [@ EXCEPT ![rd[r].s] = rd[r].g],
        !.clients = @ + 1,
        !.deadline = "none"]]

AttachExisting_no_wait(r, jobs) ==
    LET k == rd[r].key
        j == registry[k]
        usable == ~Err(jobs[j].state) /\ ~jobs[j].cancelled
    IN  IF j # None /\ usable
        THEN /\ job' = Join(jobs, j, r)
             /\ rd' = [rd EXCEPT ![r].pc = "attached", ![r].job = j]
             /\ UNCHANGED registry
        ELSE /\ job' = jobs
             /\ registry' = [registry EXCEPT ![k] = None]
             /\ rd' = [rd EXCEPT ![r].pc = "files"]

\* The lookup at the end of the registry phase, with the map still locked.
AttachExisting(r, jobs) ==
    LET k == rd[r].key
        j == registry[k]
        usable == ~Err(jobs[j].state) /\ ~jobs[j].cancelled
    IN  IF j = None
        THEN /\ rd' = [rd EXCEPT ![r].pc = "files"]
             /\ job' = jobs
             /\ UNCHANGED registry
        ELSE \/ /\ usable
                /\ job' = Join(jobs, j, r)
                /\ rd' = [rd EXCEPT ![r].pc = "attached", ![r].job = j]
                /\ UNCHANGED registry
             \/ /\ ~usable /\ ~jobs[j].finished
                /\ job' = jobs
                /\ rd' = [rd EXCEPT ![r].pc = "retiring", ![r].job = j]
                /\ UNCHANGED registry
             \/ /\ ~usable /\ jobs[j].finished
                /\ job' = jobs
                /\ registry' = [registry EXCEPT ![k] = None]
                /\ rd' = [rd EXCEPT ![r].pc = "files"]

\* A completed job whose bytes came from a fallback recipe is offered to a new
\* owner only after the recipe is validated with the map unlocked.
NeedsRecheck(r, jobs) ==
    LET j == registry[rd[r].key]
    IN  /\ j # None
        /\ jobs[j].state = "Complete" /\ jobs[j].fellback
        /\ rd[r].s = None \/ jobs[j].owner[rd[r].s] # rd[r].g

Lookup(r, jobs) ==
    IF NeedsRecheck(r, jobs)
    THEN /\ job' = jobs
         /\ rd' = [rd EXCEPT ![r].pc = "recheck", ![r].job = registry[rd[r].key]]
         /\ UNCHANGED registry
    ELSE AttachExisting(r, jobs)

\* The session check and the supersession of older generations; the session
\* lock is released only once the map is locked.
AttachSession(r) ==
    /\ rd[r].pc = "registry" /\ rd[r].s # None
    /\ \E gone \in Prunable :
         LET s == rd[r].s
             known == IF s \in gone THEN Forgotten ELSE sess[s]
             kept == [x \in Session |-> IF x \in gone THEN Forgotten
                                                      ELSE sess[x]]
             jobs == WithoutOwners(job, gone)
         IN  \/ /\ \/ rd[r].g < known.latest
                   \/ rd[r].g = known.latest /\ known.cancelled
                /\ sess' = kept /\ job' = jobs
                /\ Return(r)
                /\ UNCHANGED registry
             \/ /\ rd[r].g = known.latest /\ ~known.cancelled
                /\ sess' = kept
                /\ Lookup(r, jobs)
             \/ /\ rd[r].g > known.latest
                /\ sess' = [kept EXCEPT ![s] = [Forgotten EXCEPT
                                                  !.latest = rd[r].g]]
                /\ Lookup(r, Supersede(s, rd[r].key, jobs))
    /\ UNCHANGED <<part, dest, stamp, doomed>>

\* A renderer's request carries no session.
AttachUnscoped(r) ==
    /\ rd[r].pc = "registry" /\ rd[r].s = None
    /\ Lookup(r, job)
    /\ UNCHANGED <<sess, part, dest, stamp, doomed>>

\* After the unlocked validation: cancellation may have won meanwhile.
Recheck(r) ==
    LET k == rd[r].key
        old == rd[r].job
        others == Owners(job[old]) \ {rd[r].s}
        allowed == Cacheable(k) /\ stamp[k] = "fallback" /\ dest[k] # None
    IN  /\ rd[r].pc = "recheck"
        /\ \/ /\ ~GenerationCurrent(r)
              /\ Return(r)
              /\ UNCHANGED <<job, registry>>
           \/ /\ GenerationCurrent(r)
              /\ allowed \/ registry[k] # old
              /\ AttachExisting(r, job)
           \/ /\ GenerationCurrent(r)
              /\ registry[k] = old
              /\ \/ /\ job[old].clients # 0 \/ others # {}
                    /\ Return(r)
                    /\ UNCHANGED registry
                 \/ /\ job[old].clients = 0 /\ others = {}
                    /\ ~job[old].finished
                    /\ Goto(r, "retiring")
                    /\ UNCHANGED registry
                 \/ /\ job[old].clients = 0 /\ others = {}
                    /\ job[old].finished
                    /\ registry' = [registry EXCEPT ![k] = None]
                    /\ Goto(r, "files")
              /\ UNCHANGED job
        /\ UNCHANGED <<sess, part, dest, stamp, doomed>>

\* attach_job waits for the old producer without any lock, then starts over.
Retire(r) ==
    /\ rd[r].pc = "retiring"
    /\ job[rd[r].job].finished
    /\ rd' = [rd EXCEPT ![r].pc = "reserve", ![r].job = None]
    /\ UNCHANGED <<job, registry, sess, part, dest, stamp, doomed>>

RetireTimesOut(r) ==
    /\ rd[r].pc = "retiring"
    /\ Return(r)
    /\ UNCHANGED <<job, registry, sess, part, dest, stamp, doomed>>

\* Cache validation, stale removal and the quota decision, off the map lock.
\* A fallback's stamp is honoured only while it is young and was unsupported.
CheckFiles(r) ==
    LET k == rd[r].key
        present == dest[k] # None
        primary == Cacheable(k) /\ present /\ stamp[k] = "primary"
        fallback == Cacheable(k) /\ present /\ stamp[k] = "fallback"
    IN  /\ rd[r].pc = "files"
        /\ \/ /\ primary \/ fallback
              /\ Goto(r, "hit") \/ Return(r)
              /\ UNCHANGED <<part, dest, stamp>>
           \/ /\ ~primary
              /\ part' = IF present THEN [part EXCEPT ![k] = None] ELSE part
              /\ dest' = [dest EXCEPT ![k] = None]
              /\ stamp' = [stamp EXCEPT ![k] = "none"]
              /\ Goto(r, "admit") \/ Return(r)
        /\ UNCHANGED <<job, registry, sess, doomed>>

NextJob == CHOOSE j \in Job : ~Taken(j) /\ \A i \in Job : i < j => Taken(i)

Admitted(r) ==
    [FreeJob EXCEPT
       !.key = rd[r].key, !.clients = 1, !.pc = "spawn", !.permit = TRUE,
       !.owner = [s \in Session |-> IF s = rd[r].s THEN rd[r].g ELSE 0]]

Register(r, record) ==
    /\ job' = [job EXCEPT ![NextJob] = record]
    /\ registry' = [registry EXCEPT ![rd[r].key] = NextJob]
    /\ rd' = [rd EXCEPT ![r].pc = "attached", ![r].job = NextJob]

\* A reusable completed output becomes a job without a producer.
RegisterHit(r) ==
    LET k == rd[r].key
    IN  /\ rd[r].pc = "hit"
        /\ IF dest[k] # None /\ GenerationCurrent(r)
           THEN Register(r, [Admitted(r) EXCEPT
                    !.state = "Complete", !.finalized = TRUE,
                    !.finished = TRUE, !.permit = FALSE, !.pc = "end",
                    !.output = dest[k], !.fellback = stamp[k] = "fallback"])
           ELSE Return(r) /\ UNCHANGED <<job, registry>>
        /\ UNCHANGED <<sess, part, dest, stamp, doomed>>

\* A permit is taken at once, or, after superseding a producer, waited for
\* for a while (the step comes later).  The AI and helper gates may refuse too.
Admit(r) ==
    /\ rd[r].pc = "admit"
    /\ \/ InUse < MaxActive /\ Goto(r, "register")
       \/ Return(r)
    /\ UNCHANGED <<job, registry, sess, part, dest, stamp, doomed>>

\* register_admitted_job and the start of the producer thread.
RegisterProducer(r) ==
    /\ rd[r].pc = "register"
    /\ part' = [part EXCEPT ![rd[r].key] = None]
    /\ IF GenerationCurrent(r)
       THEN Register(r, Admitted(r))
       ELSE Return(r) /\ UNCHANGED <<job, registry>>
    /\ UNCHANGED <<sess, dest, stamp, doomed>>

(***************************************************************************)
(* The producer thread: spawn_ffmpeg, finalize_remux and the completion    *)
(* guard.                                                                  *)
(***************************************************************************)
SetJob(j, record) == job' = [job EXCEPT ![j] = record]

\* The output path of j holds the bytes of its current attempt.
Wrote(j) == part[job[j].key] = <<j, job[j].attempt>>

SpawnThread(j) ==
    /\ job[j].pc = "spawn"
    /\ \/ SetJob(j, [job[j] EXCEPT !.pc = "run",
               !.state = IF Kind[job[j].key] = "p8" THEN "Preprocessing" ELSE @])
       \/ SetJob(j, [job[j] EXCEPT !.pc = "finish", !.state = "Failed",
                                   !.permit = FALSE])
    /\ UNCHANGED <<registry, sess, rd, part, dest, stamp, doomed>>

\* The child writes its staging file.
Write(j) ==
    /\ job[j].pc = "run"
    /\ part' = [part EXCEPT ![job[j].key] = <<j, job[j].attempt>>]
    /\ UNCHANGED <<job, registry, sess, rd, dest, stamp, doomed>>

\* An observation of playable bytes exposes the output to readers.
Grow(j) ==
    /\ job[j].pc = "run" /\ Wrote(j) /\ ~job[j].cancelled
    /\ job[j].state \in {"Starting", "Preprocessing"}
    /\ SetJob(j, [job[j] EXCEPT !.state = "Growing"])
    /\ UNCHANGED <<registry, sess, rd, part, dest, stamp, doomed>>

\* reconnect_grace_expired, polled by the child observer.
reconnect_grace_expired(j) ==
    /\ job[j].pc = "run"
    /\ job[j].clients = 0 /\ job[j].deadline = "due"
    /\ SetJob(j, [job[j] EXCEPT !.deadline = "none", !.cancelled = TRUE])
    /\ UNCHANGED <<registry, sess, rd, part, dest, stamp, doomed>>

\* The run stops for cancellation, its runtime limit or cache pressure.
Stop(j) ==
    /\ job[j].pc = "run"
    /\ SetJob(j, [job[j] EXCEPT !.pc = "cleanup",
              !.state = IF job[j].cancelled THEN "Cancelled" ELSE "Failed"])
    /\ UNCHANGED <<registry, sess, rd, part, dest, stamp, doomed>>

\* The first attempt of a Profile 8 job is its pipeline, not plain FFmpeg.
Pipeline8(j) == Kind[job[j].key] = "p8" /\ job[j].attempt = 0

FallBack_unbounded(j) ==
    /\ job[j].pc = "run" /\ ~job[j].cancelled /\ job[j].output = None
    /\ part' = [part EXCEPT ![job[j].key] = None]
    /\ SetJob(j, [job[j] EXCEPT !.state = "Starting", !.fellback = TRUE,
                                !.attempt = @ + 1])
    /\ UNCHANGED <<registry, sess, rd, dest, stamp, doomed>>

FallBack_ignores_pin(j) ==
    /\ job[j].pc = "run" /\ ~job[j].cancelled
    /\ job[j].attempt < MaxFallback
    /\ part' = [part EXCEPT ![job[j].key] = None]
    /\ SetJob(j, [job[j] EXCEPT !.state = "Starting", !.fellback = TRUE,
                                !.attempt = @ + 1])
    /\ UNCHANGED <<registry, sess, rd, dest, stamp, doomed>>

\* The attempt failed and another recipe is left: only unpinned bytes are
\* replaced.  A failed Profile 8 pipeline falls back without another look at
\* the cancellation flag.
FallBack(j) ==
    /\ job[j].pc = "run" /\ (~job[j].cancelled \/ Pipeline8(j))
    /\ job[j].attempt < MaxFallback /\ job[j].output = None
    /\ part' = [part EXCEPT ![job[j].key] = None]
    /\ SetJob(j, [job[j] EXCEPT !.state = "Starting", !.fellback = TRUE,
                                !.attempt = @ + 1])
    /\ UNCHANGED <<registry, sess, rd, dest, stamp, doomed>>

\* The attempt failed and no recipe may replace its output.
AttemptFails(j) ==
    /\ job[j].pc = "run"
    /\ \/ job[j].cancelled
       \/ job[j].attempt = MaxFallback
       \/ job[j].output # None
    /\ SetJob(j, [job[j] EXCEPT !.pc = "cleanup", !.state = "Failed"])
    /\ UNCHANGED <<registry, sess, rd, part, dest, stamp, doomed>>

\* The intermediates go after the state is final.
cleanup_intermediates(j) ==
    /\ job[j].pc = "cleanup"
    /\ part' = [part EXCEPT ![job[j].key] = None]
    /\ SetJob(j, [job[j] EXCEPT !.pc = "drop"])
    /\ UNCHANGED <<registry, sess, rd, dest, stamp, doomed>>

\* FFmpeg succeeded: publish_finished_output pins its bytes for verification.
\* A Profile 8 observer error, too, removes the bytes before the transition.
Verify(j) ==
    /\ job[j].pc = "run"
    /\ \/ /\ ~job[j].cancelled /\ Wrote(j)
          /\ SetJob(j, [job[j] EXCEPT !.pc = "verify",
                 !.output = IF @ = None THEN part[job[j].key] ELSE @])
          /\ UNCHANGED part
       \/ /\ SetJob(j, [job[j] EXCEPT !.pc = "abort"])
          /\ part' = [part EXCEPT ![job[j].key] = None]
    /\ UNCHANGED <<registry, sess, rd, dest, stamp, doomed>>

\* Under the completion and output locks: cancellation and Complete are
\* ordered, and only the verified bytes are renamed into place.
Publish(j) ==
    LET k == job[j].key
    IN  /\ job[j].pc = "verify"
        /\ ~job[j].cancelled /\ part[k] = job[j].output
        /\ dest' = [dest EXCEPT ![k] = part[k]]
        /\ part' = [part EXCEPT ![k] = None]
        /\ stamp' = [stamp EXCEPT ![k] =
                       IF ~Cacheable(k) THEN @
                       ELSE IF job[j].fellback THEN "fallback" ELSE "primary"]
        /\ SetJob(j, [job[j] EXCEPT !.state = "Complete", !.pc = "drop"])
        /\ UNCHANGED <<registry, sess, rd, doomed>>

\* Verification, the quota or the publication itself fails; what the rename
\* may have put in place is removed again.
PublishFails(j) ==
    LET k == job[j].key
    IN  /\ job[j].pc = "verify"
        /\ part' = [part EXCEPT ![k] = None]
        /\ \/ UNCHANGED <<dest, stamp>>
           \/ /\ ~job[j].cancelled /\ part[k] = job[j].output
              /\ dest' = [dest EXCEPT ![k] = None]
              /\ stamp' = [stamp EXCEPT ![k] = "none"]
        /\ SetJob(j, [job[j] EXCEPT !.pc = "abort"])
        /\ UNCHANGED <<registry, sess, rd, doomed>>

\* The error path of finalize_remux; the pipeline's observer error is Failed.
finalize_remux(j) ==
    /\ job[j].pc = "abort"
    /\ \E state \in {"Cancelled", "Failed"} :
         /\ state = "Cancelled" => job[j].cancelled
         /\ state = "Failed" => ~job[j].cancelled \/ Pipeline8(j)
         /\ SetJob(j, [job[j] EXCEPT !.pc = "drop", !.state = state])
    /\ UNCHANGED <<registry, sess, rd, part, dest, stamp, doomed>>

\* The permits are dropped before the completion guard runs.
DropPermits(j) ==
    /\ job[j].pc = "drop"
    /\ SetJob(j, [job[j] EXCEPT !.pc = "finish", !.permit = FALSE])
    /\ UNCHANGED <<registry, sess, rd, part, dest, stamp, doomed>>

\* remove_job_locked: only the job's own entry is taken out.
Unregister(j) ==
    registry' = IF Registered(j) THEN [registry EXCEPT ![job[j].key] = None]
                                 ELSE registry

finish_job(j) ==
    LET k == job[j].key
        complete == job[j].state = "Complete"
    IN  /\ job[j].pc = "finish"
        /\ \/ /\ complete /\ Web(k) /\ (Cacheable(k) => job[j].clients = 0)
              /\ SetJob(j, [job[j] EXCEPT !.pc = "arm",
                                          !.finalized = Cacheable(k)])
              /\ UNCHANGED registry
           \/ /\ complete /\ Cacheable(k) /\ job[j].clients # 0
              /\ SetJob(j, [job[j] EXCEPT !.pc = "flag", !.finalized = TRUE])
              /\ UNCHANGED registry
           \/ /\ complete /\ ~Web(k) /\ job[j].clients = 0
              /\ SetJob(j, [job[j] EXCEPT !.pc = "flag", !.finalized = TRUE])
              /\ Unregister(j)
           \/ /\ ~complete
              /\ SetJob(j, [job[j] EXCEPT !.pc = "flag"])
              /\ Unregister(j)
        /\ UNCHANGED <<sess, rd, part, dest, stamp, doomed>>

schedule_ephemeral_cleanup_unconditional(record) ==
    [record EXCEPT !.deadline = "armed"]

schedule_ephemeral_cleanup_unarmed(record) ==
    [record EXCEPT !.deadline = IF record.clients # 0 THEN "none" ELSE @]

\* A reader that came back meanwhile keeps the job.
schedule_ephemeral_cleanup(record) ==
    [record EXCEPT !.deadline = IF record.clients # 0 THEN "none" ELSE "armed"]

ArmFromProducer(j) ==
    /\ job[j].pc = "arm"
    /\ SetJob(j, [schedule_ephemeral_cleanup(job[j]) EXCEPT !.pc = "flag"])
    /\ UNCHANGED <<registry, sess, rd, part, dest, stamp, doomed>>

ProducerFinished(j) ==
    /\ job[j].pc = "flag"
    /\ SetJob(j, [job[j] EXCEPT !.pc = "end", !.finished = TRUE])
    /\ UNCHANGED <<registry, sess, rd, part, dest, stamp, doomed>>

(***************************************************************************)
(* Readers of an attached job.                                             *)
(***************************************************************************)
\* pin_ready_output: readiness and the descriptor share the output lock.
pin_ready_output(r) ==
    LET j == rd[r].job
        path == IF job[j].state = "Complete" THEN dest ELSE part
        candidate == IF job[j].output # None THEN job[j].output
                                             ELSE path[job[j].key]
    IN  /\ rd[r].pc = "attached"
        /\ job[j].state \in {"Growing", "Complete"} /\ ~job[j].cancelled
        /\ candidate # None
        /\ SetJob(j, [job[j] EXCEPT !.output = candidate])
        /\ Goto(r, "reading")
        /\ UNCHANGED <<registry, sess, part, dest, stamp, doomed>>

\* RemuxClient::drop, when the response ends, fails or its socket closes.
detach_client(r) ==
    LET j == rd[r].job
        k == job[j].key
        last == job[j].clients <= 1
        gone == [job[j] EXCEPT !.clients = @ - 1]
        grace == IF ~rd[r].keep /\ Running(job[j].state) THEN "armed" ELSE "none"
    IN  /\ rd[r].pc \in {"attached", "reading"}
        /\ \/ /\ ~last
              /\ SetJob(j, gone) /\ Return(r) /\ UNCHANGED registry
           \/ /\ last /\ Cacheable(k) /\ job[j].finalized
              /\ SetJob(j, [gone EXCEPT !.deadline = "none"])
              /\ IF Web(k) THEN Goto(r, "arming") /\ UNCHANGED registry
                           ELSE Unregister(j) /\ Return(r)
           \/ /\ last /\ Cacheable(k) /\ ~job[j].finalized
              /\ SetJob(j, [gone EXCEPT !.deadline = grace])
              /\ Return(r) /\ UNCHANGED registry
           \/ /\ last /\ ~Cacheable(k) /\ rd[r].keep
              /\ SetJob(j, gone) /\ Return(r) /\ UNCHANGED registry
           \/ /\ last /\ ~Cacheable(k) /\ ~rd[r].keep
              /\ SetJob(j, [gone EXCEPT !.deadline = grace])
              /\ IF job[j].state = "Complete" THEN Goto(r, "arming")
                                              ELSE Return(r)
              /\ UNCHANGED registry
        /\ UNCHANGED <<sess, part, dest, stamp, doomed>>

\* The cleanup is scheduled after the map and the deadline are unlocked.
ArmFromReader(r) ==
    /\ rd[r].pc = "arming"
    /\ SetJob(rd[r].job, schedule_ephemeral_cleanup(job[rd[r].job]))
    /\ Return(r)
    /\ UNCHANGED <<registry, sess, part, dest, stamp, doomed>>

(***************************************************************************)
(* Session heartbeats and cancellation.                                    *)
(***************************************************************************)
\* keep_web_request_alive: a heartbeat renews an idle job's deadline.
keep_web_request_alive(s, g) ==
    \E gone \in Prunable :
      LET jobs == WithoutOwners(job, gone)
          live == s \notin gone /\ sess[s].latest = g /\ ~sess[s].cancelled
          owned == {j \in Job : Registered(j) /\ jobs[j].owner[s] = g}
      IN  /\ \/ (~live \/ owned = {}) /\ job' = jobs
             \/ /\ live
                /\ \E j \in owned :
                     /\ job[j].clients = 0 /\ job[j].deadline # "none"
                     /\ ~Err(job[j].state)
                     /\ job' = [jobs EXCEPT ![j].deadline = "armed"]
          /\ sess' = [x \in Session |-> IF x \in gone THEN Forgotten
                                                       ELSE sess[x]]
          /\ UNCHANGED <<registry, rd, part, dest, stamp, doomed>>

\* cancel_web_request: the generation is recorded before the jobs are looked
\* at, so a late GET of it is refused.
cancel_web_request(s, g) ==
    \E gone \in Prunable :
      LET known == IF s \in gone THEN Forgotten ELSE sess[s]
          jobs == WithoutOwners(job, gone)
          owned == {j \in Job : Registered(j) /\ jobs[j].owner[s] = g}
          stopped == {j \in owned : Owners(jobs[j]) = {s}
                                      /\ Running(job[j].state)}
          current == g >= known.latest
      IN  /\ sess' = [x \in Session |->
                CASE x = s /\ current ->
                       [latest |-> g, cancelled |-> TRUE]
                  [] x # s /\ x \in gone -> Forgotten
                  [] OTHER -> IF x = s THEN known ELSE sess[x]]
          /\ job' = [j \in Job |->
                IF j \in owned
                THEN [jobs[j] EXCEPT !.owner[s] = 0,
                                     !.cancelled = @ \/ j \in stopped]
                ELSE jobs[j]]
          /\ UNCHANGED <<registry, rd, part, dest, stamp, doomed>>

(***************************************************************************)
(* Time, expiry and cache eviction.                                        *)
(***************************************************************************)
Tick(j) ==
    /\ job[j].deadline = "armed"
    /\ SetJob(j, [job[j] EXCEPT !.deadline = "due"])
    /\ UNCHANGED <<registry, sess, rd, part, dest, stamp, doomed>>

\* sweep_ephemeral_cleanups takes every expired job out of the registry.
Expired == {j \in Job : /\ Registered(j) /\ Web(job[j].key)
                        /\ job[j].state = "Complete"
                        /\ job[j].deadline = "due" /\ job[j].clients = 0}

sweep_ephemeral_cleanups ==
    /\ Expired # {}
    /\ job' = [j \in Job |-> IF j \in Expired
                             THEN [job[j] EXCEPT !.deadline = "none"]
                             ELSE job[j]]
    /\ registry' = [k \in Key |-> IF registry[k] \in Expired THEN None
                                                             ELSE registry[k]]
    /\ doomed' = doomed \cup {j \in Expired : ~Cacheable(job[j].key)}
    /\ UNCHANGED <<sess, rd, part, dest, stamp>>

remove_ephemeral_output_any(j) ==
    LET k == job[j].key
    IN  /\ j \in doomed
        /\ doomed' = doomed \ {j}
        /\ dest' = [dest EXCEPT ![k] = None]
        /\ stamp' = [stamp EXCEPT ![k] = "none"]
        /\ UNCHANGED <<job, registry, sess, rd, part>>

\* remove_ephemeral_output: under the reservation, and never a successor's.
\* Without the reservation in time the bytes are left to eviction.
remove_ephemeral_output(j) ==
    LET k == job[j].key
    IN  /\ j \in doomed
        /\ doomed' = doomed \ {j}
        /\ IF Reserved(k) \/ registry[k] # None
           THEN UNCHANGED <<dest, stamp>>
           ELSE /\ dest' = [dest EXCEPT ![k] = None]
                /\ stamp' = [stamp EXCEPT ![k] = "none"]
        /\ UNCHANGED <<job, registry, sess, rd, part>>

Evict_registered(k) ==
    /\ dest[k] # None /\ ~Reserved(k)
    /\ dest' = [dest EXCEPT ![k] = None]
    /\ stamp' = [stamp EXCEPT ![k] = "none"]
    /\ UNCHANGED <<job, registry, sess, rd, part, doomed>>

\* Cache maintenance unlinks only a destination nobody reserved or serves.
Evict(k) ==
    /\ dest[k] # None
    /\ ~Reserved(k) /\ registry[k] = None
    /\ dest' = [dest EXCEPT ![k] = None]
    /\ stamp' = [stamp EXCEPT ![k] = "none"]
    /\ UNCHANGED <<job, registry, sess, rd, part, doomed>>

\* The last reference to a finished job goes.
DropJob(j) ==
    /\ job[j].finished /\ ~Registered(j) /\ j \notin doomed
    /\ \A r \in Reader : rd[r].job # j
    /\ SetJob(j, FreeJob)
    /\ UNCHANGED <<registry, sess, rd, part, dest, stamp, doomed>>

(***************************************************************************)
(* The specification.                                                      *)
(***************************************************************************)
ReaderStep(r) ==
    \/ Start(r) \/ reserve(r) \/ AttachSession(r) \/ AttachUnscoped(r)
    \/ Recheck(r) \/ Retire(r) \/ RetireTimesOut(r) \/ CheckFiles(r)
    \/ RegisterHit(r) \/ Admit(r) \/ RegisterProducer(r)
    \/ pin_ready_output(r) \/ detach_client(r) \/ ArmFromReader(r)

ProducerStep(j) ==
    \/ SpawnThread(j) \/ Write(j) \/ Grow(j) \/ reconnect_grace_expired(j)
    \/ Stop(j) \/ FallBack(j) \/ AttemptFails(j) \/ cleanup_intermediates(j)
    \/ Verify(j) \/ Publish(j) \/ PublishFails(j) \/ finalize_remux(j)
    \/ DropPermits(j) \/ finish_job(j) \/ ArmFromProducer(j)
    \/ ProducerFinished(j)

Next ==
    \/ \E r \in Reader : ReaderStep(r)
    \/ \E j \in Job : \/ ProducerStep(j) \/ Tick(j)
                      \/ remove_ephemeral_output(j) \/ DropJob(j)
    \/ \E s \in Session, g \in Gen :
         keep_web_request_alive(s, g) \/ cancel_web_request(s, g)
    \/ sweep_ephemeral_cleanups
    \/ \E k \in Key : Evict(k)

Spec == Init /\ [][Next]_vars

TypeOK ==
    /\ job \in [Job -> JobRecord]
    /\ registry \in [Key -> Job \cup {None}]
    /\ sess \in [Session -> [latest : 0..MaxGen, cancelled : BOOLEAN]]
    /\ rd \in [Reader -> ReaderRecord]
    /\ part \in [Key -> Content] /\ dest \in [Key -> Content]
    /\ stamp \in [Key -> {"none", "primary", "fallback"}]
    /\ doomed \subseteq Job

(***************************************************************************)
(* Properties.                                                             *)
(***************************************************************************)
Producing(j) == job[j].pc \in {"spawn", "run", "verify", "abort", "cleanup"}

\* At most one thread still does I/O on a destination's paths, and the bytes
\* it is verifying are the ones it wrote: a cancelled producer that is being
\* reaped, its late cleanup and a rebuild of the same key never meet.
SoleProducer ==
    /\ \A i, j \in Job : Producing(i) /\ Producing(j)
                             /\ job[i].key = job[j].key => i = j
    /\ \A j \in Job : job[j].pc = "verify" =>
                          part[job[j].key] = job[j].output

\* A descriptor handed to a reader is an irrevocable generation boundary: no
\* fallback replaces the bytes of a producer whose output is pinned.
PinnedBytesSurvive ==
    \A j \in Job : job[j].pc \in {"run", "verify"} /\ job[j].output # None =>
                      job[j].output = <<j, job[j].attempt>>

\* A registered completed job's destination still holds the bytes it serves:
\* expiry, eviction, a stale rebuild and a late unlink of an earlier output
\* all leave it alone.
ServedBytesOnDisk ==
    \A j \in Job : Registered(j) /\ job[j].state = "Complete" =>
                      dest[job[j].key] # None
                      /\ job[j].output \in {None, dest[job[j].key]}

\* The reader count of a job is the number of open responses on it, and a job
\* with a reader has no pending disconnect deadline, so neither the reconnect
\* grace nor the retention sweep can take a job from under a reader.
ReadersHoldTheirJob ==
    \A j \in Job :
        /\ job[j].clients = Cardinality({r \in Reader :
               rd[r].job = j /\ rd[r].pc \in {"attached", "reading"}})
        /\ job[j].clients # 0 => job[j].deadline = "none"

\* A finished browser output without a reader has an expiry: it never stays
\* registered, and its bytes protected from eviction, for good.
ExpiryArmed ==
    \A j \in Job :
        /\ Registered(j) /\ Web(job[j].key) /\ job[j].state = "Complete"
        /\ job[j].finished /\ job[j].clients = 0
        => \/ job[j].deadline # "none"
           \/ \E r \in Reader : rd[r].pc = "arming" /\ rd[r].job = j

\* No registered job is owned by a generation its session has cancelled, and
\* none by a generation newer than the session knows: a late GET, a DELETE
\* that overtakes it and a superseding generation agree on who owns what.
OwnersAreCurrent ==
    \A j \in Job, s \in Session : Registered(j) /\ job[j].owner[s] # 0 =>
        /\ job[j].owner[s] <= sess[s].latest
        /\ job[j].owner[s] = sess[s].latest => ~sess[s].cancelled

\* While its session is remembered, a browser producer that still runs has a
\* generation that wants it, or has been told to stop.
NoOrphanProducer ==
    \A j \in Job : /\ Registered(j) /\ Web(job[j].key)
                   /\ Running(job[j].state) /\ ~job[j].cancelled
                   => Owners(job[j]) # {}

\* What readers are served is what one producer wrote for their recipe: one
\* producer per destination, pinned bytes stay, served bytes are on disk.
BytesSafe == SoleProducer /\ PinnedBytesSurvive /\ ServedBytesOnDisk

\* Registry, readers and expiries agree: a reader's job stays registered, and
\* a job nobody reads or owns has an expiry.
JobsHeld == TypeOK /\ ReadersHoldTheirJob /\ ExpiryArmed

\* Neither the bytes of an output nor the job that stands for it is lost to
\* those who use it.
OutputsHeld == BytesSafe /\ JobsHeld

=============================================================================
