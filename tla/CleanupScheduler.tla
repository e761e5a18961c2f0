--------------------------- MODULE CleanupScheduler ---------------------------
(***************************************************************************)
(* EphemeralCleanupScheduler of crates/server/src/remux.rs: one retention  *)
(* thread, started on demand, sweeps completed browser jobs whose expiry   *)
(* is due.  Callers arm a job's expiry and then wake or start the thread;  *)
(* the thread leaves when a sweep finds nothing left to wait for.          *)
(*                                                                         *)
(* The u64 generation is modelled by what the thread compares it for:      *)
(* stale[w] holds when a caller has bumped it since w last read it.  An    *)
(* Item is a registry entry of a completed browser job.                    *)
(***************************************************************************)
CONSTANTS Item,    \* completed browser jobs
          Caller,  \* threads inside schedule_ephemeral_cleanup
          Worker   \* retention threads that the system can create

VARIABLES reg,       \* the item is in app.remuxes
          attached,  \* a reader is attached to it
          deadline,  \* its disconnect_deadline
          cpc,       \* where a caller is
          citem,     \* the job it schedules
          wpc,       \* where a retention thread is; "none": not running
          stale,     \* the generation moved since the thread observed it
          next,      \* its last sweep found a later expiry
          running,   \* worker_running
          dropping   \* stopping

csVars == <<reg, attached, deadline, cpc, citem, wpc, stale, next, running,
          dropping>>

Deadlines == {"none", "armed", "due"}
CallerPc == {"idle", "arm", "wake", "spawn", "failed", "force"}
WorkerPc == {"none", "top", "sweep", "check", "wait"}

CsTypeOK ==
    /\ reg \in [Item -> BOOLEAN]
    /\ attached \in [Item -> BOOLEAN]
    /\ deadline \in [Item -> Deadlines]
    /\ cpc \in [Caller -> CallerPc]
    /\ citem \in [Caller -> Item]
    /\ wpc \in [Worker -> WorkerPc]
    /\ stale \in [Worker -> BOOLEAN]
    /\ next \in [Worker -> BOOLEAN]
    /\ running \in BOOLEAN
    /\ dropping \in BOOLEAN

CsInit ==
    /\ reg = [i \in Item |-> FALSE]
    /\ attached = [i \in Item |-> FALSE]
    /\ deadline = [i \in Item |-> "none"]
    /\ cpc = [c \in Caller |-> "idle"]
    /\ citem \in [Caller -> Item]
    /\ wpc = [w \in Worker |-> "none"]
    /\ stale = [w \in Worker |-> FALSE]
    /\ next = [w \in Worker |-> FALSE]
    /\ running = FALSE
    /\ dropping = FALSE

Jobs == <<reg, attached, deadline>>
Callers == <<cpc, citem>>
RetentionThreads == <<wpc, stale, next>>

(***************************************************************************)
(* The jobs.  No thread uses the application once it is being dropped.     *)
(***************************************************************************)
\* The producer of a new job finishes and goes on to schedule its expiry.  A
\* reconnect deadline of the running job may still be pending.
Complete(i, c) ==
    /\ ~dropping /\ ~reg[i] /\ cpc[c] = "idle"
    /\ \A d \in Caller : cpc[d] # "idle" => citem[d] # i
    /\ reg' = [reg EXCEPT ![i] = TRUE]
    /\ \E a \in BOOLEAN, d \in Deadlines :
         /\ a => d = "none"
         /\ attached' = [attached EXCEPT ![i] = a]
         /\ deadline' = [deadline EXCEPT ![i] = d]
    /\ cpc' = [cpc EXCEPT ![c] = "arm"]
    /\ citem' = [citem EXCEPT ![c] = i]
    /\ UNCHANGED <<RetentionThreads, running, dropping>>

Attach(i) ==
    /\ ~dropping /\ reg[i]
    /\ attached' = [attached EXCEPT ![i] = TRUE]
    /\ deadline' = [deadline EXCEPT ![i] = "none"]
    /\ UNCHANGED <<reg, Callers, RetentionThreads, running, dropping>>

\* The last reader of a completed job goes; its thread schedules the expiry.
Detach(i, c) ==
    /\ ~dropping /\ attached[i] /\ cpc[c] = "idle"
    /\ attached' = [attached EXCEPT ![i] = FALSE]
    /\ deadline' = [deadline EXCEPT ![i] = "none"]
    /\ cpc' = [cpc EXCEPT ![c] = "arm"]
    /\ citem' = [citem EXCEPT ![c] = i]
    /\ UNCHANGED <<reg, RetentionThreads, running, dropping>>

\* renew_disconnected_web_lease moves the expiry and wakes nobody.
Renew(i) ==
    /\ ~dropping /\ reg[i] /\ ~attached[i] /\ deadline[i] # "none"
    /\ deadline' = [deadline EXCEPT ![i] = "armed"]
    /\ UNCHANGED <<reg, attached, Callers, RetentionThreads, running, dropping>>

Tick(i) ==
    /\ deadline[i] = "armed"
    /\ deadline' = [deadline EXCEPT ![i] = "due"]
    /\ UNCHANGED <<reg, attached, Callers, RetentionThreads, running, dropping>>

(***************************************************************************)
(* sweep_ephemeral_cleanups.  A reader that came back clears the expiry.   *)
(***************************************************************************)
Pending(i) == reg[i] /\ deadline[i] # "none"

Sweep(force) ==
    LET expired == {i \in Item : /\ Pending(i) /\ ~attached[i]
                                 /\ force \/ deadline[i] = "due"}
        back == {i \in Item : Pending(i) /\ attached[i]}
    IN  /\ reg' = [i \in Item |-> reg[i] /\ i \notin expired]
        /\ deadline' = [i \in Item |-> IF i \in expired \cup back
                                       THEN "none" ELSE deadline[i]]
        /\ UNCHANGED attached

(***************************************************************************)
(* Callers: schedule_ephemeral_cleanup, then wake_or_start.                *)
(***************************************************************************)
Arm(c) ==
    LET i == citem[c]
    IN  /\ cpc[c] = "arm"
        /\ deadline' = [deadline EXCEPT ![i] =
                          IF attached[i] THEN "none" ELSE "armed"]
        /\ cpc' = [cpc EXCEPT ![c] = IF attached[i] THEN "idle" ELSE "wake"]
        /\ UNCHANGED <<reg, attached, citem, RetentionThreads, running, dropping>>

WakeOrStart_no_bump(c) ==
    /\ cpc[c] = "wake"
    /\ cpc' = [cpc EXCEPT ![c] = IF running THEN "idle" ELSE "spawn"]
    /\ running' = TRUE
    /\ UNCHANGED <<Jobs, citem, RetentionThreads, dropping>>

WakeOrStart_always_starts(c) ==
    /\ cpc[c] = "wake"
    /\ stale' = [w \in Worker |-> TRUE]
    /\ cpc' = [cpc EXCEPT ![c] = "spawn"]
    /\ running' = TRUE
    /\ UNCHANGED <<Jobs, citem, wpc, next, dropping>>

\* Under the scheduler's lock: bump the generation, notify, and claim the
\* start of the thread if there is none.
WakeOrStart(c) ==
    /\ cpc[c] = "wake"
    /\ stale' = [w \in Worker |-> TRUE]
    /\ cpc' = [cpc EXCEPT ![c] = IF running THEN "idle" ELSE "spawn"]
    /\ running' = TRUE
    /\ UNCHANGED <<Jobs, citem, wpc, next, dropping>>

\* The thread is created, or the system refuses.
Spawn(c) ==
    /\ cpc[c] = "spawn"
    /\ \/ \E w \in Worker : /\ wpc[w] = "none"
                            /\ wpc' = [wpc EXCEPT ![w] = "top"]
                            /\ cpc' = [cpc EXCEPT ![c] = "idle"]
       \/ cpc' = [cpc EXCEPT ![c] = "failed"] /\ UNCHANGED wpc
    /\ UNCHANGED <<Jobs, citem, stale, next, running, dropping>>

SpawnFailed_gives_up(c) ==
    /\ cpc[c] = "failed"
    /\ running' = FALSE
    /\ cpc' = [cpc EXCEPT ![c] = "idle"]
    /\ UNCHANGED <<Jobs, citem, RetentionThreads, dropping>>

SpawnFailed(c) ==
    /\ cpc[c] = "failed"
    /\ running' = FALSE
    /\ cpc' = [cpc EXCEPT ![c] = "force"]
    /\ UNCHANGED <<Jobs, citem, RetentionThreads, dropping>>

\* Without a timer, the caller expires everything that waits, at once.
ForcedSweep(c) ==
    /\ cpc[c] = "force"
    /\ Sweep(TRUE)
    /\ cpc' = [cpc EXCEPT ![c] = "idle"]
    /\ UNCHANGED <<citem, RetentionThreads, running, dropping>>

(***************************************************************************)
(* The retention thread: run.                                              *)
(***************************************************************************)
Exit(w) ==
    /\ wpc' = [wpc EXCEPT ![w] = "none"]
    /\ running' = FALSE
    /\ UNCHANGED <<stale, next>>

Observe(w) ==
    /\ wpc[w] = "top"
    /\ IF dropping THEN Exit(w)
       ELSE /\ wpc' = [wpc EXCEPT ![w] = "sweep"]
            /\ stale' = [stale EXCEPT ![w] = FALSE]
            /\ UNCHANGED <<next, running>>
    /\ UNCHANGED <<Jobs, Callers, dropping>>

\* The sweep holds the application; once that is gone, the thread leaves.
SweepStep(w) ==
    /\ wpc[w] = "sweep"
    /\ IF dropping THEN Exit(w) /\ UNCHANGED Jobs
       ELSE /\ Sweep(FALSE)
            /\ next' = [next EXCEPT ![w] =
                          \E i \in Item : /\ Pending(i) /\ ~attached[i]
                                          /\ deadline[i] = "armed"]
            /\ wpc' = [wpc EXCEPT ![w] = "check"]
            /\ UNCHANGED <<stale, running>>
    /\ UNCHANGED <<Callers, dropping>>

\* Only an unchanged generation lets the thread wait, or leave.
Check(w) ==
    /\ wpc[w] = "check"
    /\ IF dropping \/ (~stale[w] /\ ~next[w])
       THEN Exit(w)
       ELSE /\ wpc' = [wpc EXCEPT ![w] = IF stale[w] THEN "top" ELSE "wait"]
            /\ UNCHANGED <<stale, next, running>>
    /\ UNCHANGED <<Jobs, Callers, dropping>>

\* The wait ends at the earliest expiry, or when notified.
WaitEnds(w) ==
    /\ wpc[w] = "wait"
    /\ wpc' = [wpc EXCEPT ![w] = "top"]
    /\ UNCHANGED <<Jobs, Callers, stale, next, running, dropping>>

\* App::drop runs when no thread uses the application any more.
Shutdown ==
    /\ ~dropping
    /\ \A c \in Caller : cpc[c] = "idle"
    /\ dropping' = TRUE
    /\ stale' = [w \in Worker |-> TRUE]
    /\ Sweep(TRUE)
    /\ UNCHANGED <<Callers, wpc, next, running>>

WorkerStep(w) == Observe(w) \/ SweepStep(w) \/ Check(w) \/ WaitEnds(w)
CallerStep(c) ==
    Arm(c) \/ WakeOrStart(c) \/ Spawn(c) \/ SpawnFailed(c) \/ ForcedSweep(c)

CsNext ==
    \/ \E i \in Item : Attach(i) \/ Renew(i) \/ Tick(i)
    \/ \E i \in Item, c \in Caller : Complete(i, c) \/ Detach(i, c)
    \/ \E c \in Caller : CallerStep(c)
    \/ \E w \in Worker : WorkerStep(w)
    \/ Shutdown

CsSpec == CsInit /\ [][CsNext]_csVars

\* Threads that are in the scheduler's code go on; time passes.
CsFairness ==
    /\ \A w \in Worker : WF_csVars(WorkerStep(w))
    /\ \A c \in Caller : WF_csVars(CallerStep(c))
    /\ \A i \in Item : WF_csVars(Tick(i))

CsFairSpec == CsSpec /\ CsFairness

(***************************************************************************)
(* Properties.                                                             *)
(***************************************************************************)
Alive == {w \in Worker : wpc[w] # "none"}
Starting == {c \in Caller : cpc[c] \in {"spawn", "failed"}}

\* worker_running is true exactly while one thread is alive or one caller is
\* starting one: two callers never start two threads, and a failed start does
\* not leave the flag set.
OneWorker ==
    /\ \A v, w \in Alive : v = w
    /\ \A c, d \in Starting : c = d
    /\ Alive = {} \/ Starting = {}
    /\ running <=> Alive \cup Starting # {}

\* Somebody will still look at the registry: the thread before its sweep or
\* before it acts on a moved generation or a later expiry, or a caller.
WillLook ==
    \/ \E c \in Caller : cpc[c] \in {"spawn", "failed", "force"}
    \/ \E w \in Worker : \/ wpc[w] \in {"top", "sweep", "wait"}
                         \/ wpc[w] = "check" /\ (stale[w] \/ next[w])

\* No wake-up is lost: a registered job with an expiry is still going to be
\* looked at, however its caller and the leaving thread interleave, and even
\* if the thread cannot be started.
NoLostExpiry ==
    \A i \in Item : Pending(i) =>
        \/ dropping
        \/ WillLook
        \/ \E c \in Caller : citem[c] = i /\ cpc[c] \in {"arm", "wake"}

\* A job whose expiry is due leaves the registry, unless a reader comes back
\* or a heartbeat renews it first.
ExpiredIsSwept ==
    \A i \in Item : []<>(~reg[i] \/ attached[i] \/ deadline[i] # "due")

\* EphemeralCleanupScheduler always has exactly the one thread its flag claims,
\* and an armed expiry always has somebody who will still look at it.
ExpiryWatched == OneWorker /\ NoLostExpiry

=============================================================================
