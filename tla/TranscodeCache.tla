--------------------------- MODULE TranscodeCache ---------------------------
(***************************************************************************)
(* The directory of compatible outputs (server/src/remux/cache.rs) and the *)
(* worker that looks after it (remux/cache_monitor.rs).                    *)
(*                                                                         *)
(* Whoever prepares, reuses or evicts an output reserves its name first.   *)
(* Maintenance (maintain_inventory_locked) runs under one gate; it keeps   *)
(* an inventory of the directory, up to date by what it is told between    *)
(* sweeps, and evicts what nobody owns.  Producers grow and fail, readers  *)
(* touch and admissions reserve beside it, without the gate.  Producers    *)
(* have their growth observed by one worker, through a bounded queue.      *)
(*                                                                         *)
(* Jobs and their sessions are RemuxJobs' subject: here a job is an        *)
(* attempt to have one output.  Sizes, time and free space are small       *)
(* numbers; an entry's time of use is the time its stamp gives.            *)
(***************************************************************************)
EXTENDS Integers, Sequences, FiniteSets, FiniteSetsExt, Functions

CONSTANTS
  TcDests,        \* outputs: names of the directory
  TcJobs,         \* attempts
  TcSize,         \* bytes an output may have at most
  cache_max,      \* the quota
  TcSpace,        \* bytes of the filesystem
  cache_min_free, \* bytes of it to be left free
  cache_max_age,  \* ticks an entry is kept unused
  TcClock,        \* bound: the last tick
  MAX_PENDING,    \* observations queued
  MAX_RETIRED,    \* files retired before the worker looks at everything
  TcPolls,        \* bound: observations of one attempt
  TcErrors        \* bound: reads of the directory that fail

TcNone == "none"

ASSUME TcAssumption == {TcNone, "evict", "worker"} \cap TcJobs = {}

TcFiles == TcDests \X {"dest", "part"}
Final(d) == <<d, "dest">>
Part(d) == <<d, "part">>
\* generated_cache_mp4: a finished output, rather than an intermediate one.
completed(f) == f[2] = "dest"

VARIABLES
  tcNow,      \* the clock
  tcDisk,     \* what the directory holds: file -> [bytes, used]
  tcInv,      \* Inventory: entries, and whether the last sweep is recent
  tcReserved, \* CacheCoordinator.reserved: output -> who reserved it
  tcJobs,     \* registered jobs (App.remuxes)
  tcAct,      \* the attempts
  tcGate,     \* who holds App.cache_maintenance
  tcRun,      \* the maintenance under way
  tcMon,      \* Worker.state: queue, retired, reconcile
  tcWorker,   \* Worker::run: where it is and what it took
  tcOver,     \* the server is shutting down
  tcErrors

cacheVars == <<tcInv, tcGate, tcRun>>
tcVars == <<tcNow, tcDisk, tcReserved, tcJobs, tcAct, tcMon, tcWorker, tcOver,
            tcErrors, cacheVars>>

TcIdle == [pc |-> "idle", dest |-> TcNone, fresh |-> FALSE, cancelled |-> FALSE,
           check |-> "none", n |-> 0]
NoRun == [pc |-> "none", requested |-> {}, active |-> {}, sweep |-> FALSE,
          pressure |-> FALSE, short |-> 0, cands |-> {}, refreshed |-> {},
          second |-> FALSE, cur |-> TcNone, passed |-> {}]

Drop(f, S) == Restrict(f, DOMAIN f \ S)
Sum(entries) == MapThenSumSet(LAMBDA f : entries[f].bytes, DOMAIN entries)
Shortage(disk) ==
  LET free == TcSpace - Sum(disk) IN IF free < cache_min_free THEN cache_min_free - free ELSE 0
Owned(d) == \E j \in tcJobs : tcAct[j].dest = d

\* Inventory::replace with read_entry, for each of a set of files.
Reread(entries, S) ==
  [f \in (DOMAIN entries \ S) \cup (DOMAIN tcDisk \cap S) |->
     IF f \in S THEN tcDisk[f] ELSE entries[f]]
refresh_artifacts(S) == tcInv' = [tcInv EXCEPT !.entries = Reread(@, S)]

Goes(j, pc) == tcAct' = [tcAct EXCEPT ![j].pc = pc]

-----------------------------------------------------------------------------
(* An attempt to have an output, as far as the cache is concerned          *)
(* (attach_job_attempt, run_ffmpeg_growing, publish_finished_output).      *)

reserve(j, d) ==
  /\ tcAct[j].pc = "idle" /\ tcReserved[d] = TcNone /\ ~tcOver
  /\ tcReserved' = [tcReserved EXCEPT ![d] = j]
  /\ tcAct' = [tcAct EXCEPT ![j].pc = "look", ![j].dest = d]
  /\ UNCHANGED <<tcNow, tcDisk, tcJobs, tcMon, tcWorker, tcOver, tcErrors, cacheVars>>

Release(j) == tcReserved' = [tcReserved EXCEPT ![tcAct[j].dest] = TcNone]

\* A registered job has the output: it is joined, and touched if complete.
Join(j) ==
  LET d == tcAct[j].dest IN
  /\ tcAct[j].pc = "look" /\ Owned(d)
  /\ Release(j) /\ Goes(j, "done")
  /\ \/ UNCHANGED tcDisk
     \/ /\ \E k \in tcJobs : tcAct[k].dest = d /\ tcAct[k].pc = "complete"
        /\ tcDisk' = [tcDisk EXCEPT ![Final(d)].used = tcNow]
  /\ UNCHANGED <<tcNow, tcJobs, tcMon, tcWorker, tcOver, tcErrors, cacheVars>>

\* Otherwise what is there is either as good as new or to be rebuilt.
Look(j) ==
  LET d == tcAct[j].dest IN
  /\ tcAct[j].pc = "look" /\ ~Owned(d)
  /\ \E fresh \in IF Final(d) \in DOMAIN tcDisk THEN BOOLEAN ELSE {FALSE} :
       tcAct' = [tcAct EXCEPT ![j].fresh = fresh,
                   ![j].pc = IF ~fresh /\ Final(d) \in DOMAIN tcDisk THEN "stale" ELSE "admit"]
  /\ UNCHANGED <<tcNow, tcDisk, tcReserved, tcJobs, tcMon, tcWorker, tcOver, tcErrors, cacheVars>>

\* A stale output goes, under the gate.
RemoveStale(j) ==
  LET mine == {Final(tcAct[j].dest), Part(tcAct[j].dest)} IN
  /\ tcAct[j].pc = "stale" /\ tcGate = TcNone
  /\ tcDisk' = Drop(tcDisk, mine)
  /\ tcInv' = [tcInv EXCEPT !.entries = Drop(@, mine)]
  /\ Goes(j, "admit")
  /\ UNCHANGED <<tcNow, tcReserved, tcJobs, tcMon, tcWorker, tcOver, tcErrors, tcGate, tcRun>>

\* maintain_app_cache for the candidate, which its request protects.
Admit(j) ==
  /\ tcAct[j].pc = "admit" /\ tcGate = TcNone
  /\ tcGate' = j
  /\ tcRun' = [NoRun EXCEPT !.pc = "retired", !.requested = {Final(tcAct[j].dest)}]
  /\ Goes(j, "admitting")
  /\ UNCHANGED <<tcNow, tcDisk, tcReserved, tcJobs, tcMon, tcWorker, tcOver, tcErrors, tcInv>>

\* A fresh output is opened and registered, the reservation still held.
RegisterHit(j) ==
  LET f == Final(tcAct[j].dest) IN
  /\ tcAct[j].pc = "open" /\ Release(j)
  /\ IF f \in DOMAIN tcDisk
     THEN /\ tcJobs' = tcJobs \cup {j} /\ Goes(j, "complete")
          /\ tcDisk' = [tcDisk EXCEPT ![f].used = tcNow]
     ELSE Goes(j, "done") /\ UNCHANGED <<tcJobs, tcDisk>>
  /\ UNCHANGED <<tcNow, tcMon, tcWorker, tcOver, tcErrors, cacheVars>>

RegisterProducer(j) ==
  /\ tcAct[j].pc = "register"
  /\ tcJobs' = tcJobs \cup {j} /\ Goes(j, "growing") /\ Release(j)
  /\ UNCHANGED <<tcNow, tcDisk, tcMon, tcWorker, tcOver, tcErrors, cacheVars>>

\* The child writes; after a retry it begins again (a new Monitor).
Grow(j) ==
  LET p == Part(tcAct[j].dest)
      had == IF p \in DOMAIN tcDisk THEN tcDisk[p].bytes ELSE 0
  IN /\ tcAct[j].pc = "growing" /\ had < TcSize
     /\ tcDisk' = [f \in DOMAIN tcDisk \cup {p} |->
                     IF f = p THEN [bytes |-> had + 1, used |-> tcNow] ELSE tcDisk[f]]
     /\ UNCHANGED <<tcNow, tcReserved, tcJobs, tcAct, tcMon, tcWorker, tcOver, tcErrors, cacheVars>>

Written(j) ==
  /\ tcAct[j].pc = "growing" /\ Part(tcAct[j].dest) \in DOMAIN tcDisk
  /\ tcAct' = [tcAct EXCEPT ![j].pc = "publish", ![j].check = "none"]
  /\ UNCHANGED <<tcNow, tcDisk, tcReserved, tcJobs, tcMon, tcWorker, tcOver, tcErrors, cacheVars>>

\* publish_finished_output: maintenance under the gate, which it keeps.
LockPublication(j) ==
  /\ tcAct[j].pc = "publish" /\ ~tcAct[j].cancelled /\ tcGate = TcNone
  /\ tcGate' = j
  /\ tcRun' = [NoRun EXCEPT !.pc = "retired"]
  /\ Goes(j, "publishing")
  /\ UNCHANGED <<tcNow, tcDisk, tcReserved, tcJobs, tcMon, tcWorker, tcOver, tcErrors, tcInv>>

\* Mutant: the new sizes are not noted.
Noted_not(entries, disk, d) == entries

\* What the inventory says once an output is published or given up.
Noted(entries, disk, d) ==
  [f \in (DOMAIN entries \ {Part(d), Final(d)}) \cup (DOMAIN disk \cap {Part(d), Final(d)}) |->
     IF f \in {Part(d), Final(d)} THEN disk[f] ELSE entries[f]]

\* check_publication_limits, then the rename; an output that changes under
\* it is removed again.
Publish(j) ==
  LET d == tcAct[j].dest
      known == Reread(tcInv.entries, {Part(d), Final(d)})
      moved == [f \in (DOMAIN tcDisk \ {Part(d)}) \cup {Final(d)} |->
                  IF f = Final(d) THEN [tcDisk[Part(d)] EXCEPT !.used = tcNow] ELSE tcDisk[f]]
      fits == Sum(known) <= cache_max /\ Shortage(tcDisk) = 0 /\ ~tcAct[j].cancelled
  IN /\ tcAct[j].pc = "rename" /\ tcGate' = TcNone
     /\ \/ fits /\ tcDisk' = moved /\ Goes(j, "complete")
        \/ fits /\ tcDisk' = Drop(tcDisk, {Part(d), Final(d)}) /\ Goes(j, "failing")
        \/ ~fits /\ UNCHANGED tcDisk /\ Goes(j, "failing")
     /\ tcInv' = [tcInv EXCEPT !.entries = Noted(known, tcDisk', d)]
     /\ UNCHANGED <<tcNow, tcReserved, tcJobs, tcMon, tcWorker, tcOver, tcErrors, tcRun>>

\* The child fails.
Fail(j) ==
  /\ tcAct[j].pc = "growing"
  /\ tcAct' = [tcAct EXCEPT ![j].pc = "failing", ![j].check = "none"]
  /\ UNCHANGED <<tcNow, tcDisk, tcReserved, tcJobs, tcMon, tcWorker, tcOver, tcErrors, cacheVars>>

\* A cancelled job stops waiting for the gate.
GiveUpPublication(j) ==
  /\ tcAct[j].pc = "publish" /\ tcAct[j].cancelled
  /\ Goes(j, "failing")
  /\ UNCHANGED <<tcNow, tcDisk, tcReserved, tcJobs, tcMon, tcWorker, tcOver, tcErrors, cacheVars>>

cleanup_intermediates(j) ==
  /\ tcAct[j].pc = "failing"
  /\ tcDisk' = Drop(tcDisk, {Part(tcAct[j].dest)})
  /\ Goes(j, "cleaned")
  /\ UNCHANGED <<tcNow, tcReserved, tcJobs, tcMon, tcWorker, tcOver, tcErrors, cacheVars>>

\* Worker::reconcile: what is retired is looked at again; too much of it is
\* coalesced into one look at everything.
reconcile(j) ==
  LET mine == {Final(tcAct[j].dest), Part(tcAct[j].dest)}
      full == Cardinality(tcMon.retired \cup mine) > MAX_RETIRED
  IN /\ tcAct[j].pc = "cleaned"
     /\ tcMon' = IF tcMon.reconcile THEN tcMon
                 ELSE IF full THEN [tcMon EXCEPT !.retired = {}, !.reconcile = TRUE]
                 ELSE [tcMon EXCEPT !.retired = @ \cup mine]
     /\ Goes(j, "retired")
     /\ UNCHANGED <<tcNow, tcDisk, tcReserved, tcJobs, tcWorker, tcOver, tcErrors, cacheVars>>

\* finish_job; a completed job leaves when nobody reads it any more.
finish_job(j) ==
  /\ tcAct[j].pc \in {"retired", "complete"}
  /\ tcJobs' = tcJobs \ {j} /\ Goes(j, "done")
  /\ UNCHANGED <<tcNow, tcDisk, tcReserved, tcMon, tcWorker, tcOver, tcErrors, cacheVars>>

\* touch_recency by a reader of a completed job.
touch_recency(j) ==
  /\ tcAct[j].pc = "complete" /\ tcDisk[Final(tcAct[j].dest)].used < tcNow
  /\ tcDisk' = [tcDisk EXCEPT ![Final(tcAct[j].dest)].used = tcNow]
  /\ UNCHANGED <<tcNow, tcReserved, tcJobs, tcAct, tcMon, tcWorker, tcOver, tcErrors, cacheVars>>

Cancel(j) ==
  /\ j \in tcJobs /\ ~tcAct[j].cancelled
  /\ tcAct' = [tcAct EXCEPT ![j].cancelled = TRUE]
  /\ UNCHANGED <<tcNow, tcDisk, tcReserved, tcJobs, tcMon, tcWorker, tcOver, tcErrors, cacheVars>>

-----------------------------------------------------------------------------
(* maintain_inventory_locked, by the holder of the gate.                   *)

RunUnchanged == UNCHANGED <<tcNow, tcJobs, tcWorker, tcOver, tcGate>>

\* The result reaches whoever holds the gate; only publication keeps it.
EndRun(ok) ==
  /\ tcRun' = NoRun
  /\ CASE tcGate = "worker" ->
             /\ tcGate' = TcNone /\ UNCHANGED <<tcAct, tcReserved>>
             /\ tcWorker' = [tcWorker EXCEPT !.pc = "answer", !.ok = ok]
       [] tcGate # "worker" /\ tcAct[tcGate].pc = "admitting" ->
             /\ tcGate' = TcNone /\ UNCHANGED tcWorker
             /\ Goes(tcGate, IF ~ok THEN "done" ELSE IF tcAct[tcGate].fresh THEN "open" ELSE "register")
             /\ IF ok THEN UNCHANGED tcReserved ELSE Release(tcGate)
       [] tcGate # "worker" /\ tcAct[tcGate].pc = "publishing" ->
             /\ tcGate' = IF ok THEN tcGate ELSE TcNone
             /\ Goes(tcGate, IF ok THEN "rename" ELSE "failing")
             /\ UNCHANGED <<tcReserved, tcWorker>>
  /\ UNCHANGED <<tcNow, tcDisk, tcJobs, tcOver>>

\* Retirements are used up first; a sweep that is due must succeed.
take_retired ==
  LET sweep == tcMon.reconcile \/ ~tcInv.fresh IN
  /\ tcRun.pc = "retired"
  /\ tcMon' = [tcMon EXCEPT !.retired = {}, !.reconcile = FALSE]
  /\ tcInv' = [entries |-> Reread(tcInv.entries, tcMon.retired), fresh |-> ~sweep]
  /\ tcRun' = [tcRun EXCEPT !.sweep = sweep, !.pc = IF sweep THEN "discover" ELSE "active"]
  /\ UNCHANGED <<tcDisk, tcReserved, tcAct, tcErrors>> /\ RunUnchanged

discover ==
  /\ tcRun.pc = "discover"
  /\ tcInv' = [entries |-> tcDisk, fresh |-> TRUE]
  /\ tcRun' = [tcRun EXCEPT !.pc = "active"]
  /\ UNCHANGED <<tcDisk, tcReserved, tcAct, tcMon, tcErrors>> /\ RunUnchanged

\* Reading the directory fails; it is swept by the next maintenance.
discover_fails ==
  /\ \/ tcRun.pc = "discover" /\ UNCHANGED tcMon
     \/ /\ tcRun.pc = "retired" /\ tcMon.retired # {}
        /\ tcMon' = [tcMon EXCEPT !.retired = {}, !.reconcile = FALSE]
  /\ tcErrors < TcErrors /\ tcErrors' = tcErrors + 1
  /\ tcInv' = [tcInv EXCEPT !.fresh = FALSE]
  /\ EndRun(FALSE)

active_artifacts ==
  /\ tcRun.pc = "active"
  /\ tcRun' = [tcRun EXCEPT !.pc = "decide", !.active =
       UNION {{Final(tcAct[j].dest), Part(tcAct[j].dest)} : j \in tcJobs}]
  /\ UNCHANGED <<tcDisk, tcReserved, tcAct, tcMon, tcErrors, tcInv>> /\ RunUnchanged

Over(entries, short) == Sum(entries) > cache_max \/ short > 0
Aged(e) == tcNow - e.used > cache_max_age

\* Whether removing every completed file nobody owns would be enough.
eviction_can_satisfy_limits(entries, short) ==
  LET kept == {f \in DOMAIN entries : ~completed(f) \/ f \in tcRun.active
                                      \/ f \in tcRun.requested \/ Owned(f[1])}
      reclaimable == Sum(entries) - Sum(Restrict(entries, kept))
  IN Sum(Restrict(entries, kept)) <= cache_max /\ reclaimable >= short

\* What is active or asked for is looked at, and what may go is chosen.
Decide ==
  LET entries == Reread(tcInv.entries, tcRun.active \cup tcRun.requested)
      short == Shortage(tcDisk)
      pressure == Over(entries, short) /\ eviction_can_satisfy_limits(entries, short)
  IN /\ tcRun.pc = "decide"
     /\ tcInv' = [tcInv EXCEPT !.entries = entries]
     /\ tcRun' = [tcRun EXCEPT !.pc = "evict", !.pressure = pressure, !.short = short,
          !.cands = {<<f, entries[f].used>> : f \in
             {g \in DOMAIN entries : completed(g) /\ (pressure \/ (tcRun.sweep /\ Aged(entries[g])))}}]
     /\ UNCHANGED <<tcDisk, tcReserved, tcAct, tcMon, tcErrors>> /\ RunUnchanged

Relieved == ~tcRun.pressure \/ ~Over(tcInv.entries, tcRun.short)

\* Mutant: candidates in no order.
NextCandidate_unsorted == tcRun.cands

\* Under pressure the least recently used comes first.
NextCandidate ==
  IF tcRun.pressure THEN {c \in tcRun.cands : \A e \in tcRun.cands : c[2] <= e[2]}
  ELSE tcRun.cands

\* Mutant: an output somebody reserved is taken all the same.
try_reserve_taken(d) == TRUE

try_reserve(d) == tcReserved[d] = TcNone

\* One candidate: passed over unless it is aged or the limits are exceeded,
\* and when somebody has it reserved.
Candidate ==
  /\ tcRun.pc = "evict"
  /\ \E c \in NextCandidate :
       LET d == c[1][1]
           wanted == Aged([used |-> c[2]]) \/ ~Relieved
           rest == [tcRun EXCEPT !.cands = @ \ {c}]
       IN IF wanted /\ try_reserve(d)
          THEN /\ tcReserved' = [tcReserved EXCEPT ![d] = "evict"]
               /\ tcRun' = [rest EXCEPT !.pc = "guard", !.cur = c]
          ELSE tcRun' = [rest EXCEPT !.passed = @ \cup {c[1]}] /\ UNCHANGED tcReserved
  /\ UNCHANGED <<tcDisk, tcAct, tcMon, tcErrors, tcInv>> /\ RunUnchanged

Cur == tcRun.cur[1]
ReleaseCur == tcReserved' = [tcReserved EXCEPT ![Cur[1]] = TcNone]

\* Mutant: what was registered since is not looked for.
Guard_registered_goes ==
  /\ tcRun.pc = "guard"
  /\ tcRun' = [tcRun EXCEPT !.pc = "unlink"] /\ UNCHANGED tcReserved
  /\ UNCHANGED <<tcDisk, tcAct, tcMon, tcErrors, tcInv>> /\ RunUnchanged

\* With the reservation held, no job may have the output.
Guard ==
  /\ tcRun.pc = "guard"
  /\ IF Owned(Cur[1]) \/ Cur \in tcRun.requested
     THEN ReleaseCur /\ tcRun' = [tcRun EXCEPT !.pc = "evict", !.cur = TcNone, !.passed = @ \cup {Cur}]
     ELSE UNCHANGED tcReserved /\ tcRun' = [tcRun EXCEPT !.pc = "unlink"]
  /\ UNCHANGED <<tcDisk, tcAct, tcMon, tcErrors, tcInv>> /\ RunUnchanged

\* Mutant: how recently it was used is not asked again.
UsedSince_never == FALSE

UsedSince == Cur \in DOMAIN tcDisk /\ tcDisk[Cur].used > tcRun.cur[2]

\* What was used meanwhile goes to the end of the line; the rest goes.
Evict ==
  /\ tcRun.pc = "unlink" /\ ReleaseCur
  /\ LET rest == [tcRun EXCEPT !.pc = "evict", !.cur = TcNone] IN
     IF UsedSince
     THEN /\ tcInv' = [tcInv EXCEPT !.entries = Reread(@, {Cur})]
          /\ tcRun' = [rest EXCEPT !.refreshed = @ \cup {<<Cur, tcDisk[Cur].used>>}]
          /\ UNCHANGED tcDisk
     ELSE /\ tcDisk' = Drop(tcDisk, {Cur})
          /\ tcInv' = [tcInv EXCEPT !.entries = Drop(@, {Cur})]
          /\ tcRun' = [rest EXCEPT !.short = IF @ > 0 THEN Shortage(Drop(tcDisk, {Cur})) ELSE 0]
  /\ UNCHANGED <<tcAct, tcMon, tcErrors>> /\ RunUnchanged

\* A second pass over what was used meanwhile, if it is still needed.
SecondPass ==
  /\ tcRun.pc = "evict" /\ tcRun.cands = {} /\ ~Relieved /\ ~tcRun.second
  /\ tcRun' = [tcRun EXCEPT !.cands = tcRun.refreshed, !.refreshed = {}, !.second = TRUE]
  /\ UNCHANGED <<tcDisk, tcReserved, tcAct, tcMon, tcErrors, tcInv>> /\ RunUnchanged

Finish ==
  /\ tcRun.pc = "evict" /\ tcRun.cands = {} /\ (Relieved \/ tcRun.second)
  /\ EndRun(~Over(tcInv.entries, tcRun.short))
  /\ UNCHANGED <<tcInv, tcMon, tcErrors>>

Maintenance ==
  \/ take_retired \/ discover \/ discover_fails \/ active_artifacts
  \/ Decide \/ Candidate \/ Guard \/ Evict \/ SecondPass \/ Finish

-----------------------------------------------------------------------------
(* Observations: each attempt has one check queued or answered, and a      *)
(* check whose attempt no longer waits for it is cancelled.                *)

Waits(c) == tcAct[c[1]].check = "pending" /\ tcAct[c[1]].n = c[2]
Live(checks) == \E c \in checks : Waits(c) /\ ~tcAct[c[1]].cancelled

\* Monitor::poll and Worker::enqueue, from the loop that watches the child.
poll(j) ==
  LET queue == SelectSeq(tcMon.queue, Waits)
      n == tcAct[j].n + 1
  IN /\ tcAct[j].pc = "growing"
     /\ \/ /\ tcAct[j].check = "failed" \/ tcAct[j].cancelled
           /\ tcAct' = [tcAct EXCEPT ![j].pc = "failing", ![j].check = "none"]
           /\ UNCHANGED tcMon
        \/ /\ tcAct[j].check \in {"none", "answered"} /\ ~tcAct[j].cancelled /\ n <= TcPolls
           /\ IF tcWorker.stop \/ Len(queue) = MAX_PENDING
              THEN /\ tcAct' = [tcAct EXCEPT ![j].pc = "failing", ![j].check = "none"]
                   /\ tcMon' = [tcMon EXCEPT !.queue = queue]
              ELSE /\ tcAct' = [tcAct EXCEPT ![j].check = "pending", ![j].n = n]
                   /\ \E due \in BOOLEAN : tcMon' = [tcMon EXCEPT !.queue = Append(queue, <<j, n, due>>)]
     /\ UNCHANGED <<tcNow, tcDisk, tcReserved, tcJobs, tcWorker, tcOver, tcErrors, cacheVars>>

\* Another attempt of the same job begins: its Monitor is a new one.
Retry(j) ==
  /\ tcAct[j].pc = "growing" /\ tcAct[j].check # "none"
  /\ tcAct' = [tcAct EXCEPT ![j].check = "none"]
  /\ tcDisk' = Drop(tcDisk, {Part(tcAct[j].dest)})
  /\ UNCHANGED <<tcNow, tcReserved, tcJobs, tcMon, tcWorker, tcOver, tcErrors, cacheVars>>

WorkerUnchanged == UNCHANGED <<tcNow, tcDisk, tcReserved, tcJobs, tcOver, tcErrors, tcInv>>

\* All that is queued is taken together.
WorkerTakes ==
  /\ tcWorker.pc = "wait" /\ ~tcWorker.stop
  /\ tcMon.queue # <<>> \/ tcMon.reconcile \/ tcMon.retired # {}
  /\ tcWorker' = [tcWorker EXCEPT !.pc = "look", !.checks = Range(tcMon.queue),
                     !.cleanup = tcMon.reconcile \/ tcMon.retired # {}]
  /\ tcMon' = [tcMon EXCEPT !.queue = <<>>]
  /\ UNCHANGED <<tcAct, tcGate, tcRun>> /\ WorkerUnchanged

cancelled == tcWorker.stop \/ tcOver \/ (~tcWorker.cleanup /\ ~Live(tcWorker.checks))

\* It looks at each output; maintenance follows if one of them is due.
WorkerLooks ==
  /\ tcWorker.pc = "look"
  /\ LET seen == {c \in tcWorker.checks : Waits(c) /\ ~tcAct[c[1]].cancelled}
         due == tcWorker.cleanup \/ (~cancelled /\ \E c \in seen : c[3])
     IN tcWorker' = [tcWorker EXCEPT !.pc = IF due THEN "gate" ELSE "answer",
                       !.seen = IF cancelled THEN {} ELSE seen, !.ok = TRUE]
  /\ UNCHANGED <<tcAct, tcMon, tcGate, tcRun>> /\ WorkerUnchanged

\* lock_maintenance: the gate is tried until everyone has given up.
WorkerGate ==
  /\ tcWorker.pc = "gate"
  /\ \/ cancelled /\ tcWorker' = [tcWorker EXCEPT !.pc = "answer", !.ok = FALSE]
        /\ UNCHANGED <<tcGate, tcRun>>
     \/ /\ ~cancelled /\ tcGate = TcNone
        /\ tcGate' = "worker" /\ tcRun' = [NoRun EXCEPT !.pc = "retired"]
        /\ tcWorker' = [tcWorker EXCEPT !.pc = "maintain"]
  /\ UNCHANGED <<tcAct, tcMon>> /\ WorkerUnchanged

\* Mutant: a maintenance that failed leaves its checks without an answer.
WorkerAnswers_ok ==
  /\ tcWorker.pc = "answer"
  /\ tcAct' = [j \in TcJobs |->
       LET mine == {c \in tcWorker.checks : c[1] = j /\ Waits(c)}
       IN IF mine = {} \/ ~tcWorker.ok THEN tcAct[j] ELSE [tcAct[j] EXCEPT !.check = "answered"]]
  /\ tcWorker' = [tcWorker EXCEPT !.pc = IF tcOver THEN "gone" ELSE "wait", !.stop = @ \/ tcOver,
                     !.checks = {}, !.seen = {}, !.cleanup = FALSE, !.ok = TRUE]
  /\ UNCHANGED <<tcMon, tcGate, tcRun>> /\ WorkerUnchanged

\* Who still waits is answered; once the server is shutting down the worker
\* takes nothing more.
WorkerAnswers ==
  /\ tcWorker.pc = "answer"
  /\ tcAct' = [j \in TcJobs |->
       LET mine == {c \in tcWorker.checks : c[1] = j /\ Waits(c)}
       IN IF mine = {} THEN tcAct[j]
          ELSE [tcAct[j] EXCEPT !.check =
                  IF tcWorker.ok /\ mine \subseteq tcWorker.seen THEN "answered" ELSE "failed"]]
  /\ tcWorker' = [tcWorker EXCEPT !.pc = IF tcOver THEN "gone" ELSE "wait", !.stop = @ \/ tcOver,
                     !.checks = {}, !.seen = {}, !.cleanup = FALSE, !.ok = TRUE]
  /\ UNCHANGED <<tcMon, tcGate, tcRun>> /\ WorkerUnchanged

\* Shutdown cancels the jobs (remux::cancel_all).
TcShutdown ==
  /\ ~tcOver /\ tcOver' = TRUE
  /\ tcAct' = [j \in TcJobs |-> [tcAct[j] EXCEPT !.cancelled = @ \/ j \in tcJobs]]
  /\ UNCHANGED <<tcNow, tcDisk, tcReserved, tcJobs, tcMon, tcWorker, tcErrors, cacheVars>>

\* Time passes: entries age, and the last sweep is no longer recent.
TcTick ==
  /\ tcNow < TcClock /\ tcNow' = tcNow + 1
  /\ tcInv' \in IF tcRun = NoRun THEN {tcInv, [tcInv EXCEPT !.fresh = FALSE]} ELSE {tcInv}
  /\ UNCHANGED <<tcDisk, tcReserved, tcJobs, tcAct, tcMon, tcWorker, tcOver, tcErrors, tcGate, tcRun>>

-----------------------------------------------------------------------------
\* The process starts over a directory of earlier outputs.
TcInit ==
  /\ tcNow = 1
  /\ \E D \in SUBSET {Final(d) : d \in TcDests} :
       tcDisk \in [D -> [bytes : 1 .. TcSize, used : 0 .. 1]]
  /\ tcInv = [entries |-> [f \in {} |-> TcNone], fresh |-> FALSE]
  /\ tcReserved = [d \in TcDests |-> TcNone] /\ tcJobs = {}
  /\ tcAct = [j \in TcJobs |-> TcIdle]
  /\ tcGate = TcNone /\ tcRun = NoRun
  /\ tcMon = [queue |-> <<>>, retired |-> {}, reconcile |-> FALSE]
  /\ tcWorker = [pc |-> "wait", checks |-> {}, seen |-> {}, cleanup |-> FALSE, ok |-> TRUE, stop |-> FALSE]
  /\ tcOver = FALSE /\ tcErrors = 0

\* What an attempt does next by itself, once it has a place in the directory.
AttemptStep(j) ==
  \/ Join(j) \/ Look(j) \/ RemoveStale(j) \/ Admit(j) \/ RegisterHit(j) \/ RegisterProducer(j)
  \/ LockPublication(j) \/ GiveUpPublication(j) \/ Publish(j) \/ cleanup_intermediates(j) \/ reconcile(j)
CacheWorkerStep == WorkerTakes \/ WorkerLooks \/ WorkerGate \/ WorkerAnswers
TcNext ==
  \/ \E j \in TcJobs :
       \/ \E d \in TcDests : reserve(j, d)
       \/ AttemptStep(j) \/ Grow(j) \/ poll(j) \/ Written(j) \/ Fail(j) \/ Retry(j)
       \/ finish_job(j) \/ touch_recency(j) \/ Cancel(j)
  \/ Maintenance \/ CacheWorkerStep \/ TcShutdown \/ TcTick

TcSpec == TcInit /\ [][TcNext]_tcVars

-----------------------------------------------------------------------------
(* Properties.                                                             *)

(* While nobody maintains the cache, the inventory agrees with the         *)
(* directory about every file, except those the next maintenance looks at  *)
(* before it decides anything: what registered jobs own, what is retired,  *)
(* and everything when a sweep is due.                                     *)
Accounted ==
  tcGate = TcNone /\ tcInv.fresh /\ ~tcMon.reconcile =>
    \A f \in TcFiles \ tcMon.retired :
      ~Owned(f[1]) =>
        /\ f \in DOMAIN tcInv.entries <=> f \in DOMAIN tcDisk
        /\ f \in DOMAIN tcDisk => tcInv.entries[f].bytes = tcDisk[f].bytes

(* What somebody relies on is there: the file of a completed job, and the  *)
(* output a request found fresh until it has opened it.                    *)
Relies(j) ==
  \/ tcAct[j].pc = "complete"
  \/ tcAct[j].fresh /\ tcAct[j].pc \in {"admit", "admitting", "open"}
OutputsKept == \A j \in TcJobs : Relies(j) => Final(tcAct[j].dest) \in DOMAIN tcDisk

(* Nobody shares an output being prepared, and an eviction holds the one   *)
(* it is about to remove.                                                  *)
OneOwner ==
  /\ \A j, k \in tcJobs : j # k => tcAct[j].dest # tcAct[k].dest
  /\ tcRun.pc \in {"guard", "unlink"} => tcReserved[Cur[1]] = "evict"
  /\ tcRun.pc = "unlink" => ~Owned(Cur[1])

CacheKept == Accounted /\ OutputsKept /\ OneOwner

(* An output that is not too old is only removed under pressure, after     *)
(* everything used less recently that nobody has.                          *)
LeastRecentlyUsed ==
  [][\A f \in DOMAIN tcDisk \ DOMAIN tcDisk' :
       Evict /\ ~Aged(tcDisk[f]) =>
         /\ tcRun.pressure
         /\ \A g \in DOMAIN tcDisk' \cap DOMAIN tcInv.entries :
              completed(g) /\ tcDisk[g].used < tcDisk[f].used => g \in tcRun.passed \cup {h[1] : h \in tcRun.refreshed}]_tcVars

(* Until the server shuts down a check that is waited for is answered and  *)
(* what was retired is accounted for, and every attempt that waits for the *)
(* gate gets on.                                                           *)
Waiting(j) ==
  \/ tcAct[j].pc \in {"stale", "admit", "admitting", "publish", "publishing"}
  \/ tcAct[j].check = "pending" /\ ~tcOver
CacheProgress ==
  /\ \A j \in TcJobs : []<>~Waiting(j)
  /\ []<>(tcOver \/ (tcMon.retired = {} /\ ~tcMon.reconcile))

\* Evictions are fair to what is in use, and the cache keeps working.
CacheServes == LeastRecentlyUsed /\ CacheProgress
=============================================================================
