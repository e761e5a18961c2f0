-------------------------- MODULE Retention_proofs --------------------------
(***************************************************************************)
(* Proofs about how long finished outputs stay: the retention scheduler,   *)
(* for any number of jobs, callers and threads, and the transcode cache,   *)
(* for any number of outputs and attempts.                                 *)
(***************************************************************************)
EXTENDS CleanupScheduler, TranscodeCache, TLAPS

-----------------------------------------------------------------------------
(* The scheduler.  The invariant is inductive as it stands once OneWorker  *)
(* says that worker_running stands for a thread, or a caller about to      *)
(* create one, that will look at the registry again.                       *)

IInv == CsTypeOK /\ OneWorker /\ NoLostExpiry

\* A fresh scheduler has no thread and nothing to look at.
LEMMA InitInv == CsInit => IInv
<1> SUFFICES ASSUME CsInit PROVE IInv
  OBVIOUS
<1>1. CsTypeOK
  BY DEF CsInit, CsTypeOK, Deadlines, CallerPc, WorkerPc
<1>2. OneWorker
  BY DEF CsInit, OneWorker, Alive, Starting
<1>3. NoLostExpiry
  BY DEF CsInit, NoLostExpiry, Pending
<1> QED BY <1>1, <1>2, <1>3 DEF IInv

\* What a sweep does to the registry, whoever runs it.
LEMMA SweepShape ==
  ASSUME CsTypeOK, NEW f \in BOOLEAN, Sweep(f)
  PROVE  /\ reg' \in [Item -> BOOLEAN]
         /\ deadline' \in [Item -> Deadlines]
         /\ attached' = attached
         /\ \A i \in Item : Pending(i)' =>
              /\ Pending(i) /\ ~attached[i]
              /\ ~f /\ deadline[i] = "armed"
BY DEF CsTypeOK, Sweep, Pending, Deadlines

\* A step of the jobs alone that makes no expiry pending keeps NoLostExpiry.
LEMMA QuietStep ==
  ASSUME IInv, UNCHANGED <<Callers, RetentionThreads, running, dropping>>,
         \A i \in Item : Pending(i)' => Pending(i)
  PROVE  OneWorker' /\ NoLostExpiry'
<1>1. OneWorker'
  BY DEF IInv, OneWorker, Alive, Starting, Callers, RetentionThreads
<1>2. NoLostExpiry'
  BY DEF IInv, NoLostExpiry, WillLook, Callers, RetentionThreads
<1> QED BY <1>1, <1>2

\* Inductiveness, one step per action.
LEMMA NextInv == IInv /\ [CsNext]_csVars => IInv'
<1> SUFFICES ASSUME IInv, [CsNext]_csVars PROVE IInv'
  OBVIOUS
<1> USE DEF IInv
<1>1. ASSUME NEW i \in Item, Attach(i) PROVE IInv'
  <2>1. CsTypeOK'
    BY <1>1 DEF CsTypeOK, Attach, Callers, RetentionThreads, Deadlines
  <2>2. \A j \in Item : Pending(j)' => Pending(j)
    BY <1>1 DEF CsTypeOK, Attach, Pending
  <2> QED BY <1>1, <2>1, <2>2, QuietStep DEF Attach
<1>2. ASSUME NEW i \in Item, Renew(i) PROVE IInv'
  <2>1. CsTypeOK'
    BY <1>2 DEF CsTypeOK, Renew, Callers, RetentionThreads, Deadlines
  <2>2. \A j \in Item : Pending(j)' => Pending(j)
    BY <1>2 DEF CsTypeOK, Renew, Pending
  <2> QED BY <1>2, <2>1, <2>2, QuietStep DEF Renew
<1>3. ASSUME NEW i \in Item, Tick(i) PROVE IInv'
  <2>1. CsTypeOK'
    BY <1>3 DEF CsTypeOK, Tick, Callers, RetentionThreads, Deadlines
  <2>2. \A j \in Item : Pending(j)' => Pending(j)
    BY <1>3 DEF CsTypeOK, Tick, Pending
  <2> QED BY <1>3, <2>1, <2>2, QuietStep DEF Tick
<1>4. ASSUME NEW i \in Item, NEW c \in Caller, Complete(i, c) PROVE IInv'
  <2>1. CsTypeOK'
    BY <1>4 DEF CsTypeOK, Complete, RetentionThreads, CallerPc
  <2>2. OneWorker'
    BY <1>4 DEF CsTypeOK, Complete, RetentionThreads, OneWorker, Alive, Starting
  <2>3. citem'[c] = i /\ cpc'[c] = "arm"
    BY <1>4 DEF CsTypeOK, Complete
  <2>4. \A j \in Item \ {i} : Pending(j)' => Pending(j)
    BY <1>4 DEF CsTypeOK, Complete, Pending
  <2>5. \A d \in Caller : cpc[d] # "idle" => cpc'[d] = cpc[d] /\ citem'[d] = citem[d]
    BY <1>4 DEF CsTypeOK, Complete
  <2>6. WillLook => WillLook'
    BY <1>4, <2>5 DEF Complete, WillLook, RetentionThreads
  <2>7. dropping' = dropping
    BY <1>4 DEF Complete
  <2>8. NoLostExpiry'
    BY <2>3, <2>4, <2>5, <2>6, <2>7 DEF NoLostExpiry
  <2> QED BY <2>1, <2>2, <2>8
<1>5. ASSUME NEW i \in Item, NEW c \in Caller, Detach(i, c) PROVE IInv'
  <2>1. CsTypeOK'
    BY <1>5 DEF CsTypeOK, Detach, RetentionThreads, CallerPc, Deadlines
  <2>2. OneWorker'
    BY <1>5 DEF CsTypeOK, Detach, RetentionThreads, OneWorker, Alive, Starting
  <2>3. citem'[c] = i /\ cpc'[c] = "arm"
    BY <1>5 DEF CsTypeOK, Detach
  <2>4. \A j \in Item : Pending(j)' => Pending(j)
    BY <1>5 DEF CsTypeOK, Detach, Pending
  <2>5. \A d \in Caller : cpc[d] # "idle" => cpc'[d] = cpc[d] /\ citem'[d] = citem[d]
    BY <1>5 DEF CsTypeOK, Detach
  <2>6. WillLook => WillLook'
    BY <1>5, <2>5 DEF Detach, WillLook, RetentionThreads
  <2>7. dropping' = dropping
    BY <1>5 DEF Detach
  <2>8. NoLostExpiry'
    BY <2>3, <2>4, <2>5, <2>6, <2>7 DEF NoLostExpiry
  <2> QED BY <2>1, <2>2, <2>8
<1>6. ASSUME NEW c \in Caller, Arm(c) PROVE IInv'
  <2> DEFINE i == citem[c]
  <2>0. i \in Item /\ citem' = citem /\ dropping' = dropping
    BY <1>6 DEF CsTypeOK, Arm
  <2>1. CsTypeOK'
    BY <1>6 DEF CsTypeOK, Arm, RetentionThreads, CallerPc, Deadlines
  <2>2. OneWorker'
    BY <1>6 DEF CsTypeOK, Arm, RetentionThreads, OneWorker, Alive, Starting
  <2>3. Pending(i)' => cpc'[c] = "wake"
    BY <1>6, <2>0 DEF CsTypeOK, Arm, Pending
  <2>4. \A j \in Item \ {i} : Pending(j)' => Pending(j)
    BY <1>6, <2>0 DEF CsTypeOK, Arm, Pending
  <2>5. \A d \in Caller \ {c} : cpc'[d] = cpc[d]
    BY <1>6 DEF CsTypeOK, Arm
  <2>6. WillLook => WillLook'
    BY <1>6, <2>5 DEF Arm, WillLook, RetentionThreads
  <2>7. ASSUME NEW j \in Item \ {i}, Pending(j)'
        PROVE  \/ dropping' \/ WillLook'
               \/ \E d \in Caller : citem'[d] = j /\ cpc'[d] \in {"arm", "wake"}
    BY <2>0, <2>4, <2>5, <2>6, <2>7 DEF NoLostExpiry
  <2>8. NoLostExpiry'
    BY <2>0, <2>3, <2>7 DEF NoLostExpiry
  <2> QED BY <2>1, <2>2, <2>8
<1>7. ASSUME NEW c \in Caller, WakeOrStart(c) PROVE IInv'
  <2>1. CsTypeOK'
    BY <1>7 DEF CsTypeOK, WakeOrStart, Jobs, CallerPc
  <2>2. OneWorker'
    <3>1. Alive' = Alive
      BY <1>7 DEF WakeOrStart, Alive
    <3>2. CASE running
      <4>1. Starting' = Starting
        BY <1>7, <3>2 DEF CsTypeOK, WakeOrStart, Starting
      <4> QED BY <1>7, <3>1, <3>2, <4>1 DEF WakeOrStart, OneWorker
    <3>3. CASE ~running
      <4>1. Starting' = {c} /\ Alive = {}
        BY <1>7, <3>3 DEF CsTypeOK, WakeOrStart, Starting, OneWorker
      <4> QED BY <1>7, <3>1, <4>1 DEF WakeOrStart, OneWorker
    <3> QED BY <3>2, <3>3
  <2>3. WillLook'
    <3>1. running'
      BY <1>7 DEF WakeOrStart
    <3>2. Alive' \cup Starting' # {}
      BY <2>2, <3>1 DEF OneWorker
    <3>3. \A w \in Worker : stale'[w] /\ wpc'[w] \in WorkerPc
      BY <1>7, <2>1 DEF WakeOrStart, CsTypeOK
    <3> QED BY <3>2, <3>3 DEF WillLook, Alive, Starting, WorkerPc
  <2> QED BY <2>1, <2>2, <2>3 DEF NoLostExpiry
<1>8. ASSUME NEW c \in Caller, Spawn(c) PROVE IInv'
  <2>0. running /\ Starting = {c} /\ Alive = {}
    BY <1>8 DEF Spawn, OneWorker, Starting
  <2>1. CASE \E w \in Worker : /\ wpc[w] = "none"
                               /\ wpc' = [wpc EXCEPT ![w] = "top"]
                               /\ cpc' = [cpc EXCEPT ![c] = "idle"]
    <3> PICK w \in Worker : /\ wpc[w] = "none"
                            /\ wpc' = [wpc EXCEPT ![w] = "top"]
                            /\ cpc' = [cpc EXCEPT ![c] = "idle"]
      BY <2>1
    <3>1. CsTypeOK'
      BY <1>8 DEF CsTypeOK, Spawn, Jobs, CallerPc, WorkerPc
    <3>2. Alive' = {w} /\ Starting' = {}
      BY <2>0 DEF CsTypeOK, Alive, Starting
    <3>3. running' = running
      BY <1>8 DEF Spawn
    <3>4. wpc'[w] = "top"
      BY DEF CsTypeOK
    <3>5. OneWorker'
      BY <2>0, <3>2, <3>3 DEF OneWorker
    <3>6. WillLook'
      BY <3>4 DEF WillLook
    <3> QED BY <3>1, <3>5, <3>6 DEF NoLostExpiry
  <2>2. CASE cpc' = [cpc EXCEPT ![c] = "failed"] /\ UNCHANGED wpc
    <3>1. CsTypeOK'
      BY <1>8, <2>2 DEF CsTypeOK, Spawn, Jobs, CallerPc
    <3>2. cpc'[c] = "failed" /\ running' = running
      BY <1>8, <2>2 DEF CsTypeOK, Spawn
    <3>3. Alive' = Alive /\ Starting' = Starting
      BY <1>8, <2>2 DEF CsTypeOK, Spawn, Alive, Starting
    <3>4. OneWorker'
      BY <3>2, <3>3 DEF OneWorker
    <3> QED BY <3>1, <3>2, <3>4 DEF NoLostExpiry, WillLook
  <2> QED BY <1>8, <2>1, <2>2 DEF Spawn
<1>9. ASSUME NEW c \in Caller, SpawnFailed(c) PROVE IInv'
  <2>0. Starting = {c} /\ Alive = {}
    BY <1>9 DEF SpawnFailed, OneWorker, Starting
  <2>1. CsTypeOK'
    BY <1>9 DEF CsTypeOK, SpawnFailed, Jobs, RetentionThreads, CallerPc
  <2>2. Alive' = {} /\ Starting' = {}
    BY <1>9, <2>0 DEF CsTypeOK, SpawnFailed, RetentionThreads, Alive, Starting
  <2>3. OneWorker'
    BY <1>9, <2>2 DEF OneWorker, SpawnFailed
  <2>4. cpc'[c] = "force"
    BY <1>9 DEF CsTypeOK, SpawnFailed
  <2> QED BY <2>1, <2>3, <2>4 DEF NoLostExpiry, WillLook
<1>10. ASSUME NEW c \in Caller, ForcedSweep(c) PROVE IInv'
  <2>1. CsTypeOK'
    BY <1>10, SweepShape DEF CsTypeOK, ForcedSweep, RetentionThreads, CallerPc
  <2>2. OneWorker'
    BY <1>10 DEF CsTypeOK, ForcedSweep, RetentionThreads, OneWorker, Alive, Starting
  <2>3. \A i \in Item : ~Pending(i)'
    BY <1>10, SweepShape DEF ForcedSweep
  <2> QED BY <2>1, <2>2, <2>3 DEF NoLostExpiry
<1>11. ASSUME NEW w \in Worker, Observe(w) PROVE IInv'
  <2>0. Alive = {w} /\ Starting = {} /\ running
    BY <1>11 DEF Observe, OneWorker, Alive
  <2>1. CsTypeOK'
    BY <1>11 DEF CsTypeOK, Observe, Exit, Jobs, Callers, WorkerPc
  <2>2. CASE dropping
    <3>1. Alive' = {} /\ Starting' = {} /\ ~running'
      BY <1>11, <2>0, <2>2 DEF CsTypeOK, Observe, Exit, Callers, Alive, Starting
    <3>2. OneWorker'
      BY <3>1 DEF OneWorker
    <3>3. dropping'
      BY <1>11, <2>2 DEF Observe
    <3> QED BY <2>1, <3>2, <3>3 DEF NoLostExpiry
  <2>3. CASE ~dropping
    <3>1. Alive' = Alive /\ Starting' = Starting /\ running' = running
      BY <1>11, <2>3 DEF CsTypeOK, Observe, Callers, Alive, Starting
    <3>2. OneWorker'
      BY <3>1 DEF OneWorker
    <3>3. wpc'[w] = "sweep"
      BY <1>11, <2>3 DEF CsTypeOK, Observe
    <3> QED BY <2>1, <3>2, <3>3 DEF NoLostExpiry, WillLook
  <2> QED BY <2>2, <2>3
<1>12. ASSUME NEW w \in Worker, SweepStep(w) PROVE IInv'
  <2>1. CASE dropping
    <3>0. Alive = {w} /\ Starting = {}
      BY <1>12 DEF SweepStep, OneWorker, Alive
    <3>1. CsTypeOK'
      BY <1>12, <2>1 DEF CsTypeOK, SweepStep, Exit, Jobs, Callers, WorkerPc
    <3>2. Alive' = {} /\ Starting' = {} /\ ~running'
      BY <1>12, <2>1, <3>0 DEF CsTypeOK, SweepStep, Exit, Callers, Alive, Starting
    <3>3. OneWorker'
      BY <3>2 DEF OneWorker
    <3>4. dropping'
      BY <1>12, <2>1 DEF SweepStep
    <3> QED BY <3>1, <3>3, <3>4 DEF NoLostExpiry
  <2>2. CASE ~dropping
    <3>1. CsTypeOK'
      BY <1>12, <2>2, SweepShape DEF CsTypeOK, SweepStep, Callers, WorkerPc
    <3>2. Alive' = Alive /\ Starting' = Starting /\ running' = running
      BY <1>12, <2>2 DEF CsTypeOK, SweepStep, Callers, Alive, Starting
    <3>3. OneWorker'
      BY <3>2 DEF OneWorker
    <3>4. wpc'[w] = "check"
          /\ next'[w] = \E i \in Item : /\ Pending(i) /\ ~attached[i]
                                         /\ deadline[i] = "armed"
      BY <1>12, <2>2 DEF CsTypeOK, SweepStep
    <3>5. \A i \in Item : Pending(i)' => next'[w]
      BY <1>12, <2>2, <3>4, SweepShape DEF SweepStep
    <3>6. \A i \in Item : Pending(i)' => WillLook'
      BY <3>4, <3>5 DEF WillLook
    <3> QED BY <3>1, <3>3, <3>6 DEF NoLostExpiry
  <2> QED BY <2>1, <2>2
<1>13. ASSUME NEW w \in Worker, Check(w) PROVE IInv'
  <2>0. Alive = {w} /\ Starting = {} /\ running
    BY <1>13 DEF Check, OneWorker, Alive
  <2>1. CsTypeOK'
    BY <1>13 DEF CsTypeOK, Check, Exit, Jobs, Callers, WorkerPc
  <2>2. CASE dropping
    <3>1. Alive' = {} /\ Starting' = {} /\ ~running'
      BY <1>13, <2>0, <2>2 DEF CsTypeOK, Check, Exit, Callers, Alive, Starting
    <3>2. OneWorker'
      BY <3>1 DEF OneWorker
    <3>3. dropping'
      BY <1>13, <2>2 DEF Check
    <3> QED BY <2>1, <3>2, <3>3 DEF NoLostExpiry
  <2>3. CASE ~dropping /\ ~stale[w] /\ ~next[w]
    <3>1. Alive' = {} /\ Starting' = {} /\ ~running'
      BY <1>13, <2>0, <2>3 DEF CsTypeOK, Check, Exit, Callers, Alive, Starting
    <3>2. OneWorker'
      BY <3>1 DEF OneWorker
    <3>3. \A v \in Worker : v # w => wpc[v] = "none"
      BY <2>0 DEF Alive
    <3>4. WillLook => \E c \in Caller : cpc[c] = "force"
      BY <1>13, <2>0, <2>3, <3>3 DEF WillLook, Check, Starting
    <3>5. UNCHANGED <<cpc, citem>> /\ \A i \in Item : Pending(i)' => Pending(i)
      BY <1>13 DEF Check, Callers, Jobs, Pending
    <3>6. WillLook => WillLook'
      BY <3>4, <3>5 DEF WillLook
    <3>7. NoLostExpiry'
      BY <2>3, <3>5, <3>6 DEF NoLostExpiry
    <3> QED BY <2>1, <3>2, <3>7
  <2>4. CASE ~dropping /\ (stale[w] \/ next[w])
    <3>1. wpc'[w] \in {"top", "wait"}
      BY <1>13, <2>4 DEF CsTypeOK, Check
    <3>2. Alive' = Alive /\ Starting' = Starting /\ running' = running
      BY <1>13, <2>4 DEF CsTypeOK, Check, Callers, Alive, Starting
    <3>3. OneWorker'
      BY <3>2 DEF OneWorker
    <3> QED BY <2>1, <3>1, <3>3 DEF NoLostExpiry, WillLook
  <2> QED BY <2>2, <2>3, <2>4
<1>14. ASSUME NEW w \in Worker, WaitEnds(w) PROVE IInv'
  <2>1. CsTypeOK'
    BY <1>14 DEF CsTypeOK, WaitEnds, Jobs, Callers, WorkerPc
  <2>2. Alive' = Alive /\ Starting' = Starting /\ running' = running
    BY <1>14 DEF CsTypeOK, WaitEnds, Callers, Alive, Starting
  <2>3. OneWorker'
    BY <2>2 DEF OneWorker
  <2>4. wpc'[w] = "top"
    BY <1>14 DEF CsTypeOK, WaitEnds
  <2> QED BY <2>1, <2>3, <2>4 DEF NoLostExpiry, WillLook
<1>15. ASSUME Shutdown PROVE IInv'
  <2>1. CsTypeOK'
    BY <1>15, SweepShape DEF CsTypeOK, Shutdown, Callers
  <2>2. Alive' = Alive /\ Starting' = Starting /\ running' = running
    BY <1>15 DEF Shutdown, Callers, Alive, Starting
  <2>3. OneWorker'
    BY <2>2 DEF OneWorker
  <2>4. dropping'
    BY <1>15 DEF Shutdown
  <2> QED BY <2>1, <2>3, <2>4 DEF NoLostExpiry
<1>16. ASSUME UNCHANGED csVars PROVE IInv'
  <2>1. CsTypeOK'
    BY <1>16 DEF csVars, CsTypeOK
  <2>2. \A i \in Item : Pending(i)' => Pending(i)
    BY <1>16 DEF csVars, Pending
  <2> QED BY <1>16, <2>1, <2>2, QuietStep DEF csVars, Callers, RetentionThreads
<1> QED
  BY <1>1, <1>2, <1>3, <1>4, <1>5, <1>6, <1>7, <1>8, <1>9, <1>10, <1>11, <1>12,
     <1>13, <1>14, <1>15, <1>16 DEF CsNext, CallerStep, WorkerStep

\* The scheduler's invariant holds in every state it can reach.
THEOREM Invariance == CsSpec => []IInv
BY InitInv, NextInv, PTL DEF CsSpec

\* The state keeps its type.
THEOREM TypeCorrect == CsSpec => []CsTypeOK
<1>1. IInv => CsTypeOK
  BY DEF IInv
<1> QED BY <1>1, Invariance, PTL

\* wake_or_start never runs two retention threads, and worker_running never
\* outlives the one it stands for.
THEOREM SingleThread == CsSpec => []OneWorker
<1>1. IInv => OneWorker
  BY DEF IInv
<1> QED BY <1>1, Invariance, PTL

\* The generation recheck of run and the forced sweep of a failed start lose
\* no expiry, for any number of jobs, callers and threads.
THEOREM NoLostWakeup == CsSpec => []NoLostExpiry
<1>1. IInv => NoLostExpiry
  BY DEF IInv
<1> QED BY <1>1, Invariance, PTL

\* For any number of jobs and callers the scheduler watches every expiry with
\* one thread.
THEOREM EveryExpiryWatched == CsSpec => []ExpiryWatched
<1>1. OneWorker /\ NoLostExpiry => ExpiryWatched
  BY DEF ExpiryWatched
<1> QED BY <1>1, SingleThread, NoLostWakeup, PTL

-----------------------------------------------------------------------------
(* The cache.  Reserved says who holds a name and who has an output,       *)
(* Evicting what an eviction may count on, Gated who maintains the cache,  *)
(* Kept which files are there, and Known for which the inventory is right. *)

Finals == {Final(d) : d \in TcDests}
Entry == [bytes : Int, used : Int]
AtCandidate == {"stale", "admit", "admitting", "open", "register"}
AtReserve == {"look"} \cup AtCandidate
AtGate == {"admitting", "publishing", "rename"}
AtPublish == {"publish", "publishing", "rename"}
AtWrite == AtPublish \cup {"growing", "failing", "cleaned"}
AtJob == AtWrite \cup {"retired", "complete"}
Places == {"idle", "done"} \cup AtReserve \cup AtJob
Phases == {"none", "retired", "discover", "active", "decide", "evict", "guard", "unlink"}
Checks == {"none", "pending", "answered", "failed"}
Acts == [pc : Places, dest : TcDests \cup {TcNone}, fresh : BOOLEAN, cancelled : BOOLEAN,
         check : Checks, n : Int]
RunFields == {"pc", "requested", "active", "sweep", "pressure", "short", "cands", "refreshed",
              "second", "cur", "passed"}
Directory(F) == DOMAIN F \subseteq TcFiles /\ \A f \in DOMAIN F : F[f] \in Entry

ActsTyped ==
  /\ tcReserved \in [TcDests -> TcJobs \cup {TcNone, "evict"}]
  /\ tcJobs \subseteq TcJobs /\ tcAct \in [TcJobs -> Acts]
FilesTyped ==
  /\ tcNow \in Int /\ Directory(tcDisk) /\ Directory(tcInv.entries)
  /\ DOMAIN tcInv = {"entries", "fresh"} /\ tcInv.fresh \in BOOLEAN
RunTyped ==
  /\ tcGate \in TcJobs \cup {TcNone, "worker"}
  /\ DOMAIN tcRun = RunFields /\ tcRun.pc \in Phases
  /\ \A c \in tcRun.cands \cup tcRun.refreshed : c[1] \in Finals
  /\ tcRun.pc \in {"guard", "unlink"} => Cur \in Finals
MonTyped ==
  /\ DOMAIN tcMon = {"queue", "retired", "reconcile"}
  /\ tcMon.retired \subseteq TcFiles /\ tcMon.reconcile \in BOOLEAN
TypeOK == ActsTyped /\ FilesTyped /\ RunTyped /\ MonTyped

\* A name is reserved until its output is registered, and then it has one job.
Reserved ==
  /\ \A j \in TcJobs :
       /\ tcAct[j].pc # "idle" => tcAct[j].dest \in TcDests
       /\ tcAct[j].pc \in AtReserve => tcReserved[tcAct[j].dest] = j
       /\ tcAct[j].pc \in AtCandidate => ~Owned(tcAct[j].dest)
       /\ j \in tcJobs <=> tcAct[j].pc \in AtJob
  /\ \A j, k \in tcJobs : j # k => tcAct[j].dest # tcAct[k].dest

Evicting ==
  /\ tcRun.pc \in {"guard", "unlink"} => tcReserved[Cur[1]] = "evict"
  /\ tcRun.pc = "unlink" => ~Owned(Cur[1])

\* One attempt is at the gate's places, the one that holds it.
Gated ==
  /\ \A j \in TcJobs : tcAct[j].pc \in AtGate <=> tcGate = j
  /\ tcRun.pc = "none" <=> tcGate = TcNone \/ (tcGate \in TcJobs /\ tcAct[tcGate].pc = "rename")

Kept ==
  \A j \in TcJobs :
    /\ Relies(j) => Final(tcAct[j].dest) \in DOMAIN tcDisk
    /\ tcAct[j].pc \in {"idle", "look", "stale"} => ~tcAct[j].fresh
    /\ tcAct[j].pc \in AtPublish => Part(tcAct[j].dest) \in DOMAIN tcDisk

\* The inventory is right about every file but those a sweep, a retirement or
\* the job that writes them will have looked at again.
Agrees(f) ==
  /\ f \in DOMAIN tcInv.entries <=> f \in DOMAIN tcDisk
  /\ f \in DOMAIN tcDisk => tcInv.entries[f].bytes = tcDisk[f].bytes
InWork(d) == \E j \in TcJobs : tcAct[j].dest = d /\ tcAct[j].pc \in AtWrite
Known ==
  tcInv.fresh /\ ~tcMon.reconcile =>
    \A f \in TcFiles \ tcMon.retired : ~InWork(f[1]) => Agrees(f)

TcInv == TypeOK /\ Reserved /\ Evicting /\ Gated /\ Kept /\ Known

--------------------------------------------------------------------------------
LEMMA InitHolds ==
  ASSUME TcInit
  PROVE  TcInv
<1>1. tcAct \in [TcJobs -> Acts] /\ \A j \in TcJobs : tcAct[j].pc = "idle" /\ tcAct[j].fresh = FALSE
  <2>1. TcIdle \in Acts
    BY DEF TcIdle, Acts, Places, Checks
  <2>2. TcIdle.pc = "idle" /\ TcIdle.fresh = FALSE
    BY DEF TcIdle
  <2>3. tcAct = [j \in TcJobs |-> TcIdle]
    BY DEF TcInit
  <2> QED BY <2>1, <2>2, <2>3
<1>2. ActsTyped
  BY <1>1 DEF TcInit, ActsTyped
<1>3. FilesTyped
  <2>1. PICK D \in SUBSET {Final(d) : d \in TcDests} : tcDisk \in [D -> [bytes : 1 .. TcSize, used : 0 .. 1]]
    BY DEF TcInit
  <2>2. Directory(tcDisk)
    <3>1. \A d \in TcDests : Final(d) \in TcFiles
      BY DEF Final, TcFiles
    <3> QED BY <2>1, <3>1 DEF Directory, Entry
  <2>3. tcInv.entries = [f \in {} |-> TcNone] /\ DOMAIN tcInv = {"entries", "fresh"} /\ tcInv.fresh = FALSE
    BY DEF TcInit
  <2>4. Directory(tcInv.entries)
    BY <2>3 DEF Directory
  <2> QED BY <2>2, <2>3, <2>4 DEF FilesTyped, TcInit
<1>4. RunTyped
  <2>1. tcRun = NoRun /\ tcGate = TcNone
    BY DEF TcInit
  <2>2. /\ DOMAIN NoRun = RunFields /\ NoRun.pc = "none" /\ NoRun.cands = {} /\ NoRun.refreshed = {}
    BY DEF NoRun, RunFields
  <2> QED BY <2>1, <2>2 DEF RunTyped, Phases
<1>5. MonTyped
  BY DEF TcInit, MonTyped
<1>6. tcJobs = {} /\ tcRun.pc = "none" /\ tcGate = TcNone /\ tcInv.fresh = FALSE
  BY DEF TcInit, NoRun
<1>7. Reserved
  BY <1>1, <1>6 DEF Reserved, AtReserve, AtCandidate, AtJob, AtWrite, AtPublish
<1>8. Evicting
  BY <1>6 DEF Evicting
<1>9. Gated
  <2>1. \A j \in TcJobs : tcGate # j
    BY <1>6, TcAssumption
  <2> QED BY <1>1, <1>6, <2>1 DEF Gated, AtGate
<1>10. Kept
  BY <1>1 DEF Kept, Relies, AtPublish
<1>11. Known
  BY <1>6 DEF Known
<1> QED BY <1>2, <1>3, <1>4, <1>5, <1>7, <1>8, <1>9, <1>10, <1>11, Zenon DEF TcInv, TypeOK

--------------------------------------------------------------------------------
(* What a step of one attempt does to the attempts.                           *)

Others(j) == \A k \in TcJobs \ {j} : tcAct'[k] = tcAct[k]
\* The attempt itself goes from p to q with the same output.
Moves(j, p, q) ==
  /\ tcAct' \in [TcJobs -> Acts] /\ Others(j)
  /\ tcAct[j].pc = p /\ tcAct'[j].pc = q
  /\ tcAct'[j].dest = tcAct[j].dest

LEMMA GoesMoves ==
  ASSUME TypeOK, NEW j \in TcJobs, NEW q \in Places, Goes(j, q)
  PROVE  Moves(j, tcAct[j].pc, q) /\ tcAct'[j].fresh = tcAct[j].fresh
<1>1. tcAct \in [TcJobs -> Acts] /\ tcAct' = [tcAct EXCEPT ![j].pc = q]
  BY DEF TypeOK, ActsTyped, Goes
<1>2. tcAct[j] \in Acts
  BY <1>1
<1>3. PICK a : a = [tcAct[j] EXCEPT !.pc = q]
  OBVIOUS
<1>4. a \in Acts /\ a.pc = q /\ a.dest = tcAct[j].dest /\ a.fresh = tcAct[j].fresh
  BY <1>2, <1>3 DEF Acts
<1>5. tcAct' = [tcAct EXCEPT ![j] = a]
  BY <1>1, <1>3, Zenon
<1> QED BY <1>1, <1>4, <1>5 DEF Moves, Others

\* The same with the check of the attempt given up.
LEMMA GivesUpMoves ==
  ASSUME TypeOK, NEW j \in TcJobs, NEW q \in Places,
         tcAct' = [tcAct EXCEPT ![j].pc = q, ![j].check = "none"]
  PROVE  Moves(j, tcAct[j].pc, q)
<1>1. tcAct \in [TcJobs -> Acts]
  BY DEF TypeOK, ActsTyped
<1>2. tcAct[j] \in Acts
  BY <1>1
<1>3. PICK a : a = [tcAct[j] EXCEPT !.pc = q, !.check = "none"]
  OBVIOUS
<1>4. a \in Acts /\ a.pc = q /\ a.dest = tcAct[j].dest /\ a.fresh = tcAct[j].fresh
  BY <1>2, <1>3 DEF Acts, Checks
<1>5. tcAct' = [tcAct EXCEPT ![j] = a]
  BY <1>1, <1>2, <1>3
<1> QED BY <1>1, <1>4, <1>5 DEF Moves, Others

\* Nobody moves.
Rest ==
  /\ tcAct' \in [TcJobs -> Acts]
  /\ \A k \in TcJobs : /\ tcAct'[k].pc = tcAct[k].pc /\ tcAct'[k].dest = tcAct[k].dest
                       /\ tcAct'[k].fresh = tcAct[k].fresh

--------------------------------------------------------------------------------
(* Reservations and jobs.                                                     *)

\* An attempt moves without taking or giving back anything.
LEMMA MoveReserves ==
  ASSUME TypeOK, Reserved, NEW j \in TcJobs, NEW p, NEW q, Moves(j, p, q),
         UNCHANGED <<tcReserved, tcJobs>>,
         p # "idle", q \in AtReserve => p \in AtReserve,
         q \in AtCandidate => p \in AtCandidate \/ ~Owned(tcAct[j].dest),
         q \in AtJob <=> p \in AtJob
  PROVE  ActsTyped' /\ Reserved' /\ \A d : Owned(d)' <=> Owned(d)
<1>1. /\ tcAct[j].pc = p /\ tcAct'[j].pc = q /\ tcAct'[j].dest = tcAct[j].dest
      /\ \A k \in TcJobs : tcAct'[k].dest = tcAct[k].dest /\ (k # j => tcAct'[k].pc = tcAct[k].pc)
  BY DEF Moves, Others
<1>2. tcJobs \subseteq TcJobs
  BY DEF TypeOK, ActsTyped
<1>3. \A d : Owned(d)' <=> Owned(d)
  BY <1>1, <1>2 DEF Owned
<1>4. ActsTyped'
  BY DEF TypeOK, ActsTyped, Moves
<1>5. ASSUME NEW k \in TcJobs
      PROVE  /\ tcAct'[k].pc # "idle" => tcAct'[k].dest \in TcDests
             /\ tcAct'[k].pc \in AtReserve => tcReserved'[tcAct'[k].dest] = k
             /\ tcAct'[k].pc \in AtCandidate => ~Owned(tcAct[k].dest)
             /\ k \in tcJobs' <=> tcAct'[k].pc \in AtJob
  <2>1. CASE k = j
    BY <1>1, <2>1 DEF Reserved
  <2>2. CASE k # j
    BY <1>1, <2>2 DEF Reserved
  <2> QED BY <2>1, <2>2
<1>6. \A k, l \in tcJobs' : k # l => tcAct'[k].dest # tcAct'[l].dest
  BY <1>1, <1>2 DEF Reserved
<1>7. \A k \in TcJobs : tcAct'[k].pc \in AtCandidate => ~Owned(tcAct[k].dest)'
  BY <1>1, <1>3, <1>5
<1> QED BY <1>3, <1>4, <1>5, <1>6, <1>7 DEF Reserved

LEMMA RestReserves ==
  ASSUME TypeOK, Reserved, Rest, UNCHANGED <<tcReserved, tcJobs>>
  PROVE  ActsTyped' /\ Reserved' /\ \A d : Owned(d)' <=> Owned(d)
<1>1. tcJobs \subseteq TcJobs
  BY DEF TypeOK, ActsTyped
<1>2. \A d : Owned(d)' <=> Owned(d)
  BY <1>1 DEF Owned, Rest
<1>3. ActsTyped'
  BY DEF TypeOK, ActsTyped, Rest
<1>4. \A k, l \in tcJobs' : k # l => tcAct'[k].dest # tcAct'[l].dest
  BY <1>1 DEF Reserved, Rest
<1>5. \A k \in TcJobs : tcAct'[k].pc \in AtCandidate => ~Owned(tcAct[k].dest)'
  BY <1>2 DEF Reserved, Rest
<1> QED BY <1>2, <1>3, <1>4, <1>5 DEF Reserved, Rest

\* The run goes on as it was, or ends.
RunStays == tcRun' = tcRun \/ tcRun'.pc \notin {"guard", "unlink"}

LEMMA MoveEvicts ==
  ASSUME Evicting, RunStays, UNCHANGED tcReserved, \A d : Owned(d)' => Owned(d)
  PROVE  Evicting'
<1>1. CASE tcRun' = tcRun
  <2>1. Cur' = Cur /\ tcRun'.pc = tcRun.pc
    BY <1>1 DEF Cur
  <2>2. tcRun.pc = "unlink" => ~Owned(Cur[1])'
    BY <2>1 DEF Evicting
  <2> QED BY <2>1, <2>2 DEF Evicting
<1>2. CASE tcRun'.pc \notin {"guard", "unlink"}
  BY <1>2 DEF Evicting
<1> QED BY <1>1, <1>2 DEF RunStays

\* An attempt takes, gives back or turns into a job the name it has reserved:
\* not the name an eviction holds.
LEMMA OwnNameEvicts ==
  ASSUME Evicting, RunStays, NEW e, tcReserved[e] # "evict",
         \A d : d # e => tcReserved'[d] = tcReserved[d] /\ (Owned(d)' => Owned(d))
  PROVE  Evicting'
<1>1. CASE tcRun' = tcRun
  <2>1. Cur' = Cur /\ tcRun'.pc = tcRun.pc
    BY <1>1 DEF Cur
  <2>2. tcRun.pc \in {"guard", "unlink"} => Cur[1] # e
    BY DEF Evicting
  <2>3. PICK c : c = Cur[1]
    OBVIOUS
  <2>4. tcRun.pc \in {"guard", "unlink"} => tcReserved'[c] = tcReserved[c] /\ (Owned(c)' => Owned(c))
    BY <2>2, <2>3
  <2>5. Cur'[1] = c
    BY <2>1, <2>3
  <2>6. tcRun'.pc = "unlink" => ~Owned(Cur[1])'
    BY <2>1, <2>3, <2>4, <2>5 DEF Evicting
  <2> QED BY <2>1, <2>3, <2>4, <2>5, <2>6 DEF Evicting
<1>2. CASE tcRun'.pc \notin {"guard", "unlink"}
  BY <1>2 DEF Evicting
<1> QED BY <1>1, <1>2 DEF RunStays

LEMMA RegisterReserves ==
  ASSUME TypeOK, Reserved, NEW j \in TcJobs, NEW p, NEW q, Moves(j, p, q),
         p \in {"open", "register"}, q \in AtJob, tcJobs' = tcJobs \cup {j}, Release(j)
  PROVE  /\ ActsTyped' /\ Reserved' /\ tcReserved[tcAct[j].dest] # "evict"
         /\ \A d : d # tcAct[j].dest => tcReserved'[d] = tcReserved[d] /\ (Owned(d)' => Owned(d))
<1> DEFINE e == tcAct[j].dest
<1>1. /\ tcAct[j].pc = p /\ tcAct'[j].pc = q /\ tcAct'[j].dest = e
      /\ \A k \in TcJobs : tcAct'[k].dest = tcAct[k].dest /\ (k # j => tcAct'[k].pc = tcAct[k].pc)
  BY DEF Moves, Others
<1>2. /\ tcJobs \subseteq TcJobs /\ p \in AtCandidate /\ p \in AtReserve /\ p # "idle" /\ e \in TcDests
      /\ tcReserved \in [TcDests -> TcJobs \cup {TcNone, "evict"}]
  BY <1>1 DEF TypeOK, ActsTyped, AtCandidate, AtReserve, Reserved
<1>3. tcReserved[e] = j /\ ~Owned(e) /\ tcReserved' = [tcReserved EXCEPT ![e] = TcNone]
  BY <1>1, <1>2 DEF Reserved, Release
<1>4. \A d : Owned(d)' <=> Owned(d) \/ d = e
  BY <1>1, <1>2 DEF Owned
<1>5. ActsTyped'
  BY <1>2, <1>3 DEF TypeOK, ActsTyped, Moves
<1>6. \A d : d # e => tcReserved'[d] = tcReserved[d]
  BY <1>2, <1>3
<1>7. q \notin AtReserve /\ q \notin AtCandidate
  BY DEF AtReserve, AtCandidate, AtJob, AtWrite, AtPublish
<1>8. ASSUME NEW k \in TcJobs
      PROVE  /\ tcAct'[k].pc # "idle" => tcAct'[k].dest \in TcDests
             /\ tcAct'[k].pc \in AtReserve => tcReserved'[tcAct'[k].dest] = k
             /\ tcAct'[k].pc \in AtCandidate => ~Owned(tcAct[k].dest)'
             /\ k \in tcJobs' <=> tcAct'[k].pc \in AtJob
  <2>1. CASE k = j
    BY <1>1, <1>2, <1>7, <2>1
  <2>2. CASE k # j
    <3>1. tcAct[k].pc \in AtReserve => tcAct[k].dest # e
      BY <1>3, <2>2 DEF Reserved
    <3>2. AtCandidate \subseteq AtReserve
      BY DEF AtReserve
    <3>3. tcAct'[k].pc \in AtCandidate => ~Owned(tcAct'[k].dest) /\ tcAct'[k].dest # e
      BY <1>1, <2>2, <3>1, <3>2 DEF Reserved
    <3>4. tcAct'[k].pc \in AtCandidate => ~Owned(tcAct[k].dest)'
      BY <1>1, <1>4, <3>3
    <3> QED BY <1>1, <1>6, <2>2, <3>1, <3>4 DEF Reserved
  <2> QED BY <2>1, <2>2
<1>9. \A k, l \in tcJobs' : k # l => tcAct'[k].dest # tcAct'[l].dest
  BY <1>1, <1>2, <1>3 DEF Reserved, Owned
<1>10. tcReserved[e] # "evict"
  BY <1>3, TcAssumption
<1> QED BY <1>4, <1>5, <1>6, <1>8, <1>9, <1>10 DEF Reserved

LEMMA ReleaseReserves ==
  ASSUME TypeOK, Reserved, NEW j \in TcJobs, NEW p, Moves(j, p, "done"),
         p \in AtReserve, tcJobs' = tcJobs, Release(j)
  PROVE  /\ ActsTyped' /\ Reserved' /\ tcReserved[tcAct[j].dest] # "evict"
         /\ \A d : d # tcAct[j].dest => tcReserved'[d] = tcReserved[d] /\ (Owned(d)' => Owned(d))
<1> DEFINE e == tcAct[j].dest
<1>1. /\ tcAct[j].pc = p /\ tcAct'[j].pc = "done" /\ tcAct'[j].dest = e
      /\ \A k \in TcJobs : tcAct'[k].dest = tcAct[k].dest /\ (k # j => tcAct'[k].pc = tcAct[k].pc)
  BY DEF Moves, Others
<1>2. /\ tcJobs \subseteq TcJobs /\ p # "idle" /\ p \notin AtJob /\ e \in TcDests
      /\ tcReserved \in [TcDests -> TcJobs \cup {TcNone, "evict"}]
  BY <1>1 DEF TypeOK, ActsTyped, AtCandidate, AtReserve, AtJob, AtWrite, AtPublish, Reserved
<1>3. tcReserved[e] = j /\ tcReserved' = [tcReserved EXCEPT ![e] = TcNone]
  BY <1>1, <1>2 DEF Reserved, Release
<1>4. \A d : Owned(d)' <=> Owned(d)
  BY <1>1, <1>2 DEF Owned
<1>5. ActsTyped'
  BY <1>2, <1>3 DEF TypeOK, ActsTyped, Moves
<1>6. \A d : d # e => tcReserved'[d] = tcReserved[d]
  BY <1>2, <1>3
<1>7. "done" \notin AtReserve /\ "done" \notin AtCandidate /\ "done" \notin AtJob
  BY DEF AtReserve, AtCandidate, AtJob, AtWrite, AtPublish
<1>8. ASSUME NEW k \in TcJobs
      PROVE  /\ tcAct'[k].pc # "idle" => tcAct'[k].dest \in TcDests
             /\ tcAct'[k].pc \in AtReserve => tcReserved'[tcAct'[k].dest] = k
             /\ tcAct'[k].pc \in AtCandidate => ~Owned(tcAct[k].dest)'
             /\ k \in tcJobs' <=> tcAct'[k].pc \in AtJob
  <2>1. CASE k = j
    BY <1>1, <1>2, <1>7, <2>1 DEF Reserved
  <2>2. CASE k # j
    <3>1. tcAct[k].pc \in AtReserve => tcAct[k].dest # e
      BY <1>3, <2>2 DEF Reserved
    <3>2. tcAct'[k].pc \in AtCandidate => ~Owned(tcAct[k].dest)'
      BY <1>1, <1>4, <2>2 DEF Reserved
    <3> QED BY <1>1, <1>6, <2>2, <3>1, <3>2 DEF Reserved
  <2> QED BY <2>1, <2>2
<1>9. \A k, l \in tcJobs' : k # l => tcAct'[k].dest # tcAct'[l].dest
  BY <1>1, <1>2 DEF Reserved
<1>10. tcReserved[e] # "evict"
  BY <1>3, TcAssumption
<1> QED BY <1>4, <1>5, <1>6, <1>8, <1>9, <1>10 DEF Reserved

\* finish_job: the job leaves, and its name is free.
LEMMA FinishReserves ==
  ASSUME TypeOK, Reserved, NEW j \in TcJobs, NEW p, Moves(j, p, "done"),
         p \in AtJob, tcJobs' = tcJobs \ {j}, UNCHANGED tcReserved
  PROVE  ActsTyped' /\ Reserved' /\ \A d : Owned(d)' => Owned(d)
<1>1. /\ tcAct[j].pc = p /\ tcAct'[j].pc = "done" /\ tcAct'[j].dest = tcAct[j].dest
      /\ \A k \in TcJobs : tcAct'[k].dest = tcAct[k].dest /\ (k # j => tcAct'[k].pc = tcAct[k].pc)
  BY DEF Moves, Others
<1>2. tcJobs \subseteq TcJobs /\ p # "idle"
  BY DEF TypeOK, ActsTyped, AtJob, AtWrite, AtPublish
<1>3. \A d : Owned(d)' => Owned(d)
  BY <1>1, <1>2 DEF Owned
<1>4. ActsTyped'
  BY <1>2 DEF TypeOK, ActsTyped, Moves
<1>5. "done" \notin AtReserve /\ "done" \notin AtCandidate /\ "done" \notin AtJob
  BY DEF AtReserve, AtCandidate, AtJob, AtWrite, AtPublish
<1>6. ASSUME NEW k \in TcJobs
      PROVE  /\ tcAct'[k].pc # "idle" => tcAct'[k].dest \in TcDests
             /\ tcAct'[k].pc \in AtReserve => tcReserved'[tcAct'[k].dest] = k
             /\ tcAct'[k].pc \in AtCandidate => ~Owned(tcAct[k].dest)'
             /\ k \in tcJobs' <=> tcAct'[k].pc \in AtJob
  <2>1. CASE k = j
    BY <1>1, <1>2, <1>5, <2>1 DEF Reserved
  <2>2. CASE k # j
    BY <1>1, <1>3, <2>2 DEF Reserved
  <2> QED BY <2>1, <2>2
<1>7. \A k, l \in tcJobs' : k # l => tcAct'[k].dest # tcAct'[l].dest
  BY <1>1, <1>2 DEF Reserved
<1> QED BY <1>3, <1>4, <1>6, <1>7 DEF Reserved

\* reserve: a free name is taken by an attempt that has none.
LEMMA TakeReserves ==
  ASSUME TypeOK, Reserved, NEW j \in TcJobs, NEW d \in TcDests, reserve(j, d)
  PROVE  /\ ActsTyped' /\ Reserved' /\ tcReserved[d] # "evict"
         /\ \A e : e # d => tcReserved'[e] = tcReserved[e] /\ (Owned(e)' => Owned(e))
         /\ Others(j) /\ tcAct'[j].pc = "look" /\ tcAct'[j].fresh = tcAct[j].fresh
<1>1. /\ tcJobs \subseteq TcJobs /\ tcAct \in [TcJobs -> Acts]
      /\ tcReserved \in [TcDests -> TcJobs \cup {TcNone, "evict"}]
  BY DEF TypeOK, ActsTyped
<1>2. /\ tcAct[j].pc = "idle" /\ tcReserved[d] = TcNone /\ tcReserved' = [tcReserved EXCEPT ![d] = j]
      /\ tcJobs' = tcJobs
  BY DEF reserve
<1>3. PICK a : a = [tcAct[j] EXCEPT !.pc = "look", !.dest = d]
  OBVIOUS
<1>4. a \in Acts /\ a.pc = "look" /\ a.dest = d /\ a.fresh = tcAct[j].fresh
  BY <1>1, <1>3 DEF Acts, Places, AtReserve
<1>5. tcAct' = [tcAct EXCEPT ![j] = a]
  BY <1>1, <1>3 DEF reserve
<1>6. tcAct' \in [TcJobs -> Acts] /\ tcAct'[j] = a /\ Others(j)
  BY <1>1, <1>4, <1>5 DEF Others
<1>7. j \notin tcJobs
  BY <1>2 DEF Reserved, AtJob, AtWrite, AtPublish
<1>8. \A e : Owned(e)' <=> Owned(e)
  BY <1>1, <1>2, <1>6, <1>7 DEF Owned, Others
<1>9. ActsTyped'
  BY <1>1, <1>2, <1>6 DEF ActsTyped
<1>10. \A e : e # d => tcReserved'[e] = tcReserved[e]
  BY <1>1, <1>2
<1>11. "look" \in AtReserve /\ "look" \notin AtCandidate /\ "look" \notin AtJob
  BY DEF AtReserve, AtCandidate, AtJob, AtWrite, AtPublish
<1>12. ASSUME NEW k \in TcJobs
       PROVE  /\ tcAct'[k].pc # "idle" => tcAct'[k].dest \in TcDests
              /\ tcAct'[k].pc \in AtReserve => tcReserved'[tcAct'[k].dest] = k
              /\ tcAct'[k].pc \in AtCandidate => ~Owned(tcAct[k].dest)'
              /\ k \in tcJobs' <=> tcAct'[k].pc \in AtJob
  <2>1. CASE k = j
    BY <1>1, <1>2, <1>4, <1>6, <1>7, <1>11, <2>1
  <2>2. CASE k # j
    <3>1. tcAct'[k] = tcAct[k]
      BY <1>6, <2>2 DEF Others
    <3>2. tcAct[k].pc \in AtReserve => tcAct[k].dest # d
      BY <1>2, TcAssumption DEF Reserved
    <3> QED BY <1>2, <1>8, <1>10, <3>1, <3>2 DEF Reserved
  <2> QED BY <2>1, <2>2
<1>13. \A k, l \in tcJobs' : k # l => tcAct'[k].dest # tcAct'[l].dest
  BY <1>1, <1>2, <1>6, <1>7 DEF Reserved, Others
<1>14. tcReserved[d] # "evict"
  BY <1>2 DEF TcNone
<1> QED BY <1>4, <1>6, <1>8, <1>9, <1>10, <1>12, <1>13, <1>14 DEF Reserved

\* An eviction takes a free name, or gives back the one it holds.
LEMMA EvictionReserves ==
  ASSUME TypeOK, Reserved, NEW e \in TcDests, NEW v \in {TcNone, "evict"},
         tcReserved[e] \in {TcNone, "evict"}, tcReserved' = [tcReserved EXCEPT ![e] = v],
         UNCHANGED <<tcAct, tcJobs>>
  PROVE  ActsTyped' /\ Reserved' /\ \A d : Owned(d)' <=> Owned(d)
<1>1. /\ tcJobs \subseteq TcJobs /\ tcAct \in [TcJobs -> Acts]
      /\ tcReserved \in [TcDests -> TcJobs \cup {TcNone, "evict"}]
  BY DEF TypeOK, ActsTyped
<1>2. \A d : Owned(d)' <=> Owned(d)
  BY DEF Owned
<1>3. ActsTyped'
  BY <1>1 DEF ActsTyped
<1>4. \A k \in TcJobs : tcAct[k].pc \in AtReserve => tcReserved'[tcAct[k].dest] = k
  BY <1>1, TcAssumption DEF Reserved
<1>5. \A k \in TcJobs : tcAct'[k].pc \in AtCandidate => ~Owned(tcAct[k].dest)'
  BY <1>2 DEF Reserved
<1> QED BY <1>2, <1>3, <1>4, <1>5 DEF Reserved

--------------------------------------------------------------------------------
(* The gate.                                                                  *)

\* An attempt moves elsewhere.
LEMMA MoveGates ==
  ASSUME Gated, NEW j \in TcJobs, Others(j), tcAct[j].pc \notin AtGate, tcAct'[j].pc \notin AtGate,
         tcGate' = tcGate, tcRun' = tcRun
  PROVE  Gated'
<1>1. tcGate # j
  BY DEF Gated
<1>2. \A k \in TcJobs : tcAct'[k].pc \in AtGate <=> tcGate = k
  BY DEF Gated, Others
<1>3. tcGate \in TcJobs => tcAct'[tcGate] = tcAct[tcGate]
  BY <1>1 DEF Others
<1> QED BY <1>2, <1>3 DEF Gated

LEMMA RestGates ==
  ASSUME Gated, Rest, tcGate' = tcGate, tcRun'.pc = "none" <=> tcRun.pc = "none"
  PROVE  Gated'
<1>1. \A k \in TcJobs : tcAct'[k].pc = tcAct[k].pc
  BY DEF Rest
<1> QED BY <1>1 DEF Gated

\* A free gate is taken: by an attempt, or by the worker.
LEMMA LockGates ==
  ASSUME Gated, NEW j \in TcJobs, Others(j), tcGate = TcNone, tcGate' = j,
         tcAct'[j].pc \in {"admitting", "publishing"}, tcRun'.pc = "retired"
  PROVE  Gated'
<1>1. \A k \in TcJobs : tcGate # k
  BY TcAssumption
<1>2. \A k \in TcJobs : tcAct'[k].pc \in AtGate <=> k = j
  BY <1>1 DEF Gated, Others, AtGate
<1>3. j # TcNone
  BY TcAssumption
<1> QED BY <1>2, <1>3 DEF Gated

LEMMA WorkerLocks ==
  ASSUME Gated, tcAct' = tcAct, tcGate = TcNone, tcGate' = "worker", tcRun'.pc = "retired"
  PROVE  Gated'
<1>1. \A k \in TcJobs : tcGate # k /\ tcGate' # k
  BY TcAssumption
<1>2. tcGate' # TcNone
  BY DEF TcNone
<1> QED BY <1>1, <1>2 DEF Gated

\* Whoever holds it lets it go, nothing being maintained any more.
LEMMA UnlockGates ==
  ASSUME Gated, NEW j \in TcJobs, Others(j), tcGate = j, tcGate' = TcNone,
         tcAct'[j].pc \notin AtGate, tcRun'.pc = "none"
  PROVE  Gated'
<1>1. \A k \in TcJobs : TcNone # k
  BY TcAssumption
<1>2. \A k \in TcJobs : tcAct'[k].pc \notin AtGate
  BY DEF Gated, Others
<1> QED BY <1>1, <1>2 DEF Gated

LEMMA WorkerUnlocks ==
  ASSUME Gated, tcAct' = tcAct, tcGate = "worker", tcGate' = TcNone, tcRun'.pc = "none"
  PROVE  Gated'
<1>1. \A k \in TcJobs : tcGate # k /\ tcGate' # k
  BY TcAssumption
<1> QED BY <1>1 DEF Gated

\* A publication keeps it until it has renamed its output.
LEMMA RenameGates ==
  ASSUME Gated, NEW j \in TcJobs, Others(j), tcGate = j, tcGate' = tcGate,
         tcAct'[j].pc = "rename", tcRun'.pc = "none"
  PROVE  Gated'
<1>1. \A k \in TcJobs : tcAct'[k].pc \in AtGate <=> tcGate = k
  BY DEF Gated, Others, AtGate
<1> QED BY <1>1 DEF Gated

--------------------------------------------------------------------------------
(* The files that are relied on.                                              *)

\* What Kept says of one attempt.
Holds(j) ==
  /\ Relies(j) => Final(tcAct[j].dest) \in DOMAIN tcDisk
  /\ tcAct[j].pc \in {"idle", "look", "stale"} => ~tcAct[j].fresh
  /\ tcAct[j].pc \in AtPublish => Part(tcAct[j].dest) \in DOMAIN tcDisk
Own(d) == {Final(d), Part(d)}

LEMMA OwnFiles ==
  /\ \A d \in TcDests : Final(d) \in TcFiles /\ Part(d) \in TcFiles
  /\ \A d, e : Final(d) # Part(e) /\ (d # e => Own(d) \cap Own(e) = {})
  /\ \A d : Final(d)[1] = d /\ Part(d)[1] = d
  /\ \A f \in TcFiles : f[1] \in TcDests /\ f \in Own(f[1])
<1>1. \A d \in TcDests : Final(d) \in TcFiles /\ Part(d) \in TcFiles
  BY DEF Final, Part, TcFiles
<1>2. \A d, e : Final(d) # Part(e) /\ (d # e => Own(d) \cap Own(e) = {})
  BY DEF Final, Part, Own
<1>3. \A d : Final(d)[1] = d /\ Part(d)[1] = d
  BY DEF Final, Part
<1>4. \A f \in TcFiles : f[1] \in TcDests /\ f \in Own(f[1])
  BY DEF Final, Part, TcFiles, Own
<1> QED BY <1>1, <1>2, <1>3, <1>4

\* An output belongs to one attempt at most.
LEMMA Alone ==
  ASSUME TypeOK, Reserved, NEW j \in TcJobs, NEW k \in TcJobs, j # k,
         tcAct[j].pc \in AtCandidate \cup AtJob, tcAct[k].pc \in AtCandidate \cup AtJob
  PROVE  tcAct[j].dest # tcAct[k].dest
<1>1. AtCandidate \subseteq AtReserve
  BY DEF AtReserve
<1>2. CASE tcAct[j].pc \in AtCandidate /\ tcAct[k].pc \in AtCandidate
  BY <1>1, <1>2 DEF Reserved
<1>3. CASE tcAct[j].pc \in AtCandidate /\ tcAct[k].pc \in AtJob
  BY <1>3 DEF Reserved, Owned
<1>4. CASE tcAct[j].pc \in AtJob /\ tcAct[k].pc \in AtCandidate
  BY <1>4 DEF Reserved, Owned
<1>5. CASE tcAct[j].pc \in AtJob /\ tcAct[k].pc \in AtJob
  BY <1>5 DEF Reserved
<1> QED BY <1>2, <1>3, <1>4, <1>5

\* An attempt that removes files removes its own.
LEMMA MoveKeeps ==
  ASSUME TypeOK, Reserved, Kept, NEW j \in TcJobs, Others(j), Holds(j)',
         \/ DOMAIN tcDisk \subseteq DOMAIN tcDisk'
         \/ /\ tcAct[j].pc \in AtCandidate \cup AtJob
            /\ DOMAIN tcDisk \subseteq DOMAIN tcDisk' \cup Own(tcAct[j].dest)
  PROVE  Kept'
<1>1. ASSUME NEW k \in TcJobs \ {j}
      PROVE  Holds(k)'
  <2>1. tcAct'[k] = tcAct[k]
    BY DEF Others
  <2>2. Relies(k)' <=> Relies(k)
    BY <2>1 DEF Relies
  <2>3. Relies(k) \/ tcAct[k].pc \in AtPublish => tcAct[k].pc \in AtCandidate \cup AtJob
    BY DEF Relies, AtCandidate, AtJob, AtWrite
  <2>4. PICK d, e : d = tcAct[k].dest /\ e = tcAct[j].dest
    OBVIOUS
  <2>5. Relies(k) \/ tcAct[k].pc \in AtPublish =>
          DOMAIN tcDisk \subseteq DOMAIN tcDisk' \/ (d # e /\ DOMAIN tcDisk \subseteq DOMAIN tcDisk' \cup Own(e))
    BY <2>3, <2>4, Alone
  <2>6. d # e => Final(d) \notin Own(e) /\ Part(d) \notin Own(e)
    BY OwnFiles DEF Own
  <2>7. /\ Relies(k) => Final(d) \in DOMAIN tcDisk
        /\ tcAct[k].pc \in {"idle", "look", "stale"} => ~tcAct[k].fresh
        /\ tcAct[k].pc \in AtPublish => Part(d) \in DOMAIN tcDisk
    BY <2>4 DEF Kept
  <2> QED BY <2>1, <2>2, <2>4, <2>5, <2>6, <2>7 DEF Holds
<1> QED BY <1>1 DEF Kept, Holds

LEMMA RestKeeps ==
  ASSUME Kept, Rest, DOMAIN tcDisk \subseteq DOMAIN tcDisk'
  PROVE  Kept'
<1>1. \A k \in TcJobs : Relies(k)' <=> Relies(k)
  BY DEF Rest, Relies
<1> QED BY <1>1 DEF Kept, Rest

--------------------------------------------------------------------------------
(* What the directory and the inventory hold.                                 *)

LEMMA Dropped ==
  ASSUME NEW F, NEW S
  PROVE  /\ DOMAIN Drop(F, S) = DOMAIN F \ S
         /\ \A f \in DOMAIN F \ S : Drop(F, S)[f] = F[f]
         /\ Directory(F) => Directory(Drop(F, S))
<1>1. DOMAIN Drop(F, S) = DOMAIN F \ S /\ \A f \in DOMAIN F \ S : Drop(F, S)[f] = F[f]
  BY DEF Drop, Restrict
<1> QED BY <1>1 DEF Directory

LEMMA IsReread ==
  ASSUME NEW F, NEW S
  PROVE  /\ DOMAIN Reread(F, S) = (DOMAIN F \ S) \cup (DOMAIN tcDisk \cap S)
         /\ \A f \in DOMAIN tcDisk \cap S : Reread(F, S)[f] = tcDisk[f]
         /\ \A f \in DOMAIN F \ S : Reread(F, S)[f] = F[f]
         /\ Directory(F) /\ Directory(tcDisk) => Directory(Reread(F, S))
<1>1. /\ DOMAIN Reread(F, S) = (DOMAIN F \ S) \cup (DOMAIN tcDisk \cap S)
      /\ \A f \in DOMAIN tcDisk \cap S : Reread(F, S)[f] = tcDisk[f]
      /\ \A f \in DOMAIN F \ S : Reread(F, S)[f] = F[f]
  BY DEF Reread
<1> QED BY <1>1 DEF Directory

\* A file that is there is touched.
LEMMA Touched ==
  ASSUME TypeOK, NEW f \in DOMAIN tcDisk, tcDisk' = [tcDisk EXCEPT ![f].used = tcNow]
  PROVE  /\ Directory(tcDisk)' /\ DOMAIN tcDisk' = DOMAIN tcDisk
         /\ \A g \in DOMAIN tcDisk : tcDisk'[g].bytes = tcDisk[g].bytes
<1>1. Directory(tcDisk) /\ tcNow \in Int /\ tcDisk[f] \in Entry
  BY DEF TypeOK, FilesTyped, Directory
<1>2. PICK e : e = [tcDisk[f] EXCEPT !.used = tcNow]
  OBVIOUS
<1>3. e \in Entry /\ e.bytes = tcDisk[f].bytes
  BY <1>1, <1>2 DEF Entry
<1>4. tcDisk' = [tcDisk EXCEPT ![f] = e]
  BY <1>2
<1>5. DOMAIN tcDisk' = DOMAIN tcDisk /\ \A g \in DOMAIN tcDisk : tcDisk'[g] = IF g = f THEN e ELSE tcDisk[g]
  BY <1>4
<1> QED BY <1>1, <1>3, <1>5 DEF Directory

--------------------------------------------------------------------------------
(* What the inventory is right about.                                         *)

LEMMA StillKnown ==
  ASSUME Known, tcInv'.fresh => tcInv.fresh, tcMon'.retired = tcMon.retired,
         tcMon'.reconcile = tcMon.reconcile,
         \A f \in TcFiles : \/ InWork(f[1])' \/ Agrees(f)'
                            \/ ~InWork(f[1]) /\ (Agrees(f) => Agrees(f)')
  PROVE  Known'
BY DEF Known

\* Nothing changes for a file that is not written now.
LEMMA SameAgrees ==
  ASSUME tcInv' = tcInv, NEW f, f \in DOMAIN tcDisk' <=> f \in DOMAIN tcDisk,
         f \in DOMAIN tcDisk => tcDisk'[f].bytes = tcDisk[f].bytes
  PROVE  Agrees(f) => Agrees(f)'
BY DEF Agrees

LEMMA RereadAgrees ==
  ASSUME tcDisk' = tcDisk, NEW S, tcInv'.entries = Reread(tcInv.entries, S)
  PROVE  \A f : (f \in S \/ Agrees(f)) => Agrees(f)'
<1>1. PICK F, G : F = tcInv.entries /\ G = tcInv'.entries
  OBVIOUS
<1>2. /\ DOMAIN Reread(F, S) = (DOMAIN F \ S) \cup (DOMAIN tcDisk \cap S)
      /\ \A f \in DOMAIN tcDisk \cap S : Reread(F, S)[f] = tcDisk[f]
      /\ \A f \in DOMAIN F \ S : Reread(F, S)[f] = F[f]
  BY DEF Reread
<1>3. G = Reread(F, S)
  BY <1>1
<1>4. /\ DOMAIN G = (DOMAIN F \ S) \cup (DOMAIN tcDisk \cap S)
      /\ \A f \in DOMAIN tcDisk \cap S : G[f] = tcDisk[f]
      /\ \A f \in DOMAIN F \ S : G[f] = F[f]
  BY <1>2, <1>3
<1> QED BY <1>1, <1>4 DEF Agrees

LEMMA DropAgrees ==
  ASSUME NEW S, tcDisk' = Drop(tcDisk, S), tcInv'.entries = Drop(tcInv.entries, S)
  PROVE  \A f : Agrees(f) => Agrees(f)'
<1>1. PICK F, G : F = tcInv.entries /\ G = tcInv'.entries
  OBVIOUS
<1>2. DOMAIN Drop(F, S) = DOMAIN F \ S /\ \A f \in DOMAIN F \ S : Drop(F, S)[f] = F[f]
  BY Dropped
<1>3. G = Drop(F, S)
  BY <1>1
<1>4. DOMAIN G = DOMAIN F \ S /\ \A f \in DOMAIN F \ S : G[f] = F[f]
  BY <1>2, <1>3
<1>5. DOMAIN tcDisk' = DOMAIN tcDisk \ S /\ \A f \in DOMAIN tcDisk \ S : tcDisk'[f] = tcDisk[f]
  BY Dropped
<1> QED BY <1>1, <1>4, <1>5 DEF Agrees

\* Which outputs are being written once one attempt has moved.
LEMMA MoveWorks ==
  ASSUME NEW j \in TcJobs, NEW p, NEW q, Moves(j, p, q)
  PROVE  /\ \A d : d # tcAct[j].dest => (InWork(d)' <=> InWork(d))
         /\ \A d : d = tcAct[j].dest /\ q \in AtWrite => InWork(d)'
         /\ (p \in AtWrite => q \in AtWrite) => \A d : InWork(d) => InWork(d)'
<1>1. /\ tcAct[j].pc = p /\ tcAct'[j].pc = q /\ tcAct'[j].dest = tcAct[j].dest
      /\ \A k \in TcJobs : tcAct'[k].dest = tcAct[k].dest /\ (k # j => tcAct'[k].pc = tcAct[k].pc)
  BY DEF Moves, Others
<1> QED BY <1>1 DEF InWork

LEMMA RestWorks ==
  ASSUME Rest
  PROVE  \A d : InWork(d)' <=> InWork(d)
BY DEF Rest, InWork

--------------------------------------------------------------------------------
(* The rest of the types.                                                     *)

LEMMA RunRests ==
  ASSUME RunTyped, UNCHANGED <<tcGate, tcRun>>
  PROVE  RunTyped'
BY DEF RunTyped, Cur

\* A run that chooses nothing is as well typed as its fields.
LEMMA RunStarts ==
  ASSUME \/ tcRun' = [NoRun EXCEPT !.pc = "retired"]
         \/ \E R : tcRun' = [NoRun EXCEPT !.pc = "retired", !.requested = R],
         tcGate' \in TcJobs \cup {TcNone, "worker"}
  PROVE  RunTyped' /\ tcRun'.pc = "retired"
BY DEF RunTyped, NoRun, RunFields, Phases

LEMMA RunStops ==
  ASSUME tcRun' = NoRun, tcGate' \in TcJobs \cup {TcNone, "worker"}
  PROVE  RunTyped' /\ tcRun'.pc = "none"
BY DEF RunTyped, NoRun, RunFields, Phases

--------------------------------------------------------------------------------
(* Steps of an attempt.                                                       *)

\* What is retired, and whether everything is to be looked at, stays.
MonStays ==
  MonTyped => MonTyped' /\ tcMon'.retired = tcMon.retired /\ tcMon'.reconcile = tcMon.reconcile

\* Of the directory only the files of one attempt that writes them change.
Writes(j) ==
  /\ tcAct[j].pc \in AtWrite /\ tcAct'[j].pc \in AtWrite
  /\ \A f \in TcFiles \ Own(tcAct[j].dest) :
       /\ f \in DOMAIN tcDisk' <=> f \in DOMAIN tcDisk
       /\ f \in DOMAIN tcDisk => tcDisk'[f] = tcDisk[f]

\* It goes on, away from the gate, with what it has reserved or registered.
LEMMA MoveHolds ==
  ASSUME TcInv, NEW j \in TcJobs, NEW p, NEW q, Moves(j, p, q),
         UNCHANGED <<tcReserved, tcJobs, cacheVars>>, MonStays, FilesTyped',
         tcDisk' = tcDisk \/ Writes(j), Holds(j)',
         p \notin AtGate \cup {"idle"}, q \notin AtGate, q \in AtReserve => p \in AtReserve,
         q \in AtCandidate => p \in AtCandidate \/ ~Owned(tcAct[j].dest),
         q \in AtJob <=> p \in AtJob, p \in AtWrite => q \in AtWrite
  PROVE  TcInv'
<1> USE DEF TcInv
<1>1. tcAct[j].pc = p /\ tcAct'[j].pc = q /\ Others(j)
  BY DEF Moves
<1>2. ActsTyped' /\ Reserved' /\ \A d : Owned(d)' <=> Owned(d)
  BY MoveReserves
<1>3. RunTyped' /\ MonTyped' /\ tcMon'.retired = tcMon.retired /\ tcMon'.reconcile = tcMon.reconcile
  <2>1. RunTyped'
    BY RunRests DEF TypeOK, cacheVars
  <2> QED BY <2>1 DEF TypeOK, MonStays
<1>4. Evicting'
  <2>1. RunStays
    BY DEF RunStays, cacheVars
  <2> QED BY <1>2, <2>1, MoveEvicts
<1>5. Gated'
  BY <1>1, MoveGates DEF cacheVars
<1>6. Kept'
  <2>1. CASE tcDisk' = tcDisk
    BY <1>1, <2>1, MoveKeeps
  <2>2. CASE Writes(j)
    <3>1. tcAct[j].pc \in AtCandidate \cup AtJob
      BY <2>2 DEF Writes, AtJob
    <3>2. DOMAIN tcDisk \subseteq TcFiles
      BY DEF TypeOK, FilesTyped, Directory
    <3>3. DOMAIN tcDisk \subseteq DOMAIN tcDisk' \cup Own(tcAct[j].dest)
      BY <2>2, <3>2 DEF Writes
    <3> QED BY <1>1, <3>1, <3>3, MoveKeeps
  <2> QED BY <2>1, <2>2
<1>7. Known'
  <2>1. \A d : InWork(d) => InWork(d)'
    BY MoveWorks
  <2>2. ASSUME NEW f \in TcFiles
        PROVE  InWork(f[1])' \/ (~InWork(f[1]) /\ (Agrees(f) => Agrees(f)'))
    <3>1. tcInv' = tcInv
      BY DEF cacheVars
    <3>2. CASE tcDisk' = tcDisk
      <4>1. Agrees(f) => Agrees(f)'
        BY <3>1, <3>2, SameAgrees
      <4> QED BY <2>1, <4>1
    <3>3. CASE Writes(j) /\ f[1] = tcAct[j].dest
      <4>1. PICK d : d = tcAct[j].dest
        OBVIOUS
      <4>2. InWork(d)'
        BY <1>1, <3>3, <4>1, MoveWorks DEF Writes
      <4> QED BY <3>3, <4>1, <4>2
    <3>4. CASE Writes(j) /\ f[1] # tcAct[j].dest
      <4>1. PICK d : d = tcAct[j].dest
        OBVIOUS
      <4>2. f \notin Own(d)
        BY <3>4, <4>1, OwnFiles DEF Own
      <4>3. /\ f \in DOMAIN tcDisk' <=> f \in DOMAIN tcDisk
            /\ f \in DOMAIN tcDisk => tcDisk'[f] = tcDisk[f]
        BY <3>4, <4>1, <4>2 DEF Writes
      <4>4. Agrees(f) => Agrees(f)'
        BY <3>1, <4>3, SameAgrees
      <4> QED BY <2>1, <4>4
    <3> QED BY <3>2, <3>3, <3>4
  <2>3. tcInv'.fresh => tcInv.fresh
    BY DEF cacheVars
  <2> QED BY <1>3, <2>2, <2>3, StillKnown
<1> QED BY <1>2, <1>3, <1>4, <1>5, <1>6, <1>7, Zenon DEF TypeOK

\* Nobody moves, and the cache is left alone.
LEMMA RestHolds ==
  ASSUME TcInv, Rest, UNCHANGED <<tcReserved, tcJobs>>, RunStays, RunTyped', MonStays, FilesTyped',
         tcGate' = tcGate, tcRun'.pc = "none" <=> tcRun.pc = "none",
         DOMAIN tcDisk' = DOMAIN tcDisk,
         \A f \in DOMAIN tcDisk : tcDisk'[f].bytes = tcDisk[f].bytes,
         tcInv'.entries = tcInv.entries, tcInv'.fresh => tcInv.fresh
  PROVE  TcInv'
<1> USE DEF TcInv
<1>1. ActsTyped' /\ Reserved' /\ \A d : Owned(d)' <=> Owned(d)
  BY RestReserves
<1>2. MonTyped' /\ tcMon'.retired = tcMon.retired /\ tcMon'.reconcile = tcMon.reconcile
  BY DEF TypeOK, MonStays
<1>3. Evicting'
  BY <1>1, MoveEvicts
<1>4. Gated'
  BY RestGates
<1>5. Kept'
  BY RestKeeps
<1>6. Known'
  <2>1. \A f : Agrees(f) => Agrees(f)'
    BY DEF Agrees
  <2> QED BY <1>2, <2>1, RestWorks, StillKnown
<1> QED BY <1>1, <1>2, <1>3, <1>4, <1>5, <1>6, Zenon DEF TypeOK

LEMMA MonRests ==
  ASSUME tcMon' = tcMon \/ \E q : tcMon' = [tcMon EXCEPT !.queue = q]
  PROVE  MonStays
<1>1. CASE tcMon' = tcMon
  BY <1>1 DEF MonStays, MonTyped
<1>2. CASE \E q : tcMon' = [tcMon EXCEPT !.queue = q]
  <2>1. MonTyped => /\ DOMAIN tcMon' = {"queue", "retired", "reconcile"}
                    /\ tcMon'.retired = tcMon.retired /\ tcMon'.reconcile = tcMon.reconcile
    BY <1>2 DEF MonTyped
  <2> QED BY <2>1 DEF MonStays, MonTyped
<1> QED BY <1>1, <1>2

LEMMA FilesRest ==
  ASSUME TcInv, UNCHANGED <<tcNow, tcDisk, tcInv>>
  PROVE  FilesTyped'
<1>1. FilesTyped
  BY DEF TcInv, TypeOK
<1> QED BY <1>1 DEF FilesTyped, Directory

\* Only the own intermediate goes.
LEMMA PartDropped ==
  ASSUME TcInv, NEW j \in TcJobs, NEW d, d = tcAct[j].dest, tcDisk' = Drop(tcDisk, {Part(d)}),
         UNCHANGED <<tcNow, tcInv>>, tcAct[j].pc \in AtWrite, tcAct'[j].pc \in AtWrite
  PROVE  Writes(j) /\ FilesTyped'
<1>1. FilesTyped
  BY DEF TcInv, TypeOK
<1>2. /\ DOMAIN tcDisk' = DOMAIN tcDisk \ {Part(d)}
      /\ \A f \in DOMAIN tcDisk \ {Part(d)} : tcDisk'[f] = tcDisk[f]
      /\ Directory(tcDisk) => Directory(tcDisk)'
  <2>1. PICK G : G = Drop(tcDisk, {Part(d)})
    OBVIOUS
  <2>2. /\ DOMAIN G = DOMAIN tcDisk \ {Part(d)}
        /\ \A f \in DOMAIN tcDisk \ {Part(d)} : G[f] = tcDisk[f]
    BY <2>1 DEF Drop, Restrict
  <2> QED BY <2>1, <2>2 DEF Directory
<1>3. Part(d) \in Own(d)
  BY DEF Own
<1> QED BY <1>1, <1>2, <1>3 DEF Writes, FilesTyped, Directory

LEMMA LookHolds ==
  ASSUME TcInv, NEW j \in TcJobs, Look(j)
  PROVE  TcInv'
<1>1. /\ tcAct[j].pc = "look" /\ ~Owned(tcAct[j].dest)
      /\ UNCHANGED <<tcNow, tcDisk, tcReserved, tcJobs, tcMon, cacheVars>>
  BY DEF Look
<1>2. PICK fresh \in IF Final(tcAct[j].dest) \in DOMAIN tcDisk THEN BOOLEAN ELSE {FALSE} :
        tcAct' = [tcAct EXCEPT ![j].fresh = fresh,
          ![j].pc = IF ~fresh /\ Final(tcAct[j].dest) \in DOMAIN tcDisk THEN "stale" ELSE "admit"]
  BY DEF Look
<1>3. PICK q : q = IF ~fresh /\ Final(tcAct[j].dest) \in DOMAIN tcDisk THEN "stale" ELSE "admit"
  OBVIOUS
<1>4. q \in {"stale", "admit"} /\ fresh \in BOOLEAN
  BY <1>2, <1>3
<1>5. tcAct \in [TcJobs -> Acts] /\ tcAct[j] \in Acts
  BY DEF TcInv, TypeOK, ActsTyped
<1>6. PICK a : a = [tcAct[j] EXCEPT !.fresh = fresh, !.pc = q]
  OBVIOUS
<1>7. a \in Acts /\ a.pc = q /\ a.dest = tcAct[j].dest /\ a.fresh = fresh
  BY <1>4, <1>5, <1>6 DEF Acts, Places, AtReserve, AtCandidate
<1>8. tcAct' = [tcAct EXCEPT ![j] = a]
  BY <1>2, <1>3, <1>5, <1>6
<1>9. Moves(j, "look", q) /\ tcAct'[j] = a
  BY <1>1, <1>5, <1>7, <1>8 DEF Moves, Others
<1>10. Holds(j)'
  BY <1>1, <1>2, <1>3, <1>4, <1>7, <1>9 DEF Holds, Relies, AtPublish
<1>11. /\ q \notin AtGate /\ q \notin AtJob /\ q \notin AtWrite
       /\ "look" \notin AtGate \cup {"idle"} /\ "look" \in AtReserve /\ "look" \notin AtJob
       /\ "look" \notin AtWrite
  BY <1>4 DEF AtGate, AtJob, AtWrite, AtPublish, AtReserve
<1> QED BY <1>1, <1>9, <1>10, <1>11, MoveHolds, MonRests, FilesRest DEF cacheVars

\* What a place means.
LEMMA WritePlaces ==
  ASSUME NEW p \in {"growing", "publish", "failing", "cleaned"}
  PROVE  /\ p \notin AtGate \cup {"idle"} /\ p \notin AtReserve /\ p \notin AtCandidate
         /\ p \in AtJob /\ p \in AtWrite /\ p \in Places
         /\ p \notin {"complete", "admit", "admitting", "open", "idle", "look", "stale"}
BY DEF AtGate, AtReserve, AtCandidate, AtJob, AtWrite, AtPublish, Places

\* A step of a job that writes, away from the gate.
LEMMA WriteHolds ==
  ASSUME TcInv, NEW j \in TcJobs, NEW p \in {"growing", "publish", "failing", "cleaned"},
         NEW q \in {"growing", "publish", "failing", "cleaned"}, Moves(j, p, q),
         UNCHANGED <<tcReserved, tcJobs, cacheVars>>, MonStays, FilesTyped',
         tcDisk' = tcDisk \/ Writes(j),
         NEW d, d = tcAct[j].dest, q = "publish" => Part(d) \in DOMAIN tcDisk'
  PROVE  TcInv'
<1>1. tcAct'[j].pc = q /\ tcAct'[j].dest = d
  BY DEF Moves
<1>2. Holds(j)'
  BY <1>1 DEF Holds, Relies, AtPublish
<1> QED BY <1>2, WritePlaces, MoveHolds

LEMMA WrittenHolds ==
  ASSUME TcInv, NEW j \in TcJobs, Written(j)
  PROVE  TcInv'
<1>1. /\ tcAct[j].pc = "growing" /\ Part(tcAct[j].dest) \in DOMAIN tcDisk
      /\ tcAct' = [tcAct EXCEPT ![j].pc = "publish", ![j].check = "none"]
      /\ UNCHANGED <<tcNow, tcDisk, tcReserved, tcJobs, tcMon, cacheVars>>
  BY DEF Written
<1>2. PICK d : d = tcAct[j].dest
  OBVIOUS
<1>3. Moves(j, "growing", "publish")
  BY <1>1, GivesUpMoves DEF TcInv, Places, AtJob, AtWrite, AtPublish
<1>4. FilesTyped' /\ MonStays
  BY <1>1, FilesRest, MonRests DEF cacheVars
<1> QED BY <1>1, <1>2, <1>3, <1>4, WriteHolds

LEMMA FailHolds ==
  ASSUME TcInv, NEW j \in TcJobs,
         tcAct[j].pc = "growing",
         tcAct' = [tcAct EXCEPT ![j].pc = "failing", ![j].check = "none"],
         UNCHANGED <<tcNow, tcDisk, tcReserved, tcJobs, cacheVars>>, MonStays
  PROVE  TcInv'
<1>1. Moves(j, "growing", "failing")
  BY GivesUpMoves DEF TcInv, Places, AtJob, AtWrite
<1>2. FilesTyped'
  BY FilesRest DEF cacheVars
<1>3. PICK d : d = tcAct[j].dest
  OBVIOUS
<1> QED BY <1>1, <1>2, <1>3, WriteHolds

LEMMA GiveUpHolds ==
  ASSUME TcInv, NEW j \in TcJobs, GiveUpPublication(j)
  PROVE  TcInv'
<1>1. /\ tcAct[j].pc = "publish" /\ Goes(j, "failing")
      /\ UNCHANGED <<tcNow, tcDisk, tcReserved, tcJobs, tcMon, cacheVars>>
  BY DEF GiveUpPublication
<1>2. Moves(j, "publish", "failing")
  BY <1>1, GoesMoves DEF TcInv, Places, AtJob, AtWrite
<1>3. FilesTyped' /\ MonStays
  BY <1>1, FilesRest, MonRests DEF cacheVars
<1>4. PICK d : d = tcAct[j].dest
  OBVIOUS
<1> QED BY <1>1, <1>2, <1>3, <1>4, WriteHolds

LEMMA CleanupHolds ==
  ASSUME TcInv, NEW j \in TcJobs, cleanup_intermediates(j)
  PROVE  TcInv'
<1>1. /\ tcAct[j].pc = "failing" /\ tcDisk' = Drop(tcDisk, {Part(tcAct[j].dest)}) /\ Goes(j, "cleaned")
      /\ UNCHANGED <<tcNow, tcReserved, tcJobs, tcMon, cacheVars>>
  BY DEF cleanup_intermediates
<1>2. Moves(j, "failing", "cleaned")
  BY <1>1, GoesMoves DEF TcInv, Places, AtJob, AtWrite
<1>3. PICK d : d = tcAct[j].dest
  OBVIOUS
<1>4. tcAct'[j].pc = "cleaned"
  BY <1>2 DEF Moves
<1>5. Writes(j) /\ FilesTyped'
  BY <1>1, <1>3, <1>4, PartDropped, WritePlaces DEF cacheVars
<1>6. MonStays
  BY <1>1, MonRests
<1> QED BY <1>1, <1>2, <1>3, <1>5, <1>6, WriteHolds

LEMMA RetryHolds ==
  ASSUME TcInv, NEW j \in TcJobs, Retry(j)
  PROVE  TcInv'
<1>1. /\ tcAct[j].pc = "growing" /\ tcDisk' = Drop(tcDisk, {Part(tcAct[j].dest)})
      /\ tcAct' = [tcAct EXCEPT ![j].check = "none"]
      /\ UNCHANGED <<tcNow, tcReserved, tcJobs, tcMon, cacheVars>>
  BY DEF Retry
<1>2. PICK a : a = [tcAct[j] EXCEPT !.check = "none"]
  OBVIOUS
<1>3. tcAct \in [TcJobs -> Acts] /\ tcAct[j] \in Acts
  BY DEF TcInv, TypeOK, ActsTyped
<1>4. a \in Acts /\ a.pc = "growing" /\ a.dest = tcAct[j].dest
  BY <1>1, <1>2, <1>3 DEF Acts, Checks
<1>5. tcAct' = [tcAct EXCEPT ![j] = a]
  BY <1>1, <1>2, Zenon
<1>6. Moves(j, "growing", "growing") /\ tcAct'[j].pc = "growing"
  BY <1>1, <1>3, <1>4, <1>5 DEF Moves, Others
<1>7. PICK d : d = tcAct[j].dest
  OBVIOUS
<1>8. Writes(j) /\ FilesTyped'
  BY <1>1, <1>6, <1>7, PartDropped, WritePlaces DEF cacheVars
<1>9. MonStays
  BY <1>1, MonRests
<1> QED BY <1>1, <1>6, <1>7, <1>8, <1>9, WriteHolds

LEMMA GrowHolds ==
  ASSUME TcInv, NEW j \in TcJobs, Grow(j)
  PROVE  TcInv'
<1>1. PICK d : d = tcAct[j].dest
  OBVIOUS
<1>2. PICK p : p = Part(d)
  OBVIOUS
<1>3. PICK had : had = IF p \in DOMAIN tcDisk THEN tcDisk[p].bytes ELSE 0
  OBVIOUS
<1>4. /\ tcAct[j].pc = "growing"
      /\ tcDisk' = [f \in DOMAIN tcDisk \cup {p} |->
                     IF f = p THEN [bytes |-> had + 1, used |-> tcNow] ELSE tcDisk[f]]
      /\ UNCHANGED <<tcNow, tcReserved, tcJobs, tcAct, tcMon, cacheVars>>
  BY <1>1, <1>2, <1>3 DEF Grow
<1>5. tcAct \in [TcJobs -> Acts] /\ FilesTyped
  BY DEF TcInv, TypeOK, ActsTyped
<1>6. Moves(j, "growing", "growing") /\ tcAct'[j].pc = "growing"
  BY <1>4, <1>5 DEF Moves, Others
<1>7. d \in TcDests
  BY <1>1, <1>4 DEF TcInv, Reserved
<1>8. p \in TcFiles /\ p \in Own(d) /\ had \in Int
  BY <1>2, <1>3, <1>5, <1>7, OwnFiles DEF Own, FilesTyped, Directory, Entry
<1>9. /\ DOMAIN tcDisk' = DOMAIN tcDisk \cup {p}
      /\ tcDisk'[p] = [bytes |-> had + 1, used |-> tcNow]
      /\ \A f \in DOMAIN tcDisk \ {p} : tcDisk'[f] = tcDisk[f]
  BY <1>4
<1>10. [bytes |-> had + 1, used |-> tcNow] \in Entry
  BY <1>5, <1>8 DEF FilesTyped, Entry
<1>11. Directory(tcDisk)'
  <2>1. \A f \in DOMAIN tcDisk' : tcDisk'[f] \in Entry
    BY <1>5, <1>9, <1>10 DEF FilesTyped, Directory
  <2> QED BY <1>5, <1>8, <1>9, <2>1 DEF FilesTyped, Directory
<1>12. FilesTyped'
  BY <1>4, <1>5, <1>11 DEF FilesTyped, Directory, cacheVars
<1>13. Writes(j)
  BY <1>1, <1>4, <1>6, <1>8, <1>9, WritePlaces DEF Writes
<1>14. MonStays
  BY <1>4, MonRests
<1> QED BY <1>1, <1>4, <1>6, <1>12, <1>13, <1>14, WriteHolds

--------------------------------------------------------------------------------
(* Steps that move nobody.                                                    *)

\* Only the attempts' checks, or that they are cancelled, change.
LEMMA Resting ==
  ASSUME TypeOK, tcAct' = tcAct \/ \E j \in TcJobs, a \in Acts :
            /\ tcAct' = [tcAct EXCEPT ![j] = a] /\ a.pc = tcAct[j].pc
            /\ a.dest = tcAct[j].dest /\ a.fresh = tcAct[j].fresh
  PROVE  Rest
BY DEF TypeOK, ActsTyped, Rest

LEMMA QuietHolds ==
  ASSUME TcInv, Rest, MonStays, UNCHANGED <<tcNow, tcDisk, tcReserved, tcJobs, cacheVars>>
  PROVE  TcInv'
<1>1. RunTyped'
  BY RunRests DEF TcInv, TypeOK, cacheVars
<1>2. FilesTyped'
  BY FilesRest DEF cacheVars
<1> QED BY <1>1, <1>2, RestHolds DEF RunStays, cacheVars

LEMMA PollHolds ==
  ASSUME TcInv, NEW j \in TcJobs, poll(j)
  PROVE  TcInv'
<1> DEFINE queue == SelectSeq(tcMon.queue, Waits)
<1>1. /\ tcAct[j].pc = "growing"
      /\ UNCHANGED <<tcNow, tcDisk, tcReserved, tcJobs, cacheVars>>
      /\ \/ /\ tcAct' = [tcAct EXCEPT ![j].pc = "failing", ![j].check = "none"]
            /\ tcMon' = tcMon \/ \E q : tcMon' = [tcMon EXCEPT !.queue = q]
         \/ /\ tcAct' = [tcAct EXCEPT ![j].check = "pending", ![j].n = tcAct[j].n + 1]
            /\ \E q : tcMon' = [tcMon EXCEPT !.queue = q]
  BY DEF poll
<1>2. MonStays
  BY <1>1, MonRests
<1>3. CASE tcAct' = [tcAct EXCEPT ![j].pc = "failing", ![j].check = "none"]
  BY <1>1, <1>2, <1>3, FailHolds
<1>4. CASE tcAct' = [tcAct EXCEPT ![j].check = "pending", ![j].n = tcAct[j].n + 1]
  <2>1. tcAct \in [TcJobs -> Acts] /\ tcAct[j] \in Acts
    BY DEF TcInv, TypeOK, ActsTyped
  <2>2. PICK n \in Int : n = tcAct[j].n + 1
    BY <2>1 DEF Acts
  <2>3. PICK a : a = [tcAct[j] EXCEPT !.check = "pending", !.n = n]
    OBVIOUS
  <2>4. a \in Acts /\ a.pc = tcAct[j].pc /\ a.dest = tcAct[j].dest /\ a.fresh = tcAct[j].fresh
    BY <2>1, <2>3 DEF Acts, Checks
  <2>5. tcAct' = [tcAct EXCEPT ![j] = a]
    BY <1>4, <2>1, <2>2, <2>3
  <2>6. Rest
    BY <2>4, <2>5, Resting DEF TcInv
  <2> QED BY <1>1, <1>2, <2>6, QuietHolds
<1> QED BY <1>1, <1>3, <1>4

LEMMA CancelHolds ==
  ASSUME TcInv, NEW j \in TcJobs, Cancel(j)
  PROVE  TcInv'
<1>1. /\ tcAct' = [tcAct EXCEPT ![j].cancelled = TRUE]
      /\ UNCHANGED <<tcNow, tcDisk, tcReserved, tcJobs, tcMon, cacheVars>>
  BY DEF Cancel
<1>2. tcAct[j] \in Acts
  BY DEF TcInv, TypeOK, ActsTyped
<1>3. PICK a : a = [tcAct[j] EXCEPT !.cancelled = TRUE]
  OBVIOUS
<1>4. a \in Acts /\ a.pc = tcAct[j].pc /\ a.dest = tcAct[j].dest /\ a.fresh = tcAct[j].fresh
  BY <1>2, <1>3 DEF Acts
<1>5. tcAct' = [tcAct EXCEPT ![j] = a]
  BY <1>1, <1>3, Zenon
<1>6. Rest
  BY <1>4, <1>5, Resting DEF TcInv
<1> QED BY <1>1, <1>6, QuietHolds, MonRests

LEMMA ShutdownHolds ==
  ASSUME TcInv, TcShutdown
  PROVE  TcInv'
<1>1. /\ tcAct' = [j \in TcJobs |-> [tcAct[j] EXCEPT !.cancelled = @ \/ j \in tcJobs]]
      /\ UNCHANGED <<tcNow, tcDisk, tcReserved, tcJobs, tcMon, cacheVars>>
  BY DEF TcShutdown
<1>2. tcAct \in [TcJobs -> Acts]
  BY DEF TcInv, TypeOK, ActsTyped
<1>3. ASSUME NEW j \in TcJobs
      PROVE  /\ tcAct'[j] \in Acts /\ tcAct'[j].pc = tcAct[j].pc
             /\ tcAct'[j].dest = tcAct[j].dest /\ tcAct'[j].fresh = tcAct[j].fresh
  <2>1. PICK b \in BOOLEAN : b = (tcAct[j].cancelled \/ j \in tcJobs)
    OBVIOUS
  <2>2. tcAct'[j] = [tcAct[j] EXCEPT !.cancelled = b]
    BY <1>1, <2>1, Zenon
  <2>3. tcAct[j] \in Acts
    BY <1>2
  <2>4. PICK a : a = tcAct[j]
    OBVIOUS
  <2>5. [a EXCEPT !.cancelled = b] \in Acts
    BY <2>3, <2>4 DEF Acts
  <2> QED BY <2>2, <2>3, <2>4, <2>5 DEF Acts
<1>4. tcAct' \in [TcJobs -> Acts]
  BY <1>1, <1>3, Zenon
<1>5. Rest
  BY <1>3, <1>4 DEF Rest
<1> QED BY <1>1, <1>5, QuietHolds, MonRests

LEMMA WorkerAnswersHolds ==
  ASSUME TcInv, WorkerAnswers
  PROVE  TcInv'
<1> DEFINE mine(j) == {c \in tcWorker.checks : c[1] = j /\ Waits(c)}
           said(j) == IF tcWorker.ok /\ mine(j) \subseteq tcWorker.seen THEN "answered" ELSE "failed"
<1>1. /\ tcAct' = [j \in TcJobs |-> IF mine(j) = {} THEN tcAct[j] ELSE [tcAct[j] EXCEPT !.check = said(j)]]
      /\ UNCHANGED <<tcNow, tcDisk, tcReserved, tcJobs, tcMon, cacheVars>>
  BY Zenon DEF WorkerAnswers, WorkerUnchanged, cacheVars
<1>2. tcAct \in [TcJobs -> Acts]
  BY DEF TcInv, TypeOK, ActsTyped
<1>3. ASSUME NEW j \in TcJobs
      PROVE  /\ tcAct'[j] \in Acts /\ tcAct'[j].pc = tcAct[j].pc
             /\ tcAct'[j].dest = tcAct[j].dest /\ tcAct'[j].fresh = tcAct[j].fresh
  <2>1. PICK c \in Checks : c = said(j)
    BY DEF Checks
  <2> HIDE DEF said
  <2>2. tcAct'[j] = tcAct[j] \/ tcAct'[j] = [tcAct[j] EXCEPT !.check = c]
    BY <1>1, <2>1
  <2>3. tcAct[j] \in Acts
    BY <1>2
  <2> QED BY <2>2, <2>3 DEF Acts
<1>4. tcAct' \in [TcJobs -> Acts]
  BY <1>1, <1>3, Zenon
<1>5. Rest
  BY <1>3, <1>4 DEF Rest
<1> QED BY <1>1, <1>5, QuietHolds, MonRests

LEMMA WorkerTakesHolds ==
  ASSUME TcInv, WorkerTakes
  PROVE  TcInv'
<1>1. /\ \E q : tcMon' = [tcMon EXCEPT !.queue = q]
      /\ UNCHANGED <<tcNow, tcDisk, tcReserved, tcJobs, tcAct, cacheVars>>
  BY Zenon DEF WorkerTakes, WorkerUnchanged, cacheVars
<1>2. Rest
  BY <1>1, Resting DEF TcInv
<1> QED BY <1>1, <1>2, QuietHolds, MonRests

LEMMA WorkerLooksHolds ==
  ASSUME TcInv, WorkerLooks
  PROVE  TcInv'
<1>1. UNCHANGED <<tcNow, tcDisk, tcReserved, tcJobs, tcAct, tcMon, cacheVars>>
  BY Zenon DEF WorkerLooks, WorkerUnchanged, cacheVars
<1>2. Rest
  BY <1>1, Resting DEF TcInv
<1> QED BY <1>1, <1>2, QuietHolds, MonRests

LEMMA TouchHolds ==
  ASSUME TcInv, NEW j \in TcJobs, touch_recency(j)
  PROVE  TcInv'
<1>1. PICK f : f = Final(tcAct[j].dest)
  OBVIOUS
<1>2. /\ tcAct[j].pc = "complete" /\ tcDisk' = [tcDisk EXCEPT ![f].used = tcNow]
      /\ UNCHANGED <<tcNow, tcReserved, tcJobs, tcAct, tcMon, cacheVars>>
  BY <1>1 DEF touch_recency
<1>3. f \in DOMAIN tcDisk
  BY <1>1, <1>2 DEF TcInv, Kept, Relies
<1>4. /\ Directory(tcDisk)' /\ DOMAIN tcDisk' = DOMAIN tcDisk
      /\ \A g \in DOMAIN tcDisk : tcDisk'[g].bytes = tcDisk[g].bytes
  BY <1>2, <1>3, Touched DEF TcInv
<1>5. FilesTyped'
  BY <1>2, <1>4 DEF TcInv, TypeOK, FilesTyped, Directory, cacheVars
<1>6. Rest /\ RunTyped' /\ MonStays
  BY <1>2, Resting, RunRests, MonRests DEF TcInv, TypeOK, cacheVars
<1> QED BY <1>2, <1>4, <1>5, <1>6, RestHolds DEF RunStays, cacheVars

LEMMA TickHolds ==
  ASSUME TcInv, TcTick
  PROVE  TcInv'
<1>1. /\ tcNow' = tcNow + 1
      /\ tcInv' = tcInv \/ tcInv' = [tcInv EXCEPT !.fresh = FALSE]
      /\ UNCHANGED <<tcDisk, tcReserved, tcJobs, tcAct, tcMon, tcGate, tcRun>>
  BY DEF TcTick
<1>2. FilesTyped
  BY DEF TcInv, TypeOK
<1>3. /\ DOMAIN tcInv' = DOMAIN tcInv /\ tcInv'.entries = tcInv.entries
      /\ tcInv'.fresh \in {tcInv.fresh, FALSE}
  BY <1>1, <1>2 DEF FilesTyped
<1>4. FilesTyped'
  <2>1. tcInv'.fresh \in BOOLEAN
    BY <1>2, <1>3 DEF FilesTyped
  <2>2. tcNow' \in Int
    BY <1>1, <1>2 DEF FilesTyped
  <2> QED BY <1>1, <1>2, <1>3, <2>1, <2>2 DEF FilesTyped, Directory
<1>5. Rest /\ RunTyped' /\ MonStays
  BY <1>1, Resting, RunRests, MonRests DEF TcInv, TypeOK
<1>6. tcInv'.fresh => tcInv.fresh
  BY <1>3
<1> QED BY <1>1, <1>3, <1>4, <1>5, <1>6, RestHolds DEF RunStays

--------------------------------------------------------------------------------
(* Steps that take a name, register it or give it back.                       *)

LEMMA NameHolds ==
  ASSUME TcInv, NEW j \in TcJobs, Others(j), ActsTyped', Reserved', Evicting', FilesTyped', MonStays,
         UNCHANGED cacheVars, tcAct[j].pc \notin AtGate, tcAct'[j].pc \notin AtGate,
         Holds(j)', \A d : InWork(d) => InWork(d)', DOMAIN tcDisk' = DOMAIN tcDisk,
         \A f \in DOMAIN tcDisk : tcDisk'[f].bytes = tcDisk[f].bytes
  PROVE  TcInv'
<1> USE DEF TcInv
<1>1. RunTyped' /\ Gated'
  BY RunRests, MoveGates DEF TypeOK, cacheVars
<1>2. MonTyped' /\ tcMon'.retired = tcMon.retired /\ tcMon'.reconcile = tcMon.reconcile
  BY DEF TypeOK, MonStays
<1>3. Kept'
  BY MoveKeeps
<1>4. Known'
  <2>1. \A f : Agrees(f) => Agrees(f)'
    BY DEF Agrees, cacheVars
  <2>2. tcInv'.fresh => tcInv.fresh
    BY DEF cacheVars
  <2> QED BY <1>2, <2>1, <2>2, StillKnown
<1> QED BY <1>1, <1>2, <1>3, <1>4, Zenon DEF TypeOK

LEMMA ReserveHolds ==
  ASSUME TcInv, NEW j \in TcJobs, NEW d \in TcDests, reserve(j, d)
  PROVE  TcInv'
<1>1. /\ tcAct[j].pc = "idle"
      /\ UNCHANGED <<tcNow, tcDisk, tcMon, cacheVars>>
  BY DEF reserve
<1>2. /\ ActsTyped' /\ Reserved' /\ tcReserved[d] # "evict"
      /\ \A e : e # d => tcReserved'[e] = tcReserved[e] /\ (Owned(e)' => Owned(e))
      /\ Others(j) /\ tcAct'[j].pc = "look" /\ tcAct'[j].fresh = tcAct[j].fresh
  BY TakeReserves DEF TcInv
<1>3. Evicting'
  BY <1>1, <1>2, OwnNameEvicts DEF TcInv, RunStays, cacheVars
<1>4. Holds(j)'
  <2>1. tcAct[j].fresh = FALSE
    BY <1>1 DEF TcInv, Kept, TypeOK, ActsTyped, Acts
  <2> QED BY <1>2, <2>1 DEF Holds, Relies, AtPublish
<1>5. tcAct[j].pc \notin AtWrite
  BY <1>1 DEF AtWrite, AtPublish
<1>6. \A e : InWork(e) => InWork(e)'
  BY <1>2, <1>5 DEF InWork, Others
<1>7. tcAct[j].pc \notin AtGate /\ tcAct'[j].pc \notin AtGate
  BY <1>1, <1>2 DEF AtGate
<1>8. FilesTyped' /\ MonStays
  BY <1>1, FilesRest, MonRests DEF cacheVars
<1> QED BY <1>1, <1>2, <1>3, <1>4, <1>6, <1>7, <1>8, NameHolds

LEMMA JoinHolds ==
  ASSUME TcInv, NEW j \in TcJobs, Join(j)
  PROVE  TcInv'
<1>1. PICK d : d = tcAct[j].dest
  OBVIOUS
<1>2. /\ tcAct[j].pc = "look" /\ Release(j) /\ Goes(j, "done")
      /\ \/ tcDisk' = tcDisk
         \/ /\ \E k \in tcJobs : tcAct[k].dest = d /\ tcAct[k].pc = "complete"
            /\ tcDisk' = [tcDisk EXCEPT ![Final(d)].used = tcNow]
      /\ UNCHANGED <<tcNow, tcJobs, tcMon, cacheVars>>
  BY <1>1 DEF Join
<1>3. Moves(j, "look", "done") /\ tcAct'[j].pc = "done" /\ Others(j)
  BY <1>2, GoesMoves DEF TcInv, Places, Moves
<1>4. /\ ActsTyped' /\ Reserved' /\ tcReserved[d] # "evict"
      /\ \A e : e # d => tcReserved'[e] = tcReserved[e] /\ (Owned(e)' => Owned(e))
  BY <1>1, <1>2, <1>3, ReleaseReserves DEF TcInv, AtReserve
<1>5. Evicting'
  BY <1>2, <1>4, OwnNameEvicts DEF TcInv, RunStays, cacheVars
<1>6. Holds(j)'
  BY <1>3 DEF Holds, Relies, AtPublish
<1>7. \A e : InWork(e) => InWork(e)'
  BY <1>3, MoveWorks DEF AtWrite, AtPublish
<1>8. /\ Directory(tcDisk)' /\ DOMAIN tcDisk' = DOMAIN tcDisk
      /\ \A g \in DOMAIN tcDisk : tcDisk'[g].bytes = tcDisk[g].bytes
  <2>1. CASE tcDisk' = tcDisk
    BY <2>1 DEF TcInv, TypeOK, FilesTyped, Directory
  <2>2. CASE /\ \E k \in tcJobs : tcAct[k].dest = d /\ tcAct[k].pc = "complete"
             /\ tcDisk' = [tcDisk EXCEPT ![Final(d)].used = tcNow]
    <3>1. Final(d) \in DOMAIN tcDisk
      BY <2>2 DEF TcInv, TypeOK, ActsTyped, Kept, Relies
    <3> QED BY <2>2, <3>1, Touched DEF TcInv
  <2> QED BY <1>2, <2>1, <2>2
<1>9. FilesTyped' /\ MonStays
  BY <1>2, <1>8, MonRests DEF TcInv, TypeOK, FilesTyped, Directory, cacheVars
<1>10. tcAct[j].pc \notin AtGate /\ tcAct'[j].pc \notin AtGate
  BY <1>2, <1>3 DEF AtGate
<1> QED BY <1>2, <1>3, <1>4, <1>5, <1>6, <1>7, <1>8, <1>9, <1>10, NameHolds

LEMMA RegisterHitHolds ==
  ASSUME TcInv, NEW j \in TcJobs, RegisterHit(j)
  PROVE  TcInv'
<1>1. PICK d, f : d = tcAct[j].dest /\ f = Final(d)
  OBVIOUS
<1>2. /\ tcAct[j].pc = "open" /\ Release(j)
      /\ \/ /\ f \in DOMAIN tcDisk /\ tcJobs' = tcJobs \cup {j} /\ Goes(j, "complete")
            /\ tcDisk' = [tcDisk EXCEPT ![f].used = tcNow]
         \/ Goes(j, "done") /\ UNCHANGED <<tcJobs, tcDisk>>
      /\ UNCHANGED <<tcNow, tcMon, cacheVars>>
  BY <1>1 DEF RegisterHit
<1>3. /\ Directory(tcDisk)' /\ DOMAIN tcDisk' = DOMAIN tcDisk
      /\ \A g \in DOMAIN tcDisk : tcDisk'[g].bytes = tcDisk[g].bytes
  <2>1. CASE tcDisk' = tcDisk
    BY <2>1 DEF TcInv, TypeOK, FilesTyped, Directory
  <2>2. CASE f \in DOMAIN tcDisk /\ tcDisk' = [tcDisk EXCEPT ![f].used = tcNow]
    BY <2>2, Touched DEF TcInv
  <2> QED BY <1>2, <2>1, <2>2
<1>4. PICK q \in {"complete", "done"} :
        /\ Moves(j, "open", q) /\ tcAct'[j].pc = q /\ tcAct'[j].dest = d /\ Others(j)
        /\ \/ q = "complete" /\ tcJobs' = tcJobs \cup {j} /\ f \in DOMAIN tcDisk
           \/ q = "done" /\ tcJobs' = tcJobs
  <2>1. CASE f \in DOMAIN tcDisk /\ tcJobs' = tcJobs \cup {j} /\ Goes(j, "complete")
    BY <1>1, <1>2, <2>1, GoesMoves DEF TcInv, Places, AtJob, Moves
  <2>2. CASE Goes(j, "done") /\ tcJobs' = tcJobs
    BY <1>1, <1>2, <2>2, GoesMoves DEF TcInv, Places, Moves
  <2> QED BY <1>2, <2>1, <2>2
<1>5. /\ ActsTyped' /\ Reserved' /\ tcReserved[d] # "evict"
      /\ \A e : e # d => tcReserved'[e] = tcReserved[e] /\ (Owned(e)' => Owned(e))
  <2>1. CASE q = "complete" /\ tcJobs' = tcJobs \cup {j}
    <3>1. q \in AtJob
      BY <2>1 DEF AtJob
    <3> QED BY <1>1, <1>2, <1>4, <2>1, <3>1, RegisterReserves DEF TcInv
  <2>2. CASE q = "done" /\ tcJobs' = tcJobs
    <3>1. "open" \in AtReserve
      BY DEF AtReserve, AtCandidate
    <3> QED BY <1>1, <1>2, <1>4, <2>2, <3>1, ReleaseReserves DEF TcInv
  <2> QED BY <1>4, <2>1, <2>2
<1>6. Evicting'
  BY <1>2, <1>5, OwnNameEvicts DEF TcInv, RunStays, cacheVars
<1>7. Holds(j)'
  BY <1>1, <1>3, <1>4 DEF Holds, Relies, AtPublish
<1>8. \A e : InWork(e) => InWork(e)'
  BY <1>4, MoveWorks DEF AtWrite, AtPublish
<1>9. FilesTyped' /\ MonStays
  BY <1>2, <1>3, MonRests DEF TcInv, TypeOK, FilesTyped, Directory, cacheVars
<1>10. tcAct[j].pc \notin AtGate /\ tcAct'[j].pc \notin AtGate
  BY <1>2, <1>4 DEF AtGate
<1> QED BY <1>2, <1>3, <1>4, <1>5, <1>6, <1>7, <1>8, <1>9, <1>10, NameHolds

LEMMA RegisterProducerHolds ==
  ASSUME TcInv, NEW j \in TcJobs, RegisterProducer(j)
  PROVE  TcInv'
<1>1. PICK d : d = tcAct[j].dest
  OBVIOUS
<1>2. /\ tcAct[j].pc = "register" /\ Release(j) /\ Goes(j, "growing") /\ tcJobs' = tcJobs \cup {j}
      /\ UNCHANGED <<tcNow, tcDisk, tcMon, cacheVars>>
  BY DEF RegisterProducer
<1>3. Moves(j, "register", "growing") /\ tcAct'[j].pc = "growing" /\ Others(j)
  BY <1>2, GoesMoves, WritePlaces DEF TcInv, Moves
<1>4. /\ ActsTyped' /\ Reserved' /\ tcReserved[d] # "evict"
      /\ \A e : e # d => tcReserved'[e] = tcReserved[e] /\ (Owned(e)' => Owned(e))
  BY <1>1, <1>2, <1>3, RegisterReserves, WritePlaces DEF TcInv
<1>5. Evicting'
  BY <1>2, <1>4, OwnNameEvicts DEF TcInv, RunStays, cacheVars
<1>6. Holds(j)'
  BY <1>3 DEF Holds, Relies, AtPublish
<1>7. \A e : InWork(e) => InWork(e)'
  BY <1>3, MoveWorks, WritePlaces
<1>8. tcAct[j].pc \notin AtGate /\ tcAct'[j].pc \notin AtGate
  BY <1>2, <1>3 DEF AtGate
<1>9. FilesTyped' /\ MonStays
  BY <1>2, FilesRest, MonRests DEF cacheVars
<1> QED BY <1>2, <1>3, <1>4, <1>5, <1>6, <1>7, <1>8, <1>9, NameHolds

LEMMA FinishJobHolds ==
  ASSUME TcInv, NEW j \in TcJobs, finish_job(j)
  PROVE  TcInv'
<1>1. PICK p \in {"retired", "complete"} : p = tcAct[j].pc
  BY DEF finish_job
<1>2. /\ Goes(j, "done") /\ tcJobs' = tcJobs \ {j}
      /\ UNCHANGED <<tcNow, tcDisk, tcReserved, tcMon, cacheVars>>
  BY DEF finish_job
<1>3. Moves(j, p, "done") /\ tcAct'[j].pc = "done" /\ Others(j)
  BY <1>1, <1>2, GoesMoves DEF TcInv, Places, Moves
<1>4. ActsTyped' /\ Reserved' /\ \A d : Owned(d)' => Owned(d)
  BY <1>1, <1>2, <1>3, FinishReserves DEF TcInv, AtJob
<1>5. Evicting'
  BY <1>2, <1>4, MoveEvicts DEF TcInv, RunStays, cacheVars
<1>6. Holds(j)'
  BY <1>3 DEF Holds, Relies, AtPublish
<1>7. \A e : InWork(e) => InWork(e)'
  BY <1>1, <1>3, MoveWorks DEF AtWrite, AtPublish
<1>8. tcAct[j].pc \notin AtGate /\ tcAct'[j].pc \notin AtGate
  BY <1>1, <1>3 DEF AtGate
<1>9. FilesTyped' /\ MonStays
  BY <1>2, FilesRest, MonRests DEF cacheVars
<1> QED BY <1>2, <1>3, <1>4, <1>5, <1>6, <1>7, <1>8, <1>9, NameHolds

--------------------------------------------------------------------------------
(* Steps that change what is known of the directory.                          *)

LEMMA ReconcileHolds ==
  ASSUME TcInv, NEW j \in TcJobs, reconcile(j)
  PROVE  TcInv'
<1> USE DEF TcInv
<1>1. PICK d, mine : d = tcAct[j].dest /\ mine = {Final(d), Part(d)}
  OBVIOUS
<1>2. /\ tcAct[j].pc = "cleaned" /\ Goes(j, "retired")
      /\ \/ tcMon.reconcile /\ tcMon' = tcMon
         \/ tcMon' = [tcMon EXCEPT !.retired = {}, !.reconcile = TRUE]
         \/ tcMon' = [tcMon EXCEPT !.retired = tcMon.retired \cup mine]
      /\ UNCHANGED <<tcNow, tcDisk, tcReserved, tcJobs, cacheVars>>
  BY <1>1 DEF reconcile
<1>3. Moves(j, "cleaned", "retired") /\ tcAct'[j].pc = "retired" /\ Others(j)
  BY <1>2, GoesMoves DEF Places, AtJob, Moves
<1>4. ActsTyped' /\ Reserved' /\ \A e : Owned(e)' <=> Owned(e)
  <2>1. "cleaned" \in AtJob /\ "retired" \in AtJob /\ "retired" \notin AtReserve
    BY DEF AtJob, AtWrite, AtReserve, AtCandidate
  <2>2. "retired" \notin AtCandidate
    BY DEF AtCandidate
  <2> QED BY <1>2, <1>3, <2>1, <2>2, MoveReserves
<1>5. d \in TcDests
  BY <1>1, <1>2 DEF Reserved
<1>6. MonTyped' /\ (~tcMon'.reconcile => ~tcMon.reconcile /\ tcMon'.retired = tcMon.retired \cup mine)
  <2>1. mine \subseteq TcFiles
    BY <1>1, <1>5, OwnFiles
  <2>2. MonTyped
    BY DEF TypeOK
  <2>3. CASE tcMon.reconcile /\ tcMon' = tcMon
    BY <2>2, <2>3 DEF MonTyped
  <2>4. CASE tcMon' = [tcMon EXCEPT !.retired = {}, !.reconcile = TRUE]
    BY <2>2, <2>4 DEF MonTyped
  <2>5. CASE tcMon' = [tcMon EXCEPT !.retired = tcMon.retired \cup mine]
    <3>1. /\ DOMAIN tcMon' = DOMAIN tcMon /\ tcMon'.retired = tcMon.retired \cup mine
          /\ tcMon'.reconcile = tcMon.reconcile
      BY <2>2, <2>5 DEF MonTyped
    <3> QED BY <2>1, <2>2, <3>1 DEF MonTyped
  <2> QED BY <1>2, <2>3, <2>4, <2>5
<1>7. FilesTyped' /\ RunTyped'
  BY <1>2, FilesRest, RunRests DEF TypeOK, cacheVars
<1>8. Evicting'
  BY <1>2, <1>4, MoveEvicts DEF RunStays, cacheVars
<1>9. Gated'
  BY <1>2, <1>3, MoveGates DEF AtGate, cacheVars
<1>10. Kept'
  <2>1. Holds(j)'
    BY <1>3 DEF Holds, Relies, AtPublish
  <2> QED BY <1>2, <1>3, <2>1, MoveKeeps
<1>11. Known'
  <2>1. \A f : Agrees(f) => Agrees(f)'
    BY <1>2 DEF Agrees, cacheVars
  <2>2. \A e : e # d => (InWork(e)' <=> InWork(e))
    BY <1>1, <1>3, MoveWorks
  <2>3. \A f \in TcFiles : f \notin mine => f[1] # d
    BY <1>1, OwnFiles DEF Own
  <2>4. tcInv'.fresh = tcInv.fresh
    BY <1>2 DEF cacheVars
  <2> QED BY <1>6, <2>1, <2>2, <2>3, <2>4 DEF Known
<1> QED BY <1>4, <1>6, <1>7, <1>8, <1>9, <1>10, <1>11, Zenon DEF TypeOK

LEMMA RemoveStaleHolds ==
  ASSUME TcInv, NEW j \in TcJobs, RemoveStale(j)
  PROVE  TcInv'
<1> USE DEF TcInv
<1>1. PICK d, mine : d = tcAct[j].dest /\ mine = {Final(d), Part(d)}
  OBVIOUS
<1>2. /\ tcAct[j].pc = "stale" /\ Goes(j, "admit")
      /\ tcDisk' = Drop(tcDisk, mine) /\ tcInv' = [tcInv EXCEPT !.entries = Drop(tcInv.entries, mine)]
      /\ UNCHANGED <<tcNow, tcReserved, tcJobs, tcMon, tcGate, tcRun>>
  BY <1>1 DEF RemoveStale
<1>3. /\ Moves(j, "stale", "admit") /\ tcAct'[j].pc = "admit" /\ Others(j)
      /\ tcAct'[j].fresh = tcAct[j].fresh
  BY <1>2, GoesMoves DEF Places, AtReserve, AtCandidate, Moves
<1>4. ActsTyped' /\ Reserved' /\ \A e : Owned(e)' <=> Owned(e)
  <2>1. "stale" \in AtReserve /\ "stale" \in AtCandidate /\ "stale" \notin AtJob /\ "admit" \notin AtJob
    BY DEF AtReserve, AtCandidate, AtJob, AtWrite, AtPublish
  <2> QED BY <1>2, <1>3, <2>1, MoveReserves
<1>5. tcInv'.entries = Drop(tcInv.entries, mine) /\ DOMAIN tcInv' = DOMAIN tcInv /\ tcInv'.fresh = tcInv.fresh
  BY <1>2 DEF TypeOK, FilesTyped
<1>6. FilesTyped'
  <2>1. Directory(tcDisk)'
    <3>1. Directory(Drop(tcDisk, mine))
      BY Dropped DEF TypeOK, FilesTyped
    <3> QED BY <1>2, <3>1 DEF Directory
  <2>2. Directory(tcInv'.entries)
    <3>1. PICK F : F = tcInv.entries
      OBVIOUS
    <3>2. Directory(Drop(F, mine))
      BY <3>1, Dropped DEF TypeOK, FilesTyped
    <3> QED BY <1>5, <3>1, <3>2
  <2> QED BY <1>2, <1>5, <2>1, <2>2 DEF TypeOK, FilesTyped, Directory
<1>7. RunTyped' /\ MonTyped'
  BY <1>2, RunRests DEF TypeOK, MonTyped
<1>8. Evicting'
  BY <1>2, <1>4, MoveEvicts DEF RunStays
<1>9. Gated'
  BY <1>2, <1>3, MoveGates DEF AtGate
<1>10. Kept'
  <2>1. Holds(j)'
    <3>1. tcAct[j].fresh = FALSE
      BY <1>2 DEF Kept, TypeOK, ActsTyped, Acts
    <3> QED BY <1>3, <3>1 DEF Holds, Relies, AtPublish
  <2>2. DOMAIN tcDisk' = DOMAIN tcDisk \ mine
    BY <1>2, Dropped
  <2>3. DOMAIN tcDisk \subseteq DOMAIN tcDisk' \cup Own(d)
    BY <1>1, <2>2 DEF Own
  <2>4. tcAct[j].pc \in AtCandidate
    BY <1>2 DEF AtCandidate
  <2> QED BY <1>1, <1>3, <2>1, <2>3, <2>4, MoveKeeps
<1>11. Known'
  <2>1. \A f : Agrees(f) => Agrees(f)'
    BY <1>2, <1>5, DropAgrees
  <2>2. \A e : InWork(e) => InWork(e)'
    BY <1>3, MoveWorks DEF AtWrite, AtPublish
  <2> QED BY <1>2, <1>5, <2>1, <2>2, StillKnown
<1> QED BY <1>4, <1>6, <1>7, <1>8, <1>9, <1>10, <1>11, Zenon DEF TypeOK

--------------------------------------------------------------------------------
(* Steps that take the gate, and the publication that ends with it.           *)

LEMMA LockHolds ==
  ASSUME TcInv, NEW j \in TcJobs,
         \/ tcAct[j].pc = "admit" /\ Goes(j, "admitting")
         \/ tcAct[j].pc = "publish" /\ Goes(j, "publishing"),
         tcGate = TcNone, tcGate' = j,
         \/ tcRun' = [NoRun EXCEPT !.pc = "retired"]
         \/ \E R : tcRun' = [NoRun EXCEPT !.pc = "retired", !.requested = R],
         UNCHANGED <<tcNow, tcDisk, tcReserved, tcJobs, tcMon, tcInv>>
  PROVE  TcInv'
<1> USE DEF TcInv
<1>1. PICK p, q : /\ p = tcAct[j].pc /\ Goes(j, q)
                  /\ (p = "admit" /\ q = "admitting") \/ (p = "publish" /\ q = "publishing")
  OBVIOUS
<1>2. Moves(j, p, q) /\ tcAct'[j].pc = q /\ Others(j) /\ tcAct'[j].fresh = tcAct[j].fresh
  BY <1>1, GoesMoves DEF Places, AtReserve, AtCandidate, AtJob, AtWrite, AtPublish, Moves
<1>3. /\ p # "idle" /\ (q \in AtReserve => p \in AtReserve)
      /\ q \in AtCandidate => p \in AtCandidate
      /\ (q \in AtJob <=> p \in AtJob) /\ (p \in AtWrite => q \in AtWrite)
  BY <1>1 DEF AtReserve, AtCandidate, AtJob, AtWrite, AtPublish
<1>4. ActsTyped' /\ Reserved' /\ \A e : Owned(e)' <=> Owned(e)
  BY <1>2, <1>3, MoveReserves
<1>5. RunTyped' /\ tcRun'.pc = "retired"
  BY RunStarts
<1>6. Evicting'
  BY <1>4, <1>5, MoveEvicts DEF RunStays
<1>7. Gated'
  BY <1>1, <1>2, <1>5, LockGates
<1>8. Kept'
  <2>1. PICK d : d = tcAct[j].dest
    OBVIOUS
  <2>2. tcAct'[j].dest = d
    BY <1>2, <2>1 DEF Moves
  <2>3. /\ tcAct[j].fresh /\ p = "admit" => Final(d) \in DOMAIN tcDisk
        /\ p = "publish" => Part(d) \in DOMAIN tcDisk
    BY <1>1, <2>1 DEF Kept, Relies, AtPublish
  <2>4. Holds(j)'
    BY <1>1, <1>2, <2>2, <2>3 DEF Holds, Relies, AtPublish
  <2> QED BY <1>2, <2>4, MoveKeeps
<1>9. Known'
  <2>1. \A f : Agrees(f) => Agrees(f)'
    BY DEF Agrees
  <2>2. \A e : InWork(e) => InWork(e)'
    BY <1>2, <1>3, MoveWorks
  <2> QED BY <2>1, <2>2, StillKnown
<1>10. FilesTyped' /\ MonTyped'
  BY FilesRest DEF TypeOK, MonTyped
<1> QED BY <1>4, <1>5, <1>6, <1>7, <1>8, <1>9, <1>10, Zenon DEF TypeOK

LEMMA WorkerGateHolds ==
  ASSUME TcInv, WorkerGate
  PROVE  TcInv'
<1>1. /\ UNCHANGED <<tcNow, tcDisk, tcReserved, tcJobs, tcAct, tcMon, tcInv>>
      /\ \/ UNCHANGED <<tcGate, tcRun>>
         \/ /\ tcGate = TcNone /\ tcGate' = "worker"
            /\ tcRun' = [NoRun EXCEPT !.pc = "retired"]
  BY Zenon DEF WorkerGate, WorkerUnchanged
<1>2. Rest /\ MonStays
  BY <1>1, Resting, MonRests DEF TcInv
<1>3. CASE UNCHANGED <<tcGate, tcRun>>
  BY <1>1, <1>2, <1>3, QuietHolds DEF cacheVars
<1>4. CASE /\ tcGate = TcNone /\ tcGate' = "worker"
           /\ tcRun' = [NoRun EXCEPT !.pc = "retired"]
  <2> USE DEF TcInv
  <2>1. RunTyped' /\ tcRun'.pc = "retired"
    BY <1>4, RunStarts
  <2>2. ActsTyped' /\ Reserved' /\ \A e : Owned(e)' <=> Owned(e)
    BY <1>1, <1>2, RestReserves
  <2>3. Evicting'
    BY <1>1, <2>1, <2>2, MoveEvicts DEF RunStays
  <2>4. Gated'
    BY <1>1, <1>4, <2>1, WorkerLocks
  <2>5. Kept'
    BY <1>1, <1>2, RestKeeps
  <2>6. Known'
    <3>1. \A f : Agrees(f) => Agrees(f)'
      BY <1>1 DEF Agrees
    <3> QED BY <1>1, <1>2, <3>1, RestWorks, StillKnown
  <2>7. FilesTyped' /\ MonTyped'
    BY <1>1, FilesRest DEF TypeOK, MonTyped
  <2> QED BY <2>1, <2>2, <2>3, <2>4, <2>5, <2>6, <2>7, Zenon DEF TypeOK
<1> QED BY <1>1, <1>3, <1>4

\* What a publication leaves noted of its two files is what is there.
NotesOwn(d) ==
  \E F : /\ tcInv' = [tcInv EXCEPT !.entries = F] /\ Directory(F)
         /\ DOMAIN F = (DOMAIN tcInv.entries \ Own(d)) \cup (DOMAIN tcDisk' \cap Own(d))
         /\ \A f \in DOMAIN tcDisk' \cap Own(d) : F[f] = tcDisk'[f]
         /\ \A f \in DOMAIN tcInv.entries \ Own(d) : F[f] = tcInv.entries[f]

\* The three ways a publication ends leave the other outputs alone.
LEMMA PublishFiles ==
  ASSUME TcInv, NEW j \in TcJobs, NEW d, d = tcAct[j].dest, Publish(j)
  PROVE  /\ tcAct[j].pc = "rename" /\ tcGate' = TcNone
         /\ UNCHANGED <<tcNow, tcReserved, tcJobs, tcMon, tcRun>>
         /\ \E q \in {"complete", "failing"} :
              Goes(j, q) /\ (q = "complete" => Final(d) \in DOMAIN tcDisk')
         /\ Directory(tcDisk)'
         /\ \A f \in TcFiles \ Own(d) :
              /\ f \in DOMAIN tcDisk' <=> f \in DOMAIN tcDisk
              /\ f \in DOMAIN tcDisk => tcDisk'[f] = tcDisk[f]
         /\ NotesOwn(d)
<1> DEFINE moved == [f \in (DOMAIN tcDisk \ {Part(d)}) \cup {Final(d)} |->
                       IF f = Final(d) THEN [tcDisk[Part(d)] EXCEPT !.used = tcNow] ELSE tcDisk[f]]
<1>1. PICK known : known = Reread(tcInv.entries, {Part(d), Final(d)})
  OBVIOUS
<1>2. /\ tcAct[j].pc = "rename" /\ tcGate' = TcNone
      /\ \/ tcDisk' = moved /\ Goes(j, "complete")
         \/ tcDisk' = Drop(tcDisk, {Part(d), Final(d)}) /\ Goes(j, "failing")
         \/ tcDisk' = tcDisk /\ Goes(j, "failing")
      /\ tcInv' = [tcInv EXCEPT !.entries = Noted(known, tcDisk', d)]
      /\ UNCHANGED <<tcNow, tcReserved, tcJobs, tcMon, tcRun>>
  BY <1>1 DEF Publish
<1>3. d \in TcDests /\ Part(d) \in DOMAIN tcDisk
  BY <1>2 DEF TcInv, Reserved, Kept, AtPublish
<1>4. tcNow \in Int /\ Directory(tcDisk) /\ Directory(tcInv.entries)
  BY DEF TcInv, TypeOK, FilesTyped
<1>5. Own(d) = {Part(d), Final(d)} /\ Own(d) \subseteq TcFiles
  BY <1>3, OwnFiles DEF Own
<1>6. /\ Directory(tcDisk)'
      /\ \A f \in TcFiles \ Own(d) :
           /\ f \in DOMAIN tcDisk' <=> f \in DOMAIN tcDisk
           /\ f \in DOMAIN tcDisk => tcDisk'[f] = tcDisk[f]
      /\ tcDisk' = moved => Final(d) \in DOMAIN tcDisk'
  <2>1. CASE tcDisk' = moved
    <3>1. PICK e : e = [tcDisk[Part(d)] EXCEPT !.used = tcNow]
      OBVIOUS
    <3>2. tcDisk[Part(d)] \in Entry
      BY <1>3, <1>4 DEF Directory
    <3>3. e \in Entry
      BY <1>4, <3>1, <3>2 DEF Entry
    <3>4. /\ DOMAIN tcDisk' = (DOMAIN tcDisk \ {Part(d)}) \cup {Final(d)}
          /\ tcDisk'[Final(d)] = e
          /\ \A f \in DOMAIN tcDisk \ Own(d) : tcDisk'[f] = tcDisk[f]
      BY <1>5, <2>1, <3>1
    <3>5. \A f \in DOMAIN tcDisk' : f \in TcFiles /\ tcDisk'[f] \in Entry
      BY <1>4, <1>5, <3>3, <3>4 DEF Directory
    <3>6. Directory(tcDisk)'
      BY <3>5 DEF Directory
    <3> QED BY <1>5, <3>4, <3>6
  <2>2. CASE tcDisk' = Drop(tcDisk, {Part(d), Final(d)}) /\ Goes(j, "failing")
    <3>1. PICK G : G = Drop(tcDisk, {Part(d), Final(d)})
      OBVIOUS
    <3>2. DOMAIN G = DOMAIN tcDisk \ Own(d) /\ \A f \in DOMAIN tcDisk \ Own(d) : G[f] = tcDisk[f]
      BY <1>5, <3>1 DEF Drop, Restrict
    <3>3. tcDisk' = G
      BY <2>2, <3>1
    <3>4. Directory(tcDisk)'
      BY <1>4, <3>2, <3>3 DEF Directory
    <3>5. tcDisk' = moved => Final(d) \in DOMAIN tcDisk'
      OBVIOUS
    <3> QED BY <3>2, <3>3, <3>4, <3>5
  <2>3. CASE tcDisk' = tcDisk /\ Goes(j, "failing")
    <3>1. Directory(tcDisk)'
      BY <1>4, <2>3 DEF Directory
    <3>2. tcDisk' = moved => Final(d) \in DOMAIN tcDisk'
      OBVIOUS
    <3> QED BY <2>3, <3>1, <3>2
  <2> HIDE DEF moved
  <2> QED BY <1>2, <2>1, <2>2, <2>3
<1> HIDE DEF moved
<1>7. \E q \in {"complete", "failing"} : Goes(j, q) /\ (q = "complete" => Final(d) \in DOMAIN tcDisk')
  BY <1>2, <1>6
<1>8. PICK E, F, S : /\ E = tcInv.entries /\ F = Noted(known, tcDisk', d) /\ S = Own(d)
  OBVIOUS
<1>9. /\ DOMAIN F = (DOMAIN E \ S) \cup (DOMAIN tcDisk' \cap S)
      /\ \A f \in DOMAIN tcDisk' \cap S : F[f] = tcDisk'[f]
      /\ \A f \in DOMAIN E \ S : F[f] = E[f]
  <2>1. known = Reread(E, S)
    BY <1>1, <1>5, <1>8
  <2>2. /\ DOMAIN known = (DOMAIN E \ S) \cup (DOMAIN tcDisk \cap S)
        /\ \A f \in DOMAIN E \ S : known[f] = E[f]
    BY <2>1 DEF Reread
  <2>3. PICK G : G = tcDisk'
    OBVIOUS
  <2>4. F = Noted(known, G, d)
    BY <1>8, <2>3
  <2>5. F = [f \in (DOMAIN known \ S) \cup (DOMAIN G \cap S) |-> IF f \in S THEN G[f] ELSE known[f]]
    BY <1>5, <1>8, <2>4 DEF Noted
  <2>6. /\ DOMAIN F = (DOMAIN known \ S) \cup (DOMAIN G \cap S)
        /\ \A f \in DOMAIN G \cap S : F[f] = G[f]
        /\ \A f \in DOMAIN known \ S : F[f] = known[f]
    BY <2>5
  <2> QED BY <2>2, <2>3, <2>6
<1>10. Directory(F)
  <2>1. DOMAIN E \subseteq TcFiles /\ \A f \in DOMAIN E : E[f] \in Entry
    BY <1>4, <1>8 DEF Directory
  <2>2. DOMAIN tcDisk' \subseteq TcFiles /\ \A f \in DOMAIN tcDisk' : tcDisk'[f] \in Entry
    BY <1>6 DEF Directory
  <2>3. DOMAIN F \subseteq TcFiles
    BY <1>9, <2>1, <2>2
  <2>4. ASSUME NEW f \in DOMAIN F
        PROVE  F[f] \in Entry
    BY <1>9, <2>1, <2>2
  <2> QED BY <2>3, <2>4 DEF Directory
<1>11. tcInv' = [tcInv EXCEPT !.entries = F]
  BY <1>2, <1>8
<1>12. /\ DOMAIN F = (DOMAIN tcInv.entries \ Own(d)) \cup (DOMAIN tcDisk' \cap Own(d))
       /\ \A f \in DOMAIN tcDisk' \cap Own(d) : F[f] = tcDisk'[f]
       /\ \A f \in DOMAIN tcInv.entries \ Own(d) : F[f] = tcInv.entries[f]
  <2>1. E = tcInv.entries /\ S = Own(d)
    BY <1>8
  <2> QED BY <1>9, <2>1
<1>13. NotesOwn(d)
  BY <1>10, <1>11, <1>12, Zenon DEF NotesOwn
<1> QED BY <1>2, <1>6, <1>7, <1>13

LEMMA PublishHolds ==
  ASSUME TcInv, NEW j \in TcJobs, Publish(j)
  PROVE  TcInv'
<1> USE DEF TcInv
<1>1. PICK d : d = tcAct[j].dest
  OBVIOUS
<1>2. /\ tcAct[j].pc = "rename" /\ tcGate' = TcNone
      /\ UNCHANGED <<tcNow, tcReserved, tcJobs, tcMon, tcRun>>
      /\ Directory(tcDisk)'
      /\ \A f \in TcFiles \ Own(d) :
           /\ f \in DOMAIN tcDisk' <=> f \in DOMAIN tcDisk
           /\ f \in DOMAIN tcDisk => tcDisk'[f] = tcDisk[f]
  BY <1>1, PublishFiles
<1>3. PICK q \in {"complete", "failing"} :
        Goes(j, q) /\ (q = "complete" => Final(d) \in DOMAIN tcDisk')
  BY <1>1, PublishFiles
<1>4. PICK F : /\ tcInv' = [tcInv EXCEPT !.entries = F] /\ Directory(F)
               /\ DOMAIN F = (DOMAIN tcInv.entries \ Own(d)) \cup (DOMAIN tcDisk' \cap Own(d))
               /\ \A f \in DOMAIN tcDisk' \cap Own(d) : F[f] = tcDisk'[f]
               /\ \A f \in DOMAIN tcInv.entries \ Own(d) : F[f] = tcInv.entries[f]
  <2>1. NotesOwn(d)
    BY <1>1, PublishFiles
  <2> QED BY <2>1, Zenon DEF NotesOwn
<1>5. Moves(j, "rename", q) /\ tcAct'[j].pc = q /\ tcAct'[j].dest = d /\ Others(j)
  BY <1>1, <1>2, <1>3, GoesMoves DEF Places, AtJob, AtWrite, Moves
<1>6. ActsTyped' /\ Reserved' /\ \A e : Owned(e)' <=> Owned(e)
  <2>1. "rename" \in AtJob /\ q \in AtJob /\ q \notin AtReserve /\ q \notin AtCandidate
    BY DEF AtJob, AtWrite, AtPublish, AtReserve, AtCandidate
  <2> QED BY <1>2, <1>5, <2>1, MoveReserves
<1>7. tcGate = j /\ tcRun.pc = "none"
  BY <1>2 DEF Gated, AtGate
<1>8. RunTyped' /\ MonTyped'
  BY <1>2 DEF TypeOK, RunTyped, MonTyped, Cur
<1>9. tcInv'.entries = F /\ tcInv'.fresh = tcInv.fresh /\ DOMAIN tcInv' = DOMAIN tcInv
  BY <1>4 DEF TypeOK, FilesTyped
<1>10. FilesTyped'
  BY <1>2, <1>4, <1>9 DEF TypeOK, FilesTyped, Directory
<1>11. Evicting'
  BY <1>2, <1>6, MoveEvicts DEF RunStays
<1>12. Gated'
  BY <1>2, <1>5, <1>7, UnlockGates DEF AtGate
<1>13. Kept'
  <2>1. Holds(j)'
    BY <1>3, <1>5 DEF Holds, Relies, AtPublish
  <2>2. DOMAIN tcDisk \subseteq DOMAIN tcDisk' \cup Own(d)
    BY <1>2 DEF TypeOK, FilesTyped, Directory
  <2>3. tcAct[j].pc \in AtJob
    BY <1>2 DEF AtJob, AtWrite, AtPublish
  <2> QED BY <1>1, <1>5, <2>1, <2>2, <2>3, MoveKeeps
<1>14. Known'
  <2>1. ASSUME NEW f \in TcFiles, f[1] = d
        PROVE  Agrees(f)'
    <3>1. f \in Own(d)
      BY <2>1, OwnFiles
    <3>2. f \in DOMAIN F <=> f \in DOMAIN tcDisk'
      BY <1>4, <3>1
    <3>3. f \in DOMAIN tcDisk' => F[f] = tcDisk'[f]
      BY <1>4, <3>1
    <3> QED BY <1>9, <3>2, <3>3 DEF Agrees
  <2>2. ASSUME NEW f \in TcFiles, f[1] # d
        PROVE  Agrees(f) => Agrees(f)'
    <3>1. f \notin Own(d)
      BY <2>2, OwnFiles DEF Own
    <3>2. /\ f \in DOMAIN F <=> f \in DOMAIN tcInv.entries
          /\ f \in DOMAIN F => F[f] = tcInv.entries[f]
      BY <1>4, <3>1
    <3>3. /\ f \in DOMAIN tcDisk' <=> f \in DOMAIN tcDisk
          /\ f \in DOMAIN tcDisk => tcDisk'[f] = tcDisk[f]
      BY <1>2, <3>1
    <3> QED BY <1>9, <3>2, <3>3 DEF Agrees
  <2>3. \A e : e # d => (InWork(e)' <=> InWork(e))
    BY <1>1, <1>5, MoveWorks
  <2> QED BY <1>2, <1>9, <2>1, <2>2, <2>3, StillKnown
<1> QED BY <1>6, <1>8, <1>10, <1>11, <1>12, <1>13, <1>14, Zenon DEF TypeOK

--------------------------------------------------------------------------------
(* The end of a maintenance.                                                  *)

\* What reaches whoever holds the gate.
RunEnds ==
  /\ tcRun' = NoRun /\ UNCHANGED <<tcNow, tcDisk, tcJobs>>
  /\ \/ tcGate = "worker" /\ tcGate' = TcNone /\ UNCHANGED <<tcAct, tcReserved>>
     \/ \E j \in TcJobs :
          /\ tcGate = j /\ tcGate' = TcNone /\ tcAct[j].pc = "admitting"
          /\ \/ Goes(j, "done") /\ Release(j)
             \/ Goes(j, "open") /\ tcReserved' = tcReserved
             \/ Goes(j, "register") /\ tcReserved' = tcReserved
     \/ \E j \in TcJobs :
          /\ tcGate = j /\ tcAct[j].pc = "publishing" /\ tcReserved' = tcReserved
          /\ \/ tcGate' = tcGate /\ Goes(j, "rename")
             \/ tcGate' = TcNone /\ Goes(j, "failing")

LEMMA Holder ==
  ASSUME TcInv, tcRun.pc # "none"
  PROVE  \/ tcGate = "worker"
         \/ tcGate \in TcJobs /\ tcGate # "worker" /\ tcAct[tcGate].pc = "admitting"
         \/ tcGate \in TcJobs /\ tcGate # "worker" /\ tcAct[tcGate].pc = "publishing"
BY TcAssumption DEF TcInv, TypeOK, RunTyped, Gated, AtGate

LEMMA FinishEnds ==
  ASSUME TcInv, Finish
  PROVE  RunEnds /\ UNCHANGED <<tcInv, tcMon>>
<1> DEFINE ok == ~Over(tcInv.entries, tcRun.short)
<1>1. tcRun.pc # "none" /\ UNCHANGED <<tcInv, tcMon>> /\ EndRun(ok)
  BY DEF Finish
<1> HIDE DEF ok
<1>2. tcRun' = NoRun /\ UNCHANGED <<tcNow, tcDisk, tcJobs>>
  BY <1>1 DEF EndRun
<1>3. CASE tcGate = "worker"
  <2>1. tcGate' = TcNone /\ UNCHANGED <<tcAct, tcReserved>>
    BY <1>1, <1>3 DEF EndRun
  <2> QED BY <1>1, <1>2, <1>3, <2>1 DEF RunEnds
<1>4. CASE tcGate \in TcJobs /\ tcGate # "worker" /\ tcAct[tcGate].pc = "admitting"
  <2>1. /\ tcGate' = TcNone
        /\ \/ Goes(tcGate, "done") /\ Release(tcGate)
           \/ Goes(tcGate, "open") /\ tcReserved' = tcReserved
           \/ Goes(tcGate, "register") /\ tcReserved' = tcReserved
    BY <1>1, <1>4 DEF EndRun
  <2> QED BY <1>1, <1>2, <1>4, <2>1 DEF RunEnds
<1>5. CASE tcGate \in TcJobs /\ tcGate # "worker" /\ tcAct[tcGate].pc = "publishing"
  <2>1. /\ tcReserved' = tcReserved
        /\ \/ tcGate' = tcGate /\ Goes(tcGate, "rename")
           \/ tcGate' = TcNone /\ Goes(tcGate, "failing")
    BY <1>1, <1>5 DEF EndRun
  <2> QED BY <1>1, <1>2, <1>5, <2>1 DEF RunEnds
<1> QED BY <1>1, <1>3, <1>4, <1>5, Holder

LEMMA FailureEnds ==
  ASSUME TcInv, discover_fails
  PROVE  /\ RunEnds /\ tcInv' = [tcInv EXCEPT !.fresh = FALSE]
         /\ tcMon' = tcMon \/ tcMon' = [tcMon EXCEPT !.retired = {}, !.reconcile = FALSE]
<1>1. /\ tcRun.pc # "none" /\ EndRun(FALSE) /\ tcInv' = [tcInv EXCEPT !.fresh = FALSE]
      /\ tcMon' = tcMon \/ tcMon' = [tcMon EXCEPT !.retired = {}, !.reconcile = FALSE]
  BY DEF discover_fails
<1>2. tcRun' = NoRun /\ UNCHANGED <<tcNow, tcDisk, tcJobs>>
  BY <1>1 DEF EndRun
<1>3. CASE tcGate = "worker"
  <2>1. tcGate' = TcNone /\ UNCHANGED <<tcAct, tcReserved>>
    BY <1>1, <1>3 DEF EndRun
  <2> QED BY <1>1, <1>2, <1>3, <2>1 DEF RunEnds
<1>4. CASE tcGate \in TcJobs /\ tcGate # "worker" /\ tcAct[tcGate].pc = "admitting"
  <2>1. tcGate' = TcNone /\ Goes(tcGate, "done") /\ Release(tcGate)
    BY <1>1, <1>4 DEF EndRun
  <2> QED BY <1>1, <1>2, <1>4, <2>1 DEF RunEnds
<1>5. CASE tcGate \in TcJobs /\ tcGate # "worker" /\ tcAct[tcGate].pc = "publishing"
  <2>1. tcReserved' = tcReserved /\ tcGate' = TcNone /\ Goes(tcGate, "failing")
    BY <1>1, <1>5 DEF EndRun
  <2> QED BY <1>1, <1>2, <1>5, <2>1 DEF RunEnds
<1> QED BY <1>1, <1>3, <1>4, <1>5, Holder

LEMMA EndHolds ==
  ASSUME TcInv, RunEnds, FilesTyped', MonTyped',
         tcInv'.fresh = FALSE \/ UNCHANGED <<tcInv, tcMon>>
  PROVE  TcInv'
<1> USE DEF TcInv
<1>1. tcRun' = NoRun /\ UNCHANGED <<tcNow, tcDisk, tcJobs>>
  BY DEF RunEnds
<1>2. tcGate' \in TcJobs \cup {TcNone, "worker"}
  BY DEF RunEnds, TypeOK, RunTyped
<1>3. RunTyped' /\ tcRun'.pc = "none" /\ Evicting'
  <2>1. RunTyped' /\ tcRun'.pc = "none"
    BY <1>1, <1>2, RunStops
  <2> QED BY <2>1 DEF Evicting
<1>4. \A f : UNCHANGED tcInv => (Agrees(f) => Agrees(f)')
  BY <1>1 DEF Agrees
<1>5. CASE tcGate = "worker" /\ tcGate' = TcNone /\ UNCHANGED <<tcAct, tcReserved>>
  <2>1. Rest
    BY <1>5, Resting
  <2>2. ActsTyped' /\ Reserved'
    BY <1>1, <1>5, <2>1, RestReserves
  <2>3. Gated' /\ Kept'
    BY <1>1, <1>3, <1>5, <2>1, WorkerUnlocks, RestKeeps
  <2>4. Known'
    BY <1>4, <2>1, RestWorks, StillKnown DEF Known
  <2> QED BY <1>3, <2>2, <2>3, <2>4, Zenon DEF TypeOK
<1>6. ASSUME NEW j \in TcJobs, tcGate = j, tcGate' = TcNone, tcAct[j].pc = "admitting",
             \/ Goes(j, "done") /\ Release(j)
             \/ Goes(j, "open") /\ tcReserved' = tcReserved
             \/ Goes(j, "register") /\ tcReserved' = tcReserved
      PROVE  TcInv'
  <2>1. PICK q \in {"done", "open", "register"} :
          Goes(j, q) /\ ((q = "done" /\ Release(j)) \/ (q # "done" /\ tcReserved' = tcReserved))
    BY <1>6
  <2>2. /\ Moves(j, "admitting", q) /\ tcAct'[j].pc = q /\ Others(j)
        /\ tcAct'[j].fresh = tcAct[j].fresh /\ tcAct'[j].dest = tcAct[j].dest
    BY <1>6, <2>1, GoesMoves DEF Places, AtReserve, AtCandidate, Moves
  <2>3. /\ "admitting" \in AtReserve /\ "admitting" \in AtCandidate /\ "admitting" \notin AtJob
        /\ q \notin AtJob /\ q \notin AtWrite /\ "admitting" \notin AtWrite
    BY DEF AtReserve, AtCandidate, AtJob, AtWrite, AtPublish
  <2>4. ActsTyped' /\ Reserved'
    <3>1. CASE q = "done" /\ Release(j)
      BY <1>1, <2>2, <2>3, <3>1, ReleaseReserves
    <3>2. CASE tcReserved' = tcReserved
      BY <1>1, <2>2, <2>3, <3>2, MoveReserves
    <3> QED BY <2>1, <3>1, <3>2
  <2>5. Gated'
    BY <1>3, <1>6, <2>2, UnlockGates DEF AtGate
  <2>6. Kept'
    <3>1. PICK d : d = tcAct[j].dest
      OBVIOUS
    <3>2. tcAct[j].fresh => Final(d) \in DOMAIN tcDisk
      BY <1>6, <3>1 DEF Kept, Relies
    <3>3. Holds(j)'
      BY <1>1, <2>2, <3>1, <3>2 DEF Holds, Relies, AtPublish
    <3> QED BY <1>1, <2>2, <3>3, MoveKeeps
  <2>7. Known'
    <3>1. \A e : InWork(e) => InWork(e)'
      BY <2>2, <2>3, MoveWorks
    <3> QED BY <1>4, <3>1, StillKnown DEF Known
  <2> QED BY <1>3, <2>4, <2>5, <2>6, <2>7, Zenon DEF TypeOK
<1>7. ASSUME NEW j \in TcJobs, tcGate = j, tcAct[j].pc = "publishing", tcReserved' = tcReserved,
             \/ tcGate' = tcGate /\ Goes(j, "rename")
             \/ tcGate' = TcNone /\ Goes(j, "failing")
      PROVE  TcInv'
  <2>1. PICK q \in {"rename", "failing"} :
          Goes(j, q) /\ ((q = "rename" /\ tcGate' = tcGate) \/ (q = "failing" /\ tcGate' = TcNone))
    BY <1>7
  <2>2. Moves(j, "publishing", q) /\ tcAct'[j].pc = q /\ Others(j) /\ tcAct'[j].dest = tcAct[j].dest
    BY <1>7, <2>1, GoesMoves DEF Places, AtJob, AtWrite, AtPublish, Moves
  <2>3. /\ "publishing" \in AtJob /\ q \in AtJob /\ q \in AtWrite
        /\ q \notin AtReserve /\ q \notin AtCandidate
    BY DEF AtReserve, AtCandidate, AtJob, AtWrite, AtPublish
  <2>4. ActsTyped' /\ Reserved'
    BY <1>1, <1>7, <2>2, <2>3, MoveReserves
  <2>5. Gated'
    <3>1. CASE q = "rename" /\ tcGate' = tcGate
      BY <1>3, <1>7, <2>2, <3>1, RenameGates
    <3>2. CASE q = "failing" /\ tcGate' = TcNone
      BY <1>3, <1>7, <2>2, <3>2, UnlockGates DEF AtGate
    <3> QED BY <2>1, <3>1, <3>2
  <2>6. Kept'
    <3>1. PICK d : d = tcAct[j].dest
      OBVIOUS
    <3>2. Part(d) \in DOMAIN tcDisk
      BY <1>7, <3>1 DEF Kept, AtPublish
    <3>3. Holds(j)'
      BY <1>1, <2>2, <3>1, <3>2 DEF Holds, Relies, AtPublish
    <3> QED BY <1>1, <2>2, <3>3, MoveKeeps
  <2>7. Known'
    <3>1. \A e : InWork(e) => InWork(e)'
      BY <2>2, <2>3, MoveWorks
    <3> QED BY <1>4, <3>1, StillKnown DEF Known
  <2> QED BY <1>3, <2>4, <2>5, <2>6, <2>7, Zenon DEF TypeOK
<1> QED BY <1>5, <1>6, <1>7 DEF RunEnds

LEMMA FinishHolds ==
  ASSUME TcInv, Finish
  PROVE  TcInv'
<1>1. RunEnds /\ UNCHANGED <<tcInv, tcMon>>
  BY FinishEnds
<1>2. UNCHANGED <<tcNow, tcDisk>>
  BY <1>1 DEF RunEnds
<1>3. FilesTyped' /\ MonTyped'
  BY <1>1, <1>2, FilesRest DEF TcInv, TypeOK, MonTyped
<1> QED BY <1>1, <1>3, EndHolds

LEMMA FailureHolds ==
  ASSUME TcInv, discover_fails
  PROVE  TcInv'
<1>1. /\ RunEnds /\ tcInv' = [tcInv EXCEPT !.fresh = FALSE]
      /\ tcMon' = tcMon \/ tcMon' = [tcMon EXCEPT !.retired = {}, !.reconcile = FALSE]
  BY FailureEnds
<1>2. UNCHANGED <<tcNow, tcDisk>>
  BY <1>1 DEF RunEnds
<1>3. /\ tcInv'.fresh = FALSE /\ tcInv'.entries = tcInv.entries /\ DOMAIN tcInv' = DOMAIN tcInv
  BY <1>1 DEF TcInv, TypeOK, FilesTyped
<1>4. FilesTyped'
  <2>1. tcInv'.fresh \in BOOLEAN
    BY <1>3
  <2> QED BY <1>2, <1>3, <2>1 DEF TcInv, TypeOK, FilesTyped, Directory
<1>5. MonTyped'
  BY <1>1 DEF TcInv, TypeOK, MonTyped
<1> QED BY <1>1, <1>3, <1>4, <1>5, EndHolds

--------------------------------------------------------------------------------
(* Steps of a maintenance.                                                    *)

LEMMA RunHolds ==
  ASSUME TcInv, UNCHANGED <<tcAct, tcJobs, tcReserved, tcGate>>, RunStays, RunTyped', FilesTyped', MonTyped',
         tcRun.pc # "none", tcRun'.pc # "none", tcDisk' = tcDisk, Known'
  PROVE  TcInv'
<1> USE DEF TcInv
<1>1. Rest
  BY Resting
<1>2. ActsTyped' /\ Reserved' /\ \A d : Owned(d)' <=> Owned(d)
  BY <1>1, RestReserves
<1>3. Evicting' /\ Gated' /\ Kept'
  BY <1>1, <1>2, MoveEvicts, RestGates, RestKeeps
<1> QED BY <1>2, <1>3, Zenon DEF TypeOK

\* The inventory looks at some of the files again.
LEMMA RereadTyped ==
  ASSUME TcInv, NEW S, UNCHANGED <<tcNow, tcDisk>>, DOMAIN tcInv' = DOMAIN tcInv,
         tcInv'.entries = Reread(tcInv.entries, S), tcInv'.fresh \in BOOLEAN
  PROVE  FilesTyped'
<1>1. PICK F : F = tcInv.entries
  OBVIOUS
<1>2. Directory(F) /\ Directory(tcDisk)
  BY <1>1 DEF TcInv, TypeOK, FilesTyped
<1>3. Directory(Reread(F, S))
  BY <1>2, IsReread
<1>4. tcInv'.entries = Reread(F, S)
  BY <1>1
<1>5. PICK G : G = tcInv'.entries
  OBVIOUS
<1>6. Directory(G)
  BY <1>3, <1>4, <1>5
<1> QED BY <1>5, <1>6 DEF TcInv, TypeOK, FilesTyped, Directory

LEMMA TakeRetiredHolds ==
  ASSUME TcInv, take_retired
  PROVE  TcInv'
<1> USE DEF TcInv
<1>1. PICK sweep \in BOOLEAN : sweep = (tcMon.reconcile \/ ~tcInv.fresh)
  OBVIOUS
<1>2. /\ tcRun.pc = "retired"
      /\ tcMon' = [tcMon EXCEPT !.retired = {}, !.reconcile = FALSE]
      /\ tcInv'.entries = Reread(tcInv.entries, tcMon.retired)
      /\ UNCHANGED <<tcDisk, tcReserved, tcAct, tcNow, tcJobs, tcGate>>
  BY DEF take_retired, RunUnchanged
<1>3. DOMAIN tcInv' = {"entries", "fresh"} /\ tcInv'.fresh = ~sweep
  <2>1. tcInv' = [entries |-> Reread(tcInv.entries, tcMon.retired), fresh |-> ~(tcMon.reconcile \/ ~tcInv.fresh)]
    BY DEF take_retired
  <2> QED BY <1>1, <2>1
<1>4. /\ DOMAIN tcRun' = DOMAIN tcRun /\ tcRun'.pc \in {"discover", "active"}
      /\ tcRun'.cands = tcRun.cands /\ tcRun'.refreshed = tcRun.refreshed
  <2>1. \E b, p : /\ p \in {"discover", "active"} /\ tcRun' = [tcRun EXCEPT !.sweep = b, !.pc = p]
    BY Zenon DEF take_retired
  <2> QED BY <2>1 DEF TypeOK, RunTyped, RunFields
<1>5. RunTyped'
  BY <1>2, <1>4 DEF TypeOK, RunTyped, Phases
<1>6. FilesTyped'
  <2>1. DOMAIN tcInv' = DOMAIN tcInv /\ tcInv'.fresh \in BOOLEAN
    BY <1>3 DEF TypeOK, FilesTyped
  <2> QED BY <1>2, <2>1, RereadTyped
<1>7. MonTyped'
  BY <1>2 DEF TypeOK, MonTyped
<1>8. Known'
  <2>1. tcInv'.fresh => tcInv.fresh /\ ~tcMon.reconcile
    BY <1>1, <1>3
  <2>2. \A f : f \in tcMon.retired \/ Agrees(f) => Agrees(f)'
    BY <1>2, RereadAgrees
  <2>3. \A d : InWork(d)' <=> InWork(d)
    BY <1>2 DEF InWork
  <2> QED BY <2>1, <2>2, <2>3 DEF Known
<1> QED BY <1>2, <1>4, <1>5, <1>6, <1>7, <1>8, RunHolds DEF RunStays

LEMMA DiscoverHolds ==
  ASSUME TcInv, discover
  PROVE  TcInv'
<1> USE DEF TcInv
<1>1. /\ tcRun.pc = "discover" /\ tcInv' = [entries |-> tcDisk, fresh |-> TRUE]
      /\ tcRun' = [tcRun EXCEPT !.pc = "active"]
      /\ UNCHANGED <<tcDisk, tcReserved, tcAct, tcMon, tcNow, tcJobs, tcGate>>
  BY DEF discover, RunUnchanged
<1>2. /\ DOMAIN tcRun' = DOMAIN tcRun /\ tcRun'.pc = "active"
      /\ tcRun'.cands = tcRun.cands /\ tcRun'.refreshed = tcRun.refreshed
  BY <1>1 DEF TypeOK, RunTyped, RunFields
<1>3. RunTyped'
  BY <1>1, <1>2 DEF TypeOK, RunTyped, Phases
<1>4. DOMAIN tcInv' = {"entries", "fresh"} /\ tcInv'.entries = tcDisk /\ tcInv'.fresh = TRUE
  BY <1>1
<1>5. FilesTyped' /\ MonTyped'
  BY <1>1, <1>4 DEF TypeOK, FilesTyped, Directory, MonTyped
<1>6. Known'
  BY <1>1, <1>4 DEF Known, Agrees
<1> QED BY <1>1, <1>2, <1>3, <1>5, <1>6, RunHolds DEF RunStays

\* A maintenance goes on to look at nothing but what it has chosen.
LEMMA PhaseHolds ==
  ASSUME TcInv, UNCHANGED <<tcDisk, tcReserved, tcAct, tcMon, tcNow, tcJobs, tcGate, tcInv>>,
         tcRun.pc # "none", DOMAIN tcRun' = RunFields, tcRun'.pc \in Phases \ {"none", "guard", "unlink"},
         \A c \in tcRun'.cands \cup tcRun'.refreshed : c \in tcRun.cands \cup tcRun.refreshed
  PROVE  TcInv'
<1>1. RunTyped'
  BY DEF TcInv, TypeOK, RunTyped
<1>2. FilesTyped' /\ MonTyped'
  BY FilesRest DEF TcInv, TypeOK, MonTyped
<1>3. Known'
  BY DEF TcInv, Known, InWork, Agrees
<1> QED BY <1>1, <1>2, <1>3, RunHolds DEF RunStays

LEMMA ActiveHolds ==
  ASSUME TcInv, active_artifacts
  PROVE  TcInv'
<1>1. /\ tcRun.pc = "active" /\ \E S : tcRun' = [tcRun EXCEPT !.pc = "decide", !.active = S]
      /\ UNCHANGED <<tcDisk, tcReserved, tcAct, tcMon, tcNow, tcJobs, tcGate, tcInv>>
  BY Zenon DEF active_artifacts, RunUnchanged
<1>2. /\ DOMAIN tcRun' = RunFields /\ tcRun'.pc = "decide"
      /\ tcRun'.cands = tcRun.cands /\ tcRun'.refreshed = tcRun.refreshed
  BY <1>1 DEF TcInv, TypeOK, RunTyped, RunFields
<1>3. tcRun'.pc \in Phases \ {"none", "guard", "unlink"}
  BY <1>2 DEF Phases
<1> QED BY <1>1, <1>2, <1>3, PhaseHolds

LEMMA SecondPassHolds ==
  ASSUME TcInv, SecondPass
  PROVE  TcInv'
<1>1. /\ tcRun.pc = "evict"
      /\ tcRun' = [tcRun EXCEPT !.cands = tcRun.refreshed, !.refreshed = {}, !.second = TRUE]
      /\ UNCHANGED <<tcDisk, tcReserved, tcAct, tcMon, tcNow, tcJobs, tcGate, tcInv>>
  BY DEF SecondPass, RunUnchanged
<1>2. /\ DOMAIN tcRun' = RunFields /\ tcRun'.pc = "evict"
      /\ tcRun'.cands = tcRun.refreshed /\ tcRun'.refreshed = {}
  BY <1>1 DEF TcInv, TypeOK, RunTyped, RunFields
<1>3. tcRun'.pc \in Phases \ {"none", "guard", "unlink"}
  BY <1>2 DEF Phases
<1> QED BY <1>1, <1>2, <1>3, PhaseHolds

LEMMA DecideHolds ==
  ASSUME TcInv, Decide
  PROVE  TcInv'
<1> USE DEF TcInv
<1>1. PICK S, E : S = tcRun.active \cup tcRun.requested /\ E = Reread(tcInv.entries, S)
  OBVIOUS
<1>2. /\ tcRun.pc = "decide" /\ tcInv' = [tcInv EXCEPT !.entries = E]
      /\ UNCHANGED <<tcDisk, tcReserved, tcAct, tcMon, tcNow, tcJobs, tcGate>>
  BY <1>1 DEF Decide, RunUnchanged
<1>3. /\ DOMAIN tcInv' = DOMAIN tcInv /\ tcInv'.entries = Reread(tcInv.entries, S)
      /\ tcInv'.fresh = tcInv.fresh
  BY <1>1, <1>2 DEF TypeOK, FilesTyped
<1>4. FilesTyped' /\ MonTyped'
  <2>1. tcInv'.fresh \in BOOLEAN
    BY <1>3 DEF TypeOK, FilesTyped
  <2> QED BY <1>2, <1>3, <2>1, RereadTyped DEF TypeOK, MonTyped
<1>5. DOMAIN E \subseteq TcFiles
  <2>1. E = tcInv'.entries
    BY <1>1, <1>3
  <2> QED BY <1>4, <2>1 DEF FilesTyped, Directory
<1>6. \E C, b, s :
        /\ tcRun' = [tcRun EXCEPT !.pc = "evict", !.pressure = b, !.short = s, !.cands = C]
        /\ \A c \in C : \E f \in DOMAIN E : completed(f) /\ c = <<f, E[f].used>>
  <2> DEFINE short == Shortage(tcDisk)
             pressure == Over(E, short) /\ eviction_can_satisfy_limits(E, short)
             C == {<<f, E[f].used>> : f \in
                    {g \in DOMAIN E : completed(g) /\ (pressure \/ (tcRun.sweep /\ Aged(E[g])))}}
  <2>1. tcRun' = [tcRun EXCEPT !.pc = "evict", !.pressure = pressure, !.short = short, !.cands = C]
    BY <1>1, Zenon DEF Decide
  <2>2. \A c \in C : \E f \in DOMAIN E : completed(f) /\ c = <<f, E[f].used>>
    BY Zenon
  <2> HIDE DEF pressure, short, C
  <2> QED BY <2>1, <2>2, Zenon
<1>7. /\ DOMAIN tcRun' = RunFields /\ tcRun'.pc = "evict" /\ tcRun'.refreshed = tcRun.refreshed
      /\ \A c \in tcRun'.cands : \E f \in DOMAIN E : completed(f) /\ c = <<f, E[f].used>>
  BY <1>6 DEF TypeOK, RunTyped, RunFields
<1>8. \A c \in tcRun'.cands : c[1] \in Finals
  <2>1. \A f \in TcFiles : completed(f) => f \in Finals
    BY DEF TcFiles, completed, Finals, Final
  <2> QED BY <1>5, <1>7, <2>1
<1>9. RunTyped'
  BY <1>2, <1>7, <1>8 DEF TypeOK, RunTyped, Phases
<1>10. Known'
  <2>1. \A f : Agrees(f) => Agrees(f)'
    BY <1>2, <1>3, RereadAgrees
  <2>2. \A d : InWork(d)' <=> InWork(d)
    BY <1>2 DEF InWork
  <2> QED BY <1>2, <1>3, <2>1, <2>2, StillKnown
<1> QED BY <1>2, <1>4, <1>7, <1>9, <1>10, RunHolds DEF RunStays

LEMMA FinalNames ==
  ASSUME NEW f \in Finals
  PROVE  f[1] \in TcDests /\ f = Final(f[1])
BY DEF Finals, Final

\* An eviction takes the name of its candidate or gives it back.
LEMMA EvictionHolds ==
  ASSUME TcInv, NEW e \in TcDests, NEW v \in {TcNone, "evict"},
         tcReserved[e] \in {TcNone, "evict"}, tcReserved' = [tcReserved EXCEPT ![e] = v],
         UNCHANGED <<tcAct, tcJobs, tcGate, tcMon>>, tcRun.pc # "none", tcRun'.pc # "none",
         RunTyped', FilesTyped', Evicting', Kept', Known'
  PROVE  TcInv'
<1> USE DEF TcInv
<1>1. ActsTyped' /\ Reserved'
  BY EvictionReserves
<1>2. Rest
  BY Resting
<1>3. Gated'
  BY <1>2, RestGates
<1>4. MonTyped'
  BY DEF TypeOK, MonTyped
<1> QED BY <1>1, <1>3, <1>4, Zenon DEF TypeOK

LEMMA CandidateHolds ==
  ASSUME TcInv, Candidate
  PROVE  TcInv'
<1> USE DEF TcInv
<1>1. /\ tcRun.pc = "evict"
      /\ UNCHANGED <<tcDisk, tcAct, tcMon, tcInv, tcNow, tcJobs, tcGate>>
  BY DEF Candidate, RunUnchanged
<1>2. NextCandidate \subseteq tcRun.cands
  BY DEF NextCandidate
<1>3. PICK c \in tcRun.cands :
        \/ /\ tcReserved[c[1][1]] = TcNone /\ tcReserved' = [tcReserved EXCEPT ![c[1][1]] = "evict"]
           /\ tcRun' = [[tcRun EXCEPT !.cands = tcRun.cands \ {c}] EXCEPT !.pc = "guard", !.cur = c]
        \/ /\ tcReserved' = tcReserved
           /\ tcRun' = [[tcRun EXCEPT !.cands = tcRun.cands \ {c}] EXCEPT !.passed = tcRun.passed \cup {c[1]}]
  BY <1>2 DEF Candidate, try_reserve, TypeOK, RunTyped, RunFields
<1>4. c[1] \in Finals /\ DOMAIN tcRun = RunFields
  BY DEF TypeOK, RunTyped
<1>5. CASE /\ tcReserved' = tcReserved
           /\ tcRun' = [[tcRun EXCEPT !.cands = tcRun.cands \ {c}] EXCEPT !.passed = tcRun.passed \cup {c[1]}]
  <2>1. /\ DOMAIN tcRun' = RunFields /\ tcRun'.pc = "evict" /\ tcRun'.refreshed = tcRun.refreshed
        /\ tcRun'.cands = tcRun.cands \ {c}
    BY <1>1, <1>4, <1>5 DEF RunFields
  <2>2. tcRun'.pc \in Phases \ {"none", "guard", "unlink"}
    BY <2>1 DEF Phases
  <2> QED BY <1>1, <1>5, <2>1, <2>2, PhaseHolds
<1>6. CASE /\ tcReserved[c[1][1]] = TcNone /\ tcReserved' = [tcReserved EXCEPT ![c[1][1]] = "evict"]
           /\ tcRun' = [[tcRun EXCEPT !.cands = tcRun.cands \ {c}] EXCEPT !.pc = "guard", !.cur = c]
  <2>1. /\ DOMAIN tcRun' = RunFields /\ tcRun'.pc = "guard" /\ tcRun'.refreshed = tcRun.refreshed
        /\ tcRun'.cands = tcRun.cands \ {c} /\ tcRun'.cur = c
    BY <1>1, <1>4, <1>6 DEF RunFields
  <2>2. RunTyped'
    BY <1>1, <1>4, <2>1 DEF TypeOK, RunTyped, Phases, Cur
  <2>3. PICK e \in TcDests : e = c[1][1]
    BY <1>4, FinalNames
  <2>4. tcReserved' = [tcReserved EXCEPT ![e] = "evict"] /\ tcReserved[e] = TcNone
    BY <1>6, <2>3
  <2>5. Evicting'
    <3>1. Cur'[1] = e
      BY <2>1, <2>3 DEF Cur
    <3>2. tcReserved'[e] = "evict"
      BY <2>4 DEF TypeOK, ActsTyped
    <3> QED BY <2>1, <3>1, <3>2 DEF Evicting
  <2>6. FilesTyped' /\ Kept'
    <3>1. Rest
      BY <1>1, Resting
    <3> QED BY <1>1, <3>1, FilesRest, RestKeeps
  <2>7. Known'
    BY <1>1 DEF Known, InWork, Agrees
  <2> QED BY <1>1, <2>1, <2>2, <2>4, <2>5, <2>6, <2>7, EvictionHolds
<1> QED BY <1>3, <1>5, <1>6

LEMMA GuardHolds ==
  ASSUME TcInv, Guard
  PROVE  TcInv'
<1> USE DEF TcInv
<1>1. /\ tcRun.pc = "guard" /\ UNCHANGED <<tcDisk, tcAct, tcMon, tcInv, tcNow, tcJobs, tcGate>>
      /\ \/ /\ tcReserved' = [tcReserved EXCEPT ![Cur[1]] = TcNone]
            /\ tcRun' = [tcRun EXCEPT !.pc = "evict", !.cur = TcNone, !.passed = tcRun.passed \cup {Cur}]
         \/ /\ ~Owned(Cur[1]) /\ tcReserved' = tcReserved /\ tcRun' = [tcRun EXCEPT !.pc = "unlink"]
  BY DEF Guard, RunUnchanged, ReleaseCur
<1>2. PICK e \in TcDests : e = Cur[1]
  BY <1>1, FinalNames DEF TypeOK, RunTyped
<1>3. tcReserved[e] = "evict" /\ DOMAIN tcRun = RunFields
  BY <1>1, <1>2 DEF Evicting, TypeOK, RunTyped
<1>4. FilesTyped' /\ Kept' /\ Known'
  <2>1. Rest
    BY <1>1, Resting
  <2> QED BY <1>1, <2>1, FilesRest, RestKeeps DEF Known, InWork, Agrees
<1>5. CASE /\ tcReserved' = [tcReserved EXCEPT ![Cur[1]] = TcNone]
           /\ tcRun' = [tcRun EXCEPT !.pc = "evict", !.cur = TcNone, !.passed = tcRun.passed \cup {Cur}]
  <2>1. /\ DOMAIN tcRun' = RunFields /\ tcRun'.pc = "evict" /\ tcRun'.refreshed = tcRun.refreshed
        /\ tcRun'.cands = tcRun.cands
    BY <1>3, <1>5 DEF RunFields
  <2>2. RunTyped' /\ Evicting'
    BY <1>1, <2>1 DEF TypeOK, RunTyped, Phases, Evicting
  <2>3. tcReserved' = [tcReserved EXCEPT ![e] = TcNone]
    BY <1>2, <1>5
  <2> QED BY <1>1, <1>3, <1>4, <2>1, <2>2, <2>3, EvictionHolds
<1>6. CASE ~Owned(Cur[1]) /\ tcReserved' = tcReserved /\ tcRun' = [tcRun EXCEPT !.pc = "unlink"]
  <2>1. /\ DOMAIN tcRun' = RunFields /\ tcRun'.pc = "unlink" /\ tcRun'.refreshed = tcRun.refreshed
        /\ tcRun'.cands = tcRun.cands /\ tcRun'.cur = tcRun.cur
    BY <1>3, <1>6 DEF RunFields
  <2>2. Cur' = Cur
    BY <2>1 DEF Cur
  <2>3. RunTyped'
    BY <1>1, <2>1, <2>2 DEF TypeOK, RunTyped, Phases
  <2>4. Evicting'
    <3>1. \A d : Owned(d)' <=> Owned(d)
      BY <1>1 DEF Owned
    <3>2. ~Owned(e) /\ tcReserved'[e] = "evict"
      BY <1>2, <1>3, <1>6
    <3>3. Cur'[1] = e
      BY <1>2, <2>2
    <3>4. ~Owned(Cur[1])'
      BY <3>1, <3>2, <3>3
    <3> QED BY <3>2, <3>3, <3>4 DEF Evicting
  <2>5. tcReserved' = [tcReserved EXCEPT ![e] = "evict"]
    BY <1>3, <1>6 DEF TypeOK, ActsTyped
  <2> QED BY <1>1, <1>3, <1>4, <2>1, <2>3, <2>4, <2>5, EvictionHolds
<1> QED BY <1>1, <1>5, <1>6

LEMMA EvictHolds ==
  ASSUME TcInv, Evict
  PROVE  TcInv'
<1> USE DEF TcInv
<1>1. PICK f : f = Cur
  OBVIOUS
<1>2. /\ tcRun.pc = "unlink" /\ tcReserved' = [tcReserved EXCEPT ![f[1]] = TcNone]
      /\ UNCHANGED <<tcAct, tcMon, tcNow, tcJobs, tcGate>>
      /\ \/ /\ f \in DOMAIN tcDisk /\ tcDisk' = tcDisk
            /\ tcInv' = [tcInv EXCEPT !.entries = Reread(tcInv.entries, {f})]
            /\ tcRun' = [[tcRun EXCEPT !.pc = "evict", !.cur = TcNone]
                           EXCEPT !.refreshed = tcRun.refreshed \cup {<<f, tcDisk[f].used>>}]
         \/ /\ tcDisk' = Drop(tcDisk, {f}) /\ tcInv' = [tcInv EXCEPT !.entries = Drop(tcInv.entries, {f})]
            /\ \E s : tcRun' = [[tcRun EXCEPT !.pc = "evict", !.cur = TcNone] EXCEPT !.short = s]
  BY <1>1 DEF Evict, RunUnchanged, ReleaseCur, UsedSince, TypeOK, RunTyped, RunFields
<1>3. f \in Finals /\ DOMAIN tcRun = RunFields
  BY <1>1, <1>2 DEF TypeOK, RunTyped
<1>4. PICK e \in TcDests : e = f[1] /\ f = Final(e)
  BY <1>3, FinalNames
<1>5. tcReserved[e] = "evict" /\ ~Owned(e)
  BY <1>1, <1>2, <1>4 DEF Evicting
<1>6. /\ DOMAIN tcRun' = RunFields /\ tcRun'.pc = "evict" /\ tcRun'.cands = tcRun.cands
      /\ \A c \in tcRun'.refreshed : c \in tcRun.refreshed \/ c[1] = f
  <2>1. CASE tcRun' = [[tcRun EXCEPT !.pc = "evict", !.cur = TcNone]
                         EXCEPT !.refreshed = tcRun.refreshed \cup {<<f, tcDisk[f].used>>}]
    BY <1>3, <2>1 DEF RunFields
  <2>2. CASE \E s : tcRun' = [[tcRun EXCEPT !.pc = "evict", !.cur = TcNone] EXCEPT !.short = s]
    BY <1>3, <2>2 DEF RunFields
  <2> QED BY <1>2, <2>1, <2>2
<1>7. RunTyped' /\ Evicting'
  BY <1>2, <1>3, <1>6 DEF TypeOK, RunTyped, Phases, Evicting
<1>8. DOMAIN tcInv' = DOMAIN tcInv /\ tcInv'.fresh = tcInv.fresh /\ tcInv'.fresh \in BOOLEAN
  BY <1>2 DEF TypeOK, FilesTyped
<1>9. /\ FilesTyped' /\ DOMAIN tcDisk \subseteq DOMAIN tcDisk' \cup {f}
      /\ \A g : Agrees(g) => Agrees(g)'
  <2>1. CASE tcDisk' = tcDisk /\ tcInv' = [tcInv EXCEPT !.entries = Reread(tcInv.entries, {f})]
    <3>1. tcInv'.entries = Reread(tcInv.entries, {f})
      BY <2>1 DEF TypeOK, FilesTyped
    <3> QED BY <1>2, <1>8, <2>1, <3>1, RereadTyped, RereadAgrees
  <2>2. CASE tcDisk' = Drop(tcDisk, {f}) /\ tcInv' = [tcInv EXCEPT !.entries = Drop(tcInv.entries, {f})]
    <3>1. PICK F, G, H : F = tcInv.entries /\ G = Drop(F, {f}) /\ H = Drop(tcDisk, {f})
      OBVIOUS
    <3>2. Directory(F) /\ Directory(tcDisk)
      BY <3>1 DEF TypeOK, FilesTyped
    <3>3. /\ DOMAIN G = DOMAIN F \ {f} /\ \A g \in DOMAIN F \ {f} : G[g] = F[g]
          /\ DOMAIN H = DOMAIN tcDisk \ {f} /\ \A g \in DOMAIN tcDisk \ {f} : H[g] = tcDisk[g]
      BY <3>1 DEF Drop, Restrict
    <3>4. Directory(G) /\ Directory(H)
      BY <3>2, <3>3 DEF Directory
    <3>5. tcDisk' = H /\ tcInv'.entries = G
      BY <2>2, <3>1 DEF TypeOK, FilesTyped
    <3>6. FilesTyped'
      BY <1>2, <1>8, <3>4, <3>5 DEF TypeOK, FilesTyped, Directory
    <3>7. \A g : Agrees(g) => Agrees(g)'
      BY <3>1, <3>3, <3>5 DEF Agrees
    <3> QED BY <3>3, <3>5, <3>6, <3>7
  <2> QED BY <1>2, <2>1, <2>2
<1>10. Kept'
  <2>1. ASSUME NEW k \in TcJobs, Relies(k)
        PROVE  tcAct[k].dest # e
    <3>1. tcAct[k].pc = "complete" => k \in tcJobs
      BY DEF Reserved, AtJob
    <3>2. tcAct[k].pc = "complete" => tcAct[k].dest # e
      BY <1>5, <3>1 DEF Owned
    <3>3. tcAct[k].pc \in {"admit", "admitting", "open"} => tcReserved[tcAct[k].dest] = k
      BY DEF Reserved, AtReserve, AtCandidate
    <3>4. tcAct[k].pc \in {"admit", "admitting", "open"} => tcAct[k].dest # e
      BY <1>5, <3>3, TcAssumption
    <3> QED BY <2>1, <3>2, <3>4 DEF Relies
  <2>2. \A k \in TcJobs : Relies(k)' <=> Relies(k)
    BY <1>2 DEF Relies
  <2>3. \A d : Part(d) # f /\ (d # e => Final(d) # f)
    BY <1>4 DEF Final, Part
  <2> QED BY <1>2, <1>9, <2>1, <2>2, <2>3 DEF Kept
<1>11. Known'
  <2>1. \A d : InWork(d)' <=> InWork(d)
    BY <1>2 DEF InWork
  <2> QED BY <1>2, <1>8, <1>9, <2>1, StillKnown
<1>12. tcReserved' = [tcReserved EXCEPT ![e] = TcNone]
  BY <1>2, <1>4
<1> QED BY <1>2, <1>5, <1>6, <1>7, <1>9, <1>10, <1>11, <1>12, EvictionHolds

--------------------------------------------------------------------------------
LEMMA NextHolds ==
  ASSUME TcInv, [TcNext]_tcVars
  PROVE  TcInv'
<1>1. CASE UNCHANGED tcVars
  <2>1. UNCHANGED <<tcNow, tcDisk, tcReserved, tcJobs, tcAct, tcMon, cacheVars>>
    BY <1>1 DEF tcVars
  <2>2. Rest /\ MonStays
    BY <2>1, Resting, MonRests DEF TcInv
  <2> QED BY <2>1, <2>2, QuietHolds
<1>2. ASSUME NEW j \in TcJobs, NEW d \in TcDests, reserve(j, d)
      PROVE  TcInv'
  BY <1>2, ReserveHolds
<1>3. ASSUME NEW j \in TcJobs, AttemptStep(j)
      PROVE  TcInv'
  <2>1. CASE Join(j)
    BY <2>1, JoinHolds
  <2>2. CASE Look(j)
    BY <2>2, LookHolds
  <2>3. CASE RemoveStale(j)
    BY <2>3, RemoveStaleHolds
  <2>4. CASE Admit(j)
    BY <2>4, LockHolds DEF Admit
  <2>5. CASE RegisterHit(j)
    BY <2>5, RegisterHitHolds
  <2>6. CASE RegisterProducer(j)
    BY <2>6, RegisterProducerHolds
  <2>7. CASE LockPublication(j)
    BY <2>7, LockHolds DEF LockPublication
  <2>8. CASE GiveUpPublication(j)
    BY <2>8, GiveUpHolds
  <2>9. CASE Publish(j)
    BY <2>9, PublishHolds
  <2>10. CASE cleanup_intermediates(j)
    BY <2>10, CleanupHolds
  <2>11. CASE reconcile(j)
    BY <2>11, ReconcileHolds
  <2> QED BY <1>3, <2>1, <2>2, <2>3, <2>4, <2>5, <2>6, <2>7, <2>8, <2>9, <2>10, <2>11 DEF AttemptStep
<1>4. ASSUME NEW j \in TcJobs,
             Grow(j) \/ poll(j) \/ Written(j) \/ Fail(j) \/ Retry(j) \/ finish_job(j)
               \/ touch_recency(j) \/ Cancel(j)
      PROVE  TcInv'
  <2>1. CASE Grow(j)
    BY <2>1, GrowHolds
  <2>2. CASE poll(j)
    BY <2>2, PollHolds
  <2>3. CASE Written(j)
    BY <2>3, WrittenHolds
  <2>4. CASE Fail(j)
    <3>1. MonStays
      BY <2>4, MonRests DEF Fail
    <3> QED BY <2>4, <3>1, FailHolds DEF Fail
  <2>5. CASE Retry(j)
    BY <2>5, RetryHolds
  <2>6. CASE finish_job(j)
    BY <2>6, FinishJobHolds
  <2>7. CASE touch_recency(j)
    BY <2>7, TouchHolds
  <2>8. CASE Cancel(j)
    BY <2>8, CancelHolds
  <2> QED BY <1>4, <2>1, <2>2, <2>3, <2>4, <2>5, <2>6, <2>7, <2>8
<1>5. CASE Maintenance
  BY <1>5, TakeRetiredHolds, DiscoverHolds, FailureHolds, ActiveHolds, DecideHolds, CandidateHolds,
     GuardHolds, EvictHolds, SecondPassHolds, FinishHolds DEF Maintenance
<1>6. CASE CacheWorkerStep
  BY <1>6, WorkerTakesHolds, WorkerLooksHolds, WorkerGateHolds, WorkerAnswersHolds DEF CacheWorkerStep
<1>7. CASE TcShutdown
  BY <1>7, ShutdownHolds
<1>8. CASE TcTick
  BY <1>8, TickHolds
<1> QED BY <1>1, <1>2, <1>3, <1>4, <1>5, <1>6, <1>7, <1>8 DEF TcNext

\* What is known, kept and reserved is what the cache promises.
LEMMA InvKeepsCache ==
  ASSUME TcInv
  PROVE  CacheKept
<1> USE DEF TcInv
<1>1. Accounted
  <2>1. \A d : InWork(d) => Owned(d)
    BY DEF InWork, Owned, Reserved, AtJob
  <2> QED BY <2>1 DEF Accounted, Known, Agrees
<1>2. OutputsKept
  BY DEF OutputsKept, Kept
<1>3. OneOwner
  BY DEF OneOwner, Reserved, Evicting
<1> QED BY <1>1, <1>2, <1>3 DEF CacheKept

(* While nobody maintains the cache its inventory is right about every file *)
(* the next maintenance will not look at, nobody loses the output he relies *)
(* on, and nobody shares or evicts an output somebody has: for any number   *)
(* of outputs and attempts (remux/cache.rs, cache_monitor.rs).              *)
THEOREM CacheAlwaysKept == TcSpec => []CacheKept
<1>1. TcInit => TcInv
  BY InitHolds
<1>2. TcInv /\ [TcNext]_tcVars => TcInv'
  BY NextHolds
<1>3. TcInv => CacheKept
  BY InvKeepsCache
<1> QED BY <1>1, <1>2, <1>3, PTL DEF TcSpec
=============================================================================
