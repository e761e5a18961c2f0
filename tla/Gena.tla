--------------------------------- MODULE Gena ---------------------------------
(***************************************************************************)
(* GENA eventing (crates/server/src/events.rs): the subscriber table       *)
(* EventHub, the bounded coalescing queue and the workers of               *)
(* NotifyDispatcher, with the publications that feed them (App::           *)
(* notify_catalog_publication) and the requests of http_app.rs gena().     *)
(*                                                                         *)
(* Lock structure.  The hub mutex is held across sequence allocation and   *)
(* queue admission of a publication (`admitting` is non-empty meanwhile)   *)
(* and is the outer lock of a subscription and of a retirement, which are  *)
(* therefore one action each.  The queue mutex is released between the     *)
(* admissions of one publication.  A Condvar waiter is a parked worker:    *)
(* notify_one frees any one of them, and none when nobody is parked.       *)
(*                                                                         *)
(* Subscription timeouts may pass at any moment (Lapse).  The totals of    *)
(* NotifyMetrics and the XML and HTTP text are left out.                   *)
(***************************************************************************)
EXTENDS Integers, SequencesExt

CONSTANTS
  Sids,        \* subscription identifiers, fresh UUIDs: one per subscribe call
  Containers,  \* catalog containers named in ContainerUpdateIDs
  Workers,     \* threads of the dispatcher, NOTIFY_WORKERS
  capacity,    \* SIDs with queued or running notifications, NOTIFY_QUEUE_CAPACITY
  MAX_SUBSCRIBERS,
  MAX_CONSECUTIVE_FAILURES,
  MAX_PENDING_CONTAINER_IDS,
  MAX_PENDING_CONTAINER_BYTES,
  IdLen,       \* id.len() of every container
  SeqModulus,      \* SEQ is a u32: 2^32
  Attempts,    \* sends per notification: the delays 0, 100, 250 ms make three
  MaxUpdates   \* bound: publications

ASSUME GenaAssumption ==
  /\ IsFiniteSet(Sids) /\ IsFiniteSet(Containers) /\ IsFiniteSet(Workers)
  /\ Workers # {}                    \* with_limits applies max(1)
  /\ capacity \in Nat
  /\ MAX_SUBSCRIBERS \in Nat
  /\ MAX_CONSECUTIVE_FAILURES \in Nat \ {0}
  /\ MAX_PENDING_CONTAINER_IDS \in Nat
  /\ MAX_PENDING_CONTAINER_BYTES \in Nat
  /\ IdLen \in [Containers -> Nat]
  /\ SeqModulus \in Nat /\ SeqModulus > 1
  /\ Attempts \in Nat \ {0}
  /\ MaxUpdates \in Nat

VARIABLES
  subs,        \* EventHub.subs, in subscription order
  lapsed,      \* subscriptions whose timeout has passed and gc has not seen
  used,        \* SIDs handed out
  update_id,   \* App.update_id, the published SystemUpdateID
  publication, \* <<ids>> from the store of update_id to sequence allocation
  admitting,   \* jobs of a publication not yet offered to the queue
  pending,     \* QueueState.pending; <<>> where the map has no entry
  ready,       \* QueueState.ready
  in_flight,   \* QueueState.in_flight
  stopped,     \* QueueState.stopped
  stopping,    \* NotifyShared.stopping
  phase,          \* where each worker is
  job,         \* the notification a worker took from the queue
  attempt,     \* sends made for it
  delivered,   \* the worker's local `delivered`
  seen,        \* what each callback last received
  owed,        \* per SID, newest update of each container the queue accepted
  lost         \* SIDs that had a notification refused or given up

hub == <<subs, lapsed, used>>
feed == <<update_id, publication, admitting>>
queueState == <<pending, ready, in_flight, stopped>>
worker == <<phase, job, attempt, delivered>>
ghost == <<seen, owed, lost>>
genaVars == <<hub, feed, queueState, stopping, worker, ghost>>

Services == {"ContentDir", "Other"}   \* Other: ConnMgr and Registrar

NoUpdates == [c \in Containers |-> 0]

GenaInit ==
  /\ subs = <<>> /\ lapsed = {} /\ used = {}
  /\ update_id = 0 /\ publication = <<>> /\ admitting = <<>>
  /\ pending = [s \in Sids |-> <<>>] /\ ready = <<>> /\ in_flight = {}
  /\ stopped = FALSE /\ stopping = FALSE
  /\ phase = [w \in Workers |-> "check"]
  /\ job = [w \in Workers |-> <<>>]
  /\ attempt = [w \in Workers |-> 0]
  /\ delivered = [w \in Workers |-> FALSE]
  /\ seen = [s \in Sids |-> <<>>]
  /\ owed = [s \in Sids |-> NoUpdates]
  /\ lost = {}

-----------------------------------------------------------------------------
(* Notification bodies: NotifyBody, ContentDirUpdate.                      *)

Snapshot(u) ==
  [kind |-> "Snapshot", update_id |-> u, containers |-> <<>>, resubscribe |-> FALSE]

\* ContentDirUpdate::insert over a set of containers: the delta stays within
\* both limits, or it is cleared and replaced by the sticky resubscribe mark.
Fits(cs) ==
  /\ Cardinality(DOMAIN cs) <= MAX_PENDING_CONTAINER_IDS
  /\ MapThenSumSet(LAMBDA c : IdLen[c], DOMAIN cs) <= MAX_PENDING_CONTAINER_BYTES

Delta(u, cs, resubscribe) ==
  [kind |-> "ContentDir", update_id |-> u,
   containers |-> IF resubscribe \/ ~Fits(cs) THEN <<>> ELSE cs,
   resubscribe |-> resubscribe \/ ~Fits(cs)]

\* ContentDirUpdate::new.
ContentDirUpdate(u, ids) == Delta(u, [c \in ids |-> u], FALSE)

\* Mutant: the newer body replaces the queued one.
merge_replaces(old, new) == new

\* QueuedNotify::merge and ContentDirUpdate::merge: the newer job, and for
\* two content updates the union of their containers, newer ids first.
merge(old, new) ==
  IF old.body.kind = "ContentDir" /\ new.body.kind = "ContentDir"
  THEN [new EXCEPT !.body =
          Delta(@.update_id, @.containers @@ old.body.containers,
                @.resubscribe \/ old.body.resubscribe)]
  ELSE new

-----------------------------------------------------------------------------
(* QueueState, under its mutex.                                            *)

\* The deque of one SID after enqueue: an initial event (SEQ 0) stays first
\* and alone; later ones coalesce into the last entry.
Queued(deque, n) ==
  IF deque = <<>> THEN <<n>>
  ELSE IF n.seq = 0
  THEN IF Head(deque).seq = 0 THEN ReplaceAt(deque, 1, n) ELSE <<n>> \o deque
  ELSE IF Head(deque).seq = 0 /\ Len(deque) = 1
  THEN Append(deque, n)
  ELSE ReplaceAt(deque, Len(deque), merge(Last(deque), n))

\* The SIDs that count against the capacity.
Busy == in_flight \cup {s \in Sids : pending[s] # <<>>}

\* Mutant: one SID too many.
Accepts_off_by_one(s) ==
  /\ ~stopped /\ ~stopping
  /\ s \in Busy \/ Cardinality(Busy) <= capacity

Accepts(s) ==
  /\ ~stopped /\ ~stopping
  /\ s \in Busy \/ Cardinality(Busy) < capacity

Parked == {w \in Workers : phase[w] = "parked"}

\* Condvar::notify_one, on the workers' program counters p.
NotifyOne(p) ==
  IF \A w \in Workers : p[w] # "parked"
  THEN phase' = p
  ELSE \E w \in {v \in Workers : p[v] = "parked"} : phase' = [p EXCEPT ![w] = "check"]

\* Mutant: a SID with a notification in flight is made ready at once.
Enqueue_ready_at_once(n) ==
  /\ pending' = [pending EXCEPT ![n.sid] = Queued(@, n)]
  /\ ready' = IF pending[n.sid] = <<>> THEN Append(ready, n.sid) ELSE ready
  /\ owed' = [owed EXCEPT ![n.sid] = n.body.containers @@ @]
  /\ NotifyOne(phase)
  /\ UNCHANGED <<in_flight, stopped>>

\* An accepted enqueue_body.  A SID becomes ready when it is not being sent;
\* complete makes it ready otherwise.
Enqueue(n) ==
  /\ pending' = [pending EXCEPT ![n.sid] = Queued(@, n)]
  /\ ready' = IF n.sid \notin Busy THEN Append(ready, n.sid) ELSE ready
  /\ owed' = [owed EXCEPT ![n.sid] = n.body.containers @@ @]
  /\ NotifyOne(phase)
  /\ UNCHANGED <<in_flight, stopped>>

-----------------------------------------------------------------------------
(* EventHub, under its mutex.                                              *)

HubFree == admitting = <<>>

\* gc: every operation of the hub except record_delivery starts with it.
Kept == SelectSeq(subs, LAMBDA s : s.sid \notin lapsed)

Without(ss, sid) == SelectSeq(ss, LAMBDA s : s.sid # sid)

Subscribed == {subs[i].sid : i \in 1..Len(subs)}

\* renew, len and an unsubscribe of an unknown SID change no more than gc.
gc ==
  /\ HubFree
  /\ subs' = Kept
  /\ lapsed' = {}
  /\ UNCHANGED <<used, feed, queueState, stopping, worker, ghost>>

\* Mutant: the snapshot's id is read before the hub lock is taken.
subscribe_early_read(sid, service) ==
  \E u \in {update_id, update_id - 1} :
    LET n == [sid |-> sid, seq |-> 0, body |-> Snapshot(IF u < 0 THEN 0 ELSE u)]
        s == [sid |-> sid, service |-> service, seq |-> 1, failures |-> 0]
    IN
    /\ HubFree
    /\ sid \notin used
    /\ used' = used \cup {sid}
    /\ lapsed' = {}
    /\ IF Len(Kept) < MAX_SUBSCRIBERS /\ Accepts(sid)
       THEN subs' = Append(Kept, s) /\ Enqueue(n)
       ELSE subs' = Kept /\ UNCHANGED <<queueState, phase, owed>>
    /\ UNCHANGED <<feed, stopping, job, attempt, delivered, seen, lost>>

\* subscribe_and_enqueue_initial: table full (412), queue refusal (503, the
\* new entry is taken out again) or success with the initial event queued.
subscribe(sid, service) ==
  LET n == [sid |-> sid, seq |-> 0, body |-> Snapshot(update_id)]
      s == [sid |-> sid, service |-> service, seq |-> 1, failures |-> 0]
  IN
  /\ HubFree
  /\ sid \notin used
  /\ used' = used \cup {sid}
  /\ lapsed' = {}
  /\ IF Len(Kept) < MAX_SUBSCRIBERS /\ Accepts(sid)
     THEN /\ subs' = Append(Kept, s)
          /\ Enqueue(n)
     ELSE /\ subs' = Kept
          /\ UNCHANGED <<queueState, phase, owed>>
  /\ UNCHANGED <<feed, stopping, job, attempt, delivered, seen, lost>>

unsubscribe(sid) ==
  /\ HubFree
  /\ sid \in Subscribed
  /\ subs' = Without(Kept, sid)
  /\ lapsed' = {}
  /\ UNCHANGED <<used, feed, queueState, stopping, worker, ghost>>

\* The timeout of a subscription passes.
Lapse(sid) ==
  /\ sid \in Subscribed \ lapsed
  /\ lapsed' = lapsed \cup {sid}
  /\ UNCHANGED <<subs, used, feed, queueState, stopping, worker, ghost>>

-----------------------------------------------------------------------------
(* A publication, serialised by App.catalog_publication.                   *)

\* The new SystemUpdateID is stored; notify_catalog_publication follows, with
\* the parents of a changed bookmark or no container after a scan.
Publish(ids) ==
  /\ publication = <<>> /\ admitting = <<>>
  /\ update_id < MaxUpdates
  /\ update_id' = update_id + 1
  /\ publication' = <<ids>>
  /\ UNCHANGED <<hub, admitting, queueState, stopping, worker, ghost>>

\* Mutant: SEQ wraps to zero.
NextSeq_zero(seq) == (seq + 1) % SeqModulus

\* SEQ after seq: it wraps past zero, which only an initial event carries.
NextSeq(seq) == IF (seq + 1) % SeqModulus = 0 THEN 1 ELSE (seq + 1) % SeqModulus

\* take_content_dir_notifies, under the hub lock that admission keeps.
take_content_dir_notifies ==
  LET body == ContentDirUpdate(update_id, publication[1])
      chosen == SelectSeq(Kept, LAMBDA s : s.service = "ContentDir")
  IN
  /\ HubFree
  /\ publication # <<>>
  /\ subs' = [i \in 1..Len(Kept) |->
                IF Kept[i].service = "ContentDir"
                THEN [Kept[i] EXCEPT !.seq = NextSeq(@)] ELSE Kept[i]]
  /\ lapsed' = {}
  /\ admitting' = [i \in 1..Len(chosen) |->
                     [sid |-> chosen[i].sid, seq |-> chosen[i].seq, body |-> body]]
  /\ publication' = <<>>
  /\ UNCHANGED <<used, update_id, queueState, stopping, worker, ghost>>

\* One turn of the loop of admit_content_dir_jobs.
admit_content_dir_job ==
  LET n == Head(admitting) IN
  /\ admitting # <<>>
  /\ admitting' = Tail(admitting)
  /\ IF Accepts(n.sid)
     THEN Enqueue(n) /\ UNCHANGED lost
     ELSE /\ lost' = lost \cup {n.sid}
          /\ UNCHANGED <<queueState, phase, owed>>
  /\ UNCHANGED <<hub, update_id, publication, stopping, job, attempt, delivered, seen>>

-----------------------------------------------------------------------------
(* notify_worker.                                                          *)

\* Under the queue lock: nothing to do.
Park(w) ==
  /\ phase[w] = "check" /\ ~stopped /\ ~stopping
  /\ ready = <<>>
  /\ phase' = [phase EXCEPT ![w] = "parked"]
  /\ UNCHANGED <<hub, feed, queueState, stopping, job, attempt, delivered, ghost>>

WorkerExit(w) ==
  /\ phase[w] = "check" /\ (stopped \/ stopping)
  /\ phase' = [phase EXCEPT ![w] = "exited"]
  /\ UNCHANGED <<hub, feed, queueState, stopping, job, attempt, delivered, ghost>>

\* QueueState::take: the oldest ready SID and the front of its deque.
take(w) ==
  LET sid == Head(ready) IN
  /\ phase[w] = "check" /\ ~stopped /\ ~stopping
  /\ ready # <<>>
  /\ ready' = Tail(ready)
  /\ IF pending[sid] = <<>>
     THEN UNCHANGED <<pending, in_flight, phase, job>>
     ELSE /\ pending' = [pending EXCEPT ![sid] = Tail(@)]
          /\ in_flight' = in_flight \cup {sid}
          /\ job' = [job EXCEPT ![w] = Head(pending[sid])]
          /\ phase' = [phase EXCEPT ![w] = IF Head(pending[sid]).body.resubscribe
                                      THEN "retire" ELSE "send"]
  /\ UNCHANGED <<hub, feed, stopped, stopping, attempt, delivered, ghost>>

\* Mutant: the SID is retired from the table only.
Retire_keeps_pending(w) ==
  /\ phase[w] = "retire" /\ HubFree
  /\ subs' = Without(Kept, job[w].sid)
  /\ lapsed' = {}
  /\ phase' = [phase EXCEPT ![w] = "send"]
  /\ UNCHANGED <<used, feed, queueState, stopping, job, attempt, delivered, ghost>>

\* An overflowed delta retires its SID: hub lock, then queue lock.
Retire(w) ==
  /\ phase[w] = "retire" /\ HubFree
  /\ subs' = Without(Kept, job[w].sid)
  /\ lapsed' = {}
  /\ pending' = [pending EXCEPT ![job[w].sid] = <<>>]
  /\ ready' = SelectSeq(ready, LAMBDA s : s # job[w].sid)
  /\ phase' = [phase EXCEPT ![w] = "send"]
  /\ UNCHANGED <<used, feed, in_flight, stopped, stopping, job, attempt, delivered, ghost>>

\* What the callback knows after receiving notification n.
Received(s, n) ==
  [seq |-> n.seq, update_id |-> n.body.update_id,
   containers |-> n.body.containers @@ (IF s = <<>> THEN NoUpdates ELSE s[1].containers)]

\* One call of send_notify_until_stopped.  The renderer may have received
\* the notification although its answer was late, missing or an error.
Send(w) ==
  LET n == job[w] IN
  /\ phase[w] = "send" /\ ~stopping
  /\ \E outcome \in {"Delivered", "RetryableFailure", "PermanentFailure"},
        received \in BOOLEAN :
       /\ outcome = "Delivered" => received
       /\ seen' = IF received
                  THEN [seen EXCEPT ![n.sid] = <<Received(@, n)>>] ELSE seen
       /\ delivered' = [delivered EXCEPT ![w] = outcome = "Delivered"]
       /\ attempt' = [attempt EXCEPT ![w] = @ + 1]
       /\ phase' = IF outcome = "RetryableFailure" /\ attempt[w] + 1 < Attempts
                THEN phase ELSE [phase EXCEPT ![w] = "record"]
  /\ UNCHANGED <<hub, feed, queueState, stopping, job, owed, lost>>

\* The worker sees `stopping` before an attempt and gives the rest up.
StopSending(w) ==
  /\ phase[w] = "send" /\ stopping
  /\ phase' = [phase EXCEPT ![w] = "record"]
  /\ UNCHANGED <<hub, feed, queueState, stopping, job, attempt, delivered, ghost>>

\* EventHub::record_delivery on the entry of one SID; not while stopping.
record_delivery(w) ==
  LET sid == job[w].sid
      counted == [i \in 1..Len(subs) |->
                    IF subs[i].sid = sid
                    THEN [subs[i] EXCEPT !.failures = IF delivered[w] THEN 0 ELSE @ + 1]
                    ELSE subs[i]]
  IN
  /\ phase[w] = "record"
  /\ \/ stopping /\ UNCHANGED subs
     \/ /\ ~stopping /\ HubFree
        /\ subs' = SelectSeq(counted,
                     LAMBDA s : s.sid = sid => s.failures < MAX_CONSECUTIVE_FAILURES)
  /\ lost' = IF delivered[w] THEN lost ELSE lost \cup {sid}
  /\ phase' = [phase EXCEPT ![w] = "complete"]
  /\ UNCHANGED <<lapsed, used, feed, queueState, stopping, job, attempt, delivered, seen, owed>>

\* Mutant: the SID leaves in_flight and its queued successor stays unready.
complete_not_ready(w) ==
  /\ phase[w] = "complete"
  /\ in_flight' = in_flight \ {job[w].sid}
  /\ job' = [job EXCEPT ![w] = <<>>]
  /\ attempt' = [attempt EXCEPT ![w] = 0]
  /\ delivered' = [delivered EXCEPT ![w] = FALSE]
  /\ NotifyOne([phase EXCEPT ![w] = "check"])
  /\ UNCHANGED <<hub, feed, pending, ready, stopped, stopping, ghost>>

\* QueueState::complete, then notify_one; the worker's locals go out of scope.
complete(w) ==
  LET sid == job[w].sid IN
  /\ phase[w] = "complete"
  /\ in_flight' = in_flight \ {sid}
  /\ ready' = IF pending[sid] # <<>> /\ ~Contains(ready, sid) THEN Append(ready, sid) ELSE ready
  /\ job' = [job EXCEPT ![w] = <<>>]
  /\ attempt' = [attempt EXCEPT ![w] = 0]
  /\ delivered' = [delivered EXCEPT ![w] = FALSE]
  /\ NotifyOne([phase EXCEPT ![w] = "check"])
  /\ UNCHANGED <<hub, feed, pending, stopped, stopping, ghost>>

-----------------------------------------------------------------------------
(* begin_shutdown: the flag first, then the queue under its lock.          *)

BeginShutdown ==
  /\ ~stopping
  /\ stopping' = TRUE
  /\ UNCHANGED <<hub, feed, queueState, worker, ghost>>

\* Mutant: the parked workers are not woken.
StopQueue_no_wakeup ==
  /\ stopping /\ ~stopped
  /\ stopped' = TRUE
  /\ pending' = [s \in Sids |-> <<>>]
  /\ ready' = <<>>
  /\ UNCHANGED <<hub, feed, in_flight, stopping, worker, ghost>>

StopQueue ==
  /\ stopping /\ ~stopped
  /\ stopped' = TRUE
  /\ pending' = [s \in Sids |-> <<>>]
  /\ ready' = <<>>
  /\ phase' = [w \in Workers |-> IF phase[w] = "parked" THEN "check" ELSE phase[w]]
  /\ UNCHANGED <<hub, feed, in_flight, stopping, job, attempt, delivered, ghost>>

-----------------------------------------------------------------------------
NotifyWorkerStep(w) ==
  \/ Park(w) \/ WorkerExit(w) \/ take(w) \/ Retire(w)
  \/ Send(w) \/ StopSending(w) \/ record_delivery(w) \/ complete(w)

GenaNext ==
  \/ gc
  \/ \E s \in Sids : (\E v \in Services : subscribe(s, v)) \/ unsubscribe(s) \/ Lapse(s)
  \/ \E ids \in SUBSET Containers : Publish(ids)
  \/ take_content_dir_notifies
  \/ admit_content_dir_job
  \/ \E w \in Workers : NotifyWorkerStep(w)
  \/ BeginShutdown
  \/ StopQueue

GenaSpec == GenaInit /\ [][GenaNext]_genaVars

\* Every lock holder and every runnable worker goes on: the sends have an
\* absolute budget of 2.7 s each and nothing else blocks.
GenaFairness ==
  /\ WF_genaVars(take_content_dir_notifies)
  /\ WF_genaVars(admit_content_dir_job)
  /\ WF_genaVars(StopQueue)
  /\ \A w \in Workers : WF_genaVars(NotifyWorkerStep(w))

GenaFairSpec == GenaSpec /\ GenaFairness

-----------------------------------------------------------------------------
(* Properties.                                                             *)

Bodies ==
  [kind : {"Snapshot", "ContentDir"}, update_id : 0..MaxUpdates,
   containers : UNION {[C -> 0..MaxUpdates] : C \in SUBSET Containers}, resubscribe : BOOLEAN]

Notifies == [sid : Sids, seq : 0..SeqModulus - 1, body : Bodies]

GenaTypeOK ==
  /\ \A i \in 1..Len(subs) :
       subs[i] \in [sid : Sids, service : Services, seq : 1..SeqModulus - 1,
                    failures : 0..MAX_CONSECUTIVE_FAILURES - 1]
  /\ lapsed \subseteq Sids /\ used \subseteq Sids
  /\ update_id \in 0..MaxUpdates
  /\ publication \in {<<>>} \cup {<<ids>> : ids \in SUBSET Containers}
  /\ \A i \in 1..Len(admitting) : admitting[i] \in Notifies
  /\ DOMAIN pending = Sids
  /\ \A s \in Sids : \A i \in 1..Len(pending[s]) : pending[s][i] \in Notifies
  /\ \A i \in 1..Len(ready) : ready[i] \in Sids
  /\ in_flight \subseteq Sids
  /\ stopped \in BOOLEAN /\ stopping \in BOOLEAN
  /\ phase \in [Workers -> {"check", "parked", "retire", "send", "record", "complete", "exited"}]
  /\ DOMAIN job = Workers
  /\ attempt \in [Workers -> 0..Attempts]
  /\ delivered \in [Workers -> BOOLEAN]
  /\ DOMAIN seen = Sids
  /\ owed \in [Sids -> [Containers -> 0..MaxUpdates]]
  /\ lost \subseteq Sids

Sending == {w \in Workers : phase[w] \in {"retire", "send", "record", "complete"}}

\* Two workers never send to one subscriber at the same time, in_flight is
\* exactly what they send, and the SIDs ready to be taken are exactly the
\* queued ones nobody is sending to, each once: nothing queued is forgotten.
QueueConsistent ==
  /\ in_flight = {job[w].sid : w \in Sending}
  /\ \A v, w \in Sending : job[v].sid = job[w].sid => v = w
  /\ {ready[i] : i \in 1..Len(ready)} = {s \in Sids : pending[s] # <<>>} \ in_flight
  /\ IsInjective(ready)

\* The memory of the queue is bounded whatever the publication rate: SIDs by
\* the capacity, entries per SID by two, of which the first is the initial one.
QueueBounded ==
  /\ Cardinality(Busy) <= capacity
  /\ Len(subs) <= MAX_SUBSCRIBERS
  /\ \A s \in Sids :
       \/ Len(pending[s]) <= 1
       \/ Len(pending[s]) = 2 /\ pending[s][1].seq = 0 /\ pending[s][2].seq # 0

\* A renderer never sees its SystemUpdateID go back, and SEQ 0, "no later
\* notification can overtake sequence zero", is only ever its first event or
\* a repetition of it.
InOrder ==
  [][\A s \in Sids :
       seen'[s] # seen[s] /\ seen[s] # <<>> =>
         /\ seen'[s][1].update_id >= seen[s][1].update_id
         /\ seen'[s][1].seq = 0 => seen[s][1].seq = 0]_genaVars

\* The newest thing on its way to a subscriber, or known to it.
Newest(s) ==
  IF pending[s] # <<>> THEN {Last(pending[s]).body.update_id}
  ELSE IF s \in in_flight THEN {job[w].body.update_id : w \in {v \in Sending : job[v].sid = s}}
  ELSE {seen[s][i].update_id : i \in 1..Len(seen[s])}

\* No publication slips between a subscription's snapshot and its first
\* update: a content subscriber none of whose notifications was refused or
\* given up is on its way to the published SystemUpdateID, once the current
\* publication has been admitted.
NoMissedUpdate ==
  \A i \in 1..Len(subs) :
    LET s == subs[i].sid IN
    /\ subs[i].service = "ContentDir" /\ s \notin lost /\ ~stopping
    /\ publication = <<>> /\ \A k \in 1..Len(admitting) : admitting[k].sid # s
    => Newest(s) = {update_id}

\* Every container invalidation the queue accepted for a subscriber is known
\* to its renderer, on its way, or covered by the order to subscribe afresh:
\* coalescing drops none of them.
Carries(n, c, u) ==
  n.body.resubscribe \/ (c \in DOMAIN n.body.containers /\ n.body.containers[c] >= u)

NoLostInvalidation ==
  \A s \in Subscribed, c \in Containers :
    \/ owed[s][c] = 0
    \/ s \in lost \/ stopping
    \/ \E i \in 1..Len(seen[s]) : seen[s][i].containers[c] >= owed[s][c]
    \/ \E w \in Sending : job[w].sid = s /\ Carries(job[w], c, owed[s][c])
    \/ \E i \in 1..Len(pending[s]) : Carries(pending[s][i], c, owed[s][c])

\* A retired SID falls silent: once its overflowed delta has been taken out of
\* the table, nothing is queued for it any more.
RetiredIsSilent ==
  \A w \in Sending :
    phase[w] # "retire" /\ job[w].body.resubscribe =>
      pending[job[w].sid] = <<>> /\ job[w].sid \notin Subscribed

\* A queued notification is taken by some worker, or the dispatcher stops: no
\* wake-up is lost between enqueue, complete and a worker about to park.
Drained ==
  \A s \in Sids : []<>(pending[s] = <<>> \/ stopping)

\* Shutdown ends: every worker leaves its loop.
ShutdownCompletes == []<>(stopping => \A w \in Workers : phase[w] = "exited")

\* The notification queue in every interleaving: its three parts agree, it
\* keeps its limits, nothing is queued for a retired SID, and no subscriber
\* misses an update or an invalidation (NotifyDispatcher, EventHub).
SubscribersInformed ==
  /\ GenaTypeOK /\ QueueConsistent /\ QueueBounded
  /\ NoMissedUpdate /\ NoLostInvalidation /\ RetiredIsSilent

\* Whatever is queued is taken, and begin_shutdown ends every worker.
WorkersFinish == Drained /\ ShutdownCompletes

=============================================================================
