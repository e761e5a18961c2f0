------------------------------ MODULE HelperGate ------------------------------
(***************************************************************************)
(* The process-wide admission gate for media helpers                       *)
(* (crates/helper/src/gate.rs, HelperGate and HelperPermit).               *)
(*                                                                         *)
(* Every operation runs under the gate's mutex, so each is one action.  A  *)
(* waiter in acquire_timeout_until gives the mutex up only inside          *)
(* Condvar::wait_timeout, which returns after at most 20 ms: one pass of   *)
(* its loop is one action, and a pass that finds nothing is a stutter.     *)
(* Time is not measured: a deadline may pass at any moment (Expire).       *)
(***************************************************************************)
EXTENDS Integers, SequencesExt

CONSTANTS
  Threads,        \* callers of the gate; each has one call or permit at a time
  max_active,     \* slots of the gate
  queue_capacity, \* waiters the gate accepts
  MaxGroup,       \* bound: largest group passed to try_acquire_many
  MaxCalls        \* bound: calls made (the counters and tickets are u64s)

ASSUME GateAssumption ==
  /\ IsFiniteSet(Threads)
  /\ max_active \in Nat \ {0}        \* HelperGate::new applies max(1)
  /\ queue_capacity \in Nat
  /\ MaxGroup \in Nat
  /\ MaxCalls \in Nat

VARIABLES
  active,       \* HelperGateState.active
  queue,        \* HelperGateState.queue: tickets, oldest first
  next_ticket,  \* HelperGateState.next_ticket
  pc,           \* "idle", "waiting" (inside the wait loop) or "holding"
  ticket,       \* the local `ticket` of a waiting thread
  slots,        \* HelperPermit.slots of a holding thread, 0 without a permit
  cancelled,    \* waiting threads whose CancellationToken has been set
  expired,      \* waiting threads whose deadline has passed
  metrics,      \* the totals of HelperMetrics
  calls         \* calls made so far, for MaxCalls

vars == <<active, queue, next_ticket, pc, ticket, slots, cancelled, expired,
          metrics, calls>>

Counters == {"admitted", "saturated", "queued", "rejected", "timed_out"}

Init ==
  /\ active = 0
  /\ queue = <<>>
  /\ next_ticket = 0
  /\ pc = [t \in Threads |-> "idle"]
  /\ ticket = [t \in Threads |-> 0]
  /\ slots = [t \in Threads |-> 0]
  /\ cancelled = {}
  /\ expired = {}
  /\ metrics = [c \in Counters |-> 0]
  /\ calls = 0

-----------------------------------------------------------------------------
(* Effects shared by the operations.                                       *)

\* fn admit: the slots are taken and counted, and the permit is handed out.
admit(t, n) ==
  /\ active' = active + n
  /\ metrics' = [metrics EXCEPT !["admitted"] = @ + n]
  /\ slots' = [slots EXCEPT ![t] = n]
  /\ pc' = [pc EXCEPT ![t] = "holding"]

\* A new call of an idle thread.
Call(t) ==
  /\ pc[t] = "idle"
  /\ calls < MaxCalls
  /\ calls' = calls + 1

\* The first queued ticket, when there is one.
IsFront(k) == queue # <<>> /\ Head(queue) = k

\* Mutant: the caller gives up and its ticket stays in the queue.
LeaveQueue_ticket_stays(t) ==
  /\ pc' = [pc EXCEPT ![t] = "idle"]
  /\ cancelled' = cancelled \ {t}
  /\ expired' = expired \ {t}
  /\ UNCHANGED <<active, queue, next_ticket, ticket, slots, calls>>

\* A waiter leaves acquire_timeout_until with an error: its ticket is looked
\* up with position() and removed, if it is there.
LeaveQueue(t) ==
  /\ queue' = RemoveFirst(queue, ticket[t])
  /\ pc' = [pc EXCEPT ![t] = "idle"]
  /\ cancelled' = cancelled \ {t}
  /\ expired' = expired \ {t}
  /\ UNCHANGED <<active, next_ticket, ticket, slots, calls>>

-----------------------------------------------------------------------------
(* The operations.                                                         *)

\* Mutant: a group is admitted when one slot is free.
try_acquire_many_one_free(t, n) ==
  /\ Call(t)
  /\ IF n > 0 /\ active < max_active /\ queue = <<>>
     THEN admit(t, n)
     ELSE /\ metrics' = [metrics EXCEPT !["saturated"] = @ + 1, !["rejected"] = @ + 1]
          /\ UNCHANGED <<active, slots, pc>>
  /\ UNCHANGED <<queue, next_ticket, ticket, cancelled, expired>>

\* try_acquire_many, and try_acquire for n = 1: all slots now or an error.
try_acquire_many(t, n) ==
  /\ Call(t)
  /\ IF n > 0 /\ n <= max_active - active /\ queue = <<>>
     THEN admit(t, n)
     ELSE /\ metrics' = [metrics EXCEPT !["saturated"] = @ + 1, !["rejected"] = @ + 1]
          /\ UNCHANGED <<active, slots, pc>>
  /\ UNCHANGED <<queue, next_ticket, ticket, cancelled, expired>>

\* Mutant: the queue is not looked at.
try_acquire_idle_bypass(t) ==
  /\ Call(t)
  /\ IF active < max_active
     THEN admit(t, 1)
     ELSE UNCHANGED <<active, metrics, slots, pc>>
  /\ UNCHANGED <<queue, next_ticket, ticket, cancelled, expired>>

\* Opportunistic admission: a skip is not counted.
try_acquire_idle(t) ==
  /\ Call(t)
  /\ IF active < max_active /\ queue = <<>>
     THEN admit(t, 1)
     ELSE UNCHANGED <<active, metrics, slots, pc>>
  /\ UNCHANGED <<queue, next_ticket, ticket, cancelled, expired>>

\* acquire_timeout_until up to the first wait.  A token that is already set
\* returns Cancelled before the gate is touched or counted.
AcquireAlreadyCancelled(t) ==
  /\ Call(t)
  /\ UNCHANGED <<active, queue, next_ticket, pc, ticket, slots, cancelled, expired, metrics>>

acquire_timeout(t) ==
  /\ Call(t)
  /\ \/ /\ active < max_active /\ queue = <<>>
        /\ admit(t, 1)
        /\ UNCHANGED <<queue, next_ticket, ticket>>
     \/ /\ ~(active < max_active /\ queue = <<>>)
        /\ Len(queue) >= queue_capacity
        /\ metrics' = [metrics EXCEPT !["saturated"] = @ + 1, !["rejected"] = @ + 1]
        /\ UNCHANGED <<active, queue, next_ticket, pc, ticket, slots>>
     \/ /\ ~(active < max_active /\ queue = <<>>)
        /\ Len(queue) < queue_capacity
        /\ metrics' = [metrics EXCEPT !["saturated"] = @ + 1, !["queued"] = @ + 1]
        /\ ticket' = [ticket EXCEPT ![t] = next_ticket]
        /\ next_ticket' = next_ticket + 1
        /\ queue' = Append(queue, next_ticket)
        /\ pc' = [pc EXCEPT ![t] = "waiting"]
        /\ UNCHANGED <<active, slots>>
  /\ UNCHANGED <<cancelled, expired>>

\* One pass of the wait loop, in the code's order: cancellation, admission,
\* deadline.
WaitCancelled(t) ==
  /\ pc[t] = "waiting"
  /\ t \in cancelled
  /\ LeaveQueue(t)
  /\ UNCHANGED metrics

WaitAdmitted(t) ==
  /\ pc[t] = "waiting"
  /\ t \notin cancelled
  /\ active < max_active
  /\ IsFront(ticket[t])
  /\ queue' = Tail(queue)
  /\ admit(t, 1)
  /\ expired' = expired \ {t}
  /\ UNCHANGED <<next_ticket, ticket, cancelled, calls>>

\* Mutant: a timed out caller is counted as a rejected one as well.
WaitTimedOut_counted_twice(t) ==
  /\ pc[t] = "waiting"
  /\ t \notin cancelled
  /\ ~(active < max_active /\ IsFront(ticket[t]))
  /\ t \in expired
  /\ LeaveQueue(t)
  /\ metrics' = [metrics EXCEPT !["timed_out"] = @ + 1, !["rejected"] = @ + 1]

WaitTimedOut(t) ==
  /\ pc[t] = "waiting"
  /\ t \notin cancelled
  /\ ~(active < max_active /\ IsFront(ticket[t]))
  /\ t \in expired
  /\ LeaveQueue(t)
  /\ metrics' = [metrics EXCEPT !["timed_out"] = @ + 1]

WaitLoop(t) == WaitCancelled(t) \/ WaitAdmitted(t) \/ WaitTimedOut(t)

\* Mutant: a permit releases its slots twice, without saturating.
DropPermit_twice(t) ==
  /\ pc[t] = "holding"
  /\ active' = active - 2 * slots[t]
  /\ slots' = [slots EXCEPT ![t] = 0]
  /\ pc' = [pc EXCEPT ![t] = "idle"]
  /\ UNCHANGED <<queue, next_ticket, ticket, cancelled, expired, metrics, calls>>

\* impl Drop for HelperPermit, with its saturating_sub.
DropPermit(t) ==
  /\ pc[t] = "holding"
  /\ active' = IF slots[t] <= active THEN active - slots[t] ELSE 0
  /\ slots' = [slots EXCEPT ![t] = 0]
  /\ pc' = [pc EXCEPT ![t] = "idle"]
  /\ UNCHANGED <<queue, next_ticket, ticket, cancelled, expired, metrics, calls>>

\* CancellationToken::cancel by the owner of a waiting caller's token.
Cancel(t) ==
  /\ pc[t] = "waiting"
  /\ t \notin cancelled
  /\ cancelled' = cancelled \cup {t}
  /\ UNCHANGED <<active, queue, next_ticket, pc, ticket, slots, expired, metrics, calls>>

\* The deadline of a waiting caller passes.
Expire(t) ==
  /\ pc[t] = "waiting"
  /\ t \notin expired
  /\ expired' = expired \cup {t}
  /\ UNCHANGED <<active, queue, next_ticket, pc, ticket, slots, cancelled, metrics, calls>>

\* The calls the model allows are used up and every one has returned.
Finished ==
  /\ calls = MaxCalls
  /\ \A t \in Threads : pc[t] = "idle"
  /\ UNCHANGED vars

GateNext ==
  \E t \in Threads :
    \/ \E n \in 0..MaxGroup : try_acquire_many(t, n)
    \/ try_acquire_idle(t)
    \/ AcquireAlreadyCancelled(t)
    \/ acquire_timeout(t)
    \/ WaitCancelled(t)
    \/ WaitAdmitted(t)
    \/ WaitTimedOut(t)
    \/ DropPermit(t)
    \/ Cancel(t)
    \/ Expire(t)

Next == GateNext \/ Finished

Spec == Init /\ [][Next]_vars

\* A waiter's loop runs again at least every 20 ms, and a permit is dropped
\* when its helper ends: SupervisedCommand bounds every helper's runtime.
Fairness ==
  \A t \in Threads : WF_vars(WaitLoop(t)) /\ WF_vars(DropPermit(t))

FairSpec == Spec /\ Fairness

-----------------------------------------------------------------------------
(* Properties.                                                             *)

TypeOK ==
  /\ active \in Nat
  /\ queue \in Seq(Nat)
  /\ next_ticket \in Nat
  /\ pc \in [Threads -> {"idle", "waiting", "holding"}]
  /\ ticket \in [Threads -> Nat]
  /\ slots \in [Threads -> Nat]
  /\ cancelled \subseteq Threads
  /\ expired \subseteq Threads
  /\ metrics \in [Counters -> Nat]
  /\ calls \in Nat

\* The slots that permits of sizes f stand for, one pair per slot.
SlotSet(f) == {p \in Threads \X (1..max_active) : p[2] <= f[p[1]]}

\* HelperGateState.active is exactly the slots of the live permits, whatever
\* the mix of groups, queued waiters, timeouts and drops, and never exceeds
\* max_active: no slot leaks, and the saturating_sub of Drop never saturates.
SlotsConserved ==
  /\ active = Cardinality(SlotSet(slots))
  /\ active <= max_active
  /\ \A t \in Threads : slots[t] <= active

\* The queue holds exactly the tickets of the threads inside the wait loop,
\* in the order they were drawn: no ticket outlives its caller's timeout or
\* cancellation (it would block every later waiter), none is lost.
QueueIsWaiters ==
  /\ \A i \in 1..Len(queue) : \E t \in Threads : pc[t] = "waiting" /\ ticket[t] = queue[i]
  /\ \A t \in Threads : pc[t] = "waiting" => \E i \in 1..Len(queue) : queue[i] = ticket[t]
  /\ \A i, j \in 1..Len(queue) : i < j => queue[i] < queue[j]
  /\ \A t, u \in Threads :
       pc[t] = "waiting" /\ pc[u] = "waiting" /\ ticket[t] = ticket[u] => t = u
  /\ Len(queue) <= queue_capacity

\* "Existing FIFO waiters are never bypassed": whoever is admitted while
\* another caller keeps waiting was itself waiting, and for longer.
NoBypass ==
  [][\A t, u \in Threads :
       /\ pc[t] # "holding" /\ pc'[t] = "holding"
       /\ u # t /\ pc[u] = "waiting"
       => pc[t] = "waiting" /\ ticket[t] < ticket[u]]_vars

\* What /metrics reports adds up in every snapshot: each saturated call was
\* either queued or rejected, and every queued call is still queued, timed
\* out, was cancelled or was admitted.
CountersBalance ==
  /\ metrics["saturated"] = metrics["queued"] + metrics["rejected"]
  /\ metrics["timed_out"] + Len(queue) <= metrics["queued"]
  /\ active <= metrics["admitted"]

\* No caller waits in the queue for ever, unless it is cancelled or its
\* deadline passes: FIFO order and the re-check every 20 ms starve nobody.
WaiterAdmitted ==
  \A t \in Threads : []<>(pc[t] # "waiting" \/ t \in cancelled \cup expired)

\* HelperGateState in every snapshot: slots match live permits, tickets match
\* waiters, and the metrics add up, whatever mix of groups, timeouts,
\* cancellations and drops led there.
SlotsAccounted == TypeOK /\ SlotsConserved /\ QueueIsWaiters /\ CountersBalance

\* What the gate's threads see of it: the slots of their permits, who waits,
\* and who waited before; the tickets, the queue, `active` and the metrics are
\* how it is done.
Waiters == {t \in Threads : pc[t] = "waiting"}
Ahead == [t \in Threads |-> IF t \in Waiters THEN {u \in Waiters : ticket[u] < ticket[t]} ELSE {}]

Promise == INSTANCE Admission WITH
  Callers <- Threads, Limit <- max_active,
  held <- slots, waiting <- Waiters, ahead <- Ahead

\* HelperGate implements first-come first-served admission within its slots:
\* whatever the tickets, timeouts and cancellations, each of its steps is one
\* Admission allows, or changes nothing a caller can see.
ImplementsAdmission == Promise!AdmissionSpec

=============================================================================
