----------------------------- MODULE Helper_proofs -----------------------------
(***************************************************************************)
(* Proofs about the helpers the server runs.                               *)
(*                                                                         *)
(* The helper gate, for every number of threads, every slot count and      *)
(* every queue capacity.  The inductive invariant GateInv adds two facts   *)
(* to the checked invariants: only a holder has slots, and queued tickets  *)
(* are below the next one to be drawn.                                     *)
(*                                                                         *)
(* The supervision of one helper, for any limit, either retention and      *)
(* however much is written.  Supervised says what the place of the         *)
(* supervising thread tells about the processes and about the group's      *)
(* number, Kept what the reader holds of what it read, Ended why it        *)
(* stopped reading.                                                        *)
(***************************************************************************)
EXTENDS HelperGate, HelperProcess, FiniteSetTheorems, SequenceTheorems, TLAPS

\* A permit has slots exactly while its thread holds it.
PermitShape == \A t \in Threads : pc[t] = "holding" <=> slots[t] > 0

\* Every queued ticket was drawn from next_ticket.
TicketsDrawn == \A i \in 1..Len(queue) : queue[i] < next_ticket

GateInv ==
  /\ TypeOK
  /\ PermitShape
  /\ TicketsDrawn
  /\ SlotsConserved
  /\ QueueIsWaiters
  /\ CountersBalance

--------------------------------------------------------------------------------
(* Facts about the slots of a set of permits.                                 *)

\* The slots of finitely many bounded permits can be counted.
LEMMA SlotSetFinite ==
  ASSUME NEW f \in [Threads -> Nat]
  PROVE  IsFiniteSet(SlotSet(f)) /\ Cardinality(SlotSet(f)) \in Nat
<1>1. IsFiniteSet(1..max_active)
  BY FS_Interval, GateAssumption
<1>2. IsFiniteSet(Threads \X (1..max_active))
  BY <1>1, FS_Product, GateAssumption
<1>3. SlotSet(f) \in SUBSET (Threads \X (1..max_active))
  BY DEF SlotSet
<1> QED BY <1>2, <1>3, FS_Subset, FS_CardinalityType

\* One permit of n slots stands for n pairs.
LEMMA OnePermit ==
  ASSUME NEW t, NEW n \in Nat
  PROVE  IsFiniteSet({t} \X (1..n)) /\ Cardinality({t} \X (1..n)) = n
<1>1. IsFiniteSet({t}) /\ Cardinality({t}) = 1
  BY FS_Singleton
<1>2. IsFiniteSet(1..n) /\ Cardinality(1..n) = n
  BY FS_Interval
<1>3. Cardinality({t} \X (1..n)) = 1 * n
  BY <1>1, <1>2, FS_Product
<1> QED BY <1>1, <1>2, <1>3, FS_Product, SMTT(40)

\* Handing a permit of n slots to a thread without one adds n slots.
LEMMA SlotSetGain ==
  ASSUME NEW f \in [Threads -> Nat], NEW t \in Threads, f[t] = 0,
         NEW n \in 1..max_active
  PROVE  Cardinality(SlotSet([f EXCEPT ![t] = n])) = Cardinality(SlotSet(f)) + n
<1> DEFINE g == [f EXCEPT ![t] = n]
           P == {t} \X (1..n)
<1>1. n \in Nat /\ max_active \in Nat
  BY GateAssumption
<1>2. SlotSet(g) = SlotSet(f) \cup P
  BY <1>1 DEF SlotSet
<1>3. SlotSet(f) \cap P = {}
  BY <1>1 DEF SlotSet
<1>4. IsFiniteSet(P) /\ Cardinality(P) = n
  BY <1>1, OnePermit
<1>5. IsFiniteSet(SlotSet(f)) /\ Cardinality(SlotSet(f)) \in Nat
  BY SlotSetFinite
<1>6. Cardinality(SlotSet(f) \cup P) = Cardinality(SlotSet(f)) + Cardinality(P) - Cardinality(SlotSet(f) \cap P)
  BY <1>4, <1>5, FS_Union
<1>7. Cardinality(SlotSet(f) \cap P) = 0
  BY <1>3, FS_EmptySet
<1> HIDE DEF P, g
<1>8. Cardinality(SlotSet(g)) = Cardinality(SlotSet(f)) + n
  BY <1>1, <1>2, <1>4, <1>5, <1>6, <1>7
<1> QED BY <1>8 DEF g

\* Taking the permit back removes them again.
LEMMA SlotSetLoss ==
  ASSUME NEW f \in [Threads -> Nat], NEW t \in Threads, f[t] \in 1..max_active
  PROVE  Cardinality(SlotSet([f EXCEPT ![t] = 0])) = Cardinality(SlotSet(f)) - f[t]
<1> DEFINE g == [f EXCEPT ![t] = 0]
<1>1. g \in [Threads -> Nat] /\ g[t] = 0
  OBVIOUS
<1>2. [g EXCEPT ![t] = f[t]] = f
  OBVIOUS
<1>3. Cardinality(SlotSet(g)) \in Nat /\ Cardinality(SlotSet(f)) \in Nat
  BY <1>1, SlotSetFinite
<1> HIDE DEF g
<1>4. Cardinality(SlotSet(f)) = Cardinality(SlotSet(g)) + f[t]
  BY <1>1, <1>2, SlotSetGain
<1>5. Cardinality(SlotSet(g)) = Cardinality(SlotSet(f)) - f[t]
  BY <1>3, <1>4
<1> QED BY <1>5 DEF g

\* No permit is larger than the whole.
LEMMA SlotSetBound ==
  ASSUME NEW f \in [Threads -> Nat], NEW t \in Threads, f[t] <= max_active
  PROVE  f[t] <= Cardinality(SlotSet(f))
<1>1. {t} \X (1..f[t]) \in SUBSET SlotSet(f)
  BY GateAssumption DEF SlotSet
<1>2. IsFiniteSet(SlotSet(f))
  BY SlotSetFinite
<1>3. Cardinality({t} \X (1..f[t])) = f[t]
  BY OnePermit
<1> QED BY <1>1, <1>2, <1>3, FS_Subset

--------------------------------------------------------------------------------
(* Facts about removing a ticket.                                             *)

Increasing(s) == \A j, k \in 1..Len(s) : j < k => s[j] < s[k]

\* r is s without its i-th element, in the same order.
IsWithout(r, s, i) ==
  /\ r \in Seq(Nat)
  /\ Len(r) = Len(s) - 1
  /\ \A j \in 1..Len(r) : \E k \in 1..Len(s) : k # i /\ r[j] = s[k]
  /\ \A k \in 1..Len(s) : k # i => \E j \in 1..Len(r) : r[j] = s[k]
  /\ Increasing(r)

\* Removing a ticket from an increasing queue closes the gap, keeps every
\* other ticket and keeps the order.
LEMMA RemoveFirstFacts ==
  ASSUME NEW s \in Seq(Nat), NEW i \in 1..Len(s), Increasing(s)
  PROVE  IsWithout(RemoveFirst(s, s[i]), s, i)
<1> USE DEF Increasing
<1> DEFINE r == RemoveFirst(s, s[i])
<1> DEFINE I == {j \in 1..Len(s) : s[j] = s[i]}
<1>1. I = {i}
  <2>1. \A j \in 1..Len(s) : s[j] = s[i] => j = i
    BY ElementOfSeq
  <2> QED BY <2>1
<1>2. Min(I) = i
  BY <1>1 DEF Min
<1>3. I # {}
  BY <1>1
<1>4. RemoveFirst(s, s[i]) = SubSeq(s, 1, i - 1) \o SubSeq(s, i + 1, Len(s))
  BY <1>2, <1>3 DEF RemoveFirst, RemoveAt, SelectInSeq
<1> DEFINE a == SubSeq(s, 1, i - 1)
           b == SubSeq(s, i + 1, Len(s))
<1>5. a \in Seq(Nat) /\ Len(a) = i - 1 /\ \A j \in 1..i - 1 : a[j] = s[j]
  BY SubSeqProperties, ElementOfSeq
<1>6. b \in Seq(Nat) /\ Len(b) = Len(s) - i /\ \A j \in 1..Len(s) - i : b[j] = s[i + j]
  BY SubSeqProperties, ElementOfSeq
<1> HIDE DEF a, b
<1> DEFINE n == Len(s)
<1> HIDE DEF I
<1>0. r = a \o b
  BY <1>4 DEF a, b, r
<1> HIDE DEF r
<1>7. r \in Seq(Nat)
  BY <1>0, <1>5, <1>6, ConcatProperties
<1>8. n \in Nat /\ i \in 1..n /\ Len(a) + Len(b) = n - 1
  BY <1>5, <1>6
<1>9. Len(r) = n - 1
  BY <1>0, <1>5, <1>6, <1>8, ConcatProperties
<1>10. \A j \in 1..n - 1 : r[j] = IF j <= Len(a) THEN a[j] ELSE b[j - Len(a)]
  <2>1. \A j \in 1..Len(a) + Len(b) : r[j] = IF j <= Len(a) THEN a[j] ELSE b[j - Len(a)]
    <3>1. a \in Seq(Nat) /\ b \in Seq(Nat)
      BY <1>5, <1>6
    <3>2. \A j \in 1..Len(a) + Len(b) :
            (a \o b)[j] = IF j <= Len(a) THEN a[j] ELSE b[j - Len(a)]
      BY ONLY <3>1, ConcatProperties, Zenon
    <3> QED BY ONLY <1>0, <3>2
  <2> QED BY <1>8, <2>1
<1>11. ASSUME NEW j \in 1..n - 1 PROVE r[j] = s[IF j < i THEN j ELSE j + 1]
  <2>1. CASE j < i
    <3>1. r[j] = a[j]
      BY <1>5, <1>8, <1>10, <2>1
    <3> QED BY <1>5, <1>8, <2>1, <3>1
  <2>2. CASE ~(j < i)
    <3>1. r[j] = b[j - (i - 1)] /\ j - (i - 1) \in 1..n - i
      BY <1>5, <1>8, <1>10, <2>2
    <3>2. b[j - (i - 1)] = s[i + (j - (i - 1))] /\ i + (j - (i - 1)) = j + 1
      BY <1>6, <1>8, <3>1, SMTT(40)
    <3> QED BY <2>2, <3>1, <3>2
  <2> QED BY <2>1, <2>2
<1> HIDE DEF n
<1>12. \A j \in 1..n - 1 : \E k \in 1..n : k # i /\ r[j] = s[k]
  <2> SUFFICES ASSUME NEW j \in 1..n - 1 PROVE \E k \in 1..n : k # i /\ r[j] = s[k]
    OBVIOUS
  <2>1. (IF j < i THEN j ELSE j + 1) \in 1..n /\ (IF j < i THEN j ELSE j + 1) # i
    BY <1>8
  <2> QED BY <1>11, <2>1
<1>13. \A k \in 1..n : k # i => \E j \in 1..n - 1 : r[j] = s[k]
  <2> SUFFICES ASSUME NEW k \in 1..n, k # i PROVE \E j \in 1..n - 1 : r[j] = s[k]
    OBVIOUS
  <2>1. CASE k < i
    <3>1. k \in 1..n - 1
      BY <1>8, <2>1
    <3>2. r[k] = s[k]
      BY <1>11, <2>1, <3>1
    <3> QED BY <3>1, <3>2
  <2>2. CASE ~(k < i)
    <3>1. k - 1 \in 1..n - 1 /\ ~(k - 1 < i) /\ (k - 1) + 1 = k
      BY <1>8, <2>2
    <3>2. r[k - 1] = s[k]
      BY <1>11, <3>1
    <3> QED BY <3>1, <3>2
  <2> QED BY <2>1, <2>2
<1>14. \A j, k \in 1..n - 1 : j < k => r[j] < r[k]
  <2> SUFFICES ASSUME NEW j \in 1..n - 1, NEW k \in 1..n - 1, j < k PROVE r[j] < r[k]
    OBVIOUS
  <2> DEFINE at(x) == IF x < i THEN x ELSE x + 1
  <2>1. at(j) \in 1..n /\ at(k) \in 1..n /\ at(j) < at(k)
    BY <1>8
  <2>2. r[j] = s[at(j)] /\ r[k] = s[at(k)]
    BY <1>11
  <2> HIDE DEF at
  <2> QED BY <2>1, <2>2 DEF n
<1> QED BY <1>7, <1>9, <1>12, <1>13, <1>14 DEF n, r, IsWithout

--------------------------------------------------------------------------------
(* The invariant.                                                             *)

\* A new gate satisfies the invariant.
LEMMA InitInv == Init => GateInv
<1> SUFFICES ASSUME Init PROVE GateInv
  OBVIOUS
<1> USE GateAssumption DEF Init
<1>1. TypeOK
  BY DEF TypeOK, Counters
<1>2. SlotSet(slots) = {}
  BY DEF SlotSet
<1>3. SlotsConserved
  <2>1. Cardinality(SlotSet(slots)) = 0
    BY <1>2, FS_EmptySet
  <2> QED BY <2>1 DEF SlotsConserved
<1>4. QueueIsWaiters /\ TicketsDrawn /\ PermitShape
  BY DEF QueueIsWaiters, TicketsDrawn, PermitShape
<1>5. CountersBalance
  BY DEF CountersBalance, Counters
<1> QED BY <1>1, <1>3, <1>4, <1>5 DEF GateInv

\* Handing out a permit keeps the slots counted.
LEMMA AdmitSlots ==
  ASSUME GateInv, NEW t \in Threads, pc[t] # "holding",
         NEW n \in Nat, n > 0, n <= max_active - active, admit(t, n)
  PROVE  SlotsConserved' /\ PermitShape'
<1> USE GateAssumption DEF GateInv, TypeOK
<1>1. slots[t] = 0 /\ n \in 1..max_active
  BY DEF PermitShape, SlotsConserved
<1>2. slots' = [slots EXCEPT ![t] = n] /\ active' = active + n
  BY DEF admit
<1>3. Cardinality(SlotSet(slots')) = Cardinality(SlotSet(slots)) + n
  BY <1>1, <1>2, SlotSetGain
<1>4. active' = Cardinality(SlotSet(slots'))
  BY <1>2, <1>3 DEF SlotsConserved
<1>5. \A u \in Threads : slots'[u] <= active'
  BY <1>2 DEF SlotsConserved
<1>6. SlotsConserved'
  BY <1>2, <1>4, <1>5 DEF SlotsConserved, SlotSet
<1>7. PermitShape'
  BY <1>1, <1>2 DEF PermitShape, admit
<1> QED BY <1>6, <1>7

\* Taking one back does too.
LEMMA DropSlots ==
  ASSUME GateInv, NEW t \in Threads, DropPermit(t)
  PROVE  SlotsConserved' /\ PermitShape' /\ active' \in Nat /\ active' <= active
<1> USE GateAssumption DEF GateInv, TypeOK
<1>1. slots[t] \in 1..max_active /\ slots[t] <= active
  BY DEF PermitShape, SlotsConserved, DropPermit
<1>2. slots' = [slots EXCEPT ![t] = 0] /\ active' = active - slots[t]
  BY <1>1 DEF DropPermit
<1>3. Cardinality(SlotSet(slots')) = Cardinality(SlotSet(slots)) - slots[t]
  BY <1>1, <1>2, SlotSetLoss
<1>4. active' = Cardinality(SlotSet(slots'))
  BY <1>2, <1>3 DEF SlotsConserved
<1>5. ASSUME NEW u \in Threads PROVE slots'[u] <= active'
  <2>1. slots' \in [Threads -> Nat] /\ slots'[u] <= max_active
    BY <1>2 DEF SlotsConserved
  <2>2. slots'[u] <= Cardinality(SlotSet(slots'))
    BY <2>1, SlotSetBound
  <2> QED BY <2>2, <1>4
<1>6. SlotsConserved'
  BY <1>1, <1>2, <1>4, <1>5 DEF SlotsConserved, SlotSet
<1>7. PermitShape'
  BY <1>2 DEF PermitShape, DropPermit
<1> QED BY <1>1, <1>2, <1>6, <1>7

\* A waiter that gives up takes exactly its own ticket with it.
LEMMA LeaveQueueFacts ==
  ASSUME GateInv, NEW t \in Threads, pc[t] = "waiting", LeaveQueue(t)
  PROVE  /\ queue' \in Seq(Nat)
         /\ Len(queue') = Len(queue) - 1
         /\ QueueIsWaiters'
         /\ TicketsDrawn'
<1> USE GateAssumption DEF GateInv, TypeOK
<1>1. PICK i \in 1..Len(queue) : queue[i] = ticket[t]
  BY DEF QueueIsWaiters
<1>2. /\ queue' \in Seq(Nat)
      /\ Len(queue') = Len(queue) - 1
      /\ \A j \in 1..Len(queue') : \E k \in 1..Len(queue) : k # i /\ queue'[j] = queue[k]
      /\ \A k \in 1..Len(queue) : k # i => \E j \in 1..Len(queue') : queue'[j] = queue[k]
      /\ \A j, k \in 1..Len(queue') : j < k => queue'[j] < queue'[k]
  <2>1. queue' = RemoveFirst(queue, queue[i])
    BY <1>1 DEF LeaveQueue
  <2>2. Increasing(queue)
    BY DEF QueueIsWaiters, Increasing
  <2>3. IsWithout(RemoveFirst(queue, queue[i]), queue, i)
    BY <2>2, RemoveFirstFacts
  <2>4. IsWithout(queue', queue, i)
    BY <2>1, <2>3
  <2> QED BY <2>4 DEF IsWithout, Increasing
<1>3. pc' = [pc EXCEPT ![t] = "idle"] /\ ticket' = ticket /\ next_ticket' = next_ticket
  BY DEF LeaveQueue
<1>7. \A k \in 1..Len(queue) : k # i => queue[k] # ticket[t]
  <2> SUFFICES ASSUME NEW k \in 1..Len(queue), k # i PROVE queue[k] # ticket[t]
    OBVIOUS
  <2>1. queue[k] \in Nat /\ queue[i] \in Nat
    BY ElementOfSeq
  <2>2. (k < i => queue[k] < queue[i]) /\ (i < k => queue[i] < queue[k])
    BY DEF QueueIsWaiters
  <2> QED BY <1>1, <2>1, <2>2
<1>8. \A j \in 1..Len(queue') : \E u \in Threads : pc'[u] = "waiting" /\ ticket'[u] = queue'[j]
  <2> SUFFICES ASSUME NEW j \in 1..Len(queue')
               PROVE  \E u \in Threads : pc'[u] = "waiting" /\ ticket'[u] = queue'[j]
    OBVIOUS
  <2>1. PICK k \in 1..Len(queue) : k # i /\ queue'[j] = queue[k]
    BY <1>2
  <2>2. PICK u \in Threads : pc[u] = "waiting" /\ ticket[u] = queue[k]
    BY DEF QueueIsWaiters
  <2>3. u # t
    BY <1>7, <2>1, <2>2
  <2>4. pc'[u] = "waiting" /\ ticket'[u] = queue'[j]
    BY <1>3, <2>1, <2>2, <2>3
  <2> QED BY <2>4
<1>9. \A u \in Threads : pc'[u] = "waiting" => \E j \in 1..Len(queue') : queue'[j] = ticket'[u]
  <2> SUFFICES ASSUME NEW u \in Threads, pc'[u] = "waiting"
               PROVE \E j \in 1..Len(queue') : queue'[j] = ticket'[u]
    OBVIOUS
  <2>1. u # t /\ pc[u] = "waiting" /\ ticket'[u] = ticket[u]
    BY <1>3
  <2>2. PICK k \in 1..Len(queue) : queue[k] = ticket[u]
    BY <2>1 DEF QueueIsWaiters
  <2>3. ticket[u] # ticket[t]
    BY <2>1 DEF QueueIsWaiters
  <2>4. k # i
    BY <1>1, <2>2, <2>3
  <2> QED BY <1>2, <2>1, <2>2, <2>4
<1>10. \A u, v \in Threads :
         pc'[u] = "waiting" /\ pc'[v] = "waiting" /\ ticket'[u] = ticket'[v] => u = v
  BY <1>3 DEF QueueIsWaiters
<1>11. Len(queue') <= queue_capacity
  BY <1>2 DEF QueueIsWaiters
<1>12. QueueIsWaiters'
  BY <1>2, <1>8, <1>9, <1>10, <1>11 DEF QueueIsWaiters
<1>13. TicketsDrawn'
  BY <1>2, <1>3 DEF TicketsDrawn
<1> QED BY <1>2, <1>12, <1>13

\* A step that leaves the queue and the waiters alone keeps them matched.
LEMMA SameQueue ==
  ASSUME GateInv, queue' = queue, next_ticket' = next_ticket, ticket' = ticket,
         \A t \in Threads : pc'[t] = "waiting" <=> pc[t] = "waiting"
  PROVE  QueueIsWaiters' /\ TicketsDrawn'
BY DEF GateInv, QueueIsWaiters, TicketsDrawn

\* A step that leaves the permits alone keeps them counted.
LEMMA SamePermits ==
  ASSUME GateInv, active' = active, slots' = slots,
         \A t \in Threads : pc'[t] = "holding" <=> pc[t] = "holding"
  PROVE  SlotsConserved' /\ PermitShape'
BY DEF GateInv, SlotsConserved, SlotSet, PermitShape

\* How the counters move: for an admission, a rejection, a queued call, a
\* timeout, and a step that counts nothing.
LEMMA AdmitCounters ==
  ASSUME TypeOK, CountersBalance, NEW n \in Nat, active' = active + n,
         metrics' = [metrics EXCEPT !["admitted"] = @ + n],
         Len(queue') \in Nat, Len(queue') <= Len(queue)
  PROVE  metrics' \in [Counters -> Nat] /\ CountersBalance'
<1>1. metrics \in [Counters -> Nat] /\ active \in Nat /\ Len(queue) \in Nat
  BY DEF TypeOK
<1>2. metrics' \in [Counters -> Nat]
  BY <1>1 DEF Counters
<1>3. /\ metrics'["saturated"] = metrics["saturated"]
      /\ metrics'["queued"] = metrics["queued"]
      /\ metrics'["rejected"] = metrics["rejected"]
      /\ metrics'["timed_out"] = metrics["timed_out"]
      /\ metrics'["admitted"] = metrics["admitted"] + n
  BY <1>1 DEF Counters
<1>4. \A c \in Counters : metrics[c] \in Nat
  BY <1>1
<1>5. /\ metrics["admitted"] \in Nat /\ metrics["queued"] \in Nat
      /\ metrics["timed_out"] \in Nat
  BY <1>4 DEF Counters
<1>6. CountersBalance'
  BY ONLY CountersBalance, n \in Nat, active' = active + n, Len(queue') \in Nat,
          Len(queue') <= Len(queue), <1>1, <1>3, <1>5, SMTT(40) DEF CountersBalance
<1> QED BY <1>2, <1>6

\* A refused call keeps the counters in balance.
LEMMA RejectCounters ==
  ASSUME TypeOK, CountersBalance, active' = active, queue' = queue,
         metrics' = [metrics EXCEPT !["saturated"] = @ + 1, !["rejected"] = @ + 1]
  PROVE  metrics' \in [Counters -> Nat] /\ CountersBalance'
<1>1. metrics \in [Counters -> Nat]
  BY DEF TypeOK
<1>2. metrics' \in [Counters -> Nat]
  BY <1>1 DEF Counters
<1>3. /\ metrics'["saturated"] = metrics["saturated"] + 1
      /\ metrics'["queued"] = metrics["queued"]
      /\ metrics'["rejected"] = metrics["rejected"] + 1
      /\ metrics'["timed_out"] = metrics["timed_out"]
      /\ metrics'["admitted"] = metrics["admitted"]
  BY <1>1 DEF Counters
<1>4. \A c \in Counters : metrics[c] \in Nat
  BY <1>1
<1>5. metrics["saturated"] \in Nat /\ metrics["queued"] \in Nat /\ metrics["rejected"] \in Nat
  BY <1>4 DEF Counters
<1>6. CountersBalance'
  BY ONLY CountersBalance, active' = active, queue' = queue, <1>3, <1>5 DEF CountersBalance
<1> QED BY <1>2, <1>6

\* So does a call that joins the queue,
LEMMA QueueCounters ==
  ASSUME TypeOK, CountersBalance, active' = active, Len(queue') = Len(queue) + 1,
         metrics' = [metrics EXCEPT !["saturated"] = @ + 1, !["queued"] = @ + 1]
  PROVE  metrics' \in [Counters -> Nat] /\ CountersBalance'
<1>1. metrics \in [Counters -> Nat] /\ Len(queue) \in Nat
  BY DEF TypeOK
<1>2. metrics' \in [Counters -> Nat]
  BY <1>1 DEF Counters
<1>3. /\ metrics'["saturated"] = metrics["saturated"] + 1
      /\ metrics'["queued"] = metrics["queued"] + 1
      /\ metrics'["rejected"] = metrics["rejected"]
      /\ metrics'["timed_out"] = metrics["timed_out"]
      /\ metrics'["admitted"] = metrics["admitted"]
  BY <1>1 DEF Counters
<1>4. \A c \in Counters : metrics[c] \in Nat
  BY <1>1
<1>5. /\ metrics["saturated"] \in Nat /\ metrics["queued"] \in Nat
      /\ metrics["rejected"] \in Nat /\ metrics["timed_out"] \in Nat
  BY <1>4 DEF Counters
<1>6. Len(queue) \in Nat
  BY <1>1
<1>7. CountersBalance'
  BY ONLY CountersBalance, active' = active, Len(queue') = Len(queue) + 1, <1>3, <1>5, <1>6, SMTT(40)
     DEF CountersBalance
<1> QED BY <1>2, <1>7

\* a waiter that times out,
LEMMA TimeoutCounters ==
  ASSUME TypeOK, CountersBalance, active' = active, Len(queue') = Len(queue) - 1,
         metrics' = [metrics EXCEPT !["timed_out"] = @ + 1]
  PROVE  metrics' \in [Counters -> Nat] /\ CountersBalance'
<1>1. metrics \in [Counters -> Nat] /\ Len(queue) \in Nat
  BY DEF TypeOK
<1>2. metrics' \in [Counters -> Nat]
  BY <1>1 DEF Counters
<1>3. /\ metrics'["saturated"] = metrics["saturated"]
      /\ metrics'["queued"] = metrics["queued"]
      /\ metrics'["rejected"] = metrics["rejected"]
      /\ metrics'["timed_out"] = metrics["timed_out"] + 1
      /\ metrics'["admitted"] = metrics["admitted"]
  BY <1>1 DEF Counters
<1>4. \A c \in Counters : metrics[c] \in Nat
  BY <1>1
<1>5. metrics["queued"] \in Nat /\ metrics["timed_out"] \in Nat
  BY <1>4 DEF Counters
<1> QED BY <1>1, <1>2, <1>3, <1>5 DEF CountersBalance

\* and a step that counts nothing and leaves no more callers than before.
LEMMA SameCounters ==
  ASSUME TypeOK, CountersBalance, active' \in Nat, active' <= active,
         metrics' = metrics, Len(queue') \in Nat, Len(queue') <= Len(queue)
  PROVE  CountersBalance'
<1>1. metrics \in [Counters -> Nat] /\ Len(queue) \in Nat /\ active \in Nat
  BY DEF TypeOK
<1>4. \A c \in Counters : metrics[c] \in Nat
  BY <1>1
<1>5. metrics["queued"] \in Nat /\ metrics["timed_out"] \in Nat /\ metrics["admitted"] \in Nat
  BY <1>4 DEF Counters
<1> QED BY <1>1, <1>5 DEF CountersBalance

\* Every operation of the gate keeps the invariant, one step per action.
LEMMA StepInv == GateInv /\ [Next]_vars => GateInv'
<1> SUFFICES ASSUME GateInv, [Next]_vars PROVE GateInv'
  OBVIOUS
<1> USE GateAssumption
<1>1. TypeOK
  BY DEF GateInv
<1>2. active <= max_active /\ CountersBalance /\ QueueIsWaiters
  BY DEF GateInv, SlotsConserved
<1>3. ASSUME NEW t \in Threads, NEW n \in 0..MaxGroup, try_acquire_many(t, n)
      PROVE  GateInv'
  <2>1. TypeOK'
    <3>1. metrics' \in [Counters -> Nat] /\ calls' \in Nat
      <4>1. CASE admit(t, n)
        BY <1>1, <1>3, <4>1 DEF TypeOK, try_acquire_many, Call, admit, Counters
      <4>2. CASE metrics' = [metrics EXCEPT !["saturated"] = @ + 1, !["rejected"] = @ + 1]
        <5>1. metrics \in [Counters -> Nat] /\ calls' \in Nat
          BY <1>1, <1>3 DEF TypeOK, try_acquire_many, Call
        <5>2. metrics' \in [Counters -> Nat]
          BY ONLY <4>2, <5>1 DEF Counters
        <5> QED BY <5>1, <5>2
      <4> QED BY <1>3, <4>1, <4>2 DEF try_acquire_many
    <3>2. active' \in Nat /\ slots' \in [Threads -> Nat]
      <4>1. CASE admit(t, n)
        BY <1>1, <4>1 DEF TypeOK, admit
      <4>2. CASE UNCHANGED <<active, slots, pc>>
        BY <1>1, <4>2 DEF TypeOK
      <4> QED BY <1>3, <4>1, <4>2 DEF try_acquire_many
    <3>3. pc' \in [Threads -> {"idle", "waiting", "holding"}]
      BY <1>1, <1>3 DEF TypeOK, try_acquire_many, admit
    <3>4. UNCHANGED <<queue, next_ticket, ticket, cancelled, expired>>
      BY <1>3 DEF try_acquire_many
    <3> QED BY ONLY <1>1, <3>1, <3>2, <3>3, <3>4 DEF TypeOK
  <2>2. CountersBalance'
    <3>1. CASE n > 0 /\ n <= max_active - active /\ queue = <<>>
      BY <1>1, <1>2, <1>3, <3>1, AdmitCounters DEF try_acquire_many, admit, TypeOK
    <3>2. CASE ~(n > 0 /\ n <= max_active - active /\ queue = <<>>)
      BY <1>1, <1>2, <1>3, <3>2, RejectCounters DEF try_acquire_many
    <3> QED BY <3>1, <3>2
  <2>3. QueueIsWaiters' /\ TicketsDrawn'
    BY <1>1, <1>3, SameQueue DEF TypeOK, try_acquire_many, Call, admit
  <2>4. SlotsConserved' /\ PermitShape'
    <3>1. CASE n > 0 /\ n <= max_active - active /\ queue = <<>>
      BY <1>1, <1>3, <3>1, AdmitSlots DEF try_acquire_many, Call
    <3>2. CASE ~(n > 0 /\ n <= max_active - active /\ queue = <<>>)
      BY <1>3, <3>2, SamePermits DEF try_acquire_many
    <3> QED BY <3>1, <3>2
  <2> QED BY <2>1, <2>2, <2>3, <2>4 DEF GateInv
<1>4. ASSUME NEW t \in Threads, try_acquire_idle(t) PROVE GateInv'
  <2>1. TypeOK'
    <3>1. metrics' \in [Counters -> Nat] /\ calls' \in Nat
      BY <1>1, <1>4 DEF TypeOK, try_acquire_idle, Call, admit, Counters
    <3>2. active' \in Nat /\ slots' \in [Threads -> Nat]
      <4>1. CASE admit(t, 1)
        BY <1>1, <4>1 DEF TypeOK, admit
      <4>2. CASE UNCHANGED <<active, metrics, slots, pc>>
        BY <1>1, <4>2 DEF TypeOK
      <4> QED BY <1>4, <4>1, <4>2 DEF try_acquire_idle
    <3>3. pc' \in [Threads -> {"idle", "waiting", "holding"}]
      BY <1>1, <1>4 DEF TypeOK, try_acquire_idle, admit
    <3>4. UNCHANGED <<queue, next_ticket, ticket, cancelled, expired>>
      BY <1>4 DEF try_acquire_idle
    <3> QED BY ONLY <1>1, <3>1, <3>2, <3>3, <3>4 DEF TypeOK
  <2>2. CountersBalance'
    <3>1. CASE active < max_active /\ queue = <<>>
      BY <1>1, <1>2, <1>4, <3>1, AdmitCounters DEF try_acquire_idle, admit, TypeOK
    <3>2. CASE ~(active < max_active /\ queue = <<>>)
      BY <1>1, <1>2, <1>4, <3>2, SameCounters DEF try_acquire_idle, TypeOK
    <3> QED BY <3>1, <3>2
  <2>3. QueueIsWaiters' /\ TicketsDrawn'
    BY <1>1, <1>4, SameQueue DEF TypeOK, try_acquire_idle, Call, admit
  <2>4. SlotsConserved' /\ PermitShape'
    <3>1. CASE active < max_active /\ queue = <<>>
      <4>1. 1 <= max_active - active
        BY <1>1, <3>1 DEF TypeOK
      <4> QED BY <1>4, <3>1, <4>1, AdmitSlots DEF try_acquire_idle, Call
    <3>2. CASE ~(active < max_active /\ queue = <<>>)
      BY <1>4, <3>2, SamePermits DEF try_acquire_idle
    <3> QED BY <3>1, <3>2
  <2> QED BY <2>1, <2>2, <2>3, <2>4 DEF GateInv
<1>5. ASSUME NEW t \in Threads, AcquireAlreadyCancelled(t) PROVE GateInv'
  <2>1. TypeOK' /\ CountersBalance'
    BY <1>1, <1>2, <1>5 DEF TypeOK, CountersBalance, AcquireAlreadyCancelled, Call
  <2>2. QueueIsWaiters' /\ TicketsDrawn' /\ SlotsConserved' /\ PermitShape'
    BY <1>5, SameQueue, SamePermits DEF AcquireAlreadyCancelled
  <2> QED BY <2>1, <2>2 DEF GateInv
<1>6. ASSUME NEW t \in Threads, acquire_timeout(t) PROVE GateInv'
  <2>0. pc[t] = "idle" /\ calls' = calls + 1 /\ cancelled' = cancelled /\ expired' = expired
    BY <1>6 DEF acquire_timeout, Call
  <2>1. CASE /\ active < max_active /\ queue = <<>>
             /\ admit(t, 1)
             /\ UNCHANGED <<queue, next_ticket, ticket>>
    <3>0. metrics' \in [Counters -> Nat] /\ CountersBalance'
      <4>1. active' = active + 1 /\ metrics' = [metrics EXCEPT !["admitted"] = @ + 1]
        BY <2>1 DEF admit
      <4>2. Len(queue') \in Nat /\ Len(queue') <= Len(queue)
        BY <1>1, <2>1 DEF TypeOK
      <4> QED BY ONLY <1>1, <1>2, <4>1, <4>2, AdmitCounters
    <3>1. TypeOK' /\ CountersBalance'
      BY <1>1, <2>0, <2>1, <3>0 DEF TypeOK, admit
    <3>2. QueueIsWaiters' /\ TicketsDrawn'
      BY <1>1, <2>0, <2>1, SameQueue DEF TypeOK, admit
    <3>3. 1 <= max_active - active
      BY <1>1, <2>1 DEF TypeOK
    <3>4. SlotsConserved' /\ PermitShape'
      BY <2>0, <2>1, <3>3, AdmitSlots
    <3> QED BY <3>1, <3>2, <3>4 DEF GateInv
  <2>2. CASE /\ metrics' = [metrics EXCEPT !["saturated"] = @ + 1, !["rejected"] = @ + 1]
             /\ UNCHANGED <<active, queue, next_ticket, pc, ticket, slots>>
    <3>0. metrics' \in [Counters -> Nat] /\ CountersBalance'
      BY <1>1, <1>2, <2>2, RejectCounters
    <3>1. TypeOK' /\ CountersBalance'
      <4>1. UNCHANGED <<active, queue, next_ticket, pc, ticket, slots>>
        BY <2>2
      <4> QED BY ONLY <1>1, <2>0, <3>0, <4>1 DEF TypeOK
    <3>2. QueueIsWaiters' /\ TicketsDrawn' /\ SlotsConserved' /\ PermitShape'
      BY <2>2, SameQueue, SamePermits
    <3> QED BY <3>1, <3>2 DEF GateInv
  <2>3. CASE /\ Len(queue) < queue_capacity
             /\ metrics' = [metrics EXCEPT !["saturated"] = @ + 1, !["queued"] = @ + 1]
             /\ ticket' = [ticket EXCEPT ![t] = next_ticket]
             /\ next_ticket' = next_ticket + 1
             /\ queue' = Append(queue, next_ticket)
             /\ pc' = [pc EXCEPT ![t] = "waiting"]
             /\ UNCHANGED <<active, slots>>
    <3> DEFINE n == Len(queue)
    <3>1. /\ queue' \in Seq(Nat) /\ Len(queue') = n + 1 /\ n \in Nat
          /\ queue'[n + 1] = next_ticket
          /\ \A i \in 1..n : queue'[i] = queue[i]
      BY <1>1, <2>3, AppendProperties DEF TypeOK
    <3>0. metrics' \in [Counters -> Nat] /\ CountersBalance'
      BY <1>1, <1>2, <2>3, <3>1, QueueCounters
    <3>2. TypeOK' /\ CountersBalance'
      <4>1. ticket' \in [Threads -> Nat] /\ next_ticket' \in Nat
        BY <1>1, <2>3 DEF TypeOK
      <4>2. pc' \in [Threads -> {"idle", "waiting", "holding"}]
        BY <1>1, <2>3 DEF TypeOK
      <4>3. UNCHANGED <<active, slots>>
        BY <2>3
      <4> QED BY ONLY <1>1, <2>0, <3>0, <3>1, <4>1, <4>2, <4>3 DEF TypeOK
    <3>3. SlotsConserved' /\ PermitShape'
      BY <1>1, <2>0, <2>3, SamePermits DEF TypeOK
    <3>4. TicketsDrawn'
      BY <1>1, <2>3, <3>1 DEF GateInv, TypeOK, TicketsDrawn
    <3>5. \A u \in Threads : pc[u] = "waiting" => u # t /\ ticket[u] < next_ticket
      BY <1>2, <2>0 DEF GateInv, QueueIsWaiters, TicketsDrawn
    <3>6. \A u \in Threads : u # t => pc'[u] = pc[u] /\ ticket'[u] = ticket[u]
      BY <1>1, <2>3 DEF TypeOK
    <3>7. pc'[t] = "waiting" /\ ticket'[t] = next_ticket
      BY <1>1, <2>3 DEF TypeOK
    <3>8. \A i \in 1..n + 1 : \E u \in Threads : pc'[u] = "waiting" /\ ticket'[u] = queue'[i]
      <4> SUFFICES ASSUME NEW i \in 1..n + 1
                   PROVE  \E u \in Threads : pc'[u] = "waiting" /\ ticket'[u] = queue'[i]
        OBVIOUS
      <4>1. CASE i = n + 1
        BY <3>1, <3>7, <4>1
      <4>2. CASE i \in 1..n
        <5>1. PICK u \in Threads : pc[u] = "waiting" /\ ticket[u] = queue[i]
          BY <1>2, <4>2 DEF QueueIsWaiters
        <5> QED BY <3>1, <3>5, <3>6, <4>2, <5>1
      <4> QED BY <3>1, <4>1, <4>2
    <3>9. \A u \in Threads : pc'[u] = "waiting" => \E i \in 1..n + 1 : queue'[i] = ticket'[u]
      <4> SUFFICES ASSUME NEW u \in Threads, pc'[u] = "waiting"
                   PROVE  \E i \in 1..n + 1 : queue'[i] = ticket'[u]
        OBVIOUS
      <4>1. CASE u = t
        <5>1. n + 1 \in 1..n + 1
          BY <3>1
        <5> QED BY <3>1, <3>7, <4>1, <5>1
      <4>2. CASE u # t
        <5>1. PICK i \in 1..n : queue[i] = ticket[u]
          BY <1>2, <3>6, <4>2 DEF QueueIsWaiters
        <5>2. i \in 1..n + 1
          BY <3>1
        <5> QED BY <3>1, <3>6, <4>2, <5>1, <5>2
      <4> QED BY <4>1, <4>2
    <3>10. \A i, j \in 1..n + 1 : i < j => queue'[i] < queue'[j]
      <4> SUFFICES ASSUME NEW i \in 1..n + 1, NEW j \in 1..n + 1, i < j
                   PROVE  queue'[i] < queue'[j]
        OBVIOUS
      <4>1. i \in 1..n /\ queue'[i] = queue[i]
        BY <3>1
      <4>2. CASE j = n + 1
        BY <3>1, <4>1, <4>2 DEF GateInv, TicketsDrawn
      <4>3. CASE j \in 1..n
        BY <1>2, <3>1, <4>1, <4>3 DEF QueueIsWaiters
      <4> QED BY <3>1, <4>2, <4>3
    <3>11. \A u, v \in Threads :
             pc'[u] = "waiting" /\ pc'[v] = "waiting" /\ ticket'[u] = ticket'[v] => u = v
      <4>1. \A u \in Threads : ticket[u] \in Nat
        BY <1>1 DEF TypeOK
      <4>2. next_ticket \in Nat
        BY <1>1 DEF TypeOK
      <4>3. \A u, v \in Threads :
              pc[u] = "waiting" /\ pc[v] = "waiting" /\ ticket[u] = ticket[v] => u = v
        BY <1>2 DEF QueueIsWaiters
      <4>4. \A u \in Threads : u # t /\ pc[u] = "waiting" => ticket[u] # next_ticket
        BY ONLY <3>5, <4>1, <4>2
      <4> QED BY ONLY <3>6, <3>7, <4>3, <4>4
    <3>12. QueueIsWaiters'
      <4>1. Len(queue') = n + 1 /\ n + 1 <= queue_capacity
        BY <2>3, <3>1
      <4> HIDE DEF n
      <4> QED BY ONLY <3>8, <3>9, <3>10, <3>11, <4>1 DEF QueueIsWaiters
    <3> QED BY <3>2, <3>3, <3>4, <3>12 DEF GateInv
  <2> QED BY <1>6, <2>1, <2>2, <2>3 DEF acquire_timeout
<1>7. ASSUME NEW t \in Threads, WaitCancelled(t) PROVE GateInv'
  <2>1. queue' \in Seq(Nat) /\ Len(queue') = Len(queue) - 1 /\ QueueIsWaiters' /\ TicketsDrawn'
    BY <1>7, LeaveQueueFacts DEF WaitCancelled
  <2>0. CountersBalance'
    BY <1>1, <1>2, <1>7, <2>1, SameCounters DEF WaitCancelled, LeaveQueue, TypeOK
  <2>2. TypeOK' /\ CountersBalance'
    BY <1>1, <1>7, <2>0, <2>1 DEF TypeOK, WaitCancelled, LeaveQueue
  <2>3. SlotsConserved' /\ PermitShape'
    BY <1>1, <1>7, SamePermits DEF TypeOK, WaitCancelled, LeaveQueue
  <2> QED BY <2>1, <2>2, <2>3 DEF GateInv
<1>8. ASSUME NEW t \in Threads, WaitAdmitted(t) PROVE GateInv'
  <2>1. queue # <<>> /\ Head(queue) = ticket[t] /\ queue' = Tail(queue) /\ pc[t] = "waiting"
    BY <1>8 DEF WaitAdmitted, IsFront
  <2> DEFINE n == Len(queue)
  <2>2. /\ queue' \in Seq(Nat) /\ Len(queue') = n - 1 /\ n \in Nat /\ n >= 1
        /\ queue[1] = ticket[t]
        /\ \A i \in 1..n - 1 : queue'[i] = queue[i + 1]
    BY <1>1, <2>1, HeadTailProperties DEF TypeOK
  <2>0. metrics' \in [Counters -> Nat] /\ CountersBalance'
    <3>1. active' = active + 1 /\ metrics' = [metrics EXCEPT !["admitted"] = @ + 1]
      BY <1>8 DEF WaitAdmitted, admit
    <3>2. Len(queue') \in Nat /\ Len(queue') <= Len(queue)
      BY <2>2
    <3> QED BY ONLY <1>1, <1>2, <3>1, <3>2, AdmitCounters
  <2>3. TypeOK' /\ CountersBalance'
    BY <1>1, <1>8, <2>0, <2>2 DEF TypeOK, WaitAdmitted, admit
  <2>4. 1 <= max_active - active
    BY <1>1, <1>8 DEF TypeOK, WaitAdmitted
  <2>5. SlotsConserved' /\ PermitShape'
    BY <1>8, <2>1, <2>4, AdmitSlots DEF WaitAdmitted
  <2>6. pc' = [pc EXCEPT ![t] = "holding"] /\ ticket' = ticket /\ next_ticket' = next_ticket
    BY <1>8 DEF WaitAdmitted, admit
  <2>7. TicketsDrawn'
    BY <2>2, <2>6 DEF GateInv, TicketsDrawn
  <2>8. \A i \in 1..n : i # 1 => ticket[t] < queue[i]
    <3>1. \A i, j \in 1..n : i < j => queue[i] < queue[j]
      BY <1>2, Zenon DEF QueueIsWaiters
    <3> QED BY ONLY <2>2, <3>1
  <2>9. \A i \in 1..n - 1 : \E u \in Threads : pc'[u] = "waiting" /\ ticket'[u] = queue'[i]
    <3> SUFFICES ASSUME NEW i \in 1..n - 1
                 PROVE  \E u \in Threads : pc'[u] = "waiting" /\ ticket'[u] = queue'[i]
      OBVIOUS
    <3>1. i + 1 \in 1..n /\ i + 1 # 1
      BY <2>2
    <3>2. PICK u \in Threads : pc[u] = "waiting" /\ ticket[u] = queue[i + 1]
      BY <1>2, <3>1 DEF QueueIsWaiters
    <3>3. u # t
      BY <1>1, <2>8, <3>1, <3>2 DEF TypeOK
    <3> QED BY <1>1, <2>2, <2>6, <3>2, <3>3 DEF TypeOK
  <2>10. \A u \in Threads : pc'[u] = "waiting" => \E i \in 1..n - 1 : queue'[i] = ticket'[u]
    <3> SUFFICES ASSUME NEW u \in Threads, pc'[u] = "waiting"
                 PROVE  \E i \in 1..n - 1 : queue'[i] = ticket'[u]
      OBVIOUS
    <3>1. u # t /\ pc[u] = "waiting"
      BY <1>1, <2>6 DEF TypeOK
    <3>2. PICK k \in 1..n : queue[k] = ticket[u]
      BY <1>2, <3>1 DEF QueueIsWaiters
    <3>3. ticket[u] # ticket[t]
      BY <1>2, <2>1, <3>1 DEF QueueIsWaiters
    <3>4. k # 1
      BY <2>2, <3>2, <3>3
    <3>5. k - 1 \in 1..n - 1 /\ (k - 1) + 1 = k
      BY <2>2, <3>4
    <3> QED BY <2>2, <2>6, <3>2, <3>5
  <2>11. \A i, j \in 1..n - 1 : i < j => queue'[i] < queue'[j]
    <3> SUFFICES ASSUME NEW i \in 1..n - 1, NEW j \in 1..n - 1, i < j
                 PROVE  queue'[i] < queue'[j]
      OBVIOUS
    <3>1. i + 1 \in 1..n /\ j + 1 \in 1..n /\ i + 1 < j + 1
      BY <2>2
    <3>2. queue[i + 1] < queue[j + 1]
      BY <1>2, <3>1 DEF QueueIsWaiters
    <3> QED BY <2>2, <3>2
  <2>12. \A u, v \in Threads :
           pc'[u] = "waiting" /\ pc'[v] = "waiting" /\ ticket'[u] = ticket'[v] => u = v
    BY <1>1, <1>2, <2>6 DEF QueueIsWaiters, TypeOK
  <2>13. n - 1 <= queue_capacity
    BY <1>2, <2>2 DEF QueueIsWaiters
  <2>14. QueueIsWaiters'
    BY <2>2, <2>9, <2>10, <2>11, <2>12, <2>13 DEF QueueIsWaiters
  <2> QED BY <2>3, <2>5, <2>7, <2>14 DEF GateInv
<1>9. ASSUME NEW t \in Threads, WaitTimedOut(t) PROVE GateInv'
  <2>1. queue' \in Seq(Nat) /\ Len(queue') = Len(queue) - 1 /\ QueueIsWaiters' /\ TicketsDrawn'
    BY <1>9, LeaveQueueFacts DEF WaitTimedOut
  <2>0. metrics' \in [Counters -> Nat] /\ CountersBalance'
    BY <1>1, <1>2, <1>9, <2>1, TimeoutCounters DEF WaitTimedOut, LeaveQueue
  <2>2. TypeOK' /\ CountersBalance'
    BY <1>1, <1>9, <2>0, <2>1 DEF TypeOK, WaitTimedOut, LeaveQueue
  <2>3. SlotsConserved' /\ PermitShape'
    BY <1>1, <1>9, SamePermits DEF TypeOK, WaitTimedOut, LeaveQueue
  <2> QED BY <2>1, <2>2, <2>3 DEF GateInv
<1>10. ASSUME NEW t \in Threads, DropPermit(t) PROVE GateInv'
  <2>1. SlotsConserved' /\ PermitShape' /\ active' \in Nat /\ active' <= active
    BY <1>10, DropSlots
  <2>0. CountersBalance'
    BY <1>1, <1>2, <1>10, <2>1, SameCounters DEF DropPermit, TypeOK
  <2>2. TypeOK' /\ CountersBalance'
    BY <1>1, <1>10, <2>0, <2>1 DEF TypeOK, DropPermit
  <2>3. QueueIsWaiters' /\ TicketsDrawn'
    BY <1>1, <1>10, SameQueue DEF TypeOK, DropPermit
  <2> QED BY <2>1, <2>2, <2>3 DEF GateInv
<1>11. ASSUME NEW t \in Threads, Cancel(t) \/ Expire(t) PROVE GateInv'
  <2>1. TypeOK' /\ CountersBalance'
    BY <1>1, <1>2, <1>11 DEF TypeOK, CountersBalance, Cancel, Expire
  <2>2. QueueIsWaiters' /\ TicketsDrawn' /\ SlotsConserved' /\ PermitShape'
    BY <1>11, SameQueue, SamePermits DEF Cancel, Expire
  <2> QED BY <2>1, <2>2 DEF GateInv
<1>12. CASE UNCHANGED vars
  <2>1. TypeOK' /\ CountersBalance'
    BY <1>1, <1>2, <1>12 DEF TypeOK, CountersBalance, vars
  <2>2. QueueIsWaiters' /\ TicketsDrawn' /\ SlotsConserved' /\ PermitShape'
    BY <1>12, SameQueue, SamePermits DEF vars
  <2> QED BY <2>1, <2>2 DEF GateInv
<1> QED
  BY <1>3, <1>4, <1>5, <1>6, <1>7, <1>8, <1>9, <1>10, <1>11, <1>12
     DEF Next, GateNext, Finished

--------------------------------------------------------------------------------
(* The theorems.                                                              *)

\* GateInv holds in every reachable state of the gate.
THEOREM Invariance == Spec => []GateInv
<1>1. Init => GateInv
  BY InitInv
<1>2. GateInv /\ [Next]_vars => GateInv'
  BY StepInv
<1> QED BY <1>1, <1>2, PTL DEF Spec

\* The gate's state always has its type.
THEOREM TypeCorrect == Spec => []TypeOK
<1>1. GateInv => TypeOK
  BY DEF GateInv
<1> QED BY <1>1, Invariance, PTL

\* HelperGate never over-admits and never leaks a slot: its `active` counter is
\* the number of slots on live permits, at most max_active, whatever mix of
\* groups, waiters, timeouts, cancellations and drops came before.
THEOREM GateConservesSlots == Spec => []SlotsConserved
<1>1. GateInv => SlotsConserved
  BY DEF GateInv
<1> QED BY <1>1, Invariance, PTL

\* The ticket queue is exactly the waiting callers in arrival order: a timed
\* out or cancelled caller leaves no ticket behind to block the others.
THEOREM QueueMatchesWaiters == Spec => []QueueIsWaiters
<1>1. GateInv => QueueIsWaiters
  BY DEF GateInv
<1> QED BY <1>1, Invariance, PTL

\* The counters an operator alerts on add up in every metrics() snapshot.
THEOREM MetricsBalance == Spec => []CountersBalance
<1>1. GateInv => CountersBalance
  BY DEF GateInv
<1> QED BY <1>1, Invariance, PTL

\* No caller, queued or not, is admitted ahead of one that waits longer.
THEOREM FifoAdmission == Spec => NoBypass
<1> DEFINE Ordered ==
      \A t, u \in Threads :
        /\ pc[t] # "holding" /\ pc'[t] = "holding"
        /\ u # t /\ pc[u] = "waiting"
        => pc[t] = "waiting" /\ ticket[t] < ticket[u]
<1>1. GateInv /\ [Next]_vars => [Ordered]_vars
  <2> SUFFICES ASSUME GateInv, Next,
                      NEW t \in Threads, NEW u \in Threads,
                      pc[t] # "holding", pc'[t] = "holding", u # t, pc[u] = "waiting"
               PROVE  pc[t] = "waiting" /\ ticket[t] < ticket[u]
    BY DEF vars
  <2>1. TypeOK /\ QueueIsWaiters
    BY DEF GateInv
  <2>2. PICK k \in 1..Len(queue) : queue[k] = ticket[u]
    BY <2>1 DEF QueueIsWaiters
  <2>3. queue # <<>>
    BY <2>1, <2>2 DEF TypeOK
  <2>4. WaitAdmitted(t)
    <3>1. ASSUME NEW v \in Threads,
                 \/ \E n \in 0..MaxGroup : try_acquire_many(v, n)
                 \/ try_acquire_idle(v) \/ AcquireAlreadyCancelled(v) \/ acquire_timeout(v)
                 \/ WaitCancelled(v) \/ WaitTimedOut(v) \/ DropPermit(v)
                 \/ Cancel(v) \/ Expire(v)
          PROVE  pc'[t] # "holding"
      BY <2>1, <2>3, <3>1 DEF TypeOK, try_acquire_many, try_acquire_idle, AcquireAlreadyCancelled,
           acquire_timeout, WaitCancelled, WaitTimedOut, DropPermit, Cancel, Expire, LeaveQueue
    <3>2. ASSUME NEW v \in Threads, WaitAdmitted(v) PROVE v = t
      BY <2>1, <3>2 DEF TypeOK, WaitAdmitted, admit
    <3>3. ~Finished
      BY DEF Finished, vars
    <3> QED BY <3>1, <3>2, <3>3 DEF Next, GateNext
  <2>5. pc[t] = "waiting" /\ queue[1] = ticket[t]
    BY <2>1, <2>4, HeadTailProperties DEF TypeOK, WaitAdmitted, IsFront
  <2>6. ticket[t] # ticket[u]
    BY <2>1, <2>5 DEF QueueIsWaiters
  <2>7. k # 1 /\ 1 \in 1..Len(queue) /\ 1 < k
    BY <2>2, <2>5, <2>6
  <2>8. queue[1] < queue[k]
    BY <2>1, <2>7 DEF QueueIsWaiters
  <2> QED BY <2>2, <2>5, <2>8
<1>2. Spec => []GateInv
  BY Invariance
<1> QED BY <1>1, <1>2, PTL DEF Spec, NoBypass

\* For every number of callers and slots the state of HelperGate adds up:
\* permits, tickets and metrics.
THEOREM StateAddsUp == Spec => []SlotsAccounted
<1>1. TypeOK /\ SlotsConserved /\ QueueIsWaiters /\ CountersBalance => SlotsAccounted
  BY DEF SlotsAccounted
<1> QED BY <1>1, TypeCorrect, GateConservesSlots, QueueMatchesWaiters, MetricsBalance, PTL

--------------------------------------------------------------------------------
(* HelperGate implements Admission.                                           *)

\* While nobody joins or leaves the queue, nobody sees a change of it.
LEMMA SameWaiters ==
  ASSUME UNCHANGED <<pc, ticket>>
  PROVE  UNCHANGED <<Waiters, Ahead>>
BY DEF Waiters, Ahead

\* A caller that had no permit and was not queued comes or goes: the waiters
\* and their order stay.
LEMMA SameOrder ==
  ASSUME NEW t \in Threads, pc \in [Threads -> {"idle", "waiting", "holding"}],
         pc[t] # "waiting", NEW s \in {"idle", "holding"}, pc' = [pc EXCEPT ![t] = s],
         UNCHANGED ticket
  PROVE  UNCHANGED <<Waiters, Ahead>>
<1>1. Waiters' = Waiters
  BY DEF Waiters
<1> QED BY <1>1 DEF Ahead

\* A waiter that goes takes nothing but itself out of the order.
LEMMA WaiterGoes ==
  ASSUME NEW t \in Threads, pc \in [Threads -> {"idle", "waiting", "holding"}],
         pc[t] = "waiting", NEW s \in {"idle", "holding"}, pc' = [pc EXCEPT ![t] = s],
         UNCHANGED ticket
  PROVE  Promise!NoLongerWaiting(t)
<1>1. Waiters' = Waiters \ {t}
  BY DEF Waiters
<1>2. Ahead' = [d \in Threads |-> IF d = t THEN {} ELSE Ahead[d] \ {t}]
  BY <1>1 DEF Ahead, Waiters
<1> QED BY <1>1, <1>2 DEF Promise!NoLongerWaiting

\* The slots Admission counts are those of the live permits.
LEMMA TakenIsActive ==
  ASSUME SlotsConserved
  PROVE  Promise!Cardinality(Promise!Taken) = active
<1>1. Cardinality(Promise!Taken) = active
  BY DEF SlotsConserved, SlotSet, Promise!Taken
<1>2. Promise!Cardinality(Promise!Taken) = Cardinality(Promise!Taken)
  BY DEF Promise!Cardinality, Cardinality
<1> QED BY <1>1, <1>2

\* An idle caller admitted past an empty queue.
LEMMA GrantIdle ==
  ASSUME GateInv, NEW t \in Threads, pc[t] = "idle", queue = <<>>,
         NEW n \in Nat, n > 0, n <= max_active - active, admit(t, n), UNCHANGED ticket
  PROVE  \E k \in 1..max_active : Promise!Grant(t, k)
<1> USE GateAssumption
<1>1. TypeOK /\ SlotsConserved
  BY DEF GateInv
<1>2. n \in 1..max_active /\ active + n <= max_active
  BY <1>1 DEF TypeOK
<1>3. Waiters = {}
  <2>1. \A u \in Threads : pc[u] # "waiting"
    BY DEF GateInv, QueueIsWaiters
  <2> QED BY <2>1 DEF Waiters
<1>4. slots[t] = 0
  BY <1>1 DEF GateInv, TypeOK, PermitShape
<1>5. UNCHANGED <<Waiters, Ahead>>
  BY <1>1, SameOrder DEF TypeOK, admit
<1>6. Promise!NoLongerWaiting(t)
  <2>1. Ahead' = [d \in Threads |-> IF d = t THEN {} ELSE Ahead[d] \ {t}]
    BY <1>3, <1>5 DEF Ahead
  <2> QED BY <1>3, <1>5, <2>1 DEF Promise!NoLongerWaiting
<1>7. Promise!Grant(t, n)
  BY <1>1, <1>2, <1>3, <1>4, <1>6, TakenIsActive DEF Promise!Grant, admit
<1> QED BY <1>2, <1>7

\* Every step of the gate is one Admission allows, or invisible.
LEMMA StepImplements ==
  GateInv /\ [Next]_vars => [Promise!AdmissionNext]_(Promise!admissionVars)
<1> USE GateAssumption
<1> SUFFICES ASSUME GateInv, [Next]_vars
             PROVE  Promise!AdmissionNext \/ UNCHANGED <<slots, Waiters, Ahead>>
  BY DEF Promise!admissionVars
<1>1. TypeOK /\ QueueIsWaiters /\ SlotsConserved /\ PermitShape
  BY DEF GateInv
<1>2. pc \in [Threads -> {"idle", "waiting", "holding"}] /\ ticket \in [Threads -> Nat]
      /\ active \in Nat /\ queue \in Seq(Nat) /\ next_ticket \in Nat
  BY <1>1 DEF TypeOK
<1>3. ASSUME NEW t \in Threads, NEW n \in 0..MaxGroup, try_acquire_many(t, n)
      PROVE  Promise!AdmissionNext \/ UNCHANGED <<slots, Waiters, Ahead>>
  <2>1. CASE n > 0 /\ n <= max_active - active /\ queue = <<>>
    BY <1>3, <2>1, GrantIdle DEF try_acquire_many, Call, Promise!AdmissionNext
  <2>2. CASE ~(n > 0 /\ n <= max_active - active /\ queue = <<>>)
    BY <1>3, <2>2, SameWaiters DEF try_acquire_many
  <2> QED BY <2>1, <2>2
<1>4. ASSUME NEW t \in Threads, try_acquire_idle(t)
      PROVE  Promise!AdmissionNext \/ UNCHANGED <<slots, Waiters, Ahead>>
  <2>1. CASE active < max_active /\ queue = <<>>
    <3>1. 1 <= max_active - active
      BY <1>2, <2>1
    <3> QED BY <1>4, <2>1, <3>1, GrantIdle DEF try_acquire_idle, Call, Promise!AdmissionNext
  <2>2. CASE ~(active < max_active /\ queue = <<>>)
    BY <1>4, <2>2, SameWaiters DEF try_acquire_idle
  <2> QED BY <2>1, <2>2
<1>5. ASSUME NEW t \in Threads, AcquireAlreadyCancelled(t) \/ Cancel(t) \/ Expire(t)
      PROVE  UNCHANGED <<slots, Waiters, Ahead>>
  BY <1>5, SameWaiters DEF AcquireAlreadyCancelled, Cancel, Expire
<1>6. ASSUME NEW t \in Threads, acquire_timeout(t)
      PROVE  Promise!AdmissionNext \/ UNCHANGED <<slots, Waiters, Ahead>>
  <2>1. CASE active < max_active /\ queue = <<>>
    <3>1. 1 <= max_active - active
      BY <1>2, <2>1
    <3> QED BY <1>6, <2>1, <3>1, GrantIdle DEF acquire_timeout, Call, Promise!AdmissionNext
  <2>2. CASE /\ ~(active < max_active /\ queue = <<>>)
             /\ Len(queue) >= queue_capacity
    BY <1>2, <1>6, <2>2, SameWaiters DEF acquire_timeout
  <2>3. CASE /\ ~(active < max_active /\ queue = <<>>)
             /\ Len(queue) < queue_capacity
    <3>1. /\ ticket' = [ticket EXCEPT ![t] = next_ticket]
          /\ pc' = [pc EXCEPT ![t] = "waiting"]
          /\ pc[t] = "idle" /\ UNCHANGED slots
      BY <1>2, <1>6, <2>3 DEF acquire_timeout, Call
    <3>2. Waiters' = Waiters \cup {t} /\ t \notin Waiters
      BY <1>2, <3>1 DEF Waiters
    <3>3. \A u \in Waiters : ticket[u] < next_ticket /\ ticket'[u] = ticket[u]
      BY <1>1, <1>2, <3>1 DEF GateInv, QueueIsWaiters, TicketsDrawn, Waiters
    <3>4. Ahead' = [Ahead EXCEPT ![t] = Waiters]
      <4>1. ASSUME NEW u \in Threads, u # t PROVE Ahead'[u] = Ahead[u]
        <5>1. CASE u \in Waiters
          <6>1. ~(ticket'[t] < ticket'[u])
            BY <1>2, <3>1, <3>3, <4>1, <5>1
          <6> QED BY <3>2, <3>3, <5>1, <6>1 DEF Ahead
        <5>2. CASE u \notin Waiters
          BY <3>2, <4>1, <5>2 DEF Ahead
        <5> QED BY <5>1, <5>2
      <4>2. Ahead'[t] = Waiters
        <5>1. ticket'[t] = next_ticket
          BY <1>2, <3>1
        <5>2. Ahead'[t] = {u \in Waiters' : ticket'[u] < ticket'[t]}
          BY <3>2 DEF Ahead
        <5> QED BY <1>2, <3>2, <3>3, <5>1, <5>2
      <4> QED BY <4>1, <4>2 DEF Ahead
    <3>5. slots[t] = 0
      BY <1>1, <3>1 DEF TypeOK, PermitShape
    <3>6. Promise!Join(t)
      BY <3>1, <3>2, <3>4, <3>5 DEF Promise!Join
    <3> QED BY <3>6 DEF Promise!AdmissionNext
  <2> QED BY <1>6, <2>1, <2>2, <2>3 DEF acquire_timeout
<1>7. ASSUME NEW t \in Threads, WaitCancelled(t) \/ WaitTimedOut(t)
      PROVE  Promise!AdmissionNext
  <2>1. pc[t] = "waiting" /\ pc' = [pc EXCEPT ![t] = "idle"] /\ UNCHANGED <<ticket, slots>>
    BY <1>7 DEF WaitCancelled, WaitTimedOut, LeaveQueue
  <2>2. Promise!GiveUp(t)
    BY <1>2, <2>1, WaiterGoes DEF Promise!GiveUp, Waiters
  <2> QED BY <2>2 DEF Promise!AdmissionNext
<1>8. ASSUME NEW t \in Threads, WaitAdmitted(t)
      PROVE  Promise!AdmissionNext
  <2>1. /\ pc[t] = "waiting" /\ active < max_active /\ queue # <<>> /\ Head(queue) = ticket[t]
        /\ slots' = [slots EXCEPT ![t] = 1] /\ pc' = [pc EXCEPT ![t] = "holding"]
        /\ UNCHANGED ticket
    BY <1>8 DEF WaitAdmitted, IsFront, admit
  <2>2. Promise!NoLongerWaiting(t)
    BY <1>2, <2>1, WaiterGoes
  <2>3. t \in Waiters /\ Ahead[t] = {}
    <3>1. ASSUME NEW u \in Threads, pc[u] = "waiting" PROVE ~(ticket[u] < ticket[t])
      <4>1. PICK i \in 1..Len(queue) : queue[i] = ticket[u]
        BY <1>1, <3>1 DEF QueueIsWaiters
      <4>2. queue[1] = ticket[t] /\ 1 \in 1..Len(queue)
        BY <1>2, <2>1, HeadTailProperties
      <4>3. i # 1 => queue[1] < queue[i]
        BY <1>1, <4>1, <4>2 DEF QueueIsWaiters
      <4> QED BY <1>2, <4>1, <4>2, <4>3
    <3> QED BY <2>1, <3>1 DEF Waiters, Ahead
  <2>4. slots[t] = 0
    BY <1>1, <2>1 DEF TypeOK, PermitShape
  <2>5. Promise!Grant(t, 1)
    <3>1. Promise!Cardinality(Promise!Taken) + 1 <= max_active
      BY <1>1, <1>2, <2>1, TakenIsActive
    <3> QED BY <2>1, <2>2, <2>3, <2>4, <3>1 DEF Promise!Grant
  <2> QED BY <2>5 DEF Promise!AdmissionNext
<1>9. ASSUME NEW t \in Threads, DropPermit(t)
      PROVE  Promise!AdmissionNext
  <2>1. pc[t] = "holding" /\ pc' = [pc EXCEPT ![t] = "idle"] /\ slots' = [slots EXCEPT ![t] = 0]
        /\ UNCHANGED ticket
    BY <1>9 DEF DropPermit
  <2>2. UNCHANGED <<Waiters, Ahead>>
    BY <1>2, <2>1, SameOrder
  <2>3. slots[t] > 0
    BY <1>1, <2>1 DEF PermitShape
  <2> QED BY <2>1, <2>2, <2>3 DEF Promise!Release, Promise!AdmissionNext
<1>10. CASE UNCHANGED vars
  BY <1>10, SameWaiters DEF vars
<1> QED
  BY <1>3, <1>4, <1>5, <1>6, <1>7, <1>8, <1>9, <1>10 DEF Next, GateNext, Finished

\* Every behaviour of HelperGate, for every number of callers, slots and places
\* in the queue, is one of Admission: all-or-nothing groups, nobody admitted
\* ahead of one that waited before, never more slots out than there are.
THEOREM GateImplementsAdmission == Spec => ImplementsAdmission
<1>1. Init => Promise!AdmissionInit
  <2>1. Init => Waiters = {}
    BY DEF Init, Waiters
  <2>2. Init => Ahead = [t \in Threads |-> {}]
    BY <2>1 DEF Ahead
  <2> QED BY <2>1, <2>2 DEF Init, Promise!AdmissionInit
<1>2. GateInv /\ [Next]_vars => [Promise!AdmissionNext]_(Promise!admissionVars)
  BY StepImplements
<1> QED
  BY <1>1, <1>2, Invariance, PTL DEF Spec, ImplementsAdmission, Promise!AdmissionSpec


--------------------------------------------------------------------------------
(* The supervision of one helper process.                                     *)

Processes == {"leader", "child", "escaped"}
States == {"none", "running", "zombie", "gone"}
Places == {"start", "observe", "exited", "term", "grace", "kill", "reap", "join", "returned"}
Watching == {"observe", "exited", "term", "grace", "kill"}
After == {"reap", "join", "returned"}
Outcomes == {"none", "deadline", "not started", "error", "stopped", "panicked", "exited"}
Captures ==
  [pc : {"off", "read", "blocked", "poll", "done"}, kept : Seq(Nat), over : BOOLEAN,
   terminal : BOOLEAN, reads : Nat, seen : Nat, why : {"none", "cut", "end", "dry"}]

HpTypeOK ==
  /\ hpConfig \in [limit : Nat, retention : {"Head", "Tail"}]
  /\ hpRun \in [pc : Places, outcome : Outcomes]
  /\ hpProc \in [Processes -> States]
  /\ hpLate \in BOOLEAN /\ hpForeign \in BOOLEAN /\ hpStop \in BOOLEAN
  /\ hpWritten \in Nat /\ hpRead \in Nat /\ hpRead <= hpWritten
  /\ hpCapture \in Captures

\* The number is nobody else's before the leader is reaped, and the group is
\* empty by then.
Supervised ==
  /\ hpRun.pc = "start" =>
       /\ hpProc["leader"] = "none" /\ hpProc["child"] = "none"
       /\ hpCapture.pc = "off"
  /\ hpRun.pc \in Watching \cup {"reap"} => hpProc["leader"] \in {"running", "zombie"}
  /\ hpRun.pc \in After => hpProc["leader"] # "running" /\ hpProc["child"] # "running"
  /\ hpForeign => hpProc["leader"] = "gone"

\* m numbers from a + 1 on.
Run(a, m) == [i \in 1 .. m |-> a + i]
Smaller(a, b) == IF a < b THEN a ELSE b

Kept ==
  LET n == Len(hpCapture.kept)
  IN /\ n = Smaller(hpRead, hpConfig.limit)
     /\ hpCapture.kept = Run(IF hpConfig.retention = "Head" THEN 0 ELSE hpRead - n, n)
     /\ hpCapture.over <=> hpRead > hpConfig.limit

\* A reader that saw the end saw the last writer gone, and none comes back.
Ended ==
  /\ hpCapture.why # "none" => hpCapture.pc = "done"
  /\ hpCapture.pc = "done" => hpRun.pc # "start"
  /\ hpCapture.why = "end" =>
       hpRead = hpWritten /\ \A p \in Processes : hpProc[p] # "running"
  /\ hpCapture.seen <= hpRead

HpInv == HpTypeOK /\ Supervised /\ Kept /\ Ended

--------------------------------------------------------------------------------
(* Types.                                                                     *)

LEMMA InitHolds ==
  ASSUME HpInit
  PROVE  HpInv
<1> USE HpAssumption
<1>1. hpProc \in [Processes -> States] /\ hpProc["leader"] = "none" /\ hpProc["child"] = "none"
  BY DEF HpInit, HpNobody, Processes, States
<1>2. hpCapture \in Captures
  BY DEF HpInit, Captures
<1>3. hpConfig \in [limit : Nat, retention : {"Head", "Tail"}]
  BY DEF HpInit
<1>4. hpRun \in [pc : Places, outcome : Outcomes]
  BY DEF HpInit, Places, Outcomes
<1>5. HpTypeOK
  <2>1. hpLate \in BOOLEAN /\ hpForeign \in BOOLEAN /\ hpStop \in BOOLEAN
    BY Zenon DEF HpInit
  <2>2. hpWritten \in Nat /\ hpRead \in Nat /\ hpRead <= hpWritten
    BY DEF HpInit
  <2> QED BY <1>1, <1>2, <1>3, <1>4, <2>1, <2>2, Zenon DEF HpTypeOK
<1>6. Supervised
  BY <1>1 DEF HpInit, Supervised, Watching, After
<1>7. Kept
  <2>1. hpConfig.limit \in Nat
    BY <1>3
  <2> QED BY <2>1 DEF HpInit, Kept, Run, Smaller
<1>8. Ended
  BY DEF HpInit, Ended
<1> QED BY <1>5, <1>6, <1>7, <1>8 DEF HpInv

\* What a signal leaves of a process.
LEMMA KilledType ==
  ASSUME HpTypeOK, NEW p \in Processes
  PROVE  /\ Killed(p) \in States /\ Killed(p) # "running"
         /\ hpProc[p] = "none" => Killed(p) = "none"
         /\ p = "leader" /\ hpProc[p] \in {"running", "zombie"} => Killed(p) = "zombie"
BY DEF HpTypeOK, States, Processes, Killed

\* No step of the supervising thread touches what was read; it takes the
\* processes from one state to another.
LEMMA SuperviseType ==
  ASSUME HpInv, HpSupervise
  PROVE  /\ hpRun' \in [pc : Places, outcome : Outcomes]
         /\ hpProc' \in [Processes -> States] /\ hpStop' \in BOOLEAN
         /\ UNCHANGED <<hpConfig, hpLate, hpForeign, hpWritten, hpRead>>
<1>1. /\ hpRun \in [pc : Places, outcome : Outcomes] /\ hpProc \in [Processes -> States]
      /\ hpStop \in BOOLEAN /\ DOMAIN hpProc = Processes
  BY DEF HpInv, HpTypeOK
<1>2. \A p \in Processes : Killed(p) \in States
  BY KilledType DEF HpInv
<1> DEFINE Runs == [pc : Places, outcome : Outcomes]
<1>3. \A at \in Places, o \in Outcomes : (HpGo(at) => hpRun' \in Runs) /\ (HpEnd(at, o) => hpRun' \in Runs)
  BY <1>1 DEF HpGo, HpEnd
<1>4. /\ {"observe", "exited", "term", "grace", "kill", "reap", "join", "returned"} \subseteq Places
       /\ {"deadline", "not started", "error", "stopped", "panicked", "exited"} \subseteq Outcomes
  BY DEF Places, Outcomes
<1> HIDE DEF Runs
<1>7. CASE HpSpawn
  <2>1. hpRun' \in Runs
    BY <1>3, <1>4, <1>7, Zenon DEF HpSpawn
  <2>2. hpProc' \in [Processes -> States]
    BY <1>1, <1>7 DEF HpSpawn, States
  <2> QED BY <1>1, <1>7, <2>1, <2>2, Zenon DEF HpSpawn, Runs
<1>8. CASE HpObserve
  <2>1. hpRun' \in Runs
    BY <1>3, <1>4, <1>8, Zenon DEF HpObserve
  <2> QED BY <1>1, <1>8, <2>1, Zenon DEF HpObserve, Runs
<1>9. CASE HpLook
  <2>1. hpRun' \in Runs
    BY <1>3, <1>4, <1>9, Zenon DEF HpLook
  <2> QED BY <1>1, <1>9, <2>1, Zenon DEF HpLook, Runs
<1>10. CASE HpTerm
  <2>1. PICK S \in SUBSET Group :
          hpProc' = [p \in DOMAIN hpProc |-> IF p \in S THEN Killed(p) ELSE hpProc[p]]
    BY <1>10, Zenon DEF HpTerm
  <2>2. hpProc' \in [Processes -> States]
    BY ONLY <1>1, <1>2, <2>1
  <2>3. hpRun' \in Runs
    BY <1>3, <1>4, <1>10, Zenon DEF HpTerm
  <2> QED BY <1>1, <1>10, <2>2, <2>3, Zenon DEF HpTerm, Runs
<1> USE DEF HpGo, HpEnd, HpAt
<1>6. CASE HpNotStarted
  BY <1>1, <1>6 DEF HpNotStarted, Places, Outcomes
<1>11. CASE HpGrace
  BY <1>1, <1>11 DEF HpGrace, Places, Outcomes
<1>12. CASE HpKill
  BY <1>1, <1>2, <1>12 DEF HpKill, Places, Outcomes
<1>13. CASE HpReap
  BY <1>1, <1>13 DEF HpReap, Places, Outcomes, States
<1>14. CASE HpJoin
  BY <1>1, <1>14 DEF HpJoin, Places, Outcomes
<1> QED BY <1>6, <1>7, <1>8, <1>9, <1>10, <1>11, <1>12, <1>13, <1>14, Zenon DEF HpSupervise

\* Where a step of the supervising thread leaves it.
LEMMA Goes ==
  ASSUME HpInv
  PROVE  /\ \A at : HpGo(at) => hpRun'.pc = at
         /\ \A at, o : HpEnd(at, o) => hpRun'.pc = at
BY DEF HpInv, HpTypeOK, HpGo, HpEnd

LEMMA SuperviseKeepsGroup ==
  ASSUME HpInv, HpSupervise
  PROVE  Supervised' /\ hpRun'.pc # "start"
<1>1. /\ hpProc \in [Processes -> States] /\ hpRun.pc \in Places /\ DOMAIN hpProc = Processes
      /\ Supervised /\ hpForeign' = hpForeign
  BY SuperviseType DEF HpInv, HpTypeOK
<1>2. \A p \in Processes : Killed(p) \in States /\ Killed(p) # "running"
        /\ (p = "leader" /\ hpProc[p] \in {"running", "zombie"} => Killed(p) = "zombie")
  BY KilledType DEF HpInv
<1> USE DEF HpAt, Supervised, Watching, After
<1>3. CASE HpNotStarted
  <2>1. hpRun'.pc = "returned"
    BY <1>3, Goes DEF HpNotStarted
  <2>2. hpProc["leader"] = "none" /\ hpProc["child"] = "none" /\ hpProc' = hpProc
    BY <1>1, <1>3 DEF HpNotStarted
  <2> QED BY <1>1, <2>1, <2>2
<1>4. CASE HpSpawn
  <2>1. hpProc'["leader"] = "running" /\ hpRun'.pc \in {"observe", "term"}
    BY <1>1, <1>4, Goes DEF HpSpawn, Processes
  <2>2. ~hpForeign
    BY <1>1, <1>4 DEF HpSpawn
  <2> QED BY <1>1, <2>1, <2>2
<1>5. CASE HpObserve
  <2>1. hpRun'.pc \in {"exited", "term"}
    BY <1>5, Goes DEF HpObserve
  <2> QED BY <1>1, <1>5, <2>1 DEF HpObserve
<1>6. CASE HpLook
  <2>1. hpRun'.pc \in {"observe", "term", "kill"}
    BY <1>6, Goes DEF HpLook
  <2> QED BY <1>1, <1>6, <2>1 DEF HpLook
<1>7. CASE HpTerm
  <2>1. hpRun'.pc = "grace"
    BY <1>7, Goes DEF HpTerm
  <2>2. hpProc["leader"] \in {"running", "zombie"} /\ ~hpForeign
    BY <1>1, <1>7 DEF HpTerm
  <2>3. hpProc'["leader"] \in {hpProc["leader"], Killed("leader")}
    BY <1>1, <1>7 DEF HpTerm, Processes
  <2>4. hpProc'["leader"] \in {"running", "zombie"}
    BY <1>2, <2>2, <2>3 DEF Processes
  <2> QED BY <1>1, <2>1, <2>2, <2>4
<1>8. CASE HpGrace
  BY <1>1, <1>8, Goes DEF HpGrace
<1>9. CASE HpKill
  <2>1. hpRun'.pc = "reap"
    BY <1>9, Goes DEF HpKill
  <2>2. hpProc["leader"] \in {"running", "zombie"} /\ ~hpForeign
    BY <1>1, <1>9 DEF HpKill
  <2>3. hpProc'["leader"] = Killed("leader") /\ hpProc'["child"] = Killed("child")
    BY <1>1, <1>9 DEF HpKill, Processes, Group
  <2>4. hpProc'["leader"] = "zombie" /\ hpProc'["child"] # "running"
    BY <1>2, <2>2, <2>3 DEF Processes
  <2> QED BY <1>1, <2>1, <2>2, <2>4
<1>10. CASE HpReap
  <2>1. hpRun'.pc = "join" /\ hpProc'["leader"] = "gone" /\ hpProc'["child"] = hpProc["child"]
    BY <1>1, <1>10, Goes DEF HpReap, Processes
  <2> QED BY <1>1, <1>10, <2>1 DEF HpReap
<1>11. CASE HpJoin
  BY <1>1, <1>11, Goes DEF HpJoin
<1> QED BY <1>3, <1>4, <1>5, <1>6, <1>7, <1>8, <1>9, <1>10, <1>11, Zenon DEF HpSupervise

\* It gives nobody the pipe back but the helper it starts, before which the
\* reader has not begun.
LEMMA SuperviseKeepsReader ==
  ASSUME HpInv, HpSupervise
  PROVE  hpCapture' \in Captures /\ Kept' /\ Ended'
<1>1. /\ hpRead' = hpRead /\ hpWritten' = hpWritten /\ hpConfig' = hpConfig /\ hpRun'.pc # "start"
      /\ Kept /\ Ended /\ hpCapture \in Captures
  BY SuperviseType, SuperviseKeepsGroup DEF HpInv, HpTypeOK
<1>2. CASE HpSpawn
  <2>1. hpCapture.pc = "off" /\ hpCapture.why = "none"
    BY <1>1, <1>2 DEF HpSpawn, HpAt, HpInv, Supervised, Ended, Captures
  <2>2. hpCapture' \in Captures
    BY <1>1, <1>2 DEF HpSpawn, Captures
  <2>3. /\ hpCapture'.kept = hpCapture.kept /\ hpCapture'.over = hpCapture.over
        /\ hpCapture'.why = "none" /\ hpCapture'.seen = hpCapture.seen
        /\ hpCapture'.pc # "done"
    BY <1>1, <1>2, <2>1 DEF HpSpawn, Captures
  <2> QED BY <1>1, <2>2, <2>3 DEF Kept, Ended
<1>3. CASE ~HpSpawn
  <2>1. hpCapture' = hpCapture
    BY <1>3, Zenon DEF HpSupervise, HpNotStarted, HpObserve, HpLook, HpTerm, HpGrace, HpKill, HpReap, HpJoin
  <2>2. \A p \in Processes : hpProc'[p] = "running" => hpProc[p] = "running"
    <3>1. hpProc \in [Processes -> States] /\ DOMAIN hpProc = Processes
      BY DEF HpInv, HpTypeOK
    <3>2. \A p \in Processes : Killed(p) # "running"
      BY KilledType DEF HpInv
    <3>3. CASE HpTerm
      BY <3>1, <3>2, <3>3 DEF HpTerm
    <3>4. CASE HpKill
      BY <3>1, <3>2, <3>4 DEF HpKill
    <3>5. CASE HpReap
      BY <3>1, <3>5 DEF HpReap, Processes
    <3>6. CASE ~(HpTerm \/ HpKill \/ HpReap)
      <4>1. hpProc' = hpProc
        BY <1>3, <3>6, Zenon DEF HpSupervise, HpNotStarted, HpObserve, HpLook, HpGrace, HpJoin
      <4> QED BY <4>1
    <3> QED BY <3>3, <3>4, <3>5, <3>6
  <2> QED BY <1>1, <2>1, <2>2 DEF Kept, Ended
<1> QED BY <1>2, <1>3

--------------------------------------------------------------------------------
(* What the reader keeps.                                                     *)

LEMMA RunType ==
  ASSUME NEW a \in Nat, NEW m \in Nat
  PROVE  /\ Run(a, m) \in Seq(Nat) /\ Len(Run(a, m)) = m
         /\ \A i \in 1 .. m : Run(a, m)[i] = a + i
BY DEF Run

\* Any m numbers from a + 1 on are the run of them.
LEMMA RunIs ==
  ASSUME NEW a \in Nat, NEW m \in Nat, NEW s \in Seq(Nat), Len(s) = m,
         \A i \in 1 .. m : s[i] = a + i
  PROVE  s = Run(a, m)
<1>1. s = [i \in 1 .. m |-> s[i]]
  OBVIOUS
<1> QED BY <1>1 DEF Run

\* So is a part of a sequence that has them after its first j.
Carries(s, j, k, a) == j + k <= Len(s) /\ \A i \in 1 .. k : s[j + i] = a + i

LEMMA SliceIs ==
  ASSUME NEW s \in Seq(Nat), NEW j \in Nat, NEW k \in Nat, NEW a \in Nat, Carries(s, j, k, a)
  PROVE  SubSeq(s, j + 1, j + k) = Run(a, k)
<1> DEFINE t == SubSeq(s, j + 1, j + k)
<1>1. t \in Seq(Nat) /\ Len(t) = k
  BY DEF Carries
<1>2. \A i \in 1 .. k : t[i] = s[j + i]
  BY DEF Carries
<1> HIDE DEF t
<1>3. \A i \in 1 .. k : t[i] = a + i
  BY <1>2 DEF Carries
<1>4. t = Run(a, k)
  BY <1>1, <1>3, RunIs
<1> QED BY <1>4 DEF t

\* The end of what is kept and m numbers more, or the beginning of it.
LEMMA Retained ==
  ASSUME HpInv, NEW m \in Nat
  PROVE  LET k == Smaller(hpRead + m, hpConfig.limit)
         IN Retain(hpCapture.kept, Run(hpRead, m)) =
              Run(IF hpConfig.retention = "Head" THEN 0 ELSE hpRead + m - k, k)
<1>1. PICK l \in Nat, r \in Nat : l = hpConfig.limit /\ r = hpRead
  BY DEF HpInv, HpTypeOK
<1>2. PICK n \in Nat : n = Smaller(r, l) /\ n <= r
  BY DEF Smaller
<1>3. PICK k \in Nat : k = Smaller(r + m, l)
  BY DEF Smaller
<1>4. k <= n + m /\ k <= r + m /\ k = Smaller(n + m, l) /\ (k > n => n = r)
  BY <1>2, <1>3 DEF Smaller
<1>5. PICK a \in Nat : a = IF hpConfig.retention = "Head" THEN 0 ELSE r - n
  BY <1>2
<1>6. PICK p, q, s : p = hpCapture.kept /\ q = Run(r, m) /\ s = p \o q
  OBVIOUS
<1>7. /\ p \in Seq(Nat) /\ Len(p) = n /\ \A i \in 1 .. n : p[i] = a + i
  <2>1. Len(hpCapture.kept) = n
    BY <1>1, <1>2 DEF HpInv, Kept
  <2>2. hpCapture.kept = Run(a, n)
    BY <1>1, <1>5, <2>1 DEF HpInv, Kept
  <2>3. /\ Run(a, n) \in Seq(Nat) /\ Len(Run(a, n)) = n
        /\ \A i \in 1 .. n : Run(a, n)[i] = a + i
    BY RunType
  <2> QED BY <1>6, <2>2, <2>3, Zenon
<1>8. q \in Seq(Nat) /\ Len(q) = m /\ \A i \in 1 .. m : q[i] = r + i
  BY <1>6, RunType
<1>s. s = p \o q
  BY <1>6
<1>9. s \in Seq(Nat) /\ Len(s) = n + m /\ \A i \in 1 .. n : s[i] = a + i
  <2>1. s \in Seq(Nat) /\ Len(s) = n + m
    <3>1. p \in Seq(Nat) /\ Len(p) = n /\ q \in Seq(Nat) /\ Len(q) = m
      BY <1>7, <1>8
    <3>2. p \o q \in Seq(Nat) /\ Len(p \o q) = Len(p) + Len(q)
      BY <3>1, ConcatProperties, Zenon
    <3> QED BY <1>s, <3>1, <3>2, Zenon
  <2>2. \A i \in 1 .. n : s[i] = p[i]
    BY ONLY <1>s, <1>7, <1>8, n \in Nat, m \in Nat
  <2> QED BY <1>7, <2>1, <2>2
<1>10. ASSUME NEW i \in n + 1 .. n + m
       PROVE  s[i] = r + (i - n)
  <2>1. s[i] = q[i - n] /\ i - n \in 1 .. m
    BY ONLY <1>s, <1>7, <1>8, n \in Nat, m \in Nat, i \in n + 1 .. n + m
  <2> QED BY <1>8, <2>1
<1>11. Retain(p, q) =
         IF hpConfig.retention = "Head" THEN SubSeq(s, 1, Smaller(Len(s), l))
         ELSE SubSeq(s, Len(s) - Smaller(Len(s), l) + 1, Len(s))
  BY <1>1, <1>6, Zenon DEF Retain, Smaller
<1>12. Smaller(Len(s), l) = k
  BY <1>4, <1>9
<1>13. PICK j \in Nat, c \in Nat :
         IF hpConfig.retention = "Head" THEN j = 0 /\ c = 0
         ELSE j = n + m - k /\ c = r + m - k
  BY <1>4
<1>14. ASSUME NEW i \in 1 .. k
       PROVE  s[j + i] = c + i
  <2>1. CASE hpConfig.retention = "Head"
    <3>1. a = 0 /\ j = 0 /\ c = 0
      BY <1>5, <1>13, <2>1
    <3>2. CASE i <= n
      BY <1>9, <3>1, <3>2
    <3>3. CASE i > n
      BY <1>4, <1>10, <3>1, <3>3
    <3> QED BY <3>2, <3>3
  <2>2. CASE hpConfig.retention # "Head"
    <3>1. PICK x \in Nat : x = j + i
      OBVIOUS
    <3>2. a + x = c + i /\ r + (x - n) = c + i /\ x \in (1 .. n) \cup (n + 1 .. n + m)
      BY <1>2, <1>4, <1>5, <1>13, <2>2, <3>1
    <3>3. s[x] = c + i
      BY <1>9, <1>10, <3>2, Zenon
    <3> QED BY <3>1, <3>3
  <2> QED BY <2>1, <2>2
<1>15. j + k <= Len(s)
  BY <1>4, <1>9, <1>13
<1>16. \A i \in 1 .. k : s[j + i] = c + i
  BY <1>14
<1>17. SubSeq(s, j + 1, j + k) = Run(c, k)
  <2>1. PICK u \in Seq(Nat) : u = s
    BY <1>9
  <2>2. Carries(u, j, k, c)
    BY <1>15, <1>16, <2>1, Zenon DEF Carries
  <2>3. SubSeq(u, j + 1, j + k) = Run(c, k)
    BY <2>2, SliceIs
  <2> QED BY <2>1, <2>3
<1>18. Retain(p, q) = SubSeq(s, j + 1, j + k)
  <2>1. CASE hpConfig.retention = "Head"
    <3>1. j + 1 = 1 /\ j + k = k
      BY <1>13, <2>1
    <3> QED BY <1>11, <1>12, <2>1, <3>1, Zenon
  <2>2. CASE hpConfig.retention # "Head"
    <3>1. Len(s) - k + 1 = j + 1 /\ Len(s) = j + k
      BY <1>9, <1>13, <2>2
    <3> QED BY <1>11, <1>12, <2>2, <3>1, Zenon
  <2> QED BY <2>1, <2>2
<1>19. c = IF hpConfig.retention = "Head" THEN 0 ELSE hpRead + m - k
  BY <1>1, <1>13
<1> QED BY <1>1, <1>3, <1>6, <1>17, <1>18, <1>19, Zenon

LEMMA ReadsKeep ==
  ASSUME HpInv, CaptureReads
  PROVE  hpCapture' \in Captures /\ Kept' /\ hpRead' \in Nat /\ hpRead < hpRead' /\ hpRead' <= hpWritten
         /\ hpCapture'.pc = "read" /\ hpCapture'.why = hpCapture.why /\ hpCapture'.seen = hpCapture.seen
<1>1. /\ hpCapture \in Captures /\ hpCapture.pc = "read" /\ hpRead \in Nat /\ hpConfig.limit \in Nat
      /\ hpConfig' = hpConfig /\ Kept
  BY DEF HpInv, HpTypeOK, CaptureReads, CaptureUnchanged
<1>2. PICK m \in 1 .. HpChunk :
        /\ hpRead + m <= hpWritten /\ hpRead' = hpRead + m
        /\ hpCapture' = [hpCapture EXCEPT
             !.kept = Retain(@, [i \in 1 .. m |-> hpRead + i]),
             !.over = @ \/ m > hpConfig.limit - Len(hpCapture.kept),
             !.reads = IF hpStop THEN @ + 1 ELSE @]
  BY Zenon DEF CaptureReads, SetCapture
<1>3. m \in Nat /\ m > 0
  BY HpAssumption
<1>4. PICK k \in Nat : k = Smaller(hpRead + m, hpConfig.limit) /\ k <= hpRead + m
  BY <1>1, <1>3 DEF Smaller
<1>5. PICK new : new = Retain(hpCapture.kept, Run(hpRead, m))
  OBVIOUS
<1>6. PICK a : a = IF hpConfig.retention = "Head" THEN 0 ELSE hpRead + m - k
  OBVIOUS
<1>7. new = Run(a, k)
  BY <1>3, <1>4, <1>5, <1>6, Retained, Zenon
<1>8. new \in Seq(Nat) /\ Len(new) = k
  <2>1. a \in Nat
    BY <1>1, <1>3, <1>4, <1>6
  <2> QED BY <1>7, <2>1, RunType
<1>9. PICK over, reads :
        /\ over = (hpCapture.over \/ m > hpConfig.limit - Len(hpCapture.kept))
        /\ reads = IF hpStop THEN hpCapture.reads + 1 ELSE hpCapture.reads
  OBVIOUS
<1>10. over \in BOOLEAN /\ reads \in Nat
  <2>1. hpCapture.over \in BOOLEAN /\ hpCapture.reads \in Nat
    BY <1>1 DEF Captures
  <2>2. over \in BOOLEAN
    BY <1>9, <2>1, Zenon
  <2>3. reads \in Nat
    BY <1>9, <2>1
  <2> QED BY <2>2, <2>3
<1>11. hpCapture' = [hpCapture EXCEPT !.kept = new, !.over = over, !.reads = reads]
  BY <1>2, <1>5, <1>9, Zenon DEF Run
<1>12. /\ hpCapture' \in Captures /\ hpCapture'.kept = new /\ hpCapture'.over = over
       /\ hpCapture'.pc = "read" /\ hpCapture'.why = hpCapture.why /\ hpCapture'.seen = hpCapture.seen
  BY <1>1, <1>8, <1>10, <1>11 DEF Captures
<1>13. Kept'
  <2>1. Len(hpCapture'.kept) = Smaller(hpRead', hpConfig'.limit)
    BY <1>1, <1>2, <1>4, <1>8, <1>12
  <2>2. hpCapture'.kept = Run(IF hpConfig'.retention = "Head" THEN 0 ELSE hpRead' - Len(hpCapture'.kept),
                              Len(hpCapture'.kept))
    <3>1. a = IF hpConfig'.retention = "Head" THEN 0 ELSE hpRead' - Len(hpCapture'.kept)
      BY <1>1, <1>2, <1>6, <1>8, <1>12
    <3>2. hpCapture'.kept = Run(a, Len(hpCapture'.kept))
      BY <1>7, <1>8, <1>12, Zenon
    <3> QED BY <3>1, <3>2, Zenon
  <2>3. hpCapture.over <=> hpRead > hpConfig.limit
    BY <1>1 DEF Kept
  <2>4. Len(hpCapture.kept) = Smaller(hpRead, hpConfig.limit)
    BY <1>1 DEF Kept
  <2>5. (hpRead > hpConfig.limit \/ m > hpConfig.limit - Len(hpCapture.kept)) <=> hpRead + m > hpConfig.limit
    BY <1>1, <1>3, <2>4 DEF Smaller
  <2>6. hpCapture'.over <=> hpRead' > hpConfig'.limit
    BY <1>1, <1>2, <1>9, <1>12, <2>3, <2>5, Zenon
  <2> QED BY <2>1, <2>2, <2>6, Zenon DEF Kept
<1> QED BY <1>1, <1>2, <1>3, <1>12, <1>13

\* The other steps of the reader read nothing.
LEMMA OtherStepsKeep ==
  ASSUME HpInv, CaptureStops \/ CaptureEmpty \/ CaptureBlocked \/ CapturePolls
  PROVE  /\ hpCapture' \in Captures /\ hpRead' = hpRead
         /\ hpCapture'.kept = hpCapture.kept /\ hpCapture'.over = hpCapture.over
         /\ hpCapture'.seen <= hpRead /\ hpCapture.pc \in {"read", "blocked", "poll"}
         /\ hpCapture'.why # "none" => hpCapture'.pc = "done"
         /\ hpCapture'.why = "end" => hpRead = hpWritten /\ Writers = {}
<1>1. /\ hpCapture \in Captures /\ hpRead \in Nat /\ hpWritten \in Nat
      /\ hpCapture.seen <= hpRead /\ (hpCapture.why # "none" => hpCapture.pc = "done")
  BY DEF HpInv, HpTypeOK, Ended
<1> USE DEF SetCapture, Captures
<1>2. CASE CaptureStops
  BY <1>1, <1>2 DEF CaptureStops
<1>3. CASE CaptureEmpty
  <2>1. CASE Writers = {}
    <3>1. hpCapture' = [hpCapture EXCEPT !.pc = "done", !.why = "end"]
      BY <1>3, <2>1 DEF CaptureEmpty
    <3> QED BY <1>1, <1>3, <2>1, <3>1 DEF CaptureEmpty
  <2>2. CASE Writers # {}
    <3>1. hpCapture' = [hpCapture EXCEPT !.pc = "blocked", !.seen = hpWritten]
      BY <1>3, <2>2 DEF CaptureEmpty
    <3>2. hpRead = hpWritten /\ hpRead' = hpRead /\ hpCapture.pc = "read"
      BY <1>3 DEF CaptureEmpty
    <3>3. /\ hpCapture' \in Captures /\ hpCapture'.pc = "blocked" /\ hpCapture'.seen = hpWritten
          /\ hpCapture'.kept = hpCapture.kept /\ hpCapture'.over = hpCapture.over
          /\ hpCapture'.why = hpCapture.why
      BY <1>1, <3>1
    <3> QED BY <1>1, <3>2, <3>3
  <2> QED BY <2>1, <2>2
<1>4. CASE CaptureBlocked
  <2>1. \/ hpCapture' = [hpCapture EXCEPT !.pc = "done", !.why = "dry"]
        \/ hpCapture' = [hpCapture EXCEPT !.pc = "poll"]
    BY <1>4, Zenon DEF CaptureBlocked
  <2> QED BY <1>1, <1>4, <2>1 DEF CaptureBlocked
<1>5. CASE CapturePolls
  <2>1. PICK terminal \in BOOLEAN : hpCapture' = [hpCapture EXCEPT !.pc = "read", !.terminal = terminal]
    <3>1. (hpCapture.terminal \/ Writers = {}) \in BOOLEAN
      BY Zenon
    <3> QED BY <1>5, <3>1, Zenon DEF CapturePolls
  <2>2. /\ hpCapture' \in Captures /\ hpCapture'.pc = "read" /\ hpCapture'.why = hpCapture.why
        /\ hpCapture'.kept = hpCapture.kept /\ hpCapture'.over = hpCapture.over
        /\ hpCapture'.seen = hpCapture.seen
    BY <1>1, <2>1
  <2> QED BY <1>1, <1>5, <2>2 DEF CapturePolls
<1> QED BY <1>2, <1>3, <1>4, <1>5

LEMMA CaptureKeeps ==
  ASSUME HpInv, HpCaptureStep
  PROVE  HpInv'
<1>1. UNCHANGED <<hpConfig, hpRun, hpLate, hpProc, hpForeign, hpWritten, hpStop>>
  BY Zenon DEF HpCaptureStep, CaptureUnchanged, CaptureStops, CaptureReads, CaptureEmpty, CaptureBlocked, CapturePolls
<1>2. HpTypeOK /\ Supervised /\ Kept /\ Ended /\ hpWritten \in Nat /\ hpRead \in Nat /\ hpRead <= hpWritten
  BY DEF HpInv, HpTypeOK
<1>3. /\ hpCapture' \in Captures /\ Kept' /\ hpRead' \in Nat /\ hpRead' <= hpWritten
      /\ hpCapture'.seen <= hpRead' /\ hpCapture.pc # "off"
      /\ hpCapture'.why # "none" => hpCapture'.pc = "done"
      /\ hpCapture'.why = "end" => hpRead' = hpWritten /\ Writers = {}
  <2>1. CASE CaptureReads
    <3>1. hpCapture.pc = "read" /\ hpCapture.why = "none"
      BY <1>2, <2>1 DEF CaptureReads, Ended
    <3>2. hpCapture.seen \in Nat
      BY <1>2 DEF HpTypeOK, Captures
    <3> QED BY <1>2, <2>1, <3>1, <3>2, ReadsKeep DEF Ended
  <2>2. CASE CaptureStops \/ CaptureEmpty \/ CaptureBlocked \/ CapturePolls
    <3>1. /\ hpCapture' \in Captures /\ hpRead' = hpRead
          /\ hpCapture'.kept = hpCapture.kept /\ hpCapture'.over = hpCapture.over
          /\ hpCapture'.seen <= hpRead /\ hpCapture.pc \in {"read", "blocked", "poll"}
          /\ hpCapture'.why # "none" => hpCapture'.pc = "done"
          /\ hpCapture'.why = "end" => hpRead = hpWritten /\ Writers = {}
      BY <2>2, OtherStepsKeep, Zenon
    <3>2. Kept'
      BY <1>1, <1>2, <3>1 DEF Kept
    <3> QED BY <1>2, <3>1, <3>2
  <2> QED BY <2>1, <2>2, Zenon DEF HpCaptureStep
<1>4. HpTypeOK'
  BY <1>1, <1>2, <1>3 DEF HpTypeOK
<1>5. hpRun.pc # "start"
  BY <1>2, <1>3 DEF Supervised
<1>6. Supervised'
  BY <1>1, <1>2, <1>5, Zenon DEF Supervised
<1>7. Ended'
  <2>1. Writers = {} => \A p \in Processes : hpProc[p] # "running"
    BY <1>2 DEF HpTypeOK, Writers, Running
  <2> QED BY <1>1, <1>3, <1>5, <2>1, Zenon DEF Ended
<1> QED BY <1>3, <1>4, <1>6, <1>7, Zenon DEF HpInv

--------------------------------------------------------------------------------
(* The processes, the clock and the operating system.                         *)

LEMMA OutsideKeeps ==
  ASSUME HpInv, HpOutside
  PROVE  HpInv'
<1>1. UNCHANGED <<hpConfig, hpRun, hpRead, hpStop, hpCapture>>
  BY Zenon DEF HpOutside, OutsideUnchanged, HpWrite, HpDeadline, HpReuse, HpFork, HpExit
<1>2. /\ HpTypeOK /\ Supervised /\ Kept /\ Ended
      /\ hpProc \in [Processes -> States] /\ DOMAIN hpProc = Processes
  BY DEF HpInv, HpTypeOK
<1>3. Kept'
  BY <1>1, <1>2, Zenon DEF Kept
<1>4. ASSUME HpTypeOK', Supervised', Ended'
      PROVE  HpInv'
  BY <1>3, <1>4, Zenon DEF HpInv
<1>5. CASE HpWrite
  <2>1. hpWritten' = hpWritten + 1 /\ UNCHANGED <<hpLate, hpProc, hpForeign>> /\ Writers # {}
    BY <1>5 DEF HpWrite
  <2>2. hpCapture.why # "end"
    BY <1>2, <2>1 DEF Ended, Writers, Running
  <2>3. HpTypeOK'
    BY <1>1, <1>2, <2>1 DEF HpTypeOK
  <2>4. Supervised'
    BY <1>1, <1>2, <2>1, Zenon DEF Supervised
  <2>5. Ended'
    BY <1>1, <1>2, <2>2, Zenon DEF Ended
  <2> QED BY <1>4, <2>3, <2>4, <2>5
<1>6. CASE HpDeadline
  <2>1. hpLate' = TRUE /\ UNCHANGED <<hpProc, hpForeign, hpWritten>>
    BY <1>6 DEF HpDeadline
  <2>2. HpTypeOK'
    BY <1>1, <1>2, <2>1 DEF HpTypeOK
  <2>3. Supervised' /\ Ended'
    BY <1>1, <1>2, <2>1, Zenon DEF Supervised, Ended
  <2> QED BY <1>4, <2>2, <2>3
<1>7. CASE HpReuse
  <2>1. hpForeign' = TRUE /\ UNCHANGED <<hpLate, hpProc, hpWritten>> /\ hpProc["leader"] = "gone"
    BY <1>7 DEF HpReuse
  <2>2. HpTypeOK'
    BY <1>1, <1>2, <2>1 DEF HpTypeOK
  <2>3. Supervised' /\ Ended'
    BY <1>1, <1>2, <2>1, Zenon DEF Supervised, Ended
  <2> QED BY <1>4, <2>2, <2>3
<1>8. ASSUME NEW p \in Processes, HpFork(p)
      PROVE  HpInv'
  <2>1. /\ p # "leader" /\ hpProc[p] = "none" /\ hpProc' = [hpProc EXCEPT ![p] = "running"]
        /\ UNCHANGED <<hpLate, hpForeign, hpWritten>>
        /\ hpProc["leader"] = "running" \/ (p = "escaped" /\ hpProc["child"] = "running")
    BY <1>8 DEF HpFork, Running
  <2>2. hpProc' \in [Processes -> States] /\ \A q \in Processes : q # p => hpProc'[q] = hpProc[q]
    BY <1>2, <2>1 DEF States
  <2>3. HpTypeOK'
    BY <1>1, <1>2, <2>1, <2>2 DEF HpTypeOK
  <2>4. hpRun.pc # "start"
    BY <1>2, <2>1 DEF Supervised
  <2>5. hpRun.pc \in After => p # "child"
    BY <1>2, <2>1 DEF Supervised
  <2>6. hpProc'["leader"] = hpProc["leader"] /\ (p # "child" => hpProc'["child"] = hpProc["child"])
    BY <2>1, <2>2 DEF Processes
  <2>7. Supervised'
    BY <1>1, <1>2, <2>1, <2>4, <2>5, <2>6 DEF Supervised
  <2>8. hpCapture.why # "end"
    BY <1>2, <2>1 DEF Ended, Processes
  <2>9. Ended'
    BY <1>1, <1>2, <2>8, Zenon DEF Ended
  <2> QED BY <1>4, <2>3, <2>7, <2>9
<1>9. ASSUME NEW p \in Processes, HpExit(p)
      PROVE  HpInv'
  <2>1. /\ hpProc[p] = "running" /\ hpProc' = [hpProc EXCEPT ![p] = IF p = "leader" THEN "zombie" ELSE "gone"]
        /\ UNCHANGED <<hpLate, hpForeign, hpWritten>>
    BY <1>9 DEF HpExit, Running, Killed
  <2>2. /\ hpProc' \in [Processes -> States] /\ \A q \in Processes : q # p => hpProc'[q] = hpProc[q]
        /\ hpProc'[p] = IF p = "leader" THEN "zombie" ELSE "gone"
    BY <1>2, <2>1 DEF States
  <2>3. HpTypeOK'
    BY <1>1, <1>2, <2>1, <2>2 DEF HpTypeOK
  <2>4. /\ hpProc'["leader"] = hpProc["leader"]
           \/ (hpProc["leader"] = "running" /\ hpProc'["leader"] = "zombie")
        /\ hpProc'["child"] = hpProc["child"]
           \/ (hpProc["child"] = "running" /\ hpProc'["child"] = "gone")
    BY <2>1, <2>2 DEF Processes
  <2>5. Supervised'
    BY <1>1, <1>2, <2>1, <2>4 DEF Supervised, Watching, After
  <2>6. hpCapture.why # "end"
    BY <1>2, <2>1 DEF Ended
  <2>7. Ended'
    BY <1>1, <1>2, <2>6, Zenon DEF Ended
  <2> QED BY <1>4, <2>3, <2>5, <2>7
<1> QED BY <1>2, <1>5, <1>6, <1>7, <1>8, <1>9, Zenon DEF HpOutside

--------------------------------------------------------------------------------
LEMMA StepKeeps ==
  ASSUME HpInv, [HpNext]_hpVars
  PROVE  HpInv'
<1>1. CASE HpSupervise
  <2>1. HpTypeOK'
    BY <1>1, SuperviseType, SuperviseKeepsReader DEF HpInv, HpTypeOK
  <2> QED BY <1>1, <2>1, SuperviseKeepsGroup, SuperviseKeepsReader, Zenon DEF HpInv
<1>2. CASE HpCaptureStep
  BY <1>2, CaptureKeeps
<1>3. CASE HpOutside
  BY <1>3, OutsideKeeps
<1>4. CASE UNCHANGED hpVars
  <2>1. HpTypeOK'
    BY <1>4, Zenon DEF HpInv, HpTypeOK, hpVars
  <2>2. Supervised'
    BY <1>4, Zenon DEF HpInv, Supervised, hpVars
  <2>3. Kept' /\ Ended'
    BY <1>4, Zenon DEF HpInv, Kept, Ended, hpVars
  <2> QED BY <2>1, <2>2, <2>3, Zenon DEF HpInv
<1> QED BY <1>1, <1>2, <1>3, <1>4, Zenon DEF HpNext

LEMMA InvSuffices ==
  ASSUME HpInv
  PROVE  HelpersKept
<1>1. HpTypeOK /\ Supervised /\ Kept /\ Ended
  BY DEF HpInv
<1>2. Contained
  BY <1>1 DEF HpTypeOK, Supervised, Contained, Watching, After, HpAt, Group, Running
<1>3. Captured
  <2>1. hpCapture.kept = [i \in 1 .. Len(hpCapture.kept) |->
                            (IF hpConfig.retention = "Head" THEN 0 ELSE hpRead - Len(hpCapture.kept)) + i]
    BY <1>1, Zenon DEF Kept, Run
  <2> QED BY <1>1, <2>1, Zenon DEF Kept, Ended, Captured, Smaller
<1> QED BY <1>2, <1>3 DEF HelpersKept

(* While the leader of the helper's group is not reaped a signal to the    *)
(* group cannot reach somebody else's processes, and nobody of the group   *)
(* is left when the run returns (signal_group, terminate_raw_child,        *)
(* collect_exited); what the reader keeps is the beginning or the end of   *)
(* what it read, and one that was not cut short read all there was         *)
(* (drain_bounded).  For every limit, chunk and pipe.                      *)
THEOREM HelpersAlwaysKept == HpSpec => []HelpersKept
<1>1. HpInit => HpInv
  BY InitHolds
<1>2. HpInv /\ [HpNext]_hpVars => HpInv'
  BY StepKeeps
<1>3. HpInv => HelpersKept
  BY InvSuffices
<1> QED BY <1>1, <1>2, <1>3, PTL DEF HpSpec

=============================================================================
