------------------------------ MODULE Admission ------------------------------
(***************************************************************************)
(* What a gate of Limit slots promises its callers, whatever it keeps to   *)
(* do so: a caller is given all the slots it asks for at once, only while  *)
(* they are free, and never ahead of one that was waiting before it.       *)
(***************************************************************************)
EXTENDS Naturals, FiniteSets

CONSTANTS
  Callers,
  Limit    \* slots of the gate

VARIABLES
  held,    \* the slots each caller has
  waiting, \* the callers that are waiting
  ahead    \* of each that waits: those that were waiting when it came

AdmissionInit ==
  /\ held = [c \in Callers |-> 0]
  /\ waiting = {}
  /\ ahead = [c \in Callers |-> {}]

\* The slots that are taken: one pair for each.
Taken == {p \in Callers \X (1..Limit) : p[2] <= held[p[1]]}

\* c is not waiting any more, so nobody waits for it.
NoLongerWaiting(c) ==
  /\ waiting' = waiting \ {c}
  /\ ahead' = [d \in Callers |-> IF d = c THEN {} ELSE ahead[d] \ {c}]

Join(c) ==
  /\ c \notin waiting /\ held[c] = 0
  /\ waiting' = waiting \cup {c}
  /\ ahead' = [ahead EXCEPT ![c] = waiting]
  /\ UNCHANGED held

\* Groups are not queued: one that waited is given one slot.
Grant(c, n) ==
  /\ held[c] = 0
  /\ Cardinality(Taken) + n <= Limit
  /\ IF c \in waiting THEN n = 1 /\ ahead[c] = {} ELSE waiting = {}
  /\ held' = [held EXCEPT ![c] = n]
  /\ NoLongerWaiting(c)

GiveUp(c) ==
  /\ c \in waiting
  /\ NoLongerWaiting(c)
  /\ UNCHANGED held

Release(c) ==
  /\ held[c] > 0
  /\ held' = [held EXCEPT ![c] = 0]
  /\ UNCHANGED <<waiting, ahead>>

AdmissionNext ==
  \E c \in Callers :
    Join(c) \/ GiveUp(c) \/ Release(c) \/ \E n \in 1..Limit : Grant(c, n)

admissionVars == <<held, waiting, ahead>>

AdmissionSpec == AdmissionInit /\ [][AdmissionNext]_admissionVars
=============================================================================
