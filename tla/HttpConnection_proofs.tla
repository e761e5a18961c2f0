------------------------ MODULE HttpConnection_proofs ------------------------
(***************************************************************************)
(* Proofs about HttpConnection, for any number of connections and permits  *)
(* and whatever the clients send.  ConnOK says what a connection knows at  *)
(* each place of its task, EndOK how a connection may end, LogOK relates   *)
(* what was counted to the connections, PermitsKept the permits to them.   *)
(***************************************************************************)
EXTENDS HttpConnection, FiniteSetTheorems, TLAPS

Responses == [status : Nat, persist : BOOLEAN, body : {0, 1}, file : {0, 1}]
Wires == [req : Nat, status : Nat, persist : BOOLEAN, got : Nat, size : Nat]
Observations ==
  [open : BOOLEAN, written : Nat, promised : Int, outcome : Outcomes \cup {"none"}]
ConnState ==
  [at : {"away", "backlog", "refused", "headers", "body", "worker", "write",
         "stream", "next", "closed"},
   script : UNION {HcScripts[d] : d \in HcConns}, sent : Nat, read : Nat, taken : Nat,
   client : {"open", "fin", "reset"}, left : Int, answered : Nat, query : BOOLEAN,
   resp : Responses, unsent : Nat, wire : Seq(Wires), obs : Observations, begun : Nat]

TypeOK ==
  /\ hcConn \in [HcConns -> ConnState]
  /\ hcAccept \in {"permit", "accept", "sleep", "stopped"}
  /\ hcFree \in Nat /\ hcErrors \in Nat
  /\ hcTotals \in [Outcomes -> Nat]
  /\ hcLog \subseteq [conn : HcConns, nr : Nat, outcome : Outcomes]
  /\ IsFiniteSet(hcLog)

\* Two pieces of a request are drained together.
Taken(k) == k.taken \div 2
Pieces(k) ==
  /\ k.taken <= k.read /\ k.read <= k.sent /\ 2 * k.begun - 1 <= k.read
  /\ k.taken = 2 * Taken(k)

\* How many responses and observations have begun, by the place of the task.
Numbers(k) == LET n == Len(k.wire) m == Taken(k) IN
  /\ k.at \in {"away", "backlog", "refused"} => n = 0 /\ k.begun = 0 /\ k.read = 0
  /\ k.at = "headers" => n = m /\ k.begun = IF k.read > k.taken THEN n + 1 ELSE n
  /\ k.at = "body" => n = m /\ k.begun = n + 1 /\ k.read > k.taken
  /\ k.at = "worker" => n + 1 = m /\ k.begun = m
  /\ Writing(k) => n \in {m, m + 1} /\ k.begun = n /\ n > 0 /\ (k.resp.persist => n = m)
  /\ k.at = "next" => n = m /\ k.begun = n
  /\ k.at = "closed" => k.begun \in {n, n + 1}

\* The observation that is open, and what it has seen.
Observed(k) ==
  /\ k.obs.open <=> \/ k.at \in {"body", "worker"} \/ Writing(k)
                    \/ k.at = "headers" /\ k.read > k.taken
  /\ k.obs.outcome = "none"
  /\ Writing(k) =>
       LET w == k.wire[Len(k.wire)] IN
       /\ w.got = k.obs.written /\ w.persist = k.resp.persist
       /\ w.size = 1 + k.resp.body + k.resp.file
       /\ k.obs.promised <= k.resp.body + k.resp.file
       /\ k.unsent + w.got = IF k.at = "write" THEN 1 + k.resp.body ELSE w.size
  /\ ~Writing(k) => k.obs.written = 0

Answers(k, i) ==
  {response_wire(k.script[i], handle_from(k.script[i], x)).status : x \in BOOLEAN}

\* The responses the client was sent.
Responded(k) ==
  /\ \A i \in 1 .. Len(k.wire) : LET w == k.wire[i] IN
       /\ w.req = i /\ (i < Len(k.wire) => w.persist /\ Full(w))
       /\ 2 * i <= k.taken => w.status # 408 /\ w.status \in Answers(k, i)
       /\ 2 * i - 1 <= k.read
  /\ k.at \in {"headers", "body", "worker", "next"} /\ Len(k.wire) > 0 =>
       k.wire[Len(k.wire)].persist /\ Full(k.wire[Len(k.wire)])

ConnOK(k) == Pieces(k) /\ Numbers(k) /\ Observed(k) /\ Responded(k)

\* How a connection may end on a client that could go on.
MayEnd(k) ==
  k.client # "reset" /\ hcAccept # "stopped"
    /\ (Len(k.wire) = 0 \/ (k.wire[Len(k.wire)].persist /\ Full(k.wire[Len(k.wire)])))
  => k.sent = 2 * Len(k.wire)
EndOK(k) == k.at = "closed" => MayEnd(k)

\* The deliveries of k that were counted are the first ones.
Counted(k) == IF k.obs.open THEN k.begun - 1 ELSE k.begun
Whole(k, i) == i <= Len(k.wire) /\ Full(k.wire[i])

LogOK ==
  /\ \A o \in Outcomes : hcTotals[o] = Cardinality({d \in hcLog : d.outcome = o})
  /\ \A d \in hcLog : d.nr \in 1 .. Counted(hcConn[d.conn])
  /\ \A c \in HcConns : \A i \in 1 .. Counted(hcConn[c]) :
       \E d \in hcLog : d.conn = c /\ d.nr = i
  /\ \A d, e \in hcLog : d.conn = e.conn /\ d.nr = e.nr => d = e
  /\ \A d \in hcLog :
       IF d.outcome = "completed" THEN Whole(hcConn[d.conn], d.nr)
       ELSE Whole(hcConn[d.conn], d.nr) => hcAccept = "stopped"

HcInv ==
  /\ TypeOK /\ LogOK /\ PermitsKept
  /\ \A c \in HcConns : ConnOK(hcConn[c]) /\ EndOK(hcConn[c])

--------------------------------------------------------------------------------
(* What the invariant says.                                                   *)

LEMMA InvImpliesOrder == HcInv => ResponsesInOrder
<1> SUFFICES ASSUME HcInv, NEW c \in HcConns
             PROVE  LET k == hcConn[c] IN
    /\ \A i \in DOMAIN k.wire :
         /\ k.wire[i].req = i /\ 2 * i - 1 <= k.read
         /\ i < Len(k.wire) => k.wire[i].persist /\ Full(k.wire[i])
         /\ k.wire[i].status = 408 => k.taken < 2 * i
         /\ 2 * i <= k.taken =>
              k.wire[i].status \in {response_wire(k.script[i],
                                      handle_from(k.script[i], x)).status : x \in BOOLEAN}
    /\ k.at = "closed" /\ k.client # "reset" /\ hcAccept # "stopped"
         /\ (k.wire = <<>> \/ (k.wire[Len(k.wire)].persist /\ Full(k.wire[Len(k.wire)])))
       => k.sent = 2 * Len(k.wire)
  BY DEF ResponsesInOrder
<1> DEFINE k == hcConn[c]
<1>1. k.wire \in Seq(Wires) /\ k.taken \in Nat /\ DOMAIN k.wire = 1 .. Len(k.wire)
  <2>1. k \in ConnState
    BY DEF HcInv, TypeOK
  <2> HIDE DEF k
  <2> QED BY <2>1 DEF ConnState
<1>2. Responded(k) /\ EndOK(k)
  BY DEF HcInv, ConnOK
<1>3. ASSUME NEW i \in DOMAIN k.wire
      PROVE  /\ k.wire[i].req = i /\ 2 * i - 1 <= k.read
             /\ i < Len(k.wire) => k.wire[i].persist /\ Full(k.wire[i])
             /\ k.wire[i].status = 408 => k.taken < 2 * i
             /\ 2 * i <= k.taken => k.wire[i].status \in Answers(k, i)
  BY <1>1, <1>2, <1>3 DEF Responded
<1>4. k.at = "closed" /\ k.client # "reset" /\ hcAccept # "stopped"
         /\ (k.wire = <<>> \/ (k.wire[Len(k.wire)].persist /\ Full(k.wire[Len(k.wire)])))
       => k.sent = 2 * Len(k.wire)
  <2>1. k.wire = <<>> => Len(k.wire) = 0
    OBVIOUS
  <2> QED BY <1>2, <2>1 DEF EndOK, MayEnd
<1> HIDE DEF k
<1>5. \A i \in DOMAIN k.wire :
         /\ k.wire[i].req = i /\ 2 * i - 1 <= k.read
         /\ i < Len(k.wire) => k.wire[i].persist /\ Full(k.wire[i])
         /\ k.wire[i].status = 408 => k.taken < 2 * i
         /\ 2 * i <= k.taken =>
              k.wire[i].status \in {response_wire(k.script[i],
                                      handle_from(k.script[i], x)).status : x \in BOOLEAN}
  BY <1>3 DEF Answers
<1> QED BY <1>4, <1>5 DEF k

LEMMA InvImpliesCounted == HcInv => ConnectionsCounted
<1> SUFFICES ASSUME HcInv PROVE DeliveriesCounted
  BY DEF HcInv, ConnectionsCounted
<1>1. ASSUME NEW c \in HcConns
      PROVE  LET k == hcConn[c] IN
             /\ {d.nr : d \in {e \in hcLog : e.conn = c}}
                  = 1 .. (IF k.obs.open THEN k.begun - 1 ELSE k.begun)
             /\ 2 * k.begun - 1 <= k.read
             /\ k.obs.open => Served(k)
  <2> DEFINE k == hcConn[c]
  <2>1. {d.nr : d \in {e \in hcLog : e.conn = c}} = 1 .. Counted(k)
    <3>1. \A d \in hcLog : d.conn = c => d.nr \in 1 .. Counted(k)
      BY DEF HcInv, LogOK
    <3>2. \A i \in 1 .. Counted(k) : \E d \in hcLog : d.conn = c /\ d.nr = i
      BY DEF HcInv, LogOK
    <3> QED BY <3>1, <3>2
  <2>2. Pieces(k) /\ Observed(k)
    BY DEF HcInv, ConnOK
  <2> QED BY <2>1, <2>2 DEF Counted, Pieces, Observed, Served, Waiting, Writing
<1>2. \A d \in hcLog :
       LET wire == hcConn[d.conn].wire
           whole == d.nr <= Len(wire) /\ Full(wire[d.nr])
       IN IF d.outcome = "completed" THEN whole ELSE whole => hcAccept = "stopped"
  BY DEF HcInv, LogOK, Whole
<1> QED BY <1>1, <1>2 DEF HcInv, LogOK, DeliveriesCounted

--------------------------------------------------------------------------------
(* What is counted, when a step changes connections or ends a delivery.       *)

\* k2 continues k: no delivery of it ended, and what ended stays as it was.
Continues(k, k2) ==
  /\ Counted(k2) = Counted(k)
  /\ \A i \in 1 .. Counted(k) : Whole(k2, i) <=> Whole(k, i)

LEMMA NothingCounted ==
  ASSUME TypeOK, LogOK, UNCHANGED hcCounters,
         \A c \in HcConns : Continues(hcConn[c], hcConn'[c]),
         hcAccept = "stopped" => hcAccept' = "stopped"
  PROVE  LogOK'
<1>1. UNCHANGED <<hcTotals, hcLog>>
  BY DEF hcCounters
<1>2. \A d \in hcLog : d.conn \in HcConns /\ d.nr \in 1 .. Counted(hcConn[d.conn])
  BY DEF TypeOK, LogOK
<1>3. \A c \in HcConns : /\ Counted(hcConn'[c]) = Counted(hcConn[c])
                         /\ \A i \in 1 .. Counted(hcConn[c]) :
                              Whole(hcConn'[c], i) <=> Whole(hcConn[c], i)
  BY DEF Continues
<1>4. \A d \in hcLog : IF d.outcome = "completed" THEN Whole(hcConn'[d.conn], d.nr)
                       ELSE Whole(hcConn'[d.conn], d.nr) => hcAccept' = "stopped"
  BY <1>2, <1>3 DEF LogOK
<1>5. \A d \in hcLog' : d.nr \in 1 .. Counted(hcConn'[d.conn])
  BY <1>1, <1>2, <1>3
<1>6. \A c \in HcConns : \A i \in 1 .. Counted(hcConn'[c]) : \E d \in hcLog' : d.conn = c /\ d.nr = i
  BY <1>1, <1>3 DEF LogOK
<1> QED BY <1>1, <1>4, <1>5, <1>6 DEF LogOK

LEMMA OneCounted ==
  ASSUME TypeOK, LogOK, NEW c \in HcConns, NEW k2, NEW o \in Outcomes,
         hcConn[c].obs.open, hcConn[c].begun \in Nat \ {0},
         Count(c, hcConn[c], o), hcConn' = [hcConn EXCEPT ![c] = k2],
         ~k2.obs.open, k2.begun = hcConn[c].begun, k2.wire = hcConn[c].wire,
         IF o = "completed" THEN Whole(k2, k2.begun)
         ELSE Whole(k2, k2.begun) => hcAccept' = "stopped",
         hcAccept = "stopped" => hcAccept' = "stopped"
  PROVE  LogOK' /\ IsFiniteSet(hcLog') /\ hcTotals' \in [Outcomes -> Nat]
         /\ hcLog' \subseteq [conn : HcConns, nr : Nat, outcome : Outcomes]
<1> DEFINE k == hcConn[c]
           new == [conn |-> c, nr |-> k.begun, outcome |-> o]
<1>1. /\ hcTotals' = [hcTotals EXCEPT ![o] = @ + 1] /\ hcLog' = hcLog \cup {new}
      /\ hcTotals \in [Outcomes -> Nat] /\ IsFiniteSet(hcLog)
      /\ hcLog \subseteq [conn : HcConns, nr : Nat, outcome : Outcomes]
  BY DEF Count, TypeOK
<1>2. Counted(k) = k.begun - 1 /\ Counted(k2) = k.begun
  BY DEF Counted
<1>3. \A d \in hcLog : d.conn = c => d.nr # k.begun
  BY <1>2 DEF LogOK
<1>4. new \notin hcLog /\ new.conn = c /\ new.nr = k.begun /\ new.outcome = o
      /\ new \in [conn : HcConns, nr : Nat, outcome : Outcomes]
  BY <1>3
<1> HIDE DEF new, k
<1>5. \A d \in HcConns : d # c => hcConn'[d] = hcConn[d]
  BY DEF TypeOK
<1>6. hcConn'[c] = k2
  BY DEF TypeOK
<1>7. IsFiniteSet(hcLog') /\ hcTotals' \in [Outcomes -> Nat]
      /\ hcLog' \subseteq [conn : HcConns, nr : Nat, outcome : Outcomes]
  <2>1. IsFiniteSet(hcLog')
    BY <1>1, FS_AddElement
  <2> QED BY <1>1, <1>4, <2>1
<1>8. ASSUME NEW p \in Outcomes
      PROVE  hcTotals'[p] = Cardinality({d \in hcLog' : d.outcome = p})
  <2> DEFINE old == {d \in hcLog : d.outcome = p}
  <2>1. hcTotals[p] = Cardinality(old)
    BY DEF LogOK
  <2>2. IsFiniteSet(old)
    BY <1>1, FS_Subset
  <2>3. CASE p = o
    <3>1. {d \in hcLog' : d.outcome = p} = old \cup {new} /\ new \notin old
      BY <1>1, <1>4, <2>3
    <3>2. Cardinality(old \cup {new}) = Cardinality(old) + 1
      BY <2>2, <3>1, FS_AddElement
    <3> QED BY <1>1, <2>1, <2>3, <3>1, <3>2
  <2>4. CASE p # o
    <3>1. {d \in hcLog' : d.outcome = p} = old
      BY <1>1, <1>4, <2>4
    <3> QED BY <1>1, <2>1, <2>4, <3>1
  <2> QED BY <2>3, <2>4
<1>9. \A d \in hcLog' : d.nr \in 1 .. Counted(hcConn'[d.conn])
  <2>1. ASSUME NEW d \in hcLog PROVE d.nr \in 1 .. Counted(hcConn'[d.conn])
    <3>1. d.nr \in 1 .. Counted(hcConn[d.conn]) /\ d.conn \in HcConns
      BY <1>1 DEF LogOK
    <3> QED BY <1>2, <1>5, <1>6, <3>1 DEF k
  <2>2. new.nr \in 1 .. Counted(hcConn'[new.conn])
    BY <1>2, <1>4, <1>6 DEF k
  <2> QED BY <1>1, <2>1, <2>2
<1>10. \A d \in HcConns : \A i \in 1 .. Counted(hcConn'[d]) : \E e \in hcLog' : e.conn = d /\ e.nr = i
  <2>1. ASSUME NEW d \in HcConns, NEW i \in 1 .. Counted(hcConn'[d]), d # c
        PROVE  \E e \in hcLog' : e.conn = d /\ e.nr = i
    BY <1>1, <1>5, <2>1 DEF LogOK
  <2>2. ASSUME NEW i \in 1 .. Counted(hcConn'[c])
        PROVE  \E e \in hcLog' : e.conn = c /\ e.nr = i
    <3>1. CASE i = k.begun
      BY <1>1, <1>4, <3>1
    <3>2. CASE i # k.begun
      <4>1. i \in 1 .. Counted(hcConn[c])
        BY <1>2, <1>6, <3>2 DEF k
      <4> QED BY <1>1, <4>1 DEF LogOK
    <3> QED BY <3>1, <3>2
  <2> QED BY <2>1, <2>2
<1>11. \A d, e \in hcLog' : d.conn = e.conn /\ d.nr = e.nr => d = e
  BY <1>1, <1>3, <1>4 DEF LogOK
<1>12. \A d \in hcLog' : IF d.outcome = "completed" THEN Whole(hcConn'[d.conn], d.nr)
                         ELSE Whole(hcConn'[d.conn], d.nr) => hcAccept' = "stopped"
  <2>1. ASSUME NEW d \in hcLog
        PROVE  Whole(hcConn'[d.conn], d.nr) <=> Whole(hcConn[d.conn], d.nr)
    <3>1. d.conn \in HcConns
      BY <1>1
    <3> QED BY <1>5, <1>6, <3>1 DEF Whole
  <2>2. k2.begun = k.begun
    BY DEF k
  <2>3. IF new.outcome = "completed" THEN Whole(hcConn'[new.conn], new.nr)
        ELSE Whole(hcConn'[new.conn], new.nr) => hcAccept' = "stopped"
    BY <1>4, <1>6, <2>2
  <2> QED BY <1>1, <2>1, <2>3 DEF LogOK
<1> QED BY <1>7, <1>8, <1>9, <1>10, <1>11, <1>12 DEF LogOK

--------------------------------------------------------------------------------
(* The permits of the connections that are served.                            *)

LEMMA ServedSame ==
  ASSUME PermitsKept, \A c \in HcConns : Served(hcConn'[c]) <=> Served(hcConn[c]),
         hcFree' = hcFree, (hcAccept' = "accept") <=> (hcAccept = "accept")
  PROVE  PermitsKept'
<1>1. {c \in HcConns : Served(hcConn'[c])} = {c \in HcConns : Served(hcConn[c])}
  OBVIOUS
<1> QED BY <1>1 DEF PermitsKept

LEMMA ServedFinite ==
  ASSUME HcAssumption
  PROVE  /\ IsFiniteSet({c \in HcConns : Served(hcConn[c])})
         /\ Cardinality({c \in HcConns : Served(hcConn[c])}) \in Nat
BY FS_Subset, FS_CardinalityType DEF HcAssumption

LEMMA ServedBegins ==
  ASSUME HcAssumption, TypeOK, PermitsKept, NEW c \in HcConns, NEW k2,
         hcConn' = [hcConn EXCEPT ![c] = k2], ~Served(hcConn[c]), Served(k2),
         hcFree' = hcFree, hcAccept = "accept", hcAccept' # "accept"
  PROVE  PermitsKept'
<1> DEFINE old == {d \in HcConns : Served(hcConn[d])}
<1>1. {d \in HcConns : Served(hcConn'[d])} = old \cup {c} /\ c \notin old
  BY DEF TypeOK
<1>2. Cardinality(old \cup {c}) = Cardinality(old) + 1 /\ Cardinality(old) \in Nat
  BY <1>1, ServedFinite, FS_AddElement
<1>3. hcFree \in Nat /\ max_connections \in Nat
  BY DEF TypeOK, HcAssumption
<1>4. hcFree + Cardinality(old) + 1 = max_connections
  BY DEF PermitsKept
<1> HIDE DEF old
<1>5. hcFree' + Cardinality(old \cup {c}) + 0 = max_connections
  BY <1>2, <1>3, <1>4
<1> QED BY <1>1, <1>5 DEF PermitsKept

LEMMA ServedEnds ==
  ASSUME HcAssumption, TypeOK, PermitsKept, NEW c \in HcConns, NEW k2,
         hcConn' = [hcConn EXCEPT ![c] = k2], Served(hcConn[c]), ~Served(k2),
         hcFree' = hcFree + 1, UNCHANGED hcAccept
  PROVE  PermitsKept'
<1> DEFINE old == {d \in HcConns : Served(hcConn[d])}
<1>1. {d \in HcConns : Served(hcConn'[d])} = old \ {c} /\ c \in old
  BY DEF TypeOK
<1>2. Cardinality(old \ {c}) = Cardinality(old) - 1 /\ Cardinality(old) \in Nat
  BY <1>1, ServedFinite, FS_RemoveElement
<1>3. hcFree \in Nat /\ max_connections \in Nat
  BY DEF TypeOK, HcAssumption
<1>4. hcFree + Cardinality(old) + (IF hcAccept = "accept" THEN 1 ELSE 0) = max_connections
  BY DEF PermitsKept
<1> HIDE DEF old
<1>5. hcFree' + Cardinality(old \ {c}) + (IF hcAccept = "accept" THEN 1 ELSE 0) = max_connections
  BY <1>2, <1>3, <1>4
<1> QED BY <1>1, <1>5 DEF PermitsKept

--------------------------------------------------------------------------------
(* The three ways a step changes one connection.                              *)

\* It goes on with the same permit and the same deliveries behind it.
LEMMA Goes ==
  ASSUME HcInv, NEW c \in HcConns, NEW k2,
         hcConn' = [hcConn EXCEPT ![c] = k2], k2 \in ConnState, ConnOK(k2),
         k2.at # "closed", Continues(hcConn[c], k2), Served(k2) <=> Served(hcConn[c]),
         UNCHANGED <<hcAccept, hcFree, hcErrors, hcCounters>>
  PROVE  HcInv'
<1>1. \A d \in HcConns : d # c => hcConn'[d] = hcConn[d]
  BY DEF HcInv, TypeOK
<1>2. hcConn'[c] = k2
  BY DEF HcInv, TypeOK
<1>3. TypeOK'
  BY DEF HcInv, TypeOK, hcCounters
<1>4. LogOK'
  <2>1. \A d \in HcConns : Continues(hcConn[d], hcConn'[d])
    BY <1>1, <1>2 DEF Continues
  <2> QED BY <2>1, NothingCounted DEF HcInv
<1>5. PermitsKept'
  BY <1>1, <1>2, ServedSame DEF HcInv
<1>6. \A d \in HcConns : ConnOK(hcConn'[d]) /\ EndOK(hcConn[d])'
  BY <1>1, <1>2 DEF HcInv, EndOK, MayEnd
<1> QED BY <1>3, <1>4, <1>5, <1>6 DEF HcInv

\* Its delivery ends and is counted; the connection goes on or ends.
LEMMA Ends ==
  ASSUME HcAssumption, HcInv, NEW c \in HcConns, NEW k2, NEW o \in Outcomes,
         hcConn[c].obs.open, Count(c, hcConn[c], o), hcConn' = [hcConn EXCEPT ![c] = k2],
         k2 \in ConnState, ConnOK(k2), EndOK(k2), ~k2.obs.open,
         k2.begun = hcConn[c].begun, k2.begun > 0, k2.wire = hcConn[c].wire,
         IF o = "completed" THEN Whole(k2, k2.begun)
         ELSE Whole(k2, k2.begun) => hcAccept = "stopped",
         Served(hcConn[c]),
         \/ Served(k2) /\ hcFree' = hcFree
         \/ ~Served(k2) /\ hcFree' = hcFree + 1,
         UNCHANGED <<hcAccept, hcErrors>>
  PROVE  HcInv'
<1>1. \A d \in HcConns : d # c => hcConn'[d] = hcConn[d]
  BY DEF HcInv, TypeOK
<1>2. hcConn'[c] = k2
  BY DEF HcInv, TypeOK
<1>3. hcConn[c].begun \in Nat \ {0}
  <2>1. k2.begun \in Nat
    BY DEF ConnState
  <2> QED BY <2>1
<1>4. /\ LogOK' /\ IsFiniteSet(hcLog') /\ hcTotals' \in [Outcomes -> Nat]
      /\ hcLog' \subseteq [conn : HcConns, nr : Nat, outcome : Outcomes]
  <2>1. TypeOK /\ LogOK /\ hcAccept' = hcAccept
    BY DEF HcInv
  <2> QED BY <1>3, <2>1, OneCounted
<1>5. TypeOK'
  BY <1>4 DEF HcInv, TypeOK
<1>6. PermitsKept'
  <2>1. CASE Served(k2) /\ hcFree' = hcFree
    BY <1>1, <1>2, <2>1, ServedSame DEF HcInv
  <2>2. CASE ~Served(k2) /\ hcFree' = hcFree + 1
    BY <2>2, ServedEnds DEF HcInv
  <2> QED BY <2>1, <2>2
<1>7. \A d \in HcConns : ConnOK(hcConn'[d]) /\ EndOK(hcConn[d])'
  BY <1>1, <1>2 DEF HcInv, EndOK, MayEnd
<1> QED BY <1>4, <1>5, <1>6, <1>7 DEF HcInv

\* It ends with no delivery open.
LEMMA Closes ==
  ASSUME HcAssumption, HcInv, NEW c \in HcConns, NEW k2,
         hcConn' = [hcConn EXCEPT ![c] = k2], k2 \in ConnState, ConnOK(k2), EndOK(k2),
         Continues(hcConn[c], k2), Served(hcConn[c]), ~Served(k2), hcFree' = hcFree + 1,
         UNCHANGED <<hcAccept, hcErrors, hcCounters>>
  PROVE  HcInv'
<1>1. \A d \in HcConns : d # c => hcConn'[d] = hcConn[d]
  BY DEF HcInv, TypeOK
<1>2. hcConn'[c] = k2
  BY DEF HcInv, TypeOK
<1>3. TypeOK'
  BY DEF HcInv, TypeOK, hcCounters
<1>4. LogOK'
  <2>1. \A d \in HcConns : Continues(hcConn[d], hcConn'[d])
    BY <1>1, <1>2 DEF Continues
  <2> QED BY <2>1, NothingCounted DEF HcInv
<1>5. PermitsKept'
  BY ServedEnds DEF HcInv
<1>6. \A d \in HcConns : ConnOK(hcConn'[d]) /\ EndOK(hcConn[d])'
  BY <1>1, <1>2 DEF HcInv, EndOK, MayEnd
<1> QED BY <1>3, <1>4, <1>5, <1>6 DEF HcInv

--------------------------------------------------------------------------------
(* What the steps of a task do to a connection.                               *)

LEMMA AnswerType ==
  ASSUME NEW kind, NEW x \in BOOLEAN
  PROVE  LET r == response_wire(kind, handle_from(kind, x)) IN
         r \in Responses /\ r.status # 408 /\ (kind = "head" => r.body = 0 /\ r.file = 0)
<1>1. handle_from(kind, x) \in Responses /\ handle_from(kind, x).status # 408
      /\ (kind = "head" => handle_from(kind, x).body = 0 /\ handle_from(kind, x).file = 0)
  BY DEF handle_from, Responses
<1> QED BY <1>1 DEF response_wire, Responses

LEMMA RespondGoes ==
  ASSUME NEW k \in ConnState, ConnOK(k), k.at \in {"headers", "body", "worker"}, k.obs.open,
         NEW r \in Responses, NEW promised \in Int, promised <= r.body + r.file,
         2 * (Len(k.wire) + 1) <= k.taken =>
           r.status # 408 /\ r.status \in Answers(k, Len(k.wire) + 1),
         r.persist => k.at = "worker"
  PROVE  LET k2 == Respond(k, Len(k.wire) + 1, r, promised) IN
         /\ k2 \in ConnState /\ ConnOK(k2) /\ Continues(k, k2) /\ k2.at = "write"
         /\ k2.client = k.client
<1> DEFINE k2 == Respond(k, Len(k.wire) + 1, r, promised)
           n == Len(k.wire)
           w == [req |-> n + 1, status |-> r.status, persist |-> r.persist,
                 got |-> 0, size |-> 1 + r.body + r.file]
<1>1. /\ k.wire \in Seq(Wires) /\ n \in Nat /\ k.taken \in Nat /\ k.read \in Nat /\ k.sent \in Nat
      /\ k.begun \in Nat /\ k.obs \in Observations
  BY DEF ConnState
<1>2. r.status \in Nat /\ r.persist \in BOOLEAN /\ r.body \in Nat /\ r.file \in Nat
  BY DEF Responses
<1>3. w \in Wires /\ 1 + r.body \in Nat
  <2>1. n + 1 \in Nat /\ 1 + r.body \in Nat /\ 1 + r.body + r.file \in Nat /\ 0 \in Nat
    BY <1>1, <1>2, SMTT(40)
  <2> QED BY <1>2, <2>1, Zenon DEF Wires
<1>4. k2 = [k EXCEPT !.at = "write", !.resp = r, !.unsent = 1 + r.body,
              !.obs = [@ EXCEPT !.promised = promised], !.wire = Append(@, w)]
  BY DEF Respond, begin_request
<1>5. k2 \in ConnState
  <2>1. Append(k.wire, w) \in Seq(Wires)
    BY <1>1, <1>3
  <2>2. [k.obs EXCEPT !.promised = promised] \in Observations
    BY <1>1 DEF Observations
  <2> HIDE DEF w, n, k2
  <2> HIDE DEF Responses, Wires, Observations
  <2>3. r \in Responses /\ 1 + r.body \in Nat
    BY <1>3
  <2> QED BY ONLY k \in ConnState, <1>4, <2>1, <2>2, <2>3, ZenonT(90) DEF ConnState
<1>6. /\ k2.at = "write" /\ k2.client = k.client /\ k2.wire = Append(k.wire, w) /\ k2.resp = r
      /\ k2.unsent = 1 + r.body
      /\ k2.obs.open /\ k2.obs.outcome = k.obs.outcome /\ k2.obs.written = k.obs.written
      /\ k2.obs.promised = promised
      /\ k2.taken = k.taken /\ k2.read = k.read /\ k2.sent = k.sent /\ k2.begun = k.begun
      /\ k2.script = k.script /\ Taken(k2) = Taken(k)
  <2> HIDE DEF w, n, k2
  <2>1. k \in ConnState
    OBVIOUS
  <2>2. /\ k2.at = "write" /\ k2.client = k.client /\ k2.wire = Append(k.wire, w) /\ k2.resp = r
        /\ k2.unsent = 1 + r.body /\ k2.obs = [k.obs EXCEPT !.promised = promised]
        /\ k2.taken = k.taken /\ k2.read = k.read /\ k2.sent = k.sent /\ k2.begun = k.begun
        /\ k2.script = k.script
    BY <1>4, <2>1 DEF ConnState
  <2>3. k.obs.open /\ [k.obs EXCEPT !.promised = promised].promised = promised
        /\ [k.obs EXCEPT !.promised = promised].open = k.obs.open
        /\ [k.obs EXCEPT !.promised = promised].outcome = k.obs.outcome
        /\ [k.obs EXCEPT !.promised = promised].written = k.obs.written
    BY <1>1 DEF Observations
  <2> QED BY <2>2, <2>3 DEF Taken
<1>7. /\ w.req = n + 1 /\ w.status = r.status /\ w.persist = r.persist /\ w.got = 0
      /\ w.size = 1 + r.body + r.file
  OBVIOUS
<1> HIDE DEF k2, w
<1>8. /\ Len(k2.wire) = n + 1 /\ k2.wire[n + 1] = w
      /\ \A i \in 1 .. n : k2.wire[i] = k.wire[i]
  BY <1>1, <1>3, <1>6
<1> HIDE DEF n
<1>9. Pieces(k2)
  BY <1>6 DEF ConnOK, Pieces
<1>10. Numbers(k) /\ Observed(k) /\ Responded(k) /\ n = Len(k.wire) /\ ~Writing(k)
  BY DEF ConnOK, n, Writing
<1>11. k.begun = n + 1
  BY <1>1, <1>10 DEF Numbers, Observed, Writing
<1>12. Numbers(k2)
  BY <1>1, <1>6, <1>8, <1>10, <1>11 DEF Numbers, Writing
<1>13. Observed(k2)
  BY <1>1, <1>2, <1>6, <1>7, <1>8, <1>10 DEF Observed, Writing
<1>14. 2 * (n + 1) - 1 <= k.read
  BY <1>1, <1>11 DEF ConnOK, Pieces
<1>15. Responded(k2)
  <2>1. ASSUME NEW i \in 1 .. n + 1
        PROVE  /\ k2.wire[i].req = i
               /\ i < n + 1 => k2.wire[i].persist /\ Full(k2.wire[i])
               /\ 2 * i <= k2.taken => k2.wire[i].status # 408 /\ k2.wire[i].status \in Answers(k2, i)
               /\ 2 * i - 1 <= k2.read
    <3>1. CASE i = n + 1
      BY <1>6, <1>7, <1>8, <1>10, <1>14, <3>1, SMTT(40) DEF Answers
    <3>2. CASE i \in 1 .. n
      <4>1. k2.wire[i] = k.wire[i] /\ i \in 1 .. Len(k.wire)
        BY <1>8, <1>10, <3>2
      <4>2. k.wire[i].persist /\ Full(k.wire[i])
        BY <1>1, <1>10, <3>2, <4>1, SMTT(40) DEF Responded
      <4>3. k.wire[i].req = i /\ 2 * i - 1 <= k.read
            /\ (2 * i <= k.taken => k.wire[i].status # 408 /\ k.wire[i].status \in Answers(k, i))
        BY <1>10, <4>1 DEF Responded
      <4> QED BY <1>6, <4>1, <4>2, <4>3, SMTT(40) DEF Answers
    <3> QED BY <1>1, <3>1, <3>2
  <2> QED BY <1>6, <1>8, <2>1 DEF Responded
<1>16. Continues(k, k2)
  <2>1. Counted(k) = n /\ Counted(k2) = n
    BY <1>1, <1>6, <1>11 DEF Counted
  <2> QED BY <1>1, <1>8, <1>10, <2>1 DEF Continues, Whole
<1> QED BY <1>5, <1>6, <1>9, <1>12, <1>13, <1>15, <1>16 DEF ConnOK, k2, n

LEMMA NoObservationType ==
  /\ NoObservation \in Observations
  /\ ~NoObservation.open /\ NoObservation.written = 0 /\ NoObservation.outcome = "none"
<1>1. -1 \in Int
  OBVIOUS
<1>2. NoObservation \in Observations
  BY <1>1, Zenon DEF NoObservation, Observations
<1> QED BY <1>2 DEF NoObservation

\* Some pieces are read: the observation begins with the first of a request.
LEMMA ReadGoes ==
  ASSUME NEW k \in ConnState, ConnOK(k), Waiting(k), NEW n \in k.read + 1 .. k.sent
  PROVE  LET k2 == [begin_request(k) EXCEPT !.read = n] IN
         /\ k2 \in ConnState /\ ConnOK(k2) /\ Continues(k, k2) /\ k2.at = k.at
<1> DEFINE k2 == [begin_request(k) EXCEPT !.read = n]
<1>1. /\ k.wire \in Seq(Wires) /\ k.taken \in Nat /\ k.read \in Nat /\ k.sent \in Nat
      /\ k.begun \in Nat /\ k.obs \in Observations /\ n \in Nat /\ n > k.read /\ n <= k.sent
      /\ Len(k.wire) \in Nat
  BY DEF ConnState
<1>2. Pieces(k) /\ Numbers(k) /\ Observed(k) /\ Responded(k) /\ k.at \in {"headers", "body"}
  BY DEF ConnOK, Waiting
<1>3. k.obs.open <=> k.read > k.taken
  BY <1>1, <1>2 DEF Observed, Writing, Numbers
<1>4. k.obs.written = 0 /\ k.obs.outcome = "none" /\ ~Writing(k)
  BY <1>2 DEF Observed, Writing
<1>5. /\ k2 \in ConnState /\ k2.at = k.at /\ k2.wire = k.wire /\ k2.read = n /\ k2.taken = k.taken
      /\ k2.sent = k.sent /\ k2.script = k.script /\ k2.resp = k.resp /\ k2.unsent = k.unsent
      /\ k2.obs.open /\ k2.obs.written = 0 /\ k2.obs.outcome = "none"
      /\ (k.obs.open => k2.begun = k.begun) /\ (~k.obs.open => k2.begun = k.begun + 1)
  <2>1. CASE k.obs.open
    <3>1. k2 = [k EXCEPT !.read = n]
      BY <2>1 DEF begin_request
    <3> HIDE DEF k2
    <3> QED BY <1>1, <1>4, <2>1, <3>1 DEF ConnState
  <2>2. CASE ~k.obs.open
    <3> DEFINE o == [NoObservation EXCEPT !.open = TRUE]
    <3>1. k2 = [k EXCEPT !.read = n, !.obs = o, !.begun = k.begun + 1]
      <4>1. begin_request(k) = [k EXCEPT !.obs = o, !.begun = k.begun + 1]
        BY <2>2 DEF begin_request
      <4> HIDE DEF o
      <4> QED BY <4>1 DEF ConnState
    <3>2. o \in Observations /\ o.open /\ o.written = 0 /\ o.outcome = "none"
      BY NoObservationType DEF Observations
    <3>3. k.begun + 1 \in Nat
      BY <1>1
    <3> HIDE DEF k2, o
    <3> QED BY <1>1, <2>2, <3>1, <3>2, <3>3 DEF ConnState
  <2> QED BY <2>1, <2>2
<1> HIDE DEF k2
<1>6. k2.begun = Len(k.wire) + 1 /\ Len(k.wire) = Taken(k) /\ Taken(k2) = Taken(k)
      /\ k2.read > k2.taken
  <2>1. Taken(k2) = Taken(k)
    BY <1>5 DEF Taken
  <2>2. k2.read > k2.taken
    BY <1>1, <1>2, <1>5 DEF Pieces
  <2> QED BY <1>1, <1>2, <1>3, <1>5, <2>1, <2>2 DEF Numbers
<1>7. Counted(k) = Len(k.wire) /\ Counted(k2) = Len(k.wire)
  <2>1. IF k.obs.open THEN k.begun = Len(k.wire) + 1 ELSE k.begun = Len(k.wire)
    BY <1>1, <1>2, <1>3 DEF Numbers
  <2> QED BY <1>1, <1>5, <1>6, <2>1 DEF Counted
<1>8. Pieces(k2)
  BY <1>1, <1>2, <1>5, <1>6 DEF Pieces
<1>9. Numbers(k2)
  BY <1>1, <1>2, <1>5, <1>6 DEF Numbers, Writing
<1>10. Observed(k2)
  BY <1>2, <1>4, <1>5, <1>6 DEF Observed, Writing
<1>11. Responded(k2)
  <2>1. k2.wire = k.wire /\ k2.taken = k.taken /\ k2.script = k.script /\ k2.at = k.at
        /\ k.read <= k2.read /\ k2.read \in Nat
    BY <1>1, <1>5
  <2> QED BY <1>1, <1>2, <2>1, SMTT(40) DEF Responded, Answers
<1>12. Continues(k, k2)
  BY <1>5, <1>7 DEF Continues, Whole
<1> QED BY <1>5, <1>8, <1>9, <1>10, <1>11, <1>12 DEF ConnOK, k2

\* The client accepts a piece.
LEMMA WriteGoes ==
  ASSUME NEW k \in ConnState, ConnOK(k), Writing(k), k.unsent > 0
  PROVE  LET k2 == [k EXCEPT !.unsent = @ - 1, !.obs.written = @ + 1,
                             !.wire[Len(k.wire)].got = @ + 1] IN
         /\ k2 \in ConnState /\ ConnOK(k2) /\ Continues(k, k2) /\ k2.at = k.at
<1> DEFINE k2 == [k EXCEPT !.unsent = @ - 1, !.obs.written = @ + 1,
                           !.wire[Len(k.wire)].got = @ + 1]
           n == Len(k.wire)
           w == [k.wire[n] EXCEPT !.got = @ + 1]
           o == [k.obs EXCEPT !.written = @ + 1]
<1>1. /\ k.wire \in Seq(Wires) /\ k.taken \in Nat /\ k.read \in Nat /\ k.sent \in Nat
      /\ k.begun \in Nat /\ k.obs \in Observations /\ k.unsent \in Nat
      /\ n \in Nat /\ k.resp \in Responses
  BY DEF ConnState
<1>2. Pieces(k) /\ Numbers(k) /\ Observed(k) /\ Responded(k)
  BY DEF ConnOK
<1>3. n > 0 /\ k.begun = n /\ k.wire[n] \in Wires
  BY <1>1, <1>2 DEF Numbers
<1>4. /\ w \in Wires /\ w.got = k.wire[n].got + 1 /\ w.size = k.wire[n].size
      /\ w.persist = k.wire[n].persist /\ w.req = k.wire[n].req /\ w.status = k.wire[n].status
      /\ k.wire[n].got \in Nat /\ k.wire[n].size \in Nat
  BY <1>3 DEF Wires
<1>5. /\ o \in Observations /\ o.written = k.obs.written + 1 /\ o.open = k.obs.open
      /\ o.outcome = k.obs.outcome /\ o.promised = k.obs.promised /\ k.obs.written \in Nat
  <2> DEFINE b == k.obs
             v == b.written + 1
  <2>1. b \in Observations /\ b.written \in Nat
    BY <1>1 DEF Observations
  <2>2. v \in Nat
    BY <2>1
  <2>3. o = [b EXCEPT !.written = v]
    OBVIOUS
  <2> HIDE DEF b, o, v
  <2>4. /\ o \in Observations /\ o.written = v /\ o.open = b.open
        /\ o.outcome = b.outcome /\ o.promised = b.promised
    BY <2>1, <2>2, <2>3 DEF Observations
  <2> QED BY <2>1, <2>4 DEF b, v
<1>6. k2 = [k EXCEPT !.unsent = k.unsent - 1, !.obs = o, !.wire = [k.wire EXCEPT ![n] = w]]
  OBVIOUS
<1> HIDE DEF k2, w, o
<1>7. /\ [k.wire EXCEPT ![n] = w] \in Seq(Wires) /\ Len([k.wire EXCEPT ![n] = w]) = n
      /\ [k.wire EXCEPT ![n] = w][n] = w
      /\ \A i \in 1 .. n : i # n => [k.wire EXCEPT ![n] = w][i] = k.wire[i]
  BY <1>1, <1>3, <1>4
<1> HIDE DEF n
<1>8. k.unsent - 1 \in Nat
  BY <1>1
<1>9. /\ k2 \in ConnState /\ k2.at = k.at /\ k2.read = k.read /\ k2.taken = k.taken /\ k2.sent = k.sent
      /\ k2.script = k.script /\ k2.resp = k.resp /\ k2.unsent = k.unsent - 1 /\ k2.obs = o
      /\ k2.begun = k.begun /\ k2.wire = [k.wire EXCEPT ![n] = w] /\ Taken(k2) = Taken(k)
  BY <1>5, <1>6, <1>7, <1>8 DEF ConnState, Taken
<1>10. Len(k2.wire) = n /\ k2.wire[n] = w /\ \A i \in 1 .. n : i # n => k2.wire[i] = k.wire[i]
  BY <1>7, <1>9
<1>11. Pieces(k2)
  BY <1>2, <1>9 DEF Pieces
<1>12. Numbers(k2)
  BY <1>2, <1>9, <1>10 DEF Numbers, Writing, n
<1>13. Observed(k2)
  <2> DEFINE v == k.wire[n]
  <2>1. /\ v.got = k.obs.written /\ v.persist = k.resp.persist
        /\ v.size = 1 + k.resp.body + k.resp.file
        /\ k.obs.promised <= k.resp.body + k.resp.file
        /\ k.unsent + v.got = (IF k.at = "write" THEN 1 + k.resp.body ELSE v.size)
        /\ k.obs.open /\ k.obs.outcome = "none"
    BY <1>2 DEF Observed, n
  <2>2. /\ w.got = k2.obs.written /\ w.persist = k2.resp.persist
        /\ w.size = 1 + k2.resp.body + k2.resp.file
        /\ k2.obs.promised <= k2.resp.body + k2.resp.file
    BY <1>4, <1>5, <1>9, <2>1
  <2>3. k2.unsent + w.got = k.unsent + v.got
    BY <1>1, <1>4, <1>9
  <2>4. k2.unsent + w.got = (IF k2.at = "write" THEN 1 + k2.resp.body ELSE w.size)
    BY <1>4, <1>9, <2>1, <2>3
  <2>5. k2.obs.open /\ k2.obs.outcome = "none" /\ Writing(k2) /\ k2.wire[Len(k2.wire)] = w
    BY <1>5, <1>9, <1>10, <2>1 DEF Writing
  <2> QED BY <2>2, <2>4, <2>5 DEF Observed
<1>14. Responded(k2)
  <2>1. ASSUME NEW i \in 1 .. n
        PROVE  /\ k2.wire[i].req = i
               /\ i < n => k2.wire[i].persist /\ Full(k2.wire[i])
               /\ 2 * i <= k2.taken => k2.wire[i].status # 408 /\ k2.wire[i].status \in Answers(k2, i)
               /\ 2 * i - 1 <= k2.read
    <3>1. /\ k.wire[i].req = i /\ (i < n => k.wire[i].persist /\ Full(k.wire[i]))
          /\ 2 * i <= k.taken => k.wire[i].status # 408 /\ k.wire[i].status \in Answers(k, i)
          /\ 2 * i - 1 <= k.read
      BY <1>2 DEF Responded, n
    <3>2. CASE i = n
      BY <1>4, <1>9, <1>10, <3>1, <3>2 DEF Answers
    <3>3. CASE i # n
      BY <1>9, <1>10, <3>1, <3>3 DEF Answers
    <3> QED BY <3>2, <3>3
  <2>2. k2.at \notin {"headers", "body", "worker", "next"}
    BY <1>9 DEF Writing
  <2> QED BY <1>10, <2>1, <2>2 DEF Responded
<1>15. Continues(k, k2)
  <2>1. k.obs.open /\ k2.obs.open
    BY <1>2, <1>5, <1>9 DEF Observed
  <2>2. Counted(k) = n - 1 /\ Counted(k2) = n - 1
    BY <1>3, <1>9, <2>1 DEF Counted
  <2> QED BY <1>1, <1>10, <2>2 DEF Continues, Whole, n
<1> QED BY <1>9, <1>11, <1>12, <1>13, <1>14, <1>15 DEF ConnOK, k2

\* What ConnOK says of k it says of k2, if they differ in what it does not name.
LEMMA AlikeGoes ==
  ASSUME NEW k \in ConnState, NEW k2 \in ConnState, ConnOK(k), k2.at = k.at, k2.wire = k.wire,
         k2.taken = k.taken, k2.read = k.read, k2.obs = k.obs, k2.begun = k.begun,
         k2.resp = k.resp, k2.unsent = k.unsent, k2.script = k.script, k.sent <= k2.sent
  PROVE  ConnOK(k2) /\ Continues(k, k2)
<1>1. Taken(k2) = Taken(k) /\ (Writing(k2) <=> Writing(k)) /\ Counted(k2) = Counted(k)
  BY DEF Taken, Writing, Counted
<1>2. k.read \in Nat /\ k.sent \in Nat /\ k2.sent \in Nat
  BY DEF ConnState
<1>3. Pieces(k2)
  BY <1>1, <1>2 DEF ConnOK, Pieces
<1>4. Numbers(k2)
  BY <1>1 DEF ConnOK, Numbers
<1>5. Observed(k2)
  BY <1>1 DEF ConnOK, Observed
<1>6. Responded(k2)
  BY DEF ConnOK, Responded, Answers
<1> QED BY <1>1, <1>3, <1>4, <1>5, <1>6 DEF ConnOK, Continues, Whole

\* The fields of a connection have their types.
LEMMA Fields ==
  ASSUME NEW k \in ConnState
  PROVE  /\ k.wire \in Seq(Wires) /\ Len(k.wire) \in Nat /\ k.taken \in Nat /\ k.read \in Nat
         /\ k.sent \in Nat /\ k.begun \in Nat /\ k.obs \in Observations /\ k.unsent \in Nat
         /\ k.resp \in Responses /\ k.left \in Int /\ k.answered \in Nat
         /\ Taken(k) \in Int /\ k.resp.body \in Nat /\ k.resp.file \in Nat
         /\ k.resp.persist \in BOOLEAN
BY DEF ConnState, Taken, Responses

\* The headers are complete, the body is read next.
LEMMA BodyGoes ==
  ASSUME NEW k \in ConnState, ConnOK(k), k.at = "headers", k.read > k.taken
  PROVE  LET k2 == [k EXCEPT !.at = "body"] IN
         k2 \in ConnState /\ ConnOK(k2) /\ Continues(k, k2) /\ k2.at = "body"
<1> DEFINE k2 == [k EXCEPT !.at = "body"]
<1>1. /\ k2 \in ConnState /\ k2.at = "body" /\ k2.wire = k.wire /\ k2.taken = k.taken
      /\ k2.read = k.read /\ k2.sent = k.sent /\ k2.obs = k.obs /\ k2.begun = k.begun
      /\ k2.script = k.script /\ k2.resp = k.resp /\ k2.unsent = k.unsent
  BY DEF ConnState
<1> HIDE DEF k2
<1>2. Taken(k2) = Taken(k) /\ Counted(k2) = Counted(k) /\ ~Writing(k2) /\ ~Writing(k)
  BY <1>1 DEF Taken, Counted, Writing
<1>3. Pieces(k2)
  BY <1>1, <1>2 DEF ConnOK, Pieces
<1>4. Numbers(k2)
  BY <1>1, <1>2 DEF ConnOK, Numbers
<1>5. Observed(k2)
  BY <1>1, <1>2 DEF ConnOK, Observed
<1>6. Responded(k2)
  BY <1>1 DEF ConnOK, Responded, Answers
<1> QED BY <1>1, <1>2, <1>3, <1>4, <1>5, <1>6 DEF ConnOK, Continues, Whole, k2

\* A whole request is drained and a worker has it.
LEMMA DispatchGoes ==
  ASSUME NEW k \in ConnState, ConnOK(k), k.at = "body", k.read >= k.taken + 2
  PROVE  LET k2 == [k EXCEPT !.at = "worker", !.query = FALSE, !.taken = @ + 2] IN
         k2 \in ConnState /\ ConnOK(k2) /\ Continues(k, k2) /\ k2.at = "worker"
<1> DEFINE k2 == [k EXCEPT !.at = "worker", !.query = FALSE, !.taken = @ + 2]
           t == k.taken + 2
<1>1. t \in Nat /\ k2 = [k EXCEPT !.at = "worker", !.query = FALSE, !.taken = t]
  BY Fields
<1> HIDE DEF k2, t
<1>2. /\ k2 \in ConnState /\ k2.at = "worker" /\ k2.wire = k.wire /\ k2.taken = t
      /\ k2.read = k.read /\ k2.sent = k.sent /\ k2.obs = k.obs /\ k2.begun = k.begun
      /\ k2.script = k.script /\ k2.resp = k.resp /\ k2.unsent = k.unsent
  BY <1>1 DEF ConnState
<1>3. Counted(k2) = Counted(k) /\ ~Writing(k2) /\ ~Writing(k)
  BY <1>2 DEF Counted, Writing
<1>4. Taken(k2) = Taken(k) + 1
  <2>1. k.taken = 2 * Taken(k) /\ Taken(k) \in Int
    BY Fields DEF ConnOK, Pieces
  <2>2. k2.taken = 2 * (Taken(k) + 1)
    BY <1>2, <2>1 DEF t
  <2>3. ASSUME NEW m \in Int PROVE (2 * m) \div 2 = m
    OBVIOUS
  <2> QED BY <2>1, <2>2, <2>3 DEF Taken
<1>5. Pieces(k2)
  BY <1>2, <1>4, Fields DEF ConnOK, Pieces, t
<1>6. Numbers(k2)
  BY <1>2, <1>3, <1>4, Fields DEF ConnOK, Numbers
<1>7. Observed(k2)
  BY <1>2, <1>3 DEF ConnOK, Observed
<1>8. Responded(k2)
  <2>1. Len(k.wire) = Taken(k) /\ k.taken = 2 * Taken(k) /\ Taken(k) \in Int
    BY Fields DEF ConnOK, Numbers, Pieces
  <2>2. \A i \in 1 .. Len(k.wire) : 2 * i <= k.taken
    BY <2>1
  <2> QED BY <1>2, <2>2, SMTT(40) DEF ConnOK, Responded, Answers
<1> QED BY <1>2, <1>3, <1>5, <1>6, <1>7, <1>8 DEF ConnOK, Continues, Whole, k2

\* What was in memory is written, the file follows.
LEMMA StreamGoes ==
  ASSUME NEW k \in ConnState, ConnOK(k), k.at = "write", k.unsent = 0
  PROVE  LET k2 == [k EXCEPT !.at = "stream", !.unsent = k.resp.file] IN
         k2 \in ConnState /\ ConnOK(k2) /\ Continues(k, k2) /\ k2.at = "stream"
<1> DEFINE k2 == [k EXCEPT !.at = "stream", !.unsent = k.resp.file]
<1>1. /\ k2 \in ConnState /\ k2.at = "stream" /\ k2.wire = k.wire /\ k2.taken = k.taken
      /\ k2.read = k.read /\ k2.sent = k.sent /\ k2.obs = k.obs /\ k2.begun = k.begun
      /\ k2.script = k.script /\ k2.resp = k.resp /\ k2.unsent = k.resp.file
  BY Fields DEF ConnState
<1> HIDE DEF k2
<1>2. Taken(k2) = Taken(k) /\ Counted(k2) = Counted(k) /\ Writing(k2) /\ Writing(k)
  BY <1>1 DEF Taken, Counted, Writing
<1>3. Pieces(k2)
  BY <1>1, <1>2 DEF ConnOK, Pieces
<1>4. Numbers(k2)
  BY <1>1, <1>2 DEF ConnOK, Numbers
<1>5. Observed(k2)
  <2> DEFINE w == k.wire[Len(k.wire)]
  <2>1. w \in Wires /\ Len(k.wire) > 0
    BY <1>2, Fields DEF ConnOK, Numbers
  <2>2. w.got \in Nat /\ w.size \in Nat
    BY <2>1 DEF Wires
  <2> HIDE DEF w
  <2>3. k.unsent + w.got = 1 + k.resp.body /\ w.size = 1 + k.resp.body + k.resp.file
    BY <1>2 DEF ConnOK, Observed, w
  <2>4. k2.unsent + w.got = w.size
    BY <1>1, <2>2, <2>3, Fields
  <2> QED BY <1>1, <1>2, <2>4 DEF ConnOK, Observed, w
<1>6. Responded(k2)
  BY <1>1 DEF ConnOK, Responded, Answers
<1> QED BY <1>1, <1>2, <1>3, <1>4, <1>5, <1>6 DEF ConnOK, Continues, Whole, k2

\* The loop of the connection begins again.
LEMMA AgainGoes ==
  ASSUME NEW k \in ConnState, ConnOK(k), k.at = "next"
  PROVE  LET k2 == [(IF PendingEmpty(k) THEN k ELSE begin_request(k)) EXCEPT !.at = "headers"] IN
         k2 \in ConnState /\ ConnOK(k2) /\ Continues(k, k2) /\ k2.at = "headers"
<1> DEFINE k2 == [(IF PendingEmpty(k) THEN k ELSE begin_request(k)) EXCEPT !.at = "headers"]
           o == [NoObservation EXCEPT !.open = TRUE]
<1>1. ~k.obs.open /\ k.begun = Len(k.wire) /\ Len(k.wire) = Taken(k) /\ k.obs.written = 0
      /\ k.obs.outcome = "none" /\ ~Writing(k)
  BY DEF ConnOK, Observed, Numbers, Writing
<1>2. o \in Observations /\ o.open /\ o.written = 0 /\ o.outcome = "none"
  BY NoObservationType DEF Observations
<1>3. k2 = IF k.read = k.taken THEN [k EXCEPT !.at = "headers"]
           ELSE [[k EXCEPT !.obs = o, !.begun = k.begun + 1] EXCEPT !.at = "headers"]
  <2> HIDE DEF o
  <2>1. begin_request(k) = [k EXCEPT !.obs = o, !.begun = k.begun + 1]
    BY <1>1 DEF begin_request, o
  <2> QED BY <2>1 DEF PendingEmpty
<1> HIDE DEF k2, o
<1>4. k.begun + 1 \in Nat
  BY Fields
<1>5. /\ k2 \in ConnState /\ k2.at = "headers" /\ k2.wire = k.wire /\ k2.taken = k.taken
      /\ k2.read = k.read /\ k2.sent = k.sent /\ k2.script = k.script /\ k2.resp = k.resp
      /\ k2.unsent = k.unsent
      /\ (k.read = k.taken => k2.obs = k.obs /\ k2.begun = k.begun)
      /\ (k.read # k.taken => k2.obs = o /\ k2.begun = k.begun + 1)
  <2>1. CASE k.read = k.taken
    <3>1. k2 = [k EXCEPT !.at = "headers"]
      BY <1>3, <2>1
    <3> QED BY <2>1, <3>1 DEF ConnState
  <2>2. CASE k.read # k.taken
    <3>1. k2 = [k EXCEPT !.obs = o, !.begun = k.begun + 1, !.at = "headers"]
      BY <1>3, <2>2
    <3> QED BY <1>2, <1>4, <2>2, <3>1 DEF ConnState
  <2> QED BY <2>1, <2>2
<1>6. Taken(k2) = Taken(k) /\ ~Writing(k2)
  BY <1>5 DEF Taken, Writing
<1>7. k.taken <= k.read /\ k.read <= k.sent /\ k.taken = 2 * Taken(k) /\ 2 * k.begun - 1 <= k.read
  BY DEF ConnOK, Pieces
<1>8. 2 * k2.begun - 1 <= k2.read
  <2>1. CASE k.read = k.taken
    BY <1>5, <1>7, <2>1
  <2>2. CASE k.read # k.taken
    <3>1. k2.begun = Taken(k) + 1 /\ k.taken < k.read
      BY <1>1, <1>5, <1>7, <2>2, Fields
    <3>2. 2 * k2.begun - 1 = k.taken + 1
      BY <1>7, <3>1, Fields
    <3> QED BY <1>5, <3>1, <3>2, Fields, SMTT(40)
  <2> QED BY <2>1, <2>2
<1>9. Pieces(k2)
  BY <1>5, <1>6, <1>7, <1>8 DEF Pieces
<1>10. Numbers(k2)
  BY <1>1, <1>5, <1>6, <1>7, Fields, SMTT(40) DEF Numbers
<1>11. Observed(k2)
  BY <1>1, <1>2, <1>5, <1>6, <1>7, Fields DEF Observed
<1>12. Responded(k2)
  BY <1>5 DEF ConnOK, Responded, Answers
<1>13. Counted(k2) = Counted(k)
  BY <1>1, <1>2, <1>5, Fields DEF Counted
<1> QED BY <1>5, <1>9, <1>10, <1>11, <1>12, <1>13 DEF ConnOK, Continues, Whole, k2

\* Its delivery is over: the observation is taken, the connection goes on
\* where the response was whole and keeps it open, or it ends.
LEMMA Over ==
  ASSUME NEW k \in ConnState, NEW k2 \in ConnState, ConnOK(k), Served(k),
         k2.at \in {"closed", "next"}, k2.wire = k.wire, k2.taken = k.taken, k2.read = k.read,
         k2.begun = k.begun, k2.resp = k.resp, k2.unsent = k.unsent, k2.script = k.script,
         k2.sent = k.sent, ~k2.obs.open, k2.obs.written = 0, k2.obs.outcome = "none",
         k2.at = "next" => /\ Writing(k) /\ k.resp.persist
                           /\ k.wire[Len(k.wire)].persist /\ Full(k.wire[Len(k.wire)])
  PROVE  ConnOK(k2)
<1>1. Taken(k2) = Taken(k) /\ ~Writing(k2)
  BY DEF Taken, Writing
<1>2. Pieces(k2)
  BY <1>1 DEF ConnOK, Pieces
<1>3. Numbers(k2)
  <2>1. CASE k2.at = "closed"
    <3>1. k.begun \in {Len(k.wire), Len(k.wire) + 1}
      BY Fields DEF ConnOK, Numbers, Served, Waiting, Writing
    <3> QED BY <1>1, <2>1, <3>1 DEF Numbers
  <2>2. CASE k2.at = "next"
    BY <1>1, <2>2, Fields DEF ConnOK, Numbers
  <2> QED BY <2>1, <2>2
<1>4. Observed(k2)
  BY <1>1 DEF Observed
<1>5. Responded(k2)
  BY DEF ConnOK, Responded, Answers
<1> QED BY <1>2, <1>3, <1>4, <1>5 DEF ConnOK

\* Only the first failure of an open observation is kept.
LEMMA FailedKeeps ==
  ASSUME NEW k \in ConnState, k.obs.outcome = "none", NEW o \in Outcomes
  PROVE  LET k1 == failed(k, o) IN
         /\ k1 \in ConnState /\ k1.at = k.at /\ k1.wire = k.wire /\ k1.taken = k.taken
         /\ k1.read = k.read /\ k1.sent = k.sent /\ k1.begun = k.begun /\ k1.resp = k.resp
         /\ k1.unsent = k.unsent /\ k1.script = k.script /\ k1.client = k.client
         /\ (k1.obs.open <=> k.obs.open) /\ (k.obs.open => k1.obs.outcome = o)
         /\ (~k.obs.open => k1 = k)
<1> DEFINE b == [k.obs EXCEPT !.outcome = o]
           k1 == failed(k, o)
<1>1. b \in Observations /\ b.open = k.obs.open /\ b.outcome = o
  BY Fields DEF Observations
<1>2. k1 = IF k.obs.open THEN [k EXCEPT !.obs = b] ELSE k
  BY DEF failed
<1> HIDE DEF b, k1
<1>3. CASE k.obs.open
  <2>1. k1 = [k EXCEPT !.obs = b]
    BY <1>2, <1>3
  <2>2. /\ k1 \in ConnState /\ k1.at = k.at /\ k1.wire = k.wire /\ k1.taken = k.taken
        /\ k1.read = k.read /\ k1.sent = k.sent /\ k1.begun = k.begun /\ k1.resp = k.resp
        /\ k1.unsent = k.unsent /\ k1.script = k.script /\ k1.client = k.client
        /\ k1.obs = b
    BY <1>1, <2>1 DEF ConnState
  <2> QED BY <1>1, <1>3, <2>2 DEF k1
<1>4. CASE ~k.obs.open
  <2>1. k1 = k
    BY <1>2, <1>4
  <2> QED BY <1>4, <2>1 DEF k1
<1> QED BY <1>3, <1>4

\* A connection whose task ends: k1 is k, or k after the failure it saw.
LEMMA CloseKeeps ==
  ASSUME HcAssumption, HcInv, NEW c \in HcConns, Served(hcConn[c]),
         NEW k1 \in ConnState, NEW fallback \in Outcomes, Close(c, k1, fallback),
         UNCHANGED <<hcAccept, hcErrors>>,
         k1.wire = hcConn[c].wire, k1.taken = hcConn[c].taken, k1.read = hcConn[c].read,
         k1.sent = hcConn[c].sent, k1.begun = hcConn[c].begun, k1.resp = hcConn[c].resp,
         k1.unsent = hcConn[c].unsent, k1.script = hcConn[c].script,
         k1.client = hcConn[c].client, k1.obs.open <=> hcConn[c].obs.open,
         ~hcConn[c].obs.open => k1 = hcConn[c],
         hcConn[c].obs.open =>
           IF OutcomeOf(k1.obs, fallback) = "completed" THEN Whole(k1, k1.begun)
           ELSE Whole(k1, k1.begun) => hcAccept = "stopped",
         MayEnd(hcConn[c])
  PROVE  HcInv'
<1> DEFINE k == hcConn[c]
           e == [k1 EXCEPT !.at = "closed"]
           k2 == IF k.obs.open THEN [e EXCEPT !.obs = NoObservation] ELSE e
<1>1. k \in ConnState /\ ConnOK(k)
  BY DEF HcInv, TypeOK
<1>2. /\ e \in ConnState /\ e.at = "closed" /\ e.wire = k.wire /\ e.taken = k.taken
      /\ e.read = k.read /\ e.sent = k.sent /\ e.begun = k.begun /\ e.resp = k.resp
      /\ e.unsent = k.unsent /\ e.script = k.script /\ e.client = k.client /\ e.obs = k1.obs
  <2> HIDE DEF k
  <2>1. /\ e \in ConnState /\ e.at = "closed" /\ e.wire = k1.wire /\ e.taken = k1.taken
        /\ e.read = k1.read /\ e.sent = k1.sent /\ e.begun = k1.begun /\ e.resp = k1.resp
        /\ e.unsent = k1.unsent /\ e.script = k1.script /\ e.client = k1.client /\ e.obs = k1.obs
    BY DEF ConnState
  <2> QED BY <2>1 DEF k
<1>3. /\ Finish(c, e, fallback) /\ hcFree' = hcFree + 1
  BY DEF Close
<1> HIDE DEF e
<1>4. k.obs.outcome = "none" /\ (~k.obs.open => k.obs.written = 0)
  <2>1. ~k.obs.open => ~Writing(k)
    BY <1>1 DEF ConnOK, Observed
  <2> QED BY <1>1, <2>1 DEF ConnOK, Observed
<1>5. /\ k2 \in ConnState /\ k2.at = "closed" /\ k2.wire = k.wire /\ k2.taken = k.taken
      /\ k2.read = k.read /\ k2.sent = k.sent /\ k2.begun = k.begun /\ k2.resp = k.resp
      /\ k2.unsent = k.unsent /\ k2.script = k.script /\ k2.client = k.client
      /\ ~k2.obs.open /\ k2.obs.written = 0 /\ k2.obs.outcome = "none"
  <2>1. CASE k.obs.open
    <3> DEFINE f == [e EXCEPT !.obs = NoObservation]
    <3>1. /\ f \in ConnState /\ f.at = e.at /\ f.wire = e.wire /\ f.taken = e.taken
          /\ f.read = e.read /\ f.sent = e.sent /\ f.begun = e.begun /\ f.resp = e.resp
          /\ f.unsent = e.unsent /\ f.script = e.script /\ f.client = e.client
          /\ f.obs = NoObservation
      BY <1>2, NoObservationType DEF ConnState
    <3>2. k2 = f
      BY <2>1
    <3> HIDE DEF f, k2, k
    <3> QED BY <1>2, <3>1, <3>2, NoObservationType
  <2>2. CASE ~k.obs.open
    <3>1. k2 = e /\ e.obs = k.obs
      BY <1>2, <2>2
    <3> HIDE DEF k2, k
    <3> QED BY <1>2, <1>4, <2>2, <3>1
  <2> QED BY <2>1, <2>2
<1>6. hcConn' = [hcConn EXCEPT ![c] = k2]
  BY <1>2, <1>3 DEF Finish
<1>7. CASE ~k.obs.open
  <2>1. UNCHANGED hcCounters
    BY <1>2, <1>3, <1>7 DEF Finish
  <2> HIDE DEF k2
  <2>2. ConnOK(k2)
    BY <1>1, <1>5, Over
  <2>3. EndOK(k2)
    BY <1>5 DEF EndOK, MayEnd
  <2>4. Continues(k, k2)
    BY <1>5, <1>7 DEF Continues, Counted, Whole
  <2>5. ~Served(k2)
    BY <1>5 DEF Served, Waiting, Writing
  <2> QED BY <1>3, <1>5, <1>6, <2>1, <2>2, <2>3, <2>4, <2>5, Closes
<1>8. CASE k.obs.open
  <2> DEFINE o == OutcomeOf(k1.obs, fallback)
  <2>1. Count(c, e, o)
    BY <1>2, <1>3, <1>8 DEF Finish
  <2>2. Count(c, k, o)
    BY <1>2, <2>1 DEF Count
  <2>3. o \in Outcomes
    <3>1. k1.obs.outcome \in Outcomes \cup {"none"}
      BY Fields DEF Observations
    <3> QED BY <3>1 DEF OutcomeOf, Outcomes
  <2>4. k.begun > 0
    BY <1>1, <1>8, Fields DEF ConnOK, Observed, Numbers, Writing
  <2>5. IF o = "completed" THEN Whole(k2, k2.begun)
        ELSE Whole(k2, k2.begun) => hcAccept = "stopped"
    BY <1>5, <1>8 DEF Whole
  <2> HIDE DEF k2, o
  <2>6. ConnOK(k2)
    BY <1>1, <1>5, Over
  <2>7. EndOK(k2)
    BY <1>5 DEF EndOK, MayEnd
  <2>8. ~Served(k2)
    BY <1>5 DEF Served, Waiting, Writing
  <2> QED BY <1>3, <1>5, <1>6, <1>8, <2>2, <2>3, <2>4, <2>5, <2>6, <2>7, <2>8, Ends
<1> QED BY <1>7, <1>8

--------------------------------------------------------------------------------
(* Each step keeps the invariant.                                             *)

LEMMA HcInit_HcInv == HcAssumption /\ HcInit => HcInv
<1> SUFFICES ASSUME HcAssumption, HcInit PROVE HcInv
  OBVIOUS
<1>1. ASSUME NEW c \in HcConns
      PROVE  \E s \in UNION {HcScripts[d] : d \in HcConns} : hcConn[c] = HcNew(s)
  BY DEF HcInit
<1>2. ASSUME NEW s \in UNION {HcScripts[d] : d \in HcConns}
      PROVE  /\ HcNew(s) \in ConnState /\ HcNew(s).at = "away" /\ HcNew(s).wire = <<>>
             /\ HcNew(s).begun = 0 /\ HcNew(s).read = 0 /\ HcNew(s).taken = 0 /\ HcNew(s).sent = 0
             /\ HcNew(s).obs = NoObservation
  <2>1. NoResponse \in Responses
    BY DEF NoResponse, Responses
  <2>2. <<>> \in Seq(Wires) /\ HcRequestLimit \in Int
    BY DEF HcAssumption
  <2> QED BY <2>1, <2>2, NoObservationType, Zenon DEF HcNew, ConnState
<1>3. \A c \in HcConns :
        /\ hcConn[c] \in ConnState /\ hcConn[c].at = "away" /\ hcConn[c].wire = <<>>
        /\ hcConn[c].begun = 0 /\ hcConn[c].read = 0 /\ hcConn[c].taken = 0 /\ hcConn[c].sent = 0
        /\ hcConn[c].obs = NoObservation
  BY <1>1, <1>2
<1>4. TypeOK
  <2>1. hcConn \in [HcConns -> ConnState]
    <3>1. hcConn \in [HcConns -> {HcNew(s) : s \in UNION {HcScripts[d] : d \in HcConns}}]
      BY DEF HcInit
    <3> QED BY <1>3, <3>1
  <2>2. IsFiniteSet({})
    BY FS_EmptySet
  <2> QED BY <2>1, <2>2 DEF HcInit, TypeOK, HcAssumption
<1>5. \A c \in HcConns : Counted(hcConn[c]) = 0 /\ ~Served(hcConn[c])
  BY <1>3, NoObservationType DEF Counted, Served, Waiting, Writing
<1>6. LogOK
  <2>1. \A o \in Outcomes : {d \in hcLog : d.outcome = o} = {} /\ hcTotals[o] = 0
    BY DEF HcInit
  <2>2. \A o \in Outcomes : hcTotals[o] = Cardinality({d \in hcLog : d.outcome = o})
    BY <2>1, FS_EmptySet
  <2>3. hcLog = {}
    BY DEF HcInit
  <2> QED BY <1>5, <2>2, <2>3 DEF LogOK
<1>7. PermitsKept
  <2>1. {c \in HcConns : Served(hcConn[c])} = {}
    BY <1>5
  <2>2. hcFree = max_connections /\ hcAccept = "permit" /\ max_connections \in Nat
    BY DEF HcInit, HcAssumption
  <2> QED BY <2>1, <2>2, FS_EmptySet DEF PermitsKept
<1>8. ASSUME NEW c \in HcConns PROVE ConnOK(hcConn[c]) /\ EndOK(hcConn[c])
  <2> DEFINE k == hcConn[c]
  <2>1. /\ k.at = "away" /\ k.wire = <<>> /\ k.begun = 0 /\ k.read = 0 /\ k.taken = 0
        /\ k.sent = 0 /\ k.obs = NoObservation /\ Len(k.wire) = 0
    BY <1>3
  <2> HIDE DEF k
  <2>2. Taken(k) = 0 /\ ~Writing(k)
    BY <2>1 DEF Taken, Writing
  <2>3. Pieces(k) /\ Numbers(k)
    BY <2>1, <2>2 DEF Pieces, Numbers
  <2>4. Observed(k)
    BY <2>1, <2>2, NoObservationType DEF Observed
  <2>5. Responded(k)
    BY <2>1 DEF Responded
  <2> QED BY <2>1, <2>3, <2>4, <2>5 DEF ConnOK, EndOK, k
<1> QED BY <1>4, <1>6, <1>7, <1>8 DEF HcInv

\* The listener takes a permit, drops it after a failure, or wakes up.
LEMMA ListenerKeeps ==
  ASSUME HcAssumption, HcInv, HcPermit \/ HcWake \/ \E e \in BOOLEAN : HcAcceptFails(e)
  PROVE  HcInv'
<1>1. /\ UNCHANGED <<hcConn, hcTotals, hcLog>> /\ hcErrors' \in Nat /\ hcFree' \in Nat
      /\ hcAccept # "stopped" /\ hcAccept' \in {"permit", "accept", "sleep"}
      /\ hcFree' + (IF hcAccept' = "accept" THEN 1 ELSE 0)
           = hcFree + (IF hcAccept = "accept" THEN 1 ELSE 0)
  BY DEF HcPermit, HcWake, HcAcceptFails, HcInv, TypeOK, hcCounters
<1>2. TypeOK'
  BY <1>1 DEF HcInv, TypeOK
<1>3. LogOK'
  <2>1. \A c \in HcConns : Continues(hcConn[c], hcConn'[c])
    BY <1>1 DEF Continues
  <2> QED BY <1>1, <2>1, NothingCounted DEF HcInv, hcCounters
<1>4. PermitsKept'
  <2> DEFINE n == Cardinality({c \in HcConns : Served(hcConn[c])})
  <2>1. n \in Nat
    BY ServedFinite
  <2>2. hcFree + n + (IF hcAccept = "accept" THEN 1 ELSE 0) = max_connections
    BY DEF HcInv, PermitsKept
  <2>3. hcFree \in Nat
    BY DEF HcInv, TypeOK
  <2>4. Cardinality({c \in HcConns : Served(hcConn'[c])}) = n
    BY <1>1
  <2> HIDE DEF n
  <2>5. hcFree' + n + (IF hcAccept' = "accept" THEN 1 ELSE 0) = max_connections
    <3>1. \/ hcFree' = hcFree - 1 /\ hcAccept # "accept" /\ hcAccept' = "accept"
          \/ hcFree' = hcFree + 1 /\ hcAccept = "accept" /\ hcAccept' # "accept"
          \/ hcFree' = hcFree /\ hcAccept # "accept" /\ hcAccept' # "accept"
      BY DEF HcPermit, HcWake, HcAcceptFails
    <3>2. CASE hcFree' = hcFree - 1 /\ hcAccept # "accept" /\ hcAccept' = "accept"
      <4>1. hcFree + n = max_connections
        BY <2>1, <2>2, <2>3, <3>2
      <4> QED BY <2>1, <2>3, <3>2, <4>1
    <3>3. CASE hcFree' = hcFree + 1 /\ hcAccept = "accept" /\ hcAccept' # "accept"
      <4>1. hcFree + n + 1 = max_connections
        BY <2>2, <3>3
      <4> QED BY <2>1, <2>3, <3>3, <4>1
    <3>4. CASE hcFree' = hcFree /\ hcAccept # "accept" /\ hcAccept' # "accept"
      BY <2>2, <3>4
    <3> QED BY <3>1, <3>2, <3>3, <3>4
  <2> QED BY <2>4, <2>5 DEF PermitsKept
<1>5. \A c \in HcConns : ConnOK(hcConn'[c]) /\ EndOK(hcConn[c])'
  BY <1>1 DEF HcInv, EndOK, MayEnd
<1> QED BY <1>2, <1>3, <1>4, <1>5 DEF HcInv

\* A connection that waits is as it was before anything came of it.
LEMMA Idle ==
  ASSUME NEW k \in ConnState, ConnOK(k), k.at \in {"away", "backlog"},
         NEW at \in {"backlog", "refused", "headers"}
  PROVE  LET k2 == [k EXCEPT !.at = at] IN
         k2 \in ConnState /\ ConnOK(k2) /\ Continues(k, k2) /\ k2.at = at
<1> DEFINE k2 == [k EXCEPT !.at = at]
<1>1. /\ k2 \in ConnState /\ k2.at = at /\ k2.wire = k.wire /\ k2.taken = k.taken
      /\ k2.read = k.read /\ k2.sent = k.sent /\ k2.obs = k.obs /\ k2.begun = k.begun
  BY DEF ConnState
<1>2. /\ Len(k.wire) = 0 /\ k.begun = 0 /\ k.read = 0 /\ k.taken = 0 /\ ~k.obs.open
      /\ k.obs.outcome = "none" /\ k.obs.written = 0
  BY Fields, SMTT(40) DEF ConnOK, Numbers, Observed, Pieces, Writing
<1> HIDE DEF k2
<1>3. Taken(k) = 0 /\ Taken(k2) = 0 /\ ~Writing(k2)
  BY <1>1, <1>2 DEF Taken, Writing
<1>4. Pieces(k2) /\ Numbers(k2)
  BY <1>1, <1>2, <1>3, Fields DEF Pieces, Numbers, ConnOK
<1>5. Observed(k2)
  BY <1>1, <1>2, <1>3 DEF Observed
<1>6. Responded(k2)
  BY <1>1, <1>2 DEF Responded
<1>7. Continues(k, k2)
  BY <1>1 DEF Continues, Counted, Whole
<1> QED BY <1>1, <1>4, <1>5, <1>6, <1>7 DEF ConnOK, k2

LEMMA AcceptKeeps ==
  ASSUME HcAssumption, HcInv, NEW c \in HcConns, HcAccept(c)
  PROVE  HcInv'
<1> DEFINE k == hcConn[c]
           k2 == [k EXCEPT !.at = "headers"]
<1>1. k \in ConnState /\ ConnOK(k) /\ k.at = "backlog"
  BY DEF HcInv, TypeOK, HcAccept
<1>2. k2 \in ConnState /\ ConnOK(k2) /\ Continues(k, k2) /\ k2.at = "headers"
  BY <1>1, Idle
<1>3. hcConn' = [hcConn EXCEPT ![c] = k2]
  BY DEF HcAccept
<1> HIDE DEF k2
<1>4. /\ hcAccept = "accept" /\ hcAccept' = "permit" /\ hcFree' = hcFree /\ hcErrors' = hcErrors
      /\ UNCHANGED <<hcTotals, hcLog>>
  BY DEF HcAccept, hcCounters
<1>5. hcConn'[c] = k2 /\ \A d \in HcConns : d # c => hcConn'[d] = hcConn[d]
  BY <1>3 DEF HcInv, TypeOK
<1>6. TypeOK'
  BY <1>2, <1>3, <1>4 DEF HcInv, TypeOK
<1>7. LogOK'
  <2>1. \A d \in HcConns : Continues(hcConn[d], hcConn'[d])
    BY <1>2, <1>5 DEF Continues
  <2> QED BY <1>4, <2>1, NothingCounted DEF HcInv, hcCounters
<1>8. PermitsKept'
  <2>1. ~Served(k) /\ Served(k2)
    BY <1>1, <1>2 DEF Served, Waiting, Writing
  <2> QED BY <1>3, <1>4, <2>1, ServedBegins DEF HcInv
<1>9. \A d \in HcConns : ConnOK(hcConn'[d]) /\ EndOK(hcConn[d])'
  BY <1>2, <1>4, <1>5 DEF HcInv, EndOK, MayEnd
<1> QED BY <1>6, <1>7, <1>8, <1>9 DEF HcInv

LEMMA StopKeeps ==
  ASSUME HcAssumption, HcInv, HcStop
  PROVE  HcInv'
<1>1. ASSUME NEW c \in HcConns
      PROVE  /\ hcConn'[c] \in ConnState /\ ConnOK(hcConn'[c]) /\ Continues(hcConn[c], hcConn'[c])
             /\ Served(hcConn'[c]) <=> Served(hcConn[c])
  <2>1. hcConn[c] \in ConnState /\ ConnOK(hcConn[c])
    BY DEF HcInv, TypeOK
  <2>2. CASE hcConn[c].at = "backlog"
    <3>1. hcConn'[c] = [hcConn[c] EXCEPT !.at = "refused"]
      BY <2>2 DEF HcStop
    <3>2. hcConn'[c].at = "refused"
      BY <2>1, <2>2, <3>1, Idle
    <3> QED BY <2>1, <2>2, <3>1, <3>2, Idle DEF Served, Waiting, Writing
  <2>3. CASE hcConn[c].at # "backlog"
    <3>1. hcConn'[c] = hcConn[c]
      BY <2>3 DEF HcStop
    <3> QED BY <2>1, <3>1 DEF Continues
  <2> QED BY <2>2, <2>3
<1>2. /\ hcAccept' = "stopped" /\ UNCHANGED <<hcErrors, hcTotals, hcLog>> /\ hcFree' \in Nat
      /\ hcFree' = hcFree + (IF hcAccept = "accept" THEN 1 ELSE 0) /\ hcFree \in Nat
  BY DEF HcStop, hcCounters, HcInv, TypeOK
<1>3. TypeOK'
  <2>1. hcConn' \in [HcConns -> ConnState]
    BY <1>1 DEF HcStop
  <2> QED BY <1>2, <2>1 DEF HcInv, TypeOK
<1>4. LogOK'
  BY <1>1, <1>2, NothingCounted DEF HcInv, hcCounters
<1>5. PermitsKept'
  <2> DEFINE n == Cardinality({c \in HcConns : Served(hcConn[c])})
  <2>1. n \in Nat
    BY ServedFinite
  <2>2. hcFree + n + (IF hcAccept = "accept" THEN 1 ELSE 0) = max_connections
    BY DEF HcInv, PermitsKept
  <2>3. {c \in HcConns : Served(hcConn'[c])} = {c \in HcConns : Served(hcConn[c])}
    BY <1>1
  <2>4. Cardinality({c \in HcConns : Served(hcConn'[c])}) = n
    BY <2>3
  <2> HIDE DEF n
  <2>5. hcFree' + n + 0 = max_connections
    BY <1>2, <2>1, <2>2
  <2> QED BY <1>2, <2>4, <2>5 DEF PermitsKept
<1>6. \A c \in HcConns : EndOK(hcConn[c])'
  BY <1>2 DEF EndOK, MayEnd
<1> QED BY <1>1, <1>3, <1>4, <1>5, <1>6 DEF HcInv

--------------------------------------------------------------------------------
(* One step of each action.                                                   *)

\* What every action of a connection's task starts from.
LEMMA Here ==
  ASSUME HcInv, NEW c \in HcConns
  PROVE  hcConn[c] \in ConnState /\ ConnOK(hcConn[c]) /\ hcConn[c].obs.outcome = "none"
BY DEF HcInv, TypeOK, ConnOK, Observed

LEMMA ConnectKeeps ==
  ASSUME HcInv, NEW c \in HcConns, HcConnect(c)
  PROVE  HcInv'
<1> DEFINE k == hcConn[c]
           k2 == [k EXCEPT !.at = "backlog"]
<1>1. k \in ConnState /\ ConnOK(k) /\ k.at = "away"
  BY Here DEF HcConnect
<1>2. k2 \in ConnState /\ ConnOK(k2) /\ Continues(k, k2) /\ k2.at = "backlog"
  BY <1>1, Idle
<1>3. hcConn' = [hcConn EXCEPT ![c] = k2] /\ UNCHANGED <<hcAccept, hcFree, hcErrors, hcCounters>>
  BY DEF HcConnect
<1>4. Served(k2) <=> Served(k)
  BY <1>1, <1>2 DEF Served, Waiting, Writing
<1> QED BY <1>2, <1>3, <1>4, Goes

\* What a client sends or how it leaves, and a cancelled query, leave the rest.
LEMMA ClientKeeps ==
  ASSUME HcInv, NEW c \in HcConns,
         \/ HcSend(c) \/ HcPoll(c)
         \/ \E how \in {"fin", "reset"} : HcLeave(c, how)
  PROVE  HcInv'
<1> DEFINE k == hcConn[c]
<1>1. k \in ConnState /\ ConnOK(k)
  BY Here
<1>2. k.at # "closed" /\ UNCHANGED <<hcAccept, hcFree, hcErrors, hcCounters>>
  BY DEF HcSend, HcPoll, HcLeave, Served, Waiting, Writing
<1>3. PICK k2 : /\ hcConn' = [hcConn EXCEPT ![c] = k2]
                /\ \/ k2 = [k EXCEPT !.sent = k.sent + 1]
                   \/ \E b \in BOOLEAN : k2 = [k EXCEPT !.query = b]
                   \/ \E how \in {"fin", "reset"} : k2 = [k EXCEPT !.client = how]
  BY DEF HcSend, HcPoll, HcLeave
<1> HIDE DEF k
<1>4. /\ k2 \in ConnState /\ k2.at = k.at /\ k2.wire = k.wire /\ k2.taken = k.taken
      /\ k2.read = k.read /\ k2.obs = k.obs /\ k2.begun = k.begun /\ k2.resp = k.resp
      /\ k2.unsent = k.unsent /\ k2.script = k.script /\ k.sent <= k2.sent
  <2>1. k.sent \in Nat /\ k.sent + 1 \in Nat
    BY <1>1, Fields
  <2>2. CASE k2 = [k EXCEPT !.sent = k.sent + 1]
    <3> DEFINE s == k.sent + 1
    <3>1. s \in Nat /\ k.sent <= s /\ k2 = [k EXCEPT !.sent = s]
      BY <2>1, <2>2
    <3> HIDE DEF s
    <3> QED BY <1>1, <3>1 DEF ConnState
  <2>3. CASE \E b \in BOOLEAN : k2 = [k EXCEPT !.query = b]
    BY <1>1, <2>1, <2>3, SMTT(40) DEF ConnState
  <2>4. CASE \E how \in {"fin", "reset"} : k2 = [k EXCEPT !.client = how]
    BY <1>1, <2>1, <2>4, SMTT(40) DEF ConnState
  <2> QED BY <1>3, <2>2, <2>3, <2>4
<1>5. ConnOK(k2) /\ Continues(k, k2)
  BY <1>1, <1>4, AlikeGoes
<1>6. Served(k2) <=> Served(k)
  BY <1>4 DEF Served, Waiting, Writing
<1> QED BY <1>2, <1>3, <1>4, <1>5, <1>6, Goes DEF k

LEMMA ReadKeeps ==
  ASSUME HcInv, NEW c \in HcConns, HcRead(c)
  PROVE  HcInv'
<1> DEFINE k == hcConn[c]
<1>1. k \in ConnState /\ ConnOK(k) /\ Waiting(k)
  BY Here DEF HcRead
<1>2. PICK n \in k.read + 1 .. k.sent : hcConn' = [hcConn EXCEPT ![c] = [begin_request(k) EXCEPT !.read = n]]
  BY DEF HcRead
<1>3. UNCHANGED <<hcAccept, hcFree, hcErrors, hcCounters>>
  BY DEF HcRead
<1> DEFINE k2 == [begin_request(k) EXCEPT !.read = n]
<1>4. k2 \in ConnState /\ ConnOK(k2) /\ Continues(k, k2) /\ k2.at = k.at
  BY <1>1, ReadGoes
<1>5. hcConn' = [hcConn EXCEPT ![c] = k2]
  BY <1>2
<1> HIDE DEF k2
<1>6. k2.at # "closed" /\ (Served(k2) <=> Served(k))
  BY <1>1, <1>4 DEF Served, Waiting, Writing
<1> QED BY <1>3, <1>4, <1>5, <1>6, Goes

\* The error of a connection whose request cannot be read.
LEMMA RefuseGoes ==
  ASSUME NEW k \in ConnState, ConnOK(k), Waiting(k), k.read > k.taken, NEW status \in Nat
  PROVE  LET k2 == Refuse(k, status) IN
         k2 \in ConnState /\ ConnOK(k2) /\ Continues(k, k2) /\ k2.at = "write"
<1>1. k.at \in {"headers", "body"} /\ k.obs.open
  BY DEF Waiting, ConnOK, Observed
<1>2. Number(k) = Len(k.wire) + 1 /\ ~(2 * (Len(k.wire) + 1) <= k.taken)
  <2>1. Len(k.wire) = Taken(k) /\ k.taken = 2 * Taken(k) /\ Number(k) = Taken(k) + 1
    BY <1>1 DEF ConnOK, Numbers, Pieces, Number, Taken
  <2> QED BY <2>1, Fields
<1> DEFINE r == html(status)
<1>3. r \in Responses /\ r.body = 1 /\ r.file = 0 /\ ~r.persist /\ r.body \in Int
  <2>1. [status |-> status, persist |-> FALSE, body |-> 1, file |-> 0] \in Responses
    BY Zenon DEF Responses
  <2> QED BY <2>1 DEF html
<1>4. Refuse(k, status) = Respond(k, Len(k.wire) + 1, r, r.body)
  BY <1>2 DEF Refuse
<1> HIDE DEF r
<1>5. r.body <= r.body + r.file
  BY <1>3
<1> QED BY <1>1, <1>2, <1>3, <1>4, <1>5, RespondGoes

LEMMA ParseKeeps ==
  ASSUME HcInv, NEW c \in HcConns, HcParse(c)
  PROVE  HcInv'
<1> DEFINE k == hcConn[c]
<1>1. k \in ConnState /\ ConnOK(k) /\ k.at = "headers"
  BY Here DEF HcParse
<1>2. k.read > k.taken
  <2>1. k.read # k.taken /\ k.taken <= k.read
    BY <1>1 DEF HcParse, HeaderComplete, PendingEmpty, ConnOK, Pieces
  <2>2. k.read \in Nat /\ k.taken \in Nat
    BY <1>1, Fields
  <2> QED BY <2>1, <2>2
<1>3. PICK k2 : /\ hcConn' = [hcConn EXCEPT ![c] = k2]
                /\ \/ k2 = [k EXCEPT !.at = "body"]
                   \/ \E status \in {431, 400, 413} : k2 = Refuse(k, status)
  <2> DEFINE statuses == {431, 400, 413}
             next == CASE Current(k) = "long_header" -> Refuse(k, 431)
                       [] Current(k) = "malformed"   -> Refuse(k, 400)
                       [] Current(k) = "large_body"  -> Refuse(k, 413)
                       [] OTHER                      -> [k EXCEPT !.at = "body"]
  <2>1. next \in {Refuse(k, 431), Refuse(k, 400), Refuse(k, 413), [k EXCEPT !.at = "body"]}
    OBVIOUS
  <2>2. hcConn' = [hcConn EXCEPT ![c] = next]
    BY DEF HcParse
  <2> HIDE DEF next
  <2>3. \/ next = [k EXCEPT !.at = "body"]
        \/ \E status \in statuses : next = Refuse(k, status)
    BY <2>1
  <2> HIDE DEF k, statuses
  <2>4. \E k2 : /\ hcConn' = [hcConn EXCEPT ![c] = k2]
                /\ \/ k2 = [k EXCEPT !.at = "body"]
                   \/ \E status \in statuses : k2 = Refuse(k, status)
    BY <2>2, <2>3, Zenon
  <2> QED BY <2>4 DEF statuses
<1>4. UNCHANGED <<hcAccept, hcFree, hcErrors, hcCounters>>
  BY DEF HcParse
<1>5. k2 \in ConnState /\ ConnOK(k2) /\ Continues(k, k2) /\ k2.at \in {"body", "write"}
  <2>1. CASE k2 = [k EXCEPT !.at = "body"]
    BY <1>1, <1>2, <2>1, BodyGoes
  <2>2. CASE \E status \in {431, 400, 413} : k2 = Refuse(k, status)
    <3>1. PICK status \in {431, 400, 413} : k2 = Refuse(k, status)
      BY <2>2
    <3>2. status \in Nat /\ Waiting(k)
      BY <1>1 DEF Waiting
    <3> QED BY <1>1, <1>2, <3>1, <3>2, RefuseGoes
  <2> QED BY <1>3, <2>1, <2>2
<1>6. k2.at # "closed" /\ (Served(k2) <=> Served(k))
  BY <1>1, <1>5 DEF Served, Waiting, Writing
<1>7. hcConn' = [hcConn EXCEPT ![c] = k2]
  BY <1>3
<1> QED BY <1>4, <1>5, <1>6, <1>7, Goes

LEMMA DispatchKeeps ==
  ASSUME HcInv, NEW c \in HcConns, HcDispatch(c)
  PROVE  HcInv'
<1> DEFINE k == hcConn[c]
           k2 == [k EXCEPT !.at = "worker", !.query = FALSE, !.taken = @ + 2]
<1>1. k \in ConnState /\ ConnOK(k) /\ k.at = "body" /\ k.read >= k.taken + 2
  BY Here DEF HcDispatch
<1>2. k2 \in ConnState /\ ConnOK(k2) /\ Continues(k, k2) /\ k2.at = "worker"
  BY <1>1, DispatchGoes
<1>3. hcConn' = [hcConn EXCEPT ![c] = k2] /\ UNCHANGED <<hcAccept, hcFree, hcErrors, hcCounters>>
  BY DEF HcDispatch
<1> HIDE DEF k2
<1>4. k2.at # "closed" /\ (Served(k2) <=> Served(k))
  BY <1>1, <1>2 DEF Served, Waiting, Writing
<1> QED BY <1>2, <1>3, <1>4, Goes

\* A request whose answer has not begun is no whole delivery.
LEMMA UnansweredNotWhole ==
  ASSUME NEW k \in ConnState, ConnOK(k), Waiting(k), k.obs.open
  PROVE  ~Whole(k, k.begun)
<1>1. k.begun = Len(k.wire) + 1
  BY DEF ConnOK, Numbers, Observed, Waiting, Writing
<1> QED BY <1>1, Fields DEF Whole

\* A response that is not written whole, and one that is.
LEMMA Unfinished ==
  ASSUME NEW k \in ConnState, ConnOK(k), Writing(k), k.unsent > 0
  PROVE  /\ k.obs.open /\ Len(k.wire) > 0 /\ k.begun = Len(k.wire)
         /\ ~Full(k.wire[Len(k.wire)]) /\ ~Whole(k, k.begun)
<1> DEFINE w == k.wire[Len(k.wire)]
<1>1. k.obs.open /\ Len(k.wire) > 0 /\ k.begun = Len(k.wire)
  BY DEF ConnOK, Observed, Numbers
<1>2. w \in Wires
  BY <1>1, Fields
<1>3. w.got \in Nat /\ w.size \in Nat
  BY <1>2 DEF Wires
<1>4. w.size = 1 + k.resp.body + k.resp.file
      /\ k.unsent + w.got = IF k.at = "write" THEN 1 + k.resp.body ELSE w.size
  BY DEF ConnOK, Observed
<1> HIDE DEF w
<1>5. w.got < w.size
  BY <1>3, <1>4, Fields
<1> QED BY <1>1, <1>3, <1>5 DEF Full, Whole, w

LEMMA Finished ==
  ASSUME NEW k \in ConnState, ConnOK(k), Writing(k), k.unsent = 0,
         k.at = "write" => k.resp.file = 0
  PROVE  /\ k.obs.open /\ Len(k.wire) > 0 /\ k.begun = Len(k.wire)
         /\ Full(k.wire[Len(k.wire)]) /\ k.wire[Len(k.wire)].persist = k.resp.persist
         /\ Whole(k, k.begun) /\ OutcomeOf(k.obs, "completed") = "completed"
<1> DEFINE w == k.wire[Len(k.wire)]
<1>1. k.obs.open /\ Len(k.wire) > 0 /\ k.begun = Len(k.wire) /\ k.obs.outcome = "none"
  BY DEF ConnOK, Observed, Numbers
<1>2. w \in Wires
  BY <1>1, Fields
<1>3. w.got \in Nat /\ w.size \in Nat /\ k.obs.promised \in Int
  BY <1>2, Fields DEF Wires, Observations
<1>4. /\ w.size = 1 + k.resp.body + k.resp.file /\ w.persist = k.resp.persist
      /\ k.unsent + w.got = (IF k.at = "write" THEN 1 + k.resp.body ELSE w.size)
      /\ w.got = k.obs.written /\ k.obs.promised <= k.resp.body + k.resp.file
  BY DEF ConnOK, Observed
<1> HIDE DEF w
<1>5. w.got = w.size
  <2>1. k.at # "write" => w.got = w.size
    BY <1>3, <1>4
  <2>2. k.at = "write" => w.got = 1 + k.resp.body /\ w.size = 1 + k.resp.body
    BY <1>3, <1>4, Fields
  <2> QED BY <2>1, <2>2
<1>6. k.obs.written # 0 /\ ~(k.obs.written - 1 < k.obs.promised)
  <2>1. k.obs.written = 1 + k.resp.body + k.resp.file /\ k.obs.promised <= k.resp.body + k.resp.file
    BY <1>4, <1>5
  <2>2. k.resp.body \in Nat /\ k.resp.file \in Nat
    BY Fields
  <2> QED BY <1>3, <2>1, <2>2
<1>7. OutcomeOf(k.obs, "completed") = "completed"
  BY <1>1, <1>6 DEF OutcomeOf
<1> QED BY <1>1, <1>4, <1>5, <1>7, Fields DEF Full, Whole, w

LEMMA ReadEndsKeeps ==
  ASSUME HcAssumption, HcInv, NEW c \in HcConns, HcReadEnds(c)
  PROVE  HcInv'
<1> DEFINE k == hcConn[c]
<1>1. k \in ConnState /\ ConnOK(k) /\ k.obs.outcome = "none" /\ Waiting(k) /\ Served(k)
      /\ (k.read = k.sent \/ k.client = "reset") /\ UNCHANGED <<hcAccept, hcErrors>>
  BY Here DEF HcReadEnds, Served
<1>2. CASE k.client = "reset"
  <2> DEFINE k1 == failed(k, "disconnected")
  <2>1. Close(c, k1, "failed")
    BY <1>2 DEF HcReadEnds
  <2>2. "disconnected" \in Outcomes /\ "failed" \in Outcomes
    BY DEF Outcomes
  <2>3. /\ k1 \in ConnState /\ k1.wire = k.wire /\ k1.taken = k.taken
        /\ k1.read = k.read /\ k1.sent = k.sent /\ k1.begun = k.begun /\ k1.resp = k.resp
        /\ k1.unsent = k.unsent /\ k1.script = k.script /\ k1.client = k.client
        /\ (k1.obs.open <=> k.obs.open) /\ (k.obs.open => k1.obs.outcome = "disconnected")
        /\ (~k.obs.open => k1 = k)
    BY <1>1, <2>2, FailedKeeps
  <2> HIDE DEF k1
  <2>4. k.obs.open => ~Whole(k1, k1.begun) /\ OutcomeOf(k1.obs, "failed") # "completed"
    BY <1>1, <2>3, UnansweredNotWhole DEF OutcomeOf, Whole
  <2>5. MayEnd(k)
    BY <1>2 DEF MayEnd
  <2> QED BY <1>1, <2>1, <2>2, <2>3, <2>4, <2>5, CloseKeeps
<1>3. CASE k.client # "reset" /\ k.read = k.taken
  <2>1. Close(c, k, "completed") /\ "completed" \in Outcomes
    BY <1>3 DEF HcReadEnds, PendingEmpty, Outcomes
  <2>2. ~k.obs.open /\ k.sent = 2 * Len(k.wire)
    <3>1. k.at = "headers" \/ k.at = "body"
      BY <1>1 DEF Waiting
    <3>2. ~(k.read > k.taken)
      BY <1>1, <1>3, Fields
    <3>3. k.at = "headers" /\ Len(k.wire) = Taken(k) /\ k.taken = 2 * Taken(k)
      BY <1>1, <3>1, <3>2 DEF ConnOK, Numbers, Pieces
    <3> QED BY <1>1, <1>3, <3>2, <3>3 DEF ConnOK, Observed, Writing
  <2>3. MayEnd(k)
    BY <2>2 DEF MayEnd
  <2> QED BY <1>1, <2>1, <2>2, <2>3, CloseKeeps
<1>4. CASE k.client # "reset" /\ k.read # k.taken
  <2>1. k.read > k.taken
    BY <1>1, <1>4, Fields DEF ConnOK, Pieces
  <2> DEFINE statuses == {400, 408}
  <2>2. \E status \in statuses : hcConn' = [hcConn EXCEPT ![c] = Refuse(k, status)]
    BY <1>4 DEF HcReadEnds, PendingEmpty
  <2> HIDE DEF statuses
  <2>3. PICK k2 : /\ \E status \in statuses : k2 = Refuse(k, status)
                  /\ hcConn' = [hcConn EXCEPT ![c] = k2]
    BY <2>2, Zenon
  <2>4. UNCHANGED <<hcAccept, hcFree, hcErrors, hcCounters>>
    BY <1>1, <1>4 DEF HcReadEnds, PendingEmpty
  <2>5. k2 \in ConnState /\ ConnOK(k2) /\ Continues(k, k2) /\ k2.at = "write"
    <3>1. PICK status \in statuses : k2 = Refuse(k, status)
      BY <2>3
    <3>2. status \in Nat
      BY DEF statuses
    <3> QED BY <1>1, <2>1, <3>1, <3>2, RefuseGoes
  <2>6. k2.at # "closed" /\ (Served(k2) <=> Served(k))
    BY <1>1, <2>5 DEF Served, Writing
  <2>7. hcConn' = [hcConn EXCEPT ![c] = k2]
    BY <2>3
  <2> QED BY <2>4, <2>5, <2>6, <2>7, Goes
<1> QED BY <1>2, <1>3, <1>4

LEMMA AnswerKeeps ==
  ASSUME HcInv, NEW c \in HcConns, HcAnswer(c)
  PROVE  HcInv'
<1> DEFINE k == hcConn[c]
           n == Len(k.wire) + 1
           kind == k.script[n]
<1>1. k \in ConnState /\ ConnOK(k) /\ k.at = "worker"
  BY Here DEF HcAnswer
<1>2. k.obs.open /\ Taken(k) = n /\ k.taken \div 2 = n /\ n \in Nat
  <2>1. k.obs.open /\ Len(k.wire) + 1 = Taken(k)
    BY <1>1 DEF ConnOK, Observed, Numbers
  <2> QED BY <1>1, <2>1, Fields DEF Taken
<1>3. k.query \in BOOLEAN
  BY <1>1 DEF ConnState
<1>4. PICK late \in {FALSE, kind = "soap"} :
       LET s == response_wire(kind, handle_from(kind, k.query \/ late))
           r == [s EXCEPT !.persist = @ /\ k.left > 1]
       IN hcConn' = [hcConn EXCEPT ![c] =
            [Respond(k, n, r, CASE kind = "head" -> 0 [] kind = "remux" -> -1
                                             [] OTHER -> r.body + r.file)
               EXCEPT !.left = @ - 1, !.answered = @ + 1]]
  <2> HIDE DEF n
  <2> QED BY <1>2, ZenonT(90) DEF HcAnswer
<1> DEFINE x == k.query \/ late
           s == response_wire(kind, handle_from(kind, x))
           r == [s EXCEPT !.persist = @ /\ k.left > 1]
           promised == CASE kind = "head" -> 0 [] kind = "remux" -> -1
                         [] OTHER -> r.body + r.file
           k1 == Respond(k, n, r, promised)
           k2 == [k1 EXCEPT !.left = @ - 1, !.answered = @ + 1]
<1>5. x \in BOOLEAN
  BY <1>3
<1>6. s \in Responses /\ s.status # 408
  <2> HIDE DEF kind, x
  <2> QED BY ONLY <1>5, AnswerType
<1>7. s.status \in Answers(k, n)
  BY <1>5 DEF Answers
<1>8. hcConn' = [hcConn EXCEPT ![c] = k2]
  BY <1>4
<1>9. UNCHANGED <<hcAccept, hcFree, hcErrors, hcCounters>>
  BY DEF HcAnswer
<1> HIDE DEF x, s
<1>10. r \in Responses /\ r.status = s.status /\ r.body \in Nat /\ r.file \in Nat
  <2> DEFINE b == s.persist /\ k.left > 1
  <2>1. b \in BOOLEAN /\ r = [s EXCEPT !.persist = b]
    BY <1>6 DEF Responses
  <2> HIDE DEF b, r
  <2>2. r \in Responses /\ r.status = s.status
    BY <1>6, <2>1 DEF Responses
  <2> QED BY <2>2 DEF Responses
<1> HIDE DEF r
<1>11. promised \in Int /\ promised <= r.body + r.file
  BY <1>10
<1> HIDE DEF promised, kind
<1>12. /\ k1 \in ConnState /\ ConnOK(k1) /\ Continues(k, k1) /\ k1.at = "write"
  BY <1>1, <1>2, <1>6, <1>7, <1>10, <1>11, RespondGoes
<1> HIDE DEF k1
<1>13. k1.left - 1 \in Int /\ k1.answered + 1 \in Nat
  BY <1>12, Fields
<1> DEFINE a == k1.left - 1
           b == k1.answered + 1
<1>14. k2 = [k1 EXCEPT !.left = a, !.answered = b] /\ a \in Int /\ b \in Nat
  BY <1>13
<1> HIDE DEF k2, a, b
<1>15. /\ k2 \in ConnState /\ k2.at = k1.at /\ k2.wire = k1.wire /\ k2.taken = k1.taken
       /\ k2.read = k1.read /\ k2.obs = k1.obs /\ k2.begun = k1.begun /\ k2.resp = k1.resp
       /\ k2.unsent = k1.unsent /\ k2.script = k1.script /\ k1.sent = k2.sent
  BY <1>12, <1>14 DEF ConnState
<1>16. k1.sent <= k2.sent
  BY <1>12, <1>15, Fields
<1>17. ConnOK(k2) /\ Continues(k1, k2)
  BY <1>12, <1>15, <1>16, AlikeGoes
<1>18. Continues(k, k2)
  BY <1>12, <1>17 DEF Continues
<1>19. k2.at = "write" /\ (Served(k2) <=> Served(k))
  BY <1>1, <1>12, <1>15 DEF Served, Writing
<1> QED BY <1>8, <1>9, <1>15, <1>17, <1>18, <1>19, Goes

LEMMA WriteKeeps ==
  ASSUME HcInv, NEW c \in HcConns, HcWrite(c)
  PROVE  HcInv'
<1> DEFINE k == hcConn[c]
           k2 == [k EXCEPT !.unsent = @ - 1, !.obs.written = @ + 1,
                           !.wire[Len(k.wire)].got = @ + 1]
<1>1. k \in ConnState /\ ConnOK(k) /\ Writing(k) /\ k.unsent > 0
  BY Here DEF HcWrite
<1>2. k2 \in ConnState /\ ConnOK(k2) /\ Continues(k, k2) /\ k2.at = k.at
  BY <1>1, WriteGoes
<1>3. hcConn' = [hcConn EXCEPT ![c] = k2] /\ UNCHANGED <<hcAccept, hcFree, hcErrors, hcCounters>>
  BY DEF HcWrite
<1> HIDE DEF k2
<1>4. k2.at # "closed" /\ (Served(k2) <=> Served(k))
  BY <1>1, <1>2 DEF Served, Waiting, Writing
<1> QED BY <1>2, <1>3, <1>4, Goes

\* A delivery that fails while its response is written.
LEMMA FailsKeeps ==
  ASSUME HcAssumption, HcInv, NEW c \in HcConns, Writing(hcConn[c]), hcConn[c].unsent > 0,
         NEW o \in Outcomes \ {"completed"}, Close(c, failed(hcConn[c], o), "failed"),
         UNCHANGED <<hcAccept, hcErrors>>
  PROVE  HcInv'
<1> DEFINE k == hcConn[c]
           k1 == failed(k, o)
<1>1. k \in ConnState /\ ConnOK(k) /\ k.obs.outcome = "none" /\ Served(k)
  BY Here DEF Served
<1>2. /\ k1 \in ConnState /\ k1.wire = k.wire /\ k1.taken = k.taken
      /\ k1.read = k.read /\ k1.sent = k.sent /\ k1.begun = k.begun /\ k1.resp = k.resp
      /\ k1.unsent = k.unsent /\ k1.script = k.script /\ k1.client = k.client
      /\ (k1.obs.open <=> k.obs.open) /\ (k.obs.open => k1.obs.outcome = o)
      /\ (~k.obs.open => k1 = k)
  BY <1>1, FailedKeeps
<1>3. Len(k.wire) > 0 /\ ~Full(k.wire[Len(k.wire)]) /\ ~Whole(k, k.begun)
  BY <1>1, Unfinished
<1>4. Close(c, k1, "failed") /\ "failed" \in Outcomes
  BY DEF Outcomes
<1> HIDE DEF k1
<1>5. k.obs.open => ~Whole(k1, k1.begun) /\ OutcomeOf(k1.obs, "failed") # "completed"
  BY <1>2, <1>3 DEF OutcomeOf, Whole
<1>6. MayEnd(k)
  BY <1>1, <1>3, Fields DEF MayEnd
<1> QED BY <1>1, <1>2, <1>4, <1>5, <1>6, CloseKeeps

LEMMA WrittenKeeps ==
  ASSUME HcAssumption, HcInv, NEW c \in HcConns, HcWritten(c)
  PROVE  HcInv'
<1> DEFINE k == hcConn[c]
<1>1. k \in ConnState /\ ConnOK(k) /\ k.obs.outcome = "none" /\ Writing(k) /\ Served(k)
      /\ k.unsent = 0 /\ UNCHANGED <<hcAccept, hcErrors>>
  BY Here DEF HcWritten, Served
<1>2. CASE k.at = "write" /\ k.resp.file > 0
  <2> DEFINE k2 == [k EXCEPT !.at = "stream", !.unsent = k.resp.file]
  <2>1. k2 \in ConnState /\ ConnOK(k2) /\ Continues(k, k2) /\ k2.at = "stream"
    BY <1>1, <1>2, StreamGoes
  <2>2. hcConn' = [hcConn EXCEPT ![c] = k2] /\ UNCHANGED <<hcAccept, hcFree, hcErrors, hcCounters>>
    BY <1>2 DEF HcWritten
  <2> HIDE DEF k2
  <2>3. k2.at # "closed" /\ (Served(k2) <=> Served(k))
    BY <1>1, <2>1 DEF Served, Writing
  <2> QED BY <2>1, <2>2, <2>3, Goes
<1>3. ASSUME ~(k.at = "write" /\ k.resp.file > 0)
      PROVE  /\ k.obs.open /\ Len(k.wire) > 0 /\ k.begun = Len(k.wire)
             /\ Full(k.wire[Len(k.wire)]) /\ k.wire[Len(k.wire)].persist = k.resp.persist
             /\ Whole(k, k.begun) /\ OutcomeOf(k.obs, "completed") = "completed"
  <2>1. k.at = "write" => k.resp.file = 0
    BY <1>1, <1>3, Fields
  <2> QED BY <1>1, <2>1, Finished
<1>4. CASE ~(k.at = "write" /\ k.resp.file > 0) /\ ~k.resp.persist
  <2>1. Close(c, k, "completed") /\ "completed" \in Outcomes
    BY <1>4 DEF HcWritten, Outcomes
  <2>2. MayEnd(k)
    <3>1. Len(k.wire) # 0 /\ ~k.wire[Len(k.wire)].persist
      BY <1>1, <1>3, <1>4, Fields
    <3> QED BY <3>1 DEF MayEnd
  <2> QED BY <1>1, <1>3, <1>4, <2>1, <2>2, CloseKeeps
<1>5. CASE ~(k.at = "write" /\ k.resp.file > 0) /\ k.resp.persist
  <2> DEFINE e == [k EXCEPT !.at = "next"]
             k2 == [e EXCEPT !.obs = NoObservation]
  <2>1. Finish(c, e, "completed") /\ hcFree' = hcFree
    BY <1>5 DEF HcWritten
  <2>2. /\ e \in ConnState /\ e.at = "next" /\ e.wire = k.wire /\ e.taken = k.taken
        /\ e.read = k.read /\ e.sent = k.sent /\ e.begun = k.begun /\ e.resp = k.resp
        /\ e.unsent = k.unsent /\ e.script = k.script /\ e.client = k.client /\ e.obs = k.obs
    <3> HIDE DEF k
    <3> QED BY <1>1 DEF ConnState
  <2> HIDE DEF e
  <2>3. Count(c, e, "completed") /\ hcConn' = [hcConn EXCEPT ![c] = k2]
    BY <1>3, <1>5, <2>1, <2>2 DEF Finish
  <2>4. Count(c, k, "completed") /\ "completed" \in Outcomes
    BY <2>2, <2>3 DEF Count, Outcomes
  <2>5. /\ k2 \in ConnState /\ k2.at = "next" /\ k2.wire = k.wire /\ k2.taken = k.taken
        /\ k2.read = k.read /\ k2.sent = k.sent /\ k2.begun = k.begun /\ k2.resp = k.resp
        /\ k2.unsent = k.unsent /\ k2.script = k.script /\ k2.obs = NoObservation
    <3>1. /\ k2 \in ConnState /\ k2.at = e.at /\ k2.wire = e.wire /\ k2.taken = e.taken
          /\ k2.read = e.read /\ k2.sent = e.sent /\ k2.begun = e.begun /\ k2.resp = e.resp
          /\ k2.unsent = e.unsent /\ k2.script = e.script /\ k2.obs = NoObservation
      BY <2>2, NoObservationType DEF ConnState
    <3> HIDE DEF k, k2
    <3> QED BY <2>2, <3>1
  <2> HIDE DEF k2
  <2>6. ~k2.obs.open /\ k2.obs.written = 0 /\ k2.obs.outcome = "none"
    BY <2>5, NoObservationType
  <2>7. ConnOK(k2)
    BY <1>1, <1>3, <1>5, <2>5, <2>6, Over
  <2>8. EndOK(k2) /\ Served(k2)
    BY <2>5 DEF EndOK, Served
  <2>9. Whole(k2, k2.begun) /\ k2.begun > 0 /\ k2.begun = k.begun /\ k2.wire = k.wire
    BY <1>3, <1>5, <2>5 DEF Whole
  <2> QED BY <1>1, <1>3, <1>5, <2>1, <2>3, <2>4, <2>5, <2>6, <2>7, <2>8, <2>9, Ends
<1> QED BY <1>2, <1>4, <1>5

LEMMA AgainKeeps ==
  ASSUME HcInv, NEW c \in HcConns, HcAgain(c)
  PROVE  HcInv'
<1> DEFINE k == hcConn[c]
           k2 == [(IF PendingEmpty(k) THEN k ELSE begin_request(k)) EXCEPT !.at = "headers"]
<1>1. k \in ConnState /\ ConnOK(k) /\ k.at = "next"
  BY Here DEF HcAgain
<1>2. k2 \in ConnState /\ ConnOK(k2) /\ Continues(k, k2) /\ k2.at = "headers"
  BY <1>1, AgainGoes
<1>3. hcConn' = [hcConn EXCEPT ![c] = k2] /\ UNCHANGED <<hcAccept, hcFree, hcErrors, hcCounters>>
  BY DEF HcAgain
<1> HIDE DEF k2
<1>4. k2.at # "closed" /\ (Served(k2) <=> Served(k))
  BY <1>1, <1>2 DEF Served, Waiting, Writing
<1> QED BY <1>2, <1>3, <1>4, Goes

LEMMA DropKeeps ==
  ASSUME HcAssumption, HcInv, NEW c \in HcConns, HcDrop(c)
  PROVE  HcInv'
<1> DEFINE k == hcConn[c]
<1>1. k \in ConnState /\ k.obs.outcome = "none" /\ Served(k) /\ hcAccept = "stopped"
      /\ Close(c, k, "cancelled") /\ "cancelled" \in Outcomes /\ UNCHANGED <<hcAccept, hcErrors>>
  BY Here DEF HcDrop, Outcomes
<1>2. MayEnd(k)
  BY <1>1 DEF MayEnd
<1>3. OutcomeOf(k.obs, "cancelled") # "completed"
  BY <1>1 DEF OutcomeOf
<1> QED BY <1>1, <1>2, <1>3, CloseKeeps

--------------------------------------------------------------------------------
(* The theorems.                                                              *)

LEMMA HcNext_HcInv ==
  ASSUME HcAssumption, HcInv, [HcNext]_hcVars
  PROVE  HcInv'
<1>1. CASE UNCHANGED hcVars
  <2>1. UNCHANGED <<hcConn, hcAccept, hcFree, hcErrors, hcTotals, hcLog>>
    BY <1>1 DEF hcVars, hcCounters
  <2> QED BY <2>1 DEF HcInv, TypeOK, LogOK, PermitsKept, EndOK, MayEnd
<1>2. CASE HcPermit \/ HcWake \/ (\E e \in BOOLEAN : HcAcceptFails(e))
  BY <1>2, ListenerKeeps
<1>3. CASE HcStop
  BY <1>3, StopKeeps
<1>4. ASSUME NEW c \in HcConns,
             \/ HcConnect(c) \/ HcAccept(c) \/ HcSend(c) \/ HcDrop(c) \/ HcTask(c)
             \/ \E how \in {"fin", "reset"} : HcLeave(c, how)
      PROVE  HcInv'
  <2>1. CASE HcConnect(c)
    BY <2>1, ConnectKeeps
  <2>2. CASE HcAccept(c)
    BY <2>2, AcceptKeeps
  <2>3. CASE HcSend(c) \/ HcPoll(c) \/ \E how \in {"fin", "reset"} : HcLeave(c, how)
    BY <2>3, ClientKeeps
  <2>4. CASE HcDrop(c)
    BY <2>4, DropKeeps
  <2>5. CASE HcRead(c)
    BY <2>5, ReadKeeps
  <2>6. CASE HcParse(c)
    BY <2>6, ParseKeeps
  <2>7. CASE HcDispatch(c)
    BY <2>7, DispatchKeeps
  <2>8. CASE HcReadEnds(c)
    BY <2>8, ReadEndsKeeps
  <2>9. CASE HcAnswer(c)
    BY <2>9, AnswerKeeps
  <2>10. CASE HcWrite(c)
    BY <2>10, WriteKeeps
  <2>11. CASE HcWriteFails(c)
    <3>1. PICK o \in {"disconnected", "timed_out"} : Close(c, failed(hcConn[c], o), "failed")
      BY <2>11 DEF HcWriteFails
    <3>2. Writing(hcConn[c]) /\ hcConn[c].unsent > 0 /\ UNCHANGED <<hcAccept, hcErrors>>
      BY <2>11 DEF HcWriteFails
    <3>3. o \in Outcomes \ {"completed"}
      BY DEF Outcomes
    <3> QED BY <3>1, <3>2, <3>3, FailsKeeps
  <2>12. CASE HcWritten(c)
    BY <2>12, WrittenKeeps
  <2>13. CASE HcAgain(c)
    BY <2>13, AgainKeeps
  <2> QED BY <1>4, <2>1, <2>2, <2>3, <2>4, <2>5, <2>6, <2>7, <2>8, <2>9, <2>10, <2>11, <2>12, <2>13
          DEF HcTask
<1>5. ASSUME NEW c \in HcConns, NEW o \in {"truncated", "failed", "cancelled"}, HcSourceFails(c, o)
      PROVE  HcInv'
  <2>1. Writing(hcConn[c]) /\ hcConn[c].unsent > 0 /\ Close(c, failed(hcConn[c], o), "failed")
        /\ UNCHANGED <<hcAccept, hcErrors>>
    BY <1>5 DEF HcSourceFails, Writing
  <2>2. o \in Outcomes \ {"completed"}
    BY DEF Outcomes
  <2> QED BY <2>1, <2>2, FailsKeeps
<1>6. \/ UNCHANGED hcVars
      \/ HcPermit \/ HcWake \/ (\E e \in BOOLEAN : HcAcceptFails(e))
      \/ HcStop
      \/ \E c \in HcConns :
           \/ HcConnect(c) \/ HcAccept(c) \/ HcSend(c) \/ HcDrop(c) \/ HcTask(c)
           \/ \E how \in {"fin", "reset"} : HcLeave(c, how)
      \/ \E c \in HcConns : \E o \in {"truncated", "failed", "cancelled"} : HcSourceFails(c, o)
  BY Zenon DEF HcNext
<1> QED BY <1>1, <1>2, <1>3, <1>4, <1>5, <1>6

(* Whatever clients send, close or reset and whenever the server stops,      *)
(* the responses of every connection answer its requests in order            *)
(* (lifecycle.rs: handle_conn).                                              *)
THEOREM ResponsesAlwaysInOrder == HcSpec => []ResponsesInOrder
<1> USE HcAssumption
<1>1. HcInit => HcInv
  BY HcInit_HcInv
<1>2. HcInv /\ [HcNext]_hcVars => HcInv'
  BY HcNext_HcInv
<1> QED BY <1>1, <1>2, InvImpliesOrder, PTL DEF HcSpec

(* Every delivery is counted once under the way it ended, and no permit is   *)
(* lost or used twice (http_delivery.rs, lifecycle.rs: accept_loop).         *)
THEOREM ConnectionsAlwaysCounted == HcSpec => []ConnectionsCounted
<1> USE HcAssumption
<1>1. HcInit => HcInv
  BY HcInit_HcInv
<1>2. HcInv /\ [HcNext]_hcVars => HcInv'
  BY HcNext_HcInv
<1> QED BY <1>1, <1>2, InvImpliesCounted, PTL DEF HcSpec
================================================================================
