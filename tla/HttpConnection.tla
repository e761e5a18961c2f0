--------------------------- MODULE HttpConnection ---------------------------
(***************************************************************************)
(* The HTTP listener and its connections (crates/server/src/lifecycle.rs:  *)
(* accept_loop, handle_conn, socket_write_all), what a connection reports  *)
(* of its deliveries (http_delivery.rs), and how a request becomes a       *)
(* response (crates/http, App::handle_from).                               *)
(*                                                                         *)
(* What a client sends is a sequence of pieces: each request has a first   *)
(* piece and a last one, and pieces of several requests may arrive in one  *)
(* read.  Times are not measured: a deadline may pass whenever its wait    *)
(* has nothing to read or cannot write.                                    *)
(***************************************************************************)
EXTENDS Integers, Sequences, FiniteSets

CONSTANTS
  HcConns,         \* connections clients open
  HcScripts,       \* what each may send: a set of sequences of request kinds
  max_connections, \* cfg.max_connections
  HcRequestLimit,  \* persist_left at the start (100 in the code)
  HcMaxErrors      \* bound: failed calls of accept

ASSUME HcAssumption ==
  /\ IsFiniteSet(HcConns)
  /\ max_connections \in Nat \ {0}
  /\ HcRequestLimit \in Nat \ {0}
  /\ HcMaxErrors \in Nat

VARIABLES
  hcConn,    \* the connections: see HcNew
  hcAccept,  \* accept_loop: "permit", "accept", "sleep" or "stopped"
  hcFree,    \* permits of the semaphore nobody holds
  hcErrors,  \* failed calls of accept
  hcTotals,  \* Counters.outcomes: how many deliveries ended each way
  hcLog      \* the deliveries counted, by connection and number (a ghost)

hcCounters == <<hcTotals, hcLog>>
hcVars == <<hcConn, hcAccept, hcFree, hcErrors, hcCounters>>

Outcomes == {"completed", "truncated", "disconnected", "timed_out",
             "cancelled", "failed"}

-----------------------------------------------------------------------------
(* Requests and their responses.                                           *)

(* What a request is, by what its response depends on: a page (GET), the   *)
(* same with "Connection: close", a HEAD, a SOAP call, one refused by its  *)
(* headers (host_rebinding_reject, TimeSeek without Range), original       *)
(* media, a compatible stream, an answer whose fields cannot go on the     *)
(* wire, malformed headers, headers that are too long, and a body that is  *)
(* too large.                                                              *)
Kinds == {"page", "closing", "head", "soap", "refused", "media", "remux",
          "unwireable", "malformed", "long_header", "large_body"}

(* handle_from and handle_from_inner with persist_for_route: the status,   *)
(* whether the connection stays open, the bytes of the body that are in    *)
(* memory and those that are streamed after it.  A query that was          *)
(* cancelled makes a SOAP call fail, on a connection that stays open.      *)
handle_from(kind, cancelled) ==
  LET answer(status, persist, body, file) ==
        [status |-> status, persist |-> persist, body |-> body, file |-> file]
  IN CASE kind = "page"    -> answer(200, TRUE, 1, 0)
       [] kind = "head"    -> answer(200, TRUE, 0, 0)
       [] kind = "closing" -> answer(200, FALSE, 1, 0)
       [] kind = "soap"    -> answer(IF cancelled THEN 500 ELSE 200, TRUE, 1, 0)
       [] kind = "refused" -> answer(400, FALSE, 1, 0)
       [] kind \in {"media", "remux"} -> answer(206, FALSE, 0, 1)
       [] OTHER            -> answer(200, TRUE, 1, 0)

\* HttpResponse::html: an error of the connection itself, which always closes.
html(status) == [status |-> status, persist |-> FALSE, body |-> 1, file |-> 0]

\* try_bytes_wire refuses the fields: the fixed 500 goes out, nothing after it.
response_wire(kind, response) ==
  IF kind = "unwireable"
  THEN [status |-> 500, persist |-> FALSE, body |-> 0, file |-> 0]
  ELSE response

-----------------------------------------------------------------------------
(* A connection.                                                           *)

NoResponse == [status |-> 0, persist |-> FALSE, body |-> 0, file |-> 0]
NoObservation == [open |-> FALSE, written |-> 0, promised |-> -1, outcome |-> "none"]

(* at: where its task is; script: what the client sends; sent, read and    *)
(* taken: pieces sent, read into `pending` and drained from it; client:    *)
(* whether its side is open, half closed or reset; left: persist_left;     *)
(* answered: request_number; query: its CancellationToken; resp: the       *)
(* response being written and unsent what is left of it, in pieces: one    *)
(* for the headers, one per body piece; wire: what the client has been     *)
(* sent; obs: Connection.response; begun: observations begun (a ghost).    *)
HcNew(script) ==
  [at |-> "away", script |-> script, sent |-> 0, read |-> 0, taken |-> 0,
   client |-> "open", left |-> HcRequestLimit, answered |-> 0,
   query |-> FALSE, resp |-> NoResponse, unsent |-> 0, wire |-> <<>>,
   obs |-> NoObservation, begun |-> 0]

HcInit ==
  /\ hcConn \in [HcConns -> {HcNew(s) : s \in UNION {HcScripts[d] : d \in HcConns}}]
  /\ \A c \in HcConns : hcConn[c].script \in HcScripts[c]
  /\ hcAccept = "permit"
  /\ hcFree = max_connections
  /\ hcErrors = 0
  /\ hcTotals = [o \in Outcomes |-> 0]
  /\ hcLog = {}

\* The request being read: the one after those drained from `pending`.
Number(k) == k.taken \div 2 + 1
Current(k) == k.script[Number(k)]
PendingEmpty(k) == k.read = k.taken

\* With a body the first piece holds all the headers; so does one that is
\* already longer than a header block may be.
HeaderPieces(kind) == IF kind \in {"soap", "large_body", "long_header"} THEN 1 ELSE 2
HeaderComplete(k) ==
  ~PendingEmpty(k) /\ k.read - k.taken >= HeaderPieces(Current(k))

Waiting(k) == k.at \in {"headers", "body"}
Writing(k) == k.at \in {"write", "stream"}
Served(k) == Waiting(k) \/ Writing(k) \/ k.at \in {"worker", "next"}

-----------------------------------------------------------------------------
(* http_delivery.rs                                                        *)

begin_request(k) ==
  IF k.obs.open THEN k
  ELSE [k EXCEPT !.obs = [NoObservation EXCEPT !.open = TRUE], !.begun = @ + 1]

(* response_header: the response goes out, and what its headers promise is  *)
(* known; a compatible stream has no length.                               *)
Respond(k, number, r, promised) ==
  LET b == begin_request(k) IN
  [b EXCEPT !.at = "write", !.resp = r, !.unsent = 1 + r.body,
     !.obs = [@ EXCEPT !.promised = promised],
     !.wire = Append(@, [req |-> number, status |-> r.status, persist |-> r.persist,
                         got |-> 0, size |-> 1 + r.body + r.file])]

\* The error of a connection that cannot read its request.
Refuse(k, status) == Respond(k, Number(k), html(status), html(status).body)

\* The first failure of a delivery is the one reported.
failed(k, outcome) ==
  IF k.obs.open /\ k.obs.outcome = "none" THEN [k EXCEPT !.obs.outcome = outcome] ELSE k

\* A success that did not write its headers and all it promised is no success.
OutcomeOf(obs, fallback) ==
  IF obs.outcome # "none" THEN obs.outcome
  ELSE IF fallback = "completed"
            /\ (obs.written = 0 \/ (obs.promised >= 0 /\ obs.written - 1 < obs.promised))
       THEN "truncated" ELSE fallback

\* The delivery of k is counted as it ended.
Count(c, k, outcome) ==
  /\ hcTotals' = [hcTotals EXCEPT ![outcome] = @ + 1]
  /\ hcLog' = hcLog \cup {[conn |-> c, nr |-> k.begun, outcome |-> outcome]}

\* Mutant: the observation stays after it was counted.
Finish_not_taken(c, k, fallback) ==
  IF ~k.obs.open THEN hcConn' = [hcConn EXCEPT ![c] = k] /\ UNCHANGED hcCounters
  ELSE /\ Count(c, k, OutcomeOf(k.obs, fallback))
       /\ hcConn' = [hcConn EXCEPT ![c] = k]

\* Connection::finish: the observation is taken, so it is counted once.
Finish(c, k, fallback) ==
  IF ~k.obs.open THEN hcConn' = [hcConn EXCEPT ![c] = k] /\ UNCHANGED hcCounters
  ELSE /\ Count(c, k, OutcomeOf(k.obs, fallback))
       /\ hcConn' = [hcConn EXCEPT ![c] = [k EXCEPT !.obs = NoObservation]]

\* The task of a connection ends: handle_conn counts what is open, and the
\* permit goes back.
Close(c, k, fallback) ==
  /\ Finish(c, [k EXCEPT !.at = "closed"], fallback)
  /\ hcFree' = hcFree + 1

-----------------------------------------------------------------------------
(* The listener.                                                           *)

HcConnect(c) ==
  /\ hcConn[c].at = "away" /\ hcAccept # "stopped"
  /\ hcConn' = [hcConn EXCEPT ![c].at = "backlog"]
  /\ UNCHANGED <<hcAccept, hcFree, hcErrors, hcCounters>>

\* A connection is accepted only once there is a permit for it.
HcPermit ==
  /\ hcAccept = "permit" /\ hcFree > 0
  /\ hcFree' = hcFree - 1
  /\ hcAccept' = "accept"
  /\ UNCHANGED <<hcConn, hcErrors, hcCounters>>

HcAccept(c) ==
  /\ hcAccept = "accept" /\ hcConn[c].at = "backlog"
  /\ hcConn' = [hcConn EXCEPT ![c].at = "headers"]
  /\ hcAccept' = "permit"
  /\ UNCHANGED <<hcFree, hcErrors, hcCounters>>

\* Mutant: the permit is kept while the loop waits out an exhaustion.
HcAcceptFails_permit_kept(exhausted) ==
  /\ hcAccept = "accept" /\ hcErrors < HcMaxErrors
  /\ hcErrors' = hcErrors + 1
  /\ hcAccept' = IF exhausted THEN "sleep" ELSE "permit"
  /\ hcFree' = IF exhausted THEN hcFree ELSE hcFree + 1
  /\ UNCHANGED <<hcConn, hcCounters>>

(* accept fails: out of descriptors the loop sleeps (next_accept_backoff), *)
(* after the failure of one handshake it goes on; the permit is dropped.   *)
HcAcceptFails(exhausted) ==
  /\ hcAccept = "accept" /\ hcErrors < HcMaxErrors
  /\ hcErrors' = hcErrors + 1
  /\ hcAccept' = IF exhausted THEN "sleep" ELSE "permit"
  /\ hcFree' = hcFree + 1
  /\ UNCHANGED <<hcConn, hcCounters>>

HcWake ==
  /\ hcAccept = "sleep"
  /\ hcAccept' = "permit"
  /\ UNCHANGED <<hcConn, hcFree, hcErrors, hcCounters>>

-----------------------------------------------------------------------------
(* A client.                                                               *)

HcSend(c) ==
  LET k == hcConn[c] IN
  /\ Served(k) \/ k.at = "backlog"
  /\ k.client = "open" /\ k.sent < 2 * Len(k.script)
  /\ hcConn' = [hcConn EXCEPT ![c].sent = @ + 1]
  /\ UNCHANGED <<hcAccept, hcFree, hcErrors, hcCounters>>

\* It closes its side of the connection (a FIN), or all of it (a reset).
HcLeave(c, how) ==
  LET k == hcConn[c] IN
  /\ Served(k)
  /\ k.client = "open" \/ (how = "reset" /\ k.client = "fin")
  /\ hcConn' = [hcConn EXCEPT ![c].client = how]
  /\ UNCHANGED <<hcAccept, hcFree, hcErrors, hcCounters>>

-----------------------------------------------------------------------------
(* Reading a request.                                                      *)

\* A read takes any of the pieces that have arrived, of one request or more.
HcRead(c) ==
  LET k == hcConn[c] IN
  /\ Waiting(k) /\ k.client # "reset"
  /\ k.at = "headers" => ~HeaderComplete(k)
  /\ k.at = "body" => k.read < k.taken + 2
  /\ \E n \in k.read + 1 .. k.sent :
        hcConn' = [hcConn EXCEPT ![c] = [begin_request(k) EXCEPT !.read = n]]
  /\ UNCHANGED <<hcAccept, hcFree, hcErrors, hcCounters>>

\* The headers are all there: they are refused, or the body is read next.
HcParse(c) ==
  LET k == hcConn[c] IN
  /\ k.at = "headers" /\ HeaderComplete(k)
  /\ hcConn' = [hcConn EXCEPT ![c] =
       CASE Current(k) = "long_header" -> Refuse(k, 431)
         [] Current(k) = "malformed"   -> Refuse(k, 400)
         [] Current(k) = "large_body"  -> Refuse(k, 413)
         [] OTHER                      -> [k EXCEPT !.at = "body"]]
  /\ UNCHANGED <<hcAccept, hcFree, hcErrors, hcCounters>>

\* Mutant: everything read is drained, the next request with it.
HcDispatch_drops_pipelined(c) ==
  LET k == hcConn[c] IN
  /\ k.at = "body" /\ k.read >= k.taken + 2
  /\ hcConn' = [hcConn EXCEPT ![c] = [k EXCEPT !.at = "worker", !.query = FALSE,
                                        !.taken = 2 * (k.read \div 2)]]
  /\ UNCHANGED <<hcAccept, hcFree, hcErrors, hcCounters>>

\* The request is complete: it is drained from `pending` and a worker has it.
HcDispatch(c) ==
  LET k == hcConn[c] IN
  /\ k.at = "body" /\ k.read >= k.taken + 2
  /\ hcConn' = [hcConn EXCEPT ![c] = [k EXCEPT !.at = "worker", !.query = FALSE,
                                        !.taken = @ + 2]]
  /\ UNCHANGED <<hcAccept, hcFree, hcErrors, hcCounters>>

\* Mutant: an idle connection is told that its request timed out.
HcReadEnds_idle_answered(c) ==
  LET k == hcConn[c] IN
  /\ Waiting(k) /\ (k.read = k.sent \/ k.client = "reset")
  /\ k.at = "headers" => ~HeaderComplete(k)
  /\ k.at = "body" => k.read < k.taken + 2
  /\ IF k.client = "reset" THEN Close(c, failed(k, "disconnected"), "failed")
     ELSE IF k.client = "fin" /\ PendingEmpty(k) THEN Close(c, k, "completed")
     ELSE /\ hcConn' = [hcConn EXCEPT ![c] =
                          Refuse(k, IF k.client = "fin" THEN 400 ELSE 408)]
          /\ UNCHANGED <<hcFree, hcCounters>>
  /\ UNCHANGED <<hcAccept, hcErrors>>

(* Nothing more can be read: the client reset the connection, or closed    *)
(* its side, or the deadline of this wait has passed.  A connection with   *)
(* no byte of a request is closed without an answer.                       *)
HcReadEnds(c) ==
  LET k == hcConn[c] IN
  /\ Waiting(k) /\ (k.read = k.sent \/ k.client = "reset")
  /\ k.at = "headers" => ~HeaderComplete(k)
  /\ k.at = "body" => k.read < k.taken + 2
  /\ IF k.client = "reset" THEN Close(c, failed(k, "disconnected"), "failed")
     ELSE IF PendingEmpty(k) THEN Close(c, k, "completed")
     ELSE /\ hcConn' = [hcConn EXCEPT ![c] =
                          Refuse(k, IF k.client = "fin" THEN 400 ELSE 408)]
          /\ UNCHANGED <<hcFree, hcCounters>>
  /\ UNCHANGED <<hcAccept, hcErrors>>

-----------------------------------------------------------------------------
(* Answering it.                                                           *)

(* The poll of a running handler: its query is cancelled when the server   *)
(* stops or the client is gone; a client that only closed its own side is  *)
(* still waiting for the answer.                                           *)
HcPoll(c) ==
  LET k == hcConn[c] IN
  /\ k.at = "worker" /\ ~k.query
  /\ hcAccept = "stopped" \/ k.client = "reset"
  /\ hcConn' = [hcConn EXCEPT ![c].query = TRUE]
  /\ UNCHANGED <<hcAccept, hcFree, hcErrors, hcCounters>>

(* The worker is done: the response goes out.  A query may have run past   *)
(* its own deadline.  The last response a connection may carry says so.    *)
HcAnswer(c) ==
  LET k == hcConn[c] kind == k.script[k.taken \div 2] IN
  /\ k.at = "worker"
  /\ \E late \in {FALSE, kind = "soap"} :
       LET s == response_wire(kind, handle_from(kind, k.query \/ late))
           r == [s EXCEPT !.persist = @ /\ k.left > 1]
       IN hcConn' = [hcConn EXCEPT ![c] =
            [Respond(k, k.taken \div 2, r, CASE kind = "head" -> 0 [] kind = "remux" -> -1
                                             [] OTHER -> r.body + r.file)
               EXCEPT !.left = @ - 1, !.answered = @ + 1]]
  /\ UNCHANGED <<hcAccept, hcFree, hcErrors, hcCounters>>

\* socket_write_all: the client accepts a piece of what is written.
HcWrite(c) ==
  LET k == hcConn[c] IN
  /\ Writing(k) /\ k.unsent > 0 /\ k.client # "reset"
  /\ hcConn' = [hcConn EXCEPT ![c] =
       [k EXCEPT !.unsent = @ - 1, !.obs.written = @ + 1, !.wire[Len(k.wire)].got = @ + 1]]
  /\ UNCHANGED <<hcAccept, hcFree, hcErrors, hcCounters>>

\* It is gone, or accepts nothing for too long.
HcWriteFails(c) ==
  LET k == hcConn[c] IN
  /\ Writing(k) /\ k.unsent > 0
  /\ Close(c, failed(k, IF k.client = "reset" THEN "disconnected" ELSE "timed_out"),
           "failed")
  /\ UNCHANGED <<hcAccept, hcErrors>>

(* The bytes that follow the headers cannot be had: the file is shorter    *)
(* than promised, the helper failed, or the server stops meanwhile.        *)
HcSourceFails(c, outcome) ==
  LET k == hcConn[c] IN
  /\ k.at = "stream" /\ k.unsent > 0
  /\ CASE outcome = "truncated" -> k.script[k.taken \div 2] = "media"
       [] outcome = "failed"    -> k.script[k.taken \div 2] = "remux"
       [] OTHER                 -> hcAccept = "stopped"
  /\ Close(c, failed(k, outcome), "failed")
  /\ UNCHANGED <<hcAccept, hcErrors>>

(* What was in memory is written: the file or the stream follows it, or    *)
(* the delivery is complete, and the next request is read or the           *)
(* connection ends.  What `pending` holds already is that request.         *)
HcWritten(c) ==
  LET k == hcConn[c] IN
  /\ Writing(k) /\ k.unsent = 0
  /\ IF k.at = "write" /\ k.resp.file > 0
     THEN /\ hcConn' = [hcConn EXCEPT ![c] =
                          [k EXCEPT !.at = "stream", !.unsent = k.resp.file]]
          /\ UNCHANGED <<hcFree, hcCounters>>
     ELSE IF ~k.resp.persist THEN Close(c, k, "completed")
     ELSE /\ Finish(c, [k EXCEPT !.at = "next"], "completed")
          /\ UNCHANGED hcFree
  /\ UNCHANGED <<hcAccept, hcErrors>>

\* The loop of the connection begins again.
HcAgain(c) ==
  LET k == hcConn[c] IN
  /\ k.at = "next"
  /\ hcConn' = [hcConn EXCEPT ![c] =
       [(IF PendingEmpty(k) THEN k ELSE begin_request(k)) EXCEPT !.at = "headers"]]
  /\ UNCHANGED <<hcAccept, hcFree, hcErrors, hcCounters>>

-----------------------------------------------------------------------------
(* The server stops: the listener is gone and with it its backlog; the     *)
(* tasks of connections go on until the runtime is torn down.              *)

HcStop ==
  /\ hcAccept # "stopped"
  /\ hcAccept' = "stopped"
  /\ hcFree' = IF hcAccept = "accept" THEN hcFree + 1 ELSE hcFree
  /\ hcConn' = [c \in HcConns |-> IF hcConn[c].at = "backlog"
                                  THEN [hcConn[c] EXCEPT !.at = "refused"] ELSE hcConn[c]]
  /\ UNCHANGED <<hcErrors, hcCounters>>

\* Mutant: a connection task that is dropped reports nothing.
HcDrop_uncounted(c) ==
  /\ hcAccept = "stopped" /\ Served(hcConn[c])
  /\ hcConn' = [hcConn EXCEPT ![c].at = "closed", ![c].obs = NoObservation]
  /\ hcFree' = hcFree + 1
  /\ UNCHANGED <<hcAccept, hcErrors, hcCounters>>

\* impl Drop for Connection: a task that is dropped closes its observation.
HcDrop(c) ==
  /\ hcAccept = "stopped" /\ Served(hcConn[c])
  /\ Close(c, hcConn[c], "cancelled")
  /\ UNCHANGED <<hcAccept, hcErrors>>

-----------------------------------------------------------------------------
HcTask(c) ==
  \/ HcRead(c) \/ HcParse(c) \/ HcDispatch(c) \/ HcReadEnds(c) \/ HcPoll(c)
  \/ HcAnswer(c) \/ HcWrite(c) \/ HcWriteFails(c) \/ HcWritten(c) \/ HcAgain(c)

HcNext ==
  \/ HcPermit \/ HcWake \/ HcStop
  \/ \E e \in BOOLEAN : HcAcceptFails(e)
  \/ \E c \in HcConns :
       \/ HcConnect(c) \/ HcAccept(c) \/ HcSend(c) \/ HcDrop(c) \/ HcTask(c)
       \/ \E how \in {"fin", "reset"} : HcLeave(c, how)
       \/ \E o \in {"truncated", "failed", "cancelled"} : HcSourceFails(c, o)

HcSpec ==
  /\ HcInit /\ [][HcNext]_hcVars
  /\ WF_hcVars(HcPermit \/ HcWake)
  /\ \A c \in HcConns : WF_hcVars(HcAccept(c)) /\ WF_hcVars(HcTask(c))

-----------------------------------------------------------------------------
(* Properties.                                                             *)

Full(w) == w.got = w.size

(* Pipelining and keep-alive: responses answer the requests of a           *)
(* connection one by one and in their order, each only when some of its    *)
(* request has come, the next one only when the last is complete and kept  *)
(* the connection open.  A request that was read whole gets its own        *)
(* answer, and a connection never ends silently on a client that was told  *)
(* it stays open and has sent more.                                        *)
ResponsesInOrder ==
  \A c \in HcConns : LET k == hcConn[c] IN
    /\ \A i \in DOMAIN k.wire :
         /\ k.wire[i].req = i /\ 2 * i - 1 <= k.read
         /\ i < Len(k.wire) => k.wire[i].persist /\ Full(k.wire[i])
         /\ k.wire[i].status = 408 => k.taken < 2 * i
         /\ 2 * i <= k.taken =>
              k.wire[i].status \in {response_wire(k.script[i],
                                      handle_from(k.script[i], x)).status : x \in BOOLEAN}
    /\ k.at = "closed" /\ k.client # "reset" /\ hcAccept # "stopped"
         /\ (k.wire = <<>> \/ (k.wire[Len(k.wire)].persist /\ Full(k.wire[Len(k.wire)])))
       => k.sent = 2 * Len(k.wire)

(* Every delivery is counted once, under the way it really ended: the      *)
(* totals are those of the deliveries of all connections, each of which    *)
(* begins with the first byte of its request, so that an idle connection   *)
(* that times out is none; and one is "completed" exactly when the client  *)
(* accepted every byte its headers promised.                               *)
DeliveriesCounted ==
  /\ \A o \in Outcomes : hcTotals[o] = Cardinality({d \in hcLog : d.outcome = o})
  /\ \A c \in HcConns : LET k == hcConn[c] IN
       /\ {d.nr : d \in {e \in hcLog : e.conn = c}}
            = 1 .. (IF k.obs.open THEN k.begun - 1 ELSE k.begun)
       /\ 2 * k.begun - 1 <= k.read
       /\ k.obs.open => Served(k)
  /\ \A d, e \in hcLog : d.conn = e.conn /\ d.nr = e.nr => d = e
  /\ \A d \in hcLog :
       LET wire == hcConn[d.conn].wire
           whole == d.nr <= Len(wire) /\ Full(wire[d.nr])
       IN IF d.outcome = "completed" THEN whole ELSE whole => hcAccept = "stopped"

\* As many connections are served as there are permits out: none is served
\* without one, and none keeps it when it ends.
PermitsKept ==
  hcFree + Cardinality({c \in HcConns : Served(hcConn[c])})
    + (IF hcAccept = "accept" THEN 1 ELSE 0) = max_connections

ConnectionsCounted == DeliveriesCounted /\ PermitsKept

\* Every client that connected is served and its connection ends: none holds
\* a permit for ever, and a failing accept does not stop the listener.
ConnectionsEnd ==
  []<>(\A c \in HcConns : hcConn[c].at \in {"away", "closed", "refused"})
=============================================================================
