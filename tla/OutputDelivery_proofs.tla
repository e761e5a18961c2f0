------------------------ MODULE OutputDelivery_proofs ------------------------
(***************************************************************************)
(* Proofs about OutputDelivery, for any number of readers, attempts and    *)
(* truncations.  From the moment a response is past readiness its file is  *)
(* pinned, so what it promises, opens and sends is one attempt; and what   *)
(* it once saw complete stays complete while anything is being answered.   *)
(***************************************************************************)
EXTENDS OutputDelivery, SequenceTheorems, TLAPS

JobStates == {"preprocessing", "starting", "growing", "complete", "failed", "cancelled"}
Maybe == {<<>>} \cup {<<n>> : n \in Nat}
Tags == {"file", "completed"} \X Nat
Reqs == [kind : {"plain", "resource", "progressive"}, start : Nat, last : Maybe]
NoReq == [kind |-> "none"]

\* Where a response is before its headers, with its request; past readiness;
\* past its headers; and between a look that found it short and the next.
Sent == {"open"} \cup Streaming
Ready == {"route", "fin", "offset", "measure", "more", "range", "flag", "meta"}
Asking == {"ready", "soon", "patient", "pin", "refused", "resumable"} \cup Ready
Short == {"read", "stat", "end", "write", "park"}
PCs == {"idle", "done"} \cup Asking \cup Sent
Outs == {"none", "failed", "cancelled", "timeout", "refused", "whole", "cut", "gone"}

Responses ==
    [pc : PCs, req : Reqs \cup {NoReq}, tag : Tags \cup {<<>>}, note : BOOLEAN,
     st : JobStates \cup {"none", "resume"}, need : Nat, of : Nat, upto : Maybe, pos : Nat,
     fd : Nat, out : Outs]

\* The request of a reader and of the downloader.
AskedOK(r, k, a) ==
    /\ k.req \in Reqs
    /\ r \in Readers =>
         k.req.kind # "progressive" /\ (k.req.last # <<>> => k.req.start <= k.req.last[1])
    /\ r = Downloader =>
         /\ k.req.kind = "progressive" /\ k.req.last = <<>> /\ k.req.start = Len(a.data)
         /\ k.tag = IF a.data = <<>> THEN <<>> ELSE a.tag
    /\ k.req.kind = "resource" => k.req.last # <<>>
    /\ k.pc \in {"flag", "meta", "resumable"} => k.req.kind = "progressive"
    /\ k.pc = "range" => k.req.kind # "progressive"

\* What is sent comes from the job's file, and no more than was promised.
SentOK(r, k, j, a) ==
    /\ k.of = j.file /\ (k.upto # <<>> => k.pos <= k.upto[1])
    /\ k.pc \in Streaming => k.fd = k.of
    /\ k.pc \in Short /\ k.upto # <<>> => k.pos < k.upto[1]
    /\ r = Downloader => Len(a.data) = k.pos /\ a.tag \in Tags /\ a.tag[2] = j.file

RespOK(r, k, j, a, c) ==
    /\ k \in Responses
    /\ k.pc = "idle" => k.st = "none"
    /\ k.pc \in Asking => AskedOK(r, k, a)
    /\ k.pc \in Ready \cup Sent => j.pinned = <<j.file>>
    /\ k.pc = "fin" \/ k.st \in {"resume", "complete"} => j.state = "complete"
    /\ k.pc \in Sent => SentOK(r, k, j, a)
    /\ k.pc = "end" /\ k.st = "complete" /\ c = 0 => k.need = Total
    /\ k.out = "whole" =>
         /\ k.pc = "done"
         /\ IF k.upto # <<>> THEN k.pos = k.upto[1]
            ELSE j.state = "complete" /\ (c = 0 => k.pos = Total)

JobType ==
    [state : JobStates, flag : BOOLEAN, owed : BOOLEAN, pinned : Maybe, file : Nat]

JobOK(j, sz, c) ==
    /\ j \in JobType /\ j.file \in 1..MaxInodes
    /\ j.pinned # <<>> => j.pinned = <<j.file>>
    /\ sz \in [1..MaxInodes -> 0..Total]
    /\ j.state = "complete" /\ c = 0 => sz[j.file] = Total

\* d: the response of the downloader.
ArchOK(a, d, c) ==
    /\ a \in [data : Seq(Nat), tag : Tags \cup {<<>>}, total : Maybe, whole : BOOLEAN]
    /\ a.data # <<>> => a.tag \in Tags /\ \A n \in 1..Len(a.data) : a.data[n] = a.tag[2]
    /\ c = 0 /\ a.total # <<>> => a.total = <<Total>>
    /\ a.whole => d.pc = "idle" /\ (c = 0 => Len(a.data) = Total)

OdInv ==
    /\ cuts \in Nat /\ asks \in Nat
    /\ JobOK(job, size, cuts)
    /\ ArchOK(arch, rd[Downloader], cuts)
    /\ rd \in [OdClients -> Responses]
    /\ \A r \in OdClients : RespOK(r, rd[r], job, arch, cuts)

-----------------------------------------------------------------------------
(* What a move of one response keeps.                                      *)

\* Only the control part of a response moves: where it is, what it noticed.
Like(k2, k) ==
    /\ k2 \in Responses /\ k2.req = k.req /\ k2.tag = k.tag /\ k2.of = k.of
    /\ k2.upto = k.upto /\ k2.pos = k.pos

\* The job goes on without losing its file, its pin or its completion.
Steady(j, j2) ==
    /\ j2.file = j.file /\ (j.pinned = <<j.file>> => j2.pinned = <<j2.file>>)
    /\ j.state = "complete" => j2.state = "complete"

LEMMA SteadyOK ==
  ASSUME NEW r, NEW k, NEW j, NEW j2, NEW a, NEW c, NEW c2, RespOK(r, k, j, a, c),
         Steady(j, j2), c2 = 0 => c = 0
  PROVE  RespOK(r, k, j2, a, c2)
<1>1. k.pc \in Sent => SentOK(r, k, j2, a)
  BY DEF RespOK, SentOK, Steady
<1> QED BY <1>1 DEF RespOK, Steady

LEMMA ArchOfDownloader ==
  ASSUME NEW r, r # Downloader, NEW k, NEW j, NEW a, NEW a2, NEW c, RespOK(r, k, j, a, c)
  PROVE  RespOK(r, k, j, a2, c)
<1>1. k.pc \in Sent => SentOK(r, k, j, a2)
  BY DEF RespOK, SentOK
<1>2. k.pc \in Asking => AskedOK(r, k, a2)
  BY DEF RespOK, AskedOK
<1> QED BY <1>1, <1>2 DEF RespOK

LEMMA IdleOK == Idle \in Responses /\ \A r, j, a, c : RespOK(r, Idle, j, a, c)
<1>1. Idle \in Responses
  BY Zenon DEF Idle, Responses, NoReq, PCs, Outs, Maybe
<1>2. Idle.pc = "idle" /\ Idle.st = "none" /\ Idle.out = "none"
  BY DEF Idle
<1> QED BY <1>1, <1>2 DEF RespOK, Asking, Ready, Sent, Streaming

LEMMA NotedOK ==
  ASSUME NEW r, NEW k, NEW j, NEW a, NEW c, RespOK(r, k, j, a, c), NEW b \in BOOLEAN,
         NEW k2, k2 = [k EXCEPT !.note = b]
  PROVE  RespOK(r, k2, j, a, c)
<1>1. k \in Responses
  BY DEF RespOK
<1>2. k2 \in Responses
  BY <1>1, Zenon DEF Responses
<1>3. /\ k2.pc = k.pc /\ k2.req = k.req /\ k2.tag = k.tag /\ k2.st = k.st /\ k2.need = k.need
      /\ k2.of = k.of /\ k2.upto = k.upto /\ k2.pos = k.pos /\ k2.fd = k.fd /\ k2.out = k.out
  BY <1>1 DEF Responses
<1>4. k.pc \in Sent => SentOK(r, k2, j, a)
  BY <1>3 DEF RespOK, SentOK
<1>5. k.pc \in Asking => AskedOK(r, k2, a)
  BY <1>3 DEF RespOK, AskedOK
<1> QED BY <1>2, <1>3, <1>4, <1>5 DEF RespOK

\* Before the headers: the request goes with the response.
LEMMA AskingMove ==
  ASSUME NEW r, NEW k, NEW k2, NEW j, NEW a, NEW c, RespOK(r, k, j, a, c),
         k.pc \in Asking, Like(k2, k), k2.pc \in Asking, k2.out # "whole",
         k2.pc = "fin" \/ k2.st \in {"resume", "complete"} => j.state = "complete",
         k2.pc \in Ready => j.pinned = <<j.file>>,
         k2.pc \in {"flag", "meta", "resumable"} => k.req.kind = "progressive",
         k2.pc = "range" => k.req.kind # "progressive"
  PROVE  RespOK(r, k2, j, a, c)
<1>1. k2.pc \notin Sent /\ k2.pc # "idle" /\ k2.pc # "end"
  BY DEF Asking, Ready, Sent, Streaming
<1>2. AskedOK(r, k, a)
  BY DEF RespOK
<1>3. AskedOK(r, k2, a)
  BY <1>2 DEF AskedOK, Like
<1> QED BY <1>1, <1>3 DEF RespOK, Like

\* While it is sent.
LEMMA SendingMove ==
  ASSUME NEW r, NEW k, NEW k2, NEW j, NEW a, NEW c, RespOK(r, k, j, a, c),
         k.pc \in Sent, Like(k2, k), k2.pc \in Streaming, k2.out # "whole", k2.fd = k.of,
         k2.st \in {"resume", "complete"} => j.state = "complete",
         k2.pc \in Short /\ k.upto # <<>> => k.pos < k.upto[1],
         k2.pc = "end" /\ k2.st = "complete" /\ c = 0 => k2.need = Total
  PROVE  RespOK(r, k2, j, a, c)
<1>1. k2.pc \notin Asking /\ k2.pc # "idle" /\ k2.pc \in Sent
  BY DEF Asking, Ready, Sent, Streaming
<1>2. SentOK(r, k, j, a)
  BY DEF RespOK
<1>3. SentOK(r, k2, j, a)
  BY <1>2 DEF SentOK, Like
<1> QED BY <1>1, <1>3 DEF RespOK, Like, Ready, Asking

\* The end of a response: whole only when all that was promised has been sent.
Ending(k, out) == [Idle EXCEPT !.pc = "done", !.out = out, !.upto = k.upto, !.pos = k.pos]
LEMMA EndOK ==
  ASSUME NEW r, NEW k \in Responses, NEW j, NEW a, NEW c, NEW out \in Outs,
         out = "whole" => IF k.upto # <<>> THEN k.pos = k.upto[1]
                          ELSE j.state = "complete" /\ (c = 0 => k.pos = Total)
  PROVE  RespOK(r, Ending(k, out), j, a, c) /\ Ending(k, out).pc = "done"
<1> DEFINE k2 == Ending(k, out)
           u == k.upto
           p == k.pos
<1>1. k2 = [Idle EXCEPT !.pc = "done", !.out = out, !.upto = u, !.pos = p]
  BY DEF Ending
<1>2. u \in Maybe /\ p \in Nat /\ "done" \in PCs
  BY DEF Responses, PCs
<1> HIDE DEF k2, u, p
<1>3. Idle \in Responses /\ Idle.st = "none"
  BY IdleOK DEF Idle
<1>4. k2 \in Responses /\ k2.pc = "done" /\ k2.out = out /\ k2.upto = u /\ k2.pos = p /\ k2.st = "none"
  BY <1>1, <1>2, <1>3 DEF Responses
<1> QED BY <1>4 DEF RespOK, Asking, Ready, Sent, Streaming, k2, u, p

\* The headers: a range of the job's file.
LEMMA PromiseOK ==
  ASSUME NEW r, NEW j, NEW a, NEW c, NEW start \in Nat, NEW upto \in Maybe, NEW of \in Nat,
         upto # <<>> => start <= upto[1], of = j.file, j.pinned = <<j.file>>,
         r = Downloader => Len(a.data) = start /\ a.tag \in Tags /\ a.tag[2] = j.file
  PROVE  RespOK(r, Promise(r, start, upto, of), j, a, c) /\ Promise(r, start, upto, of).pc = "open"
<1> DEFINE k2 == Promise(r, start, upto, of)
<1>1. k2 = [Idle EXCEPT !.pc = "open", !.pos = start, !.upto = upto, !.of = of]
  BY DEF Promise
<1>2. Idle \in Responses /\ Idle.st = "none" /\ Idle.out = "none" /\ "open" \in PCs
  BY IdleOK DEF Idle, PCs, Sent
<1> HIDE DEF k2
<1>3. /\ k2 \in Responses /\ k2.pc = "open" /\ k2.out = "none" /\ k2.upto = upto /\ k2.pos = start
      /\ k2.st = "none" /\ k2.of = of
  BY <1>1, <1>2 DEF Responses
<1>4. SentOK(r, k2, j, a)
  BY <1>3 DEF SentOK, Streaming, Short
<1> QED BY <1>3, <1>4 DEF RespOK, Asking, Ready, Sent, Streaming, k2

\* One response moves, and the job or the archive with it.
LEMMA OneResponse ==
  ASSUME OdInv, NEW r \in OdClients, NEW k2, rd' = [rd EXCEPT ![r] = k2],
         Steady(job, job'), JobOK(job', size', cuts'), cuts' = cuts, asks' \in Nat,
         RespOK(r, k2, job', arch', cuts), arch' = arch \/ r = Downloader,
         ArchOK(arch', IF r = Downloader THEN k2 ELSE rd[Downloader], cuts)
  PROVE  OdInv'
<1>1. k2 \in Responses /\ rd \in [OdClients -> Responses] /\ Downloader \in OdClients
  BY DEF OdInv, RespOK, OdClients
<1>2. rd' \in [OdClients -> Responses] /\ rd'[r] = k2 /\ \A q \in OdClients : q # r => rd'[q] = rd[q]
  BY <1>1
<1>3. rd'[Downloader] = IF r = Downloader THEN k2 ELSE rd[Downloader]
  BY <1>1, <1>2
<1>4. ASSUME NEW q \in OdClients
      PROVE  RespOK(q, rd'[q], job', arch', cuts')
  <2>1. CASE q = r
    BY <1>2, <2>1
  <2>2. CASE q # r
    <3>1. RespOK(q, rd[q], job, arch, cuts)
      BY DEF OdInv
    <3>2. RespOK(q, rd[q], job', arch, cuts)
      BY <3>1, SteadyOK
    <3>3. RespOK(q, rd[q], job', arch', cuts)
      BY <2>2, <3>2, ArchOfDownloader
    <3> QED BY <1>2, <2>2, <3>3
  <2> QED BY <2>1, <2>2
<1>5. ArchOK(arch', rd'[Downloader], cuts')
  BY <1>3
<1>6. cuts' \in Nat
  BY DEF OdInv
<1> QED BY <1>2, <1>4, <1>5, <1>6 DEF OdInv


\* The invariant says what the property asks for.
LEMMA Promised == OdInv => AnswersWhole
<1> SUFFICES ASSUME OdInv
             PROVE  AnswersWhole
  OBVIOUS
<1>1. PromiseKept
  BY DEF OdInv, RespOK, PromiseKept
<1>2. OneOutput
  BY DEF OdInv, RespOK, SentOK, Sent, OneOutput
<1>3. ArchiveIsOneOutput
  <2>1. ArchOK(arch, rd[Downloader], cuts)
    BY DEF OdInv
  <2>2. arch.data \in Seq(Nat)
    BY <2>1 DEF ArchOK
  <2>3. ASSUME NEW n \in 1..Len(arch.data)
        PROVE  arch.data[n] = arch.data[1]
    <3>1. Len(arch.data) \in Nat /\ 1 \in 1..Len(arch.data) /\ arch.data # <<>>
      BY <2>2
    <3> QED BY <2>1, <3>1 DEF ArchOK
  <2> QED BY <2>1, <2>3 DEF ArchOK, ArchiveIsOneOutput
<1> QED BY <1>1, <1>2, <1>3 DEF AnswersWhole

-----------------------------------------------------------------------------
(* The steps of the job.                                                   *)

\* The job moves, and everyone listening may be told.
Told == [r \in OdClients |-> [rd[r] EXCEPT !.note = @ \/ rd[r].pc \in Listening]]

LEMMA JobMoves ==
  ASSUME OdInv, Steady(job, job'), JobOK(job', size', cuts'), cuts' \in Nat,
         cuts' = 0 => cuts = 0, asks' = asks, arch' = arch, rd' = rd \/ rd' = Told
  PROVE  OdInv'
<1>1. rd \in [OdClients -> Responses] /\ Downloader \in OdClients
  BY DEF OdInv, OdClients
<1>2. ASSUME NEW r \in OdClients
      PROVE  rd'[r].pc = rd[r].pc /\ rd'[r] \in Responses /\ RespOK(r, rd'[r], job', arch', cuts')
  <2>1. RespOK(r, rd[r], job, arch, cuts)
    BY DEF OdInv
  <2>2. RespOK(r, rd[r], job', arch, cuts')
    BY <2>1, SteadyOK
  <2>3. ASSUME rd' = Told
        PROVE  rd'[r].pc = rd[r].pc /\ RespOK(r, rd'[r], job', arch, cuts')
    <3> DEFINE k == rd[r]
               b == k.note \/ k.pc \in Listening
    <3>1. k \in Responses /\ b \in BOOLEAN
      BY <1>1 DEF Responses
    <3>2. rd'[r] = [k EXCEPT !.note = b]
      BY <2>3 DEF Told
    <3>3. RespOK(r, k, job', arch, cuts')
      BY <2>2
    <3> HIDE DEF k, b
    <3>4. RespOK(r, rd'[r], job', arch, cuts')
      BY <3>1, <3>2, <3>3, NotedOK
    <3>5. rd'[r].pc = k.pc
      BY <3>1, <3>2 DEF Responses
    <3> QED BY <3>4, <3>5 DEF k
  <2>4. RespOK(r, rd'[r], job', arch, cuts') => rd'[r] \in Responses
    BY DEF RespOK
  <2> QED BY <2>2, <2>3, <2>4
<1>3. rd' \in [OdClients -> Responses]
  BY <1>1, <1>2 DEF Told
<1>4. ArchOK(arch', rd'[Downloader], cuts')
  BY <1>1, <1>2 DEF OdInv, ArchOK
<1> QED BY <1>2, <1>3, <1>4 DEF OdInv

LEMMA JobSteps ==
  ASSUME OdInv, OdAssumption,
         Supervise \/ Produce \/ PollGrowing \/ Fail \/ Cancel \/ Truncate
  PROVE  OdInv'
<1>1. /\ job \in JobType /\ job.file \in 1..MaxInodes /\ size \in [1..MaxInodes -> 0..Total]
      /\ JobOK(job, size, cuts) /\ cuts \in Nat /\ Total \in Nat \ {0}
  BY DEF OdInv, JobOK, OdAssumption
<1>2. ASSUME Poll
      PROVE  OdInv'
  <2>1. PICK s \in {"starting", "growing"} : Transition(s)
    BY <1>2 DEF Poll
  <2>2. JobOK(job', size', cuts') /\ Steady(job, job')
    BY <1>1, <1>2, <2>1 DEF Poll, Transition, JobUnchanged, JobOK, JobType, JobStates, Steady
  <2> QED BY <1>1, <1>2, <2>2, JobMoves DEF Poll, JobUnchanged
<1>3. ASSUME Notify
      PROVE  OdInv'
  <2>1. JobOK(job', size', cuts') /\ Steady(job, job')
    BY <1>1, <1>3 DEF Notify, JobUnchanged, JobOK, JobType, Steady
  <2> QED BY <1>1, <1>3, <2>1, JobMoves DEF Notify, NotifyAll, Told, JobUnchanged
<1>4. ASSUME Publish
      PROVE  OdInv'
  <2>1. JobOK(job', size', cuts') /\ Steady(job, job')
    BY <1>1, <1>4 DEF Publish, Transition, JobUnchanged, JobOK, JobType, JobStates, Steady
  <2> QED BY <1>1, <1>4, <2>1, JobMoves DEF Publish, JobUnchanged
<1>5. ASSUME Reap \/ Fail
      PROVE  OdInv'
  <2>1. JobOK(job', size', cuts') /\ Steady(job, job')
    BY <1>1, <1>5 DEF Reap, Fail, Live, Transition, JobUnchanged, JobOK, JobType, JobStates, Steady
  <2> QED BY <1>1, <1>5, <2>1, JobMoves DEF Reap, Fail, JobUnchanged
<1>6. ASSUME Cancel
      PROVE  OdInv'
  <2>1. JobOK(job', size', cuts') /\ Steady(job, job')
    BY <1>1, <1>6 DEF Cancel, Live, JobUnchanged, JobOK, JobType, JobStates, Steady
  <2> QED BY <1>1, <1>6, <2>1, JobMoves DEF Cancel, NotifyAll, Told, JobUnchanged
<1>7. ASSUME PollGrowing
      PROVE  OdInv'
  <2>1. JobOK(job', size', cuts') /\ Steady(job, job')
    BY <1>1, <1>7 DEF PollGrowing, JobUnchanged, Steady
  <2> QED BY <1>1, <1>7, <2>1, JobMoves DEF PollGrowing, NotifyAll, Told, JobUnchanged
<1>8. ASSUME Produce
      PROVE  OdInv'
  <2>1. size' \in [1..MaxInodes -> 0..Total]
    BY <1>1, <1>8 DEF Produce
  <2>2. JobOK(job', size', cuts') /\ Steady(job, job')
    BY <1>1, <1>8, <2>1 DEF Produce, JobOK, Steady
  <2> QED BY <1>1, <1>8, <2>2, JobMoves DEF Produce
<1>9. ASSUME Truncate
      PROVE  OdInv'
  <2>1. size' \in [1..MaxInodes -> 0..Total] /\ cuts' \in Nat \ {0}
    BY <1>1, <1>9, SMTT(40) DEF Truncate
  <2>2. JobOK(job', size', cuts') /\ Steady(job, job')
    BY <1>1, <1>9, <2>1 DEF Truncate, JobOK, Steady
  <2> QED BY <1>1, <1>9, <2>1, <2>2, JobMoves DEF Truncate
<1> QED BY <1>2, <1>3, <1>4, <1>5, <1>6, <1>7, <1>8, <1>9 DEF Supervise

\* Another attempt begins where no response has a byte of this one.
LEMMA FallbackKeeps == ASSUME OdInv, OdAssumption, Fallback PROVE OdInv'
<1>1. /\ job \in JobType /\ job.file \in 1..MaxInodes /\ MaxInodes \in Nat
      /\ JobOK(job, size, cuts) /\ job.pinned = <<>>
  BY DEF OdInv, JobOK, OdAssumption, Fallback
<1>2. /\ job'.file = job.file + 1 /\ job'.pinned = <<>> /\ job'.state = "starting" /\ job' \in JobType
      /\ job.state # "complete" /\ job.file < MaxInodes
  <2> DEFINE f == job.file + 1
  <2>1. f \in Nat /\ "starting" \in JobStates
    BY <1>1 DEF JobStates
  <2>2. job' = [job EXCEPT !.state = "starting", !.file = f, !.owed = TRUE]
    BY DEF Fallback
  <2> HIDE DEF f
  <2>3. job'.file = f /\ job'.pinned = <<>> /\ job'.state = "starting" /\ job' \in JobType
    BY <1>1, <2>1, <2>2 DEF JobType
  <2> QED BY <2>3 DEF f, Fallback
<1>3. JobOK(job', size', cuts')
  BY <1>1, <1>2 DEF JobOK, Fallback
<1>4. ASSUME NEW r \in OdClients
      PROVE  RespOK(r, rd[r], job', arch, cuts)
  <2>1. RespOK(r, rd[r], job, arch, cuts)
    BY DEF OdInv
  <2>2. rd[r].pc \notin Ready \cup Sent
    BY <1>1, <2>1 DEF RespOK
  <2> QED BY <1>2, <2>1, <2>2 DEF RespOK
<1> QED BY <1>3, <1>4 DEF Fallback, OdInv

\* The next job begins where nothing is being answered.
LEMMA ReplaceKeeps == ASSUME OdInv, OdAssumption, NEW b \in BOOLEAN, Replace(b) PROVE OdInv'
<1>1. /\ job \in JobType /\ job.file \in 1..MaxInodes /\ MaxInodes \in Nat
      /\ JobOK(job, size, cuts)
  BY DEF OdInv, JobOK, OdAssumption
<1>2. JobOK(job', size', cuts')
  <2>1. ASSUME job' = [job EXCEPT !.pinned = <<>>]
        PROVE  JobOK(job', size', cuts')
    BY <1>1, <2>1 DEF JobOK, JobType, Maybe, Replace
  <2>2. ASSUME job.file < MaxInodes,
               job' = [state |-> "starting", flag |-> FALSE, owed |-> FALSE, pinned |-> <<>>,
                       file |-> job.file + 1]
        PROVE  JobOK(job', size', cuts')
    <3> DEFINE f == job.file + 1
    <3>1. f \in 1..MaxInodes /\ f \in Nat
      BY <1>1, <2>2
    <3>2. job' = [state |-> "starting", flag |-> FALSE, owed |-> FALSE, pinned |-> <<>>, file |-> f]
      BY <2>2
    <3> HIDE DEF f
    <3>3. job' \in JobType
      BY <3>1, <3>2, Zenon DEF JobType, JobStates, Maybe
    <3>4. job'.file = f /\ job'.pinned = <<>> /\ job'.state = "starting"
      BY <3>2
    <3> QED BY <1>1, <3>1, <3>3, <3>4 DEF JobOK, Replace
  <2> QED BY <2>1, <2>2 DEF Replace
<1>3. ASSUME NEW r \in OdClients
      PROVE  RespOK(r, rd[r], job', arch, cuts)
  <2>1. RespOK(r, rd[r], job, arch, cuts) /\ rd[r].pc = "idle"
    BY DEF OdInv, Replace
  <2> QED BY <2>1 DEF RespOK, Ready, Sent, Streaming, Asking
<1> QED BY <1>2, <1>3 DEF Replace, OdInv

-----------------------------------------------------------------------------
(* The steps of a response.                                                *)

LEMMA Facts ==
  ASSUME OdInv, OdAssumption, NEW r \in OdClients
  PROVE  /\ RespOK(r, rd[r], job, arch, cuts) /\ rd[r] \in Responses
         /\ JobOK(job, size, cuts) /\ job \in JobType /\ job.file \in Nat
         /\ job.pinned \in {<<>>, <<job.file>>} /\ CurrentFile = job.file
         /\ current_len = size[job.file] /\ current_len \in Nat
         /\ job.state = "complete" /\ cuts = 0 => current_len = Total
         /\ rd \in [OdClients -> Responses] /\ cuts \in Nat /\ asks \in Nat /\ Total \in Nat
<1>1. JobOK(job, size, cuts) /\ Total \in Nat
  BY DEF OdInv, OdAssumption
<1>2. job.file \in 1..MaxInodes /\ job.file \in Nat /\ job \in JobType /\ size[job.file] \in Nat
  BY <1>1 DEF JobOK, JobType
<1>3. job.pinned \in {<<>>, <<job.file>>} /\ CurrentFile = job.file
  <2> DEFINE p == job.pinned
             f == job.file
  <2>1. p # <<>> => p = <<f>>
    BY <1>1 DEF JobOK
  <2>2. CurrentFile = IF p # <<>> THEN p[1] ELSE f
    BY DEF CurrentFile
  <2> HIDE DEF p, f
  <2>3. <<f>>[1] = f
    OBVIOUS
  <2>4. p \in {<<>>, <<f>>} /\ CurrentFile = f
    BY <2>1, <2>2, <2>3, Zenon
  <2> QED BY <2>4 DEF p, f
<1>4. current_len = size[job.file] /\ current_len \in Nat
  BY <1>2, <1>3 DEF current_len
<1>5. job.state = "complete" /\ cuts = 0 => current_len = Total
  BY <1>1, <1>4 DEF JobOK
<1>6. RespOK(r, rd[r], job, arch, cuts) /\ rd \in [OdClients -> Responses] /\ cuts \in Nat /\ asks \in Nat
  BY DEF OdInv
<1>7. rd[r] \in Responses
  BY <1>6
<1> QED BY <1>1, <1>2, <1>3, <1>4, <1>5, <1>6, <1>7

\* The job as it was, or with its file pinned.
Pinning == UNCHANGED job \/ job' = [job EXCEPT !.pinned = <<job.file>>]

LEMMA PinningOK ==
  ASSUME OdInv, OdAssumption, Pinning, UNCHANGED <<size, cuts>>
  PROVE  /\ Steady(job, job') /\ JobOK(job', size', cuts')
         /\ job'.file = job.file /\ job'.state = job.state
         /\ job' # job => job'.pinned = <<job'.file>>
<1>1. JobOK(job, size, cuts) /\ job \in JobType
  BY DEF OdInv, JobOK
<1>2. job.file \in Nat /\ <<job.file>> \in Maybe
  BY <1>1 DEF JobType, Maybe
<1>3. CASE UNCHANGED job
  BY <1>1, <1>3 DEF Steady
<1>4. CASE job' = [job EXCEPT !.pinned = <<job.file>>]
  <2> DEFINE p == <<job.file>>
  <2>1. p \in Maybe /\ job' = [job EXCEPT !.pinned = p]
    BY <1>2, <1>4
  <2> HIDE DEF p
  <2>2. /\ job' \in JobType /\ job'.file = job.file /\ job'.state = job.state /\ job'.pinned = p
    BY <1>1, <2>1 DEF JobType
  <2>3. p = <<job'.file>>
    BY <2>2 DEF p
  <2> QED BY <1>1, <2>2, <2>3 DEF JobOK, Steady
<1> QED BY <1>3, <1>4 DEF Pinning

LEMMA GoOK ==
  ASSUME OdInv, OdAssumption, NEW r \in OdClients, NEW k2, Go(r, k2), Pinning,
         rd[r].pc # "idle", RespOK(r, k2, job', arch, cuts)
  PROVE  OdInv'
<1>1. /\ rd' = [rd EXCEPT ![r] = k2] /\ arch' = arch /\ cuts' = cuts /\ asks' = asks /\ size' = size
  BY DEF Go
<1>2. Steady(job, job') /\ JobOK(job', size', cuts') /\ asks' \in Nat
  BY <1>1, PinningOK, Facts
<1>3. ArchOK(arch, IF r = Downloader THEN k2 ELSE rd[Downloader], cuts)
  BY DEF OdInv, ArchOK
<1>4. RespOK(r, k2, job', arch', cuts) /\ ArchOK(arch', IF r = Downloader THEN k2 ELSE rd[Downloader], cuts)
  BY <1>1, <1>3
<1> QED BY <1>1, <1>2, <1>4, OneResponse

LEMMA EndStep ==
  ASSUME OdInv, OdAssumption, NEW r \in OdClients, NEW out \in Outs, End(r, out), UNCHANGED job,
         rd[r].pc # "idle",
         out = "whole" => IF rd[r].upto # <<>> THEN rd[r].pos = rd[r].upto[1]
                          ELSE job.state = "complete" /\ (cuts = 0 => rd[r].pos = Total)
  PROVE  OdInv'
<1>1. Go(r, Ending(rd[r], out))
  BY DEF End, Ending
<1>2. RespOK(r, Ending(rd[r], out), job', arch, cuts)
  BY Facts, EndOK
<1> QED BY <1>1, <1>2, GoOK DEF Pinning

\* A step before the headers that moves the control part only.
LEMMA AskingStep ==
  ASSUME OdInv, OdAssumption, NEW r \in OdClients, NEW k2, Go(r, k2), Pinning,
         rd[r].pc \in Asking, Like(k2, rd[r]), k2.pc \in Asking, k2.out # "whole",
         k2.pc = "fin" \/ k2.st \in {"resume", "complete"} => job.state = "complete",
         k2.pc \in Ready => job'.pinned = <<job'.file>>,
         k2.pc \in {"flag", "meta", "resumable"} => rd[r].req.kind = "progressive",
         k2.pc = "range" => rd[r].req.kind # "progressive"
  PROVE  OdInv'
<1>1. UNCHANGED <<size, cuts>>
  BY DEF Go
<1>2. RespOK(r, rd[r], job, arch, cuts) /\ rd[r].pc # "idle"
  BY Facts DEF Asking, Ready
<1>3. RespOK(r, rd[r], job', arch, cuts) /\ job'.state = job.state
  BY <1>1, <1>2, PinningOK, SteadyOK
<1>4. RespOK(r, k2, job', arch, cuts)
  BY <1>3, AskingMove
<1> QED BY <1>2, <1>4, GoOK

\* A request past readiness stays pinned, whatever it does next.
LEMMA AskingFacts ==
  ASSUME OdInv, OdAssumption, NEW r \in OdClients, rd[r].pc \in Asking
  PROVE  /\ AskedOK(r, rd[r], arch) /\ rd[r].out # "whole" /\ rd[r].out \in Outs
         /\ rd[r].pc \in Ready => job.pinned = <<job.file>>
         /\ rd[r].st \in {"resume", "complete"} \/ rd[r].pc = "fin" => job.state = "complete"
         /\ rd[r].req \in Reqs /\ rd[r].req.start \in Nat /\ rd[r].req.last \in Maybe
<1>1. RespOK(r, rd[r], job, arch, cuts) /\ rd[r] \in Responses
  BY Facts
<1>2. rd[r].pc # "done" /\ AskedOK(r, rd[r], arch)
  BY <1>1 DEF Asking, Ready, RespOK
<1> QED BY <1>1, <1>2 DEF RespOK, Responses, AskedOK, Reqs

\* An EXCEPT of the control fields.
LEMMA ControlFields ==
  ASSUME NEW k \in Responses, NEW pc \in PCs, NEW st \in JobStates \cup {"none", "resume"},
         NEW note \in BOOLEAN, NEW out \in Outs, NEW need \in Nat, NEW k2,
         k2 = [k EXCEPT !.note = note, !.out = out, !.st = st, !.need = need, !.pc = pc]
  PROVE  Like(k2, k) /\ k2.pc = pc /\ k2.st = st /\ k2.out = out /\ k2.need = need /\ k2.fd = k.fd
<1> QED BY DEF Responses, Like

LEMMA WaitReadyKeeps ==
  ASSUME OdInv, OdAssumption, NEW r \in OdClients, WaitReady(r)
  PROVE  OdInv'
<1> DEFINE k == rd[r]
           out == IF job.state \in {"failed", "cancelled"} THEN job.state ELSE k.out
           pc == IF job.state \in {"complete", "growing"} THEN "pin"
                 ELSE IF job.state \in {"failed", "cancelled"} THEN "refused"
                 ELSE IF job.state = "preprocessing" THEN "patient" ELSE "soon"
           k2 == [k EXCEPT !.note = FALSE, !.out = out, !.pc = pc]
<1>1. rd[r].pc \in Asking /\ UNCHANGED job /\ Go(r, k2)
  BY DEF WaitReady, Asking
<1>2. pc \in Asking \ Ready /\ pc \in PCs /\ pc \notin {"resumable", "fin", "flag", "meta", "range"}
  BY DEF Asking, Ready, PCs
<1>3. out \in Outs /\ out # "whole" /\ k \in Responses
  BY <1>1, AskingFacts, Facts DEF Outs
<1>4. k.st \in {"resume", "complete"} => job.state = "complete"
  BY <1>1, AskingFacts
<1> HIDE DEF pc, out, k
<1>5. Like(k2, k) /\ k2.pc = pc /\ k2.st = k.st /\ k2.out = out
  BY <1>2, <1>3 DEF Responses, Like
<1> QED BY <1>1, <1>2, <1>3, <1>4, <1>5, AskingStep DEF Pinning, k

LEMMA TimeoutKeeps ==
  ASSUME OdInv, OdAssumption, NEW r \in OdClients, Timeout(r)
  PROVE  OdInv'
<1> DEFINE k == rd[r]
           pc == IF k.pc = "more" /\ k.req.kind = "progressive" THEN "flag" ELSE "refused"
           k2 == [k EXCEPT !.out = "timeout", !.pc = pc]
<1>1. rd[r].pc \in Asking /\ UNCHANGED job /\ Go(r, k2)
  BY DEF Timeout, Asking, Ready
<1>2. pc \in Asking /\ pc \in PCs /\ pc \in {"flag", "refused"}
  BY DEF Asking, Ready, PCs
<1>3. /\ pc \in Ready => k.pc = "more" /\ k.req.kind = "progressive"
      /\ k.pc = "more" => job.pinned = <<job.file>>
      /\ k \in Responses /\ (k.st \in {"resume", "complete"} => job.state = "complete")
  BY <1>1, AskingFacts, Facts DEF Ready
<1> HIDE DEF pc, k
<1>4. Like(k2, k) /\ k2.pc = pc /\ k2.st = k.st /\ k2.out = "timeout"
  BY <1>2, <1>3 DEF Responses, Like, Outs
<1>5. pc \in Ready => job'.pinned = <<job'.file>>
  BY <1>1, <1>3
<1>6. pc = "flag" => k.req.kind = "progressive"
  BY <1>3 DEF Ready
<1> QED BY <1>1, <1>2, <1>3, <1>4, <1>5, <1>6, AskingStep DEF Pinning, k

LEMMA PinKeeps ==
  ASSUME OdInv, OdAssumption, NEW r \in OdClients, pin_ready_output(r)
  PROVE  OdInv'
<1> DEFINE k == rd[r]
           usable == job.state \in {"growing", "complete"} /\ ~job.flag
           ready == usable /\ current_len >= FIRST_BYTES
           out == IF job.flag \/ job.state \in {"failed", "cancelled"} THEN "cancelled" ELSE k.out
           pc == IF ready THEN (IF k.st = "resume" THEN "fin" ELSE "route")
                 ELSE IF usable \/ (Live /\ ~job.flag) THEN "soon" ELSE "refused"
           k2 == [k EXCEPT !.out = out, !.pc = pc]
<1>1. rd[r].pc \in Asking /\ Go(r, k2) /\ k.pc = "pin"
  BY DEF pin_ready_output, Asking
<1>2. IF ready THEN job' = [job EXCEPT !.pinned = <<job.file>>] ELSE UNCHANGED job
  BY Facts DEF pin_ready_output, Pinned
<1>3. Pinning
  BY <1>2 DEF Pinning
<1>4. UNCHANGED <<size, cuts>> /\ job \in JobType
  BY <1>1, Facts DEF Go
<1>5. ready => job'.pinned = <<job'.file>>
  BY <1>2, <1>4 DEF JobType
<1>6. out \in Outs /\ out # "whole" /\ k \in Responses
  BY <1>1, AskingFacts, Facts DEF Outs
<1>7. pc \in Asking /\ pc \in PCs /\ pc \in {"fin", "route", "soon", "refused"}
  BY DEF Asking, Ready, PCs
<1>8. (k.st \in {"resume", "complete"} => job.state = "complete") /\ (pc = "fin" => k.st = "resume")
  BY <1>1, AskingFacts
<1>9. pc \in Ready => ready
  BY DEF Ready
<1> HIDE DEF pc, out, ready, usable, k
<1>10. Like(k2, k) /\ k2.pc = pc /\ k2.st = k.st /\ k2.out = out
  BY <1>6, <1>7 DEF Responses, Like
<1> QED BY <1>1, <1>3, <1>5, <1>6, <1>7, <1>8, <1>9, <1>10, AskingStep DEF k

LEMMA RefusedKeeps ==
  ASSUME OdInv, OdAssumption, NEW r \in OdClients, Refused(r)
  PROVE  OdInv'
<1>1. rd[r].pc = "refused" /\ rd[r].pc \in Asking /\ rd[r].pc # "idle" /\ UNCHANGED job
  BY DEF Refused, Asking
<1>2. ASSUME End(r, "refused")
      PROVE  OdInv'
  BY <1>1, <1>2, EndStep DEF Outs
<1>3. ASSUME rd[r].req.kind = "progressive", Go(r, [rd[r] EXCEPT !.pc = "resumable"])
      PROVE  OdInv'
  <2> DEFINE k == rd[r]
             k2 == [k EXCEPT !.pc = "resumable"]
  <2>1. k \in Responses /\ k.out # "whole" /\ (k.st \in {"resume", "complete"} => job.state = "complete")
    BY <1>1, AskingFacts, Facts
  <2>2. Go(r, k2) /\ "resumable" \in PCs /\ "resumable" \in Asking /\ "resumable" \notin Ready
    BY <1>3 DEF PCs, Asking, Ready
  <2> HIDE DEF k
  <2>3. Like(k2, k) /\ k2.pc = "resumable" /\ k2.st = k.st /\ k2.out = k.out
    BY <2>1, <2>2 DEF Responses, Like
  <2> QED BY <1>1, <1>3, <2>1, <2>2, <2>3, AskingStep DEF Pinning, k
<1> QED BY <1>2, <1>3 DEF Refused

LEMMA ResumableKeeps ==
  ASSUME OdInv, OdAssumption, NEW r \in OdClients, serve_resumable_download(r)
  PROVE  OdInv'
<1>1. rd[r].pc = "resumable" /\ rd[r].pc \in Asking /\ rd[r].pc # "idle" /\ UNCHANGED job
  BY DEF serve_resumable_download, Asking
<1>2. ASSUME End(r, "refused")
      PROVE  OdInv'
  BY <1>1, <1>2, EndStep DEF Outs
<1>3. ASSUME job.state = "complete", Go(r, [rd[r] EXCEPT !.pc = "pin", !.st = "resume"])
      PROVE  OdInv'
  <2> DEFINE k == rd[r]
             k2 == [k EXCEPT !.pc = "pin", !.st = "resume"]
  <2>1. k \in Responses /\ k.out # "whole"
    BY <1>1, AskingFacts, Facts
  <2>2. Go(r, k2) /\ "pin" \in PCs /\ "pin" \in Asking /\ "pin" \notin Ready
    BY <1>3 DEF PCs, Asking, Ready
  <2> HIDE DEF k
  <2>3. Like(k2, k) /\ k2.pc = "pin" /\ k2.st = "resume" /\ k2.out = k.out
    BY <2>1, <2>2 DEF Responses, Like
  <2> QED BY <1>1, <1>3, <2>1, <2>2, <2>3, AskingStep DEF Pinning, k
<1> QED BY <1>2, <1>3 DEF serve_resumable_download

\* Past readiness, a promise is a range of the pinned file.
LEMMA PromiseStep ==
  ASSUME OdInv, OdAssumption, NEW r \in OdClients, NEW start \in Nat, NEW upto \in Maybe,
         rd[r].pc \in Ready, UNCHANGED job, Go(r, Promise(r, start, upto, CurrentFile)),
         upto # <<>> => start <= upto[1],
         r = Downloader => Len(arch.data) = start /\ arch.tag \in Tags /\ arch.tag[2] = job.file
  PROVE  OdInv'
<1> DEFINE k2 == Promise(r, start, upto, CurrentFile)
           of == CurrentFile
<1>1. of = job.file /\ of \in Nat /\ rd[r].pc \in Asking /\ rd[r].pc # "idle"
  BY Facts DEF Ready, Asking
<1>2. job.pinned = <<job.file>>
  BY <1>1, AskingFacts
<1> HIDE DEF of
<1>3. RespOK(r, Promise(r, start, upto, of), job, arch, cuts)
  BY <1>1, <1>2, PromiseOK
<1>4. RespOK(r, Promise(r, start, upto, CurrentFile), job', arch, cuts)
  BY <1>3 DEF of
<1> QED BY <1>1, <1>4, GoOK DEF Pinning

LEMMA RouteKeeps ==
  ASSUME OdInv, OdAssumption, NEW r \in OdClients, Route(r)
  PROVE  OdInv'
<1>1. rd[r].pc = "route" /\ rd[r].pc \in Ready /\ rd[r].pc \in Asking /\ UNCHANGED job
  BY DEF Route, Asking, Ready
<1>2. /\ rd[r] \in Responses /\ rd[r].out # "whole" /\ job.pinned = <<job.file>>
      /\ rd[r].st \in {"resume", "complete"} => job.state = "complete"
      /\ rd[r].req.start \in Nat /\ rd[r].req.last \in Maybe /\ AskedOK(r, rd[r], arch)
  BY <1>1, AskingFacts, Facts
<1>3. ASSUME job.state = "complete", Go(r, [rd[r] EXCEPT !.pc = "fin"])
      PROVE  OdInv'
  <2> DEFINE k == rd[r]
             k2 == [k EXCEPT !.pc = "fin"]
  <2>1. k \in Responses /\ k.out # "whole" /\ Go(r, k2) /\ "fin" \in PCs /\ "fin" \in Asking
    BY <1>2, <1>3 DEF PCs, Asking, Ready
  <2> HIDE DEF k
  <2>2. Like(k2, k) /\ k2.pc = "fin" /\ k2.st = k.st /\ k2.out = k.out
    BY <2>1 DEF Responses, Like
  <2>3. job'.pinned = <<job'.file>>
    BY <1>1, <1>2
  <2> QED BY <1>1, <1>3, <2>1, <2>2, <2>3, AskingStep DEF Pinning, k
<1>4. ASSUME rd[r].req.kind = "plain", Go(r, Promise(r, 0, <<>>, CurrentFile))
      PROVE  OdInv'
  <2>1. r # Downloader
    BY <1>2, <1>4 DEF AskedOK
  <2>2. <<>> \in Maybe
    BY DEF Maybe
  <2> QED BY <1>1, <1>4, <2>1, <2>2, PromiseStep
<1>5. ASSUME NEW need \in Nat, Go(r, [rd[r] EXCEPT !.pc = "offset", !.need = need])
      PROVE  OdInv'
  <2> DEFINE k == rd[r]
             k2 == [k EXCEPT !.pc = "offset", !.need = need]
  <2>1. k \in Responses /\ k.out # "whole" /\ Go(r, k2) /\ "offset" \in PCs /\ "offset" \in Asking
    BY <1>2, <1>5 DEF PCs, Asking, Ready
  <2>2. k.st \in {"resume", "complete"} => job.state = "complete"
    BY <1>2
  <2> HIDE DEF k
  <2>3. Like(k2, k) /\ k2.pc = "offset" /\ k2.st = k.st /\ k2.out = k.out
    BY <2>1 DEF Responses, Like
  <2>4. job'.pinned = <<job'.file>>
    BY <1>1, <1>2
  <2> QED BY <1>1, <2>1, <2>2, <2>3, <2>4, AskingStep DEF Pinning, k
<1>6. (IF rd[r].req.kind # "progressive" /\ rd[r].req.last # <<>> THEN rd[r].req.last[1]
       ELSE rd[r].req.start + 1) \in Nat
  BY <1>2 DEF Maybe
<1> DEFINE need == IF rd[r].req.kind # "progressive" /\ rd[r].req.last # <<>> THEN rd[r].req.last[1]
                   ELSE rd[r].req.start + 1
<1>7. \/ job.state = "complete" /\ Go(r, [rd[r] EXCEPT !.pc = "fin"])
      \/ rd[r].req.kind = "plain" /\ Go(r, Promise(r, 0, <<>>, CurrentFile))
      \/ Go(r, [rd[r] EXCEPT !.pc = "offset", !.need = need])
  BY Zenon DEF Route
<1>8. need \in Nat
  BY <1>6
<1> HIDE DEF need
<1> QED BY <1>3, <1>4, <1>5, <1>7, <1>8

LEMMA OffsetKeeps ==
  ASSUME OdInv, OdAssumption, NEW r \in OdClients, WaitOffset(r)
  PROVE  OdInv'
<1> DEFINE k == rd[r]
           st == job.state
           pc == IF job.state \notin {"failed", "cancelled"} THEN "measure"
                 ELSE IF k.req.kind = "progressive" THEN "flag" ELSE "refused"
           k2 == [k EXCEPT !.note = FALSE, !.st = st, !.pc = pc]
<1>1. rd[r].pc \in Asking /\ rd[r].pc \in Ready /\ UNCHANGED job /\ Go(r, k2)
  BY DEF WaitOffset, Asking, Ready
<1>2. pc \in Asking /\ pc \in PCs /\ pc \in {"measure", "flag", "refused"}
  BY DEF Asking, Ready, PCs
<1>3. /\ pc = "flag" => k.req.kind = "progressive"
      /\ k \in Responses /\ k.out # "whole" /\ job.pinned = <<job.file>>
  BY <1>1, AskingFacts, Facts
<1>4. st \in JobStates
  BY Facts DEF JobType
<1>5. st \in {"resume", "complete"} => job.state = "complete"
  BY <1>4 DEF JobStates
<1> HIDE DEF pc, k, st
<1>6. Like(k2, k) /\ k2.pc = pc /\ k2.st = st /\ k2.out = k.out
  BY <1>2, <1>3, <1>4 DEF Responses, Like
<1>7. job'.pinned = <<job'.file>>
  BY <1>1, <1>3
<1> QED BY <1>1, <1>2, <1>3, <1>5, <1>6, <1>7, AskingStep DEF Pinning, k

LEMMA MeasureKeeps ==
  ASSUME OdInv, OdAssumption, NEW r \in OdClients, Measure(r)
  PROVE  OdInv'
<1> DEFINE k == rd[r]
           pc == IF current_len < k.need /\ ~(k.st = "complete" /\ current_len > 0) THEN "more"
                 ELSE IF k.req.kind = "progressive" THEN "flag" ELSE "range"
           k2 == [k EXCEPT !.pc = pc]
<1>1. rd[r].pc \in Asking /\ rd[r].pc \in Ready /\ UNCHANGED job /\ Go(r, k2)
  BY DEF Measure, Asking, Ready
<1>2. pc \in Asking /\ pc \in PCs /\ pc \in {"more", "flag", "range"}
  BY DEF Asking, Ready, PCs
<1>3. /\ pc = "flag" => k.req.kind = "progressive"
      /\ pc = "range" => k.req.kind # "progressive"
      /\ k \in Responses /\ k.out # "whole" /\ job.pinned = <<job.file>>
      /\ k.st \in {"resume", "complete"} => job.state = "complete"
  BY <1>1, AskingFacts, Facts
<1> HIDE DEF pc, k
<1>6. Like(k2, k) /\ k2.pc = pc /\ k2.st = k.st /\ k2.out = k.out
  BY <1>2, <1>3 DEF Responses, Like
<1>7. job'.pinned = <<job'.file>>
  BY <1>1, <1>3
<1> QED BY <1>1, <1>2, <1>3, <1>6, <1>7, AskingStep DEF Pinning, k

LEMMA ReadFlagKeeps ==
  ASSUME OdInv, OdAssumption, NEW r \in OdClients, ReadFlag(r)
  PROVE  OdInv'
<1> DEFINE k == rd[r]
           st == IF job.state = "complete" THEN "complete" ELSE "none"
           k2 == [k EXCEPT !.pc = "meta", !.st = st]
<1>1. rd[r].pc \in Asking /\ rd[r].pc \in Ready /\ rd[r].pc = "flag" /\ UNCHANGED job /\ Go(r, k2)
  BY DEF ReadFlag, Asking, Ready
<1>2. "meta" \in Asking /\ "meta" \in PCs /\ st \in JobStates \cup {"none", "resume"}
  BY DEF Asking, Ready, PCs, JobStates
<1>3. /\ k.req.kind = "progressive" /\ k \in Responses /\ k.out # "whole" /\ job.pinned = <<job.file>>
      /\ st \in {"resume", "complete"} => job.state = "complete"
  BY <1>1, AskingFacts, Facts DEF AskedOK
<1> HIDE DEF k, st
<1>6. Like(k2, k) /\ k2.pc = "meta" /\ k2.st = st /\ k2.out = k.out
  BY <1>2, <1>3 DEF Responses, Like
<1>7. job'.pinned = <<job'.file>>
  BY <1>1, <1>3
<1> QED BY <1>1, <1>2, <1>3, <1>6, <1>7, AskingStep DEF Pinning, k

\* The range of a resource, and of a growing output.
LEMMA RangeKeeps ==
  ASSUME OdInv, OdAssumption, NEW r \in OdClients, PromiseRange(r)
  PROVE  OdInv'
<1> DEFINE start == rd[r].req.start
           last == rd[r].req.last
           have == current_len
           end == IF last # <<>> /\ last[1] < have THEN last[1] ELSE have
<1>1. rd[r].pc = "range" /\ rd[r].pc \in Ready /\ rd[r].pc \in Asking /\ rd[r].pc # "idle" /\ UNCHANGED job
  BY DEF PromiseRange, Asking, Ready
<1>2. /\ start \in Nat /\ last \in Maybe /\ have \in Nat /\ AskedOK(r, rd[r], arch)
      /\ rd[r].req.kind = "resource" => last # <<>>
  BY <1>1, AskingFacts, Facts DEF AskedOK
<1>3. r # Downloader /\ (last # <<>> => start <= last[1])
  BY <1>1, <1>2 DEF AskedOK, OdClients
<1>4. ASSUME End(r, "refused")
      PROVE  OdInv'
  BY <1>1, <1>4, EndStep DEF Outs
<1>5. ASSUME rd[r].req.kind = "resource", Go(r, Promise(r, start, last, CurrentFile))
      PROVE  OdInv'
  BY <1>1, <1>2, <1>3, <1>5, PromiseStep
<1>6. ASSUME start < have, Go(r, Promise(r, start, <<end>>, CurrentFile))
      PROVE  OdInv'
  <2>1. last # <<>> => last[1] \in Nat
    BY <1>2 DEF Maybe
  <2>2. end \in Nat /\ start <= end
    BY <1>2, <1>3, <1>6, <2>1
  <2> DEFINE upto == <<end>>
  <2> HIDE DEF end
  <2>3. upto \in Maybe /\ upto[1] = end
    BY <2>2 DEF Maybe
  <2>4. Go(r, Promise(r, start, upto, CurrentFile))
    BY <1>6
  <2> HIDE DEF upto, start
  <2> QED BY <1>1, <1>2, <1>3, <2>2, <2>3, <2>4, PromiseStep
<1>7. \/ End(r, "refused")
      \/ rd[r].req.kind = "resource" /\ Go(r, Promise(r, start, last, CurrentFile))
      \/ ~(start >= have) /\ Go(r, Promise(r, start, <<end>>, CurrentFile))
  BY Zenon DEF PromiseRange
<1>8. ~(start >= have) => start < have
  BY <1>2
<1> QED BY <1>4, <1>5, <1>6, <1>7, <1>8

\* A range joins the archive of the downloader when it is of the same output.
LEMMA ArchJoins ==
  ASSUME NEW a, NEW a2, NEW d, NEW d2, NEW c, NEW t \in Tags, ArchOK(a, d, c), ~a.whole,
         a2 \in [data : Seq(Nat), tag : Tags \cup {<<>>}, total : Maybe, whole : BOOLEAN],
         ~a2.whole, a2.tag = t, c = 0 /\ a2.total # <<>> => a2.total = <<Total>>,
         a2.data = <<>> \/ (a2.data = a.data /\ a.tag = t)
  PROVE  ArchOK(a2, d2, c)
<1> QED BY DEF ArchOK

\* The archive grows by the downloader's response only.
LEMMA ArchStep ==
  ASSUME OdInv, OdAssumption, NEW r \in OdClients, NEW k2, rd' = [rd EXCEPT ![r] = k2],
         rd[r].pc # "idle", UNCHANGED <<job, size, cuts, asks>>,
         RespOK(r, k2, job, arch', cuts),
         IF r = Downloader THEN ArchOK(arch', k2, cuts) ELSE arch' = arch
  PROVE  OdInv'
<1>1. Steady(job, job') /\ JobOK(job', size', cuts') /\ asks' \in Nat /\ cuts' = cuts
  BY PinningOK, Facts DEF Pinning
<1>2. ArchOK(arch', IF r = Downloader THEN k2 ELSE rd[Downloader], cuts)
  BY DEF OdInv
<1>3. RespOK(r, k2, job', arch', cuts)
  OBVIOUS
<1> QED BY <1>1, <1>2, <1>3, OneResponse

\* The downloader's archive while it is asking for more of it.
LEMMA ArchFacts ==
  ASSUME OdInv, OdAssumption, Downloader \in OdClients, rd[Downloader].pc \in Asking
  PROVE  /\ ~arch.whole /\ ArchOK(arch, rd[Downloader], cuts) /\ arch.data \in Seq(Nat)
         /\ arch \in [data : Seq(Nat), tag : Tags \cup {<<>>}, total : Maybe, whole : BOOLEAN]
         /\ rd[Downloader].req.start = Len(arch.data) /\ rd[Downloader].req.last = <<>>
         /\ arch.data # <<>> => arch.tag \in Tags /\ rd[Downloader].tag = arch.tag
<1>1. ArchOK(arch, rd[Downloader], cuts) /\ rd[Downloader].pc # "idle"
  BY DEF OdInv, Asking, Ready
<1>2. AskedOK(Downloader, rd[Downloader], arch)
  BY AskingFacts
<1> QED BY <1>1, <1>2 DEF ArchOK, AskedOK

LEMMA TagFacts == \A f \in Nat, s \in {"file", "completed"} :
                    <<s, f>> \in Tags /\ <<s, f>>[2] = f /\ <<s, f>> # <<>>
<1> QED BY DEF Tags

\* A finished file: a range that was asked of another file is not a range.
LEMMA FinishedKeeps ==
  ASSUME OdInv, OdAssumption, NEW r \in OdClients, serve_finished(r)
  PROVE  OdInv'
<1> DEFINE q == rd[r].req
           f == CurrentFile
           tag == <<"completed", f>>
           ranged == (q.start > 0 \/ q.last # <<>>) /\ (rd[r].tag = <<>> \/ rd[r].tag = tag)
           have == current_len
           end == IF ranged /\ q.last # <<>> /\ q.last[1] < have THEN q.last[1] ELSE have
           start == IF ranged THEN q.start ELSE 0
           total == <<have>>
           upto == <<end>>
           k2 == Promise(r, start, upto, f)
<1>1. rd[r].pc = "fin" /\ rd[r].pc \in Ready /\ rd[r].pc \in Asking /\ rd[r].pc # "idle"
  BY DEF serve_finished, Asking, Ready
<1>2. UNCHANGED <<job, size, cuts, asks>>
  BY DEF serve_finished
<1>3. /\ q.start \in Nat /\ q.last \in Maybe /\ have \in Nat /\ AskedOK(r, rd[r], arch)
      /\ f = job.file /\ f \in Nat /\ job.pinned = <<job.file>> /\ (cuts = 0 => have = Total)
  BY <1>1, AskingFacts, Facts
<1>4. ASSUME End(r, "refused")
      PROVE  OdInv'
  BY <1>1, <1>2, <1>4, EndStep DEF Outs
<1>5. ASSUME start < have, rd' = [rd EXCEPT ![r] = k2],
             arch' = IF r # Downloader THEN arch
                     ELSE [arch EXCEPT !.tag = tag, !.total = total,
                                       !.data = IF ranged THEN @ ELSE <<>>]
      PROVE  OdInv'
  <2>1. (q.last # <<>> => q.last[1] \in Nat) /\ start \in Nat
    BY <1>3 DEF Maybe
  <2>2. r # Downloader => (q.last # <<>> => q.start <= q.last[1])
    BY <1>3 DEF AskedOK, OdClients
  <2>3. r = Downloader => q.last = <<>>
    BY <1>3 DEF AskedOK
  <2>4. end \in Nat /\ start <= end
    BY <1>3, <1>5, <2>1, <2>2, <2>3, SMTT(40)
  <2>5. upto \in Maybe /\ upto[1] = end /\ total \in Maybe
    BY <1>3, <2>4 DEF Maybe
  <2>6. CASE r # Downloader
    <3>1. arch' = arch
      BY <1>5, <2>6
    <3> HIDE DEF start, upto, f, end
    <3>2. RespOK(r, Promise(r, start, upto, f), job, arch, cuts)
      BY <1>3, <2>1, <2>4, <2>5, <2>6, PromiseOK
    <3>3. RespOK(r, k2, job, arch', cuts)
      BY <3>1, <3>2
    <3> HIDE DEF k2
    <3> QED BY <1>1, <1>2, <1>5, <2>6, <3>1, <3>3, ArchStep
  <2>7. CASE r = Downloader
    <3> DEFINE data == IF ranged THEN arch.data ELSE <<>>
    <3>1. arch' = [arch EXCEPT !.tag = tag, !.total = total, !.data = data]
      BY <1>5, <2>7
    <3>2. /\ ~arch.whole /\ ArchOK(arch, rd[Downloader], cuts) /\ arch.data \in Seq(Nat)
          /\ arch \in [data : Seq(Nat), tag : Tags \cup {<<>>}, total : Maybe, whole : BOOLEAN]
          /\ q.start = Len(arch.data) /\ q.last = <<>>
          /\ arch.data # <<>> => arch.tag \in Tags /\ rd[r].tag = arch.tag
      BY <1>1, <2>7, ArchFacts
    <3>3. tag \in Tags /\ tag[2] = f /\ tag # <<>> /\ <<>> \notin Tags
      BY <1>3, TagFacts DEF Tags
    <3>4. arch.data = <<>> => ~ranged
      BY <3>2
    <3>5. ranged => arch.tag = tag
      BY <3>2, <3>3, <3>4
    <3>6. data \in Seq(Nat) /\ Len(data) = start /\ (data = <<>> \/ (data = arch.data /\ arch.tag = tag))
      BY <3>2, <3>5
    <3>7. cuts = 0 => total = <<Total>>
      BY <1>3
    <3> HIDE DEF start, upto, f, end, data, ranged, tag, total
    <3>8. /\ arch'.data = data /\ arch'.tag = tag /\ arch'.total = total /\ ~arch'.whole
          /\ arch' \in [data : Seq(Nat), tag : Tags \cup {<<>>}, total : Maybe, whole : BOOLEAN]
      BY <2>5, <3>1, <3>2, <3>3, <3>6
    <3>9. /\ Len(arch'.data) = start /\ arch'.tag \in Tags /\ arch'.tag[2] = job.file
      BY <1>3, <3>3, <3>6, <3>8
    <3>10. RespOK(r, Promise(r, start, upto, f), job, arch', cuts)
      BY <1>3, <2>1, <2>4, <2>5, <3>9, PromiseOK
    <3> HIDE DEF k2
    <3>11. ArchOK(arch', k2, cuts)
      BY <3>2, <3>3, <3>6, <3>7, <3>8, ArchJoins
    <3>12. RespOK(r, k2, job, arch', cuts)
      BY <3>10 DEF k2
    <3> QED BY <1>1, <1>2, <1>5, <2>7, <3>11, <3>12, ArchStep
  <2> QED BY <2>6, <2>7
<1>6. \/ End(r, "refused")
      \/ /\ ~(start >= have) /\ rd' = [rd EXCEPT ![r] = k2]
         /\ arch' = IF r # Downloader THEN arch
                    ELSE [arch EXCEPT !.tag = tag, !.total = total,
                                      !.data = IF ranged THEN @ ELSE <<>>]
  BY Zenon DEF serve_finished
<1>7. start \in Nat
  BY <1>3
<1>8. ~(start >= have) => start < have
  BY <1>3, <1>7, SMTT(40)
<1> QED BY <1>4, <1>5, <1>6, <1>8

\* A refused range, which closes at once.
LEMMA RefusedOK ==
  \A r, j, a, c : RespOK(r, [Idle EXCEPT !.pc = "done", !.out = "refused"], j, a, c)
<1> DEFINE k2 == [Idle EXCEPT !.pc = "done", !.out = "refused"]
<1>1. Idle \in Responses /\ Idle.st = "none" /\ "done" \in PCs /\ "refused" \in Outs
  BY IdleOK DEF Idle, PCs, Outs
<1>2. k2 \in Responses /\ k2.pc = "done" /\ k2.out = "refused" /\ k2.st = "none"
  BY <1>1 DEF Responses
<1> HIDE DEF k2
<1>3. \A r, j, a, c : RespOK(r, k2, j, a, c)
  BY <1>2 DEF RespOK, Asking, Ready, Sent, Streaming
<1> QED BY <1>3 DEF k2

\* A range of a growing output: the length is told as final only when the
\* output was complete before it was measured.
LEMMA ProgressiveKeeps ==
  ASSUME OdInv, OdAssumption, NEW r \in OdClients, serve_progressive_download(r)
  PROVE  OdInv'
<1> DEFINE q == rd[r].req
           f == CurrentFile
           tag == <<"file", f>>
           have == current_len
           end == IF q.start + Batch < have THEN q.start + Batch ELSE have
           start == q.start
           total == IF Final(r) THEN <<have>> ELSE <<>>
           upto == <<end>>
           k2 == Promise(r, start, upto, f)
           k3 == [Idle EXCEPT !.pc = "done", !.out = "refused"]
<1>1. rd[r].pc = "meta" /\ rd[r].pc \in Ready /\ rd[r].pc \in Asking /\ rd[r].pc # "idle"
  BY DEF serve_progressive_download, Asking, Ready
<1>2. /\ q.start \in Nat /\ have \in Nat /\ AskedOK(r, rd[r], arch) /\ q.kind = "progressive"
      /\ f = job.file /\ f \in Nat /\ job.pinned = <<job.file>>
      /\ cuts = 0 /\ rd[r].st = "complete" => have = Total
      /\ rd[r] \in Responses /\ rd[r].out # "whole"
      /\ rd[r].st \in {"resume", "complete"} => job.state = "complete"
  BY <1>1, AskingFacts, Facts DEF AskedOK
<1>3. r = Downloader
  BY <1>2 DEF AskedOK, OdClients
<1>4. ASSUME End(r, "refused"), UNCHANGED job
      PROVE  OdInv'
  BY <1>1, <1>4, EndStep DEF Outs
<1>5. ASSUME Go(r, [rd[r] EXCEPT !.pc = "resumable"]), UNCHANGED job
      PROVE  OdInv'
  <2> DEFINE k == rd[r]
             n == [k EXCEPT !.pc = "resumable"]
  <2>1. k \in Responses /\ k.out # "whole" /\ (k.st \in {"resume", "complete"} => job.state = "complete")
    BY <1>2
  <2>2. Go(r, n) /\ "resumable" \in PCs /\ "resumable" \in Asking /\ "resumable" \notin Ready
    BY <1>5 DEF PCs, Asking, Ready
  <2> HIDE DEF k
  <2>3. Like(n, k) /\ n.pc = "resumable" /\ n.st = k.st /\ n.out = k.out
    BY <2>1, <2>2 DEF Responses, Like
  <2>4. rd[r].req.kind = "progressive"
    BY <1>2
  <2> HIDE DEF q, n
  <2> QED BY <1>1, <1>5, <2>1, <2>2, <2>3, <2>4, AskingStep DEF Pinning, k
<1>6. ASSUME if_range_matches(rd[r].tag, tag), UNCHANGED <<job, size, cuts, asks>>,
             arch' = [arch EXCEPT !.tag = tag, !.total = total],
             \/ rd' = [rd EXCEPT ![r] = k3]
             \/ start < have /\ rd' = [rd EXCEPT ![r] = k2]
      PROVE  OdInv'
  <2>1. /\ ~arch.whole /\ ArchOK(arch, rd[Downloader], cuts) /\ arch.data \in Seq(Nat)
        /\ arch \in [data : Seq(Nat), tag : Tags \cup {<<>>}, total : Maybe, whole : BOOLEAN]
        /\ start = Len(arch.data)
        /\ arch.data # <<>> => arch.tag \in Tags /\ rd[r].tag = arch.tag
    BY <1>1, <1>3, ArchFacts
  <2>2. tag \in Tags /\ tag[2] = f /\ tag # <<>> /\ <<>> \notin Tags
    BY <1>2, TagFacts DEF Tags
  <2>3. arch.data = <<>> \/ arch.tag = tag
    BY <1>6, <2>1, <2>2 DEF if_range_matches
  <2>4. total \in Maybe /\ (cuts = 0 /\ total # <<>> => total = <<Total>>)
    BY <1>2 DEF Final, Maybe
  <2> HIDE DEF tag, total, f
  <2>5. /\ arch'.data = arch.data /\ arch'.tag = tag /\ arch'.total = total /\ ~arch'.whole
        /\ arch' \in [data : Seq(Nat), tag : Tags \cup {<<>>}, total : Maybe, whole : BOOLEAN]
    BY <1>6, <2>1, <2>2, <2>4
  <2>6. \A d2 : ArchOK(arch', d2, cuts)
    BY <2>1, <2>2, <2>3, <2>4, <2>5, ArchJoins
  <2>7. CASE rd' = [rd EXCEPT ![r] = k3]
    <3>1. RespOK(r, k3, job, arch', cuts)
      BY RefusedOK
    <3> HIDE DEF k3
    <3> QED BY <1>1, <1>3, <1>6, <2>6, <2>7, <3>1, ArchStep
  <2>8. ASSUME start < have, rd' = [rd EXCEPT ![r] = k2]
        PROVE  OdInv'
    <3>1. Batch \in Nat
      BY DEF OdAssumption
    <3>2. end \in Nat /\ start <= end /\ start \in Nat
      BY <1>2, <2>8, <3>1, SMTT(40)
    <3>3. upto \in Maybe /\ upto[1] = end
      BY <3>2 DEF Maybe
    <3>4. /\ Len(arch'.data) = start /\ arch'.tag \in Tags /\ arch'.tag[2] = job.file
      BY <1>2, <2>1, <2>2, <2>5
    <3> HIDE DEF start, upto, end
    <3>5. RespOK(r, Promise(r, start, upto, f), job, arch', cuts)
      BY <1>2, <3>2, <3>3, <3>4, PromiseOK
    <3>6. RespOK(r, k2, job, arch', cuts)
      BY <3>5
    <3> HIDE DEF k2
    <3> QED BY <1>1, <1>3, <1>6, <2>6, <2>8, <3>6, ArchStep
  <2> QED BY <1>6, <2>7, <2>8
<1>7. \/ End(r, "refused") /\ UNCHANGED job
      \/ Go(r, [rd[r] EXCEPT !.pc = "resumable"]) /\ UNCHANGED job
      \/ /\ if_range_matches(rd[r].tag, tag) /\ UNCHANGED <<job, size, cuts, asks>>
         /\ arch' = [arch EXCEPT !.tag = tag, !.total = total]
         /\ \/ rd' = [rd EXCEPT ![r] = k3]
            \/ ~(start >= have) /\ rd' = [rd EXCEPT ![r] = k2]
  BY Zenon DEF serve_progressive_download
<1>8. ~(start >= have) => start < have
  BY <1>2
<1> QED BY <1>4, <1>5, <1>6, <1>7, <1>8

LEMMA SendingFacts ==
  ASSUME OdInv, OdAssumption, NEW r \in OdClients, rd[r].pc \in Sent
  PROVE  /\ SentOK(r, rd[r], job, arch) /\ rd[r].of = job.file /\ rd[r].pos \in Nat
         /\ rd[r].out # "whole" /\ rd[r].pc # "idle" /\ rd[r] \in Responses
         /\ job.pinned = <<job.file>> /\ (rd[r].st \in {"resume", "complete"} => job.state = "complete")
         /\ rd[r].upto \in Maybe /\ (rd[r].upto # <<>> => rd[r].upto[1] \in Nat /\ rd[r].pos <= rd[r].upto[1])
         /\ rd[r].pc \in Streaming => rd[r].fd = job.file
         /\ rd[r].pc \in Short /\ rd[r].upto # <<>> => rd[r].pos < rd[r].upto[1]
         /\ rd[r].pc = "end" /\ rd[r].st = "complete" /\ cuts = 0 => rd[r].need = Total
<1>1. RespOK(r, rd[r], job, arch, cuts) /\ rd[r] \in Responses
  BY Facts
<1>2. rd[r].pc # "done" /\ rd[r].pc # "idle"
  BY DEF Sent, Streaming
<1>3. SentOK(r, rd[r], job, arch)
  BY <1>1 DEF RespOK
<1>4. rd[r].upto \in Maybe /\ rd[r].pos \in Nat /\ (rd[r].upto # <<>> => rd[r].upto[1] \in Nat)
  BY <1>1 DEF Responses, Maybe
<1> QED BY <1>1, <1>2, <1>3, <1>4 DEF RespOK, SentOK

\* A step after the headers that moves the control part only.
LEMMA SendingStep ==
  ASSUME OdInv, OdAssumption, NEW r \in OdClients, NEW k2, Go(r, k2), Pinning,
         rd[r].pc \in Sent, Like(k2, rd[r]), k2.pc \in Streaming, k2.out # "whole",
         k2.fd = rd[r].of,
         k2.st \in {"resume", "complete"} => job.state = "complete",
         k2.pc \in Short /\ rd[r].upto # <<>> => rd[r].pos < rd[r].upto[1],
         k2.pc = "end" /\ k2.st = "complete" /\ cuts = 0 => k2.need = Total
  PROVE  OdInv'
<1>1. UNCHANGED <<size, cuts>>
  BY DEF Go
<1>2. RespOK(r, rd[r], job, arch, cuts) /\ rd[r].pc # "idle"
  BY Facts, SendingFacts
<1>3. RespOK(r, rd[r], job', arch, cuts) /\ job'.state = job.state
  BY <1>1, <1>2, PinningOK, SteadyOK
<1>4. RespOK(r, k2, job', arch, cuts)
  BY <1>3, SendingMove
<1> QED BY <1>2, <1>4, GoOK

\* The pinned descriptor, or a new one on the same attempt.
LEMMA OpenKeeps ==
  ASSUME OdInv, OdAssumption, NEW r \in OdClients, Open(r)
  PROVE  OdInv'
<1>1. rd[r].pc = "open" /\ rd[r].pc \in Sent
  BY DEF Open, Sent
<1>2. ASSUME End(r, "cut"), UNCHANGED job
      PROVE  OdInv'
  BY <1>1, <1>2, EndStep DEF Outs
<1>3. ASSUME job' = [job EXCEPT !.pinned = <<CurrentFile>>],
             Go(r, [rd[r] EXCEPT !.fd = CurrentFile, !.pc = "look"])
      PROVE  OdInv'
  <2> DEFINE k == rd[r]
             fd == CurrentFile
             k2 == [k EXCEPT !.fd = fd, !.pc = "look"]
  <2>1. fd = job.file /\ fd \in Nat /\ Go(r, k2) /\ k \in Responses /\ k.of = job.file /\ k.out # "whole"
    BY <1>1, <1>3, Facts, SendingFacts
  <2>2. Pinning
    BY <1>3, <2>1 DEF Pinning
  <2>3. "look" \in PCs /\ "look" \in Streaming /\ "look" \notin Short
    BY DEF PCs, Sent, Streaming, Short
  <2>4. k.st \in {"resume", "complete"} => job.state = "complete"
    BY <1>1, SendingFacts
  <2> HIDE DEF k, fd
  <2>5. Like(k2, k) /\ k2.pc = "look" /\ k2.st = k.st /\ k2.out = k.out /\ k2.fd = fd
    BY <2>1, <2>3 DEF Responses, Like
  <2> QED BY <1>1, <2>1, <2>2, <2>3, <2>4, <2>5, SendingStep DEF k
<1> QED BY <1>2, <1>3 DEF Open

LEMMA LookKeeps ==
  ASSUME OdInv, OdAssumption, NEW r \in OdClients, Look(r)
  PROVE  OdInv'
<1>1. rd[r].pc \in Sent /\ rd[r].pc \in Streaming /\ UNCHANGED job
  BY DEF Look, Sent, Streaming
<1>2. ASSUME End(r, "whole"), Met(r)
      PROVE  OdInv'
  <2>1. rd[r].upto # <<>> /\ rd[r].pos = rd[r].upto[1]
    BY <1>1, <1>2, SendingFacts DEF Met
  <2> QED BY <1>1, <1>2, <2>1, SendingFacts, EndStep DEF Outs
<1>3. ASSUME End(r, "cut")
      PROVE  OdInv'
  BY <1>1, <1>3, SendingFacts, EndStep DEF Outs
<1>4. ASSUME ~Met(r), Go(r, [rd[r] EXCEPT !.note = FALSE, !.st = job.state, !.pc = "read"])
      PROVE  OdInv'
  <2> DEFINE k == rd[r]
             st == job.state
             k2 == [k EXCEPT !.note = FALSE, !.st = st, !.pc = "read"]
  <2>1. /\ Go(r, k2) /\ k \in Responses /\ k.out # "whole" /\ k.fd = k.of /\ st \in JobStates
    BY <1>1, <1>4, Facts, SendingFacts DEF JobType
  <2>2. k.upto # <<>> => k.pos < k.upto[1]
    BY <1>1, <1>4, SendingFacts DEF Met
  <2>3. "read" \in PCs /\ "read" \in Streaming
    BY DEF PCs, Sent, Streaming
  <2>4. st \in {"resume", "complete"} => job.state = "complete"
    BY <2>1 DEF JobStates
  <2> HIDE DEF k, st
  <2>5. Like(k2, k) /\ k2.pc = "read" /\ k2.st = st /\ k2.out = k.out /\ k2.fd = k.fd
    BY <2>1, <2>3 DEF Responses, Like
  <2> QED BY <1>1, <2>1, <2>2, <2>3, <2>4, <2>5, SendingStep DEF k, Pinning
<1> QED BY <1>2, <1>3, <1>4 DEF Look

LEMMA ReadKeeps ==
  ASSUME OdInv, OdAssumption, NEW r \in OdClients, Read(r)
  PROVE  OdInv'
<1> DEFINE k == rd[r]
           pc == IF k.pos < size[k.fd] THEN "write" ELSE "stat"
           k2 == [k EXCEPT !.pc = pc]
<1>1. rd[r].pc \in Sent /\ rd[r].pc \in Streaming /\ rd[r].pc \in Short /\ UNCHANGED job /\ Go(r, k2)
  BY DEF Read, Sent, Streaming, Short
<1>2. k \in Responses /\ k.out # "whole" /\ k.fd = k.of /\ (k.upto # <<>> => k.pos < k.upto[1])
  BY <1>1, SendingFacts
<1>3. pc \in PCs /\ pc \in Streaming /\ pc # "end"
  BY DEF PCs, Sent, Streaming
<1>4. k.st \in {"resume", "complete"} => job.state = "complete"
  BY <1>1, SendingFacts
<1> HIDE DEF k, pc
<1>5. Like(k2, k) /\ k2.pc = pc /\ k2.st = k.st /\ k2.out = k.out /\ k2.fd = k.fd
  BY <1>2, <1>3 DEF Responses, Like
<1> QED BY <1>1, <1>2, <1>3, <1>4, <1>5, SendingStep DEF k, Pinning

LEMMA StatKeeps ==
  ASSUME OdInv, OdAssumption, NEW r \in OdClients, Stat(r)
  PROVE  OdInv'
<1> DEFINE k == rd[r]
           need == size[k.fd]
           k2 == [k EXCEPT !.need = need, !.pc = "end"]
<1>1. rd[r].pc \in Sent /\ rd[r].pc \in Streaming /\ rd[r].pc \in Short /\ UNCHANGED job /\ Go(r, k2)
  BY DEF Stat, Sent, Streaming, Short
<1>2. /\ k \in Responses /\ k.out # "whole" /\ k.fd = k.of /\ (k.upto # <<>> => k.pos < k.upto[1])
      /\ k.fd = job.file /\ (k.st \in {"resume", "complete"} => job.state = "complete")
  BY <1>1, SendingFacts
<1>3. "end" \in PCs /\ "end" \in Streaming
  BY DEF PCs, Sent, Streaming
<1>4. need \in Nat /\ (k.st = "complete" /\ cuts = 0 => need = Total)
  BY <1>2, Facts
<1> HIDE DEF k, need
<1>5. Like(k2, k) /\ k2.pc = "end" /\ k2.st = k.st /\ k2.out = k.out /\ k2.fd = k.fd /\ k2.need = need
  BY <1>2, <1>3, <1>4 DEF Responses, Like
<1> QED BY <1>1, <1>2, <1>3, <1>4, <1>5, SendingStep DEF k, Pinning

\* Nothing more to read: the response ends, or looks again.
LEMMA AtEndKeeps ==
  ASSUME OdInv, OdAssumption, NEW r \in OdClients, AtEnd(r)
  PROVE  OdInv'
<1>1. /\ rd[r].pc \in Sent /\ rd[r].pc \in Streaming /\ rd[r].pc \in Short /\ UNCHANGED job
      /\ rd[r].pc = "end"
  BY DEF AtEnd, Sent, Streaming, Short
<1>2. ASSUME End(r, "cut")
      PROVE  OdInv'
  BY <1>1, <1>2, SendingFacts, EndStep DEF Outs
<1>3. ASSUME rd[r].pos >= rd[r].need, ~Truncated(r), SawComplete(r), End(r, "whole")
      PROVE  OdInv'
  <2>1. rd[r].need \in Nat /\ rd[r].pos \in Nat
    BY Facts DEF Responses
  <2>2. rd[r].upto = <<>> /\ rd[r].pos = rd[r].need /\ rd[r].st = "complete"
    BY <1>3, <2>1 DEF Truncated, SawComplete
  <2>3. job.state = "complete" /\ (cuts = 0 => rd[r].pos = Total)
    BY <1>1, <2>2, SendingFacts
  <2> QED BY <1>1, <1>3, <2>2, <2>3, SendingFacts, EndStep DEF Outs
<1>4. ASSUME NEW pc \in {"look", "park"}, Go(r, [rd[r] EXCEPT !.pc = pc])
      PROVE  OdInv'
  <2> DEFINE k == rd[r]
             k2 == [k EXCEPT !.pc = pc]
  <2>1. /\ Go(r, k2) /\ k \in Responses /\ k.out # "whole" /\ k.fd = k.of
        /\ (k.upto # <<>> => k.pos < k.upto[1])
        /\ (k.st \in {"resume", "complete"} => job.state = "complete")
    BY <1>1, <1>4, SendingFacts
  <2>2. pc \in PCs /\ pc \in Streaming /\ pc # "end"
    BY DEF PCs, Sent, Streaming
  <2> HIDE DEF k
  <2>3. Like(k2, k) /\ k2.pc = pc /\ k2.st = k.st /\ k2.out = k.out /\ k2.fd = k.fd
    BY <2>1, <2>2 DEF Responses, Like
  <2> QED BY <1>1, <2>1, <2>2, <2>3, SendingStep DEF k, Pinning
<1> DEFINE pc == IF Again(r) THEN "look" ELSE "park"
<1>5. \/ End(r, "cut")
      \/ rd[r].pos >= rd[r].need /\ ~Truncated(r) /\ SawComplete(r) /\ End(r, "whole")
      \/ Go(r, [rd[r] EXCEPT !.pc = pc])
  BY Zenon DEF AtEnd
<1>6. pc \in {"look", "park"}
  OBVIOUS
<1> HIDE DEF pc
<1> QED BY <1>2, <1>3, <1>4, <1>5, <1>6

\* A unit of the pinned file goes to the client, and to its archive.
LEMMA WriteKeeps ==
  ASSUME OdInv, OdAssumption, NEW r \in OdClients, Write(r)
  PROVE  OdInv'
<1> DEFINE k == rd[r]
           pos == k.pos + 1
           k2 == [k EXCEPT !.pos = pos, !.pc = "look", !.st = "none", !.note = FALSE]
           f == k.fd
<1>1. /\ k.pc = "write" /\ rd[r].pc \in Sent /\ rd[r].pc \in Streaming /\ rd[r].pc \in Short
      /\ rd[r].pc # "idle" /\ UNCHANGED <<job, size, cuts, asks>>
  BY DEF Write, Sent, Streaming, Short
<1>2. /\ k \in Responses /\ k.out # "whole" /\ k.of = job.file /\ f = job.file /\ f \in Nat /\ k.fd = job.file
      /\ k.pos \in Nat /\ k.upto \in Maybe /\ SentOK(r, k, job, arch) /\ job.pinned = <<job.file>>
      /\ k.upto # <<>> => k.upto[1] \in Nat /\ k.pos < k.upto[1]
  BY <1>1, SendingFacts, Facts
<1>3. rd' = [rd EXCEPT ![r] = k2]
  BY Zenon DEF Write
<1>4. pos \in Nat /\ (k.upto # <<>> => pos <= k.upto[1])
  BY <1>2, SMTT(40)
<1>5. "look" \in PCs /\ "look" \in Streaming /\ "look" \in Sent /\ "look" \notin Short /\ "look" \notin Asking
  BY DEF PCs, Sent, Streaming, Short, Asking, Ready
<1>6. r = Downloader =>
        /\ Len(arch.data) = k.pos /\ arch.data \in Seq(Nat) /\ arch.tag \in Tags /\ arch.tag[2] = f
        /\ ~arch.whole /\ ArchOK(arch, rd[Downloader], cuts)
  BY <1>1, <1>2 DEF SentOK, OdInv, ArchOK
<1>7. arch' = IF r = Downloader THEN [arch EXCEPT !.data = Append(arch.data, f)] ELSE arch
  BY DEF Write
<1> HIDE DEF k, pos, f
<1>8. /\ k2 \in Responses /\ k2.pc = "look" /\ k2.pos = pos /\ k2.st = "none" /\ k2.out = k.out
      /\ k2.of = k.of /\ k2.fd = k.fd /\ k2.upto = k.upto
  BY <1>2, <1>4, <1>5 DEF Responses
<1> HIDE DEF k2
<1>9. r = Downloader => /\ Len(arch'.data) = pos /\ arch'.tag = arch.tag /\ ArchOK(arch', k2, cuts)
  <2> SUFFICES ASSUME r = Downloader
               PROVE  Len(arch'.data) = pos /\ arch'.tag = arch.tag /\ ArchOK(arch', k2, cuts)
    OBVIOUS
  <2> DEFINE data == Append(arch.data, f)
  <2>1. data \in Seq(Nat) /\ Len(data) = Len(arch.data) + 1
    BY <1>2, <1>6
  <2>2. \A n \in 1..Len(data) : data[n] = arch.tag[2]
    <3> SUFFICES ASSUME NEW n \in 1..Len(data)
                 PROVE  data[n] = arch.tag[2]
      OBVIOUS
    <3>1. CASE n \in 1..Len(arch.data)
      <4>1. arch.data # <<>> /\ data[n] = arch.data[n]
        BY <1>2, <1>6, <3>1
      <4> QED BY <1>6, <3>1, <4>1 DEF ArchOK
    <3>2. CASE n = Len(arch.data) + 1
      BY <1>2, <1>6, <3>2
    <3> QED BY <1>6, <2>1, <3>1, <3>2, SMTT(40)
  <2> HIDE DEF data
  <2>3. arch' = [arch EXCEPT !.data = data]
    BY <1>7 DEF data
  <2>4. arch \in [data : Seq(Nat), tag : Tags \cup {<<>>}, total : Maybe, whole : BOOLEAN]
    BY <1>6 DEF ArchOK
  <2>5. /\ arch'.data = data /\ arch'.tag = arch.tag /\ arch'.total = arch.total /\ ~arch'.whole
        /\ arch' \in [data : Seq(Nat), tag : Tags \cup {<<>>}, total : Maybe, whole : BOOLEAN]
    BY <1>6, <2>1, <2>3, <2>4
  <2>6. ArchOK(arch', k2, cuts)
    BY <1>6, <2>2, <2>5 DEF ArchOK
  <2> QED BY <1>6, <2>1, <2>5, <2>6 DEF pos
<1>10. SentOK(r, k2, job, arch')
  <2>1. k2.of = job.file /\ (k2.upto # <<>> => k2.pos <= k2.upto[1]) /\ k2.fd = k2.of
    BY <1>2, <1>4, <1>5, <1>8 DEF SentOK
  <2>2. r = Downloader => Len(arch'.data) = k2.pos /\ arch'.tag \in Tags /\ arch'.tag[2] = job.file
    BY <1>2, <1>6, <1>8, <1>9
  <2> QED BY <1>5, <1>8, <2>1, <2>2 DEF SentOK
<1>11. RespOK(r, k2, job, arch', cuts)
  BY <1>2, <1>5, <1>8, <1>10 DEF RespOK
<1> QED BY <1>1, <1>3, <1>7, <1>9, <1>11, ArchStep DEF k

\* The response is over; the archive is whole when it is as long as was told.
LEMMA CloseKeeps ==
  ASSUME OdInv, OdAssumption, NEW r \in OdClients, Close(r)
  PROVE  OdInv'
<1>1. rd[r].pc # "idle" /\ rd' = [rd EXCEPT ![r] = Idle] /\ UNCHANGED <<job, size, cuts, asks>>
  BY DEF Close
<1>2. RespOK(r, Idle, job, arch', cuts)
  BY IdleOK
<1>3. ASSUME r = Downloader
      PROVE  ArchOK(arch', Idle, cuts)
  <2>1. ArchOK(arch, rd[Downloader], cuts) /\ Total \in Nat /\ Idle.pc = "idle"
    BY DEF OdInv, OdAssumption, Idle
  <2>2. CASE arch.total = <<Len(arch.data)>>
    <3> DEFINE n == Len(arch.data)
    <3>1. arch' = [arch EXCEPT !.whole = TRUE]
      BY <1>3, <2>2 DEF Close
    <3>2. arch \in [data : Seq(Nat), tag : Tags \cup {<<>>}, total : Maybe, whole : BOOLEAN]
      BY <2>1 DEF ArchOK
    <3>3. /\ arch'.data = arch.data /\ arch'.tag = arch.tag /\ arch'.total = arch.total
          /\ arch' \in [data : Seq(Nat), tag : Tags \cup {<<>>}, total : Maybe, whole : BOOLEAN]
      BY <3>1, <3>2
    <3>4. arch.total # <<>> /\ arch.total[1] = n
      BY <2>2
    <3>5. cuts = 0 => arch.total = <<Total>>
      BY <2>1, <3>4 DEF ArchOK
    <3>6. cuts = 0 => n = Total
      BY <3>4, <3>5
    <3> QED BY <2>1, <3>3, <3>6 DEF ArchOK
  <2>3. CASE arch.total # <<Len(arch.data)>>
    BY <2>1, <2>3 DEF ArchOK, Close
  <2> QED BY <2>2, <2>3
<1>4. r # Downloader => arch' = arch
  BY DEF Close
<1> HIDE DEF Close
<1> QED BY <1>1, <1>2, <1>3, <1>4, ArchStep

LEMMA CutKeeps ==
  ASSUME OdInv, OdAssumption, NEW r \in OdClients, Stopped(r) \/ Gone(r)
  PROVE  OdInv'
<1>1. rd[r].pc # "idle" /\ UNCHANGED job /\ (End(r, "cut") \/ End(r, "gone"))
  BY DEF Stopped, Gone, Streaming
<1> QED BY <1>1, EndStep DEF Outs

\* A request begins: of a reader, or of the downloader for its next range.
LEMMA AskKeeps ==
  ASSUME OdInv, OdAssumption, NEW r \in OdClients, NEW q \in Reqs, NEW tag \in Tags \cup {<<>>},
         Ask(r, q, tag),
         r \in Readers =>
           q.kind # "progressive" /\ (q.last # <<>> => q.start <= q.last[1]),
         r = Downloader =>
           /\ q.kind = "progressive" /\ q.last = <<>> /\ q.start = Len(arch.data) /\ ~arch.whole
           /\ tag = IF arch.data = <<>> THEN <<>> ELSE arch.tag,
         q.kind = "resource" => q.last # <<>>
  PROVE  OdInv'
<1> DEFINE k2 == [Idle EXCEPT !.pc = "ready", !.req = q, !.tag = tag]
<1>1. /\ rd' = [rd EXCEPT ![r] = k2] /\ UNCHANGED <<job, size, arch, cuts>> /\ asks' = asks + 1
  BY DEF Ask
<1>2. Idle \in Responses /\ Idle.st = "none" /\ Idle.out = "none" /\ "ready" \in PCs
  BY IdleOK DEF Idle, PCs, Asking
<1> HIDE DEF k2
<1>3. /\ k2 \in Responses /\ k2.pc = "ready" /\ k2.req = q /\ k2.tag = tag /\ k2.st = "none"
      /\ k2.out = "none"
  BY <1>2 DEF k2, Responses
<1>4. AskedOK(r, k2, arch)
  BY <1>3 DEF AskedOK
<1>5. RespOK(r, k2, job', arch', cuts)
  BY <1>1, <1>3, <1>4 DEF RespOK, Ready, Sent, Streaming
<1>6. Steady(job, job') /\ JobOK(job', size', cuts') /\ asks' \in Nat /\ cuts' = cuts
  BY <1>1, PinningOK, Facts DEF Pinning
<1>7. ArchOK(arch', IF r = Downloader THEN k2 ELSE rd[Downloader], cuts)
  BY <1>1 DEF OdInv, ArchOK
<1> QED BY <1>1, <1>5, <1>6, <1>7, OneResponse

LEMMA AskSteps ==
  ASSUME OdInv, OdAssumption, AskMore \/ \E r \in Readers : \E q \in Wanted : Ask(r, q, <<>>)
  PROVE  OdInv'
<1>1. ASSUME NEW r \in Readers, NEW q \in Wanted, Ask(r, q, <<>>)
      PROVE  OdInv'
  <2>1. /\ q = [kind |-> q.kind, start |-> q.start, last |-> q.last]
        /\ q.kind \in {"plain", "resource"} /\ q.start \in Nat
        /\ \/ q.last = <<>> /\ q.kind = "plain"
           \/ q.last = <<q.last[1]>> /\ q.last[1] \in Nat /\ q.start <= q.last[1]
        /\ Downloader \notin Readers
    BY DEF OdAssumption
  <2>2. q.last \in Maybe /\ q.kind \in {"plain", "resource", "progressive"}
    BY <2>1 DEF Maybe
  <2>3. q \in Reqs
    <3> DEFINE x == q.kind
               y == q.start
               z == q.last
    <3>1. q = [kind |-> x, start |-> y, last |-> z]
      BY <2>1
    <3>2. x \in {"plain", "resource", "progressive"} /\ y \in Nat /\ z \in Maybe
      BY <2>1, <2>2
    <3> HIDE DEF x, y, z
    <3> QED BY <3>1, <3>2, Zenon DEF Reqs
  <2>4. r # Downloader /\ r \in OdClients /\ q.kind # "progressive"
    BY <2>1 DEF OdClients
  <2>5. (q.last # <<>> => q.start <= q.last[1]) /\ (q.kind = "resource" => q.last # <<>>)
    BY <2>1
  <2> QED BY <1>1, <2>3, <2>4, <2>5, AskKeeps
<1>2. ASSUME AskMore
      PROVE  OdInv'
  <2> DEFINE n == Len(arch.data)
             q == [kind |-> "progressive", start |-> n, last |-> <<>>]
             tag == IF arch.data = <<>> THEN <<>> ELSE arch.tag
  <2>1. ArchOK(arch, rd[Downloader], cuts) /\ Downloader \in OdClients /\ Downloader \notin Readers
    BY DEF OdInv, OdClients, OdAssumption
  <2>2. n \in Nat /\ tag \in Tags \cup {<<>>} /\ ~arch.whole /\ Ask(Downloader, q, tag)
    BY <1>2, <2>1 DEF ArchOK, AskMore
  <2>3. q \in Reqs
    BY <2>2, Zenon DEF Reqs, Maybe
  <2>4. q.kind = "progressive" /\ q.last = <<>> /\ q.start = n
    OBVIOUS
  <2> HIDE DEF q
  <2> QED BY <2>1, <2>2, <2>3, <2>4, AskKeeps
<1> QED BY <1>1, <1>2

-----------------------------------------------------------------------------
(* The invariant holds at first, and every step keeps it.                  *)

LEMMA OdInitially == ASSUME OdAssumption, OdInit PROVE OdInv
<1>1. /\ MaxInodes \in Nat \ {0} /\ Total \in Nat \ {0} /\ cuts = 0 /\ asks = 0
      /\ size = [i \in 1..MaxInodes |-> 0] /\ rd = [r \in OdClients |-> Idle]
      /\ arch = [data |-> <<>>, tag |-> <<>>, total |-> <<>>, whole |-> FALSE]
  BY DEF OdAssumption, OdInit
<1>2. PICK s \in {"preprocessing", "starting"} :
        job = [state |-> s, flag |-> FALSE, owed |-> FALSE, pinned |-> <<>>, file |-> 1]
  BY DEF OdInit
<1>3. job \in JobType /\ job.file = 1 /\ job.pinned = <<>> /\ job.state = s
  <2>1. s \in JobStates /\ <<>> \in Maybe /\ 1 \in Nat
    BY DEF JobStates, Maybe
  <2>2. job \in JobType
    BY <1>2, <2>1, Zenon DEF JobType
  <2> QED BY <1>2, <2>2
<1>4. JobOK(job, size, cuts)
  BY <1>1, <1>3 DEF JobOK
<1>5. ArchOK(arch, rd[Downloader], cuts)
  <2>1. <<>> \in Seq(Nat) /\ <<>> \in Maybe /\ <<>> \in Tags \cup {<<>>}
    BY DEF Maybe
  <2>2. arch \in [data : Seq(Nat), tag : Tags \cup {<<>>}, total : Maybe, whole : BOOLEAN]
    BY <1>1, <2>1, Zenon
  <2>3. arch.data = <<>> /\ arch.total = <<>> /\ arch.whole = FALSE
    BY <1>1
  <2> QED BY <2>2, <2>3 DEF ArchOK
<1>6. rd \in [OdClients -> Responses] /\ \A r \in OdClients : RespOK(r, rd[r], job, arch, cuts)
  <2>1. \A r \in OdClients : rd[r] = Idle
    BY <1>1
  <2>2. rd \in [OdClients -> Responses]
    BY <1>1, IdleOK
  <2> QED BY <2>1, <2>2, IdleOK
<1> QED BY <1>1, <1>4, <1>5, <1>6 DEF OdInv

LEMMA OdSteps == ASSUME OdInv, OdAssumption, [OdNext]_odVars PROVE OdInv'
<1>1. CASE UNCHANGED odVars
  BY <1>1 DEF odVars, OdInv
<1>2. CASE Supervise \/ Produce \/ PollGrowing \/ Fail \/ Cancel \/ Truncate
  BY <1>2, JobSteps
<1>3. CASE Fallback
  BY <1>3, FallbackKeeps
<1>4. CASE \E a \in BOOLEAN : Replace(a)
  BY <1>4, ReplaceKeeps
<1>5. CASE AskMore \/ \E r \in Readers : \E q \in Wanted : Ask(r, q, <<>>)
  BY <1>5, AskSteps
<1>6. ASSUME NEW r \in OdClients, Respond(r)
      PROVE  OdInv'
  <2>1. CASE WaitReady(r) \/ Timeout(r) \/ pin_ready_output(r) \/ Refused(r)
    BY <2>1, WaitReadyKeeps, TimeoutKeeps, PinKeeps, RefusedKeeps
  <2>2. CASE serve_resumable_download(r) \/ Route(r) \/ WaitOffset(r) \/ Measure(r)
    BY <2>2, ResumableKeeps, RouteKeeps, OffsetKeeps, MeasureKeeps
  <2>3. CASE PromiseRange(r) \/ serve_finished(r) \/ ReadFlag(r) \/ serve_progressive_download(r)
    BY <2>3, RangeKeeps, FinishedKeeps, ReadFlagKeeps, ProgressiveKeeps
  <2>4. CASE Open(r) \/ Look(r) \/ Read(r) \/ Stat(r)
    BY <2>4, OpenKeeps, LookKeeps, ReadKeeps, StatKeeps
  <2>5. CASE AtEnd(r) \/ Write(r) \/ Close(r)
    BY <2>5, AtEndKeeps, WriteKeeps, CloseKeeps
  <2> QED BY <1>6, <2>1, <2>2, <2>3, <2>4, <2>5 DEF Respond
<1>7. ASSUME NEW r \in OdClients, Stopped(r) \/ Gone(r)
      PROVE  OdInv'
  BY <1>7, CutKeeps
<1> QED BY <1>1, <1>2, <1>3, <1>4, <1>5, <1>6, <1>7 DEF OdNext

\* Whatever the interleaving of the producer, the responses and truncations
\* from outside, every response and every archive joined from responses is of
\* one output, and is taken for whole only when it is.
THEOREM AnswersAlwaysWhole == OdSpec => []AnswersWhole
<1>1. OdInit => OdInv
  BY OdInitially, OdAssumption
<1>2. OdInv /\ [OdNext]_odVars => OdInv'
  BY OdSteps, OdAssumption
<1>3. OdInv => AnswersWhole
  BY Promised
<1> QED BY <1>1, <1>2, <1>3, PTL DEF OdSpec

================================================================================
