----------------------- MODULE OriginalDelivery_proofs -----------------------
(***************************************************************************)
(* Proofs about OriginalDelivery, for any number of clients, files and     *)
(* reads.  Sending relates a response to the descriptor it is read from,   *)
(* Resumes says that what a resuming client holds is the beginning of the  *)
(* file its validator names, Seeks that a seek was parsed as it was meant. *)
(***************************************************************************)
EXTENDS OriginalDelivery, FiniteSetTheorems, SequenceTheorems, TLAPS

Inodes == [version : Nat, size : Nat]
Ranges == [form : {"none", "from", "last", "span"}, a : Nat, b : Nat]
Contents == Nat \X Nat
ETags == Nat \X Nat \X Nat
Clients ==
  [at : {"idle", "memory", "stream", "reading", "sent"}, ino : Nat, next : Nat,
   until : Nat, status : Nat, spec : Ranges, size : Nat, first : Nat,
   got : Seq(Contents), etag : {NoETag} \cup ETags, spoiled : BOOLEAN, asked : Int]

FilesOK(inodes) == inodes \in Seq(Inodes) /\ inodes # <<>>

OrTypeOK ==
  /\ FilesOK(orInodes) /\ orAt \in 0 .. Len(orInodes)
  /\ orClient \in [OrClients -> Clients]
  /\ orFree \in Nat /\ orStuck \in Nat

Active(k) == k.at \in {"memory", "stream", "reading"}

\* What is being sent is read from one descriptor, from where the client is.
Sending(k, inodes) ==
  Active(k) => k.ino \in 1 .. Len(inodes) /\ k.next = Holding(k) /\ k.next <= k.until

\* A client that resumes holds the beginning of what its validator names.
Resumes(k, inodes) ==
  /\ k.first = 0
  /\ Active(k) \/ k.at = "sent" \/ Len(k.got) > 0 => k.etag \in ETags
  /\ Active(k) => k.ino = k.etag[1] /\ k.until = k.etag[3]
  /\ k.at = "sent" => Len(k.got) = k.etag[3]
  /\ ~k.spoiled =>
       /\ \A i \in 1 .. Len(k.got) : k.got[i] = <<k.etag[1], k.etag[2]>>
       /\ Active(k) => inodes[k.ino].version = k.etag[2]

\* The range of a seek.
Asked(k) == parse_byte_range(k.spec, k.size)
Seeks(k) ==
  /\ k.etag = NoETag
  /\ Active(k) \/ k.at = "sent" =>
       k.status = 206 /\ k.spec.form # "none" /\ Asked(k).result = "ok" /\ k.first = Asked(k).start
  /\ Active(k) => k.until = Asked(k).end + 1
  /\ k.at = "sent" => Holding(k) = Asked(k).end + 1

ClientOK(c, k, inodes) ==
  /\ k \in Clients
  /\ Sending(k, inodes)
  /\ c \in OrResumers => Resumes(k, inodes)
  /\ c \in OrSeekers => Seeks(k)

OrInv ==
  /\ OrTypeOK /\ ReadsBounded
  /\ \A c \in OrClients : ClientOK(c, orClient[c], orInodes)

-----------------------------------------------------------------------------
(* The byte ranges (range.rs).                                             *)

LEMMA RangeType ==
  ASSUME NEW r \in Ranges, r.form # "none", NEW size \in Nat
  PROVE  LET p == parse_byte_range(r, size) IN
         /\ p.result \in {"ok", "invalid", "unsatisfiable"}
         /\ p.start \in Nat /\ p.end \in Nat
         /\ p.result = "ok" => p.start <= p.end /\ p.end < size
<1>1. r.a \in Nat /\ r.b \in Nat /\ r.form \in {"from", "last", "span"}
  BY DEF Ranges
<1>2. CASE size = 0 \/ (r.form = "last" /\ r.a = 0) \/ (r.form # "last" /\ r.a >= size)
  BY <1>1, <1>2 DEF parse_byte_range, RangeError
<1>3. CASE size # 0 /\ r.form = "last" /\ r.a # 0
  <2>1. parse_byte_range(r, size) = Span(size - Smaller(r.a, size), size - 1)
    BY <1>3 DEF parse_byte_range
  <2>2. Smaller(r.a, size) \in 1 .. size
    BY <1>1, <1>3 DEF Smaller
  <2> QED BY <1>3, <2>1, <2>2 DEF Span
<1>4. CASE size # 0 /\ r.form = "from" /\ r.a < size
  <2>1. parse_byte_range(r, size) = Span(r.a, size - 1)
    BY <1>1, <1>4 DEF parse_byte_range
  <2> QED BY <1>1, <1>4, <2>1 DEF Span
<1>5. CASE size # 0 /\ r.form = "span" /\ r.a < size /\ r.b < r.a
  <2>1. parse_byte_range(r, size) = RangeError("invalid")
    BY <1>1, <1>5 DEF parse_byte_range
  <2> QED BY <2>1 DEF RangeError
<1>6. CASE size # 0 /\ r.form = "span" /\ r.a < size /\ ~(r.b < r.a)
  <2>1. parse_byte_range(r, size) = Span(r.a, Smaller(r.b, size - 1))
    BY <1>1, <1>6 DEF parse_byte_range
  <2>2. Smaller(r.b, size - 1) \in r.a .. size - 1
    BY <1>1, <1>6 DEF Smaller
  <2> QED BY <1>1, <1>6, <2>1, <2>2 DEF Span
<1> QED BY <1>1, <1>2, <1>3, <1>4, <1>5, <1>6

\* The range a header asks for is the bytes it names, those the file has.
LEMMA RangeIsWanted ==
  ASSUME NEW r \in Ranges, r.form # "none", NEW size \in Nat,
         parse_byte_range(r, size).result = "ok"
  PROVE  parse_byte_range(r, size).start .. parse_byte_range(r, size).end = Wanted(r, size)
<1>1. r.a \in Nat /\ r.b \in Nat /\ r.form \in {"from", "last", "span"}
  BY DEF Ranges
<1>2. ~(size = 0 \/ (r.form = "last" /\ r.a = 0) \/ (r.form # "last" /\ r.a >= size))
  BY DEF parse_byte_range, RangeError
<1>3. CASE r.form = "last"
  <2>1. parse_byte_range(r, size) = Span(size - Smaller(r.a, size), size - 1)
    BY <1>2, <1>3 DEF parse_byte_range
  <2>2. Wanted(r, size) = {p \in 0 .. size - 1 : p >= size - r.a}
    BY <1>3 DEF Wanted
  <2>3. size - Smaller(r.a, size) .. size - 1 = {p \in 0 .. size - 1 : p >= size - r.a}
    BY <1>1 DEF Smaller
  <2> QED BY <2>1, <2>2, <2>3 DEF Span
<1>4. CASE r.form = "from"
  <2>1. parse_byte_range(r, size) = Span(r.a, size - 1)
    BY <1>1, <1>2, <1>4 DEF parse_byte_range
  <2>2. Wanted(r, size) = {p \in 0 .. size - 1 : p >= r.a}
    BY <1>4 DEF Wanted
  <2>3. r.a .. size - 1 = {p \in 0 .. size - 1 : p >= r.a}
    BY <1>1
  <2> QED BY <2>1, <2>2, <2>3 DEF Span
<1>5. CASE r.form = "span"
  <2>1. ~(r.b < r.a)
    BY <1>1, <1>2, <1>5 DEF parse_byte_range, RangeError
  <2>2. parse_byte_range(r, size) = Span(r.a, Smaller(r.b, size - 1))
    BY <1>1, <1>2, <1>5, <2>1 DEF parse_byte_range
  <2>3. Wanted(r, size) = {p \in 0 .. size - 1 : p >= r.a /\ p <= r.b}
    BY <1>5 DEF Wanted
  <2>4. r.a .. Smaller(r.b, size - 1) = {p \in 0 .. size - 1 : p >= r.a /\ p <= r.b}
    BY <1>1 DEF Smaller
  <2> QED BY <2>2, <2>3, <2>4 DEF Span
<1> QED BY <1>1, <1>3, <1>4, <1>5

-----------------------------------------------------------------------------
(* What the invariant says.                                                *)

LEMMA InvImpliesWhole == OrInv => OriginalsWhole
<1> SUFFICES ASSUME OrInv PROVE OriginalsWhole
  OBVIOUS
<1>1. VersionsNeverMixed
  <2> SUFFICES ASSUME NEW c \in OrResumers, orClient[c].at = "sent", ~orClient[c].spoiled
               PROVE  /\ Len(orClient[c].got) = orClient[c].etag[Len(orClient[c].etag)]
                      /\ \A i \in DOMAIN orClient[c].got : orClient[c].got[i] = orClient[c].got[1]
    BY DEF VersionsNeverMixed
  <2> DEFINE k == orClient[c]
  <2>1. k \in Clients /\ Resumes(k, orInodes)
    BY DEF OrInv, ClientOK, OrClients
  <2> HIDE DEF k
  <2>2. k.got \in Seq(Contents)
    BY <2>1 DEF Clients
  <2>3. k.at = "sent" /\ ~k.spoiled
    BY DEF k
  <2>4. k.etag \in ETags /\ Len(k.got) = k.etag[3]
        /\ \A i \in 1 .. Len(k.got) : k.got[i] = <<k.etag[1], k.etag[2]>>
    BY <2>1, <2>3 DEF Resumes
  <2>5. Len(k.etag) = 3
    BY <2>4 DEF ETags
  <2>6. \A i \in 1 .. Len(k.got) : k.got[i] = k.got[1]
    <3>1. TAKE i \in 1 .. Len(k.got)
    <3>2. 1 \in 1 .. Len(k.got)
      BY <2>2, LenProperties
    <3> QED BY <2>4, <3>2
  <2>7. DOMAIN k.got = 1 .. Len(k.got)
    BY <2>2, LenProperties
  <2> QED BY <2>4, <2>5, <2>6, <2>7 DEF k
<1>2. SeeksExact
  <2> SUFFICES ASSUME NEW c \in OrSeekers, orClient[c].at = "sent"
               PROVE  /\ orClient[c].status = 206
                      /\ {orClient[c].first + i - 1 : i \in DOMAIN orClient[c].got}
                           = Wanted(orClient[c].spec, orClient[c].size)
    BY DEF SeeksExact
  <2> DEFINE k == orClient[c]
  <2>1. k \in Clients /\ Seeks(k) /\ k.at = "sent"
    BY DEF OrInv, ClientOK, OrClients
  <2> HIDE DEF k
  <2>2. k.got \in Seq(Contents) /\ k.spec \in Ranges /\ k.size \in Nat /\ k.first \in Nat
    BY <2>1 DEF Clients
  <2>3. k.status = 206 /\ k.spec.form # "none" /\ Asked(k).result = "ok"
        /\ k.first = Asked(k).start /\ Holding(k) = Asked(k).end + 1
    BY <2>1 DEF Seeks
  <2>4. Asked(k).end \in Nat
    BY <2>2, <2>3, RangeType DEF Asked
  <2>5. DOMAIN k.got = 1 .. Len(k.got) /\ Len(k.got) \in Nat
    BY <2>2, LenProperties
  <2>6. {k.first + i - 1 : i \in 1 .. Len(k.got)} = k.first .. Asked(k).end
    <3> DEFINE f == k.first n == Len(k.got) e == Asked(k).end
    <3>1. f \in Nat /\ n \in Nat /\ e \in Nat /\ f + n = e + 1
      BY <2>2, <2>3, <2>4, <2>5 DEF Holding
    <3> HIDE DEF f, n, e
    <3>2. ASSUME NEW p \in f .. e PROVE p \in {f + i - 1 : i \in 1 .. n}
      <4>1. p - f + 1 \in 1 .. n /\ f + (p - f + 1) - 1 = p
        BY <3>1
      <4> QED BY <4>1
    <3>3. \A i \in 1 .. n : f + i - 1 \in f .. e
      BY <3>1
    <3>4. {f + i - 1 : i \in 1 .. n} = f .. e
      BY <3>2, <3>3
    <3> QED BY <3>4 DEF f, n, e
  <2>7. k.first .. Asked(k).end = Wanted(k.spec, k.size)
    BY <2>2, <2>3, RangeIsWanted DEF Asked
  <2> QED BY <2>3, <2>5, <2>6, <2>7 DEF k
<1> QED BY <1>1, <1>2 DEF OriginalsWhole, OrInv

-----------------------------------------------------------------------------
(* What a step makes of one client.                                        *)

LEMMA Fields ==
  ASSUME NEW k \in Clients
  PROVE  /\ k.got \in Seq(Contents) /\ Len(k.got) \in Nat /\ k.next \in Nat /\ k.until \in Nat
         /\ k.first \in Nat /\ k.size \in Nat /\ k.spec \in Ranges /\ k.asked \in Int
         /\ k.ino \in Nat /\ k.status \in Nat
<1>1. k.got \in Seq(Contents)
  BY DEF Clients
<1> QED BY <1>1, LenProperties DEF Clients

\* A client that is refused starts over.
LEMMA RefusedOK ==
  ASSUME NEW c \in OrClients, NEW k \in Clients, NEW status \in Nat, NEW inodes
  PROVE  ClientOK(c, Refused(k, status), inodes) /\ Refused(k, status).at = "idle"
<1> DEFINE a == k.asked + 1
           k2 == Refused(k, status)
<1>1. a \in Int
  BY Fields
<1>2. OrIdle \in Clients
  <2>1. NoRange \in Ranges
    BY DEF NoRange, Ranges
  <2>2. <<>> \in Seq(Contents)
    BY EmptySeq
  <2>3. 0 \in Nat /\ 0 \in Int
    OBVIOUS
  <2> QED BY <2>1, <2>2, <2>3, Zenon DEF OrIdle, Clients, NoETag
<1>3. /\ OrIdle.at = "idle" /\ OrIdle.got = <<>> /\ OrIdle.first = 0 /\ OrIdle.etag = NoETag
      /\ OrIdle.spoiled = FALSE
  BY DEF OrIdle
<1>4. k2 = [OrIdle EXCEPT !.asked = a, !.status = status]
  BY DEF Refused
<1> HIDE DEF a, k2
<1>5. /\ k2 \in Clients /\ k2.at = "idle" /\ k2.got = <<>> /\ k2.first = 0 /\ k2.etag = NoETag
  BY <1>1, <1>2, <1>3, <1>4 DEF Clients
<1>6. Len(k2.got) = 0
  BY <1>5
<1>7. Sending(k2, inodes) /\ Resumes(k2, inodes) /\ Seeks(k2)
  BY <1>5, <1>6 DEF Sending, Resumes, Seeks, Active
<1> QED BY <1>5, <1>7 DEF ClientOK, k2

\* A file is added: what is being sent is read from the same one.
LEMMA LaterOK ==
  ASSUME NEW c \in OrClients, NEW inodes \in Seq(Inodes), NEW x \in Inodes, NEW k,
         ClientOK(c, k, inodes)
  PROVE  ClientOK(c, k, Append(inodes, x))
<1>1. /\ Len(Append(inodes, x)) = Len(inodes) + 1 /\ Len(inodes) \in Nat
      /\ \A i \in 1 .. Len(inodes) : Append(inodes, x)[i] = inodes[i]
  OBVIOUS
<1> QED BY <1>1 DEF ClientOK, Sending, Resumes

\* The response ends, whole or not.
LEMMA EndedOK ==
  ASSUME NEW c \in OrClients, NEW inodes, NEW k, ClientOK(c, k, inodes), Active(k)
  PROVE  ClientOK(c, Ended(k), inodes) /\ Ended(k).at \in {"idle", "sent"}
<1> DEFINE s == IF k.next = k.until THEN "sent" ELSE "idle"
           k2 == Ended(k)
<1>1. s \in {"idle", "sent"} /\ k2 = [k EXCEPT !.at = s, !.ino = 0, !.next = 0, !.until = 0]
  BY DEF Ended
<1>2. s = "sent" => k.next = k.until
  OBVIOUS
<1> HIDE DEF s, k2
<1>3. /\ k2 \in Clients /\ k2.at = s /\ k2.got = k.got /\ k2.first = k.first /\ k2.etag = k.etag
      /\ k2.spoiled = k.spoiled /\ k2.status = k.status /\ k2.spec = k.spec /\ k2.size = k.size
  BY <1>1 DEF ClientOK, Clients
<1>4. Holding(k2) = Holding(k) /\ Asked(k2) = Asked(k) /\ ~Active(k2)
  BY <1>1, <1>3 DEF Holding, Asked, Active
<1>5. k.next = Holding(k) /\ Len(k.got) \in Nat
  BY Fields DEF ClientOK, Sending
<1>6. Sending(k2, inodes)
  BY <1>4 DEF Sending
<1>7. c \in OrResumers => Resumes(k2, inodes)
  <2> SUFFICES ASSUME c \in OrResumers PROVE Resumes(k2, inodes)
    OBVIOUS
  <2>1. Resumes(k, inodes)
    BY DEF ClientOK
  <2>2. k.first = 0 /\ k.etag \in ETags /\ k.until = k.etag[3]
    BY <2>1 DEF Resumes
  <2>3. s = "sent" => Len(k.got) = k.etag[3]
    BY <1>2, <1>5, <2>2 DEF Holding
  <2> QED BY <1>3, <1>4, <2>1, <2>2, <2>3 DEF Resumes
<1>8. c \in OrSeekers => Seeks(k2)
  <2> SUFFICES ASSUME c \in OrSeekers PROVE Seeks(k2)
    OBVIOUS
  <2>1. Seeks(k)
    BY DEF ClientOK
  <2> QED BY <1>2, <1>3, <1>4, <1>5, <2>1 DEF Seeks
<1> QED BY <1>1, <1>3, <1>6, <1>7, <1>8 DEF ClientOK, k2

LEMMA SameTop ==
  ASSUME NEW x \in Nat, NEW y \in Nat, 1 .. x = 1 .. y
  PROVE  x = y
<1>1. ~(x < y)
  <2> SUFFICES ASSUME x < y PROVE FALSE
    OBVIOUS
  <2>1. y \in 1 .. y /\ y \notin 1 .. x
    OBVIOUS
  <2> QED BY <2>1
<1>2. ~(y < x)
  <2> SUFFICES ASSUME y < x PROVE FALSE
    OBVIOUS
  <2>1. x \in 1 .. x /\ x \notin 1 .. y
    OBVIOUS
  <2> QED BY <2>1
<1> QED BY <1>1, <1>2

\* It goes on: bytes of its descriptor are sent and the client has them.
LEMMA TakeOK ==
  ASSUME OrTypeOK, NEW c \in OrClients, NEW k, ClientOK(c, k, orInodes), Active(k),
         NEW n \in Nat, k.next + n <= k.until
  PROVE  /\ ClientOK(c, Take(k, n), orInodes) /\ Take(k, n).at = k.at
         /\ Take(k, n).next = k.next + n /\ Take(k, n).until = k.until
<1> DEFINE b == Bytes(k, n)
           g == k.got \o b
           m == k.next + n
           k2 == Take(k, n)
<1>1. k \in Clients /\ k.ino \in 1 .. Len(orInodes) /\ k.next = Holding(k)
  BY DEF ClientOK, Sending
<1>2. <<k.ino, orInodes[k.ino].version>> \in Contents
  <2>1. orInodes[k.ino] \in Inodes /\ Len(orInodes) \in Nat
    BY <1>1, ElementOfSeq, LenProperties DEF OrTypeOK, FilesOK
  <2> QED BY <1>1, <2>1 DEF Inodes, Contents
<1>3. b \in Seq(Contents) /\ Len(b) = n /\ \A i \in 1 .. n : b[i] = <<k.ino, orInodes[k.ino].version>>
  <2>1. b \in [1 .. n -> Contents] /\ \A i \in 1 .. n : b[i] = <<k.ino, orInodes[k.ino].version>>
    BY <1>2 DEF Bytes
  <2>2. b \in Seq(Contents)
    BY <2>1, SeqDef
  <2>3. Len(b) \in Nat /\ DOMAIN b = 1 .. Len(b) /\ DOMAIN b = 1 .. n
    BY <2>1, <2>2, LenProperties
  <2> HIDE DEF b
  <2>4. Len(b) = n
    BY <2>3, SameTop
  <2> QED BY <2>1, <2>2, <2>4
<1>4. k2 = [k EXCEPT !.got = g, !.next = m]
  BY DEF Take
<1> HIDE DEF b
<1>5. /\ g \in Seq(Contents) /\ Len(g) = Len(k.got) + n
      /\ \A i \in 1 .. Len(g) : g[i] = IF i <= Len(k.got) THEN k.got[i] ELSE b[i - Len(k.got)]
  <2> DEFINE h == k.got
  <2>1. h \in Seq(Contents)
    BY <1>1, Fields
  <2> HIDE DEF h
  <2>2. /\ h \o b \in Seq(Contents) /\ Len(h \o b) = Len(h) + Len(b)
        /\ \A i \in 1 .. Len(h) + Len(b) : (h \o b)[i] = IF i <= Len(h) THEN h[i] ELSE b[i - Len(h)]
    BY <1>3, <2>1, ConcatProperties
  <2>3. g = h \o b
    BY DEF h
  <2> HIDE DEF g
  <2> QED BY <1>3, <2>2, <2>3 DEF h
<1>6. m \in Nat /\ m <= k.until /\ m = k.next + n
  BY <1>1, Fields
<1> HIDE DEF g, k2, m
<1>7. /\ k2 \in Clients /\ k2.at = k.at /\ k2.got = g /\ k2.first = k.first /\ k2.etag = k.etag
      /\ k2.spoiled = k.spoiled /\ k2.status = k.status /\ k2.spec = k.spec /\ k2.size = k.size
      /\ k2.ino = k.ino /\ k2.next = m /\ k2.until = k.until
  BY <1>1, <1>4, <1>5, <1>6 DEF Clients
<1>8. Active(k2) /\ Asked(k2) = Asked(k)
  BY <1>7 DEF Active, Asked
<1>9. Sending(k2, orInodes)
  <2>1. Holding(k2) = m
    <3>1. Len(k2.got) = Len(k.got) + n /\ k2.first = k.first
      BY <1>5, <1>7
    <3>2. k.next = k.first + Len(k.got) /\ m = k.next + n
      BY <1>1, <1>6 DEF Holding
    <3>3. k.first \in Nat /\ Len(k.got) \in Nat
      BY <1>1, Fields
    <3> QED BY <3>1, <3>2, <3>3 DEF Holding
  <2> QED BY <1>1, <1>6, <1>7, <2>1 DEF Sending
<1>10. c \in OrResumers => Resumes(k2, orInodes)
  <2> SUFFICES ASSUME c \in OrResumers PROVE Resumes(k2, orInodes)
    OBVIOUS
  <2>1. Resumes(k, orInodes)
    BY DEF ClientOK
  <2>2. k.first = 0 /\ k.etag \in ETags /\ k.ino = k.etag[1] /\ k.until = k.etag[3]
    BY <2>1 DEF Resumes
  <2>3. ASSUME ~k.spoiled, NEW i \in 1 .. Len(g)
        PROVE  g[i] = <<k.etag[1], k.etag[2]>>
    <3>1. orInodes[k.ino].version = k.etag[2] /\ \A j \in 1 .. Len(k.got) : k.got[j] = <<k.etag[1], k.etag[2]>>
      BY <2>1, <2>3 DEF Resumes
    <3>2. CASE i <= Len(k.got)
      <4>1. i \in 1 .. Len(k.got) /\ g[i] = k.got[i]
        BY <1>1, <1>5, <3>2, Fields
      <4> QED BY <3>1, <4>1
    <3>3. CASE ~(i <= Len(k.got))
      <4>1. i - Len(k.got) \in 1 .. n /\ g[i] = b[i - Len(k.got)]
        BY <1>1, <1>5, <3>3, Fields
      <4> QED BY <1>3, <2>2, <3>1, <4>1
    <3> QED BY <3>2, <3>3
  <2>4. ~k.spoiled => orInodes[k.ino].version = k.etag[2]
    BY <2>1 DEF Resumes
  <2>5. k2.at # "sent"
    BY <1>7 DEF Active
  <2> QED BY <1>7, <2>2, <2>3, <2>4, <2>5 DEF Resumes
<1>11. c \in OrSeekers => Seeks(k2)
  <2> SUFFICES ASSUME c \in OrSeekers PROVE Seeks(k2)
    OBVIOUS
  <2>1. Seeks(k)
    BY DEF ClientOK
  <2>2. k2.at # "sent"
    BY <1>7 DEF Active
  <2> QED BY <1>7, <1>8, <2>1, <2>2 DEF Seeks
<1> QED BY <1>6, <1>7, <1>9, <1>10, <1>11 DEF ClientOK, k2

-----------------------------------------------------------------------------
(* The answer to a request.                                                *)

\* One that starts from nothing: a first request, or one whose file has changed.
LEMMA WholeOK ==
  ASSUME OrAssumption, NEW c \in OrResumers, NEW inodes, NEW at \in 1 .. Len(inodes),
         NEW v \in Nat, NEW s \in Nat, inodes[at].version = v,
         NEW k2 \in Clients, k2.at \in {"memory", "stream"}, k2.ino = at, k2.next = 0,
         k2.until = s, k2.etag = <<at, v, s>>, k2.first = 0, k2.got = <<>>, at \in Nat
  PROVE  ClientOK(c, k2, inodes)
<1>1. k2.etag \in ETags /\ k2.etag[1] = at /\ k2.etag[2] = v /\ k2.etag[3] = s
  BY DEF ETags
<1>2. Len(k2.got) = 0 /\ Holding(k2) = 0
  BY DEF Holding
<1>3. Sending(k2, inodes)
  BY <1>2 DEF Sending
<1>4. Resumes(k2, inodes)
  BY <1>1, <1>2 DEF Resumes, Active
<1>5. c \notin OrSeekers
  BY DEF OrAssumption
<1> QED BY <1>3, <1>4, <1>5 DEF ClientOK

\* One that goes on where the client is, in the file it knows.
LEMMA ResumedOK ==
  ASSUME OrAssumption, NEW c \in OrResumers, NEW inodes, NEW at \in 1 .. Len(inodes),
         NEW v \in Nat, NEW s \in Nat, inodes[at].version = v, at \in Nat,
         NEW k, ClientOK(c, k, inodes), Len(k.got) > 0, Holding(k) < s, k.etag = <<at, v, s>>,
         NEW k2 \in Clients, k2.at \in {"memory", "stream"}, k2.ino = at, k2.next = Holding(k),
         k2.until = s, k2.etag = k.etag, k2.first = k.first, k2.got = k.got,
         k2.spoiled = k.spoiled
  PROVE  ClientOK(c, k2, inodes)
<1>1. k2.etag \in ETags /\ k2.etag[1] = at /\ k2.etag[2] = v /\ k2.etag[3] = s
  BY DEF ETags
<1>2. Holding(k2) = Holding(k) /\ Holding(k) <= s
  <2>1. k2.first \in Nat /\ Len(k2.got) \in Nat
    BY Fields
  <2> QED BY <2>1 DEF Holding
<1>3. Sending(k2, inodes)
  BY <1>2 DEF Sending
<1>4. Resumes(k, inodes)
  BY DEF ClientOK
<1>5. Resumes(k2, inodes)
  <2>1. k2.at # "sent" /\ k2.first = 0
    BY <1>4 DEF Resumes
  <2>2. ~k2.spoiled => \A i \in 1 .. Len(k2.got) : k2.got[i] = <<k2.etag[1], k2.etag[2]>>
    BY <1>4 DEF Resumes
  <2> QED BY <1>1, <2>1, <2>2 DEF Resumes
<1>6. c \notin OrSeekers
  BY DEF OrAssumption
<1> QED BY <1>3, <1>5, <1>6 DEF ClientOK

\* A seek.
LEMMA SeekOK ==
  ASSUME OrAssumption, NEW c \in OrSeekers, NEW inodes, NEW at \in 1 .. Len(inodes),
         NEW k2 \in Clients, k2.at \in {"memory", "stream"}, k2.ino = at, k2.etag = NoETag,
         k2.got = <<>>, k2.status = 206, k2.spec.form # "none", Asked(k2).result = "ok",
         k2.next = Asked(k2).start, k2.first = Asked(k2).start, k2.until = Asked(k2).end + 1
  PROVE  ClientOK(c, k2, inodes)
<1>1. Asked(k2).start \in Nat /\ Asked(k2).end \in Nat /\ Asked(k2).start <= Asked(k2).end
  <2>1. k2.spec \in Ranges /\ k2.size \in Nat
    BY Fields
  <2> QED BY <2>1, RangeType DEF Asked
<1>2. Len(k2.got) = 0 /\ Holding(k2) = k2.next
  BY <1>1 DEF Holding
<1>3. Sending(k2, inodes)
  BY <1>1, <1>2 DEF Sending
<1>4. Seeks(k2)
  BY DEF Seeks, Active
<1>5. c \notin OrResumers
  BY DEF OrAssumption
<1> QED BY <1>3, <1>4, <1>5 DEF ClientOK

\* A resuming client sends If-Range as soon as it holds something.
LEMMA SpecsType ==
  ASSUME OrAssumption, OrInv, NEW c \in OrClients, NEW spec \in Specs(c)
  PROVE  /\ spec \in Ranges
         /\ c \in OrResumers /\ spec.form # "none" =>
              /\ spec = [form |-> "from", a |-> Holding(orClient[c]), b |-> 0]
              /\ Len(orClient[c].got) > 0
         /\ c \in OrSeekers => spec.form # "none"
<1> DEFINE k == orClient[c]
<1>1. k.got \in Seq(Contents) /\ Holding(k) \in Nat
  <2>1. k \in Clients
    BY DEF OrInv, ClientOK
  <2>2. k.first \in Nat /\ Len(k.got) \in Nat /\ k.got \in Seq(Contents)
    BY <2>1, Fields
  <2> QED BY <2>2 DEF Holding
<1>2. CASE c \in OrResumers
  <2>1. spec \in IF k.got = <<>> THEN {NoRange} ELSE {[form |-> "from", a |-> Holding(k), b |-> 0]}
    BY <1>2 DEF Specs
  <2>2. c \notin OrSeekers
    BY <1>2 DEF OrAssumption
  <2>3. k.got # <<>> => Len(k.got) > 0
    BY <1>1, EmptySeq
  <2> HIDE DEF k
  <2>4. CASE k.got = <<>>
    BY <2>1, <2>2, <2>4 DEF NoRange, Ranges
  <2>5. CASE k.got # <<>>
    BY <1>1, <2>1, <2>2, <2>3, <2>5 DEF Ranges, k
  <2> QED BY <2>4, <2>5
<1>3. CASE c \notin OrResumers
  <2>1. spec \in {[form |-> f, a |-> x, b |-> y] : f \in {"from", "last"}, x \in OrSizes, y \in {0}}
                 \cup {[form |-> "span", a |-> x, b |-> y] : x, y \in OrSizes}
    BY <1>3 DEF Specs
  <2>2. OrSizes \subseteq Nat
    BY DEF OrAssumption
  <2> QED BY <1>3, <2>1, <2>2 DEF Ranges
<1> QED BY <1>2, <1>3

LEMMA ResponseOK ==
  ASSUME OrAssumption, OrInv, orAt # 0, NEW c \in OrClients, NEW spec \in Specs(c)
  PROVE  LET k2 == Response(c, orClient[c], spec, orAt, orInodes[orAt]) IN
         ClientOK(c, k2, orInodes) /\ k2.at # "reading"
<1> DEFINE k == orClient[c]
           inode == orInodes[orAt]
           e == original_file_etag(orAt, inode)
           ranged == spec.form # "none" /\ if_range_matches(k.etag, e)
           range == parse_byte_range(spec, inode.size)
           start == IF ranged THEN range.start ELSE 0
           until == IF ranged THEN range.end + 1 ELSE inode.size
           goesOn == ranged /\ c \in OrResumers
           at == IF until - start > RAM_CAP THEN "stream" ELSE "memory"
           status == IF ranged THEN 206 ELSE 200
           sp == IF c \in OrSeekers THEN spec ELSE NoRange
           first == IF goesOn THEN k.first ELSE start
           got == IF goesOn THEN k.got ELSE <<>>
           tag == IF c \in OrResumers THEN e ELSE NoETag
           spoiled == goesOn /\ k.spoiled
           n == k.asked + 1
           k2 == Response(c, k, spec, orAt, inode)
<1> SUFFICES ClientOK(c, k2, orInodes) /\ k2.at # "reading"
  OBVIOUS
<1>1. k \in Clients /\ ClientOK(c, k, orInodes) /\ OrTypeOK
  BY DEF OrInv, ClientOK
<1>2. orAt \in 1 .. Len(orInodes) /\ orAt \in Nat /\ inode.size \in Nat /\ inode.version \in Nat
  <2>1. orAt \in 1 .. Len(orInodes) /\ Len(orInodes) \in Nat
    BY <1>1, LenProperties DEF OrTypeOK, FilesOK
  <2>2. inode \in Inodes
    BY <1>1, <2>1, ElementOfSeq DEF OrTypeOK, FilesOK
  <2> QED BY <2>1, <2>2 DEF Inodes
<1>3. e = <<orAt, inode.version, inode.size>> /\ e \in ETags
  BY <1>2 DEF original_file_etag, ETags
<1>4. /\ spec \in Ranges
      /\ c \in OrResumers /\ spec.form # "none" =>
           spec = [form |-> "from", a |-> Holding(k), b |-> 0] /\ Len(k.got) > 0
      /\ c \in OrSeekers => spec.form # "none"
  BY SpecsType
<1>5. CASE ranged /\ range.result # "ok"
  <2>1. k2 = Refused(k, 400) \/ k2 = Refused(k, 416)
    BY <1>5 DEF Response
  <2>2. 400 \in Nat /\ 416 \in Nat
    OBVIOUS
  <2> QED BY <1>1, <2>1, <2>2, RefusedOK
<1>6. CASE ~(ranged /\ range.result # "ok")
  <2>1. k2 = [at |-> at, ino |-> orAt, next |-> start, until |-> until, status |-> status,
              spec |-> sp, size |-> inode.size, first |-> first, got |-> got, etag |-> tag,
              spoiled |-> spoiled, asked |-> n]
    BY <1>6, Zenon DEF Response
  <2>2. start \in Nat /\ until \in Nat
    <3>1. CASE ranged
      <4>1. range.start \in Nat /\ range.end \in Nat
        BY <1>2, <1>4, <3>1, RangeType
      <4> HIDE DEF range, ranged
      <4> QED BY <3>1, <4>1
    <3>2. CASE ~ranged
      <4> HIDE DEF range, ranged
      <4> QED BY <1>2, <3>2
    <3> QED BY <3>1, <3>2
  <2>3. k.first \in Nat /\ k.got \in Seq(Contents) /\ Len(k.got) \in Nat /\ n \in Int
        /\ k.spoiled \in BOOLEAN
    <3>1. k.first \in Nat /\ k.got \in Seq(Contents) /\ Len(k.got) \in Nat /\ k.asked \in Int
      BY <1>1, Fields
    <3>2. k.spoiled \in BOOLEAN
      BY <1>1 DEF Clients
    <3> QED BY <3>1, <3>2
  <2>4. at \in {"memory", "stream"} /\ status \in {200, 206} /\ spoiled \in BOOLEAN
    <3> HIDE DEF ranged, start, until
    <3> QED OBVIOUS
  <2>5. sp \in Ranges /\ first \in Nat /\ got \in Seq(Contents) /\ tag \in {NoETag} \cup ETags
    <3>1. NoRange \in Ranges /\ <<>> \in Seq(Contents)
      BY EmptySeq DEF NoRange, Ranges
    <3> HIDE DEF goesOn, start, e, k
    <3> QED BY <1>3, <1>4, <2>2, <2>3, <3>1
  <2> DEFINE size == inode.size
  <2>6. /\ k2 \in Clients /\ k2.at = at /\ k2.ino = orAt /\ k2.next = start /\ k2.until = until
        /\ k2.status = status /\ k2.spec = sp /\ k2.size = size /\ k2.first = first
        /\ k2.got = got /\ k2.etag = tag /\ k2.spoiled = spoiled
    <3>1. k2 = [at |-> at, ino |-> orAt, next |-> start, until |-> until, status |-> status,
                spec |-> sp, size |-> size, first |-> first, got |-> got, etag |-> tag,
                spoiled |-> spoiled, asked |-> n]
      BY <2>1
    <3>2. size \in Nat /\ at \in {"idle", "memory", "stream", "reading", "sent"} /\ status \in Nat
      <4> HIDE DEF at, status
      <4> QED BY <1>2, <2>4
    <3> HIDE DEF at, start, until, status, sp, size, first, got, tag, spoiled, n, k2
    <3>3. spoiled \in BOOLEAN /\ n \in Int /\ orAt \in Nat
      BY <1>2, <2>3, <2>4
    <3> HIDE DEF inode
    <3> QED BY <2>2, <2>5, <3>1, <3>2, <3>3, Zenon DEF Clients
  <2>7. ASSUME ~ranged /\ c \in OrResumers PROVE ClientOK(c, k2, orInodes)
    <3>1. start = 0 /\ until = size /\ first = 0 /\ got = <<>> /\ tag = e
      BY <2>7
    <3> HIDE DEF k2, at, start, until, first, got, tag, e, size, status, sp, spoiled, ranged, k
    <3> QED BY <1>2, <1>3, <2>4, <2>6, <2>7, <3>1, WholeOK DEF size
  <2>8. ASSUME ranged /\ c \in OrResumers PROVE ClientOK(c, k2, orInodes)
    <3>1. spec = [form |-> "from", a |-> Holding(k), b |-> 0] /\ Len(k.got) > 0
      BY <1>4, <2>8
    <3>2. k.etag = e
      <4>1. Resumes(k, orInodes)
        BY <1>1, <2>8 DEF ClientOK
      <4>2. k.etag \in ETags
        BY <3>1, <4>1 DEF Resumes
      <4>3. k.etag # NoETag
        <5>1. Len(k.etag) = 3
          BY <4>2 DEF ETags
        <5> QED BY <5>1 DEF NoETag
      <4> QED BY <2>8, <4>3 DEF if_range_matches
    <3>3. range = Span(Holding(k), size - 1) /\ Holding(k) < size
      <4>1. spec.form = "from" /\ spec.a = Holding(k) /\ Holding(k) \in Nat
        <5>1. Holding(k) \in Nat
          BY <2>3 DEF Holding
        <5> QED BY <3>1, <5>1
      <4>2. range.result = "ok"
        BY <1>6, <2>8
      <4>3. size # 0 /\ ~(spec.a >= size)
        BY <4>1, <4>2 DEF parse_byte_range, RangeError
      <4>4. range = Span(spec.a, size - 1)
        BY <4>1, <4>3 DEF parse_byte_range
      <4> HIDE DEF range
      <4> QED BY <1>2, <4>1, <4>3, <4>4
    <3>4. start = Holding(k) /\ until = size
      <4>1. range.start = Holding(k) /\ range.end = size - 1
        BY <3>3 DEF Span
      <4> HIDE DEF range, ranged
      <4> QED BY <1>2, <2>8, <4>1
    <3>5. first = k.first /\ got = k.got /\ tag = e /\ spoiled = k.spoiled
      <4> HIDE DEF e, start
      <4> QED BY <2>3, <2>8
    <3> HIDE DEF k2, at, start, until, first, got, tag, e, spoiled, range, ranged, k
    <3>6. /\ k2.at \in {"memory", "stream"} /\ k2.ino = orAt /\ k2.next = Holding(k)
          /\ k2.until = size /\ k2.etag = k.etag /\ k2.first = k.first /\ k2.got = k.got
          /\ k2.spoiled = k.spoiled /\ k.etag = <<orAt, inode.version, size>>
      BY <1>3, <2>4, <2>6, <3>2, <3>4, <3>5 DEF size
    <3>7. k2 \in Clients /\ orAt \in 1 .. Len(orInodes) /\ orAt \in Nat /\ inode.version \in Nat
          /\ size \in Nat
      BY <1>2, <2>6 DEF size
    <3> HIDE DEF size
    <3> DEFINE v == inode.version
    <3>8. orInodes[orAt].version = v /\ v \in Nat
      BY <3>7
    <3>9. k.etag = <<orAt, v, size>>
      BY <3>6
    <3> HIDE DEF v, inode
    <3> QED BY <1>1, <2>8, <3>1, <3>3, <3>6, <3>7, <3>8, <3>9, ResumedOK
  <2>9. ASSUME c \in OrSeekers PROVE ClientOK(c, k2, orInodes)
    <3>1. c \notin OrResumers
      BY <2>9 DEF OrAssumption
    <3>2. k.etag = NoETag
      BY <1>1, <2>9 DEF ClientOK, Seeks
    <3>3. ranged /\ range.result = "ok" /\ spec.form # "none"
      BY <1>4, <1>6, <2>9, <3>2 DEF if_range_matches
    <3>4. start = range.start /\ until = range.end + 1 /\ status = 206 /\ first = range.start
          /\ got = <<>> /\ tag = NoETag /\ sp = spec
      <4> HIDE DEF ranged, range, e
      <4> QED BY <2>9, <3>1, <3>3
    <3>5. Asked(k2) = range
      BY <2>6, <3>4 DEF Asked
    <3> HIDE DEF k2, at, start, until, first, got, tag, e, spoiled, range, ranged, k, status, sp
    <3>6. /\ k2.at \in {"memory", "stream"} /\ k2.ino = orAt /\ k2.etag = NoETag /\ k2.got = <<>>
          /\ k2.status = 206 /\ k2.spec.form # "none" /\ Asked(k2).result = "ok"
          /\ k2.next = Asked(k2).start /\ k2.first = Asked(k2).start /\ k2.until = Asked(k2).end + 1
      BY <2>4, <2>6, <3>3, <3>4, <3>5
    <3>7. k2 \in Clients /\ orAt \in 1 .. Len(orInodes)
      BY <1>2, <2>6
    <3> QED BY <2>9, <3>6, <3>7, SeekOK
  <2>10. k2.at # "reading"
    <3> HIDE DEF k2, at
    <3> QED BY <2>4, <2>6
  <2> QED BY <2>7, <2>8, <2>9, <2>10 DEF OrClients
<1> QED BY <1>5, <1>6

-----------------------------------------------------------------------------
(* The steps.                                                              *)

LEMMA OneLess ==
  ASSUME NEW a \in Nat, NEW b \in Nat, NEW x \in Nat, NEW p \in Nat, NEW q \in Nat,
         p + q + 1 = a + b
  PROVE  p + q + (x + 1) = a + b + x
OBVIOUS

LEMMA OneMore ==
  ASSUME NEW a \in Nat, NEW b \in Nat, NEW x \in Nat, NEW p \in Nat, NEW q \in Nat,
         p + q = a + b + 1
  PROVE  p + q + (x - 1) = a + b + x
OBVIOUS

\* One client changes, and the permits with it.
LEMMA OneClient ==
  ASSUME OrAssumption, OrInv, NEW c \in OrClients, NEW k2,
         orClient' = [orClient EXCEPT ![c] = k2], ClientOK(c, k2, orInodes),
         UNCHANGED <<orInodes, orAt>>, orFree' \in Nat, orStuck' \in Nat,
         \/ (orClient[c].at = "reading" <=> k2.at = "reading") /\ orFree' + orStuck' = orFree + orStuck
         \/ orClient[c].at # "reading" /\ k2.at = "reading" /\ orFree' + orStuck' + 1 = orFree + orStuck
         \/ orClient[c].at = "reading" /\ k2.at # "reading" /\ orFree' + orStuck' = orFree + orStuck + 1
  PROVE  OrInv'
<1>1. orClient'[c] = k2 /\ \A d \in OrClients : d # c => orClient'[d] = orClient[d]
  BY DEF OrInv, OrTypeOK
<1>2. OrTypeOK'
  BY DEF OrInv, OrTypeOK, ClientOK
<1>3. \A d \in OrClients : ClientOK(d, orClient'[d], orInodes')
  BY <1>1 DEF OrInv
<1>4. ReadsBounded'
  <2> DEFINE R == {d \in OrClients : orClient[d].at = "reading"}
             S == {d \in OrClients : orClient'[d].at = "reading"}
  <2>1. IsFiniteSet(R) /\ Cardinality(R) \in Nat
    <3>1. IsFiniteSet(OrClients)
      BY FS_Union DEF OrAssumption, OrClients
    <3> QED BY <3>1, FS_Subset, FS_CardinalityType
  <2>2. orFree + orStuck + Cardinality(R) = OrReaders /\ orFree \in Nat /\ orStuck \in Nat
    BY DEF OrInv, OrTypeOK, ReadsBounded
  <2>3. CASE (orClient[c].at = "reading" <=> k2.at = "reading") /\ orFree' + orStuck' = orFree + orStuck
    <3>1. S = R
      BY <1>1, <2>3
    <3> QED BY <2>2, <2>3, <3>1 DEF ReadsBounded
  <2>4. CASE orClient[c].at # "reading" /\ k2.at = "reading" /\ orFree' + orStuck' + 1 = orFree + orStuck
    <3>1. S = R \cup {c} /\ c \notin R
      BY <1>1, <2>4
    <3> HIDE DEF R, S
    <3>2. Cardinality(S) = Cardinality(R) + 1
      BY <2>1, <3>1, FS_AddElement
    <3> DEFINE x == Cardinality(R) y == Cardinality(S) f == orFree' g == orStuck'
    <3>3. x \in Nat /\ y = x + 1 /\ f \in Nat /\ g \in Nat /\ orFree + orStuck + x = OrReaders
      BY <2>1, <2>2, <3>2
    <3> HIDE DEF x, y
    <3>4. f + g + 1 = orFree + orStuck
      BY <2>4
    <3> HIDE DEF f, g
    <3>5. f + g + (x + 1) = orFree + orStuck + x
      BY <2>2, <3>3, <3>4, OneLess
    <3>6. f + g + y = OrReaders
      BY <3>3, <3>5
    <3> QED BY <3>6 DEF ReadsBounded, S, y, f, g
  <2>5. CASE orClient[c].at = "reading" /\ k2.at # "reading" /\ orFree' + orStuck' = orFree + orStuck + 1
    <3>1. S = R \ {c} /\ c \in R
      BY <1>1, <2>5
    <3> HIDE DEF R, S
    <3>2. Cardinality(S) = Cardinality(R) - 1
      BY <2>1, <3>1, FS_RemoveElement
    <3> DEFINE x == Cardinality(R) y == Cardinality(S) f == orFree' g == orStuck'
    <3>3. x \in Nat /\ y = x - 1 /\ f \in Nat /\ g \in Nat /\ orFree + orStuck + x = OrReaders
      BY <2>1, <2>2, <3>2
    <3> HIDE DEF x, y
    <3>4. f + g = orFree + orStuck + 1
      BY <2>5
    <3> HIDE DEF f, g
    <3>5. f + g + (x - 1) = orFree + orStuck + x
      BY <2>2, <3>3, <3>4, OneMore
    <3>6. f + g + y = OrReaders
      BY <3>3, <3>5
    <3> QED BY <3>6 DEF ReadsBounded, S, y, f, g
  <2> QED BY <2>3, <2>4, <2>5
<1> QED BY <1>2, <1>3, <1>4 DEF OrInv

LEMMA Here ==
  ASSUME OrInv, NEW c \in OrClients
  PROVE  /\ orClient[c] \in Clients /\ ClientOK(c, orClient[c], orInodes) /\ OrTypeOK
         /\ orFree \in Nat /\ orStuck \in Nat
BY DEF OrInv, ClientOK, OrTypeOK

LEMMA RequestKeeps ==
  ASSUME OrAssumption, OrInv, NEW c \in OrClients, OrRequest(c)
  PROVE  OrInv'
<1> DEFINE k == orClient[c]
<1>1. PICK spec \in Specs(c) : orClient' = [orClient EXCEPT ![c] =
         IF orAt = 0 THEN Refused(k, 404) ELSE Response(c, k, spec, orAt, orInodes[orAt])]
  BY DEF OrRequest
<1> DEFINE k2 == IF orAt = 0 THEN Refused(k, 404) ELSE Response(c, k, spec, orAt, orInodes[orAt])
<1>2. ClientOK(c, k2, orInodes) /\ k2.at # "reading"
  <2>1. CASE orAt = 0
    <3>1. 404 \in Nat
      OBVIOUS
    <3> QED BY <2>1, <3>1, Here, RefusedOK
  <2>2. CASE orAt # 0
    BY <2>2, ResponseOK
  <2> QED BY <2>1, <2>2
<1>3. k.at = "idle" /\ UNCHANGED <<orInodes, orAt, orFree, orStuck>>
  BY DEF OrRequest
<1>4. orClient' = [orClient EXCEPT ![c] = k2]
  BY <1>1
<1> HIDE DEF k2
<1> QED BY <1>2, <1>3, <1>4, Here, OneClient

LEMMA MemoryKeeps ==
  ASSUME OrAssumption, OrInv, NEW c \in OrClients, OrMemory(c)
  PROVE  OrInv'
<1> DEFINE k == orClient[c]
<1>1. k.at = "memory" /\ Active(k) /\ UNCHANGED <<orInodes, orAt, orFree, orStuck>>
  BY DEF OrMemory, Active
<1>2. PICK n \in 0 .. k.until - k.next : orClient' = [orClient EXCEPT ![c] =
         IF orInodes[k.ino].size < k.until THEN Refused([k EXCEPT !.asked = @ - 1], 500)
         ELSE Ended(Take(k, n))]
  BY DEF OrMemory
<1>3. CASE orInodes[k.ino].size < k.until
  <2> DEFINE j == [k EXCEPT !.asked = @ - 1]
  <2>1. j \in Clients /\ 500 \in Nat
    <3>1. k \in Clients /\ k.asked - 1 \in Int
      BY Here, Fields
    <3> DEFINE q == k.asked - 1
    <3>2. j = [k EXCEPT !.asked = q] /\ q \in Int
      BY <3>1
    <3>3. 500 \in Nat
      OBVIOUS
    <3> HIDE DEF k, q, j
    <3>4. j \in Clients
      BY <3>1, <3>2 DEF Clients
    <3> QED BY <3>3, <3>4
  <2> HIDE DEF j
  <2> DEFINE k2 == Refused(j, 500)
  <2>2. ClientOK(c, k2, orInodes) /\ k2.at = "idle"
    BY <2>1, RefusedOK
  <2>3. orClient' = [orClient EXCEPT ![c] = k2]
    BY <1>2, <1>3 DEF j
  <2> HIDE DEF k2
  <2> QED BY <1>1, <2>2, <2>3, Here, OneClient
<1>4. CASE ~(orInodes[k.ino].size < k.until)
  <2> DEFINE k1 == Take(k, n)
             k2 == Ended(k1)
  <2>1. n \in Nat /\ k.next + n <= k.until
    <3>1. k.next \in Nat /\ k.until \in Nat
      BY Here, Fields
    <3> QED BY <3>1
  <2>2. ClientOK(c, k1, orInodes) /\ k1.at = k.at
    BY <1>1, <2>1, Here, TakeOK
  <2> HIDE DEF k1
  <2>3. ClientOK(c, k2, orInodes) /\ k2.at \in {"idle", "sent"}
    BY <1>1, <2>2, EndedOK DEF Active
  <2>4. orClient' = [orClient EXCEPT ![c] = k2]
    BY <1>2, <1>4 DEF k1
  <2> HIDE DEF k2
  <2> QED BY <1>1, <2>3, <2>4, Here, OneClient
<1> QED BY <1>3, <1>4

LEMMA ReadKeeps ==
  ASSUME OrAssumption, OrInv, NEW c \in OrClients, OrRead(c)
  PROVE  OrInv'
<1> DEFINE k == orClient[c]
           k2 == [k EXCEPT !.at = "reading"]
<1>1. k \in Clients /\ ClientOK(c, k, orInodes) /\ k.at = "stream"
  BY Here DEF OrRead
<1>2. /\ k2 \in Clients /\ k2.at = "reading" /\ k2.got = k.got /\ k2.first = k.first
      /\ k2.etag = k.etag /\ k2.spoiled = k.spoiled /\ k2.status = k.status /\ k2.spec = k.spec
      /\ k2.size = k.size /\ k2.ino = k.ino /\ k2.next = k.next /\ k2.until = k.until
  <2> HIDE DEF k
  <2> QED BY <1>1 DEF Clients
<1>3. orClient' = [orClient EXCEPT ![c] = k2] /\ UNCHANGED <<orInodes, orAt, orStuck>>
      /\ orFree > 0 /\ orFree' = orFree - 1
  BY DEF OrRead
<1> HIDE DEF k2
<1>4. ClientOK(c, k2, orInodes)
  <2>1. Sending(k2, orInodes)
    BY <1>1, <1>2 DEF ClientOK, Sending, Active, Holding
  <2>2. c \in OrResumers => Resumes(k2, orInodes)
    BY <1>1, <1>2 DEF ClientOK, Resumes, Active
  <2>3. c \in OrSeekers => Seeks(k2)
    BY <1>1, <1>2 DEF ClientOK, Seeks, Active, Asked
  <2> QED BY <1>2, <2>1, <2>2, <2>3 DEF ClientOK
<1>5. orFree' \in Nat /\ orStuck' \in Nat /\ orFree' + orStuck' + 1 = orFree + orStuck
  BY <1>3, Here
<1> QED BY <1>1, <1>2, <1>3, <1>4, <1>5, OneClient

LEMMA ReadDoneKeeps ==
  ASSUME OrAssumption, OrInv, NEW c \in OrClients, OrReadDone(c)
  PROVE  OrInv'
<1> DEFINE k == orClient[c]
           left == Smaller(k.until, orInodes[k.ino].size) - k.next
           t == Take(k, 1)
           k2 == IF left <= 0 THEN Ended(k)
                 ELSE IF t.next = t.until THEN Ended(t) ELSE [t EXCEPT !.at = "stream"]
<1>1. k.at = "reading" /\ Active(k) /\ orFree' = orFree + 1 /\ UNCHANGED <<orInodes, orAt, orStuck>>
  BY DEF OrReadDone, Active
<1>2. orClient' = [orClient EXCEPT ![c] = k2]
  BY DEF OrReadDone
<1>3. ClientOK(c, k2, orInodes) /\ k2.at # "reading"
  <2>1. CASE left <= 0
    <3>1. k2 = Ended(k)
      BY <2>1
    <3> HIDE DEF k2
    <3> QED BY <1>1, <3>1, Here, EndedOK
  <2>2. CASE ~(left <= 0)
    <3>1. k.next + 1 <= k.until /\ k.next \in Nat
      <4>1. k.next \in Nat /\ k.until \in Nat
        BY Here, Fields
      <4>2. orInodes[k.ino].size \in Nat
        <5>1. k.ino \in 1 .. Len(orInodes)
          BY <1>1, Here DEF ClientOK, Sending
        <5>2. orInodes[k.ino] \in Inodes
          BY <5>1, Here, ElementOfSeq DEF OrTypeOK, FilesOK
        <5> QED BY <5>2 DEF Inodes
      <4>3. Smaller(k.until, orInodes[k.ino].size) <= k.until /\ Smaller(k.until, orInodes[k.ino].size) \in Nat
        BY <4>1, <4>2 DEF Smaller
      <4> QED BY <2>2, <4>1, <4>3
    <3>2. ClientOK(c, t, orInodes) /\ t.at = "reading" /\ 1 \in Nat
      BY <1>1, <3>1, Here, TakeOK
    <3>3. k2 = IF t.next = t.until THEN Ended(t) ELSE [t EXCEPT !.at = "stream"]
      BY <2>2
    <3> HIDE DEF k2, t
    <3>4. CASE t.next = t.until
      <4>1. k2 = Ended(t) /\ Active(t)
        BY <3>2, <3>3, <3>4 DEF Active
      <4> QED BY <3>2, <4>1, EndedOK
    <3>5. CASE t.next # t.until
      <4>1. k2 = [t EXCEPT !.at = "stream"] /\ t \in Clients
        BY <3>2, <3>3, <3>5 DEF ClientOK
      <4>2. /\ k2 \in Clients /\ k2.at = "stream" /\ k2.got = t.got /\ k2.first = t.first
            /\ k2.etag = t.etag /\ k2.spoiled = t.spoiled /\ k2.status = t.status /\ k2.spec = t.spec
            /\ k2.size = t.size /\ k2.ino = t.ino /\ k2.next = t.next /\ k2.until = t.until
        BY <4>1 DEF Clients
      <4>3. Sending(k2, orInodes)
        BY <3>2, <4>2 DEF ClientOK, Sending, Active, Holding
      <4>4. c \in OrResumers => Resumes(k2, orInodes)
        BY <3>2, <4>2 DEF ClientOK, Resumes, Active
      <4>5. c \in OrSeekers => Seeks(k2)
        BY <3>2, <4>2 DEF ClientOK, Seeks, Active, Asked
      <4> QED BY <4>2, <4>3, <4>4, <4>5 DEF ClientOK
    <3> QED BY <3>4, <3>5
  <2> QED BY <2>1, <2>2
<1> HIDE DEF k2, t, left
<1>4. orFree' \in Nat /\ orStuck' \in Nat /\ orFree' + orStuck' = orFree + orStuck + 1
  BY <1>1, Here
<1> QED BY <1>1, <1>2, <1>3, <1>4, OneClient

LEMMA BreakKeeps ==
  ASSUME OrAssumption, OrInv, NEW c \in OrClients, OrBreak(c)
  PROVE  OrInv'
<1> DEFINE k == orClient[c]
           k2 == Ended(k)
<1>1. k.at \in {"stream", "reading"} /\ UNCHANGED <<orInodes, orAt, orFree>>
      /\ orStuck' = orStuck + (IF k.at = "reading" THEN 1 ELSE 0)
      /\ orClient' = [orClient EXCEPT ![c] = k2]
  BY DEF OrBreak
<1>2. ClientOK(c, k2, orInodes) /\ k2.at \in {"idle", "sent"}
  BY <1>1, Here, EndedOK DEF Active
<1> HIDE DEF k2
<1>3. CASE k.at = "reading"
  <2>1. orFree' \in Nat /\ orStuck' \in Nat /\ orFree' + orStuck' = orFree + orStuck + 1
    BY <1>1, <1>3, Here
  <2> QED BY <1>1, <1>2, <1>3, <2>1, OneClient
<1>4. CASE k.at # "reading"
  <2>1. orFree' \in Nat /\ orStuck' \in Nat /\ orFree' + orStuck' = orFree + orStuck
    BY <1>1, <1>4, Here
  <2> QED BY <1>1, <1>2, <1>4, <2>1, OneClient
<1> QED BY <1>3, <1>4

LEMMA StuckReturnsKeeps ==
  ASSUME OrInv, OrStuckReturns
  PROVE  OrInv'
<1>1. /\ UNCHANGED <<orInodes, orAt, orClient>> /\ orStuck > 0
      /\ orStuck' = orStuck - 1 /\ orFree' = orFree + 1 /\ orFree \in Nat /\ orStuck \in Nat
  BY DEF OrStuckReturns, OrInv, OrTypeOK
<1>2. orFree' \in Nat /\ orStuck' \in Nat /\ orFree' + orStuck' = orFree + orStuck
  BY <1>1
<1>3. OrTypeOK'
  BY <1>1, <1>2 DEF OrInv, OrTypeOK
<1>4. ReadsBounded'
  BY <1>1, <1>2 DEF OrInv, ReadsBounded
<1> QED BY <1>1, <1>3, <1>4 DEF OrInv

\* A file that is added, or the path that leads nowhere.
LEMMA LibraryKeeps ==
  ASSUME OrAssumption, OrInv, OrMissing \/ \E s \in OrSizes : OrReplace(s)
  PROVE  OrInv'
<1>1. /\ orInodes \in Seq(Inodes) /\ orInodes # <<>> /\ orClient \in [OrClients -> Clients]
      /\ orFree \in Nat /\ orStuck \in Nat
  BY DEF OrInv, OrTypeOK, FilesOK
<1>2. CASE OrMissing
  <2>1. orAt' = 0 /\ UNCHANGED <<orInodes, orClient, orFree, orStuck>>
    BY <1>2 DEF OrMissing
  <2>2. Len(orInodes) \in Nat
    BY <1>1, LenProperties
  <2> QED BY <1>1, <2>1, <2>2 DEF OrInv, OrTypeOK, FilesOK, ReadsBounded
<1>3. CASE \E s \in OrSizes : OrReplace(s)
  <2>1. PICK s \in OrSizes : OrReplace(s)
    BY <1>3
  <2> DEFINE x == [version |-> 0, size |-> s]
  <2>2. x \in Inodes
    BY DEF Inodes, OrAssumption
  <2>3. orInodes' = Append(orInodes, x) /\ orAt' = Len(orInodes) + 1 /\ UNCHANGED <<orClient, orFree, orStuck>>
    BY <2>1 DEF OrReplace
  <2> HIDE DEF x
  <2>4. orInodes' \in Seq(Inodes) /\ Len(orInodes') = Len(orInodes) + 1 /\ Len(orInodes) \in Nat
        /\ orInodes' # <<>>
    BY <1>1, <2>2, <2>3
  <2>5. OrTypeOK'
    BY <1>1, <2>3, <2>4 DEF OrTypeOK, FilesOK
  <2>6. \A c \in OrClients : ClientOK(c, orClient[c], orInodes')
    BY <1>1, <2>2, <2>3, LaterOK DEF OrInv
  <2> QED BY <2>3, <2>5, <2>6 DEF OrInv, ReadsBounded
<1> QED BY <1>2, <1>3

\* The file is written in place: what is being sent of it is spoiled.
LEMMA RewriteKeeps ==
  ASSUME OrAssumption, OrInv, NEW s \in OrSizes, OrRewrite(s)
  PROVE  OrInv'
<1> DEFINE x == [version |-> orInodes[orAt].version + 1, size |-> s]
<1>1. /\ orInodes \in Seq(Inodes) /\ orInodes # <<>> /\ orClient \in [OrClients -> Clients]
      /\ orFree \in Nat /\ orStuck \in Nat /\ orAt \in 1 .. Len(orInodes) /\ Len(orInodes) \in Nat
  BY LenProperties DEF OrInv, OrTypeOK, FilesOK, OrRewrite
<1>2. x \in Inodes
  <2>1. orInodes[orAt] \in Inodes
    BY <1>1, ElementOfSeq
  <2>2. orInodes[orAt].version + 1 \in Nat /\ s \in Nat
    BY <2>1 DEF Inodes, OrAssumption
  <2> QED BY <2>2 DEF Inodes
<1>3. orInodes' = [orInodes EXCEPT ![orAt] = x] /\ UNCHANGED <<orAt, orFree, orStuck>>
  BY DEF OrRewrite
<1> HIDE DEF x
<1>4. /\ orInodes' \in Seq(Inodes) /\ Len(orInodes') = Len(orInodes) /\ orInodes' # <<>>
      /\ \A i \in 1 .. Len(orInodes) : i # orAt => orInodes'[i] = orInodes[i]
  <2>1. /\ orInodes' \in Seq(Inodes) /\ Len(orInodes') = Len(orInodes)
        /\ \A i \in 1 .. Len(orInodes) : orInodes'[i] = IF i = orAt THEN x ELSE orInodes[i]
    BY <1>1, <1>2, <1>3, ExceptSeq
  <2>2. Len(orInodes) # 0
    BY <1>1, EmptySeq
  <2>3. orInodes' # <<>>
    BY <2>1, <2>2, EmptySeq
  <2> QED BY <2>1, <2>3
<1>5. ASSUME NEW c \in OrClients
      PROVE  /\ ClientOK(c, orClient'[c], orInodes')
             /\ orClient'[c].at = orClient[c].at
  <2> DEFINE k == orClient[c]
             b == k.spoiled \/ (k.ino = orAt /\ Active(k))
             k2 == orClient'[c]
  <2>1. k \in Clients /\ ClientOK(c, k, orInodes)
    BY <1>1 DEF OrInv
  <2>2. k2 = [k EXCEPT !.spoiled = b]
    BY DEF OrRewrite, Active
  <2>3. b \in BOOLEAN
    BY <2>1 DEF Clients
  <2>4. ~b => ~k.spoiled /\ (Active(k) => k.ino # orAt)
    OBVIOUS
  <2> HIDE DEF k, k2, b
  <2>5. /\ k2 \in Clients /\ k2.at = k.at /\ k2.got = k.got /\ k2.first = k.first
        /\ k2.etag = k.etag /\ k2.spoiled = b /\ k2.status = k.status /\ k2.spec = k.spec
        /\ k2.size = k.size /\ k2.ino = k.ino /\ k2.next = k.next /\ k2.until = k.until
    BY <2>1, <2>2, <2>3 DEF Clients
  <2>6. (Active(k2) <=> Active(k)) /\ Holding(k2) = Holding(k) /\ Asked(k2) = Asked(k)
    BY <2>5 DEF Active, Holding, Asked
  <2>7. Sending(k2, orInodes')
    BY <1>4, <2>1, <2>5, <2>6 DEF ClientOK, Sending
  <2>8. c \in OrResumers => Resumes(k2, orInodes')
    <3> SUFFICES ASSUME c \in OrResumers PROVE Resumes(k2, orInodes')
      OBVIOUS
    <3>1. Resumes(k, orInodes) /\ Sending(k, orInodes)
      BY <2>1 DEF ClientOK
    <3>2. ~b => \A i \in 1 .. Len(k.got) : k.got[i] = <<k.etag[1], k.etag[2]>>
      BY <2>4, <3>1 DEF Resumes
    <3>3. ~b /\ Active(k) => orInodes'[k.ino].version = k.etag[2]
      BY <1>4, <2>4, <3>1 DEF Resumes, Sending
    <3> QED BY <2>5, <2>6, <3>1, <3>2, <3>3 DEF Resumes
  <2>9. c \in OrSeekers => Seeks(k2)
    BY <2>1, <2>5, <2>6 DEF ClientOK, Seeks
  <2>10. ClientOK(c, k2, orInodes')
    BY <2>5, <2>7, <2>8, <2>9 DEF ClientOK
  <2> QED BY <2>5, <2>10 DEF k, k2
<1>6. OrTypeOK'
  <2>1. orClient' \in [OrClients -> Clients]
    <3>1. orClient' = [c \in OrClients |-> orClient'[c]]
      BY DEF OrRewrite
    <3>2. \A c \in OrClients : orClient'[c] \in Clients
      BY <1>5 DEF ClientOK
    <3> QED BY <3>1, <3>2
  <2> QED BY <1>1, <1>3, <1>4, <2>1 DEF OrTypeOK, FilesOK
<1>7. ReadsBounded'
  <2>1. {c \in OrClients : orClient'[c].at = "reading"} = {c \in OrClients : orClient[c].at = "reading"}
    BY <1>5
  <2> QED BY <1>3, <2>1 DEF OrInv, ReadsBounded
<1> QED BY <1>5, <1>6, <1>7 DEF OrInv

-----------------------------------------------------------------------------
(* The theorem.                                                            *)

LEMMA OrInit_OrInv ==
  ASSUME OrAssumption, OrInit
  PROVE  OrInv
<1>1. PICK s \in OrSizes : orInodes = <<[version |-> 0, size |-> s]>>
  BY DEF OrInit
<1> DEFINE x == [version |-> 0, size |-> s]
<1>2. x \in Inodes
  BY DEF Inodes, OrAssumption
<1>3. orInodes = <<x>>
  BY <1>1
<1> HIDE DEF x
<1>4. orInodes \in Seq(Inodes) /\ Len(orInodes) = 1 /\ orInodes # <<>>
  BY <1>2, <1>3
<1>5. /\ orAt = 1 /\ orFree = OrReaders /\ orStuck = 0 /\ orFree \in Nat
      /\ \A c \in OrClients : orClient[c] = OrIdle
  BY DEF OrInit, OrAssumption
<1>6. OrIdle \in Clients
  <2>1. NoRange \in Ranges
    BY DEF NoRange, Ranges
  <2>2. <<>> \in Seq(Contents)
    BY EmptySeq
  <2>3. 0 \in Nat /\ 0 \in Int
    OBVIOUS
  <2> QED BY <2>1, <2>2, <2>3, Zenon DEF OrIdle, Clients, NoETag
<1>7. OrTypeOK
  <2>1. orClient \in [OrClients -> Clients]
    BY <1>6 DEF OrInit
  <2> QED BY <1>4, <1>5, <2>1 DEF OrTypeOK, FilesOK
<1>8. \A c \in OrClients : ClientOK(c, orClient[c], orInodes)
  <2>1. OrIdle.at = "idle" /\ OrIdle.first = 0 /\ OrIdle.got = <<>> /\ OrIdle.etag = NoETag /\ Len(<<>>) = 0
    BY DEF OrIdle
  <2>2. Sending(OrIdle, orInodes) /\ Resumes(OrIdle, orInodes) /\ Seeks(OrIdle)
    BY <2>1 DEF Sending, Resumes, Seeks, Active
  <2> QED BY <1>5, <1>6, <2>2 DEF ClientOK
<1>9. ReadsBounded
  <2>1. {c \in OrClients : orClient[c].at = "reading"} = {}
    BY <1>5 DEF OrIdle
  <2>2. Cardinality({}) = 0
    BY FS_EmptySet
  <2>3. OrReaders \in Nat
    BY DEF OrAssumption
  <2> QED BY <1>5, <2>1, <2>2, <2>3 DEF ReadsBounded
<1> QED BY <1>7, <1>8, <1>9 DEF OrInv

LEMMA OrNext_OrInv ==
  ASSUME OrAssumption, OrInv, [OrNext]_orVars
  PROVE  OrInv'
<1>1. CASE UNCHANGED orVars
  BY <1>1 DEF orVars, OrInv, OrTypeOK, ReadsBounded
<1>2. CASE OrStuckReturns
  BY <1>2, StuckReturnsKeeps
<1>3. CASE OrMissing \/ \E s \in OrSizes : OrReplace(s)
  BY <1>3, LibraryKeeps
<1>4. CASE \E s \in OrSizes : OrRewrite(s)
  BY <1>4, RewriteKeeps
<1>5. ASSUME NEW c \in OrClients, OrRequest(c) \/ OrServe(c)
      PROVE  OrInv'
  <2>1. CASE OrRequest(c)
    BY <2>1, RequestKeeps
  <2>2. CASE OrMemory(c)
    BY <2>2, MemoryKeeps
  <2>3. CASE OrRead(c)
    BY <2>3, ReadKeeps
  <2>4. CASE OrReadDone(c)
    BY <2>4, ReadDoneKeeps
  <2>5. CASE OrBreak(c)
    BY <2>5, BreakKeeps
  <2> QED BY <1>5, <2>1, <2>2, <2>3, <2>4, <2>5 DEF OrServe
<1> QED BY <1>1, <1>2, <1>3, <1>4, <1>5 DEF OrNext

(* Whatever the clients ask for and however the library changes, a download  *)
(* put together from several answers is one file, a seek gets the bytes it   *)
(* asked for, and no read runs without a permit (http_app.rs:                *)
(* media_with_open_errors; range.rs; file_delivery.rs: ReadSlot).            *)
THEOREM OriginalsAlwaysWhole == OrSpec => []OriginalsWhole
<1> USE OrAssumption
<1>1. OrInit => OrInv
  BY OrInit_OrInv
<1>2. OrInv /\ [OrNext]_orVars => OrInv'
  BY OrNext_OrInv
<1> QED BY <1>1, <1>2, InvImpliesWhole, PTL DEF OrSpec
================================================================================
