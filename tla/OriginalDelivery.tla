-------------------------- MODULE OriginalDelivery --------------------------
(***************************************************************************)
(* Serving an original file (crates/server/src/http_app.rs,                *)
(* media_with_open_errors from open_allowed_file on; file_delivery.rs;     *)
(* crates/http/src/range.rs), against clients that resume a download with  *)
(* Range and If-Range, or seek in the file with Range alone, while the     *)
(* file is replaced or rewritten.                                          *)
(***************************************************************************)
EXTENDS Integers, Sequences, FiniteSets

CONSTANTS
  OrResumers,  \* clients that download the whole file, resuming where they stopped
  OrSeekers,   \* clients that ask for one range
  OrSizes,     \* sizes a file may have
  RAM_CAP,     \* longest span answered from memory
  OrReaders,   \* permits of App::original_reads
  OrChanges,   \* bound: changes of the file
  OrRequests   \* bound: requests of a client

ASSUME OrAssumption ==
  /\ IsFiniteSet(OrResumers) /\ IsFiniteSet(OrSeekers) /\ OrResumers \cap OrSeekers = {}
  /\ OrSizes \subseteq Nat
  /\ RAM_CAP \in Nat \ {0} /\ OrReaders \in Nat \ {0}
  /\ OrChanges \in Nat /\ OrRequests \in Nat

OrClients == OrResumers \cup OrSeekers

VARIABLES
  orInodes,  \* the files there have been: contents (a version) and size
  orAt,      \* which of them the item's path leads to; 0 when it is missing
  orClient,  \* what each client has and what is being sent to it: see OrIdle
  orFree,    \* permits of original_reads
  orStuck    \* reads still running for a connection that is gone

orVars == <<orInodes, orAt, orClient, orFree, orStuck>>

NoRange == [form |-> "none", a |-> 0, b |-> 0]
NoETag == <<>>

(* at: what the server does for it; ino, next, until: the descriptor it    *)
(* reads and the bytes still to send; status: of the response; got: what   *)
(* the client holds, as <<inode, version>> of each byte, from `first` on;  *)
(* etag: what came with it; spoiled: whether the file was written in place *)
(* while it was being sent (a ghost); asked: requests made.                *)
OrIdle == [at |-> "idle", ino |-> 0, next |-> 0, until |-> 0, status |-> 0,
           spec |-> NoRange, size |-> 0, first |-> 0, got |-> <<>>, etag |-> NoETag,
           spoiled |-> FALSE, asked |-> 0]

OrInit ==
  /\ orInodes \in {<<[version |-> 0, size |-> s]>> : s \in OrSizes}
  /\ orAt = 1
  /\ orClient = [c \in OrClients |-> OrIdle]
  /\ orFree = OrReaders
  /\ orStuck = 0

-----------------------------------------------------------------------------
(* range.rs                                                                *)

\* Mutant: the validator is the size alone.
original_file_etag_of_size(ino, inode) == <<inode.size>>

\* The physical identity, the times (a version stands for them) and the size.
original_file_etag(ino, inode) == <<ino, inode.version, inode.size>>

\* Mutant: a range is taken whatever the client holds.
if_range_ignored(if_range, etag) == TRUE

if_range_matches(if_range, etag) == if_range = NoETag \/ if_range = etag

Span(start, end) == [result |-> "ok", start |-> start, end |-> end]
RangeError(e) == [result |-> e, start |-> 0, end |-> 0]

Smaller(x, y) == IF x < y THEN x ELSE y

\* Mutant: the last byte asked for is taken for the end of the range.
parse_byte_range_half_open(r, size) ==
  IF size = 0 THEN RangeError("unsatisfiable")
  ELSE IF r.form = "last"
       THEN IF r.a = 0 THEN RangeError("invalid") ELSE Span(size - Smaller(r.a, size), size - 1)
  ELSE IF r.a >= size THEN RangeError("unsatisfiable")
  ELSE IF r.form = "from" THEN Span(r.a, size - 1)
  ELSE IF r.b <= r.a THEN RangeError("invalid")
  ELSE Span(r.a, Smaller(r.b - 1, size - 1))

(* "bytes=a-b", "bytes=a-" ("from") and "bytes=-a" ("last"); what has      *)
(* another form is invalid.                                                *)
parse_byte_range(r, size) ==
  IF size = 0 THEN RangeError("unsatisfiable")
  ELSE IF r.form = "last"
       THEN IF r.a = 0 THEN RangeError("invalid") ELSE Span(size - Smaller(r.a, size), size - 1)
  ELSE IF r.a >= size THEN RangeError("unsatisfiable")
  ELSE IF r.form = "from" THEN Span(r.a, size - 1)
  ELSE IF r.b < r.a THEN RangeError("invalid")
  ELSE Span(r.a, Smaller(r.b, size - 1))

-----------------------------------------------------------------------------
(* A request.                                                              *)

Holding(k) == k.first + Len(k.got)

\* A client that resumes asks for the rest and names what it has.
Specs(c) ==
  IF c \in OrResumers
  THEN IF orClient[c].got = <<>> THEN {NoRange}
       ELSE {[form |-> "from", a |-> Holding(orClient[c]), b |-> 0]}
  ELSE {[form |-> f, a |-> x, b |-> y] : f \in {"from", "last"}, x \in OrSizes, y \in {0}}
       \cup {[form |-> "span", a |-> x, b |-> y] : x, y \in OrSizes}

\* What the client keeps when the server refuses: it starts over.
Refused(k, status) == [OrIdle EXCEPT !.asked = k.asked + 1, !.status = status]

(* The file is opened once and its metadata are taken from the descriptor: *)
(* the range, the headers and every byte refer to that file.  A span of at *)
(* most RAM_CAP is read into the response, a longer one follows it.        *)
Response(c, k, spec, ino, inode) ==
  LET etag == original_file_etag(ino, inode)
      ranged == spec.form # "none" /\ if_range_matches(k.etag, etag)
      range == parse_byte_range(spec, inode.size)
      start == IF ranged THEN range.start ELSE 0
      until == IF ranged THEN range.end + 1 ELSE inode.size
      goesOn == ranged /\ c \in OrResumers
  IN IF ranged /\ range.result # "ok"
     THEN Refused(k, IF range.result = "invalid" THEN 400 ELSE 416)
     ELSE [at |-> IF until - start > RAM_CAP THEN "stream" ELSE "memory",
           ino |-> ino, next |-> start, until |-> until,
           status |-> IF ranged THEN 206 ELSE 200,
           spec |-> IF c \in OrSeekers THEN spec ELSE NoRange, size |-> inode.size,
           first |-> IF goesOn THEN k.first ELSE start,
           got |-> IF goesOn THEN k.got ELSE <<>>,
           etag |-> IF c \in OrResumers THEN etag ELSE NoETag,
           spoiled |-> goesOn /\ k.spoiled, asked |-> k.asked + 1]

OrRequest(c) ==
  LET k == orClient[c] IN
  /\ k.at = "idle" /\ k.asked < OrRequests
  /\ \E spec \in Specs(c) :
       orClient' = [orClient EXCEPT ![c] =
         IF orAt = 0 THEN Refused(k, 404) ELSE Response(c, k, spec, orAt, orInodes[orAt])]
  /\ UNCHANGED <<orInodes, orAt, orFree, orStuck>>

\* Mutant: the file is opened again by its path when its bytes are needed.
Bytes_by_path(k, n) ==
  [i \in 1 .. n |-> <<IF orAt = 0 THEN k.ino ELSE orAt,
                      orInodes[IF orAt = 0 THEN k.ino ELSE orAt].version>>]

\* n bytes of the descriptor, as they are now.
Bytes(k, n) == [i \in 1 .. n |-> <<k.ino, orInodes[k.ino].version>>]

\* The response has been sent, or as much of it as the client took.
Ended(k) == [k EXCEPT !.at = IF k.next = k.until THEN "sent" ELSE "idle",
                      !.ino = 0, !.next = 0, !.until = 0]
Take(k, n) == [k EXCEPT !.got = @ \o Bytes(k, n), !.next = @ + n]

(* read_open_file_range: the whole span, or 500.  The client takes all of  *)
(* it or loses the connection before.                                      *)
OrMemory(c) ==
  LET k == orClient[c] IN
  /\ k.at = "memory"
  /\ \E n \in 0 .. k.until - k.next :
       orClient' = [orClient EXCEPT ![c] =
         IF orInodes[k.ino].size < k.until THEN Refused([k EXCEPT !.asked = @ - 1], 500)
         ELSE Ended(Take(k, n))]
  /\ UNCHANGED <<orInodes, orAt, orFree, orStuck>>

\* A read begins once there is a permit; its worker holds it.
OrRead(c) ==
  /\ orClient[c].at = "stream" /\ orFree > 0
  /\ orClient' = [orClient EXCEPT ![c].at = "reading"]
  /\ orFree' = orFree - 1
  /\ UNCHANGED <<orInodes, orAt, orStuck>>

(* It returns: some bytes, which the client takes, or the end of the file, *)
(* which ends the connection before its promised length.                   *)
OrReadDone(c) ==
  LET k == orClient[c] left == Smaller(k.until, orInodes[k.ino].size) - k.next IN
  /\ k.at = "reading"
  /\ orFree' = orFree + 1
  /\ orClient' = [orClient EXCEPT ![c] =
       IF left <= 0 THEN Ended(k)
       ELSE LET t == Take(k, 1)
            IN IF t.next = t.until THEN Ended(t) ELSE [t EXCEPT !.at = "stream"]]
  /\ UNCHANGED <<orInodes, orAt, orStuck>>

\* Mutant: giving up the connection gives up the permit of its read.
OrBreak_frees_permit(c) ==
  /\ orClient[c].at \in {"stream", "reading"}
  /\ orClient' = [orClient EXCEPT ![c] = Ended(@)]
  /\ orStuck' = orStuck + (IF orClient[c].at = "reading" THEN 1 ELSE 0)
  /\ orFree' = orFree + (IF orClient[c].at = "reading" THEN 1 ELSE 0)
  /\ UNCHANGED <<orInodes, orAt>>

(* The connection ends: the client is gone or stalls, a read or the wait   *)
(* for a permit is too long, or the server stops.  The read of a worker    *)
(* cannot be interrupted: it keeps its permit until it returns.            *)
OrBreak(c) ==
  /\ orClient[c].at \in {"stream", "reading"}
  /\ orClient' = [orClient EXCEPT ![c] = Ended(@)]
  /\ orStuck' = orStuck + (IF orClient[c].at = "reading" THEN 1 ELSE 0)
  /\ UNCHANGED <<orInodes, orAt, orFree>>

OrStuckReturns ==
  /\ orStuck > 0
  /\ orStuck' = orStuck - 1
  /\ orFree' = orFree + 1
  /\ UNCHANGED <<orInodes, orAt, orClient>>

-----------------------------------------------------------------------------
(* The library changes.                                                    *)

Versions == Len(orInodes) + orInodes[Len(orInodes)].version + orInodes[1].version

\* The path leads to another file, or to none for a while.
OrReplace(size) ==
  /\ Versions <= OrChanges
  /\ orInodes' = Append(orInodes, [version |-> 0, size |-> size])
  /\ orAt' = Len(orInodes) + 1
  /\ UNCHANGED <<orClient, orFree, orStuck>>

OrMissing ==
  /\ orAt # 0
  /\ orAt' = 0
  /\ UNCHANGED <<orInodes, orClient, orFree, orStuck>>

\* The file is written in place.
OrRewrite(size) ==
  /\ orAt # 0 /\ Versions <= OrChanges
  /\ orInodes' = [orInodes EXCEPT ![orAt] = [version |-> @.version + 1, size |-> size]]
  /\ orClient' = [c \in OrClients |->
       [orClient[c] EXCEPT !.spoiled = @ \/ (orClient[c].ino = orAt
            /\ orClient[c].at \in {"memory", "stream", "reading"})]]
  /\ UNCHANGED <<orAt, orFree, orStuck>>

OrServe(c) == OrMemory(c) \/ OrRead(c) \/ OrReadDone(c) \/ OrBreak(c)

OrNext ==
  \/ OrStuckReturns \/ OrMissing
  \/ \E s \in OrSizes : OrReplace(s) \/ OrRewrite(s)
  \/ \E c \in OrClients : OrRequest(c) \/ OrServe(c)

OrSpec == OrInit /\ [][OrNext]_orVars

-----------------------------------------------------------------------------
(* Properties.                                                             *)

(* A client that resumes with the validator it was given ends with one     *)
(* file: a download put together from several answers never mixes two      *)
(* files, or two states of one, unless it was written in place while it    *)
(* was being sent.                                                         *)
VersionsNeverMixed ==
  \A c \in OrResumers : LET k == orClient[c] IN
    k.at = "sent" /\ ~k.spoiled =>
      /\ Len(k.got) = k.etag[Len(k.etag)]
      /\ \A i \in DOMAIN k.got : k.got[i] = k.got[1]

\* The bytes a range asks for of a file of this size, by definition.
Wanted(r, size) ==
  CASE r.form = "from" -> {p \in 0 .. size - 1 : p >= r.a}
    [] r.form = "last" -> {p \in 0 .. size - 1 : p >= size - r.a}
    [] OTHER           -> {p \in 0 .. size - 1 : p >= r.a /\ p <= r.b}

(* A seek is answered with the bytes it asked for, no more and no fewer,   *)
(* and refused as unsatisfiable only when the file has none of them.       *)
SeeksExact ==
  \A c \in OrSeekers : LET k == orClient[c] IN
    k.at = "sent" =>
      /\ k.status = 206
      /\ {k.first + i - 1 : i \in DOMAIN k.got} = Wanted(k.spec, k.size)

\* No more reads run than there are permits, those of lost connections included.
ReadsBounded ==
  orFree + orStuck + Cardinality({c \in OrClients : orClient[c].at = "reading"}) = OrReaders

OriginalsWhole == VersionsNeverMixed /\ SeeksExact /\ ReadsBounded
=============================================================================
