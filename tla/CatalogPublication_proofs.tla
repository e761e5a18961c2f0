---------------------- MODULE CatalogPublication_proofs ----------------------
(***************************************************************************)
(* Proofs about CatalogPublication for any library, any number of scanner  *)
(* threads, renderers and failures.  The inductive invariant is built in   *)
(* layers, each preserved with the help of the ones before it:             *)
(*   Pending      what a thread carries from one step to the next          *)
(*   Locks        who holds the gate and the publication lock              *)
(*   Generations  where the two generations may differ, and by how much    *)
(*   Session      which stage may be built upon                            *)
(*   Synced       where catalog and database may differ, and how           *)
(*   Pages        what a page read under some generation may still say     *)
(***************************************************************************)
EXTENDS CatalogPublication, TLAPS

\* Requests, prepared changes and snapshots exist where the code uses them.
Pending ==
    /\ \A b \in Clients : bpc[b] # "idle" => request[b] # None
    /\ \A t \in Scanners : spc[t] \in {"prepared", "locked"} => prepared[t] # None
    /\ \A r \in Readers :
        /\ rpc[r] = "after" => snapshot[r] # None
        /\ rpc[r] \notin {"answer", "answered"} => tries[r] < MAX_ATTEMPTS

Types == TypeOK /\ Pending

Locks ==
    /\ \A t \in Scanners : spc[t] # "idle" => gate = t
    /\ \A t \in Scanners : spc[t] \in {"locked", "committed"} => publication = t
    /\ \A b \in Clients : bpc[b] \in {"locked", "written"} => publication = b
    /\ publication \in Scanners => spc[publication] \in {"locked", "committed"}
    /\ publication \in Clients => bpc[publication] \in {"locked", "written"}

\* A committed change or a written bookmark is one generation ahead of memory.
Generations ==
    /\ \A t \in Scanners :
        /\ spc[t] # "committed" => update[t] = None
        /\ update[t] # None => update[t].id = liveId /\ liveId = updateId + 1
    /\ \A b \in Clients : bpc[b] = "written" => liveId = updateId + 1
    /\ \/ updateId = liveId
       \/ \E t \in Scanners : spc[t] = "committed" /\ update[t] # None
       \/ \E b \in Clients : bpc[b] = "written"

Session ==
    /\ ~session => invalidated
    /\ stageEpoch <= liveEpoch
    /\ resetEpoch # None =>
        /\ resetEpoch <= liveEpoch /\ outstanding = None
        /\ gate \in Scanners /\ spc[gate] \in {"committed", "reset"}
        /\ ~invalidated /\ resetEpoch = liveEpoch => stageRows = liveRows
    /\ ~invalidated /\ resetEpoch = None =>
        /\ outstanding = None => journal = {}
        /\ outstanding # None => spc[outstanding] \in {"scan", "prepared", "locked"}
        /\ stageEpoch = liveEpoch =>
            \A i \in Items \ journal : stageRows[i] = liveRows[i]
    /\ \A t \in Scanners :
        /\ spc[t] \in {"scan", "prepared", "locked"} => invalidated \/ outstanding = t
        /\ spc[t] \in {"prepared", "locked"} => prepared[t].rows = stageRows

\* What is left to apply makes the catalog equal to the database.
Synced == Alone =>
    /\ updateId = liveId => rows = liveRows /\ marks = Shown(liveMarks)
    /\ \A t \in Scanners : update[t] # None =>
        \A i \in Items :
            /\ liveRows[i] = IF i \in update[t].changed THEN update[t].rows[i] ELSE rows[i]
            /\ Shown(liveMarks)[i] =
                    IF i \in update[t].changed THEN update[t].marks[i] ELSE marks[i]
    /\ \A b \in Clients : bpc[b] = "written" =>
        /\ rows = liveRows /\ rows[request[b].item] # 0
        /\ Shown(liveMarks) = [marks EXCEPT ![request[b].item] = request[b].value]

\* A page never comes from the future, and is right as long as its generation
\* is the database's or the catalog's.
PageOK(s) ==
    /\ s.gen <= liveId
    /\ s.gen = liveId => s.page = liveRows
    /\ s.gen = updateId => s.page = rows

Pages == Alone =>
    /\ cache # None => PageOK(cache)
    /\ \A r \in Readers : snapshot[r] # None => PageOK(snapshot[r])

\* Counting an event keeps the type of the counters.
LEMMA SpendType ==
    ASSUME used \in [Events -> Nat], NEW e \in Events, Spend(e)
    PROVE  used' \in [Events -> Nat]
BY DEF Spend

\* Bookmarks as the catalog shows them are numbers.
LEMMA ShownType ==
    ASSUME NEW m \in Marks PROVE Shown(m) \in [Items -> Mark]
BY PublicationAssumption DEF Marks, Shown

\* A merge yields tables.
LEMMA MergedType ==
    ASSUME Types PROVE MergedRows \in Table /\ \A x : MergedMarks(x) \in Marks
BY DEF Types, TypeOK, MergedRows, MergedMarks, Table, Marks

\* What publish_to_db hands to the in-memory half.
LEMMA UpdateType ==
    ASSUME Types, NEW t \in Scanners, spc[t] = "locked", NEW x
    PROVE  /\ CatalogUpdate(prepared[t], x) \in Update
           /\ CatalogUpdate(prepared[t], x).id = updateId + 1
<1>1. prepared[t] \in Prepared
  BY DEF Types, TypeOK, Pending
<1> QED
  BY <1>1, MergedType, ShownType
  DEF Types, TypeOK, CatalogUpdate, Changed, HydratedMarks, Prepared, Update

\* Every step keeps the types.
LEMMA TypeStep ==
    Types /\ [Next]_vars => TypeOK'
<1> SUFFICES ASSUME Types, [Next]_vars PROVE TypeOK'
    OBVIOUS
<1> USE PublicationAssumption DEF Events, live, stage, sess, app, locks, scanner,
    client, reader
<1>1. CASE DiskChange
    BY <1>1, SpendType DEF Types, TypeOK, DiskChange, Table
<1>2. CASE Age
    BY <1>2 DEF Types, TypeOK, Age
<1>3. CASE OneShot
    BY <1>3, SpendType DEF Types, TypeOK, OneShot, Table, Marks
<1>4. CASE Crash
  <2>1. /\ rows' \in Table /\ marks' \in [Items -> Mark] /\ updateId' \in Nat
        /\ used' \in [Events -> Nat]
    BY <1>4, SpendType, ShownType
    DEF Types, TypeOK, Crash, LoadedGeneration, LoadedMarks
  <2>2. /\ spc' \in [Scanners -> ScannerPc] /\ bpc' \in [Clients -> ClientPc]
        /\ rpc' \in [Readers -> ReaderPc] /\ before' \in [Readers -> Nat]
        /\ prepared' \in [Scanners -> Prepared \cup {None}]
        /\ update' \in [Scanners -> Update \cup {None}]
        /\ request' \in [Clients -> Request \cup {None}]
    BY <1>4 DEF Crash, ScannerPc, ClientPc, ReaderPc
  <2>3. /\ snapshot' \in [Readers -> Page \cup {None}]
        /\ tries' \in [Readers -> 0 .. MAX_ATTEMPTS]
        /\ answer' \in [Readers -> Page \cup {None}]
    BY <1>4 DEF Crash, MAX_ATTEMPTS
  <2> QED
    BY <1>4, <2>1, <2>2, <2>3 DEF Types, TypeOK, Crash
<1>5. ASSUME NEW t \in Scanners, ScannerStep(t) PROVE TypeOK'
  <2>1. CASE StartPass(t)
      BY <2>1, SpendType DEF Types, TypeOK, StartPass, Goto, ScannerPc
  <2>2. CASE Rebackup(t)
      BY <2>2 DEF Types, TypeOK, Rebackup
  <2>3. CASE RebackupFails(t)
      BY <2>3, SpendType
      DEF Types, TypeOK, RebackupFails, EndPass, Goto, ScannerPc
  <2>4. CASE BeginPrepare(t)
      BY <2>4 DEF Types, TypeOK, BeginPrepare, Goto, ScannerPc
  <2>5. ASSUME NEW dirty \in SUBSET Items, NEW rep \in BOOLEAN, NEW exp \in BOOLEAN,
             Scan(t, dirty, rep, exp)
       PROVE TypeOK'
      BY <2>5
      DEF Types, TypeOK, Scan, Walk, Walked, Goto, Table, Marks, Prepared,
          ScannerPc
  <2>6. ASSUME NEW dirty \in SUBSET Items, ScanFails(t, dirty) PROVE TypeOK'
      BY <2>6, SpendType
      DEF Types, TypeOK, ScanFails, Walk, Walked, EndPass, Goto, Table, Marks,
          ScannerPc
  <2>7. CASE DropPrepared(t)
      BY <2>7, SpendType DEF Types, TypeOK, DropPrepared, EndPass, Goto, ScannerPc
  <2>8. CASE LockPublication(t)
      BY <2>8 DEF Types, TypeOK, LockPublication, Goto, ScannerPc
  <2>9. CASE Commit(t)
    <3>1. /\ liveRows' \in Table /\ liveMarks' \in Marks /\ oldMarks' \subseteq Items
          /\ liveEpoch' \in Nat /\ liveId' \in Nat /\ resetEpoch' \in Nat
      BY <2>9, MergedType DEF Types, TypeOK, Commit
    <3>2. update' \in [Scanners -> Update \cup {None}]
      BY <2>9, UpdateType DEF Types, TypeOK, Commit
    <3>3. /\ prepared' \in [Scanners -> Prepared \cup {None}]
          /\ spc' \in [Scanners -> ScannerPc]
      BY <2>9 DEF Types, TypeOK, Commit, Goto, ScannerPc
    <3> QED
      BY <2>9, <3>1, <3>2, <3>3 DEF Types, TypeOK, Commit
  <2>10. CASE CommitFails(t)
      BY <2>10, SpendType DEF Types, TypeOK, CommitFails, EndPass, Goto, ScannerPc
  <2>11. CASE Apply(t)
      BY <2>11 DEF Types, TypeOK, Apply, Goto, Update, Table, ScannerPc
  <2>12. CASE FinishPass(t)
      BY <2>12, SpendType
      DEF Types, TypeOK, FinishPass, EndPass, Goto, finish_publication, ScannerPc
  <2> QED
      BY <1>5, <2>1, <2>2, <2>3, <2>4, <2>5, <2>6, <2>7, <2>8, <2>9, <2>10, <2>11,
         <2>12
      DEF ScannerStep
<1>6. ASSUME NEW b \in Clients, ClientStep(b) PROVE TypeOK'
  <2>1. ASSUME NEW i \in Items, NEW v \in Mark, NEW e \in Mark \cup {None},
             Resolve(b, i, v, e)
       PROVE TypeOK'
      BY <2>1, SpendType DEF Types, TypeOK, Resolve, Request, ClientPc
  <2>2. CASE LockBookmark(b)
      BY <2>2 DEF Types, TypeOK, LockBookmark, ClientPc
  <2>3. CASE WriteBookmark(b)
      BY <2>3 DEF Types, TypeOK, WriteBookmark, Request, Marks, Pending, ClientPc
  <2>4. CASE RefuseBookmark(b)
      BY <2>4, SpendType DEF Types, TypeOK, RefuseBookmark, ClientPc
  <2>5. CASE ApplyBookmark(b)
      BY <2>5 DEF Types, TypeOK, ApplyBookmark, Request, Pending, ClientPc
  <2> QED
      BY <1>6, <2>1, <2>2, <2>3, <2>4, <2>5 DEF ClientStep
<1>7. ASSUME NEW r \in Readers, ReaderStep(r) PROVE TypeOK'
  <2>1. CASE StartQuery(r)
      BY <2>1 DEF Types, TypeOK, StartQuery, ReaderPc
  <2>2. CASE Lookup(r)
      BY <2>2 DEF Types, TypeOK, Lookup, ReaderPc
  <2>3. CASE ReadBefore(r)
      BY <2>3 DEF Types, TypeOK, ReadBefore, ReaderPc
  <2>4. CASE ReadPage(r)
      BY <2>4, SpendType DEF Types, TypeOK, ReadPage, Page, ReaderPc
  <2>5. CASE ReadAfter(r)
      BY <2>5 DEF Types, TypeOK, ReadAfter, Pending, MAX_ATTEMPTS, ReaderPc
  <2>6. CASE Answer(r)
    <3>1. Accepted(snapshot[r]) => snapshot[r] \in Page
      BY DEF Types, TypeOK, Accepted
    <3>2. [gen |-> updateId, page |-> IF Accepted(snapshot[r]) THEN snapshot[r].page
                                                            ELSE rows] \in Page
      BY <3>1 DEF Types, TypeOK, Page
    <3>3. rpc' \in [Readers -> ReaderPc]
      BY <2>6 DEF Types, TypeOK, Answer, ReaderPc
    <3> QED
      BY <2>6, <3>1, <3>2, <3>3 DEF Types, TypeOK, Answer
  <2>7. CASE NextQuery(r)
      BY <2>7 DEF Types, TypeOK, NextQuery, MAX_ATTEMPTS, ReaderPc
  <2> QED
      BY <1>7, <2>1, <2>2, <2>3, <2>4, <2>5, <2>6, <2>7 DEF ReaderStep
<1>8. CASE UNCHANGED vars
    BY <1>8 DEF Types, TypeOK, Pending, vars
<1> QED
    BY <1>1, <1>2, <1>3, <1>4, <1>5, <1>6, <1>7, <1>8 DEF Next

\* Browse and Search change the query cache and their own state only.
LEMMA ReaderFrame ==
    ASSUME TypeOK, NEW r \in Readers, ReaderStep(r)
    PROVE  /\ UNCHANGED <<disk, live, stage, sess, rows, marks, updateId, locks,
                          scanner, client>>
           /\ used'["oneshot"] = used["oneshot"]
BY
DEF TypeOK, ReaderStep, StartQuery, Lookup, ReadBefore, ReadPage, ReadAfter,
    Answer,
       NextQuery, Spend, Events, live, stage, sess, app, locks, scanner, client

\* What a thread carries is there when it is used.
LEMMA PendingStep ==
    Types /\ [Next]_vars => Pending'
<1> SUFFICES ASSUME Types, [Next]_vars PROVE Pending'
    OBVIOUS
<1> USE PublicationAssumption, NoneAssumption DEF live, stage, sess, app, locks,
    scanner, client, reader
<1>1. CASE DiskChange
    BY <1>1 DEF Types, TypeOK, Pending, DiskChange
<1>2. CASE Age
    BY <1>2 DEF Types, TypeOK, Pending, Age
<1>3. CASE OneShot
    BY <1>3 DEF Types, TypeOK, Pending, OneShot
<1>4. CASE Crash
    BY <1>4 DEF Types, TypeOK, Pending, Crash, MAX_ATTEMPTS
<1>5. ASSUME NEW t \in Scanners, ScannerStep(t) PROVE Pending'
  <2>1. CASE StartPass(t)
      BY <2>1 DEF Types, TypeOK, Pending, StartPass, Goto
  <2>2. CASE Rebackup(t)
      BY <2>2 DEF Types, TypeOK, Pending, Rebackup
  <2>3. CASE RebackupFails(t)
      BY <2>3 DEF Types, TypeOK, Pending, RebackupFails, EndPass, Goto
  <2>4. CASE BeginPrepare(t)
      BY <2>4 DEF Types, TypeOK, Pending, BeginPrepare, Goto
  <2>5. ASSUME NEW dirty \in SUBSET Items, NEW rep \in BOOLEAN, NEW exp \in BOOLEAN,
             Scan(t, dirty, rep, exp)
       PROVE Pending'
      BY <2>5
      DEF Types, TypeOK, Pending, Scan, Goto, Walk, Walked, Prepared, Table
  <2>6. ASSUME NEW dirty \in SUBSET Items, ScanFails(t, dirty) PROVE Pending'
      BY <2>6 DEF Types, TypeOK, Pending, ScanFails, EndPass, Goto
  <2>7. CASE DropPrepared(t)
      BY <2>7 DEF Types, TypeOK, Pending, DropPrepared, EndPass, Goto
  <2>8. CASE LockPublication(t)
      BY <2>8 DEF Types, TypeOK, Pending, LockPublication, Goto
  <2>9. CASE Commit(t)
      BY <2>9 DEF Types, TypeOK, Pending, Commit, Goto
  <2>10. CASE CommitFails(t)
      BY <2>10 DEF Types, TypeOK, Pending, CommitFails, EndPass, Goto
  <2>11. CASE Apply(t)
      BY <2>11 DEF Types, TypeOK, Pending, Apply, Goto
  <2>12. CASE FinishPass(t)
      BY <2>12 DEF Types, TypeOK, Pending, FinishPass, EndPass, Goto
  <2> QED
      BY <1>5, <2>1, <2>2, <2>3, <2>4, <2>5, <2>6, <2>7, <2>8, <2>9, <2>10, <2>11,
         <2>12
      DEF ScannerStep
<1>6. ASSUME NEW b \in Clients, ClientStep(b) PROVE Pending'
  <2>1. ASSUME NEW i \in Items, NEW v \in Mark, NEW e \in Mark \cup {None},
             Resolve(b, i, v, e)
       PROVE Pending'
      BY <2>1 DEF Types, TypeOK, Pending, Resolve, Request
  <2>2. CASE LockBookmark(b)
      BY <2>2 DEF Types, TypeOK, Pending, LockBookmark
  <2>3. CASE WriteBookmark(b)
      BY <2>3 DEF Types, TypeOK, Pending, WriteBookmark
  <2>4. CASE RefuseBookmark(b)
      BY <2>4 DEF Types, TypeOK, Pending, RefuseBookmark
  <2>5. CASE ApplyBookmark(b)
      BY <2>5 DEF Types, TypeOK, Pending, ApplyBookmark
  <2> QED
      BY <1>6, <2>1, <2>2, <2>3, <2>4, <2>5 DEF ClientStep
<1>7. ASSUME NEW r \in Readers, ReaderStep(r) PROVE Pending'
  <2>1. CASE StartQuery(r)
      BY <2>1 DEF Types, TypeOK, Pending, StartQuery
  <2>2. CASE Lookup(r)
      BY <2>2 DEF Types, TypeOK, Pending, Lookup
  <2>3. CASE ReadBefore(r)
      BY <2>3 DEF Types, TypeOK, Pending, ReadBefore
  <2>4. CASE ReadPage(r)
      BY <2>4 DEF Types, TypeOK, Pending, ReadPage, Page
  <2>5. CASE ReadAfter(r)
      BY <2>5 DEF Types, TypeOK, Pending, ReadAfter
  <2>6. CASE Answer(r)
      BY <2>6 DEF Types, TypeOK, Pending, Answer
  <2>7. CASE NextQuery(r)
      BY <2>7 DEF Types, TypeOK, Pending, NextQuery, MAX_ATTEMPTS
  <2> QED
      BY <1>7, <2>1, <2>2, <2>3, <2>4, <2>5, <2>6, <2>7 DEF ReaderStep
<1>8. CASE UNCHANGED vars
    BY <1>8 DEF Types, TypeOK, Pending, vars
<1> QED
    BY <1>1, <1>2, <1>3, <1>4, <1>5, <1>6, <1>7, <1>8 DEF Next

\* The locks have the holders the program counters say.
LEMMA LocksStep ==
    Types /\ Locks /\ [Next]_vars => Locks'
<1> SUFFICES ASSUME Types /\ Locks, [Next]_vars PROVE Locks'
    OBVIOUS
<1> USE PublicationAssumption DEF live, stage, sess, app, locks, scanner, client,
    reader
<1>1. CASE DiskChange
    BY <1>1 DEF Types, TypeOK, Locks, DiskChange
<1>2. CASE Age
    BY <1>2 DEF Types, TypeOK, Locks, Age
<1>3. CASE OneShot
    BY <1>3 DEF Types, TypeOK, Locks, OneShot
<1>4. CASE Crash
    BY <1>4 DEF Types, TypeOK, Locks, Crash
<1>5. ASSUME NEW t \in Scanners, ScannerStep(t) PROVE Locks'
  <2>1. CASE StartPass(t)
      BY <2>1 DEF Types, TypeOK, Locks, StartPass, Goto
  <2>2. CASE Rebackup(t)
      BY <2>2 DEF Types, TypeOK, Locks, Rebackup
  <2>3. CASE RebackupFails(t)
      BY <2>3 DEF Types, TypeOK, Locks, RebackupFails, EndPass, Goto
  <2>4. CASE BeginPrepare(t)
      BY <2>4 DEF Types, TypeOK, Locks, BeginPrepare, Goto
  <2>5. ASSUME NEW dirty \in SUBSET Items, NEW rep \in BOOLEAN, NEW exp \in BOOLEAN,
             Scan(t, dirty, rep, exp)
       PROVE Locks'
      BY <2>5 DEF Types, TypeOK, Locks, Scan, Goto
  <2>6. ASSUME NEW dirty \in SUBSET Items, ScanFails(t, dirty) PROVE Locks'
      BY <2>6 DEF Types, TypeOK, Locks, ScanFails, EndPass, Goto
  <2>7. CASE DropPrepared(t)
      BY <2>7 DEF Types, TypeOK, Locks, DropPrepared, EndPass, Goto
  <2>8. CASE LockPublication(t)
      BY <2>8 DEF Types, TypeOK, Locks, LockPublication, Goto
  <2>9. CASE Commit(t)
      BY <2>9 DEF Types, TypeOK, Locks, Commit, Goto
  <2>10. CASE CommitFails(t)
      BY <2>10 DEF Types, TypeOK, Locks, CommitFails, EndPass, Goto
  <2>11. CASE Apply(t)
      BY <2>11 DEF Types, TypeOK, Locks, Apply, Goto
  <2>12. CASE FinishPass(t)
      BY <2>12 DEF Types, TypeOK, Locks, FinishPass, EndPass, Goto
  <2> QED
      BY <1>5, <2>1, <2>2, <2>3, <2>4, <2>5, <2>6, <2>7, <2>8, <2>9, <2>10, <2>11,
         <2>12
      DEF ScannerStep
<1>6. ASSUME NEW b \in Clients, ClientStep(b) PROVE Locks'
  <2>1. ASSUME NEW i \in Items, NEW v \in Mark, NEW e \in Mark \cup {None},
             Resolve(b, i, v, e)
       PROVE Locks'
      BY <2>1 DEF Types, TypeOK, Locks, Resolve
  <2>2. CASE LockBookmark(b)
      BY <2>2 DEF Types, TypeOK, Locks, LockBookmark
  <2>3. CASE WriteBookmark(b)
      BY <2>3 DEF Types, TypeOK, Locks, WriteBookmark
  <2>4. CASE RefuseBookmark(b)
      BY <2>4 DEF Types, TypeOK, Locks, RefuseBookmark
  <2>5. CASE ApplyBookmark(b)
      BY <2>5 DEF Types, TypeOK, Locks, ApplyBookmark
  <2> QED
      BY <1>6, <2>1, <2>2, <2>3, <2>4, <2>5 DEF ClientStep
<1>7. ASSUME NEW r \in Readers, ReaderStep(r) PROVE Locks'
    BY <1>7, ReaderFrame DEF Types, Locks
<1>8. CASE UNCHANGED vars
    BY <1>8 DEF Types, TypeOK, Locks, vars
<1> QED
    BY <1>1, <1>2, <1>3, <1>4, <1>5, <1>6, <1>7, <1>8 DEF Next

\* The database is at most one generation ahead, while the lock is held.
LEMMA GenerationsStep ==
    Types /\ Locks /\ Generations /\ [Next]_vars => Generations'
<1> SUFFICES ASSUME Types /\ Locks /\ Generations, [Next]_vars PROVE Generations'
    OBVIOUS
<1> USE PublicationAssumption DEF live, stage, sess, app, locks, scanner, client,
    reader
<1>1. CASE DiskChange
    BY <1>1 DEF Types, TypeOK, Locks, Generations, DiskChange
<1>2. CASE Age
    BY <1>2 DEF Types, TypeOK, Locks, Generations, Age
<1>3. CASE OneShot
    BY <1>3 DEF Types, TypeOK, Locks, Generations, OneShot
<1>4. CASE Crash
    BY <1>4 DEF Types, TypeOK, Locks, Generations, Crash, LoadedGeneration
<1>5. ASSUME NEW t \in Scanners, ScannerStep(t) PROVE Generations'
  <2>1. CASE StartPass(t)
      BY <2>1 DEF Types, TypeOK, Locks, Generations, StartPass, Goto
  <2>2. CASE Rebackup(t)
      BY <2>2 DEF Types, TypeOK, Locks, Generations, Rebackup
  <2>3. CASE RebackupFails(t)
      BY <2>3 DEF Types, TypeOK, Locks, Generations, RebackupFails, EndPass, Goto
  <2>4. CASE BeginPrepare(t)
      BY <2>4 DEF Types, TypeOK, Locks, Generations, BeginPrepare, Goto
  <2>5. ASSUME NEW dirty \in SUBSET Items, NEW rep \in BOOLEAN, NEW exp \in BOOLEAN,
             Scan(t, dirty, rep, exp)
       PROVE Generations'
      BY <2>5 DEF Types, TypeOK, Locks, Generations, Scan, Goto
  <2>6. ASSUME NEW dirty \in SUBSET Items, ScanFails(t, dirty) PROVE Generations'
      BY <2>6 DEF Types, TypeOK, Locks, Generations, ScanFails, EndPass, Goto
  <2>7. CASE DropPrepared(t)
      BY <2>7 DEF Types, TypeOK, Locks, Generations, DropPrepared, EndPass, Goto
  <2>8. CASE LockPublication(t)
      BY <2>8 DEF Types, TypeOK, Locks, Generations, LockPublication, Goto
  <2>9. CASE Commit(t)
      BY <2>9, UpdateType, NoneAssumption
      DEF Types, TypeOK, Locks, Generations, Commit, Goto
  <2>10. CASE CommitFails(t)
      BY <2>10 DEF Types, TypeOK, Locks, Generations, CommitFails, EndPass, Goto
  <2>11. CASE Apply(t)
      BY <2>11 DEF Types, TypeOK, Locks, Generations, Apply, Goto
  <2>12. CASE FinishPass(t)
      BY <2>12 DEF Types, TypeOK, Locks, Generations, FinishPass, EndPass, Goto
  <2> QED
      BY <1>5, <2>1, <2>2, <2>3, <2>4, <2>5, <2>6, <2>7, <2>8, <2>9, <2>10, <2>11,
         <2>12
      DEF ScannerStep
<1>6. ASSUME NEW b \in Clients, ClientStep(b) PROVE Generations'
  <2>1. ASSUME NEW i \in Items, NEW v \in Mark, NEW e \in Mark \cup {None},
             Resolve(b, i, v, e)
       PROVE Generations'
      BY <2>1 DEF Types, TypeOK, Locks, Generations, Resolve
  <2>2. CASE LockBookmark(b)
      BY <2>2 DEF Types, TypeOK, Locks, Generations, LockBookmark
  <2>3. CASE WriteBookmark(b)
      BY <2>3 DEF Types, TypeOK, Locks, Generations, WriteBookmark
  <2>4. CASE RefuseBookmark(b)
      BY <2>4 DEF Types, TypeOK, Locks, Generations, RefuseBookmark
  <2>5. CASE ApplyBookmark(b)
      BY <2>5 DEF Types, TypeOK, Locks, Generations, ApplyBookmark
  <2> QED
      BY <1>6, <2>1, <2>2, <2>3, <2>4, <2>5 DEF ClientStep
<1>7. ASSUME NEW r \in Readers, ReaderStep(r) PROVE Generations'
    BY <1>7, ReaderFrame DEF Types, Generations
<1>8. CASE UNCHANGED vars
    BY <1>8 DEF Types, TypeOK, Locks, Generations, vars
<1> QED
    BY <1>1, <1>2, <1>3, <1>4, <1>5, <1>6, <1>7, <1>8 DEF Next

\* A stage that may be built upon differs from the database by its journal only.
LEMMA SessionStep ==
    Types /\ Locks /\ Session /\ [Next]_vars => Session'
<1> SUFFICES ASSUME Types /\ Locks /\ Session, [Next]_vars PROVE Session'
    OBVIOUS
<1> USE PublicationAssumption DEF live, stage, sess, app, locks, scanner, client,
    reader
<1>1. CASE DiskChange
    BY <1>1 DEF Types, TypeOK, Locks, Session, DiskChange
<1>2. CASE Age
    BY <1>2 DEF Types, TypeOK, Locks, Session, Age
<1>3. CASE OneShot
    BY <1>3 DEF Types, TypeOK, Locks, Session, OneShot
<1>4. CASE Crash
    BY <1>4 DEF Types, TypeOK, Locks, Session, Crash
<1>5. ASSUME NEW t \in Scanners, ScannerStep(t) PROVE Session'
  <2>1. CASE StartPass(t)
      BY <2>1 DEF Types, TypeOK, Locks, Session, StartPass, Goto
  <2>2. CASE Rebackup(t)
      BY <2>2 DEF Types, TypeOK, Locks, Session, Rebackup, Table
  <2>3. CASE RebackupFails(t)
      BY <2>3 DEF Types, TypeOK, Locks, Session, RebackupFails, EndPass, Goto
  <2>4. CASE BeginPrepare(t)
      BY <2>4 DEF Types, TypeOK, Locks, Session, BeginPrepare, Goto
  <2>5. ASSUME NEW dirty \in SUBSET Items, NEW rep \in BOOLEAN, NEW exp \in BOOLEAN,
             Scan(t, dirty, rep, exp)
       PROVE Session'
    <3>1. resetEpoch = None /\ \A u \in Scanners \ {t} : spc[u] = "idle"
      BY <2>5 DEF Types, TypeOK, Locks, Session, Scan
    <3>2. \A i \in Items \ journal' : i \notin journal /\ stageRows'[i] = stageRows[i]
      BY <2>5 DEF Scan, Walk, Walked
    <3>3. prepared'[t].rows = stageRows'
      BY <2>5 DEF Types, TypeOK, Scan, Walk
    <3>4. invalidated \/ outstanding = t
      BY <2>5 DEF Scan, Session
    <3>5. /\ spc' = [spc EXCEPT ![t] = "prepared"] /\ stageEpoch' = stageEpoch
          /\ UNCHANGED <<sess, live, gate>>
      BY <2>5 DEF Scan, Goto, Walk
    <3> QED
      BY <2>5, <3>1, <3>2, <3>3, <3>4, <3>5 DEF Types, TypeOK, Session, ScannerPc
  <2>6. ASSUME NEW dirty \in SUBSET Items, ScanFails(t, dirty) PROVE Session'
      BY <2>6
      DEF Types, TypeOK, Locks, Session, ScanFails, Walk, Walked, EndPass, Goto,
          Table
  <2>7. CASE DropPrepared(t)
      BY <2>7 DEF Types, TypeOK, Locks, Session, DropPrepared, EndPass, Goto
  <2>8. CASE LockPublication(t)
      BY <2>8 DEF Types, TypeOK, Locks, Session, LockPublication, Goto
  <2>9. CASE Commit(t)
      BY <2>9
      DEF Types, TypeOK, Locks, Session, Commit, Belongs, Goto, MergedRows, Table
  <2>10. CASE CommitFails(t)
      BY <2>10 DEF Types, TypeOK, Locks, Session, CommitFails, EndPass, Goto
  <2>11. CASE Apply(t)
      BY <2>11 DEF Types, TypeOK, Locks, Session, Apply, Goto
  <2>12. CASE FinishPass(t)
      BY <2>12
      DEF Types, TypeOK, Locks, Session, FinishPass, EndPass, Goto,
          finish_publication
  <2> QED
      BY <1>5, <2>1, <2>2, <2>3, <2>4, <2>5, <2>6, <2>7, <2>8, <2>9, <2>10, <2>11,
         <2>12
      DEF ScannerStep
<1>6. ASSUME NEW b \in Clients, ClientStep(b) PROVE Session'
  <2>1. ASSUME NEW i \in Items, NEW v \in Mark, NEW e \in Mark \cup {None},
             Resolve(b, i, v, e)
       PROVE Session'
      BY <2>1 DEF Types, TypeOK, Locks, Session, Resolve
  <2>2. CASE LockBookmark(b)
      BY <2>2 DEF Types, TypeOK, Locks, Session, LockBookmark
  <2>3. CASE WriteBookmark(b)
      BY <2>3 DEF Types, TypeOK, Locks, Session, WriteBookmark
  <2>4. CASE RefuseBookmark(b)
      BY <2>4 DEF Types, TypeOK, Locks, Session, RefuseBookmark
  <2>5. CASE ApplyBookmark(b)
      BY <2>5 DEF Types, TypeOK, Locks, Session, ApplyBookmark
  <2> QED
      BY <1>6, <2>1, <2>2, <2>3, <2>4, <2>5 DEF ClientStep
<1>7. ASSUME NEW r \in Readers, ReaderStep(r) PROVE Session'
    BY <1>7, ReaderFrame DEF Types, Session
<1>8. CASE UNCHANGED vars
    BY <1>8 DEF Types, TypeOK, Locks, Session, vars
<1> QED
    BY <1>1, <1>2, <1>3, <1>4, <1>5, <1>6, <1>7, <1>8 DEF Next

\* Until its holder commits, the publication lock keeps both halves still.
LEMMA LockedScanner ==
    ASSUME Types, Locks, Generations, NEW t \in Scanners, spc[t] = "locked"
    PROVE  /\ updateId = liveId
           /\ \A u \in Scanners : update[u] = None
           /\ \A c \in Clients : bpc[c] # "written"
BY PublicationAssumption DEF Locks, Generations

\* The same for a bookmark writer that has taken the publication lock.
LEMMA LockedClient ==
    ASSUME Types, Locks, Generations, NEW b \in Clients, bpc[b] = "locked"
    PROVE  /\ updateId = liveId
           /\ \A u \in Scanners : update[u] = None
           /\ \A c \in Clients : bpc[c] # "written"
BY PublicationAssumption DEF Locks, Generations

\* Merging the journal of a current stage makes the database equal to it.
LEMMA MergeIsStage ==
    ASSUME Types, Locks, Session, NEW t \in Scanners, Commit(t)
    PROVE  MergedRows = stageRows /\ prepared[t].rows = stageRows
<1>1. resetEpoch = None
  BY PublicationAssumption DEF Types, TypeOK, Locks, Session, Commit
<1>2. \A i \in Items \ journal : stageRows[i] = liveRows[i]
  BY <1>1 DEF Session, Commit, Belongs
<1> QED
  BY <1>2 DEF Types, TypeOK, Table, MergedRows, Session, Commit

\* A patch that changes nothing leaves every row and bookmark.
LEMMA NothingChanged ==
    ASSUME Types, NEW x, Changed(x) = {}
    PROVE  MergedRows = liveRows /\ MergedMarks(x) = liveMarks
<1>1. \A i \in Items : MergedRows[i] = liveRows[i] /\ MergedMarks(x)[i] = liveMarks[i]
  BY DEF Changed
<1> QED
  BY <1>1, MergedType DEF Types, TypeOK, Table, Marks

\* What is still to be applied leads the catalog to the database.
LEMMA SyncedStep ==
    Types /\ Locks /\ Generations /\ Session /\ Synced /\ [Next]_vars => Synced'
<1> SUFFICES ASSUME Types /\ Locks /\ Generations /\ Session /\ Synced, [Next]_vars PROVE Synced'
    OBVIOUS
<1> USE PublicationAssumption DEF live, stage, sess, app, locks, scanner, client,
    reader
<1>1. CASE DiskChange
    BY <1>1
    DEF Types, TypeOK, Locks, Generations, Synced, Alone, Events, DiskChange,
        Spend
<1>2. CASE Age
    BY <1>2 DEF Types, TypeOK, Locks, Generations, Synced, Alone, Events, Age
<1>3. CASE OneShot
    BY <1>3
    DEF Types, TypeOK, Locks, Generations, Synced, Alone, Events, OneShot, Spend
<1>4. CASE Crash
    BY <1>4
    DEF Types, TypeOK, Locks, Generations, Synced, Alone, Events, Crash, Spend,
        LoadedGeneration, LoadedMarks
<1>5. ASSUME NEW t \in Scanners, ScannerStep(t) PROVE Synced'
  <2>1. CASE StartPass(t)
      BY <2>1
      DEF Types, TypeOK, Locks, Generations, Synced, Alone, Events, StartPass,
          Spend, Goto
  <2>2. CASE Rebackup(t)
      BY <2>2
      DEF Types, TypeOK, Locks, Generations, Synced, Alone, Events, Rebackup
  <2>3. CASE RebackupFails(t)
      BY <2>3
      DEF Types, TypeOK, Locks, Generations, Synced, Alone, Events, RebackupFails,
          Spend, EndPass, Goto
  <2>4. CASE BeginPrepare(t)
      BY <2>4
      DEF Types, TypeOK, Locks, Generations, Synced, Alone, Events, BeginPrepare,
          Goto
  <2>5. ASSUME NEW dirty \in SUBSET Items, NEW rep \in BOOLEAN, NEW exp \in BOOLEAN,
             Scan(t, dirty, rep, exp)
       PROVE Synced'
      BY <2>5
      DEF Types, TypeOK, Locks, Generations, Synced, Alone, Events, Scan, Goto
  <2>6. ASSUME NEW dirty \in SUBSET Items, ScanFails(t, dirty) PROVE Synced'
      BY <2>6
      DEF Types, TypeOK, Locks, Generations, Synced, Alone, Events, ScanFails,
          Spend, EndPass, Goto
  <2>7. CASE DropPrepared(t)
      BY <2>7
      DEF Types, TypeOK, Locks, Generations, Synced, Alone, Events, DropPrepared,
          Spend, EndPass, Goto
  <2>8. CASE LockPublication(t)
      BY <2>8
      DEF Types, TypeOK, Locks, Generations, Synced, Alone, Events,
          LockPublication, Goto
  <2>9. CASE Commit(t)
    <3>1. /\ updateId = liveId /\ \A u \in Scanners : update[u] = None
          /\ \A c \in Clients : bpc[c] # "written"
      BY <2>9, LockedScanner DEF Commit
    <3>2. MergedRows = stageRows /\ prepared[t].rows = stageRows
      BY <2>9, MergeIsStage
    <3>3. PICK x \in SUBSET oldMarks :
            /\ liveRows' = MergedRows /\ liveMarks' = MergedMarks(x)
            /\ \/ /\ liveId' = updateId + 1
                  /\ update' = [update EXCEPT ![t] = CatalogUpdate(prepared[t], x)]
               \/ Changed(x) = {} /\ UNCHANGED <<liveId, update>>
      BY <2>9 DEF Commit
    <3>4. UNCHANGED <<rows, marks, updateId, bpc, request, used>>
      BY <2>9 DEF Commit
    <3>5. CASE Changed(x) = {} /\ UNCHANGED <<liveId, update>>
      BY <3>1, <3>3, <3>4, <3>5, NothingChanged DEF Types, TypeOK, Synced, Alone
    <3>6. CASE /\ liveId' = updateId + 1
               /\ update' = [update EXCEPT ![t] = CatalogUpdate(prepared[t], x)]
      <4> DEFINE u == CatalogUpdate(prepared[t], x)
      <4>1. update'[t] = u /\ \A v \in Scanners \ {t} : update'[v] = None
        BY <3>1, <3>6 DEF Types, TypeOK
      <4>2. u.rows = MergedRows /\ u.marks = Shown(MergedMarks(x))
        BY <3>2 DEF CatalogUpdate, HydratedMarks
      <4>3. u.changed = Items \/ u.changed = Changed(x)
        BY DEF CatalogUpdate
      <4>4. ASSUME Alone, NEW i \in Items \ u.changed
            PROVE  rows[i] = MergedRows[i] /\ marks[i] = Shown(MergedMarks(x))[i]
        <5>1. MergedRows[i] = liveRows[i] /\ MergedMarks(x)[i] = liveMarks[i]
          BY <4>3, <4>4 DEF Changed
        <5> QED
          BY <3>1, <4>4, <5>1 DEF Synced, Shown
      <4> HIDE DEF u
      <4> QED
        BY <3>1, <3>3, <3>4, <3>6, <4>1, <4>2, <4>4
        DEF Types, TypeOK, Synced, Alone
    <3> QED BY <3>3, <3>5, <3>6
  <2>10. CASE CommitFails(t)
      BY <2>10
      DEF Types, TypeOK, Locks, Generations, Synced, Alone, Events, CommitFails,
          Spend, EndPass, Goto
  <2>11. CASE Apply(t)
    <3>1. /\ \A v \in Scanners \ {t} : update[v] = None
          /\ \A c \in Clients : bpc[c] # "written"
      BY <2>11 DEF Locks, Generations, Apply
    <3>2. UNCHANGED <<liveRows, liveMarks, liveId, bpc, used>>
          /\ \A v \in Scanners : update'[v] = None
      BY <2>11, <3>1 DEF Types, TypeOK, Apply
    <3>3. CASE update[t] = None
      BY <2>11, <3>1, <3>2, <3>3 DEF Apply, Synced, Alone
    <3>4. CASE update[t] # None
      <4>1. ASSUME Alone PROVE rows' = liveRows /\ marks' = Shown(liveMarks)
        <5>1. rows' = [i \in Items |-> liveRows[i]]
          BY <2>11, <3>4, <4>1 DEF Apply, Synced
        <5>2. marks' = [i \in Items |-> Shown(liveMarks)[i]]
          BY <2>11, <3>4, <4>1 DEF Apply, Synced
        <5> QED
          BY <5>1, <5>2 DEF Types, TypeOK, Table, Shown
      <4> QED
        BY <3>1, <3>2, <4>1 DEF Synced, Alone, Shown
    <3> QED BY <3>3, <3>4
  <2>12. CASE FinishPass(t)
      BY <2>12
      DEF Types, TypeOK, Locks, Generations, Synced, Alone, Events, FinishPass,
          Spend, EndPass, Goto, finish_publication
  <2> QED
      BY <1>5, <2>1, <2>2, <2>3, <2>4, <2>5, <2>6, <2>7, <2>8, <2>9, <2>10, <2>11,
         <2>12
      DEF ScannerStep
<1>6. ASSUME NEW b \in Clients, ClientStep(b) PROVE Synced'
  <2>1. ASSUME NEW i \in Items, NEW v \in Mark, NEW e \in Mark \cup {None},
             Resolve(b, i, v, e)
       PROVE Synced'
      BY <2>1
      DEF Types, TypeOK, Locks, Generations, Synced, Alone, Events, Resolve, Spend
  <2>2. CASE LockBookmark(b)
      BY <2>2
      DEF Types, TypeOK, Locks, Generations, Synced, Alone, Events, LockBookmark
  <2>3. CASE WriteBookmark(b)
    <3> DEFINE q == request[b]
    <3>1. /\ updateId = liveId /\ \A u \in Scanners : update[u] = None
          /\ \A c \in Clients : bpc[c] # "written"
      BY <2>3, LockedClient DEF WriteBookmark
    <3>2. q \in Request
      BY <2>3 DEF Types, TypeOK, Pending, WriteBookmark
    <3>3. Shown(liveMarks') = [Shown(liveMarks) EXCEPT ![q.item] = q.value]
      BY <2>3, <3>2 DEF Types, TypeOK, WriteBookmark, Shown, Marks, Request
    <3>4. /\ liveRows[q.item] # 0 /\ liveId' = updateId + 1
          /\ UNCHANGED <<liveRows, rows, marks, updateId, update, request, used>>
          /\ \A c \in Clients : bpc'[c] = "written" => c = b
      BY <2>3, <3>1 DEF Types, TypeOK, WriteBookmark
    <3>5. updateId' # liveId' /\ \A u \in Scanners : update'[u] = None
      BY <3>1, <3>4 DEF Types, TypeOK
    <3>6. Alone => rows = liveRows /\ marks = Shown(liveMarks)
      BY <3>1 DEF Synced
    <3>7. Alone => /\ rows' = liveRows' /\ rows'[q.item] # 0
                   /\ Shown(liveMarks') = [marks' EXCEPT ![q.item] = q.value]
      BY <3>3, <3>4, <3>6
    <3> QED
      BY <3>4, <3>5, <3>7 DEF Synced, Alone
  <2>4. CASE RefuseBookmark(b)
      BY <2>4
      DEF Types, TypeOK, Locks, Generations, Synced, Alone, Events,
          RefuseBookmark, Spend
  <2>5. CASE ApplyBookmark(b)
      BY <2>5
      DEF Types, TypeOK, Locks, Generations, Synced, Alone, Events, ApplyBookmark
  <2> QED
      BY <1>6, <2>1, <2>2, <2>3, <2>4, <2>5 DEF ClientStep
<1>7. ASSUME NEW r \in Readers, ReaderStep(r) PROVE Synced'
    BY <1>7, ReaderFrame DEF Types, Synced, Alone
<1>8. CASE UNCHANGED vars
    BY <1>8 DEF Types, TypeOK, Locks, Generations, Synced, Alone, Events, vars
<1> QED
    BY <1>1, <1>2, <1>3, <1>4, <1>5, <1>6, <1>7, <1>8 DEF Next

\* A page stays right for as long as its generation lasts.
LEMMA PagesStep ==
    Types /\ Locks /\ Generations /\ Session /\ Synced /\ Pages /\ [Next]_vars => Pages'
<1> SUFFICES ASSUME Types /\ Locks /\ Generations /\ Session /\ Synced /\ Pages, [Next]_vars PROVE Pages'
    OBVIOUS
<1> USE PublicationAssumption DEF live, stage, sess, app, locks, scanner, client,
    reader
<1>1. CASE DiskChange
    BY <1>1
    DEF Types, TypeOK, Locks, Generations, Synced, Pages, PageOK, Alone, Events,
        DiskChange, Spend
<1>2. CASE Age
    BY <1>2
    DEF Types, TypeOK, Locks, Generations, Synced, Pages, PageOK, Alone, Events,
        Age
<1>3. CASE OneShot
    BY <1>3
    DEF Types, TypeOK, Locks, Generations, Synced, Pages, PageOK, Alone, Events,
        OneShot, Spend
<1>4. CASE Crash
    BY <1>4
    DEF Types, TypeOK, Locks, Generations, Synced, Pages, PageOK, Alone, Events,
        Crash, Spend, LoadedGeneration, LoadedMarks
<1>5. ASSUME NEW t \in Scanners, ScannerStep(t) PROVE Pages'
  <2>1. CASE StartPass(t)
      BY <2>1
      DEF Types, TypeOK, Locks, Generations, Synced, Pages, PageOK, Alone, Events,
          StartPass, Spend, Goto
  <2>2. CASE Rebackup(t)
      BY <2>2
      DEF Types, TypeOK, Locks, Generations, Synced, Pages, PageOK, Alone, Events,
          Rebackup
  <2>3. CASE RebackupFails(t)
      BY <2>3
      DEF Types, TypeOK, Locks, Generations, Synced, Pages, PageOK, Alone, Events,
          RebackupFails, Spend, EndPass, Goto
  <2>4. CASE BeginPrepare(t)
      BY <2>4
      DEF Types, TypeOK, Locks, Generations, Synced, Pages, PageOK, Alone, Events,
          BeginPrepare, Goto
  <2>5. ASSUME NEW dirty \in SUBSET Items, NEW rep \in BOOLEAN, NEW exp \in BOOLEAN,
             Scan(t, dirty, rep, exp)
       PROVE Pages'
      BY <2>5
      DEF Types, TypeOK, Locks, Generations, Synced, Pages, PageOK, Alone, Events,
          Scan, Goto
  <2>6. ASSUME NEW dirty \in SUBSET Items, ScanFails(t, dirty) PROVE Pages'
      BY <2>6
      DEF Types, TypeOK, Locks, Generations, Synced, Pages, PageOK, Alone, Events,
          ScanFails, Spend, EndPass, Goto
  <2>7. CASE DropPrepared(t)
      BY <2>7
      DEF Types, TypeOK, Locks, Generations, Synced, Pages, PageOK, Alone, Events,
          DropPrepared, Spend, EndPass, Goto
  <2>8. CASE LockPublication(t)
      BY <2>8
      DEF Types, TypeOK, Locks, Generations, Synced, Pages, PageOK, Alone, Events,
          LockPublication, Goto
  <2>9. CASE Commit(t)
    <3>1. updateId = liveId /\ (Alone => rows = liveRows)
      BY <2>9, LockedScanner DEF Commit, Synced
    <3>2. liveId' = updateId + 1 \/ (liveId' = liveId /\ liveRows' = liveRows)
      BY <2>9, NothingChanged DEF Commit
    <3> QED
      BY <2>9, <3>1, <3>2 DEF Types, TypeOK, Page, Commit, Pages, PageOK, Alone
  <2>10. CASE CommitFails(t)
      BY <2>10
      DEF Types, TypeOK, Locks, Generations, Synced, Pages, PageOK, Alone, Events,
          CommitFails, Spend, EndPass, Goto
  <2>11. CASE Apply(t)
    <3>1. Synced'
      BY SyncedStep
    <3>2. \/ UNCHANGED <<rows, updateId, cache>>
          \/ updateId' = liveId /\ cache' = None
      BY <2>11 DEF Apply, Generations
    <3> QED
      BY <2>11, <3>1, <3>2 DEF Types, TypeOK, Apply, Synced, Pages, PageOK, Alone
  <2>12. CASE FinishPass(t)
      BY <2>12
      DEF Types, TypeOK, Locks, Generations, Synced, Pages, PageOK, Alone, Events,
          FinishPass, Spend, EndPass, Goto, finish_publication
  <2> QED
      BY <1>5, <2>1, <2>2, <2>3, <2>4, <2>5, <2>6, <2>7, <2>8, <2>9, <2>10, <2>11,
         <2>12
      DEF ScannerStep
<1>6. ASSUME NEW b \in Clients, ClientStep(b) PROVE Pages'
  <2>1. ASSUME NEW i \in Items, NEW v \in Mark, NEW e \in Mark \cup {None},
             Resolve(b, i, v, e)
       PROVE Pages'
      BY <2>1
      DEF Types, TypeOK, Locks, Generations, Synced, Pages, PageOK, Alone, Events,
          Resolve, Spend
  <2>2. CASE LockBookmark(b)
      BY <2>2
      DEF Types, TypeOK, Locks, Generations, Synced, Pages, PageOK, Alone, Events,
          LockBookmark
  <2>3. CASE WriteBookmark(b)
    <3>1. updateId = liveId /\ (Alone => rows = liveRows)
      BY <2>3, LockedClient DEF WriteBookmark, Synced
    <3> QED
      BY <2>3, <3>1 DEF Types, TypeOK, Page, WriteBookmark, Pages, PageOK, Alone
  <2>4. CASE RefuseBookmark(b)
      BY <2>4
      DEF Types, TypeOK, Locks, Generations, Synced, Pages, PageOK, Alone, Events,
          RefuseBookmark, Spend
  <2>5. CASE ApplyBookmark(b)
      BY <2>5
      DEF Types, TypeOK, Locks, Generations, Synced, Pages, PageOK, Alone, Events,
          ApplyBookmark
  <2> QED
      BY <1>6, <2>1, <2>2, <2>3, <2>4, <2>5 DEF ClientStep
<1>7. ASSUME NEW r \in Readers, ReaderStep(r) PROVE Pages'
  <2>1. CASE StartQuery(r)
      BY <2>1
      DEF Types, TypeOK, Locks, Generations, Synced, Pages, PageOK, Alone, Events,
          StartQuery
  <2>2. CASE Lookup(r)
      BY <2>2
      DEF Types, TypeOK, Locks, Generations, Synced, Pages, PageOK, Alone, Events,
          Lookup
  <2>3. CASE ReadBefore(r)
      BY <2>3
      DEF Types, TypeOK, Locks, Generations, Synced, Pages, PageOK, Alone, Events,
          ReadBefore
  <2>4. CASE ReadPage(r)
      BY <2>4
      DEF Types, TypeOK, Locks, Generations, Synced, Pages, PageOK, Alone, Events,
          ReadPage, Spend
  <2>5. CASE ReadAfter(r)
      BY <2>5
      DEF Types, TypeOK, Locks, Generations, Synced, Pages, PageOK, Alone, Events,
          ReadAfter
  <2>6. CASE Answer(r)
      BY <2>6
      DEF Types, TypeOK, Locks, Generations, Synced, Pages, PageOK, Alone, Events,
          Answer
  <2>7. CASE NextQuery(r)
      BY <2>7
      DEF Types, TypeOK, Locks, Generations, Synced, Pages, PageOK, Alone, Events,
          NextQuery
  <2> QED
      BY <1>7, <2>1, <2>2, <2>3, <2>4, <2>5, <2>6, <2>7 DEF ReaderStep
<1>8. CASE UNCHANGED vars
    BY <1>8
    DEF Types, TypeOK, Locks, Generations, Synced, Pages, PageOK, Alone, Events,
        vars
<1> QED
    BY <1>1, <1>2, <1>3, <1>4, <1>5, <1>6, <1>7, <1>8 DEF Next

-----------------------------------------------------------------------------
IInv == Types /\ Locks /\ Generations /\ Session /\ Synced /\ Pages

\* Every initial state satisfies all layers.
LEMMA InitInv == Init => IInv
<1> SUFFICES ASSUME Init PROVE IInv
  OBVIOUS
<1> USE PublicationAssumption DEF Init
<1>1. TypeOK
  <2>1. /\ liveRows \in Table /\ stageRows \in Table /\ rows \in Table
        /\ liveMarks \in Marks /\ stageMarks \in Marks /\ marks \in [Items -> Mark]
    BY DEF Marks, NoMarks, Empty, Table
  <2>2. /\ spc \in [Scanners -> ScannerPc] /\ bpc \in [Clients -> ClientPc]
        /\ rpc \in [Readers -> ReaderPc] /\ before \in [Readers -> Nat]
        /\ tries \in [Readers -> 0 .. MAX_ATTEMPTS] /\ used \in [Events -> Nat]
    BY DEF ScannerPc, ClientPc, ReaderPc, MAX_ATTEMPTS
  <2>3. /\ prepared \in [Scanners -> Prepared \cup {None}]
        /\ update \in [Scanners -> Update \cup {None}]
        /\ request \in [Clients -> Request \cup {None}]
        /\ snapshot \in [Readers -> Page \cup {None}]
        /\ answer \in [Readers -> Page \cup {None}]
    OBVIOUS
  <2> QED
    BY <2>1, <2>2, <2>3 DEF TypeOK
<1>2. Pending
  BY DEF Pending, MAX_ATTEMPTS
<1>3. Locks /\ Generations
  BY DEF Locks, Generations
<1>4. Session
  BY DEF Session
<1>5. Synced
  BY DEF Synced, Shown, NoMarks, Empty
<1>6. Pages
  BY DEF Pages
<1> QED BY <1>1, <1>2, <1>3, <1>4, <1>5, <1>6 DEF IInv, Types

\* Every step keeps all layers.
LEMMA NextInv == IInv /\ [Next]_vars => IInv'
BY TypeStep, PendingStep, LocksStep, GenerationsStep, SessionStep, SyncedStep,
   PagesStep DEF IInv, Types

\* The layers hold in every reachable state.
LEMMA Invariance == Spec => []IInv
BY InitInv, NextInv, PTL DEF Spec

\* The state of scanners, session, locks, requests and answers keeps its type.
THEOREM TypeCorrect == Spec => []TypeOK
<1>1. IInv => TypeOK
  BY DEF IInv, Types
<1> QED BY Invariance, <1>1, PTL

\* apply_prepared_catalog_change and persist_bookmark give the publication
\* lock back only with the in-memory generation at the persisted one, so no
\* later publication is refused for its generation.
THEOREM GenerationsMeet == Spec => []GenerationsAgree
<1>1. IInv => GenerationsAgree
  BY PublicationAssumption DEF IInv, Locks, Generations, GenerationsAgree
<1> QED BY Invariance, <1>1, PTL

\* The stage that begin_prepare lets a pass build upon is the live database
\* plus its journal, after failed passes and foreign writers too.
THEOREM StageIsCurrent == Spec => []StageTracksLive
<1>1. IInv => StageTracksLive
  BY DEF IInv, Session, StageTracksLive
<1> QED BY Invariance, <1>1, PTL

\* begin_prepare never returns "scan session already has unpublished work".
THEOREM PassesApart == Spec => []NoUnpublishedWork
<1>1. IInv => NoUnpublishedWork
  <2> SUFFICES ASSUME IInv, NEW t \in Scanners, spc[t] = "begin", session,
                      ~invalidated, outstanding # None
               PROVE  FALSE
    BY DEF NoUnpublishedWork
  <2>1. gate = t
    BY DEF IInv, Locks
  <2>2. resetEpoch = None
    BY <2>1 DEF IInv, Session
  <2>3. outstanding \in Scanners /\ spc[outstanding] \in {"scan", "prepared", "locked"}
    BY <2>2 DEF IInv, Types, TypeOK, Session
  <2>4. gate = outstanding
    BY <2>3 DEF IInv, Locks
  <2> QED BY <2>1, <2>3, <2>4
<1> QED BY Invariance, <1>1, PTL

\* Whenever nobody holds the publication lock, catalog and database are equal,
\* bookmarks included.
THEOREM CatalogIsDatabase == Spec => []CatalogAgrees
<1>1. IInv => GenerationsAgree
  BY PublicationAssumption DEF IInv, Locks, Generations, GenerationsAgree
<1>2. IInv => CatalogAgrees
  BY <1>1 DEF IInv, Synced, GenerationsAgree, CatalogAgrees
<1> QED BY Invariance, <1>2, PTL

-----------------------------------------------------------------------------
(* Action properties.  Only a few actions can break each of them. *)

\* Rows and bookmarks in memory change by an application or a restart.
LEMMA VisibleFrame ==
    ASSUME IInv, Next, <<rows, marks>>' # <<rows, marks>>
    PROVE  \/ \E t \in Scanners : Apply(t)
           \/ \E b \in Clients : ApplyBookmark(b)
           \/ Crash
<1> USE DEF live, stage, sess, app, locks, scanner, client, reader
<1>1. \A t \in Scanners : ScannerStep(t) => Apply(t)
  BY DEF ScannerStep, StartPass, Rebackup, RebackupFails, BeginPrepare, Scan,
         ScanFails, DropPrepared, LockPublication, Commit, CommitFails, FinishPass
<1>2. \A b \in Clients : ClientStep(b) => ApplyBookmark(b)
  BY DEF ClientStep, Resolve, LockBookmark, WriteBookmark, RefuseBookmark
<1>3. \A r \in Readers : ~ReaderStep(r)
  BY ReaderFrame DEF IInv, Types
<1>4. ~DiskChange /\ ~Age /\ ~OneShot
  BY DEF DiskChange, Age, OneShot
<1> QED BY <1>1, <1>2, <1>3, <1>4 DEF Next

\* What renderers see changes only together with SystemUpdateID, also over a
\* crash between the commit and its application.
THEOREM EveryChangeAnnounced == Spec => ChangesAreAnnounced
<1>1. ASSUME IInv, [Next]_vars
      PROVE  [Alone' /\ <<rows, marks>>' # <<rows, marks>> => updateId' # updateId]_vars
  <2> SUFFICES ASSUME Next, Alone', <<rows, marks>>' # <<rows, marks>>
               PROVE  updateId' # updateId
    BY <1>1
  <2>1. updateId \in Nat /\ liveId \in Nat
    BY <1>1 DEF IInv, Types, TypeOK
  <2>2. ASSUME NEW t \in Scanners, Apply(t) PROVE updateId' # updateId
    BY <1>1, <2>1, <2>2 DEF Apply, app, IInv, Generations
  <2>3. ASSUME NEW b \in Clients, ApplyBookmark(b) PROVE updateId' # updateId
    BY <2>1, <2>3 DEF ApplyBookmark
  <2>4. CASE Crash
    <3>1. Alone
      BY <1>1, <2>4 DEF Crash, Spend, Alone, Events, IInv, Types, TypeOK
    <3>2. updateId # liveId
      BY <1>1, <2>4, <3>1 DEF IInv, Synced, Crash, LoadedMarks
    <3>3. liveId = updateId + 1
      BY <1>1, <3>2 DEF IInv, Generations
    <3> QED
      BY <2>1, <2>4, <3>3 DEF Crash, LoadedGeneration
  <2> QED BY <1>1, <2>2, <2>3, <2>4, VisibleFrame
<1> QED BY Invariance, <1>1, PTL DEF Spec, ChangesAreAnnounced

\* Bookmarks in the database change in three transactions.
LEMMA MarksFrame ==
    ASSUME IInv, Next, liveMarks' # liveMarks
    PROVE  \/ \E t \in Scanners : Commit(t)
           \/ \E b \in Clients : WriteBookmark(b)
           \/ OneShot
<1> USE DEF live, stage, sess, app, locks, scanner, client, reader
<1>1. \A t \in Scanners : ScannerStep(t) => Commit(t)
  BY DEF ScannerStep, StartPass, Rebackup, RebackupFails, BeginPrepare, Scan,
         ScanFails, DropPrepared, LockPublication, CommitFails, Apply, FinishPass
<1>2. \A b \in Clients : ClientStep(b) => WriteBookmark(b)
  BY DEF ClientStep, Resolve, LockBookmark, RefuseBookmark, ApplyBookmark
<1>3. \A r \in Readers : ~ReaderStep(r)
  BY ReaderFrame DEF IInv, Types
<1>4. ~DiskChange /\ ~Age /\ ~Crash
  BY DEF DiskChange, Age, Crash
<1> QED BY <1>1, <1>2, <1>3, <1>4 DEF Next

\* merge_attached_scan_stage never brings an older bookmark back and takes
\* none away but with its file or by expiry.
THEOREM BookmarksSurvive == Spec => BookmarksKept
<1>1. ASSUME IInv, [Next]_vars
      PROVE  [\A i \in Items : liveMarks'[i] # liveMarks[i] =>
                \/ liveRows'[i] = 0
                \/ i \in oldMarks
                \/ \E b \in Clients : /\ bpc[b] = "locked" /\ bpc'[b] = "written"
                                      /\ request[b].item = i]_vars
  <2> SUFFICES ASSUME Next, NEW i \in Items, liveMarks'[i] # liveMarks[i]
               PROVE  \/ liveRows'[i] = 0
                      \/ i \in oldMarks
                      \/ \E b \in Clients : /\ bpc[b] = "locked" /\ bpc'[b] = "written"
                                            /\ request[b].item = i
    BY <1>1
  <2>1. ASSUME NEW t \in Scanners, Commit(t) PROVE liveRows'[i] = 0 \/ i \in oldMarks
    BY <2>1 DEF Commit, MergedMarks
  <2>2. ASSUME NEW b \in Clients, WriteBookmark(b)
        PROVE  bpc[b] = "locked" /\ bpc'[b] = "written" /\ request[b].item = i
    BY <1>1, <2>2 DEF WriteBookmark, IInv, Types, TypeOK, Marks
  <2>3. CASE OneShot
    BY <2>3 DEF OneShot
  <2> QED BY <1>1, <2>1, <2>2, <2>3, MarksFrame
<1> QED BY Invariance, <1>1, PTL DEF Spec, BookmarksKept

\* Whatever path a Browse or Search answer takes (SQLite, query cache or
\* memory), its page is the one of the catalog it is rendered from.
THEOREM AnswersAreHonest == Spec => HonestAnswers
<1>1. ASSUME IInv, [Next]_vars
      PROVE  [Alone => \A r \in Readers :
                answer[r] = None /\ answer'[r] # None =>
                    answer'[r] = [gen |-> updateId, page |-> rows]]_vars
  <2> SUFFICES ASSUME Next, Alone, NEW r \in Readers, answer[r] = None, answer'[r] # None
               PROVE  answer'[r] = [gen |-> updateId, page |-> rows]
    BY <1>1
  <2> USE DEF live, stage, sess, app, locks, scanner, client, reader
  <2>1. \A t \in Scanners : ~ScannerStep(t)
    BY
    DEF ScannerStep, StartPass, Rebackup, RebackupFails, BeginPrepare, Scan,
        Apply,
           ScanFails, DropPrepared, LockPublication, Commit, CommitFails, FinishPass
  <2>2. \A b \in Clients : ~ClientStep(b)
    BY DEF ClientStep, Resolve, LockBookmark, WriteBookmark, RefuseBookmark,
           ApplyBookmark
  <2>3. ~DiskChange /\ ~Age /\ ~OneShot /\ ~Crash
    BY DEF DiskChange, Age, OneShot, Crash
  <2>4. ASSUME NEW s \in Readers, ReaderStep(s) PROVE s = r /\ Answer(s)
    BY <1>1, <2>4 DEF ReaderStep, StartQuery, Lookup, ReadBefore, ReadPage,
        ReadAfter, Answer, NextQuery, IInv, Types, TypeOK
  <2>5. Answer(r)
    BY <2>1, <2>2, <2>3, <2>4 DEF Next
  <2>6. Accepted(snapshot[r]) => snapshot[r].page = rows
    BY <1>1 DEF Accepted, IInv, Pages, PageOK
  <2> QED
    BY <1>1, <2>5, <2>6 DEF Answer, IInv, Types, TypeOK
<1> QED BY Invariance, <1>1, PTL DEF Spec, HonestAnswers

\* The five invariants of a publication, for any library, number of threads,
\* failures, crashes and foreign rescans.
THEOREM PublicationIsSafe == Spec => []PublicationSafe
<1>1. TypeOK /\ GenerationsAgree /\ StageTracksLive /\ NoUnpublishedWork /\ CatalogAgrees
        => PublicationSafe
  BY DEF PublicationSafe
<1> QED
  BY <1>1, TypeCorrect, GenerationsMeet, StageIsCurrent, PassesApart, CatalogIsDatabase, PTL


\* The two together: no step of the processes above loses a bookmark or changes
\* the catalog behind the renderers' back.
THEOREM ChangesSeenMarksSurvive == Spec => ChangesSeenMarksKept
BY EveryChangeAnnounced, BookmarksSurvive DEF ChangesSeenMarksKept
=============================================================================
