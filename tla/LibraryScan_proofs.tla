-------------------------- MODULE LibraryScan_proofs --------------------------
(***************************************************************************)
(* Proofs about LibraryScan for any roots, files, changes and faults.      *)
(* ScanInv describes the committed rows and those of the running pass in   *)
(* the same terms: Current for what their columns describe, Once for the   *)
(* entries of All Video.  Remembers says why a row that a pass has dropped *)
(* may be dropped, Looked what it knows of the roots it trusts, and        *)
(* Converging how far an undisturbed pass has brought its rows to the disk.*)
(***************************************************************************)
EXTENDS LibraryScan, FiniteSetTheorems, TLAPS

Rows == [ino : LsInodes, ver : 0..MaxChanges, desc : 0..MaxChanges \cup {Nil}, rev : -2..1]
Tables == [LsPaths -> Rows \cup {Nil}]
Passes ==
  [kind : {"full", "dirty", "scan"}, at : {"walk", "hold", "judge", "index", "finish"},
   roots : SUBSET Roots, paths : SUBSET LsPaths, walk : SUBSET Roots, scope : SUBSET LsPaths,
   listed : SUBSET LsPaths, todo : SUBSET LsPaths, checked : BOOLEAN,
   rows : Tables, entries : SUBSET LsPaths, lost : SUBSET LsInodes]

Types ==
  /\ disk \in [Files -> LsInodes \cup {Nil}]
  /\ changes \in 0..MaxChanges
  /\ stamp \in [LsInodes -> 0..MaxChanges] /\ \A i \in LsInodes : stamp[i] <= changes
  /\ mount \in [Roots -> {"volume", "bare", "missing"}]
  /\ recorded \in [Roots -> {"volume", "bare", Nil}]
  /\ rows \in Tables /\ entries \subseteq LsPaths
  /\ pass # Nil => pass \in Passes

\* The columns of a row describe its content or a later one.
Current(rs) ==
  \A p \in LsPaths : rs[p] # Nil =>
    /\ rs[p].ver <= stamp[rs[p].ino]
    /\ rs[p].desc # Nil => rs[p].desc >= rs[p].ver

\* A physical file has one entry, unless its inode was swapped or, until the
\* end of the pass, lost a path.
Once(rs, es, lost) ==
  /\ \A p \in es : rs[p] # Nil
  /\ \A p, q \in es : rs[p].ino = rs[q].ino /\ rs[p].ino \notin swapped => p = q
  /\ \A p \in LsPaths : rs[p] # Nil /\ rs[p].ino \notin swapped \cup lost =>
       \E q \in es : rs[q].ino = rs[p].ino

Truthful ==
  /\ Current(rows) /\ Once(rows, entries, {})
  /\ pass # Nil => Current(pass.rows) /\ Once(pass.rows, pass.entries, pass.lost)

\* Where a pass is: what has been walked, listed and checked by then.
Staged ==
  pass # Nil =>
    /\ pass.at # "walk" => pass.walk = {}
    /\ \A p \in pass.listed \cup pass.todo : RootOf[p] \notin pass.walk
    /\ pass.at = "judge" => pass.checked
    /\ pass.at = "finish" \/ (pass.kind = "scan" /\ pass.at \in {"hold", "judge"}) => pass.todo = {}

Excused(f) == f \in absent \/ RootOf[f] \in late \/ recorded[RootOf[f]] = "bare"
Early == pass.kind # "scan" /\ pass.at \in {"walk", "hold", "judge"}

\* A row that the pass dropped or will drop has an excuse.
Remembers ==
  pass # Nil =>
    /\ \A f \in Files : disk[f] = Nil => f \in absent
    /\ \A f \in Files : rows[f] # Nil /\ pass.rows[f] = Nil => Excused(f)
    /\ Early => \A f \in Files \cap pass.scope :
         \/ RootOf[f] \in pass.walk \/ f \in pass.listed \/ HeldBack(f)
         \/ f \in absent \/ RootOf[f] \in late \/ mount[RootOf[f]] # "volume"

\* A root that is neither held nor late is on its volume, or the pass takes
\* its bare mount point for an emptied library.
Looked ==
  pass # Nil =>
    /\ pass.kind = "dirty" => \A p \in pass.scope : mount[RootOf[p]] = "volume" \/ RootOf[p] \in late
    /\ pass.kind # "dirty" /\ pass.at = "judge" => \A r \in Roots \ pass.roots :
         \/ mount[r] = "volume" \/ r \in late \/ recorded[r] = "bare"
         \/ \A p \in LsPaths : RootOf[p] = r => pass.rows[p] = Nil

\* The row of p is as the disk has it.
Restated(p) ==
  pass.rows[p] # Nil /\ pass.rows[p].ino = Visible(p) /\ pass.rows[p].ver = stamp[Visible(p)]

AsFound(p) ==
  /\ Visible(p) # Nil => (p \in pass.todo \/ Restated(p)) /\ (Early => p \in pass.listed)
  /\ Visible(p) = Nil =>
       /\ Gone(p) /\ p \notin pass.todo \cup pass.listed
       /\ pass.at = "finish" \/ (pass.kind # "scan" /\ pass.at = "index") => pass.rows[p] = Nil

Converging ==
  pass # Nil /\ calm =>
    \A p \in pass.scope : HeldBack(p) \/ RootOf[p] \in pass.walk \/ AsFound(p)

ScanInv == Types /\ Truthful /\ Staged /\ Remembers /\ Looked /\ Converging

-------------------------------------------------------------------------------
(* The first state.                                                          *)

LEMMA InitOK == LsInit => ScanInv
<1> SUFFICES ASSUME LsInit PROVE ScanInv
  OBVIOUS
<1>1. /\ \E i \in LsInodes : disk = [f \in Files |-> IF f = Target THEN i ELSE Nil]
      /\ stamp = [i \in LsInodes |-> 0] /\ mount = [r \in Roots |-> "volume"] /\ changes = 0
      /\ rows = [p \in LsPaths |-> Nil] /\ entries = {} /\ recorded = [r \in Roots |-> Nil]
      /\ pass = Nil
  BY DEF LsInit
<1>2. MaxChanges \in Nat
  BY ScanAssumption
<1>3. Types
  <2>1. disk \in [Files -> LsInodes \cup {Nil}]
    BY <1>1
  <2>2. stamp \in [LsInodes -> 0..MaxChanges] /\ changes \in 0..MaxChanges
        /\ \A i \in LsInodes : stamp[i] <= changes
    BY <1>1, <1>2
  <2>3. rows \in Tables /\ entries \subseteq LsPaths
    BY <1>1 DEF Tables
  <2>4. mount \in [Roots -> {"volume", "bare", "missing"}]
        /\ recorded \in [Roots -> {"volume", "bare", Nil}]
    BY <1>1
  <2> QED BY <1>1, <2>1, <2>2, <2>3, <2>4 DEF Types
<1>4. Truthful
  BY <1>1 DEF Truthful, Current, Once
<1> QED BY <1>1, <1>3, <1>4 DEF ScanInv, Staged, Remembers, Looked, Converging

-------------------------------------------------------------------------------
(* Other programs and the administrator.                                     *)

\* What a path leads to is an inode or nothing.
LEMMA VisibleType ==
  ASSUME Types, NEW p \in LsPaths
  PROVE  Visible(p) \in LsInodes \cup {Nil} /\ FileOf(p) \in Files /\ RootOf[p] \in Roots
BY ScanAssumption DEF Types, Visible, FileOf, LsPaths

\* A change is counted; a pass that is running is not calm any more and
\* remembers which files went away, which roots came back.
LEMMA WorldStep ==
  ASSUME ScanInv, World
  PROVE  /\ changes < MaxChanges /\ changes' = changes + 1
         /\ disk' \in [Files -> LsInodes \cup {Nil}]
         /\ stamp' \in [LsInodes -> 0..MaxChanges]
         /\ \A i \in LsInodes : stamp[i] <= stamp'[i] /\ stamp'[i] <= changes'
         /\ mount' \in [Roots -> {"volume", "bare", "missing"}]
         /\ UNCHANGED <<db, pass, swapped>>
         /\ calm' = (pass = Nil)
         /\ late \subseteq late'
         /\ pass # Nil =>
              /\ absent \subseteq absent'
              /\ \A f \in Files : disk'[f] = Nil => disk[f] = Nil \/ f \in absent'
              /\ \A r \in Roots : mount'[r] # mount[r] /\ (Trusting \/ mount'[r] = "volume")
                     => r \in late'
<1> USE DEF ScanInv, Types
<1>1. MaxChanges \in Nat /\ changes \in Nat
  BY ScanAssumption
<1>2. ASSUME NEW paths, Change(paths)
      PROVE  /\ changes < MaxChanges /\ changes' = changes + 1
             /\ UNCHANGED <<db, pass, swapped>>
             /\ calm' = (pass = Nil)
             /\ pass # Nil => absent' = absent \cup paths
  BY <1>2 DEF Change
<1>3. ASSUME changes' = changes + 1, changes < MaxChanges, NEW i \in LsInodes,
             stamp' = [stamp EXCEPT ![i] = changes']
      PROVE  /\ stamp' \in [LsInodes -> 0..MaxChanges]
             /\ \A j \in LsInodes : stamp[j] <= stamp'[j] /\ stamp'[j] <= changes'
  BY <1>1, <1>3
<1>4. ASSUME changes' = changes + 1, changes < MaxChanges, stamp' = stamp
      PROVE  /\ stamp' \in [LsInodes -> 0..MaxChanges]
             /\ \A j \in LsInodes : stamp[j] <= stamp'[j] /\ stamp'[j] <= changes'
  BY <1>1, <1>4
<1>5. CASE \E f \in Files, i \in LsInodes : WriteNew(f, i)
  <2> PICK f \in Files, i \in LsInodes : WriteNew(f, i)
    BY <1>5
  <2>1. Change({}) /\ disk' = [disk EXCEPT ![f] = i] /\ stamp' = [stamp EXCEPT ![i] = changes']
        /\ mount' = mount /\ late' = late
    BY DEF WriteNew
  <2>2. disk' \in [Files -> LsInodes \cup {Nil}] /\ \A g \in Files : disk'[g] = Nil => disk[g] = Nil
    BY <2>1, ScanAssumption
  <2> QED BY <1>2, <1>3, <2>1, <2>2
<1>6. CASE \E f \in Files : Rewrite(f)
  <2> PICK f \in Files : Rewrite(f)
    BY <1>6
  <2>1. Change({}) /\ disk' = disk /\ stamp' = [stamp EXCEPT ![disk[f]] = changes']
        /\ mount' = mount /\ late' = late /\ disk[f] \in LsInodes
    BY DEF Rewrite
  <2> QED BY <1>2, <1>3, <2>1
<1>7. CASE \E f \in Files : Delete(f)
  <2> PICK f \in Files : Delete(f)
    BY <1>7
  <2>1. Change({f}) /\ disk' = [disk EXCEPT ![f] = Nil] /\ stamp' = stamp
        /\ mount' = mount /\ late' = late
    BY DEF Delete
  <2>2. disk' \in [Files -> LsInodes \cup {Nil}] /\ \A g \in Files : disk'[g] = Nil => disk[g] = Nil \/ g = f
    BY <2>1
  <2> QED BY <1>2, <1>4, <2>1, <2>2
<1>8. CASE \E f \in Files : Seal(f)
  <2> PICK f \in Files : Seal(f)
    BY <1>8
  <2>1. Change({}) /\ disk' = disk /\ stamp' = stamp /\ mount' = mount /\ late' = late
    BY DEF Seal
  <2> QED BY <1>2, <1>4, <2>1
<1>9. CASE \E f, g \in Files : HardLink(f, g)
  <2> PICK f \in Files, g \in Files : HardLink(f, g)
    BY <1>9
  <2>1. Change({}) /\ disk' = [disk EXCEPT ![g] = disk[f]] /\ stamp' = stamp
        /\ mount' = mount /\ late' = late /\ disk[f] # Nil
    BY DEF HardLink
  <2>2. disk' \in [Files -> LsInodes \cup {Nil}] /\ \A h \in Files : disk'[h] = Nil => disk[h] = Nil
    BY <2>1
  <2> QED BY <1>2, <1>4, <2>1, <2>2
<1>10. CASE \E r \in Roots, m \in {"volume", "bare", "missing"} : Remount(r, m)
  <2> PICK r \in Roots, m \in {"volume", "bare", "missing"} : Remount(r, m)
    BY <1>10
  <2>1. Change({}) /\ disk' = disk /\ stamp' = stamp /\ mount' = [mount EXCEPT ![r] = m]
        /\ late' = IF Trusting \/ (pass # Nil /\ m = "volume") THEN late \cup {r} ELSE late
    BY DEF Remount
  <2>2. mount' \in [Roots -> {"volume", "bare", "missing"}]
        /\ \A s \in Roots : mount'[s] # mount[s] => s = r /\ mount'[s] = m
    BY <2>1
  <2>3. late \subseteq late' /\ (pass # Nil /\ (Trusting \/ m = "volume") => r \in late')
    BY <2>1
  <2> QED BY <1>2, <1>4, <2>1, <2>2, <2>3
<1> QED BY <1>5, <1>6, <1>7, <1>8, <1>9, <1>10 DEF World

\* Rows that describe a content describe it after any change.
LEMMA CurrentKept ==
  ASSUME Types, NEW rs \in Tables, Current(rs),
         stamp' \in [LsInodes -> 0..MaxChanges], \A i \in LsInodes : stamp[i] <= stamp'[i]
  PROVE  \A p \in LsPaths : rs[p] # Nil =>
           /\ rs[p].ver <= stamp'[rs[p].ino]
           /\ rs[p].desc # Nil => rs[p].desc >= rs[p].ver
<1> SUFFICES ASSUME NEW p \in LsPaths, rs[p] # Nil
             PROVE  /\ rs[p].ver <= stamp'[rs[p].ino]
                    /\ rs[p].desc # Nil => rs[p].desc >= rs[p].ver
  OBVIOUS
<1>1. rs[p] \in Rows
  BY DEF Tables
<1>2. rs[p].ino \in LsInodes /\ rs[p].ver \in 0..MaxChanges
  BY <1>1 DEF Rows
<1>3. rs[p].ver <= stamp[rs[p].ino] /\ (rs[p].desc # Nil => rs[p].desc >= rs[p].ver)
  BY DEF Current
<1>4. stamp[rs[p].ino] <= stamp'[rs[p].ino] /\ stamp[rs[p].ino] \in 0..MaxChanges
      /\ stamp'[rs[p].ino] \in 0..MaxChanges
  BY <1>2 DEF Types
<1>5. MaxChanges \in Nat
  BY ScanAssumption
<1> QED BY <1>2, <1>3, <1>4, <1>5

LEMMA WorldKeeps == ASSUME ScanInv, World PROVE ScanInv'
<1>1. /\ changes < MaxChanges /\ changes' = changes + 1
      /\ disk' \in [Files -> LsInodes \cup {Nil}]
      /\ stamp' \in [LsInodes -> 0..MaxChanges]
      /\ \A i \in LsInodes : stamp[i] <= stamp'[i] /\ stamp'[i] <= changes'
      /\ mount' \in [Roots -> {"volume", "bare", "missing"}]
      /\ rows' = rows /\ entries' = entries /\ recorded' = recorded /\ pass' = pass
      /\ swapped' = swapped
      /\ calm' = (pass = Nil)
      /\ late \subseteq late'
  BY WorldStep, Zenon DEF db
<1>2. pass # Nil =>
        /\ absent \subseteq absent'
        /\ \A f \in Files : disk'[f] = Nil => disk[f] = Nil \/ f \in absent'
        /\ \A r \in Roots : mount'[r] # mount[r] /\ (Trusting \/ mount'[r] = "volume")
               => r \in late'
  BY WorldStep, Zenon
<1>3. Types /\ Truthful /\ Staged /\ Remembers /\ Looked /\ Converging
  BY DEF ScanInv
<1>4. Types'
  <2>1. changes' \in 0..MaxChanges
    BY <1>1, <1>3, ScanAssumption DEF Types
  <2> QED BY <1>1, <1>3, <2>1 DEF Types
<1>5. Truthful'
  <2>1. Current(rows)'
    BY <1>1, <1>3, CurrentKept DEF Truthful, Types, Current
  <2>2. pass # Nil => Current(pass.rows)'
    <3> SUFFICES ASSUME pass # Nil PROVE Current(pass.rows)'
      OBVIOUS
    <3>1. pass.rows \in Tables
      BY <1>3 DEF Types, Passes
    <3> QED BY <1>1, <1>3, <3>1, CurrentKept DEF Truthful, Current
  <2>3. Once(rows, entries, {})' /\ (pass # Nil => Once(pass.rows, pass.entries, pass.lost)')
    BY <1>1, <1>3, Zenon DEF Truthful, Once
  <2> QED BY <1>1, <2>1, <2>2, <2>3 DEF Truthful
<1>6. Staged'
  BY <1>1, <1>3 DEF Staged
<1>7. Remembers'
  <2> SUFFICES ASSUME pass # Nil PROVE Remembers'
    BY <1>1 DEF Remembers
  <2>1. \A f \in Files : disk'[f] = Nil => f \in absent'
    BY <1>2, <1>3 DEF Remembers
  <2>2. \A f \in Files : rows'[f] # Nil /\ pass'.rows[f] = Nil => Excused(f)'
    BY <1>1, <1>2, <1>3 DEF Remembers, Excused
  <2>3. ASSUME Early', NEW f \in Files, f \in pass.scope
        PROVE  \/ RootOf[f] \in pass.walk \/ f \in pass.listed \/ HeldBack(f)
               \/ f \in absent' \/ RootOf[f] \in late' \/ mount'[RootOf[f]] # "volume"
    <3>1. Early
      BY <1>1, <2>3 DEF Early
    <3>2. RootOf[f] \in Roots
      BY ScanAssumption
    <3>3. \/ RootOf[f] \in pass.walk \/ f \in pass.listed \/ HeldBack(f)
          \/ f \in absent \/ RootOf[f] \in late \/ mount[RootOf[f]] # "volume"
      BY <1>3, <2>3, <3>1 DEF Remembers
    <3> QED BY <1>1, <1>2, <3>2, <3>3
  <2> QED BY <1>1, <2>1, <2>2, <2>3 DEF Remembers, HeldBack
<1>8. Looked'
  <2> SUFFICES ASSUME pass # Nil PROVE Looked'
    BY <1>1 DEF Looked
  <2>1. ASSUME pass.kind = "dirty", NEW p \in pass.scope
        PROVE  mount'[RootOf[p]] = "volume" \/ RootOf[p] \in late'
    <3>1. Trusting
      BY <2>1 DEF Trusting
    <3>2. p \in LsPaths
      BY <1>3, <2>1 DEF Types, Passes
    <3>3. RootOf[p] \in Roots
      BY <1>3, <3>2, VisibleType
    <3>4. mount[RootOf[p]] = "volume" \/ RootOf[p] \in late
      BY <1>3, <2>1 DEF Looked
    <3> QED BY <1>1, <1>2, <3>1, <3>3, <3>4
  <2>2. ASSUME pass.kind # "dirty", pass.at = "judge", NEW r \in Roots \ pass.roots
        PROVE  \/ mount'[r] = "volume" \/ r \in late' \/ recorded[r] = "bare"
               \/ \A p \in LsPaths : RootOf[p] = r => pass.rows[p] = Nil
    <3>1. Trusting
      BY <1>3, <2>2 DEF Trusting, Staged
    <3> QED BY <1>1, <1>2, <1>3, <2>2, <3>1 DEF Looked
  <2> QED BY <1>1, <2>1, <2>2 DEF Looked
<1>9. Converging'
  BY <1>1 DEF Converging
<1> QED BY <1>4, <1>5, <1>6, <1>7, <1>8, <1>9 DEF ScanInv

-------------------------------------------------------------------------------
(* A pass begins, walks the roots it trusts and looks at them again.         *)

LEMMA BeginKeeps ==
  ASSUME ScanInv, NEW kind \in {"full", "dirty", "scan"}, NEW dirty, NEW scope \in SUBSET LsPaths,
         kind = "dirty" => scope \subseteq dirty,
         Begin(kind, dirty, scope)
  PROVE  ScanInv'
<1> DEFINE U == Unavailable(kind, dirty, rows)
           S == {p \in scope : kind = "dirty" => RootOf[p] \notin U}
<1>1. /\ pass = Nil
      /\ pass' = [kind |-> kind, at |-> "walk", roots |-> U, paths |-> {}, walk |-> Roots \ U,
                  scope |-> S, listed |-> {}, todo |-> {}, checked |-> FALSE,
                  rows |-> rows, entries |-> entries, lost |-> {}]
      /\ absent' = {f \in Files : disk[f] = Nil}
      /\ late' = IF kind = "dirty" THEN late \cup {r \in Roots : mount[r] = "bare"} ELSE late
      /\ disk' = disk /\ stamp' = stamp /\ mount' = mount /\ sealed' = sealed /\ changes' = changes
      /\ rows' = rows /\ entries' = entries /\ recorded' = recorded /\ swapped' = swapped
  BY DEF Begin, world, db
<1>2. U \subseteq Roots /\ S \subseteq LsPaths
  BY DEF Unavailable
<1>3. Types /\ Current(rows) /\ Once(rows, entries, {})
  BY <1>1 DEF ScanInv, Truthful
<1>4. \A p \in LsPaths : RootOf[p] \in Roots
  BY ScanAssumption DEF LsPaths
<1> HIDE DEF U, S
<1>5. pass' \in Passes
  BY <1>1, <1>2, <1>3 DEF Passes, Types
<1>6. Types'
  BY <1>1, <1>3, <1>5 DEF Types
<1>7. Truthful'
  BY <1>1, <1>3 DEF Truthful, Current, Once
<1>8. Staged'
  BY <1>1 DEF Staged
<1>9. \A p \in S : RootOf[p] \in U \/ RootOf[p] \in Roots \ U
  BY <1>2, <1>4
<1>10. Remembers'
  BY <1>1, <1>9 DEF Remembers, HeldBack
<1>11. Looked'
  <2>1. ASSUME kind = "dirty", NEW p \in S PROVE mount[RootOf[p]] = "volume" \/ RootOf[p] \in late'
    <3>1. RootOf[p] \in Roots /\ RootOf[p] \notin U /\ p \in dirty
      BY <1>2, <1>4, <2>1 DEF S
    <3>2. mount[RootOf[p]] # "missing"
      BY <2>1, <3>1 DEF U, Unavailable
    <3> QED BY <1>1, <1>3, <2>1, <3>1, <3>2 DEF Types
  <2> QED BY <1>1, <2>1 DEF Looked
<1>12. Converging'
  BY <1>1, <1>9 DEF Converging, HeldBack
<1> QED BY <1>6, <1>7, <1>8, <1>10, <1>11, <1>12 DEF ScanInv

\* Steps of a pass that touch neither the disk nor the rows.
LEMMA QuietStep ==
  ASSUME ScanInv, pass # Nil, UNCHANGED <<world, faults, db, ghosts>>,
         pass' \in Passes,
         pass'.rows = pass.rows, pass'.entries = pass.entries, pass'.lost = pass.lost
  PROVE  /\ Types' /\ Truthful'
         /\ disk' = disk /\ stamp' = stamp /\ mount' = mount /\ sealed' = sealed
         /\ rows' = rows /\ recorded' = recorded
         /\ late' = late /\ absent' = absent /\ calm' = calm
         /\ \A p \in LsPaths : (Visible(p) = Nil <=> Visible(p)' = Nil) /\ (Gone(p) <=> Gone(p)')
         /\ \A p \in LsPaths : Restated(p) <=> Restated(p)'
<1>1. /\ disk' = disk /\ stamp' = stamp /\ mount' = mount /\ sealed' = sealed /\ changes' = changes
      /\ rows' = rows /\ entries' = entries /\ recorded' = recorded
      /\ late' = late /\ swapped' = swapped /\ absent' = absent /\ calm' = calm
  BY DEF world, db, ghosts
<1>2. Types /\ Truthful
  BY DEF ScanInv
<1>3. Types'
  BY <1>1, <1>2 DEF Types
<1>4. Truthful'
  <2>1. Current(rows)' /\ Once(rows, entries, {})'
    BY <1>1, <1>2 DEF Truthful, Current, Once
  <2>2. Current(pass.rows)'
    BY <1>1, <1>2 DEF Truthful, Current
  <2>3. Once(pass.rows, pass.entries, pass.lost)'
    BY <1>1, <1>2 DEF Truthful, Once
  <2> QED BY <2>1, <2>2, <2>3 DEF Truthful
<1>5. \A p \in LsPaths : Visible(p)' = Visible(p)
  BY <1>1 DEF Visible
<1>6. \A p \in LsPaths : Gone(p)' <=> Gone(p)
  BY <1>1, <1>5 DEF Gone
<1>7. \A p \in LsPaths : Restated(p)' <=> Restated(p)
  BY <1>1, <1>5 DEF Restated
<1> QED BY <1>1, <1>3, <1>4, <1>5, <1>6, <1>7

\* A walk of one root lists what can be opened and holds what may not be.
LEMMA WalkKeeps ==
  ASSUME ScanInv, NEW r \in Roots, Walk(r) \/ WalkAndQueue(r)
  PROVE  ScanInv'
<1> DEFINE here == {p \in pass.scope : RootOf[p] = r}
           seen == {p \in here : Visible(p) # Nil}
           refused == {p \in here : Visible(p) = Nil /\ ~Gone(p)}
<1>1. /\ pass # Nil /\ pass.at = "walk" /\ r \in pass.walk
      /\ UNCHANGED <<world, faults, db, ghosts>>
      /\ pass \in Passes
  BY DEF Walk, WalkAndQueue, ScanInv, Types
<1>2. /\ pass' \in Passes
      /\ pass'.kind = pass.kind /\ pass'.scope = pass.scope /\ pass'.checked = pass.checked
      /\ pass'.rows = pass.rows /\ pass'.entries = pass.entries /\ pass'.lost = pass.lost
      /\ pass'.walk = pass.walk \ {r}
      /\ pass'.listed = pass.listed \cup seen /\ pass'.todo = pass.todo \cup seen
      /\ pass'.paths = pass.paths \cup refused
      /\ pass.roots \subseteq pass'.roots
  <2>1. seen \subseteq LsPaths /\ refused \subseteq LsPaths
    BY <1>1 DEF Passes
  <2>2. \E R \in SUBSET Roots, a \in {"walk", "hold", "index"} :
          /\ pass.roots \subseteq R
          /\ pass' = [[pass EXCEPT !.walk = @ \ {r}, !.listed = @ \cup seen, !.todo = @ \cup seen,
                                   !.paths = @ \cup refused, !.roots = R] EXCEPT !.at = a]
    <3> DEFINE R == IF mount[r] = "missing" THEN pass.roots \cup {r} ELSE pass.roots
    <3>1. R \in SUBSET Roots /\ pass.roots \subseteq R
      BY <1>1 DEF Passes
    <3>2. Listing(r) = [pass EXCEPT !.walk = @ \ {r}, !.listed = @ \cup seen, !.todo = @ \cup seen,
                                    !.paths = @ \cup refused, !.roots = R]
      BY DEF Listing
    <3> HIDE DEF R, seen, refused
    <3>3. CASE Walk(r)
      BY <3>1, <3>2, <3>3 DEF Walk
    <3>4. CASE WalkAndQueue(r)
      BY <3>1, <3>2, <3>4 DEF WalkAndQueue
    <3> QED BY <3>3, <3>4
  <2> HIDE DEF seen, refused
  <2>3. PICK R \in SUBSET Roots, a \in {"walk", "hold", "index"} :
          /\ pass.roots \subseteq R
          /\ pass' = [[pass EXCEPT !.walk = @ \ {r}, !.listed = @ \cup seen, !.todo = @ \cup seen,
                                   !.paths = @ \cup refused, !.roots = R] EXCEPT !.at = a]
    BY <2>2
  <2> QED BY <1>1, <2>1, <2>3 DEF Passes
<1>3. /\ pass'.at \in {"walk", "hold", "index"}
      /\ pass'.at # "walk" => pass.walk = {r}
      /\ pass'.at = "hold" => pass.kind # "scan"
      /\ pass'.at = "index" => pass.kind = "scan"
  <2> HIDE DEF seen, refused
  <2>1. Listing(r).kind = pass.kind /\ DOMAIN Listing(r) = DOMAIN pass /\ "at" \in DOMAIN pass
    BY <1>1 DEF Listing, Passes
  <2>2. CASE Walk(r)
    <3>1. pass.kind # "scan" /\ pass'.at = IF pass.walk = {r} THEN "hold" ELSE "walk"
      BY <2>1, <2>2 DEF Walk
    <3> QED BY <3>1
  <2>3. CASE WalkAndQueue(r)
    <3>1. pass.kind = "scan" /\ pass'.at = IF pass.walk = {r} THEN "index" ELSE "walk"
      BY <2>1, <2>3 DEF WalkAndQueue
    <3> QED BY <3>1
  <2> QED BY <2>2, <2>3
<1>4. /\ Types' /\ Truthful'
      /\ disk' = disk /\ stamp' = stamp /\ mount' = mount /\ sealed' = sealed
      /\ rows' = rows /\ recorded' = recorded
      /\ late' = late /\ absent' = absent /\ calm' = calm
      /\ \A p \in LsPaths : (Visible(p) = Nil <=> Visible(p)' = Nil) /\ (Gone(p) <=> Gone(p)')
      /\ \A p \in LsPaths : Restated(p) <=> Restated(p)'
  BY <1>1, <1>2, QuietStep, Zenon
<1>5. Staged /\ Remembers /\ Looked /\ Converging /\ Types
  BY DEF ScanInv
<1>6. pass.scope \subseteq LsPaths
  BY <1>1 DEF Passes
<1>7. Staged'
  BY <1>1, <1>2, <1>3, <1>5 DEF Staged
<1>8. \A p \in LsPaths : HeldBack(p) => HeldBack(p)'
  BY <1>2 DEF HeldBack
<1>9. \A p \in here : p \in seen \/ HeldBack(p)' \/ (Visible(p) = Nil /\ Gone(p))
  BY <1>2 DEF HeldBack
<1>10. Remembers'
  <2>1. ASSUME Early', NEW f \in Files \cap pass.scope
        PROVE  \/ RootOf[f] \in pass'.walk \/ f \in pass'.listed \/ HeldBack(f)'
               \/ f \in absent \/ RootOf[f] \in late \/ mount[RootOf[f]] # "volume"
    <3>1. Early
      BY <1>1, <1>2, <2>1 DEF Early
    <3>2. CASE RootOf[f] = r
      <4>1. f \in here /\ FileOf(f) = f
        BY <3>2, ScanAssumption DEF FileOf
      <4>2. Gone(f) /\ Visible(f) = Nil /\ mount[r] = "volume" => disk[f] = Nil
        BY <3>2, <4>1 DEF Gone, Visible
      <4>3. disk[f] = Nil => f \in absent
        BY <1>1, <1>5 DEF Remembers
      <4> QED BY <1>2, <1>9, <3>2, <4>1, <4>2, <4>3
    <3>3. CASE RootOf[f] # r
      <4>1. \/ RootOf[f] \in pass.walk \/ f \in pass.listed \/ HeldBack(f)
            \/ f \in absent \/ RootOf[f] \in late \/ mount[RootOf[f]] # "volume"
        BY <1>1, <1>5, <3>1 DEF Remembers
      <4> QED BY <1>2, <1>6, <1>8, <3>3, <4>1
    <3> QED BY <3>2, <3>3
  <2> QED BY <1>1, <1>2, <1>4, <1>5, <2>1 DEF Remembers, Excused
<1>11. Looked'
  BY <1>1, <1>2, <1>3, <1>4, <1>5 DEF Looked
<1>12. Converging'
  <2> SUFFICES ASSUME calm, NEW p \in pass.scope
               PROVE  HeldBack(p)' \/ RootOf[p] \in pass'.walk \/ AsFound(p)'
    BY <1>1, <1>2, <1>4 DEF Converging
  <2>0. p \in LsPaths
    BY <1>6
  <2>1. CASE RootOf[p] = r
    <3>1. p \in here
      BY <2>1
    <3>2. p \notin pass.listed \cup pass.todo
      BY <1>1, <1>5, <2>1 DEF Staged
    <3>3. CASE p \in seen
      BY <1>2, <1>4, <2>0, <3>3 DEF AsFound
    <3>4. CASE Visible(p) = Nil /\ Gone(p)
      BY <1>2, <1>3, <1>4, <2>0, <3>2, <3>4 DEF AsFound
    <3> QED BY <1>9, <3>1, <3>3, <3>4
  <2>2. CASE RootOf[p] # r
    <3>1. HeldBack(p) \/ RootOf[p] \in pass.walk \/ AsFound(p)
      BY <1>1, <1>5 DEF Converging
    <3>2. CASE AsFound(p)
      <4>1. p \notin seen
        BY <2>2
      <4>2. Early' => Early
        BY <1>1, <1>2 DEF Early
      <4> HIDE DEF seen
      <4> QED BY <1>2, <1>3, <1>4, <2>0, <3>2, <4>1, <4>2 DEF AsFound
    <3> QED BY <1>2, <1>8, <2>0, <2>2, <3>1, <3>2
  <2> QED BY <2>1, <2>2
<1> QED BY <1>4, <1>7, <1>10, <1>11, <1>12 DEF ScanInv

\* A pass that has nothing left to walk, or to index, goes on.
LEMMA TurnKeeps ==
  ASSUME ScanInv, NothingToWalk \/ Indexed
  PROVE  ScanInv'
<1>1. /\ pass # Nil /\ UNCHANGED <<world, faults, db, ghosts>> /\ pass \in Passes
      /\ pass' = [pass EXCEPT !.at = pass'.at]
      /\ \/ /\ pass.at = "walk" /\ pass.walk = {}
            /\ pass'.at = IF pass.kind = "scan" THEN "index" ELSE "hold"
         \/ /\ pass.at = "index" /\ pass.todo = {}
            /\ pass'.at = IF pass.kind = "scan" THEN "hold" ELSE "finish"
  BY DEF NothingToWalk, Indexed, ScanInv, Types, Passes
<1>2. /\ pass' \in Passes /\ pass'.kind = pass.kind /\ pass'.scope = pass.scope
      /\ pass'.checked = pass.checked /\ pass'.rows = pass.rows /\ pass'.entries = pass.entries
      /\ pass'.lost = pass.lost /\ pass'.walk = pass.walk /\ pass'.listed = pass.listed
      /\ pass'.todo = pass.todo /\ pass'.paths = pass.paths /\ pass'.roots = pass.roots
  BY <1>1 DEF Passes
<1>3. /\ Types' /\ Truthful'
      /\ disk' = disk /\ stamp' = stamp /\ mount' = mount /\ sealed' = sealed
      /\ rows' = rows /\ recorded' = recorded
      /\ late' = late /\ absent' = absent /\ calm' = calm
      /\ \A p \in LsPaths : (Visible(p) = Nil <=> Visible(p)' = Nil) /\ (Gone(p) <=> Gone(p)')
      /\ \A p \in LsPaths : Restated(p) <=> Restated(p)'
  BY <1>1, <1>2, QuietStep, Zenon
<1>4. Staged /\ Remembers /\ Looked /\ Converging
  BY DEF ScanInv
<1>5. pass.walk = {}
  BY <1>1, <1>4 DEF Staged
<1>6. Early' => Early
  BY <1>1, <1>2 DEF Early
<1>7. \A p \in LsPaths : HeldBack(p)' <=> HeldBack(p)
  BY <1>2 DEF HeldBack
<1>8. Staged'
  BY <1>1, <1>2, <1>4, <1>5 DEF Staged
<1>9. Remembers'
  <2>1. \A f \in Files : f \in LsPaths
    BY DEF LsPaths
  <2> QED BY <1>1, <1>2, <1>3, <1>4, <1>6, <1>7, <2>1 DEF Remembers, Excused
<1>10. Looked'
  BY <1>1, <1>2, <1>3, <1>4 DEF Looked
<1>11. Converging'
  <2> SUFFICES ASSUME calm, NEW p \in pass.scope PROVE HeldBack(p)' \/ AsFound(p)'
    BY <1>1, <1>2, <1>3 DEF Converging
  <2>1. p \in LsPaths
    BY <1>1 DEF Passes
  <2>2. HeldBack(p) \/ AsFound(p)
    BY <1>1, <1>4, <1>5 DEF Converging
  <2>3. ASSUME AsFound(p) PROVE AsFound(p)'
    BY <1>1, <1>2, <1>3, <1>6, <2>1, <2>3 DEF AsFound
  <2> QED BY <1>7, <2>1, <2>2, <2>3
<1> QED BY <1>3, <1>8, <1>9, <1>10, <1>11 DEF ScanInv

\* The second look at the roots, before any row is judged.
LEMMA HoldKeeps ==
  ASSUME ScanInv, HoldAgain
  PROVE  ScanInv'
<1> DEFINE U == Unavailable(pass.kind, pass.scope, pass.rows)
<1>1. /\ pass # Nil /\ UNCHANGED <<world, faults, db, ghosts>> /\ pass \in Passes
      /\ pass.at = "hold"
      /\ pass' = [pass EXCEPT !.roots = @ \cup U, !.at = "judge", !.checked = TRUE]
      /\ U \subseteq Roots
  BY DEF HoldAgain, ScanInv, Types, Unavailable
<1>2. /\ pass' \in Passes /\ pass'.kind = pass.kind /\ pass'.scope = pass.scope
      /\ pass'.checked = TRUE /\ pass'.rows = pass.rows /\ pass'.entries = pass.entries
      /\ pass'.lost = pass.lost /\ pass'.walk = pass.walk /\ pass'.listed = pass.listed
      /\ pass'.todo = pass.todo /\ pass'.paths = pass.paths /\ pass'.roots = pass.roots \cup U
      /\ pass'.at = "judge"
  <2> HIDE DEF U
  <2> QED BY <1>1 DEF Passes
<1>3. /\ Types' /\ Truthful'
      /\ disk' = disk /\ stamp' = stamp /\ mount' = mount /\ sealed' = sealed
      /\ rows' = rows /\ recorded' = recorded
      /\ late' = late /\ absent' = absent /\ calm' = calm
      /\ \A p \in LsPaths : (Visible(p) = Nil <=> Visible(p)' = Nil) /\ (Gone(p) <=> Gone(p)')
      /\ \A p \in LsPaths : Restated(p) <=> Restated(p)'
  BY <1>1, <1>2, QuietStep, Zenon
<1>4. Staged /\ Remembers /\ Looked /\ Converging /\ Types
  BY DEF ScanInv
<1>5. Early' => Early
  BY <1>1, <1>2 DEF Early
<1>6. \A p \in LsPaths : HeldBack(p) => HeldBack(p)'
  BY <1>2 DEF HeldBack
<1>7. Staged'
  BY <1>1, <1>2, <1>4 DEF Staged
<1>8. Remembers'
  <2>1. \A f \in Files : f \in LsPaths
    BY DEF LsPaths
  <2> HIDE DEF U
  <2> QED BY <1>1, <1>2, <1>3, <1>4, <1>5, <1>6, <2>1 DEF Remembers, Excused
<1>9. Looked'
  <2>1. ASSUME pass.kind # "dirty", NEW r \in Roots, r \notin pass.roots \cup U
        PROVE  \/ mount[r] = "volume" \/ r \in late \/ recorded[r] = "bare"
               \/ \A p \in LsPaths : RootOf[p] = r => pass.rows[p] = Nil
    <3>1. mount[r] # "missing"
      BY <2>1 DEF Unavailable
    <3>2. ~(ListsNothing(r) /\ recorded[r] # Device(r)
             /\ \E p \in LsPaths : RootOf[p] = r /\ pass.rows[p] # Nil)
      BY <2>1 DEF Unavailable
    <3>3. mount[r] = "bare" => ListsNothing(r) /\ Device(r) = "bare"
      BY DEF ListsNothing, Device
    <3>4. mount[r] = "volume" \/ mount[r] = "bare"
      BY <1>4, <3>1 DEF Types
    <3> QED BY <3>2, <3>3, <3>4
  <2> HIDE DEF U
  <2> QED BY <1>1, <1>2, <1>3, <1>4, <2>1 DEF Looked
<1>10. Converging'
  <2> SUFFICES ASSUME calm, NEW p \in pass.scope
               PROVE  HeldBack(p)' \/ RootOf[p] \in pass'.walk \/ AsFound(p)'
    BY <1>1, <1>2, <1>3 DEF Converging
  <2>1. p \in LsPaths
    BY <1>1 DEF Passes
  <2>2. HeldBack(p) \/ RootOf[p] \in pass.walk \/ AsFound(p)
    BY <1>1, <1>4 DEF Converging
  <2>3. ASSUME AsFound(p) PROVE AsFound(p)'
    BY <1>1, <1>2, <1>3, <1>5, <2>1, <2>3 DEF AsFound
  <2> QED BY <1>2, <1>6, <2>1, <2>2, <2>3
<1> QED BY <1>3, <1>7, <1>8, <1>9, <1>10 DEF ScanInv

-------------------------------------------------------------------------------
(* Rows are removed, with the aliases that lead nowhere.                     *)

LEMMA AliasesTaken ==
  ASSUME NEW out \in SUBSET LsPaths, \A p \in out : pass.rows[p] # Nil
  PROVE  /\ WithAliases(out) \in SUBSET LsPaths
         /\ out \subseteq WithAliases(out)
         /\ \A p \in WithAliases(out) : pass.rows[p] # Nil
         /\ \A p \in WithAliases(out) : p \in out \/ (Gone(p) /\ ~KeepsAlias(p))
BY DEF WithAliases

\* What is left after a removal is as truthful as before.
LEMMA RemovalKeepsRows ==
  ASSUME ScanInv, pass # Nil, UNCHANGED <<world, faults, db, ghosts>>,
         NEW out \in SUBSET LsPaths, \A p \in out : pass.rows[p] # Nil,
         NEW a \in {"index", "finish"},
         pass' = [Removed(out) EXCEPT !.at = a]
  PROVE  /\ Types' /\ Truthful'
         /\ pass'.kind = pass.kind /\ pass'.scope = pass.scope /\ pass'.checked = pass.checked
         /\ pass'.walk = pass.walk /\ pass'.listed = {} /\ pass'.todo = pass.todo
         /\ pass'.paths = pass.paths /\ pass'.roots = pass.roots /\ pass'.at = a
         /\ \A p \in LsPaths : pass'.rows[p] = IF p \in out THEN Nil ELSE pass.rows[p]
<1>1. pass \in Passes
  BY DEF ScanInv, Types
<1> DEFINE R == [p \in LsPaths |-> IF p \in out THEN Nil ELSE pass.rows[p]]
           L == pass.lost \cup {pass.rows[p].ino : p \in out}
<1>2. R \in Tables /\ L \in SUBSET LsInodes
  <2>1. \A p \in LsPaths : pass.rows[p] \in Rows \cup {Nil}
    BY <1>1 DEF Passes, Tables
  <2>2. \A p \in out : pass.rows[p].ino \in LsInodes
    BY <2>1 DEF Rows
  <2> QED BY <1>1, <2>1, <2>2 DEF Passes, Tables
<1>3. pass' = [pass EXCEPT !.rows = R, !.entries = @ \ out, !.listed = {}, !.lost = L, !.at = a]
  BY <1>1 DEF Removed, Passes
<1>4. /\ disk' = disk /\ stamp' = stamp /\ mount' = mount /\ sealed' = sealed /\ changes' = changes
      /\ rows' = rows /\ entries' = entries /\ recorded' = recorded /\ swapped' = swapped
  BY DEF world, db, ghosts
<1> HIDE DEF R, L
<1>5. /\ pass'.rows = R /\ pass'.entries = pass.entries \ out /\ pass'.lost = L
      /\ pass'.kind = pass.kind /\ pass'.scope = pass.scope /\ pass'.checked = pass.checked
      /\ pass'.walk = pass.walk /\ pass'.listed = {} /\ pass'.todo = pass.todo
      /\ pass'.paths = pass.paths /\ pass'.roots = pass.roots /\ pass'.at = a
  BY ONLY <1>1, <1>3 DEF Passes
<1>5a. pass' \in Passes
  BY ONLY <1>1, <1>2, <1>3, a \in {"index", "finish"} DEF Passes
<1>6. \A p \in LsPaths : R[p] = IF p \in out THEN Nil ELSE pass.rows[p]
  BY DEF R
<1>7. Types'
  BY <1>4, <1>5, <1>5a DEF ScanInv, Types
<1>8. Current(rows)' /\ Once(rows, entries, {})' /\ Current(pass.rows) /\ Once(pass.rows, pass.entries, pass.lost)
  BY <1>4 DEF ScanInv, Truthful, Current, Once
<1>9. Current(pass.rows)'
  BY <1>4, <1>5, <1>5a, <1>6, <1>8 DEF Current
<1>10. Once(pass.rows, pass.entries, pass.lost)'
  <2>1. pass.entries \subseteq LsPaths
    BY <1>1 DEF Passes
  <2>2. \A p \in pass'.entries : R[p] = pass.rows[p] /\ R[p] # Nil /\ p \in pass.entries
    BY <1>5, <1>5a, <1>6, <1>8, <2>1 DEF Once
  <2>3. \A p, q \in pass'.entries : R[p].ino = R[q].ino /\ R[p].ino \notin swapped => p = q
    BY <1>8, <2>2 DEF Once
  <2>4. ASSUME NEW p \in LsPaths, R[p] # Nil, R[p].ino \notin swapped \cup L
        PROVE  \E q \in pass'.entries : R[q].ino = R[p].ino
    <3>1. R[p] = pass.rows[p] /\ pass.rows[p].ino \notin swapped \cup pass.lost
      BY <1>6, <2>4 DEF L
    <3>2. PICK q \in pass.entries : pass.rows[q].ino = pass.rows[p].ino
      BY <1>8, <2>4, <3>1 DEF Once
    <3>3. q \notin out
      BY <2>4, <3>1, <3>2 DEF L
    <3> QED BY <1>5, <1>5a, <1>6, <2>1, <3>1, <3>2, <3>3
  <2> QED BY <1>4, <1>5, <1>5a, <2>2, <2>3, <2>4 DEF Once
<1> QED BY <1>5, <1>6, <1>7, <1>8, <1>9, <1>10 DEF Truthful

\* Removing rows that lead nowhere and are not held, of files that have an
\* excuse, keeps the invariant; a path of the scope keeps none that should go.
LEMMA RemovalKeeps ==
  ASSUME ScanInv, pass # Nil, pass.at = "judge", UNCHANGED <<world, faults, db, ghosts>>,
         NEW out \in SUBSET LsPaths, \A p \in out : pass.rows[p] # Nil,
         \A f \in Files \cap out : Excused(f),
         calm => \A p \in out : HeldBack(p) \/ Visible(p) = Nil,
         calm => \A p \in pass.scope :
           Visible(p) = Nil /\ AsFound(p) /\ ~HeldBack(p) /\ pass.rows[p] # Nil => p \in out,
         NEW a \in {"index", "finish"},
         a = IF pass.kind = "scan" THEN "finish" ELSE "index",
         pass' = [Removed(out) EXCEPT !.at = a]
  PROVE  ScanInv'
<1>1. /\ Types' /\ Truthful'
      /\ pass'.kind = pass.kind /\ pass'.scope = pass.scope /\ pass'.checked = pass.checked
      /\ pass'.walk = pass.walk /\ pass'.listed = {} /\ pass'.todo = pass.todo
      /\ pass'.paths = pass.paths /\ pass'.roots = pass.roots /\ pass'.at = a
      /\ \A p \in LsPaths : pass'.rows[p] = IF p \in out THEN Nil ELSE pass.rows[p]
  BY RemovalKeepsRows, Zenon
<1>2. /\ disk' = disk /\ stamp' = stamp /\ mount' = mount /\ sealed' = sealed
      /\ rows' = rows /\ recorded' = recorded
      /\ late' = late /\ absent' = absent /\ calm' = calm
  BY DEF world, db, ghosts
<1>3. /\ Staged /\ Remembers /\ Looked /\ Converging /\ pass \in Passes
  BY DEF ScanInv, Types
<1>4. Staged'
  BY <1>1, <1>3 DEF Staged
<1>5. ~Early' /\ Files \subseteq LsPaths
  BY <1>1 DEF Early, LsPaths
<1>6. Remembers'
  <2>1. \A f \in Files : rows[f] # Nil /\ pass'.rows[f] = Nil => Excused(f)
    BY <1>1, <1>3, <1>5 DEF Remembers
  <2> QED BY <1>1, <1>2, <1>3, <1>5, <2>1 DEF Remembers, Excused
<1>7. Looked'
  BY <1>1, <1>2, <1>3 DEF Looked
<1>8. Converging'
  <2> SUFFICES ASSUME calm, NEW p \in pass.scope PROVE HeldBack(p)' \/ AsFound(p)'
    BY <1>1, <1>2 DEF Converging
  <2>1. p \in LsPaths /\ pass.walk = {}
    BY <1>3 DEF Passes, Staged
  <2>2. HeldBack(p) \/ AsFound(p)
    BY <1>3, <2>1 DEF Converging
  <2>3. HeldBack(p) <=> HeldBack(p)'
    BY <1>1 DEF HeldBack
  <2>4. Visible(p)' = Visible(p) /\ (Gone(p)' <=> Gone(p))
    BY <1>2 DEF Visible, Gone
  <2>5. CASE ~HeldBack(p) /\ AsFound(p) /\ Visible(p) # Nil
    <3>1. pass'.rows[p] = pass.rows[p]
      BY <1>1, <2>1, <2>5
    <3>2. Restated(p) => Restated(p)'
      BY <1>2, <2>4, <3>1 DEF Restated
    <3> QED BY <1>1, <1>5, <2>4, <2>5, <3>2 DEF AsFound
  <2>6. CASE ~HeldBack(p) /\ AsFound(p) /\ Visible(p) = Nil
    <3>1. pass'.rows[p] = Nil
      BY <1>1, <2>1, <2>6
    <3> QED BY <1>1, <1>5, <2>4, <2>6, <3>1 DEF AsFound
  <2> QED BY <2>2, <2>3, <2>5, <2>6
<1> QED BY <1>1, <1>4, <1>6, <1>7, <1>8 DEF ScanInv

\* A file of a trusted root that is gone has an excuse.
LEMMA GoneIsExcused ==
  ASSUME ScanInv, pass # Nil, NEW f \in Files, Gone(f), mount[RootOf[f]] = "volume"
  PROVE  f \in absent
<1>1. FileOf(f) = f
  BY ScanAssumption DEF FileOf
<1>2. disk[f] = Nil
  BY <1>1 DEF Gone, Visible
<1> QED BY <1>2 DEF ScanInv, Remembers

LEMMA JudgeKeeps ==
  ASSUME ScanInv, Judge
  PROVE  ScanInv'
<1> DEFINE out == {p \in pass.scope : pass.rows[p] # Nil /\ ~HeldBack(p) /\ p \notin pass.listed}
<1>1. /\ pass # Nil /\ pass.at = "judge" /\ pass.kind # "scan"
      /\ UNCHANGED <<world, faults, db, ghosts>>
      /\ pass' = [Removed(WithAliases(out)) EXCEPT !.at = "index"]
  BY DEF Judge
<1>2. /\ pass \in Passes /\ Staged /\ Remembers /\ Looked /\ Converging /\ Types
  BY <1>1 DEF ScanInv, Types
<1>3. pass.scope \subseteq LsPaths /\ pass.walk = {} /\ Early
  BY <1>1, <1>2 DEF Passes, Staged, Early
<1>4. out \in SUBSET LsPaths /\ \A p \in out : pass.rows[p] # Nil
  BY <1>3
<1>5. \A f \in Files \cap out : Excused(f)
  <2> SUFFICES ASSUME NEW f \in Files, f \in out PROVE Excused(f)
    OBVIOUS
  <2>1. f \in absent \/ RootOf[f] \in late \/ mount[RootOf[f]] # "volume"
    BY <1>1, <1>2, <1>3 DEF Remembers
  <2>2. CASE pass.kind = "dirty"
    BY <1>1, <1>2, <2>1, <2>2 DEF Looked, Excused
  <2>3. CASE pass.kind # "dirty"
    <3>1. f \in LsPaths /\ RootOf[f] \in Roots \ pass.roots
      BY ScanAssumption DEF LsPaths, HeldBack
    <3>2. \/ mount[RootOf[f]] = "volume" \/ RootOf[f] \in late \/ recorded[RootOf[f]] = "bare"
          \/ \A p \in LsPaths : RootOf[p] = RootOf[f] => pass.rows[p] = Nil
      BY <1>1, <1>2, <2>3, <3>1 DEF Looked
    <3> QED BY <2>1, <3>1, <3>2 DEF Excused
  <2> QED BY <2>2, <2>3
<1>6. calm => \A p \in out : Visible(p) = Nil
  BY <1>1, <1>2, <1>3 DEF Converging, AsFound
<1>7. \A p \in pass.scope : Visible(p) = Nil /\ AsFound(p) /\ ~HeldBack(p) /\ pass.rows[p] # Nil => p \in out
  BY DEF AsFound
<1> HIDE DEF out
<1>8. /\ WithAliases(out) \in SUBSET LsPaths /\ out \subseteq WithAliases(out)
      /\ \A p \in WithAliases(out) : pass.rows[p] # Nil
      /\ \A p \in WithAliases(out) : p \in out \/ (Gone(p) /\ ~KeepsAlias(p))
  BY <1>4, AliasesTaken, Zenon
<1>9. \A f \in Files \cap WithAliases(out) : Excused(f)
  <2> SUFFICES ASSUME NEW f \in Files, Gone(f), ~KeepsAlias(f) PROVE f \in absent
    BY <1>5, <1>8 DEF Excused
  <2>1. mount[RootOf[f]] = "volume"
    BY <1>1 DEF KeepsAlias, ListsNothing
  <2> QED BY <1>1, <2>1, GoneIsExcused
<1>10. calm => \A p \in WithAliases(out) : HeldBack(p) \/ Visible(p) = Nil
  BY <1>6, <1>8 DEF Gone
<1>11. calm => \A p \in pass.scope :
         Visible(p) = Nil /\ AsFound(p) /\ ~HeldBack(p) /\ pass.rows[p] # Nil => p \in WithAliases(out)
  BY <1>7, <1>8
<1> QED BY <1>1, <1>8, <1>9, <1>10, <1>11, RemovalKeeps

LEMMA PruneKeeps ==
  ASSUME ScanInv, PruneMissing
  PROVE  ScanInv'
<1> DEFINE out == {p \in LsPaths : pass.rows[p] # Nil /\ ~HeldBack(p) /\ Gone(p)}
<1>1. /\ pass # Nil /\ pass.at = "judge" /\ pass.kind = "scan"
      /\ UNCHANGED <<world, faults, db, ghosts>>
      /\ pass' = [Removed(WithAliases(out)) EXCEPT !.at = "finish"]
  BY DEF PruneMissing
<1>2. /\ pass \in Passes /\ Looked /\ Types
  BY <1>1 DEF ScanInv, Types
<1>3. out \in SUBSET LsPaths /\ \A p \in out : pass.rows[p] # Nil
  OBVIOUS
<1>4. /\ WithAliases(out) \in SUBSET LsPaths /\ out \subseteq WithAliases(out)
      /\ \A p \in WithAliases(out) : pass.rows[p] # Nil
      /\ \A p \in WithAliases(out) : p \in out \/ (Gone(p) /\ ~KeepsAlias(p))
  <2> HIDE DEF out
  <2> QED BY <1>3, AliasesTaken, Zenon
<1>5. \A p \in WithAliases(out) : Gone(p) /\ ~HeldBack(p)
  BY <1>4 DEF KeepsAlias
<1>6. \A f \in Files \cap WithAliases(out) : Excused(f)
  <2> SUFFICES ASSUME NEW f \in Files, Gone(f), ~HeldBack(f), pass.rows[f] # Nil PROVE Excused(f)
    BY <1>4, <1>5
  <2>1. f \in LsPaths /\ RootOf[f] \in Roots \ pass.roots
    BY ScanAssumption DEF LsPaths, HeldBack
  <2>2. mount[RootOf[f]] = "volume" \/ RootOf[f] \in late \/ recorded[RootOf[f]] = "bare"
    BY <1>1, <1>2, <2>1 DEF Looked
  <2>3. mount[RootOf[f]] = "volume" => f \in absent
    BY <1>1, GoneIsExcused
  <2> QED BY <2>2, <2>3 DEF Excused
<1>7. calm => \A p \in WithAliases(out) : HeldBack(p) \/ Visible(p) = Nil
  BY <1>5 DEF Gone
<1>8. calm => \A p \in pass.scope :
         Visible(p) = Nil /\ AsFound(p) /\ ~HeldBack(p) /\ pass.rows[p] # Nil => p \in WithAliases(out)
  BY <1>2, <1>4 DEF AsFound, Passes
<1> HIDE DEF out
<1> QED BY <1>1, <1>4, <1>6, <1>7, <1>8, RemovalKeeps

-------------------------------------------------------------------------------
(* Indexing one path.                                                        *)

\* The rows stand for the same files, at the same contents.
SameFiles(rs, ts) ==
  \A q \in LsPaths :
    /\ ts[q] = Nil <=> rs[q] = Nil
    /\ rs[q] # Nil => ts[q].ino = rs[q].ino /\ ts[q].ver = rs[q].ver

\* What row p may be before it is probed: its columns are its own, or it was
\* restated just now and never probed since.
Probeable(rs, p) ==
  /\ rs \in Tables /\ p \in LsPaths /\ rs[p] # Nil
  /\ \A q \in LsPaths : rs[q] # Nil =>
       /\ rs[q].ver <= stamp[rs[q].ino]
       /\ rs[q].desc # Nil => rs[q].desc >= rs[q].ver \/ (q = p /\ rs[p].rev = 0)

\* No row is Nil, so rows and the paths that have none can be told apart.
LEMMA RowNotNil ==
  ASSUME NEW r \in Rows
  PROVE  r # Nil
<1>1. r \in [ino : LsInodes, ver : Nat, desc : Nat \cup {Nil}, rev : Int]
  BY ScanAssumption DEF Rows
<1> QED BY <1>1, ScanAssumption

\* One row, or the rows of Q, with other columns.
Redescribed(r, d, v) == [r EXCEPT !.desc = d, !.rev = v]
RowsRedescribed(rs, Q, d, v) ==
  [q \in LsPaths |-> IF q \in Q THEN Redescribed(rs[q], d, v) ELSE rs[q]]

LEMMA RowChanged ==
  ASSUME NEW r \in Rows, NEW d \in 0..MaxChanges \cup {Nil}, NEW v \in -2..1
  PROVE  /\ Redescribed(r, d, v) \in Rows /\ Redescribed(r, d, v) # Nil
         /\ Redescribed(r, d, v).ino = r.ino /\ Redescribed(r, d, v).ver = r.ver
         /\ Redescribed(r, d, v).desc = d
<1>1. Redescribed(r, d, v) \in Rows
  BY DEF Rows, Redescribed
<1>2. Redescribed(r, d, v) # Nil
  BY <1>1, RowNotNil
<1> QED BY <1>1, <1>2 DEF Rows, Redescribed

\* Probed columns replace those of some rows by a description that is not
\* older than any of them.
LEMMA RowsChanged ==
  ASSUME Types, NEW rs, NEW p, Probeable(rs, p),
         NEW Q \in SUBSET LsPaths, p \in Q, \A q \in Q : rs[q] # Nil,
         NEW d \in 0..MaxChanges \cup {Nil}, NEW v \in -2..1,
         d # Nil => \A q \in Q : rs[q].ver <= d
  PROVE  /\ RowsRedescribed(rs, Q, d, v) \in Tables
         /\ SameFiles(rs, RowsRedescribed(rs, Q, d, v))
         /\ Current(RowsRedescribed(rs, Q, d, v))
<1> DEFINE ts == RowsRedescribed(rs, Q, d, v)
<1>1. \A q \in Q : rs[q] \in Rows
  BY DEF Probeable, Tables
<1>2. \A q \in Q : /\ ts[q] \in Rows /\ ts[q] # Nil /\ ts[q].ino = rs[q].ino /\ ts[q].ver = rs[q].ver
                   /\ ts[q].desc = d
  <2> SUFFICES ASSUME NEW q \in Q
               PROVE  /\ ts[q] \in Rows /\ ts[q] # Nil /\ ts[q].ino = rs[q].ino /\ ts[q].ver = rs[q].ver
                      /\ ts[q].desc = d
    OBVIOUS
  <2>1. ts[q] = Redescribed(rs[q], d, v)
    BY DEF RowsRedescribed
  <2>2. rs[q] \in Rows
    BY <1>1
  <2> HIDE DEF ts
  <2>3. /\ Redescribed(rs[q], d, v) \in Rows /\ Redescribed(rs[q], d, v) # Nil
        /\ Redescribed(rs[q], d, v).ino = rs[q].ino /\ Redescribed(rs[q], d, v).ver = rs[q].ver
        /\ Redescribed(rs[q], d, v).desc = d
    BY <2>2, RowChanged, Zenon
  <2> QED BY <2>1, <2>3, Zenon
<1>3. \A q \in LsPaths \ Q : ts[q] = rs[q]
  BY DEF RowsRedescribed
<1>4. ts = [q \in LsPaths |-> ts[q]]
  BY DEF RowsRedescribed
<1> HIDE DEF ts
<1>5. ts \in Tables
  <2>1. \A q \in LsPaths : ts[q] \in Rows \cup {Nil}
    BY <1>2, <1>3 DEF Probeable, Tables
  <2> QED BY <1>4, <2>1 DEF Tables
<1>6. SameFiles(rs, ts)
  BY <1>2, <1>3 DEF SameFiles
<1>7. Current(ts)
  <2> SUFFICES ASSUME NEW q \in LsPaths, ts[q] # Nil
               PROVE  ts[q].ver <= stamp[ts[q].ino] /\ (ts[q].desc # Nil => ts[q].desc >= ts[q].ver)
    BY DEF Current
  <2>1. CASE q \in Q
    <3>1. rs[q].ver <= stamp[rs[q].ino]
      BY <2>1 DEF Probeable
    <3>2. d # Nil => d >= rs[q].ver
      <4>1. d # Nil => rs[q].ver <= d
        BY <2>1
      <4>2. rs[q].ver \in 0..MaxChanges
        BY <1>1, <2>1 DEF Rows
      <4> QED BY <4>1, <4>2
    <3> QED BY <1>2, <2>1, <3>1, <3>2
  <2>2. CASE q \notin Q
    BY <1>3, <2>2 DEF Probeable
  <2> QED BY <2>1, <2>2
<1> QED BY <1>5, <1>6, <1>7 DEF ts

\* Whatever a probe does, the rows keep their files and describe them.
LEMMA ProbeKeeps ==
  ASSUME Types, NEW rs, NEW p, Probeable(rs, p), NEW o \in {"ok", "failed", "timeout"}
  PROVE  Probe(rs, p, o) \in Tables /\ SameFiles(rs, Probe(rs, p, o)) /\ Current(Probe(rs, p, o))
<1>1. /\ rs \in Tables /\ p \in LsPaths /\ rs[p] # Nil /\ rs[p] \in Rows
      /\ rs[p].ino \in LsInodes /\ rs[p].ver \in 0..MaxChanges /\ rs[p].rev \in -2..1
      /\ rs[p].desc \in 0..MaxChanges \cup {Nil}
  BY DEF Probeable, Tables, Rows
<1>2. MaxChanges \in Nat
  BY ScanAssumption
<1>3. rs = [q \in LsPaths |-> rs[q]]
  BY <1>1 DEF Tables
<1>4. \A q \in Aliases(rs, p) : q \in LsPaths /\ rs[q] # Nil /\ rs[q].ino = rs[p].ino
  BY DEF Aliases
\* One row.
<1> DEFINE Good(ts) == ts \in Tables /\ SameFiles(rs, ts) /\ Current(ts)
<1>5. ASSUME NEW d \in 0..MaxChanges \cup {Nil}, NEW v \in -2..1, d # Nil => rs[p].ver <= d
      PROVE  Good([rs EXCEPT ![p] = Redescribed(rs[p], d, v)])
  <2>1. [rs EXCEPT ![p] = Redescribed(rs[p], d, v)] = RowsRedescribed(rs, {p}, d, v)
    BY <1>1, <1>3 DEF RowsRedescribed
  <2>2. /\ {p} \in SUBSET LsPaths /\ p \in {p} /\ \A q \in {p} : rs[q] # Nil
        /\ d # Nil => \A q \in {p} : rs[q].ver <= d
    BY <1>1, <1>5
  <2> QED BY <2>1, <2>2, RowsChanged
\* Every alias.
<1>6. ASSUME NEW d \in 0..MaxChanges \cup {Nil}, d # Nil => d = stamp[rs[p].ino]
      PROVE  Good(Described(rs, p, d))
  <2> DEFINE Q == {p} \cup Aliases(rs, p)
  <2>1. Described(rs, p, d) = RowsRedescribed(rs, Q, d, 1)
    BY DEF Described, RowsRedescribed, Redescribed
  <2>2. Q \in SUBSET LsPaths /\ p \in Q /\ \A q \in Q : rs[q] # Nil
    BY <1>1, <1>4
  <2>3. d # Nil => \A q \in Q : rs[q].ver <= d
    BY <1>1, <1>4, <1>6 DEF Probeable
  <2>4. 1 \in -2..1
    OBVIOUS
  <2> HIDE DEF Q
  <2> QED BY <2>1, <2>2, <2>3, <2>4, RowsChanged
<1>7. CASE Source(rs, p) # {}
  <2> DEFINE q == CHOOSE x \in Source(rs, p) : TRUE
  <2>1. q \in Source(rs, p)
    BY <1>7
  <2>2. q \in LsPaths /\ q # p /\ rs[q] # Nil /\ rs[q].ver = rs[p].ver /\ rs[q] \in Rows
    BY <1>1, <2>1 DEF Source, Aliases, Tables
  <2>3. Probe(rs, p, o) = [rs EXCEPT ![p] = Redescribed(rs[p], rs[q].desc, 1)]
    BY <1>7 DEF Probe, Redescribed
  <2> HIDE DEF q
  <2>4. rs[q].desc \in 0..MaxChanges \cup {Nil} /\ rs[q].ver \in 0..MaxChanges
    BY <2>2 DEF Rows
  <2>5. rs[q].desc # Nil => rs[p].ver <= rs[q].desc
    <3>1. rs[q].desc # Nil => rs[q].desc >= rs[q].ver
      BY <2>2 DEF Probeable
    <3> QED BY <1>2, <2>2, <2>4, <3>1
  <2>6. 1 \in -2..1
    OBVIOUS
  <2> QED BY <1>5, <2>3, <2>4, <2>5, <2>6
<1>8. CASE Source(rs, p) = {}
  <2>1. CASE o = "ok"
    <3>1. Probe(rs, p, o) = Described(rs, p, stamp[rs[p].ino])
      BY <1>8, <2>1 DEF Probe
    <3>2. stamp[rs[p].ino] \in 0..MaxChanges
      BY <1>1 DEF Types
    <3> QED BY <1>6, <3>1, <3>2
  <2>2. CASE o = "failed"
    <3>1. Probe(rs, p, o) = Described(rs, p, Nil)
      BY <1>8, <2>2 DEF Probe
    <3> QED BY <1>6, <3>1
  <2>3. CASE o = "timeout"
    <3>1. Probe(rs, p, o) = Deferred(rs, p)
      BY <1>8, <2>3 DEF Probe
    <3>2. CASE rs[p].rev = -2
      <4>1. Deferred(rs, p) = Described(rs, p, Nil)
        BY <3>2 DEF Deferred
      <4> QED BY <1>6, <3>1, <4>1
    <3>3. CASE rs[p].rev # -2
      <4> DEFINE v == IF rs[p].rev < 0 THEN rs[p].rev - 1 ELSE -1
                 d == IF rs[p].rev = 0 THEN Nil ELSE rs[p].desc
      <4>1. v \in -2..1 /\ d \in 0..MaxChanges \cup {Nil}
        BY <1>1, <3>3
      <4>2. d # Nil => rs[p].ver <= d
        <5>1. d # Nil => rs[p].desc >= rs[p].ver /\ d = rs[p].desc
          BY <1>1 DEF Probeable
        <5> HIDE DEF d
        <5> QED BY <1>1, <1>2, <4>1, <5>1
      <4>3. Deferred(rs, p) = [rs EXCEPT ![p] = Redescribed(rs[p], d, v)]
        <5>1. PICK r \in Rows : r = rs[p]
          BY <1>1
        <5>2. Deferred(rs, p) = [rs EXCEPT ![p] = [r EXCEPT !.rev = v, !.desc = d]]
          BY ONLY <3>3, <5>1, Zenon DEF Deferred
        <5> HIDE DEF v, d
        <5>3. [r EXCEPT !.rev = v, !.desc = d] = Redescribed(r, d, v)
          BY DEF Rows, Redescribed
        <5> QED BY <5>1, <5>2, <5>3
      <4> HIDE DEF v, d
      <4> QED BY <1>5, <3>1, <4>1, <4>2, <4>3
    <3> QED BY <3>2, <3>3
  <2> QED BY <2>1, <2>2, <2>3
<1> QED BY <1>7, <1>8

\* What indexing p at its inode i makes of the rows: p is as the disk has it,
\* the others stand for what they stood for, or are as the disk has them too.
Indexes(p, i, rs, ts) ==
  /\ ts \in Tables /\ Current(ts)
  /\ ts[p] # Nil /\ ts[p].ino = i /\ ts[p].ver = stamp[i]
  /\ \A q \in LsPaths \ {p} :
       /\ ts[q] = Nil <=> rs[q] = Nil
       /\ rs[q] # Nil =>
            \/ ts[q].ino = rs[q].ino /\ ts[q].ver = rs[q].ver
            \/ Visible(q) = i /\ ts[q].ino = i /\ ts[q].ver = stamp[i]

\* Rows that keep their inode, or swap one, keep one entry for each file.
LEMMA OnceKept ==
  ASSUME NEW rs, NEW ts, NEW es \in SUBSET LsPaths, NEW lost,
         Once(rs, es, lost), swapped \subseteq swapped',
         \A q \in LsPaths :
           /\ ts[q] = Nil <=> rs[q] = Nil
           /\ rs[q] # Nil => ts[q].ino = rs[q].ino \/ (rs[q].ino \in swapped' /\ ts[q].ino \in swapped')
  PROVE  Once(ts, es, lost)'
<1>1. \A q \in es : ts[q] # Nil /\ rs[q] # Nil
  BY DEF Once
<1>2. \A q \in LsPaths : ts[q] # Nil /\ ts[q].ino \notin swapped' =>
        rs[q] # Nil /\ ts[q].ino = rs[q].ino /\ rs[q].ino \notin swapped
  OBVIOUS
<1>3. ASSUME NEW p \in es, NEW q \in es, ts[p].ino = ts[q].ino, ts[p].ino \notin swapped'
      PROVE  p = q
  <2>1. ts[p].ino = rs[p].ino /\ ts[q].ino = rs[q].ino /\ rs[p].ino \notin swapped
    BY <1>1, <1>2, <1>3
  <2> QED BY <1>3, <2>1 DEF Once
<1>4. ASSUME NEW p \in LsPaths, ts[p] # Nil, ts[p].ino \notin swapped' \cup lost
      PROVE  \E q \in es : ts[q].ino = ts[p].ino
  <2>1. rs[p] # Nil /\ ts[p].ino = rs[p].ino /\ rs[p].ino \notin swapped \cup lost
    BY <1>2, <1>4
  <2>2. PICK q \in es : rs[q].ino = rs[p].ino
    BY <2>1 DEF Once
  <2>3. ts[q].ino = rs[q].ino
    BY <1>1, <1>4, <2>1, <2>2
  <2> QED BY <2>1, <2>2, <2>3
<1> QED BY <1>1, <1>3, <1>4 DEF Once

RowRestated(r, i, v) == [r EXCEPT !.ino = i, !.ver = v, !.rev = 0]

LEMMA RestatedRow ==
  ASSUME NEW r \in Rows, NEW i \in LsInodes, NEW v \in 0..MaxChanges
  PROVE  /\ RowRestated(r, i, v) \in Rows /\ RowRestated(r, i, v) # Nil
         /\ RowRestated(r, i, v).ino = i /\ RowRestated(r, i, v).ver = v
         /\ RowRestated(r, i, v).rev = 0
<1>0. 0 \in -2..1
  OBVIOUS
<1>1. RowRestated(r, i, v) \in Rows
  BY <1>0 DEF Rows, RowRestated
<1>2. RowRestated(r, i, v) # Nil
  BY <1>1, RowNotNil
<1> QED BY <1>1, <1>2 DEF Rows, RowRestated

\* A known row that differs from the disk is restated, with its siblings.
LEMMA KnownIndexed ==
  ASSUME ScanInv, pass # Nil, NEW p \in LsPaths, NEW o \in {"ok", "failed", "timeout"},
         NEW i, i = Visible(p), i # Nil, pass.rows[p] # Nil, IndexKnown(p, i, o)
  PROVE  \E ts \in Tables, es \in SUBSET LsPaths, lost \in SUBSET LsInodes :
           /\ lost = pass.lost
           /\ pass' = [pass EXCEPT !.rows = ts, !.entries = es, !.todo = @ \ {p}]
           /\ Indexes(p, i, pass.rows, ts)
           /\ Once(ts, es, lost)' /\ swapped \subseteq swapped'
<1> DEFINE rs == pass.rows
           old == rs[p].ino
           fresh == Restat(rs, p, i)
           mine == Probe(fresh, p, o)
           sibs == Siblings(mine, old, i, p)
           sib == [ino |-> i, ver |-> stamp[i], desc |-> mine[p].desc, rev |-> mine[p].rev]
           ts == [q \in LsPaths |-> IF q \notin sibs THEN mine[q] ELSE sib]
<1>1. /\ pass \in Passes /\ Types /\ Current(rs) /\ Once(rs, pass.entries, pass.lost)
      /\ rs \in Tables /\ pass.entries \in SUBSET LsPaths
  BY DEF ScanInv, Types, Truthful, Passes
<1>2. /\ i \in LsInodes /\ stamp[i] \in 0..MaxChanges
      /\ rs[p] \in Rows /\ DOMAIN rs = LsPaths
  BY <1>1, VisibleType DEF Tables, Types
<1>3. pass' = [pass EXCEPT !.rows = ts, !.todo = @ \ {p}]
      /\ swapped' = IF old = i THEN swapped ELSE swapped \cup {old, i}
  BY DEF IndexKnown
<1>4. fresh \in Tables /\ fresh[p] # Nil /\ fresh[p].ino = i /\ fresh[p].ver = stamp[i] /\ fresh[p].rev = 0
      /\ \A q \in LsPaths \ {p} : fresh[q] = rs[q]
  <2>1. PICK r : r = RowRestated(rs[p], i, stamp[i])
    OBVIOUS
  <2>2. r \in Rows /\ r # Nil /\ r.ino = i /\ r.ver = stamp[i] /\ r.rev = 0
    <3>1. PICK x \in Rows, v \in 0..MaxChanges : x = rs[p] /\ v = stamp[i]
      BY <1>2
    <3>2. /\ RowRestated(x, i, v) \in Rows /\ RowRestated(x, i, v) # Nil
          /\ RowRestated(x, i, v).ino = i /\ RowRestated(x, i, v).ver = v
          /\ RowRestated(x, i, v).rev = 0
      <4>1. i \in LsInodes
        BY <1>2
      <4> QED BY ONLY <4>1, x \in Rows, v \in 0..MaxChanges, RestatedRow
    <3> HIDE DEF rs
    <3> QED BY <2>1, <3>1, <3>2
  <2>3. fresh = [rs EXCEPT ![p] = r]
    BY <2>1 DEF Restat, RowRestated
  <2> HIDE DEF fresh
  <2> QED BY <1>1, <1>2, <2>2, <2>3 DEF Tables
<1> HIDE DEF fresh
<1>5. Probeable(fresh, p)
  <2> SUFFICES ASSUME NEW q \in LsPaths, fresh[q] # Nil
               PROVE  /\ fresh[q].ver <= stamp[fresh[q].ino]
                      /\ fresh[q].desc # Nil => fresh[q].desc >= fresh[q].ver \/ (q = p /\ fresh[p].rev = 0)
    BY <1>4 DEF Probeable
  <2>1. CASE q = p
    BY <1>2, <1>4, <2>1
  <2>2. CASE q # p
    BY <1>1, <1>4, <2>2 DEF Current
  <2> QED BY <2>1, <2>2
<1>6. mine \in Tables /\ SameFiles(fresh, mine) /\ Current(mine)
  BY <1>1, <1>5, ProbeKeeps
<1> HIDE DEF mine
<1>7. mine[p] \in Rows /\ mine[p] # Nil /\ mine[p].ino = i /\ mine[p].ver = stamp[i]
  BY <1>4, <1>6 DEF SameFiles, Tables
<1>8. \A q \in LsPaths \ {p} : /\ mine[q] = Nil <=> rs[q] = Nil
                               /\ rs[q] # Nil => mine[q].ino = rs[q].ino /\ mine[q].ver = rs[q].ver
  BY <1>4, <1>6 DEF SameFiles
<1>9. sib \in Rows /\ sib.ino = i /\ sib.ver = stamp[i] /\ sib.desc = mine[p].desc
  BY <1>2, <1>7 DEF Rows
<1>10. sib # Nil
  BY <1>9, RowNotNil
<1> HIDE DEF sib
<1>11. \A q \in sibs : q \in LsPaths \ {p} /\ mine[q] # Nil /\ mine[q].ino = old /\ Visible(q) = i /\ old # i
  BY DEF Siblings
<1> HIDE DEF sibs, old
<1>12. \A q \in LsPaths : ts[q] = IF q \in sibs THEN sib ELSE mine[q]
  OBVIOUS
<1>13. ts \in Tables
  <2>1. \A q \in LsPaths : ts[q] \in Rows \cup {Nil}
    BY <1>6, <1>9, <1>12 DEF Tables
  <2>2. ts = [q \in LsPaths |-> ts[q]]
    OBVIOUS
  <2> HIDE DEF ts
  <2> QED BY <2>1, <2>2 DEF Tables
<1> HIDE DEF ts
<1>14. ts[p] = mine[p]
  BY <1>11, <1>12
<1>15. Current(ts)
  <2> SUFFICES ASSUME NEW q \in LsPaths, ts[q] # Nil
               PROVE  ts[q].ver <= stamp[ts[q].ino] /\ (ts[q].desc # Nil => ts[q].desc >= ts[q].ver)
    BY DEF Current
  <2>1. CASE q \in sibs
    <3>1. sib.desc # Nil => sib.desc >= stamp[i]
      BY <1>6, <1>7, <1>9 DEF Current
    <3> QED BY <1>2, <1>9, <1>12, <2>1, <3>1
  <2>2. CASE q \notin sibs
    BY <1>6, <1>12, <2>2 DEF Current
  <2> QED BY <2>1, <2>2
<1>16. ASSUME NEW q \in LsPaths, q # p
       PROVE  /\ ts[q] = Nil <=> rs[q] = Nil
              /\ rs[q] # Nil =>
                   \/ ts[q].ino = rs[q].ino /\ ts[q].ver = rs[q].ver
                   \/ Visible(q) = i /\ ts[q].ino = i /\ ts[q].ver = stamp[i]
  <2>1. CASE q \in sibs
    <3>1. ts[q] = sib /\ mine[q] # Nil /\ Visible(q) = i
      BY <1>11, <1>12, <2>1
    <3> QED BY <1>8, <1>9, <1>10, <1>16, <3>1
  <2>2. CASE q \notin sibs
    BY <1>8, <1>12, <1>16, <2>2
  <2> QED BY <2>1, <2>2
<1>17. Indexes(p, i, rs, ts)
  BY <1>7, <1>13, <1>14, <1>15, <1>16 DEF Indexes
<1>18. swapped \subseteq swapped' /\ (old # i => old \in swapped' /\ i \in swapped')
  BY <1>3
<1>19. ASSUME NEW q \in LsPaths
       PROVE  /\ ts[q] = Nil <=> rs[q] = Nil
              /\ rs[q] # Nil => ts[q].ino = rs[q].ino \/ (rs[q].ino \in swapped' /\ ts[q].ino \in swapped')
  <2>1. CASE q = p
    <3>1. rs[p].ino = old
      BY DEF old
    <3> QED BY <1>7, <1>14, <1>18, <2>1, <3>1
  <2>2. CASE q \in sibs
    <3>1. mine[q].ino = old /\ ts[q].ino = i /\ old # i /\ q # p /\ mine[q] # Nil
      BY <1>9, <1>11, <1>12, <2>2
    <3>2. rs[q].ino = old
      BY <1>8, <3>1
    <3> QED BY <1>16, <1>18, <3>1, <3>2
  <2>3. CASE q # p /\ q \notin sibs
    <3>1. ts[q] = mine[q]
      BY <1>12, <2>3
    <3> QED BY <1>8, <2>3, <3>1
  <2> QED BY <2>1, <2>2, <2>3
<1> HIDE DEF rs
<1>20. PICK r, t, es, lost : r = rs /\ t = ts /\ es = pass.entries /\ lost = pass.lost
  OBVIOUS
<1>21. Once(t, es, lost)'
  <2>1. Once(r, es, lost) /\ es \in SUBSET LsPaths
    BY <1>1, <1>20
  <2>2. \A q \in LsPaths :
          /\ t[q] = Nil <=> r[q] = Nil
          /\ r[q] # Nil => t[q].ino = r[q].ino \/ (r[q].ino \in swapped' /\ t[q].ino \in swapped')
    BY <1>19, <1>20
  <2> QED BY <1>18, <2>1, <2>2, OnceKept
<1>22. pass' = [pass EXCEPT !.rows = t, !.entries = es, !.todo = @ \ {p}]
  BY <1>1, <1>3, <1>20 DEF Passes
<1>23. t \in Tables /\ es \in SUBSET LsPaths /\ lost \in SUBSET LsInodes /\ lost = pass.lost
       /\ Indexes(p, i, pass.rows, t)
  BY <1>1, <1>13, <1>17, <1>20 DEF rs, Passes
<1> QED BY <1>18, <1>21, <1>22, <1>23, Zenon

\* The entries when p comes to stand for inode i.
Entered(rs, es, p, i) == IF \A q \in es : rs[q].ino # i THEN es \cup {p} ELSE es

\* A path without a row gets one, and All Video an entry unless it has one.
LEMMA OnceNew ==
  ASSUME NEW rs, NEW ts, NEW es \in SUBSET LsPaths, NEW lost, NEW p \in LsPaths, NEW i,
         Once(rs, es, lost), rs[p] = Nil, ts[p] # Nil, ts[p].ino = i,
         \A q \in LsPaths \ {p} :
           /\ ts[q] = Nil <=> rs[q] = Nil
           /\ rs[q] # Nil => ts[q].ino = rs[q].ino,
         swapped' = swapped
  PROVE  Once(ts, Entered(rs, es, p, i), lost)'
<1> DEFINE ns == Entered(rs, es, p, i)
<1>0. ns = IF \A q \in es : rs[q].ino # i THEN es \cup {p} ELSE es
  BY DEF Entered
<1> HIDE DEF ns
<1>1. p \notin es
  BY DEF Once
<1>2. \A q \in es : q \in LsPaths \ {p} /\ ts[q] # Nil /\ rs[q] # Nil /\ ts[q].ino = rs[q].ino
  BY <1>1 DEF Once
<1>3. \A q \in ns : ts[q] # Nil
  BY <1>0, <1>2
<1>4. ASSUME NEW q \in ns, NEW u \in ns, ts[q].ino = ts[u].ino, ts[q].ino \notin swapped
      PROVE  q = u
  <2>1. CASE q \in es /\ u \in es
    BY <1>2, <1>4, <2>1 DEF Once
  <2>2. CASE q = p /\ u \in es
    BY <1>0, <1>1, <1>2, <1>4, <2>2
  <2>3. CASE q \in es /\ u = p
    BY <1>0, <1>1, <1>2, <1>4, <2>3
  <2> QED BY <1>0, <1>4, <2>1, <2>2, <2>3
<1>5. ASSUME NEW u \in LsPaths, ts[u] # Nil, ts[u].ino \notin swapped \cup lost
      PROVE  \E q \in ns : ts[q].ino = ts[u].ino
  <2>1. CASE u = p
    <3>1. CASE \A q \in es : rs[q].ino # i
      BY <1>0, <2>1, <3>1
    <3>2. CASE \E q \in es : rs[q].ino = i
      BY <1>0, <1>2, <2>1, <3>2
    <3> QED BY <3>1, <3>2
  <2>2. CASE u # p
    <3>1. rs[u] # Nil /\ ts[u].ino = rs[u].ino
      BY <2>2, <1>5
    <3>2. PICK q \in es : rs[q].ino = rs[u].ino
      BY <1>5, <3>1 DEF Once
    <3> QED BY <1>0, <1>2, <3>1, <3>2
  <2> QED BY <2>1, <2>2
<1> QED BY <1>3, <1>4, <1>5 DEF Once, ns

\* A row that starts with no columns and takes those of a row of its content,
\* or of a probe.
LEMMA NewIndexed ==
  ASSUME ScanInv, pass # Nil, NEW p \in LsPaths, NEW o \in {"ok", "failed", "timeout"},
         NEW i, i = Visible(p), i # Nil, pass.rows[p] = Nil, IndexNew(p, i, o)
  PROVE  \E ts \in Tables, es \in SUBSET LsPaths, lost \in SUBSET LsInodes :
           /\ lost = pass.lost
           /\ pass' = [pass EXCEPT !.rows = ts, !.entries = es, !.todo = @ \ {p}]
           /\ Indexes(p, i, pass.rows, ts)
           /\ Once(ts, es, lost)' /\ swapped \subseteq swapped'
<1> DEFINE rs == pass.rows
           new == NewRow(i)
           fresh == [rs EXCEPT ![p] = new]
           ts == IF Twins(fresh, p) # {} THEN Cloned(fresh, p) ELSE Probe(fresh, p, o)
           es == Attached(pass.entries, fresh, p)
<1>1. /\ pass \in Passes /\ Types /\ Current(rs) /\ Once(rs, pass.entries, pass.lost)
      /\ rs \in Tables /\ DOMAIN rs = LsPaths
      /\ pass.entries \in SUBSET LsPaths /\ pass.lost \in SUBSET LsInodes
  BY DEF ScanInv, Types, Truthful, Passes, Tables
<1>2. i \in LsInodes /\ stamp[i] \in 0..MaxChanges /\ 0 \in -2..1
  BY <1>1, VisibleType DEF Types
<1>3. pass' = [pass EXCEPT !.rows = ts, !.entries = es, !.todo = @ \ {p}] /\ swapped' = swapped
  BY DEF IndexNew
<1>4. new \in Rows /\ new.ino = i /\ new.ver = stamp[i] /\ new.desc = Nil
  BY <1>2 DEF NewRow, Rows
<1>5. new # Nil
  BY <1>4, RowNotNil
<1> HIDE DEF new
<1>6. fresh \in Tables /\ fresh[p] = new /\ \A q \in LsPaths \ {p} : fresh[q] = rs[q]
  BY <1>1, <1>4 DEF Tables
<1> HIDE DEF fresh
<1>7. Probeable(fresh, p)
  <2> SUFFICES ASSUME NEW q \in LsPaths, fresh[q] # Nil
               PROVE  /\ fresh[q].ver <= stamp[fresh[q].ino]
                      /\ fresh[q].desc # Nil => fresh[q].desc >= fresh[q].ver
    BY <1>5, <1>6 DEF Probeable
  <2>1. CASE q = p
    BY <1>2, <1>4, <1>6, <2>1
  <2>2. CASE q # p
    BY <1>1, <1>6, <2>2 DEF Current
  <2> QED BY <2>1, <2>2
<1>8. ts \in Tables /\ SameFiles(fresh, ts) /\ Current(ts)
  <2>1. CASE Twins(fresh, p) = {}
    BY <1>1, <1>7, <2>1, ProbeKeeps
  <2>2. CASE Twins(fresh, p) # {}
    <3> DEFINE q == CHOOSE x \in Twins(fresh, p) : TRUE
    <3>1. q \in Twins(fresh, p)
      BY <2>2
    <3>2. q \in LsPaths /\ q # p /\ fresh[q] # Nil /\ fresh[q].ver = fresh[p].ver /\ fresh[q] \in Rows
      BY <1>6, <3>1 DEF Twins, Aliases, Tables
    <3>3. ts = [fresh EXCEPT ![p] = Redescribed(fresh[p], fresh[q].desc, fresh[q].rev)]
      BY <2>2 DEF Cloned, Redescribed
    <3> HIDE DEF q, ts
    <3>4. /\ fresh[q].desc \in 0..MaxChanges \cup {Nil} /\ fresh[q].rev \in -2..1
          /\ fresh[q].ver \in 0..MaxChanges
      BY <3>2 DEF Rows
    <3>5. fresh[q].desc # Nil => fresh[p].ver <= fresh[q].desc
      <4>1. fresh[q].desc # Nil => fresh[q].desc >= fresh[q].ver
        BY <1>7, <3>2 DEF Probeable
      <4> QED BY <3>2, <3>4, <4>1, ScanAssumption
    <3>6. fresh = [u \in LsPaths |-> fresh[u]]
      BY <1>6 DEF Tables
    <3>7. ts = RowsRedescribed(fresh, {p}, fresh[q].desc, fresh[q].rev)
      BY <3>3, <3>6 DEF RowsRedescribed
    <3>8. /\ {p} \in SUBSET LsPaths /\ p \in {p} /\ \A u \in {p} : fresh[u] # Nil
          /\ fresh[q].desc # Nil => \A u \in {p} : fresh[u].ver <= fresh[q].desc
      BY <1>5, <1>6, <3>5
    <3> QED BY <1>1, <1>7, <3>4, <3>7, <3>8, RowsChanged
  <2> QED BY <2>1, <2>2
<1> HIDE DEF ts
<1>9. /\ ts[p] # Nil /\ ts[p].ino = i /\ ts[p].ver = stamp[i]
      /\ \A q \in LsPaths \ {p} :
           /\ ts[q] = Nil <=> rs[q] = Nil
           /\ rs[q] # Nil => ts[q].ino = rs[q].ino /\ ts[q].ver = rs[q].ver
  BY <1>4, <1>5, <1>6, <1>8 DEF SameFiles
<1>10. Indexes(p, i, rs, ts)
  BY <1>8, <1>9 DEF Indexes
<1>11. /\ es = IF \A q \in pass.entries : rs[q].ino # i THEN pass.entries \cup {p} ELSE pass.entries
       /\ es \in SUBSET LsPaths
  <2>1. \A q \in pass.entries : rs[q] # Nil /\ q # p /\ fresh[q] = rs[q] /\ q \in LsPaths
    BY <1>1, <1>6 DEF Once
  <2>2. Aliases(fresh, p) = {q \in LsPaths \ {p} : fresh[q] # Nil /\ fresh[q].ino = i}
    BY <1>4, <1>6 DEF Aliases
  <2>3. pass.entries \cap Aliases(fresh, p) = {} <=> \A q \in pass.entries : rs[q].ino # i
    BY <2>1, <2>2
  <2> QED BY <1>1, <2>3 DEF Attached
<1> HIDE DEF es, rs
<1>12. PICK r, t, e, n, lost : r = rs /\ t = ts /\ e = pass.entries /\ n = es /\ lost = pass.lost
  OBVIOUS
<1>13. Once(t, n, lost)'
  <2>1. Once(r, e, lost) /\ e \in SUBSET LsPaths /\ r[p] = Nil /\ t[p] # Nil /\ t[p].ino = i
    BY <1>1, <1>9, <1>12 DEF rs
  <2>2. \A q \in LsPaths \ {p} :
           /\ t[q] = Nil <=> r[q] = Nil
           /\ r[q] # Nil => t[q].ino = r[q].ino
    BY <1>9, <1>12
  <2>3. n = Entered(r, e, p, i)
    BY <1>11, <1>12 DEF Entered
  <2>4. swapped' = swapped
    BY <1>3
  <2>5. Once(t, Entered(r, e, p, i), lost)'
    BY <2>1, <2>2, <2>4, OnceNew
  <2> QED BY <2>3, <2>5
<1>14. pass' = [pass EXCEPT !.rows = t, !.entries = n, !.todo = @ \ {p}]
  BY <1>3, <1>12
<1>15. t \in Tables /\ n \in SUBSET LsPaths /\ lost \in SUBSET LsInodes /\ lost = pass.lost
       /\ Indexes(p, i, pass.rows, t) /\ swapped \subseteq swapped'
  BY <1>1, <1>3, <1>8, <1>10, <1>11, <1>12 DEF rs
<1> QED BY <1>13, <1>14, <1>15, Zenon

\* A row that agrees with the disk is left alone, or probed again.
LEMMA SameIndexed ==
  ASSUME ScanInv, pass # Nil, NEW p \in LsPaths, NEW o \in {"ok", "failed", "timeout"},
         NEW i, i = Visible(p), i # Nil, pass.rows[p] # Nil, Same(p),
         RetryProbe(p, o) \/ Unchanged(p)
  PROVE  \E ts \in Tables, es \in SUBSET LsPaths, lost \in SUBSET LsInodes :
           /\ lost = pass.lost
           /\ pass' = [pass EXCEPT !.rows = ts, !.entries = es, !.todo = @ \ {p}]
           /\ Indexes(p, i, pass.rows, ts)
           /\ Once(ts, es, lost)' /\ swapped \subseteq swapped'
<1> DEFINE rs == pass.rows
<1>1. /\ pass \in Passes /\ Types /\ Current(rs) /\ Once(rs, pass.entries, pass.lost)
      /\ rs \in Tables /\ pass.entries \in SUBSET LsPaths /\ pass.lost \in SUBSET LsInodes
  BY DEF ScanInv, Types, Truthful, Passes
<1>2. rs[p].ino = i /\ rs[p].ver = stamp[i] /\ swapped' = swapped
  BY DEF Same, RetryProbe, Unchanged
<1>3. Probeable(rs, p)
  BY <1>1 DEF Probeable, Current
<1>4. PICK ts : /\ pass' = [pass EXCEPT !.rows = ts, !.todo = @ \ {p}]
                /\ ts \in Tables /\ SameFiles(rs, ts) /\ Current(ts)
  <2>1. CASE RetryProbe(p, o)
    <3>1. pass' = [pass EXCEPT !.rows = Probe(rs, p, o), !.todo = @ \ {p}]
      BY <2>1 DEF RetryProbe
    <3>2. Probe(rs, p, o) \in Tables /\ SameFiles(rs, Probe(rs, p, o)) /\ Current(Probe(rs, p, o))
      BY <1>1, <1>3, ProbeKeeps
    <3> QED BY <3>1, <3>2
  <2>2. CASE Unchanged(p)
    <3>1. pass' = [pass EXCEPT !.todo = @ \ {p}]
      BY <2>2 DEF Unchanged
    <3>2. pass' = [pass EXCEPT !.rows = rs, !.todo = @ \ {p}]
      BY <1>1, <3>1 DEF Passes
    <3>3. SameFiles(rs, rs)
      BY DEF SameFiles
    <3> QED BY <1>1, <3>2, <3>3
  <2> QED BY <2>1, <2>2
<1>5. Indexes(p, i, rs, ts)
  BY <1>2, <1>4 DEF Indexes, SameFiles
<1> HIDE DEF rs
<1>6. PICK r, es, lost : r = rs /\ es = pass.entries /\ lost = pass.lost
  OBVIOUS
<1>7. Once(ts, es, lost)'
  <2>1. Once(r, es, lost) /\ es \in SUBSET LsPaths
    BY <1>1, <1>6
  <2>2. \A q \in LsPaths :
          /\ ts[q] = Nil <=> r[q] = Nil
          /\ r[q] # Nil => ts[q].ino = r[q].ino \/ (r[q].ino \in swapped' /\ ts[q].ino \in swapped')
    BY <1>4, <1>6 DEF SameFiles
  <2> QED BY <1>2, <2>1, <2>2, OnceKept
<1>8. pass' = [pass EXCEPT !.rows = ts, !.entries = es, !.todo = @ \ {p}]
  BY <1>1, <1>4, <1>6 DEF Passes
<1>9. ts \in Tables /\ es \in SUBSET LsPaths /\ lost \in SUBSET LsInodes /\ lost = pass.lost
      /\ Indexes(p, i, pass.rows, ts) /\ swapped \subseteq swapped'
  BY <1>1, <1>2, <1>4, <1>5, <1>6 DEF rs
<1> QED BY <1>7, <1>8, <1>9, Zenon

\* Indexing one path keeps the invariant: its row is as the disk has it now,
\* and no row that was as the disk has it is set back.
LEMMA IndexKeeps ==
  ASSUME ScanInv, NEW p \in LsPaths, NEW o \in {"ok", "failed", "timeout"}, Index(p, o)
  PROVE  ScanInv'
<1> DEFINE i == Visible(p)
<1>1. /\ pass # Nil /\ pass.at = "index" /\ p \in pass.todo
      /\ disk' = disk /\ stamp' = stamp /\ mount' = mount /\ sealed' = sealed /\ changes' = changes
      /\ rows' = rows /\ entries' = entries /\ recorded' = recorded
      /\ late' = late /\ absent' = absent /\ calm' = calm
  BY DEF Index, world, db
<1>2. /\ pass \in Passes /\ Types /\ Truthful /\ Staged /\ Remembers /\ Looked /\ Converging
  BY <1>1 DEF ScanInv, Types
<1>3. \/ i = Nil /\ Unchanged(p)
      \/ i # Nil /\ pass.rows[p] = Nil /\ IndexNew(p, i, o)
      \/ i # Nil /\ pass.rows[p] # Nil /\ IndexKnown(p, i, o)
      \/ i # Nil /\ pass.rows[p] # Nil /\ Same(p) /\ (RetryProbe(p, o) \/ Unchanged(p))
  BY DEF Index
<1>4. i \in LsInodes \cup {Nil}
  BY <1>2, VisibleType
<1>5. PICK ts \in Tables, es \in SUBSET LsPaths, lost \in SUBSET LsInodes :
        /\ lost = pass.lost
        /\ pass' = [pass EXCEPT !.rows = ts, !.entries = es, !.todo = @ \ {p}]
        /\ IF i = Nil THEN ts = pass.rows ELSE Indexes(p, i, pass.rows, ts)
        /\ Current(ts) /\ Once(ts, es, lost)' /\ swapped \subseteq swapped'
  <2>1. CASE i = Nil /\ Unchanged(p)
    <3>1. pass' = [pass EXCEPT !.todo = @ \ {p}] /\ swapped' = swapped
      BY <2>1 DEF Unchanged
    <3>2. PICK ts, es, lost : ts = pass.rows /\ es = pass.entries /\ lost = pass.lost
      OBVIOUS
    <3>3. pass' = [pass EXCEPT !.rows = ts, !.entries = es, !.todo = @ \ {p}]
      BY <1>2, <3>1, <3>2 DEF Passes
    <3>4. ts \in Tables /\ es \in SUBSET LsPaths /\ lost \in SUBSET LsInodes
          /\ Current(ts) /\ Once(ts, es, lost)
      BY <1>1, <1>2, <3>2 DEF Passes, Truthful
    <3>5. Once(ts, es, lost)'
      BY <3>1, <3>4 DEF Once
    <3>6. swapped \subseteq swapped'
      BY <3>1
    <3> HIDE DEF i
    <3> QED BY <2>1, <3>2, <3>3, <3>4, <3>5, <3>6, Zenon
  <2>2. ASSUME i # Nil,
               \E ts \in Tables, es \in SUBSET LsPaths, lost \in SUBSET LsInodes :
                 /\ lost = pass.lost
                 /\ pass' = [pass EXCEPT !.rows = ts, !.entries = es, !.todo = @ \ {p}]
                 /\ Indexes(p, i, pass.rows, ts)
                 /\ Once(ts, es, lost)' /\ swapped \subseteq swapped'
        PROVE  \E ts \in Tables, es \in SUBSET LsPaths, lost \in SUBSET LsInodes :
                 /\ lost = pass.lost
                 /\ pass' = [pass EXCEPT !.rows = ts, !.entries = es, !.todo = @ \ {p}]
                 /\ IF i = Nil THEN ts = pass.rows ELSE Indexes(p, i, pass.rows, ts)
                 /\ Current(ts) /\ Once(ts, es, lost)' /\ swapped \subseteq swapped'
    <3> HIDE DEF i
    <3>1. \A ts : Indexes(p, i, pass.rows, ts) => Current(ts)
      BY DEF Indexes
    <3> QED BY <2>2, <3>1, Zenon
  <2>3. CASE i # Nil /\ pass.rows[p] = Nil /\ IndexNew(p, i, o)
    BY <1>1, <2>2, <2>3, NewIndexed, Zenon
  <2>4. CASE i # Nil /\ pass.rows[p] # Nil /\ IndexKnown(p, i, o)
    BY <1>1, <2>2, <2>4, KnownIndexed, Zenon
  <2>5. CASE i # Nil /\ pass.rows[p] # Nil /\ Same(p) /\ (RetryProbe(p, o) \/ Unchanged(p))
    BY <1>1, <2>2, <2>5, SameIndexed, Zenon
  <2> HIDE DEF i
  <2> QED BY <1>3, <2>1, <2>3, <2>4, <2>5, Zenon
<1>6. /\ pass' \in Passes /\ pass'.rows = ts /\ pass'.entries = es /\ pass'.lost = lost
      /\ pass'.todo = pass.todo \ {p} /\ pass'.at = "index"
      /\ pass'.kind = pass.kind /\ pass'.scope = pass.scope /\ pass'.checked = pass.checked
      /\ pass'.walk = pass.walk /\ pass'.listed = pass.listed
      /\ pass'.paths = pass.paths /\ pass'.roots = pass.roots
  BY <1>1, <1>2, <1>5 DEF Passes
<1> HIDE DEF i
<1>7. /\ \A q \in LsPaths : ts[q] = Nil => pass.rows[q] = Nil
      /\ \A q \in LsPaths \ {p} : pass.rows[q] = Nil => ts[q] = Nil
      /\ i = Nil => ts = pass.rows
      /\ i # Nil => /\ ts[p] # Nil /\ ts[p].ino = i /\ ts[p].ver = stamp[i]
                    /\ \A q \in LsPaths \ {p} : pass.rows[q] # Nil =>
                         \/ ts[q].ino = pass.rows[q].ino /\ ts[q].ver = pass.rows[q].ver
                         \/ Visible(q) = i /\ ts[q].ino = i /\ ts[q].ver = stamp[i]
  BY <1>5 DEF Indexes
<1>8. Types'
  BY <1>1, <1>2, <1>6 DEF Types
<1>9. Truthful'
  <2>1. Current(rows)' /\ Current(pass.rows)'
    BY <1>1, <1>2, <1>5, <1>6 DEF Truthful, Current
  <2>2. Once(pass.rows, pass.entries, pass.lost)'
    BY <1>5, <1>6
  <2>3. Once(rows, entries, {})'
    BY <1>1, <1>2, <1>5 DEF Truthful, Once
  <2> QED BY <2>1, <2>2, <2>3 DEF Truthful
<1>10. Staged'
  BY <1>1, <1>2, <1>6 DEF Staged
<1>11. ~Early' /\ Files \subseteq LsPaths
  BY <1>6 DEF Early, LsPaths
<1>12. Remembers'
  <2>1. \A f \in Files : rows[f] # Nil /\ ts[f] = Nil => Excused(f)
    BY <1>1, <1>2, <1>7, <1>11 DEF Remembers
  <2> QED BY <1>1, <1>2, <1>6, <1>11, <2>1 DEF Remembers, Excused
<1>13. Looked'
  BY <1>1, <1>2, <1>6 DEF Looked
<1>14. Converging'
  <2> SUFFICES ASSUME calm, NEW q \in pass.scope
               PROVE  HeldBack(q)' \/ AsFound(q)'
    BY <1>1, <1>6 DEF Converging
  <2>1. q \in LsPaths /\ pass.walk = {}
    BY <1>1, <1>2 DEF Passes, Staged
  <2>2. HeldBack(q) \/ AsFound(q)
    BY <1>1, <1>2, <2>1 DEF Converging
  <2>3. HeldBack(q)' <=> HeldBack(q)
    BY <1>6 DEF HeldBack
  <2>4. Visible(q)' = Visible(q) /\ (Gone(q)' <=> Gone(q))
    BY <1>1 DEF Visible, Gone
  <2>5. CASE AsFound(q) /\ Visible(q) # Nil
    <3>1. q \in pass.todo \/ Restated(q)
      BY <2>5 DEF AsFound
    <3>2. CASE q = p
      <4>1. Restated(q)'
        BY <1>1, <1>6, <1>7, <2>4, <2>5, <3>2 DEF Restated, i
      <4> QED BY <1>11, <2>4, <2>5, <4>1 DEF AsFound
    <3>3. CASE q # p /\ q \in pass.todo
      BY <1>6, <1>11, <2>4, <2>5, <3>3 DEF AsFound
    <3>4. CASE q # p /\ Restated(q)
      <4>1. pass.rows[q] # Nil /\ pass.rows[q].ino = Visible(q) /\ pass.rows[q].ver = stamp[Visible(q)]
        BY <3>4 DEF Restated
      <4>2. ts[q] # Nil
        BY <1>7, <2>1, <4>1
      <4>3. ts[q].ino = Visible(q) /\ ts[q].ver = stamp[Visible(q)]
        BY <1>7, <2>1, <3>4, <4>1
      <4>4. Restated(q)'
        BY <1>1, <1>6, <2>4, <4>2, <4>3 DEF Restated
      <4> QED BY <1>11, <2>4, <2>5, <4>4 DEF AsFound
    <3> QED BY <3>1, <3>2, <3>3, <3>4
  <2>6. CASE AsFound(q) /\ Visible(q) = Nil
    <3>1. q # p /\ q \notin pass'.todo \cup pass'.listed
      BY <1>1, <1>6, <2>6 DEF AsFound
    <3>2. pass.kind # "scan" => ts[q] = Nil
      BY <1>1, <1>7, <2>1, <2>6, <3>1 DEF AsFound
    <3> QED BY <1>6, <2>4, <2>6, <3>1, <3>2 DEF AsFound
  <2> QED BY <2>2, <2>3, <2>5, <2>6
<1> QED BY <1>8, <1>9, <1>10, <1>12, <1>13, <1>14 DEF ScanInv

-------------------------------------------------------------------------------
(* The end of a pass.                                                        *)

LEMMA PathsFinite == IsFiniteSet(LsPaths)
<1>1. IsFiniteSet(Files) /\ IsFiniteSet({Shortcut})
  BY ScanAssumption, FS_Singleton
<1> QED BY <1>1, FS_Union DEF LsPaths

\* The heirs of an inode are nobody, or one.
LEMMA HeirsOf ==
  ASSUME NEW S \in SUBSET LsPaths
  PROVE  /\ Cardinality(S) = 0 => S = {}
         /\ Cardinality(S) = 1 => \E x : S = {x}
<1>1. IsFiniteSet(S)
  BY PathsFinite, FS_Subset
<1> QED BY <1>1, FS_EmptySet, FS_Singleton

\* Each inode that lost a path has an entry again, if it has a row.
LEMMA RehomedOnce ==
  ASSUME ScanInv, pass # Nil, NEW heirs \in SUBSET LsPaths, Rehomed(heirs)
  PROVE  Once(pass.rows, pass.entries \cup heirs, {})
<1> DEFINE rs == pass.rows
           es == pass.entries
           of(i) == {p \in LsPaths : rs[p] # Nil /\ rs[p].ino = i}
<1>1. pass \in Passes /\ Once(rs, es, pass.lost) /\ es \subseteq LsPaths
  BY DEF ScanInv, Types, Truthful, Passes
<1>2. \A p \in heirs : p \in LsPaths /\ rs[p] # Nil /\ rs[p].ino \in pass.lost
  BY DEF Rehomed
<1>3. ASSUME NEW i \in pass.lost
      PROVE  /\ of(i) = {} \/ of(i) \cap es # {} => heirs \cap of(i) = {}
             /\ of(i) # {} /\ of(i) \cap es = {} => \E x : heirs \cap of(i) = {x}
  <2>1. Cardinality(heirs \cap of(i)) = IF of(i) = {} \/ of(i) \cap es # {} THEN 0 ELSE 1
    BY DEF Rehomed
  <2>2. heirs \cap of(i) \in SUBSET LsPaths
    OBVIOUS
  <2> HIDE DEF of
  <2> QED BY <2>1, <2>2, HeirsOf
<1>4. \A p \in es \cup heirs : rs[p] # Nil /\ p \in LsPaths /\ p \in of(rs[p].ino)
  BY <1>1, <1>2 DEF Once
<1>5. ASSUME NEW p \in es \cup heirs, NEW q \in es \cup heirs, rs[p].ino = rs[q].ino,
             rs[p].ino \notin swapped
      PROVE  p = q
  <2>1. CASE p \in es /\ q \in es
    BY <1>1, <1>5, <2>1 DEF Once
  <2>2. CASE p \in heirs \/ q \in heirs
    <3> DEFINE i == rs[p].ino
    <3>1. i \in pass.lost /\ p \in of(i) /\ q \in of(i)
      BY <1>2, <1>4, <1>5, <2>2
    <3> HIDE DEF i, of
    <3>2. heirs \cap of(i) # {}
      BY <2>2, <3>1
    <3>3. of(i) \cap es = {} /\ \E x : heirs \cap of(i) = {x}
      BY <1>3, <3>1, <3>2
    <3>4. p \in heirs /\ q \in heirs
      BY <3>1, <3>3
    <3> QED BY <3>1, <3>3, <3>4
  <2> QED BY <2>1, <2>2
<1>6. ASSUME NEW p \in LsPaths, rs[p] # Nil, rs[p].ino \notin swapped
      PROVE  \E q \in es \cup heirs : rs[q].ino = rs[p].ino
  <2> DEFINE i == rs[p].ino
  <2>1. CASE i \in pass.lost
    <3>1. p \in of(i)
      BY <1>6
    <3>2. of(i) \cap es # {} \/ heirs \cap of(i) # {}
      <4> HIDE DEF i, of
      <4> QED BY <1>3, <2>1, <3>1
    <3> QED BY <3>2
  <2>2. CASE i \notin pass.lost
    BY <1>1, <1>6, <2>2 DEF Once
  <2> QED BY <2>1, <2>2
<1> QED BY <1>4, <1>5, <1>6 DEF Once

LEMMA FinishKeeps ==
  ASSUME ScanInv, Finish
  PROVE  ScanInv'
<1>1. PICK heirs \in SUBSET LsPaths : Rehomed(heirs) /\ entries' = pass.entries \cup heirs
  BY DEF Finish
<1>2. /\ pass # Nil /\ pass' = Nil /\ rows' = pass.rows /\ recorded' = Recorded
      /\ disk' = disk /\ stamp' = stamp /\ mount' = mount /\ sealed' = sealed /\ changes' = changes
      /\ swapped' = swapped
  BY DEF Finish, EndOfPass, world
<1>3. Types /\ Current(pass.rows) /\ pass \in Passes
  BY <1>2 DEF ScanInv, Types, Truthful
<1>4. recorded' \in [Roots -> {"volume", "bare", Nil}]
  BY <1>2, <1>3 DEF Recorded, Types, Device
<1>5. Types'
  BY <1>1, <1>2, <1>3, <1>4 DEF Types, Passes
<1>6. Current(rows)'
  BY <1>2, <1>3 DEF Current
<1>7. Once(rows, entries, {})'
  BY <1>1, <1>2, RehomedOnce DEF Once
<1> QED BY <1>2, <1>5, <1>6, <1>7 DEF ScanInv, Truthful, Staged, Remembers, Looked, Converging

LEMMA AbortKeeps ==
  ASSUME ScanInv, Abort
  PROVE  ScanInv'
<1>1. /\ pass' = Nil /\ rows' = rows /\ entries' = entries /\ recorded' = recorded
      /\ disk' = disk /\ stamp' = stamp /\ mount' = mount /\ sealed' = sealed /\ changes' = changes
      /\ swapped' = swapped
  BY DEF Abort, EndOfPass, world, db
<1>2. Types' /\ Truthful'
  BY <1>1 DEF ScanInv, Types, Truthful, Current, Once
<1> QED BY <1>1, <1>2 DEF ScanInv, Staged, Remembers, Looked, Converging

LEMMA StutterKeeps ==
  ASSUME ScanInv, UNCHANGED lsVars
  PROVE  ScanInv'
<1>1. /\ disk' = disk /\ stamp' = stamp /\ mount' = mount /\ sealed' = sealed /\ changes' = changes
      /\ rows' = rows /\ entries' = entries /\ recorded' = recorded /\ pass' = pass
      /\ late' = late /\ swapped' = swapped /\ absent' = absent /\ calm' = calm
  BY DEF lsVars, world, db, ghosts
<1>2. Types /\ Truthful /\ Staged /\ Remembers /\ Looked /\ Converging
  BY DEF ScanInv
<1>3. Types'
  BY <1>1, <1>2 DEF Types
<1>4. Truthful'
  BY <1>1, <1>2, Zenon DEF Truthful, Current, Once
<1>5. Staged' /\ Looked'
  BY <1>1, <1>2 DEF Staged, Looked
<1>6. Remembers'
  BY <1>1, <1>2 DEF Remembers, Excused, Early, HeldBack
<1>7. Converging'
  BY <1>1, <1>2, Zenon DEF Converging, AsFound, HeldBack, Early, Restated, Visible, Gone
<1> QED BY <1>3, <1>4, <1>5, <1>6, <1>7 DEF ScanInv

LEMMA StepKeeps == ScanInv /\ [LsNext]_lsVars => ScanInv'
<1> SUFFICES ASSUME ScanInv, [LsNext]_lsVars PROVE ScanInv'
  OBVIOUS
<1>1. CASE World
  BY <1>1, WorldKeeps
<1>2. CASE Reconcile \/ Scan
  <2>1. \E kind \in {"full", "scan"} : Begin(kind, {}, LsPaths)
    BY <1>2 DEF Reconcile, Scan
  <2> QED BY <2>1, BeginKeeps
<1>3. CASE \E p \in LsPaths : ReconcileDirty(p)
  <2>1. PICK p \in LsPaths : Begin("dirty", {p}, {p})
    BY <1>3 DEF ReconcileDirty
  <2>2. {p} \in SUBSET LsPaths
    OBVIOUS
  <2> QED BY <2>1, <2>2, BeginKeeps
<1>4. CASE \E r \in Roots : Walk(r) \/ WalkAndQueue(r)
  BY <1>4, WalkKeeps
<1>5. CASE NothingToWalk \/ Indexed
  BY <1>5, TurnKeeps
<1>6. CASE HoldAgain
  BY <1>6, HoldKeeps
<1>7. CASE Judge
  BY <1>7, JudgeKeeps
<1>8. CASE PruneMissing
  BY <1>8, PruneKeeps
<1>9. CASE Finish
  BY <1>9, FinishKeeps
<1>10. CASE Abort
  BY <1>10, AbortKeeps
<1>11. CASE \E p \in LsPaths, o \in {"ok", "failed", "timeout"} : Index(p, o)
  BY <1>11, IndexKeeps
<1>12. CASE UNCHANGED lsVars
  BY <1>12, StutterKeeps
<1> QED
  BY <1>1, <1>2, <1>3, <1>4, <1>5, <1>6, <1>7, <1>8, <1>9, <1>10, <1>11, <1>12, Zenon
  DEF LsNext, Pass

LEMMA Invariance == LsSpec => []ScanInv
BY InitOK, StepKeeps, PTL DEF LsSpec

-------------------------------------------------------------------------------
(* What follows from the invariant.                                          *)

LEMMA InvTruthful == ScanInv => RowsTruthful
<1> SUFFICES ASSUME ScanInv PROVE RowsTruthful
  OBVIOUS
<1>1. Types /\ Current(rows) /\ Once(rows, entries, {})
  BY DEF ScanInv, Truthful
<1>2. ScanTypeOK
  <2>1. \A p \in LsPaths : rows[p] # Nil => rows[p] \in Rows
    BY <1>1 DEF Types, Tables
  <2> QED BY <1>1, <2>1 DEF ScanTypeOK, Types, Rows
<1>3. NeverPrevious
  BY <1>1 DEF NeverPrevious, Current
<1>4. OneEntryPerFile
  <2> SUFFICES ASSUME NEW i \in LsInodes \ swapped, NEW p \in LsPaths, rows[p] # Nil, rows[p].ino = i
               PROVE  Cardinality({q \in entries : rows[q] # Nil /\ rows[q].ino = i}) = 1
    BY DEF OneEntryPerFile
  <2>1. PICK q \in entries : rows[q].ino = i
    BY <1>1 DEF Once
  <2>2. {u \in entries : rows[u] # Nil /\ rows[u].ino = i} = {q}
    BY <1>1, <2>1 DEF Once
  <2> QED BY <2>2, FS_Singleton
<1> QED BY <1>2, <1>3, <1>4 DEF RowsTruthful

\* A committed row describes its own content or a later one and All Video
\* lists a file once, after any number of changes, failures and passes.
THEOREM RowsAlwaysTruthful == LsSpec => []RowsTruthful
BY Invariance, InvTruthful, PTL

\* Only the end of a pass changes what is committed.
LEMMA OnlyFinishCommits ==
  ASSUME ScanInv, [LsNext]_lsVars
  PROVE  Finish \/ UNCHANGED db
<1>1. World => UNCHANGED db
  BY DEF World, WriteNew, Rewrite, HardLink, Delete, Seal, Remount, Change
<1>2. Reconcile \/ Scan \/ (\E p \in LsPaths : ReconcileDirty(p)) => UNCHANGED db
  BY DEF Reconcile, Scan, ReconcileDirty, Begin
<1>3. (\E r \in Roots : Walk(r) \/ WalkAndQueue(r)) => UNCHANGED db
  BY DEF Walk, WalkAndQueue
<1>4. NothingToWalk \/ HoldAgain \/ Judge \/ PruneMissing \/ Indexed \/ Abort => UNCHANGED db
  BY DEF NothingToWalk, HoldAgain, Judge, PruneMissing, Indexed, Abort
<1>5. (\E p \in LsPaths, o \in {"ok", "failed", "timeout"} : Index(p, o)) => UNCHANGED db
  BY DEF Index
<1>6. UNCHANGED lsVars => UNCHANGED db
  BY DEF lsVars
<1> QED BY <1>1, <1>2, <1>3, <1>4, <1>5, <1>6, Zenon DEF LsNext, Pass

LEMMA FinishIsSound ==
  ASSUME ScanInv, Finish
  PROVE  RowsSurvive /\ PassConverges
<1>1. /\ pass # Nil /\ pass.at = "finish" /\ rows' = pass.rows
  BY DEF Finish
<1>2. Staged /\ Remembers /\ Converging /\ pass \in Passes
  BY <1>1 DEF ScanInv, Types
<1>3. RowsSurvive
  BY <1>1, <1>2 DEF RowsSurvive, RowLost, Remembers, Excused
<1>4. ASSUME calm, NEW p \in pass.scope PROVE Agrees(p)
  <2>1. HeldBack(p) \/ AsFound(p)
    BY <1>1, <1>2, <1>4 DEF Converging, Staged
  <2>2. CASE AsFound(p) /\ Visible(p) = Nil
    BY <1>1, <2>2 DEF AsFound, Agrees
  <2>3. CASE AsFound(p) /\ Visible(p) # Nil
    BY <1>1, <1>2, <2>3 DEF AsFound, Staged, Restated, Agrees
  <2> QED BY <2>1, <2>2, <2>3 DEF Agrees
<1> QED BY <1>3, <1>4 DEF PassConverges

\* A pass drops the row of a file only if the file was away, the root changed
\* behind it or its mount point was recorded; a pass that nothing disturbed
\* leaves every path of its scope that it did not hold as the disk has it.
THEOREM PassesAlwaysSound == LsSpec => PassesSound
<1>1. ScanInv /\ [LsNext]_lsVars => [RowsSurvive /\ PassConverges]_lsVars
  <2> SUFFICES ASSUME ScanInv, [LsNext]_lsVars PROVE RowsSurvive /\ PassConverges
    OBVIOUS
  <2>1. ASSUME UNCHANGED db PROVE RowsSurvive /\ PassConverges
    BY <2>1 DEF db, RowsSurvive, RowLost, PassConverges
  <2> QED BY <2>1, OnlyFinishCommits, FinishIsSound
<1> QED BY <1>1, Invariance, PTL DEF LsSpec, PassesSound
====
