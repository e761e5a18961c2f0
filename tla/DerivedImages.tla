---------------------------- MODULE DerivedImages ----------------------------
(***************************************************************************)
(* Resized pictures (App::resized) and the directory they are kept in      *)
(* (server/src/derived_image_cache.rs).                                    *)
(*                                                                         *)
(* A request takes the stripe of its key and registers the key as active,  *)
(* has the cache maintained, writes a temporary file, renames it, has the  *)
(* cache maintained again and answers with the file.  Maintenance runs     *)
(* under one gate that registration takes too, so it is a single step:     *)
(* what happens beside it touches only files of keys that are active.      *)
(* The bound of 65,536 inventory entries is left out.                      *)
(***************************************************************************)
EXTENDS Integers, FiniteSets, FiniteSetsExt, Functions

CONSTANTS
  ImgRequests,
  ImgKeys,
  ImgStripe,      \* derived_image_lock_index: key -> stripe
  ImgSize,        \* bytes of a picture at most
  ImgQuota,
  ImgSpace,       \* bytes of the filesystem
  ImgMinFree,     \* bytes of it to be left free
  ImgMaxAge,
  ImgFound,       \* what an earlier process may have left: pictures, temporary files
  ImgClock        \* bound: the last tick

VARIABLES
  imgNow,
  imgDisk,        \* pictures: key -> [bytes, used]
  imgTemps,       \* temporary files: those who write them, or <<key>> of earlier ones
  imgInv,         \* Inventory: entries, temporary, and whether the sweep is recent
  imgReq          \* requests: where they are, and their key

imgVars == <<imgNow, imgDisk, imgTemps, imgInv, imgReq>>

ImgNone == "none"
Active == {imgReq[r].key : r \in {q \in ImgRequests : imgReq[q].pc \notin {"idle", "stripe", "gate", "done"}}}
StripeHeld(stripe) == \E r \in ImgRequests : imgReq[r].pc \notin {"idle", "stripe", "done"}
                                       /\ ImgStripe[imgReq[r].key] = stripe
Weight(entries) == MapThenSumSet(LAMBDA k : entries[k].bytes, DOMAIN entries)
Lacking(disk) == LET free == ImgSpace - Weight(disk) IN IF free < ImgMinFree THEN ImgMinFree - free ELSE 0
Old(used) == imgNow - used > ImgMaxAge
TempKey(t) == t[1]

\* Mutant: only the finished pictures of active keys are protected.
Protected_finals(t) == FALSE

\* artifact_is_protected, for a temporary file.
Protected(t) == TempKey(t) \in Active

-----------------------------------------------------------------------------
(* maintain_derived_image_cache_with.  s is what it works on: the disk,    *)
(* the temporary files and the inventory.                                  *)

\* A sweep that is due starts from the directory; unowned temporaries go.
Discovered(s) ==
  IF s.swept THEN s
  ELSE LET kept == {t \in s.temps : Protected(t)}
       IN [s EXCEPT !.swept = TRUE, !.entries = s.disk, !.temps = kept, !.temporary = kept]

\* Pictures of active keys are looked at again, given up temporaries removed.
Refreshed(s) ==
  LET looked == DOMAIN s.disk \cap Active
      abandoned == {t \in s.temporary : ~Protected(t)}
  IN [s EXCEPT !.entries = [k \in (DOMAIN @ \ Active) \cup looked |->
                              IF k \in looked THEN s.disk[k] ELSE s.entries[k]],
               !.temps = @ \ abandoned, !.temporary = @ \ abandoned]

Within(s) == Weight(s.entries) <= ImgQuota /\ Lacking(s.disk) = 0

\* Mutant: a picture used since it was last looked at goes first all the same.
UsedMeanwhile_never(s, k, second) == FALSE

\* In the first pass what was used meanwhile is put off.
UsedMeanwhile(s, k, second) == ~second /\ s.disk[k].used > s.entries[k].used

\* One candidate of a pass, in the order of the last known use.
Considered(s, k, second) ==
  IF Within(s) /\ ~Old(s.entries[k].used) THEN s
  ELSE LET seen == [s EXCEPT !.entries[k] = s.disk[k]] IN
       IF UsedMeanwhile(s, k, second) \/ (Within(seen) /\ ~Old(s.disk[k].used)) THEN seen
       ELSE [s EXCEPT !.disk = Restrict(@, DOMAIN @ \ {k}), !.entries = Restrict(@, DOMAIN @ \ {k})]

\* The candidates of a pass, in that order, are considered in turn.
EvictionPass(s, second) ==
  LET pressure == ~Within(s)
      cands == {k \in DOMAIN s.entries \ Active : pressure \/ Old(s.entries[k].used)}
      Rank(k) == Cardinality({j \in cands : s.entries[j].used < s.entries[k].used
                    \/ (s.entries[j].used = s.entries[k].used /\ j # k
                        /\ (CHOOSE x \in {j, k} : TRUE) = j)})
      done[n \in 0 .. Cardinality(cands)] ==
        IF n = 0 THEN s
        ELSE CHOOSE t \in {Considered(u, k, second) : u \in {done[n - 1]},
                                                k \in {j \in cands : Rank(j) = n - 1}} : TRUE
  IN done[Cardinality(cands)]

Working == [disk |-> imgDisk, temps |-> imgTemps, entries |-> imgInv.entries,
            temporary |-> imgInv.temporary, swept |-> imgInv.swept]
\* The state after both passes, in a set.
Maintained ==
  {EvictionPass(second, TRUE) : second \in {EvictionPass(first, FALSE) : first \in {Refreshed(Discovered(Working))}}}

maintain(s) ==
  /\ imgDisk' = s.disk /\ imgTemps' = s.temps
  /\ imgInv' = [entries |-> s.entries, temporary |-> s.temporary, swept |-> s.swept]

-----------------------------------------------------------------------------
(* A request (App::resized).                                               *)

ImgGoes(r, pc) == imgReq' = [imgReq EXCEPT ![r].pc = pc]
FilesUnchanged == UNCHANGED <<imgNow, imgDisk, imgTemps, imgInv>>

ImgArrives(r, k) ==
  /\ imgReq[r].pc = "idle"
  /\ imgReq' = [imgReq EXCEPT ![r] = [pc |-> "stripe", key |-> k]]
  /\ FilesUnchanged

\* activate: the stripe, then the gate.
TakeStripe(r) ==
  /\ imgReq[r].pc = "stripe" /\ ~StripeHeld(ImgStripe[imgReq[r].key])
  /\ ImgGoes(r, "gate") /\ FilesUnchanged
Activate(r) ==
  /\ imgReq[r].pc = "gate" /\ ImgGoes(r, "check") /\ FilesUnchanged

ImgCheck(r) ==
  /\ imgReq[r].pc = "check"
  /\ ImgGoes(r, IF imgReq[r].key \in DOMAIN imgDisk THEN "read" ELSE "before")
  /\ FilesUnchanged

\* Maintenance before a picture is made; without room none is.
MaintainBefore(r) ==
  /\ imgReq[r].pc = "before"
  /\ \E s \in Maintained : maintain(s) /\ ImgGoes(r, IF Within(s) THEN "helper" ELSE "done")
  /\ UNCHANGED imgNow

\* The helper is refused or fails, and leaves nothing, or writes a temporary.
HelperFails(r) ==
  /\ imgReq[r].pc \in {"helper", "writing"}
  /\ imgTemps' = imgTemps \ {<<imgReq[r].key, r>>} /\ ImgGoes(r, "done")
  /\ UNCHANGED <<imgNow, imgDisk, imgInv>>
HelperWrites(r) ==
  /\ imgReq[r].pc = "helper"
  /\ imgTemps' = imgTemps \cup {<<imgReq[r].key, r>>} /\ ImgGoes(r, "writing")
  /\ UNCHANGED <<imgNow, imgDisk, imgInv>>
HelperRenames(r) ==
  LET k == imgReq[r].key IN
  /\ imgReq[r].pc = "writing" /\ <<k, r>> \in imgTemps
  /\ imgTemps' = imgTemps \ {<<k, r>>}
  /\ \E n \in 1 .. ImgSize :
       imgDisk' = [j \in DOMAIN imgDisk \cup {k} |->
                     IF j = k THEN [bytes |-> n, used |-> imgNow] ELSE imgDisk[j]]
  /\ ImgGoes(r, "after") /\ UNCHANGED <<imgNow, imgInv>>

\* Mutant: a picture there is no room for stays.
Rejected_stays(s, k) == s

\* remove_rejected_derived_image, as what is left.
Rejected(s, k) ==
  [s EXCEPT !.disk = Restrict(@, DOMAIN @ \ {k}), !.entries = Restrict(@, DOMAIN @ \ {k})]

\* Maintenance after it; a picture that exceeds the limits is removed again.
MaintainAfter(r) ==
  /\ imgReq[r].pc = "after"
  /\ \E s \in Maintained : maintain(s) /\ ImgGoes(r, IF Within(s) THEN "read" ELSE "reject")
  /\ UNCHANGED imgNow
Reject(r) ==
  /\ imgReq[r].pc = "reject"
  /\ maintain(Rejected(Working, imgReq[r].key)) /\ ImgGoes(r, "done")
  /\ UNCHANGED imgNow

\* The answer is read and the file touched; the key is no longer active.
ImgServe(r) ==
  LET k == imgReq[r].key IN
  /\ imgReq[r].pc = "read" /\ k \in DOMAIN imgDisk
  /\ imgDisk' = [imgDisk EXCEPT ![k].used = imgNow]
  /\ ImgGoes(r, "done") /\ UNCHANGED <<imgNow, imgTemps, imgInv>>

\* Another request of the same client.
ImgAgain(r) ==
  /\ imgReq[r].pc = "done"
  /\ imgReq' = [imgReq EXCEPT ![r] = [pc |-> "idle", key |-> ImgNone]] /\ FilesUnchanged

\* Time passes, and the last sweep is no longer recent.
ImgTick ==
  /\ imgNow < ImgClock /\ imgNow' = imgNow + 1
  /\ imgInv' \in {imgInv, [imgInv EXCEPT !.swept = FALSE]}
  /\ UNCHANGED <<imgDisk, imgTemps, imgReq>>

-----------------------------------------------------------------------------
(* The server starts over the files of an earlier process, which may have  *)
(* died while it wrote one, and maintains them (maintain_startup).         *)
ImgInit ==
  /\ imgNow = 1
  /\ imgReq = [r \in ImgRequests |-> [pc |-> "idle", key |-> ImgNone]]
  /\ \E found \in ImgFound :
       LET s == [disk |-> found.disk, temps |-> found.temps, entries |-> found.disk,
                 temporary |-> {}, swept |-> FALSE]
           m == EvictionPass(EvictionPass(Discovered(s), FALSE), TRUE) IN
       /\ imgDisk = m.disk /\ imgTemps = m.temps
       /\ imgInv = [entries |-> m.entries, temporary |-> m.temporary, swept |-> TRUE]

ImgStep(r) ==
  \/ TakeStripe(r) \/ Activate(r) \/ ImgCheck(r) \/ MaintainBefore(r) \/ HelperFails(r)
  \/ HelperWrites(r) \/ HelperRenames(r) \/ MaintainAfter(r) \/ Reject(r) \/ ImgServe(r)
ImgNext ==
  \/ \E r \in ImgRequests : ImgStep(r) \/ ImgAgain(r) \/ \E k \in ImgKeys : ImgArrives(r, k)
  \/ ImgTick

ImgSpec == ImgInit /\ [][ImgNext]_imgVars

-----------------------------------------------------------------------------
(* Properties.                                                             *)

(* A request that is about to answer finds its picture, and one that is    *)
(* writing finds its temporary file, whoever maintains the cache meanwhile *)
(* (the comment on activate).                                              *)
PicturesThere ==
  \A r \in ImgRequests :
    /\ imgReq[r].pc \in {"read", "after", "reject"} => imgReq[r].key \in DOMAIN imgDisk
    /\ imgReq[r].pc = "writing" => <<imgReq[r].key, r>> \in imgTemps

(* Of every picture nobody is at work on the inventory knows the size, and *)
(* together they keep to the quota.                                        *)
PicturesCounted ==
  LET idle == ImgKeys \ Active IN
  /\ \A k \in idle :
       /\ k \in DOMAIN imgInv.entries <=> k \in DOMAIN imgDisk
       /\ k \in DOMAIN imgDisk => imgInv.entries[k].bytes = imgDisk[k].bytes
  /\ Weight(Restrict(imgDisk, DOMAIN imgDisk \cap idle)) <= ImgQuota

ImagesKept == PicturesThere /\ PicturesCounted

(* A picture that is not too old only goes when none that was used less    *)
(* recently stays, unless somebody is at work on it.                       *)
OldestGoFirst ==
  [][\A r \in ImgRequests : MaintainBefore(r) \/ MaintainAfter(r) =>
       \A k \in DOMAIN imgDisk \ DOMAIN imgDisk' :
         Old(imgDisk[k].used) \/
         \A j \in DOMAIN imgDisk' \ Active : imgDisk[j].used >= imgDisk[k].used]_imgVars

(* Maintenance on behalf of one request never takes what another relies    *)
(* on, counts what it leaves, and takes the least recently used first.     *)
PicturesSound == []ImagesKept /\ OldestGoFirst
=============================================================================
