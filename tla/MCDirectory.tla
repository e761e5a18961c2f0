---------------------------- MODULE MCDirectory -----------------------------
(* Instances of NfoMetadata, Playlists, LibraryTree and TranscodeCache for   *)
(* TLC: a behaviour is about one of them.                                   *)
EXTENDS NfoMetadata, Playlists, LibraryTree, TranscodeCache, TLC

CONSTANTS fa, fb, fc, d1, d2, p1, p2, o1, o2, j1, j2

\* NfoMetadata: fa and fb are one physical file in two folders; fc is beside fa.
MCFolder == (fa :> d1) @@ (fb :> d2) @@ (fc :> d1)
MCPhysical == (fa :> p1) @@ (fb :> p1) @@ (fc :> p2)
MCRank == (fa :> 1) @@ (fb :> 2) @@ (fc :> 3)

\* Playlists: two names below one root and a third below another.
MCPlRoot == [p \in PlPaths |-> IF p < 3 THEN "r1" ELSE "r2"]
MCKindOf == [t \in Tracks |-> IF t = "s" THEN "audio" ELSE "video"]
MCPlEntries == {<<"s">>, <<"v", "s", "s">>}

VARIABLE part

-----------------------------------------------------------------------------
(* TranscodeCache in two scenes: what is evicted, and what producers have    *)
(* observed while they write.                                               *)

\* The outputs are alike: of two directories that differ in their names only
\* one will do.
Weight(o) == IF Final(o) \in DOMAIN tcDisk THEN 2 * tcDisk[Final(o)].bytes + tcDisk[Final(o)].used ELSE 0
Ordered == Weight(o1) <= Weight(o2)

\* Two attempts among finished outputs of any size and use, to the end of each.
EvictStep ==
    /\ TcNext /\ tcErrors' = 0 /\ ~tcOver'
    /\ \A j \in TcJobs : tcAct'[j].n = 0 /\ ~tcAct'[j].cancelled

\* An attempt for each output in an empty directory: checks, failures,
\* cancellation, retries, retirement and shutdown.
WatchStep ==
    /\ TcNext /\ tcNow' = 1
    /\ \A f \in DOMAIN tcDisk' : tcDisk'[f].bytes = 1
    /\ tcAct'[j1].dest # o2 /\ tcAct'[j2].dest # o1
    /\ \A j \in TcJobs : ~Cancel(j) /\ (tcAct[j].pc = "complete" => tcAct'[j].pc # "done")
    /\ ~Written(j2) /\ (tcAct'[j2].n > tcAct[j2].n => tcAct[j1].check = "pending")


directoryVars == <<nfoVars, plVars, ltVars, tcVars, part>>

\* What a behaviour is not about stands still in one state.
MCInit ==
    /\ part \in {"nfo", "playlists", "tree", "evict", "watch"}
    /\ NfoInit /\ PlInit /\ LtInit /\ TcInit
    /\ IF part = "evict" THEN Ordered ELSE DOMAIN tcDisk = {}

MCNext ==
    /\ UNCHANGED part
    /\ \/ part = "nfo" /\ NfoNext /\ UNCHANGED <<plVars, ltVars, tcVars>>
       \/ part = "playlists" /\ PlNext /\ UNCHANGED <<nfoVars, ltVars, tcVars>>
       \/ part = "tree" /\ LtNext /\ UNCHANGED <<nfoVars, plVars, tcVars>>
       \/ /\ UNCHANGED <<nfoVars, plVars, ltVars>>
          /\ (part = "evict" /\ EvictStep) \/ (part = "watch" /\ WatchStep)
          \* The second attempt begins after the first.
          /\ tcAct[j1].pc = "idle" => tcAct'[j2].pc = "idle"

\* The threads that maintain the cache, and those that prepare an output.
MCFairness ==
    /\ WF_tcVars(Maintenance) /\ WF_tcVars(CacheWorkerStep)
    /\ \A j \in TcJobs : WF_tcVars(AttemptStep(j))

MCSpec == MCInit /\ [][MCNext]_directoryVars /\ MCFairness

\* Between whole passes the events alone keep sidecars and playlists right
\* (refresh_nfo_dirs, sync_targeted_playlists).
EventsSuffice == EventsSettle /\ EventsCover

\* A whole pass applies every sidecar and follows every playlist, and takes
\* nothing from what it could not see (sync_nfo, sync_playlists).
PassesApply == SidecarsApplied /\ PlaylistsFollowed
=============================================================================
