---------------------------- MODULE MCLibrary -------------------------------
(* Instances of LibraryWatch, LibraryScan and OriginalDelivery for TLC: a    *)
(* behaviour is about one of them.                                          *)
EXTENDS LibraryWatch, LibraryScan, OriginalDelivery, TLC

CONSTANTS rMovies, rKids, fa, fb, fs

\* LibraryScan: two files on one root and a symlink to one of them on another.
MCRootOf == (fa :> rMovies) @@ (fb :> rMovies) @@ (fs :> rKids)

VARIABLE part

libraryVars == <<vars, lsVars, orVars, part>>

\* What a behaviour is not about stands still in one state.
MCInit ==
    /\ part \in {"watch", "scan", "originals"}
    /\ Init /\ LsInit /\ OrInit
    /\ part # "originals" => orInodes[1].size = 0
    /\ part # "watch" => sub /\ \A p \in Unfinished : name[p] = None

\* The file changes while one client or the other is served.
OriginalsStep ==
    /\ OrNext
    /\ \E c \in OrClients : \A d \in OrClients \ {c} : orClient'[d].asked = 0

\* Changes and failures share one bound.
MCNext ==
    /\ UNCHANGED part
    /\ \/ part = "watch" /\ Next /\ ops' + fails' <= MaxOps /\ UNCHANGED <<lsVars, orVars>>
       \/ part = "scan" /\ LsNext /\ changes' + faults' <= MaxChanges /\ UNCHANGED <<vars, orVars>>
       \/ part = "originals" /\ OriginalsStep /\ UNCHANGED <<vars, lsVars>>

MCSpec == MCInit /\ [][MCNext]_libraryVars

Symmetry == Permutations(Inodes) \cup Permutations(LsInodes)
=============================================================================
