---------------------------- MODULE MCStreaming -----------------------------
(* Instances of the modules between a producer's bytes and a browser's       *)
(* buffer: a behaviour is about one of them.                                 *)
EXTENDS FragmentIndex, OutputDelivery, OutputCheck, MsePump

\* Movies to index: [contiguous sound, decode time, duration, random access].
Piece(c, t, d, ra, b) == [cont |-> c, dec |-> t, dur |-> d, ra |-> ra, safe |-> TRUE, bytes |-> b]
V(t, d, ra, b) == Piece(FALSE, t, d, ra, b)
Movie(indep, f) == [video |-> TRUE, independent |-> indep, frags |-> f]
MCMovies == {
    Movie(TRUE, <<V(0, 1000, TRUE, 1), V(1000, 800, TRUE, 1), Piece(TRUE, 1700, 300, FALSE, 1)>>),
    Movie(FALSE, <<V(0, 1000, TRUE, 1), V(1000, 2000, FALSE, 2), V(3000, 12000, TRUE, 1)>>),
    Movie(FALSE, <<V(0, 600, TRUE, 1), Piece(TRUE, 0, 3000, FALSE, 1), V(600, 4000, TRUE, 1)>>),
    Movie(FALSE, <<V(0, 9000, TRUE, 1), V(9000, 600, FALSE, 1), V(9600, 1000, TRUE, 1)>>),
    [video |-> FALSE, independent |-> FALSE, frags |-> <<V(0, 1000, TRUE, 1), V(1500, 1000, TRUE, 1)>>]}

\* Requests for a whole output, for its end, and for a resource of it.
Wish(k, s, l) == [kind |-> k, start |-> s, last |-> l]
MCWanted == {Wish("plain", 0, <<>>), Wish("plain", 1, <<>>), Wish("resource", 1, <<2>>)}

\* Sources whose container or streams are longer than what is selected.
Src(c, e, k, d, p) == [start |-> 5000, catalog |-> <<c>>, ends |-> e, keys |-> k, delay |-> d, pts |-> p]
MCSources ==
    {Src(c, e, k, d[1], d[2]) : c \in {600000, 700000},
       e \in {<<600000, 600000>>, <<600000, 520000, 700000>>},
       k \in {{0, 99950, 100000}, {0}, {0, 95000, 400000}},
       d \in {<<FALSE, FALSE>>, <<TRUE, FALSE>>, <<TRUE, TRUE>>}}
Plan(v, c, n, a, s) == [video |-> v, copy |-> c, audios |-> n, audio |-> a, seek |-> s]
MCPlans ==
    {Plan(TRUE, c, n, 0, s) : c \in BOOLEAN, n \in {0, 1}, s \in {0, 100000, 350000}}
    \cup {Plan(FALSE, FALSE, 1, 1, 100000)}

\* A copied film whose second group is long, and an encoded one that replaced a copy.
Seg(s, e, d, b) == [start |-> s, end |-> e, decodeStart |-> d, bytes |-> b]
MCFilms == {
    [copied |-> TRUE, fallback |-> FALSE, reorder |-> 2,
     segs |-> <<Seg(0, 1, 0, 1), Seg(1, 2, 1, 2), Seg(2, 4, 2, 2), Seg(4, 5, 2, 1), Seg(5, 6, 5, 2)>>],
    [copied |-> TRUE, fallback |-> TRUE, reorder |-> 0,
     segs |-> <<Seg(0, 1, 0, 2), Seg(1, 2, 1, 2), Seg(2, 3, 2, 1), Seg(3, 4, 3, 2), Seg(4, 5, 4, 2)>>]}

VARIABLE part

indexing == part = "index" /\ FiInit
delivering == part = "delivery" /\ OdInit
checking == part = "check" /\ OcInit /\ (defect = "none" \/ lost = 0)
pumping == part = "pump" /\ MpInit

\* The modules a behaviour is not about stand still in one state.
noIndex == FiInit /\ ~movie.video
noDelivery == OdInit /\ job.state = "starting"
noCheck ==
    /\ OcInit /\ src = Src(600000, <<600000, 600000>>, {0}, FALSE, FALSE)
    /\ want = Plan(TRUE, FALSE, 0, 0, 0) /\ lost = 0 /\ defect = "none"
noPump == MpInit /\ film.fallback /\ ms.paused /\ ms.target = <<>> /\ ms.quota = 5

MCInit ==
    \/ indexing /\ noDelivery /\ noCheck /\ noPump
    \/ noIndex /\ delivering /\ noCheck /\ noPump
    \/ noIndex /\ noDelivery /\ checking /\ noPump
    \/ noIndex /\ noDelivery /\ noCheck /\ pumping

MCNext ==
    /\ UNCHANGED part
    /\ \/ part = "index" /\ FiNext /\ UNCHANGED <<odVars, ocVars, mpVars>>
       \/ part = "delivery" /\ OdNext /\ UNCHANGED <<fiVars, ocVars, mpVars>>
       \/ part = "check" /\ OcNext /\ UNCHANGED <<fiVars, odVars, mpVars>>
       \/ part = "pump" /\ MpNext /\ UNCHANGED <<fiVars, odVars, ocVars>>

\* OdFairness and MpFairness, of the part that moves.
MCFairness ==
    /\ WF_odVars(part = "delivery" /\ Supervise) /\ WF_odVars(part = "delivery" /\ Produce)
    /\ \A r \in OdClients : WF_odVars(part = "delivery" /\ Respond(r))
    /\ WF_mpVars(part = "pump" /\ PumpStep) /\ WF_mpVars(part = "pump" /\ (Make \/ MakeEnd))
    /\ WF_mpVars(part = "pump" /\ Seeked) /\ WF_mpVars(part = "pump" /\ Tick)

MCSpec == MCInit /\ [][MCNext]_<<fiVars, odVars, ocVars, mpVars, part>> /\ MCFairness

\* Every response ends, a paused seek completes, and a film that is played is
\* fed to its end (serve_file_with_remux, MediaSourcePump).
StreamsEnd == ResponsesEnd /\ PausedSeekCompletes /\ PlayedToTheEnd
=============================================================================
