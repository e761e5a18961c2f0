--------------------------- MODULE MCPublication ----------------------------
(* Publications of the catalog, and the library pages of the web interface    *)
(* read beside them: a behaviour is about one of the two.                     *)
EXTENDS MCCatalogPublication, WebLibrary

VARIABLE part

\* A list that is reordered and grows, with a folder that loses its child.
WebContents == {[list |-> <<1, 2>>, kids |-> 1], [list |-> <<2, 3, 1>>, kids |-> 0]}
\* Progress was saved last for title 2, and for one before that.
SavedTitles == <<2, 1>>

\* Either one request at a time and two publications, so that the generation
\* wraps, or a query that runs out of time beside one publication; or two
\* requests side by side and one publication.
OneRequest == \A s, t \in WlSlots : "idle" \in {wlSlot'[s].pc, wlSlot'[t].pc} \/ s = t
FirstLoad == wlCat'.n + wlDb'.n <= 2 /\ wlLoad'.id <= 1
WebStep ==
    /\ WlNext
    /\ part = "one" => OneRequest /\ (wlFaults' = 0 \/ FirstLoad)
    /\ part = "two" => FirstLoad /\ wlFaults' = 0

PubSymmetry == ItemSymmetry \cup Permutations(WlSlots)

pubVars == <<vars, wlVars, part>>
PubInit ==
    /\ part \in {"scanner", "one", "two"}
    /\ Init /\ WlInit
    /\ part = "scanner" => Len(wlCat.list) = 3
    /\ part # "scanner" => disk = Empty /\ liveRows = Empty
PubNext ==
    /\ UNCHANGED part
    /\ \/ part = "scanner" /\ Next /\ UNCHANGED wlVars
       \/ part # "scanner" /\ WebStep /\ UNCHANGED vars
PubSpec == PubInit /\ [][PubNext]_pubVars
=============================================================================
