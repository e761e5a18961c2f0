-------------------------- MODULE MCCatalogAnswers --------------------------
(* What renderers are told: CatalogPublication in two scenes, "answers", a   *)
(* renderer that asks beside a scanner that publishes, and "locks", two      *)
(* scanners and two renderers; ContentDirectory, two renderers that page     *)
(* through two generations; SearchCriteria over a set of criteria; and        *)
(* SoapCall, its bodies and two renderers that write a position; and         *)
(* Discovery in three scenes, what hosts announce, what a searcher is       *)
(* answered, and who a client is taken for.                                 *)
EXTENDS MCCatalogPublication, ContentDirectory, SearchCriteria, SoapCall, Discovery

CONSTANTS t1, p1, p2
VARIABLE scene

-----------------------------------------------------------------------------
(* Containers 1 and 2 below the root 0, the second "Recently Added"; titles  *)
(* that tie, an item that refers to another, and 9 as a short id of 1.       *)
Object(id, parent, ref, folder, title) ==
    [id |-> id, parent |-> parent, ref |-> ref, folder |-> folder, title |-> title,
     class |-> IF folder THEN 0 ELSE 1]
Folders == {Object(1, 0, 99, TRUE, 1), Object(2, 0, 99, TRUE, 2)}
TwoShelves ==
    <<Folders \cup {Object(3, 1, 99, FALSE, 1), Object(4, 1, 99, FALSE, 1)},
      Folders \cup {Object(3, 1, 99, FALSE, 1), Object(5, 0, 3, FALSE, 1),
                    Object(6, 1, 99, FALSE, 0)}>>
TwoRecents ==
    <<<<Object(14, 2, 99, FALSE, 1), Object(13, 2, 99, FALSE, 1)>>,
      <<Object(16, 2, 99, FALSE, 0), Object(13, 2, 99, FALSE, 1)>>>>

Asks(op, id, items, sort, count) ==
    [op |-> op, id |-> id, items |-> items, sort |-> sort, count |-> count]
TitleDown == <<[key |-> "title", desc |-> TRUE]>>
RendererAsks ==
    (p1 :> {Asks("children", 1, FALSE, TitleDown, 1), Asks("children", 2, FALSE, <<>>, 0),
            Asks("search", 9, TRUE, <<>>, 0)})
    @@ (p2 :> {Asks("metadata", 6, FALSE, <<>>, 0), Asks("search", 9, TRUE, <<>>, 0)})
RendererCalls == (p1 :> 2) @@ (p2 :> 1)
ShortIds == 9 :> 1

-----------------------------------------------------------------------------
(* Every sequence of up to four tokens, and two criteria joined, in brackets *)
(* or not.                                                                   *)
ScTokens == Clauses \cup {"(", ")"} \cup Joint
Simple == {<<a>> : a \in Clauses} \cup {<<a, w, b>> : a, b \in Clauses, w \in Joint}
Enclosed == {<<"(">> \o s \o <<")">> : s \in Simple}
CriteriaTexts ==
    UNION {[1 .. n -> ScTokens] : n \in 0 .. 4}
      \cup {s \o <<w>> \o t : s, t \in Simple \cup Enclosed, w \in Joint}
OneByte == [c \in Clauses |-> 1]
ScBounds == [groups |-> 3, width |-> 3, clauses |-> 6, bytes |-> 8]
FreeTexts == {<<>>, <<65>>, <<97>>, <<201>>, <<233>>, <<97, 97>>, <<65, 233>>, <<201, 97>>}
ClassTexts == {<<>>, <<9>>, <<97>>, <<65>>, <<10, 97>>, <<9, 65, 46, 97>>, <<97, 46, 65>>,
               <<97, 97>>, <<46>>}

-----------------------------------------------------------------------------
(* Bodies: up to two parameters, bare, in an action, or in an envelope with  *)
(* one or two actions or bodies.                                             *)
Element(name, value, kids) == [name |-> name, value |-> value, kids |-> kids]
Parameters ==
    {Element("objectid", "a", <<>>), Element("objectid", "b", <<>>),
     Element("containerid", "a", <<>>), Element("startingindex", "0", <<>>)}
ParameterLists == UNION {[1 .. n -> Parameters] : n \in 0 .. 2}
Calls == {Element(a, "", k) : a \in {"browse", "search"}, k \in ParameterLists}
FewCalls == {Element(a, "", k) : a \in {"browse", "search"},
                              k \in {<<>>, <<Element("objectid", "a", <<>>)>>}}
TwoCalls == {Element("body", "", <<a, b>>) : a, b \in FewCalls}
Envelopes ==
    {<<Element("envelope", "", <<b>>)>> : b \in {Element("body", "", <<a>>) : a \in Calls} \cup TwoCalls}
      \cup {<<Element("envelope", "", <<b, b>>)>> : b \in TwoCalls}
      \cup {<<Element("envelope", "", <<>>)>>}
SoapBodies ==
    Envelopes \cup ParameterLists \cup {<<a>> : a \in Calls}
      \cup {<<a, b>> : a \in FewCalls, b \in FewCalls \cup Parameters}

-----------------------------------------------------------------------------
(* Hosts with two interfaces on one network, one on another and the          *)
(* loopback, or with one beside it, under every kind of configuration.      *)
Interface(n, a, p) == [name |-> n, addr |-> a, prefix |-> p]
Home == {Interface("eth", 20, 2), Interface("eth", 22, 3), Interface("wifi", 12, 2), Interface("lo", 1, 3)}
Host(l, ifs, advertise, listen, wanted, route) ==
    [live |-> l, interfaces |-> ifs, advertise |-> advertise, listen |-> listen,
     wanted |-> wanted, route |-> route, source |-> 20]
Wifi == {<<"addr", 12>>, <<"name", "eth">>}
Hosts ==
    {Host(l, ifs, a, li, w, r) :
       l \in BOOLEAN, ifs \in {Home, {Interface("eth", 20, 2), Interface("lo", 1, 3)}},
       a \in {<<>>, <<22>>, <<9>>, <<1>>}, li \in {0, 12},
       w \in {{}, {<<"name", "eth">>}, Wifi}, r \in {"none", "eth", "wifi"}}
AtHome == Host(TRUE, Home, <<>>, 0, Wifi, "eth")

\* Searches: proper ones, without a header, with an empty one, with two targets.
Search(st, man, mx) == <<<<"ST", st>>, <<"MAN", man>>, <<"MX", mx>>>>
Searches ==
    {Search("all", "discover", "3"), Search("device", "discover", "0"), Search("other", "discover", "3"),
     Search("all", "", "3"), Search("all", "discover", ""), <<<<"ST", "device1">>, <<"MAN", "discover">>>>,
     Search("device", "discover", "3") \o <<<<"ST", "all">>>>,
     Search("device", "discover", "3") \o <<<<"ST", "device">>>>}

\* One search of any searcher on any host; four searches of one searcher; a
\* device whose address changes hands beside one that is never resolved.
OneSearch == sdAsked = <<>> /\ SearchStep
FourSearches ==
    /\ SearchStep \/ SdTick
    /\ Len(sdAsked') <= 4 /\ \A i \in DOMAIN sdAsked' : sdAsked'[i].who = 18
TwoPeers ==
    /\ PeerStep \/ SdTick
    /\ sdMac'[10] = SdNone /\ \A f \in sdFetches' : f[1] = 18

-----------------------------------------------------------------------------
answersVars == <<vars, cdVars, scVars, soVars, sdVars, scene>>

MCInit ==
    /\ Init /\ CdInit /\ ScInit /\ SoInit /\ SdInit
    /\ scene \in {"answers", "locks", "browse", "criteria", "soap", "hosts", "searches", "peers"}
    /\ scene = "locks" =>
         \A table \in {disk, liveRows} : \A i \in Items : table[i] # 2
    \* What a behaviour is not about stands still in one state.
    /\ scene \notin {"answers", "locks"} =>
         \A table \in {disk, liveRows} : \A i \in Items : table[i] = 1
    /\ scene # "hosts" => sdSetup = AtHome

MCNext ==
    /\ UNCHANGED scene
    /\ \/ /\ scene = "answers" /\ UNCHANGED <<cdVars, scVars, soVars, sdVars>>
          /\ \/ DiskChange \/ Age \/ ScannerStep(t1)
             \/ \E r \in Readers : ReaderStep(r)
       \/ /\ scene = "locks" /\ UNCHANGED <<cdVars, scVars, soVars, sdVars>>
          /\ \/ Age
             \/ \E t \in Scanners : ScannerStep(t)
             \/ \E b \in Clients : ClientStep(b)
       \/ scene = "browse" /\ CdNext /\ UNCHANGED <<vars, scVars, soVars, sdVars>>
       \/ scene = "criteria" /\ ScNext /\ UNCHANGED <<vars, cdVars, soVars, sdVars>>
       \/ scene = "soap" /\ SoNext /\ UNCHANGED <<vars, cdVars, scVars, sdVars>>
       \/ /\ UNCHANGED <<vars, cdVars, scVars, soVars>>
          /\ \/ scene = "hosts" /\ OneSearch
             \/ scene = "searches" /\ FourSearches
             \/ scene = "peers" /\ TwoPeers

\* FairSpec and the fairness of CdSpec, in the scenes that are about progress.
MCSpec ==
    /\ MCInit /\ [][MCNext]_answersVars
    /\ \A t \in Scanners : WF_vars(scene = "locks" /\ ScannerStep(t) /\ spc[t] # "idle")
    /\ \A b \in Clients : WF_vars(scene = "locks" /\ ClientStep(b) /\ bpc[b] # "idle")
    /\ \A r \in CdRenderers : WF_cdVars(scene = "browse" /\ CdStep(r))

\* What a renderer is told is what the library holds: its pages add up, permits are
\* counted, and its criteria mean what they say.
PagesAddUp == CdPagesAddUp /\ CdPermitsHeld /\ CriteriaHonest

\* What a renderer sends is taken as it was meant: a body names one object, and a
\* position is written over the value the renderer was shown or not at all.
CallsTakenAsMeant == CallUnambiguous /\ UpdatesSerialized
AskedAndAnswered == PagesAddUp /\ CallsTakenAsMeant

\* The publication lock and every permit of a query come back: requests are few
\* here, so each behaviour ends with both free.
LocksReleased ==
    []<>(/\ scene = "locks" => publication = None
         /\ scene = "browse" => \A r \in CdRenderers : call[r].pc = "idle")
=============================================================================
