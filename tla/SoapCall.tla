------------------------------ MODULE SoapCall ------------------------------
(* What a SOAP body asks for, and UpdateObject: renderers that write a       *)
(* playback position under the value they were told.                         *)
EXTENDS Integers, Sequences, FiniteSets

CONSTANTS
    Headers,       \* method names a SOAPAction header may carry, "none" for no method
    Bodies,        \* root elements of a body, as nodes [name, value, kids]
    Players,       \* renderers with a position to write
    InMillis,      \* those with the CONVERT_MS flag
    Seconds,       \* positions a renderer reaches
    MaxUpdates     \* requests of one behaviour

Absent == "absent"
Actions == {"browse", "search", "updateobject"}
ParameterNames == {"objectid", "containerid", "startingindex"}

VARIABLES
    soapCall,    \* the last body, and what it was parsed to
    stored,      \* the bookmark: seconds and play count
    told,        \* renderer -> the values it was last shown, in its own unit
    outcome,     \* the last update: what it changed, or its fault
    fresh,       \* renderers nobody wrote behind since they were told
    updates

soVars == <<soapCall, stored, told, outcome, fresh, updates>>

-----------------------------------------------------------------------------
(* try_parse_soap_call.  A header without a known method names an action all *)
(* the same ("other").                                                       *)

MatchesAction(header, node) == node.name = header
IsAction(node) == node.name \in Actions
Named(nodes, name) == {i \in DOMAIN nodes : nodes[i].name = name}
Only(S) == CHOOSE i \in S : TRUE

\* soap_parameter_nodes: the element whose direct children are the parameters.
EnvelopeNodes(header, kids) ==
    LET bodies == Named(kids, "body")
        actions == kids[Only(bodies)].kids
    IN  IF Cardinality(bodies) # 1 THEN [ok |-> FALSE]
        ELSE IF Len(actions) # 1 \/ ~MatchesAction(header, actions[1]) THEN [ok |-> FALSE]
        ELSE [ok |-> TRUE, nodes |-> actions[1].kids]
SoleRoot(header, root) ==
    IF MatchesAction(header, root) THEN [ok |-> TRUE, nodes |-> root.kids]
    ELSE IF root.name \in ParameterNames THEN [ok |-> TRUE, nodes |-> <<root>>]
    ELSE IF IsAction(root) \/ root.kids # <<>> THEN [ok |-> FALSE]
    ELSE [ok |-> TRUE, nodes |-> <<root>>]
soap_parameter_nodes(header, roots) ==
    IF roots = <<>> THEN [ok |-> TRUE, nodes |-> roots]
    ELSE IF Len(roots) = 1 /\ roots[1].name = "envelope" THEN EnvelopeNodes(header, roots[1].kids)
    ELSE IF Len(roots) = 1 THEN SoleRoot(header, roots[1])
    ELSE IF \E i \in DOMAIN roots : \/ roots[i].name = "envelope" \/ roots[i].kids # <<>>
                                    \/ IsAction(roots[i]) \/ MatchesAction(header, roots[i])
      THEN [ok |-> FALSE]
    ELSE [ok |-> TRUE, nodes |-> roots]

ValuesOf(nodes, name) == {nodes[i].value : i \in Named(nodes, name)}
take_first_field(nodes, name) ==
    IF Named(nodes, name) = {} THEN [ok |-> TRUE, value |-> Absent]
    ELSE [ok |-> TRUE, value |-> nodes[CHOOSE i \in Named(nodes, name) :
                                        \A j \in Named(nodes, name) : i <= j].value]
\* Repeated elements must agree.
take_unique_soap_field(nodes, name) ==
    IF ValuesOf(nodes, name) = {} THEN [ok |-> TRUE, value |-> Absent]
    ELSE IF Cardinality(ValuesOf(nodes, name)) > 1 THEN [ok |-> FALSE]
    ELSE [ok |-> TRUE, value |-> Only(ValuesOf(nodes, name))]

try_parse_soap_call(header, roots) ==
    LET p == soap_parameter_nodes(header, roots)
        oid == take_unique_soap_field(p.nodes, "objectid")
        cid == take_unique_soap_field(p.nodes, "containerid")
    IN  IF ~p.ok \/ ~oid.ok \/ ~cid.ok THEN [ok |-> FALSE]
        ELSE IF oid.value # Absent /\ cid.value # Absent /\ oid.value # cid.value
          THEN [ok |-> FALSE]
        ELSE [ok |-> TRUE, object |-> IF oid.value # Absent THEN oid.value ELSE cid.value]

-----------------------------------------------------------------------------
(* The tag lists of UpdateObject: sequences of [tag, value], a value is a    *)
(* number, empty or malformed; "state" is Kodi's opaque companion.           *)

Number(n) == [kind |-> "number", n |-> n]
NoValue == [kind |-> "empty", n |-> 0]
Malformed == [kind |-> "malformed", n |-> 0]
Writable == {"position", "count"}

ValueOf(list, tag) == LET At == {i \in DOMAIN list : list[i].tag = tag}
                      IN  IF At = {} THEN Absent ELSE "given"
NumberOf(list, tag) ==
    LET At == {i \in DOMAIN list : list[i].tag = tag}
    IN  IF At = {} THEN 0 ELSE list[Only(At)].value.n

\* parse_update_tag_list: "", "malformed" or "readonly", by the first bad tag.
BadTag(list, i, allow_empty) ==
    LET t == list[i] IN
    IF t.tag = "state" THEN ""
    ELSE IF t.tag \notin Writable THEN "readonly"
    ELSE IF \/ t.value.kind = "malformed"
            \/ t.value.kind = "empty" /\ ~allow_empty
            \/ t.tag = "count" /\ t.value.n < 0
            \/ \E j \in 1 .. i - 1 : list[j].tag = t.tag
    THEN "malformed" ELSE ""
parse_update_tag_list(list, allow_empty) ==
    LET Bad == {i \in DOMAIN list : BadTag(list, i, allow_empty) # ""}
    IN  IF Bad = {} THEN "" ELSE BadTag(list, CHOOSE i \in Bad : \A j \in Bad : i <= j, allow_empty)

\* parse_update_object_tags: 0, or the fault.
TagFault(current, new) ==
    LET c == parse_update_tag_list(current, TRUE)
        n == parse_update_tag_list(new, FALSE)
        Given(list, tag) == ValueOf(list, tag) # Absent
    IN  IF c = "malformed" THEN 702
        ELSE IF c = "readonly" THEN 705
        ELSE IF n = "malformed" THEN 703
        ELSE IF n = "readonly" THEN 705
        ELSE IF ~\E tag \in Writable : Given(new, tag) THEN 703
        ELSE IF \E tag \in Writable : Given(current, tag) /\ ~Given(new, tag) THEN 706
        ELSE 0

\* bookmark_seconds: milliseconds to seconds, and a start below 30 s is none.
bookmark_seconds(r, value) ==
    LET sec == IF r \in InMillis THEN value \div 1000 ELSE value
    IN  IF sec < 30 THEN 0 ELSE sec
\* The current value is a token of concurrency: its unit changes, no more.
expected_sec(r, value) == IF r \in InMillis THEN value \div 1000 ELSE value
\* to_didl_ref: what Browse shows.
Advertised(r) == [position |-> IF r \in InMillis THEN stored.position * 1000 ELSE stored.position,
                  count |-> stored.count]

-----------------------------------------------------------------------------
NoOutcome == [fault |-> 0, by |-> "nobody"]

SoInit ==
    /\ soapCall = [ok |-> FALSE, header |-> "none", roots |-> <<>>]
    /\ stored = [position |-> 0, count |-> 0]
    /\ told = [r \in Players |-> [position |-> 0, count |-> 0]]
    /\ outcome = NoOutcome /\ fresh = Players /\ updates = 0

Receive(header, roots) ==
    /\ updates = 0 /\ soapCall.roots = <<>>
    /\ soapCall' = [call |-> try_parse_soap_call(header, roots), header |-> header, roots |-> roots,
                    ok |-> TRUE]
    /\ UNCHANGED <<stored, told, outcome, fresh, updates>>

Browse(r) ==
    /\ told' = [told EXCEPT ![r] = Advertised(r)] /\ fresh' = fresh \cup {r}
    /\ UNCHANGED <<soapCall, stored, outcome, updates>>

Written(r, current, new) ==
    [position |-> IF ValueOf(new, "position") = Absent THEN stored.position
                  ELSE bookmark_seconds(r, NumberOf(new, "position")),
     count |-> IF ValueOf(new, "count") = Absent THEN stored.count ELSE NumberOf(new, "count")]
\* Every tag that is written is compared; one left out of the list counts as zero.
IsCurrent(r, current, new) ==
    /\ ValueOf(new, "position") # Absent =>
         stored.position = expected_sec(r, NumberOf(current, "position"))
    /\ ValueOf(new, "count") # Absent => stored.count = NumberOf(current, "count")

UpdateObject(r, current, new) ==
    /\ updates < MaxUpdates /\ soapCall.roots = <<>>
    /\ updates' = updates + 1
    /\ \E f \in {TagFault(current, new)} :
       \E fault \in {IF f # 0 THEN f ELSE IF IsCurrent(r, current, new) THEN 0 ELSE 702} :
         /\ stored' = IF fault = 0 THEN Written(r, current, new) ELSE stored
         /\ fresh' = IF stored' # stored THEN fresh \ (Players \ {r}) ELSE fresh
         /\ outcome' = [by |-> r, fault |-> fault, current |-> current, new |-> new,
                        before |-> stored, told |-> told[r], fresh |-> r \in fresh]
         /\ told' = IF fault = 0 THEN [told EXCEPT ![r] = Advertised(r)'] ELSE told
    /\ UNCHANGED soapCall

X_SetBookmark(r, value) ==
    /\ updates < MaxUpdates /\ soapCall.roots = <<>>
    /\ updates' = updates + 1
    /\ stored' = [stored EXCEPT !.position = bookmark_seconds(r, value)]
    /\ fresh' = IF stored' # stored THEN {} ELSE fresh
    /\ outcome' = NoOutcome
    /\ UNCHANGED <<soapCall, told>>

\* The lists a renderer sends: what it was shown, a field of it, or nothing;
\* and a new position in its own unit, a count, and tags it may not write.
Tag(tag, value) == [tag |-> tag, value |-> value]
CurrentLists(r) ==
    LET p == Tag("position", Number(told[r].position))
        c == Tag("count", Number(told[r].count))
    IN  {<<>>, <<p>>, <<p, c>>, <<Tag("position", NoValue)>>, <<Tag("state", NoValue), p>>}
OwnUnit(r, sec) == IF r \in InMillis THEN sec * 1000 + 500 ELSE sec
NewLists(r) ==
    {<<Tag("position", Number(OwnUnit(r, s)))>> : s \in Seconds}
      \cup {<<Tag("position", Number(OwnUnit(r, s))), Tag("count", Number(1))>> : s \in Seconds}
      \cup {<<Tag("title", Number(1))>>, <<Tag("position", Malformed)>>, <<Tag("state", NoValue)>>}

SoNext ==
    \/ \E h \in Headers, b \in Bodies : Receive(h, b)
    \/ \E r \in Players :
          \/ Browse(r)
          \/ \E c \in CurrentLists(r), n \in NewLists(r) : UpdateObject(r, c, n)
          \/ \E s \in Seconds : X_SetBookmark(r, OwnUnit(r, s))

SoSpec == SoInit /\ [][SoNext]_soVars

-----------------------------------------------------------------------------
\* A body that is taken names one object: whatever encloses the parameters, no two
\* of them disagree, and an envelope holds the one action of the header.
CallUnambiguous ==
    soapCall.ok /\ soapCall.call.ok =>
        LET roots == soapCall.roots
            inside == IF roots = <<>> THEN <<>>
                      ELSE IF roots[1].name = "envelope" THEN roots[1].kids[1].kids[1].kids
                      ELSE IF roots[1].name \in Actions THEN roots[1].kids
                      ELSE roots
        IN  /\ ValuesOf(inside, "objectid") \cup ValuesOf(inside, "containerid")
                 \subseteq {soapCall.call.object}
            /\ roots # <<>> /\ roots[1].name = "envelope" =>
                 /\ Len(roots) = 1
                 /\ roots[1].kids[1].kids[1].name = soapCall.header

\* UpdateObject is a compare-and-set in the renderer's own unit: a renderer that sends
\* back what it was shown is refused for a stale value (702) only if somebody wrote
\* since, and one behind whose back somebody wrote changes nothing it did not know.
UpdatesSerialized ==
    outcome.by # "nobody" =>
        LET Sent(tag) == ValueOf(outcome.new, tag) # Absent
            Echoed == \A tag \in Writable : Sent(tag) =>
                        NumberOf(outcome.current, tag) = outcome.told[tag]
        IN  /\ TagFault(outcome.current, outcome.new) = 0 /\ outcome.fresh /\ Echoed =>
                 outcome.fault = 0
            /\ outcome.fault = 0 =>
                 /\ Sent("count") => outcome.before.count = NumberOf(outcome.current, "count")
                 /\ \A tag \in Writable : ~Sent(tag) => stored[tag] = outcome.before[tag]
                 /\ Sent("position") =>
                      \/ outcome.before.position = NumberOf(outcome.current, "position")
                      \/ outcome.before.position * 1000 <= NumberOf(outcome.current, "position")
                           /\ outcome.by \in InMillis
            /\ outcome.fault # 0 => stored = outcome.before
=============================================================================
