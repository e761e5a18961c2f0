--------------------------- MODULE SearchCriteria ---------------------------
(* SearchCriteria of a Search request: the parser and its expansion into OR  *)
(* of AND-groups within bounds, and the two evaluators of a clause, in       *)
(* memory and in SQL.                                                        *)
EXTENDS Integers, Sequences, FiniteSets

CONSTANTS
    Clauses,      \* names of complete clauses; a token is one of them, a bracket or a word
    LiteralBytes, \* clause -> the length of its literal
    ScMax,        \* [groups, width, clauses, bytes]: what an expansion may have
    Inputs,       \* token sequences a renderer sends
    Texts,        \* field values and literals of free text, as sequences of characters
    ClassNames    \* the same for object classes

VARIABLES
    criteria,  \* the tokens of a request
    query,     \* what they were parsed to
    trial      \* one clause and one field value

scVars == <<criteria, query, trial>>

Joint == {"and", "or"}
Refuse == [ok |-> FALSE]

-----------------------------------------------------------------------------
(* parse_or, parse_and, parse_primary: `and` binds tighter, both to the left. *)

Leaf(c) == [op |-> "clause", clause |-> c]
Node(op, l, r) == [op |-> op, left |-> l, right |-> r]
Parsed(e, rest) == [ok |-> TRUE, e |-> e, rest |-> rest]
Starts(s, word) == s # <<>> /\ Head(s) = word

RECURSIVE parse_or(_), parse_and(_), parse_primary(_), MoreOr(_, _), MoreAnd(_, _)

parse_primary(s) ==
    IF s = <<>> THEN Refuse
    ELSE IF Head(s) = "("
      THEN LET inner == parse_or(Tail(s))
           IN  IF inner.ok /\ Starts(inner.rest, ")")
               THEN Parsed(inner.e, Tail(inner.rest)) ELSE Refuse
    ELSE IF Head(s) \in Clauses THEN Parsed(Leaf(Head(s)), Tail(s)) ELSE Refuse

MoreAnd(e, s) ==
    IF ~Starts(s, "and") THEN Parsed(e, s)
    ELSE LET p == parse_primary(Tail(s))
         IN  IF p.ok THEN MoreAnd(Node("and", e, p.e), p.rest) ELSE Refuse
parse_and(s) == LET p == parse_primary(s) IN IF p.ok THEN MoreAnd(p.e, p.rest) ELSE Refuse

MoreOr(e, s) ==
    IF ~Starts(s, "or") THEN Parsed(e, s)
    ELSE LET p == parse_and(Tail(s))
         IN  IF p.ok THEN MoreOr(Node("or", e, p.e), p.rest) ELSE Refuse
parse_or_flat(s) == LET p == parse_primary(s) IN IF p.ok THEN MoreOr(p.e, p.rest) ELSE Refuse
parse_or(s) == LET p == parse_and(s) IN IF p.ok THEN MoreOr(p.e, p.rest) ELSE Refuse

-----------------------------------------------------------------------------
(* The expansion into OR of AND-groups: counted before it is made.           *)

LargerOf(a, b) == IF a > b THEN a ELSE b
OrSize(l, r) == [groups |-> l.groups + r.groups, clauses |-> l.clauses + r.clauses,
              width |-> LargerOf(l.width, r.width), bytes |-> l.bytes + r.bytes]
AndSize_once(l, r) ==
    [groups |-> l.groups * r.groups, clauses |-> l.clauses + r.clauses,
     width |-> l.width + r.width, bytes |-> l.bytes * r.groups + r.bytes * l.groups]
AndSize(l, r) ==
    [groups |-> l.groups * r.groups,
     clauses |-> l.clauses * r.groups + r.clauses * l.groups,
     width |-> l.width + r.width,
     bytes |-> l.bytes * r.groups + r.bytes * l.groups]
Fits(n) == /\ n.groups <= ScMax.groups /\ n.width <= ScMax.width
           /\ n.clauses <= ScMax.clauses /\ n.bytes <= ScMax.bytes

\* The size of an expression, and whether every part of it stays within bounds.
RECURSIVE expansion(_)
expansion(e) ==
    IF e.op = "clause"
      THEN [ok |-> TRUE,
            n |-> [groups |-> 1, clauses |-> 1, width |-> 1, bytes |-> LiteralBytes[e.clause]]]
    ELSE LET l == expansion(e.left)
             r == expansion(e.right)
             n == IF e.op = "or" THEN OrSize(l.n, r.n) ELSE AndSize(l.n, r.n)
         IN  [ok |-> l.ok /\ r.ok /\ Fits(n), n |-> n]

RECURSIVE to_groups(_)
to_groups(e) ==
    IF e.op = "clause" THEN << <<e.clause>> >>
    ELSE LET l == to_groups(e.left)
             r == to_groups(e.right)
         IN  IF e.op = "or" THEN l \o r
             ELSE [i \in 1 .. Len(l) * Len(r) |->
                     l[((i - 1) \div Len(r)) + 1] \o r[((i - 1) % Len(r)) + 1]]

try_parse_trailing(s) ==
    LET p == parse_or(s)
    IN  IF s = <<>> THEN [ok |-> TRUE, all |-> TRUE, groups |-> <<>>]
        ELSE IF ~p.ok \/ ~expansion(p.e).ok THEN Refuse
        ELSE [ok |-> TRUE, all |-> FALSE, groups |-> to_groups(p.e)]
\* try_parse_search_criteria
try_parse(s) ==
    LET p == parse_or(s)
    IN  IF s = <<>> THEN [ok |-> TRUE, all |-> TRUE, groups |-> <<>>]
        ELSE IF ~p.ok \/ p.rest # <<>> \/ ~expansion(p.e).ok THEN Refuse
        ELSE [ok |-> TRUE, all |-> FALSE, groups |-> to_groups(p.e)]

\* row_matches, for a row of which the clauses in `holds` are true.
row_matches(q, holds) ==
    q.all \/ \E g \in DOMAIN q.groups : \A c \in DOMAIN q.groups[g] : q.groups[g][c] \in holds

-----------------------------------------------------------------------------
(* One clause on one field.  Characters are numbers in code order: 65/97 are *)
(* a letter of ASCII, 201/233 one outside it, 46 the dot; 9/10 stand for the *)
(* prefix "OBJECT."/"object." of a class.                                    *)

AsciiLower(c) == IF c = 65 THEN 97 ELSE IF c = 9 THEN 10 ELSE c
UnicodeLower(c) == IF c = 201 THEN 233 ELSE AsciiLower(c)
EachChar(f(_), t) == [i \in DOMAIN t |-> f(t[i])]

full_object_class(t) == IF t = <<>> \/ t[1] \in {9, 10} THEN t ELSE <<10>> \o t
Occurs(needle, t, at) ==
    /\ at + Len(needle) - 1 <= Len(t)
    /\ \A i \in DOMAIN needle : t[at + i - 1] = needle[i]
Within(needle, t) == \E at \in 1 .. Len(t) + 1 : Occurs(needle, t, at)
Less(a, b) ==
    \/ Len(a) < Len(b) /\ \A i \in DOMAIN a : a[i] = b[i]
    \/ \E i \in DOMAIN a \cap DOMAIN b : a[i] < b[i] /\ \A j \in 1 .. i - 1 : a[j] = b[j]

\* clause_matches: free text folds Unicode case, everything else ASCII case.
fold(prop, t) == IF prop = "text" THEN EachChar(UnicodeLower, t) ELSE EachChar(AsciiLower, t)
Normal(prop, t) == IF prop = "class" THEN full_object_class(t) ELSE t
clause_matches(prop, op, field, value) ==
    LET have == fold(prop, Normal(prop, field))
        want == fold(prop, Normal(prop, value))
    IN  CASE op = "contains" -> Within(fold(prop, value), have)
          [] op = "doesNotContain" -> ~Within(fold(prop, value), have)
          [] op = "=" -> have = want
          [] op = "!=" -> have # want
          [] op = "<" -> Less(have, want)
          [] op = "<=" -> Less(have, want) \/ have = want
          [] op = ">" -> Less(want, have)
          [] op = ">=" -> Less(want, have) \/ have = want
          [] op = "derivedfrom" -> have = want \/ Occurs(want \o <<46>>, have, 1)
          [] op = "exists" -> field # <<>>

\* catalog_clause_sql: soap_search_fold for free text; COLLATE NOCASE and
\* lower(), which know ASCII only, for the rest.
sql_fold_ascii(prop, t) == EachChar(AsciiLower, t)
sql_fold(prop, t) == IF prop = "text" THEN EachChar(UnicodeLower, t) ELSE EachChar(AsciiLower, t)
catalog_clause_sql(prop, op, field, value) ==
    LET column == IF prop = "class" THEN full_object_class(field) ELSE field
        have == sql_fold(prop, column)
        want == sql_fold(prop, IF prop = "class" THEN full_object_class(value) ELSE value)
        found == Within(sql_fold(prop, value), have)
    IN  CASE op = "contains" -> found
          [] op = "doesNotContain" -> ~found
          [] op = "=" -> have = want
          [] op = "!=" -> have # want
          [] op = "<" -> Less(have, want)
          [] op = "<=" -> ~Less(want, have)
          [] op = ">" -> Less(want, have)
          [] op = ">=" -> ~Less(have, want)
          [] op = "derivedfrom" ->
               LET ancestor == sql_fold(prop, full_object_class(value))
               IN  have = ancestor \/ Occurs(ancestor \o <<46>>, have, 1)
          [] op = "exists" -> column # <<>>

Operators == {"contains", "doesNotContain", "=", "!=", "<", "<=", ">", ">=", "exists"}
ClauseTrials ==
    [prop : {"text", "id"}, op : Operators, field : Texts, value : Texts]
      \cup [prop : {"class"}, op : Operators \cup {"derivedfrom"}, field : ClassNames,
            value : ClassNames]

-----------------------------------------------------------------------------
NoTrial == [prop |-> "none"]

ScInit == criteria = <<>> /\ query = Refuse /\ trial = NoTrial

ParseCriteria(s) ==
    /\ query = Refuse /\ criteria = <<>> /\ trial = NoTrial
    /\ criteria' = s /\ query' = try_parse(s)
    /\ UNCHANGED trial

MatchClause(t) ==
    /\ query = Refuse /\ criteria = <<>> /\ trial = NoTrial
    /\ trial' = t /\ UNCHANGED <<criteria, query>>

ScNext == (\E s \in Inputs : ParseCriteria(s)) \/ (\E t \in ClauseTrials : MatchClause(t))
ScSpec == ScInit /\ [][ScNext]_scVars

-----------------------------------------------------------------------------
(* What the tokens say: the last `or` outside brackets joins two criteria,   *)
(* where there is none the last `and`, and brackets enclose one.             *)

Depth(s, n) == Cardinality({i \in 1 .. n : s[i] = "("}) - Cardinality({i \in 1 .. n : s[i] = ")"})
Joints(s, word) == {i \in DOMAIN s : s[i] = word /\ Depth(s, i) = 0}
LastOf(S) == CHOOSE i \in S : \A j \in S : j <= i

RECURSIVE Means(_)
Means(s) ==
    LET Both(i) == <<Means(SubSeq(s, 1, i - 1)), Means(SubSeq(s, i + 1, Len(s)))>>
        Ors == Joints(s, "or")
        Ands == Joints(s, "and")
    IN  IF Ors # {}
          THEN LET p == Both(LastOf(Ors))
               IN  [ok |-> p[1].ok /\ p[2].ok, rows |-> p[1].rows \cup p[2].rows]
        ELSE IF Ands # {}
          THEN LET p == Both(LastOf(Ands))
               IN  [ok |-> p[1].ok /\ p[2].ok, rows |-> p[1].rows \cap p[2].rows]
        ELSE IF Len(s) > 2 /\ s[1] = "(" /\ s[Len(s)] = ")"
          THEN Means(SubSeq(s, 2, Len(s) - 1))
        ELSE IF Len(s) = 1 /\ s[1] \in Clauses
          THEN [ok |-> TRUE, rows |-> {h \in SUBSET Clauses : s[1] \in h}]
        ELSE [ok |-> FALSE, rows |-> {}]

\* A query that is accepted selects the rows its text means, whatever it was
\* expanded to; only text without a meaning, or too large, is refused (fault 708).
MeaningKept ==
    criteria # <<>> =>
      IF query.ok
      THEN /\ Means(criteria).ok
           /\ {h \in SUBSET Clauses : row_matches(query, h)} = Means(criteria).rows
      ELSE Means(criteria).ok => ~expansion(parse_or(criteria).e).ok

\* The count made before the expansion is its size, so nothing larger than the
\* bounds is ever built (Expression::expansion).
CountIsExact ==
    query.ok /\ criteria # <<>> =>
        LET n == expansion(parse_or(criteria).e).n
            Groups == DOMAIN query.groups
        IN  /\ n.groups = Len(query.groups)
            /\ \A g \in Groups : Len(query.groups[g]) <= n.width
            /\ n.clauses = Cardinality({<<g, i>> \in Groups \X (1 .. n.width) :
                                          i \in DOMAIN query.groups[g]})

\* A clause selects the same rows in SQL and in memory, so a fallback between the
\* two pages of one listing neither repeats nor loses an object.
EvaluatorsAgree ==
    trial # NoTrial =>
        catalog_clause_sql(trial.prop, trial.op, trial.field, trial.value)
          = clause_matches(trial.prop, trial.op, trial.field, trial.value)

CriteriaHonest == MeaningKept /\ CountIsExact /\ EvaluatorsAgree
=============================================================================
