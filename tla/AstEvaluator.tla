---------------------------- MODULE AstEvaluator ----------------------------
(***************************************************************************)
(* EvaluateNode of the decision engine: what a rule formula computes on    *)
(* one record (runtime/ast_eval/evaluator.go, aggregate_compiler.go,       *)
(* evidence.go).  A node is [fn, c, kids, named]: its function name in     *)
(* lower case ("" for a constant), its constant, its positional children   *)
(* and its named ones.  A runtime rt is what the evaluation can read:      *)
(*   fields   the record          lists, tags, risk, flags   the platform  *)
(*   model    tables, their fields' types and their single links           *)
(*   rows     the stored records of each table (the tenant data reader)    *)
(*   geo      the geolocation database       past   outcomes already given *)
(*   now      the evaluation's time          up     the reader answers     *)
(*   pushdown the aggregates the reader may be asked for                   *)
(***************************************************************************)
EXTENDS AggregateQuery

Node(fn, kids, named) == [fn |-> fn, c |-> Null, kids |-> kids, named |-> named]
Const(x) == [fn |-> "", c |-> x, kids |-> <<>>, named |-> <<>>]
NoNamed == <<>>

\* The spellings of a function (names are compared in lower case).
Alias ==
  ("=" :> "eq") @@ ("!=" :> "neq") @@ (">" :> "gt") @@ (">=" :> "gte") @@ ("<" :> "lt") @@ ("<=" :> "lte")
  @@ ("+" :> "add") @@ ("-" :> "subtract") @@ ("*" :> "multiply") @@ ("/" :> "divide")
  @@ [databaseaccess |-> "database_access", ipcountry |-> "ip_country", ipgeofound |-> "ip_geo_found",
      customlistaccess |-> "custom_list_access", timeadd |-> "time_add", timenow |-> "time_now",
      parsetime |-> "parse_time", isinlist |-> "is_in_list", isnotinlist |-> "is_not_in_list",
      stringcontains |-> "contains", stringnotcontain |-> "string_not_contain",
      stringstartswith |-> "starts_with", stringendswith |-> "ends_with",
      containsanyof |-> "contains_any", containsnoneof |-> "contains_none",
      isempty |-> "is_empty", isnotempty |-> "is_not_empty", timestampextract |-> "timestamp_extract",
      fuzzymatch |-> "fuzzy_match", fuzzymatchanyof |-> "fuzzy_match_any_of",
      fuzzymatchoptions |-> "fuzzy_match_filter_options", ismultipleof |-> "is_multiple_of",
      stringtemplate |-> "string_template", stringconcat |-> "string_concat",
      scorecomputation |-> "score_computation"]
canonicalFunctionName(fn) == IF fn \in DOMAIN Alias THEN Alias[fn] ELSE fn

RECURSIVE EvaluateNode(_, _)

Kids(n, rt) == [i \in DOMAIN n.kids |-> EvaluateNode(n.kids[i], rt)]

\* The value of one child, of exactly two children, of a named child.
One(n, rt, F(_)) ==
  IF Len(n.kids) # 1 THEN Err("shape") ELSE OrErr(Kids(n, rt), LAMBDA v : F(v[1]))
Two(n, rt, F(_, _)) ==
  IF Len(n.kids) # 2 THEN Err("shape") ELSE OrErr(Kids(n, rt), LAMBDA v : F(v[1], v[2]))
evalNamedAny(n, name, rt) ==
  IF name \in DOMAIN n.named THEN EvaluateNode(n.named[name], rt) ELSE Err("shape")
evalNamedString(n, name, rt) ==
  LET x == evalNamedAny(n, name, rt) IN IF Is(x, "err") \/ Is(x, "str") THEN x ELSE Err("type")
evalNamedList(n, name, rt) ==
  LET x == evalNamedAny(n, name, rt) IN IF Is(x, "err") \/ Is(x, "list") THEN x ELSE Err("type")
evalOptionalNamedString(n, name, rt, default) ==
  IF name \in DOMAIN n.named THEN evalNamedString(n, name, rt) ELSE Str(default)

\* The list given as the child "items", or else as the only child; a failure
\* of "items" is forgotten.
evalListChildOrNamedItems(n, rt) ==
  LET items == evalNamedList(n, "items", rt)
  IN  IF Is(items, "list") THEN items
      ELSE One(n, rt, LAMBDA x : IF Is(x, "list") THEN x ELSE Err("type"))

-----------------------------------------------------------------------------
(* Logic, comparison, text, arithmetic.                                    *)

\* field_ref and payload read a field of the record; an unknown one is nil.
EvalFieldRef(n, rt) ==
  CASE "field" \notin DOMAIN n.named -> Err("shape")
    [] "field" \in DOMAIN n.named /\ Is(n.named["field"].c, "str") -> At(rt.fields, n.named["field"].c.v)
    [] OTHER -> Err("type")

\* and stops at the first false child, or at the first true one.
EvalAnd(n, rt) == Connective(n.kids, rt, FALSE, EvaluateNode)
EvalOr(n, rt) == Connective(n.kids, rt, TRUE, EvaluateNode)
EvalNot(n, rt) == One(n, rt, LAMBDA x : IF Is(x, "bool") THEN Bool(~x.v) ELSE Err("type"))

EvalComparison(n, rt) == Two(n, rt, LAMBDA l, r : compareValues(canonicalFunctionName(n.fn), l, r))

EvalContains(n, rt) ==
  Two(n, rt, LAMBDA l, r : IF canonicalFunctionName(n.fn) = "contains"
                           THEN containsValue(l, r) ELSE Negate(containsValue(l, r)))
EvalIn(n, rt) == Two(n, rt, inValue)
EvalIsInList(n, rt) ==
  Two(n, rt, LAMBDA l, r : IF canonicalFunctionName(n.fn) = "is_in_list"
                           THEN inValue(l, r) ELSE Negate(inValue(l, r)))
EvalContainsAny(n, rt) ==
  Two(n, rt, LAMBDA l, r : IF canonicalFunctionName(n.fn) = "contains_any"
                           THEN containsAnyValue(l, r) ELSE Negate(containsAnyValue(l, r)))

\* The choice between prefix and suffix, lower and upper case, and the
\* arithmetic operation is made by the node's own spelling, not the canonical.
EvalAffix(n, rt) ==
  Two(n, rt, LAMBDA l, r :
        IF ~Is(l, "str") \/ ~Is(r, "str") THEN Err("type")
        ELSE Bool(IF n.fn = "starts_with" THEN IsPrefix(r.v, l.v) ELSE IsSuffix(r.v, l.v)))
EvalCase(n, rt) ==
  One(n, rt, LAMBDA x : IF ~Is(x, "str") THEN Err("type")
                        ELSE Str(IF n.fn = "lower" THEN ToLower(x.v) ELSE ToUpper(x.v)))
EvalArithmetic(n, rt) == Two(n, rt, LAMBDA l, r : arithmeticValue(n.fn, l, r))

EvalNullTest(n, rt) ==
  One(n, rt, LAMBDA x : LET empty == x = Null \/ x = Str(<<>>)
                        IN  CASE canonicalFunctionName(n.fn) = "is_null" -> Bool(x = Null)
                              [] canonicalFunctionName(n.fn) = "is_empty" -> Bool(empty)
                              [] canonicalFunctionName(n.fn) = "is_not_empty" -> Bool(~empty))

FirstNonNull(kids, rt, Eval(_, _)) ==
  LET RECURSIVE From(_)
      From(i) == IF i > Len(kids) THEN Null
                 ELSE LET x == Eval(kids[i], rt) IN IF x = Null THEN From(i + 1) ELSE x
  IN  From(1)
\* (Mutant: only the first child counts.)
EvalCoalesceFirst(n, rt) == IF n.kids = <<>> THEN Err("shape") ELSE EvaluateNode(n.kids[1], rt)
EvalCoalesce(n, rt) == IF n.kids = <<>> THEN Err("shape") ELSE FirstNonNull(n.kids, rt, EvaluateNode)

-----------------------------------------------------------------------------
(* Reads outside the record.                                               *)

EvalInCustomList(n, rt) ==
  OrErr(<<evalNamedString(n, "list", rt), evalNamedString(n, "value", rt)>>,
        LAMBDA v : Bool(v[2].v \in At(rt.lists, v[1].v)))
EvalRecordHasTag(n, rt) == OrErr(<<evalNamedString(n, "tag", rt)>>, LAMBDA v : Bool(v[1].v \in rt.tags))
EvalRecordRiskLevel(n, rt) == rt.risk
EvalHasIPFlag(n, rt) ==
  OrErr(<<evalNamedString(n, "ip", rt), evalNamedString(n, "flag", rt)>>,
        LAMBDA v : Bool(<<v[1].v, v[2].v>> \in rt.flags))

\* A null or blank address has no location; an unknown one is not found; a
\* text that is no address is an error.
evaluateGeoIPLookup(n, rt) ==
  One(n, rt, LAMBDA x :
        CASE x = Null \/ x = Str(<<>>) -> Null
          [] ~Is(x, "null") /\ ~Is(x, "str") -> Err("type")
          [] OTHER -> IF Is(x, "str") /\ x.v \in DOMAIN rt.geo THEN rt.geo[x.v] ELSE Err("data"))
EvalGeoIP(n, rt) ==
  OrErr(<<evaluateGeoIPLookup(n, rt)>>,
        LAMBDA v : IF canonicalFunctionName(n.fn) = "ip_geo_found" THEN Bool(v[1] # Null) ELSE v[1])

EvalPastDecisionCount(n, rt) ==
  OrErr(<<IF rt.up THEN Null ELSE Err("remote"), evalOptionalNamedString(n, "outcome", rt, <<>>)>>,
        LAMBDA v : Num(Len(SelectSeq(rt.past, LAMBDA o : "outcome" \in DOMAIN n.named => o = v[2].v))))

\* Broad reads are disabled.
EvalBroadRead(n, rt) == Err("off")

\* Follow single links from the record: nil as soon as a link field is nil or
\* no parent row has the value.  Answers <<fields, table>>.
TraverseRelatedPath(path, rt) ==
  LET RECURSIVE Walk(_, _, _)
      Walk(i, fields, table) ==
        IF i > Len(path) THEN [k |-> "row", v |-> fields, table |-> table]
        ELSE IF path[i] \notin DOMAIN rt.model[table].links THEN Err("shape")
        ELSE LET link == rt.model[table].links[path[i]]
                 key == At(fields, <<link.child>>)
                 rows == SelectSeq(rt.rows[link.parent], LAMBDA r : At(r, <<link.field>>) = key)
             IN  CASE key = Null -> Null
                   [] key # Null /\ ~rt.up -> Err("remote")
                   [] key # Null /\ rt.up -> IF rows = <<>> THEN Null ELSE Walk(i + 1, rows[1], link.parent)
  IN  IF path = <<>> THEN Err("shape") ELSE Walk(1, rt.fields, rt.table)

RelatedValue(row, field, rt) ==
  IF field \in DOMAIN rt.model[row.table].fields THEN At(row.v, field) ELSE Err("shape")
EvalRelatedField(n, rt) ==
  OrErr(<<evalNamedString(n, "path", rt), evalNamedString(n, "field", rt)>>,
        LAMBDA v : OrErr(<<TraverseRelatedPath(v[1].v, rt)>>,
                         LAMBDA w : IF w[1] = Null THEN Null ELSE RelatedValue(w[1], v[2].v, rt)))

EvalPayload(n, rt) == One(n, rt, LAMBDA x : IF Is(x, "str") THEN At(rt.fields, x.v) ELSE Err("type"))
EvalList(n, rt) == OrErr(Kids(n, rt), ListOf)
EvalFilter(n, rt) ==
  OrErr(<<evalNamedString(n, "tableName", rt), evalNamedString(n, "fieldName", rt),
          evalNamedString(n, "operator", rt),
          IF "value" \in DOMAIN n.named THEN EvaluateNode(n.named["value"], rt) ELSE Null>>,
        LAMBDA v : [k |-> "filter", field |-> v[2].v, op |-> v[3].v, value |-> v[4]])

\* The path's texts; an empty path is the record itself.  A path that leads
\* nowhere falls back to the record too.
evalNamedStringList(n, name, rt) ==
  OrErr(<<evalNamedList(n, name, rt)>>,
        LAMBDA v : IF \A i \in DOMAIN v[1].v : Is(v[1].v[i], "str") THEN v[1] ELSE Err("item"))
traverseRelatedPathSegments(path, rt) ==
  IF path = <<>> THEN [k |-> "row", v |-> rt.fields, table |-> rt.table]
  ELSE TraverseRelatedPath([i \in DOMAIN path |-> Head(path[i].v)], rt)
evaluateDatabaseAccess(n, rt) ==
  OrErr(<<evalNamedString(n, "tableName", rt), evalNamedString(n, "fieldName", rt),
          evalNamedStringList(n, "path", rt)>>,
        LAMBDA v :
          IF v[1].v \notin {<<>>, <<rt.table>>} THEN Err("shape")
          ELSE OrErr(<<traverseRelatedPathSegments(v[3].v, rt)>>,
                     LAMBDA w : RelatedValue(IF w[1] = Null
                                             THEN [k |-> "row", v |-> rt.fields, table |-> rt.table]
                                             ELSE w[1], v[2].v, rt)))

-----------------------------------------------------------------------------
(* Time, lists, fuzzy matching, text building.                             *)

EvalTimeNow(n, rt) == Time(rt.now)
EvalParseTime(n, rt) ==
  One(n, rt, LAMBDA x : LET t == parseTimeValue(x) IN IF t[1] THEN Time(t[2]) ELSE Err("data"))
EvalTimestampExtract(n, rt) ==
  OrErr(<<evalNamedAny(n, "timestamp", rt)>>, LAMBDA v :
    IF v[1] = Null THEN Null
    ELSE OrErr(<<evalNamedString(n, "part", rt)>>, LAMBDA w :
           LET t == parseTimeValue(v[1])
           IN  IF t[1] THEN extractTimestampPart(t[2], w[1].v) ELSE Err("type")))
EvalTimeAdd(n, rt) ==
  OrErr(<<evalNamedAny(n, "timestampField", rt)>>, LAMBDA v :
    LET t == parseTimeValue(v[1])
    IN  CASE v[1] = Null -> Null
          [] v[1] # Null /\ ~t[1] -> Err("type")
          [] v[1] # Null /\ t[1] ->
               OrErr(<<evalNamedString(n, "duration", rt), evalNamedString(n, "sign", rt)>>, LAMBDA w :
                 LET d == parseDurationValue(w[1].v)
                 IN  CASE ~d[1] -> Err("data")
                       [] d[1] /\ w[2].v = <<"-">> -> Time(t[2] - d[2])
                       [] d[1] /\ w[2].v = <<"+">> -> Time(t[2] + d[2])
                       [] OTHER -> Err("data")))

\* The entries of a custom list, found by its id or else by its name.
EvalCustomListAccess(n, rt) ==
  OrErr(<<evalNamedString(n, "customListId", rt)>>,
        LAMBDA v : ListOf(LET s == SetToSeq(At(rt.lists, v[1].v)) IN [i \in DOMAIN s |-> Str(s[i])]))

EvalFuzzyMatch(n, rt) ==
  Two(n, rt, LAMBDA l, r :
    IF l = Null \/ r = Null THEN Null
    ELSE OrErr(<<evalNamedString(n, "algorithm", rt)>>, LAMBDA a :
           IF Is(l, "str") /\ Is(r, "str") THEN fuzzySimilarityScore(l.v, r.v, a[1].v) ELSE Err("type")))

\* The best score over a list; 100 stops the search.
EvalFuzzyMatchAnyOf(n, rt) ==
  Two(n, rt, LAMBDA l, r :
    IF l = Null \/ r = Null THEN Null
    ELSE OrErr(<<evalNamedString(n, "algorithm", rt)>>, LAMBDA a :
           IF ~Is(l, "str") \/ ~Is(r, "list") THEN Err("type")
           ELSE LET score(i) == IF Is(r.v[i], "str") THEN fuzzySimilarityScore(l.v, r.v[i].v, a[1].v)
                                ELSE Err("item")
                    full == {i \in DOMAIN r.v : score(i) = Num(100)}
                    seen == IF full = {} THEN DOMAIN r.v ELSE 1 .. Min(full)
                IN  IF \E i \in seen : Is(score(i), "err") THEN Err("item")
                    ELSE Num(Max({0} \cup {score(i).v : i \in seen}))))
EvalFuzzyOptions(n, rt) ==
  OrErr(<<evalNamedString(n, "algorithm", rt), evalNamedAny(n, "threshold", rt), evalNamedString(n, "value", rt)>>,
        LAMBDA v : CASE ~toFloat(v[2]) -> Err("type")
                     [] toFloat(v[2]) /\ (v[2].v < 0 \/ v[2].v > 100 * v[2].d) -> Err("data")
                     [] OTHER -> Obj(<<>>))

\* A value that is no integer is no multiple; a nil value has no answer, and
\* the divider is then never looked at.
EvalIsMultipleOf(n, rt) ==
  OrErr(<<evalNamedAny(n, "value", rt)>>, LAMBDA v :
    IF v[1] = Null THEN Null
    ELSE OrErr(<<evalNamedAny(n, "divider", rt)>>, LAMBDA w :
           IF ~toFloat(v[1]) \/ ~toFloat(w[1]) THEN Err("type")
           ELSE LET a == downcastToInt64(v[1])
                    b == downcastToInt64(w[1])
                IN  CASE ~a[1] -> Bool(FALSE)
                      [] a[1] /\ (~b[1] \/ b[2] = 0) -> Err("data")
                      [] OTHER -> Bool(a[2] % (IF b[2] < 0 THEN -b[2] ELSE b[2]) = 0)))

\* The digits of a number: one symbol.
Digits(x) == <<ToString(x.v \div x.d)>>
Rendered(x) == IF Is(x, "str") THEN x.v ELSE Digits(x)
EvalStringConcat(n, rt) ==
  LET flag == IF "with_separator" \in DOMAIN n.named THEN EvaluateNode(n.named["with_separator"], rt) ELSE Null
      sep == IF "separator" \in DOMAIN n.named THEN EvaluateNode(n.named["separator"], rt) ELSE Null
      glue == IF flag = Bool(TRUE) THEN (IF Is(sep, "str") THEN sep.v ELSE <<" ">>) ELSE <<>>
  IN  OrErr(<<flag, sep>> \o Kids(n, rt), LAMBDA v :
        LET parts == SelectSeq(SubSeq(v, 3, Len(v)), LAMBDA x : x # Null)
        IN  IF \E i \in DOMAIN parts : ~Is(parts[i], "str") /\ ~Is(parts[i], "num") THEN Err("type")
            ELSE Str(FoldLeft(LAMBDA acc, i : acc \o (IF i = 1 THEN <<>> ELSE glue) \o Rendered(parts[i]),
                              <<>>, [i \in DOMAIN parts |-> i])))

\* Only the variables the template mentions are evaluated; one that is not
\* given, or is nil, leaves an empty brace.
TemplateVariable == [w \in {"%x%"} |-> "x"]
renderStringTemplate(template, n, rt) ==
  LET used == {i \in DOMAIN template : template[i] \in DOMAIN TemplateVariable}
      val(i) == IF TemplateVariable[template[i]] \in DOMAIN n.named
                THEN EvaluateNode(n.named[TemplateVariable[template[i]]], rt) ELSE Null
  IN  CASE \E i \in used : Is(val(i), "err") -> val(CHOOSE i \in used : Is(val(i), "err"))
        [] \E i \in used : ~Is(val(i), "err") /\ val(i).k \notin {"null", "str", "num"} -> Err("type")
        [] OTHER -> Str(FlattenSeq([i \in DOMAIN template |->
                          IF i \notin used THEN <<template[i]>>
                          ELSE IF val(i) = Null THEN <<"{}">> ELSE Rendered(val(i))]))
EvalStringTemplate(n, rt) ==
  One(n, rt, LAMBDA x : IF ~Is(x, "str") \/ x = Str(<<>>) THEN Err("type")
                        ELSE renderStringTemplate(x.v, n, rt))

-----------------------------------------------------------------------------
(* Scores.                                                                 *)

Score(triggered, modifier, floor) ==
  [k |-> "score", v |-> [triggered |-> Bool(triggered), modifier |-> Num(modifier), floor |-> Num(floor),
                         branch |-> Null, fallback |-> Bool(FALSE), default |-> Bool(FALSE)]]
Truncated(x) == IF x.v < 0 THEN -((-x.v) \div x.d) ELSE x.v \div x.d

\* A nil condition scores nothing; a condition that does not hold scores 0.
EvalScoreComputation(n, rt) ==
  LET floor == IF "floor" \in DOMAIN n.named THEN EvaluateNode(n.named["floor"], rt) ELSE Null
  IN  OrErr(<<evalNamedAny(n, "modifier", rt)>>, LAMBDA m :
        CASE ~toFloat(m[1]) -> Err("type")
          [] toFloat(m[1]) /\ Is(floor, "err") -> floor
          [] toFloat(m[1]) /\ ~Is(floor, "err") /\ floor # Null /\ ~toFloat(floor) -> Err("type")
          [] OTHER ->
               One(n, rt, LAMBDA x :
                 CASE x = Null \/ x = Bool(FALSE) -> Score(FALSE, 0, 0)
                   [] x = Bool(TRUE) -> Score(TRUE, Truncated(m[1]), IF floor = Null THEN 0 ELSE Truncated(floor))
                   [] OTHER -> Err("type")))

\* The first branch that triggers.  Without one, or without a value to branch
\* on, the fallback; a fallback that fails or is no score is as good as none.
EvalSwitch(n, rt) ==
  LET field == At(n.named, "field")
      other == IF "fallback" \in DOMAIN n.named THEN EvaluateNode(n.named["fallback"], rt) ELSE Null
      Otherwise == IF Is(other, "score") THEN [other EXCEPT !.v.fallback = Bool(TRUE)]
                   ELSE [Score(TRUE, 0, 0) EXCEPT !.v.default = Bool(TRUE)]
  IN  IF field \in {Null, Const(Null)} \/ n.kids = <<>> THEN Err("shape")
      ELSE OrErr(<<EvaluateNode(field, rt)>>, LAMBDA f :
             IF f[1] = Null THEN Otherwise
             ELSE OrErr(Kids(n, rt), LAMBDA b :
                    IF \E i \in DOMAIN b : ~Is(b[i], "score") THEN Err("type")
                    ELSE LET hit == {i \in DOMAIN b : b[i].v.triggered = Bool(TRUE)}
                         IN  IF hit = {} THEN Otherwise
                             ELSE [b[Min(hit)] EXCEPT !.v.branch = Num(Min(hit) - 1),
                                     !.v.fallback = Bool(FALSE), !.v.default = Bool(FALSE)]))

-----------------------------------------------------------------------------
(* Lists of objects.                                                       *)

EvalFilterEq(n, rt) ==
  OrErr(<<evalNamedList(n, "items", rt), evalNamedString(n, "field", rt), evalNamedAny(n, "value", rt)>>,
        LAMBDA v : ListOf(SelectSeq(ObjectList(v[1].v), LAMBDA o : EqualTo(At(o.v, v[2].v), v[3]))))
EvalMapField(n, rt) ==
  OrErr(<<evalNamedList(n, "items", rt), evalNamedString(n, "field", rt)>>,
        LAMBDA v : ListOf([i \in DOMAIN v[1].v |->
                             IF Is(v[1].v[i], "object") THEN At(v[1].v[i].v, v[2].v) ELSE Null]))
EvalListCount(n, rt) == OrErr(<<evalListChildOrNamedItems(n, rt)>>, LAMBDA v : Num(Len(v[1].v)))
EvalListAggregate(n, rt) ==
  OrErr(<<evalListChildOrNamedItems(n, rt)>>, LAMBDA v : aggregateNumericList(n.fn, v[1].v))
EvalGroupCount(n, rt) ==
  OrErr(<<evalNamedList(n, "items", rt), evalNamedString(n, "field", rt)>>,
        LAMBDA v : groupCount(v[1].v, v[2].v))
EvalGroupSum(n, rt) ==
  OrErr(<<evalNamedList(n, "items", rt), evalNamedString(n, "group_field", rt),
          evalNamedString(n, "value_field", rt)>>,
        LAMBDA v : groupSum(v[1].v, v[2].v, v[3].v))
EvalObjectGet(n, rt) ==
  OrErr(<<evalNamedAny(n, "object", rt), evalNamedString(n, "key", rt)>>, LAMBDA v :
    CASE Is(v[1], "object") -> At(v[1].v, v[2].v)
      [] Is(v[1], "score") /\ Len(v[2].v) = 1 /\ Head(v[2].v) \in DOMAIN v[1].v -> v[1].v[Head(v[2].v)]
      [] OTHER -> Err("type"))

-----------------------------------------------------------------------------
(* Aggregates: the filter formula becomes a filter of the remote query.    *)

Aggregates == {"count", "count_distinct", "sum", "avg", "min", "max"}
normalizeAggregateName(name) ==
  CASE name = <<"COUNT">> -> "count" [] name = <<"COUNT_DISTINCT">> -> "count_distinct"
    [] name = <<"SUM">> -> "sum" [] name = <<"AVG">> -> "avg"
    [] name = <<"MIN">> -> "min" [] name = <<"MAX">> -> "max" [] OTHER -> "none"

\* "" when the operator cannot be pushed down.
normalizeAggregateFilterOperator(op, value) ==
  CASE op \in {<<"=">>, <<"eq">>} -> IF value = Null THEN "is_null" ELSE "eq"
    [] op \in {<<"!=">>, <<"neq">>} -> IF value = Null THEN "is_not_null" ELSE "neq"
    [] op \in {<<">">>, <<"gt">>} -> "gt"
    [] op \in {<<">=">>, <<"gte">>} -> "gte"
    [] op \in {<<"<">>, <<"lt">>} -> "lt"
    [] op \in {<<"<=">>, <<"lte">>} -> "lte"
    [] op = <<"isinlist">> /\ Is(value, "list") -> "in"
    [] op = <<"stringstartswith">> /\ Is(value, "str") -> "starts_with"
    [] OTHER -> ""

\* A filter expression as a value, an error, or "off" when unsupported.  Only
\* the first child that is not a filter counts.
RECURSIVE parseAggregateFilterExpr(_, _)
parseAggregateFilterExpr(n, rt) ==
  LET fn == canonicalFunctionName(n.fn)
      kids == [i \in DOMAIN n.kids |-> parseAggregateFilterExpr(n.kids[i], rt)]
      Given == IF "value" \in DOMAIN n.named THEN EvaluateNode(n.named["value"], rt) ELSE Null
  IN  CASE fn = "filter" ->
             OrErr(<<evalNamedString(n, "fieldName", rt), evalNamedString(n, "operator", rt), Given>>,
                   LAMBDA v : LET op == normalizeAggregateFilterOperator(v[2].v, v[3])
                              IN  IF op = "" THEN Err("off")
                                  ELSE [k |-> "expr", f |-> Pred(v[1].v, op, v[3])])
        [] fn \in {"list", "and", "or"} ->
             OrErr(kids, LAMBDA e : [k |-> "expr", f |-> Grp(IF fn = "list" THEN "and" ELSE fn,
                                                             [i \in DOMAIN e |-> e[i].f])])
        [] fn = "not" ->
             IF Len(n.kids) # 1 THEN Err("off")
             ELSE OrErr(kids, LAMBDA e : [k |-> "expr", f |-> Grp("not", <<e[1].f>>)])
        [] OTHER -> Err("off")

\* A disjunction of equalities on one field is a membership.
\* (Mutant: a test for nil collapses too, into a membership of NULL.)
CollapsibleNullTest(kids) ==
  /\ Len(kids) >= 2
  /\ \A i \in DOMAIN kids : kids[i].kind = "predicate" /\ kids[i].op \in {"eq", "is_null"}
  /\ \A i \in DOMAIN kids : kids[i].field = kids[1].field
Collapsible(kids) ==
  /\ Len(kids) >= 2
  /\ \A i \in DOMAIN kids : kids[i].kind = "predicate" /\ kids[i].op = "eq"
  /\ \A i \in DOMAIN kids : kids[i].field = kids[1].field
collapseOrEqualsToIn(kids) ==
  Pred(kids[1].field, "in", ListOf([i \in DOMAIN kids |-> kids[i].value]))
RECURSIVE normalizeAggregateFilterExpr(_)
normalizeAggregateFilterExpr(f) ==
  IF f.kind = "predicate" THEN f
  ELSE LET kids == [i \in DOMAIN f.kids |-> normalizeAggregateFilterExpr(f.kids[i])]
       IN  IF f.op = "or" /\ Collapsible(kids) THEN collapseOrEqualsToIn(kids) ELSE Grp(f.op, kids)

CompileAggregateQuery(n, rt) ==
  OrErr(<<evalNamedString(n, "tableName", rt), evalNamedString(n, "fieldName", rt),
          evalNamedString(n, "aggregator", rt)>>, LAMBDA v :
    LET name == normalizeAggregateName(v[3].v)
        Query(filter) == [k |-> "query", q |-> [table |-> Head(v[1].v), aggregate |-> name,
                                                field |-> v[2].v, filter |-> filter]]
    IN  IF name \notin Aggregates THEN Err("off")
        ELSE IF "filters" \notin DOMAIN n.named THEN Query(<<>>)
        ELSE OrErr(<<parseAggregateFilterExpr(n.named["filters"], rt)>>,
                   LAMBDA e : Query(<<normalizeAggregateFilterExpr(e[1].f)>>)))

\* The query is answered by the ingestion service or not at all: rt.pushdown
\* is the set of aggregates it may answer, empty when pushdown is disabled.
evaluateMarbleAggregator(n, rt) ==
  OrErr(<<evalNamedString(n, "tableName", rt), evalNamedString(n, "fieldName", rt),
          evalNamedString(n, "aggregator", rt)>>, LAMBDA v :
    IF rt.pushdown = {} THEN Err("off")
    ELSE OrErr(<<CompileAggregateQuery(n, rt)>>, LAMBDA c :
           CASE c[1].q.aggregate \notin rt.pushdown -> Err("off")
             [] c[1].q.aggregate \in rt.pushdown /\ ~rt.up -> Err("remote")
             [] c[1].q.aggregate \in rt.pushdown /\ rt.up -> AggregateRecords(c[1].q, rt.rows)))

-----------------------------------------------------------------------------
(* EvaluateNode and EvaluateFormula.                                       *)

EvaluateNode(n, rt) ==
  LET fn == canonicalFunctionName(n.fn)
  IN  CASE fn \in {"", "constant"} -> n.c
        [] fn = "field_ref" -> EvalFieldRef(n, rt)
        [] fn = "and" -> EvalAnd(n, rt)
        [] fn = "or" -> EvalOr(n, rt)
        [] fn = "not" -> EvalNot(n, rt)
        [] fn \in {"eq", "neq", "gt", "gte", "lt", "lte"} -> EvalComparison(n, rt)
        [] fn \in {"contains", "string_not_contain"} -> EvalContains(n, rt)
        [] fn = "in" -> EvalIn(n, rt)
        [] fn \in {"contains_any", "contains_none"} -> EvalContainsAny(n, rt)
        [] fn \in {"starts_with", "ends_with"} -> EvalAffix(n, rt)
        [] fn \in {"lower", "upper"} -> EvalCase(n, rt)
        [] fn \in {"is_null", "is_empty", "is_not_empty"} -> EvalNullTest(n, rt)
        [] fn = "coalesce" -> EvalCoalesce(n, rt)
        [] fn \in {"add", "subtract", "multiply", "divide"} -> EvalArithmetic(n, rt)
        [] fn = "in_custom_list" -> EvalInCustomList(n, rt)
        [] fn = "record_has_tag" -> EvalRecordHasTag(n, rt)
        [] fn = "record_risk_level" -> EvalRecordRiskLevel(n, rt)
        [] fn = "has_ip_flag" -> EvalHasIPFlag(n, rt)
        [] fn \in {"ip_country", "ip_geo_found"} -> EvalGeoIP(n, rt)
        [] fn = "past_decision_count" -> EvalPastDecisionCount(n, rt)
        [] fn \in {"related_count", "related_records"} -> EvalBroadRead(n, rt)
        [] fn = "related_field" -> EvalRelatedField(n, rt)
        [] fn = "payload" -> EvalPayload(n, rt)
        [] fn = "list" -> EvalList(n, rt)
        [] fn = "filter" -> EvalFilter(n, rt)
        [] fn = "aggregator" -> evaluateMarbleAggregator(n, rt)
        [] fn = "database_access" -> evaluateDatabaseAccess(n, rt)
        [] fn = "time_now" -> EvalTimeNow(n, rt)
        [] fn = "parse_time" -> EvalParseTime(n, rt)
        [] fn = "timestamp_extract" -> EvalTimestampExtract(n, rt)
        [] fn = "time_add" -> EvalTimeAdd(n, rt)
        [] fn = "custom_list_access" -> EvalCustomListAccess(n, rt)
        [] fn = "fuzzy_match" -> EvalFuzzyMatch(n, rt)
        [] fn = "fuzzy_match_any_of" -> EvalFuzzyMatchAnyOf(n, rt)
        [] fn = "fuzzy_match_filter_options" -> EvalFuzzyOptions(n, rt)
        [] fn \in {"is_in_list", "is_not_in_list"} -> EvalIsInList(n, rt)
        [] fn = "is_multiple_of" -> EvalIsMultipleOf(n, rt)
        [] fn = "string_concat" -> EvalStringConcat(n, rt)
        [] fn = "string_template" -> EvalStringTemplate(n, rt)
        [] fn = "score_computation" -> EvalScoreComputation(n, rt)
        [] fn = "switch" -> EvalSwitch(n, rt)
        [] fn = "filter_eq" -> EvalFilterEq(n, rt)
        [] fn = "map_field" -> EvalMapField(n, rt)
        [] fn = "list_count" -> EvalListCount(n, rt)
        [] fn \in {"sum", "avg", "min", "max"} -> EvalListAggregate(n, rt)
        [] fn = "group_count" -> EvalGroupCount(n, rt)
        [] fn = "group_sum" -> EvalGroupSum(n, rt)
        [] fn = "object_get" -> EvalObjectGet(n, rt)
        [] OTHER -> Err("shape")

OnlyBoolean(x) == IF Is(x, "err") \/ Is(x, "bool") THEN x ELSE Err("type")
EvaluateFormula(n, rt) == OnlyBoolean(EvaluateNode(n, rt))

-----------------------------------------------------------------------------
(* The same with evidence: every child that counts is evaluated and shown, *)
(* the ones a connective never reached are marked as skipped.              *)

RECURSIVE skippedEvaluation(_)
skippedEvaluation(n) ==
  [value |-> Null, skipped |-> TRUE, kids |-> [i \in DOMAIN n.kids |-> skippedEvaluation(n.kids[i])]]

Shown(value, kids) == [value |-> value, skipped |-> FALSE, kids |-> kids]

RECURSIVE evaluateNodeWithEvidence(_, _)

\* The children up to the first at which Stops(value) holds, then skipped ones.
UpTo(n, rt, Stops(_)) ==
  LET e == [i \in DOMAIN n.kids |-> evaluateNodeWithEvidence(n.kids[i], rt)]
      stop == {i \in DOMAIN e : Stops(e[i].value)}
      last == IF stop = {} THEN Len(e) ELSE Min(stop)
  IN  [i \in DOMAIN e |-> IF i <= last THEN e[i] ELSE skippedEvaluation(n.kids[i])]

evaluateNodeWithEvidence(n, rt) ==
  LET fn == canonicalFunctionName(n.fn)
      Logic(stop) == LET e == UpTo(n, rt, LAMBDA x : x # Bool(~stop))
                     IN  Shown(Connective(e, rt, stop, LAMBDA c, r : IF c.skipped THEN Bool(~stop) ELSE c.value), e)
      all == [i \in DOMAIN n.kids |-> evaluateNodeWithEvidence(n.kids[i], rt)]
      named == SetToSeq({evaluateNodeWithEvidence(n.named[a], rt).value : a \in DOMAIN n.named})
  IN  CASE fn \in {"", "constant"} -> Shown(n.c, <<>>)
        [] fn = "and" -> Logic(FALSE)
        [] fn = "or" -> Logic(TRUE)
        [] fn = "not" -> IF Len(n.kids) # 1 THEN Shown(Err("shape"), <<>>)
                         ELSE Shown(IF all[1].value.k \in {"bool", "err"} THEN Negate(all[1].value)
                                    ELSE Err("type"), all)
        [] fn = "coalesce" -> LET e == UpTo(n, rt, LAMBDA x : x # Null)
                              IN  Shown(FirstNonNull(e, rt, LAMBDA c, r : c.value), e)
        [] OTHER -> Shown(OrErr([i \in DOMAIN all |-> all[i].value] \o named,
                                LAMBDA v : EvaluateNode(n, rt)), all)

EvaluateFormulaWithEvidence(n, rt) == OnlyBoolean(evaluateNodeWithEvidence(n, rt).value)
=============================================================================
