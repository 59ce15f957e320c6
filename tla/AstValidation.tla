--------------------------- MODULE AstValidation ---------------------------
(***************************************************************************)
(* ValidateNode of the decision engine (runtime/ast_eval/validation.go):   *)
(* the type a formula has on a table of the tenant's model, or that it is  *)
(* refused.  A verdict is [t, ok]; a refused node has the type "unknown"   *)
(* (the messages are left out).  "unknown" with ok is a node whose type    *)
(* cannot be told.  m maps each table to its fields (with their types) and *)
(* its single links.                                                       *)
(***************************************************************************)
EXTENDS AstEvaluator

Refused == [t |-> "unknown", ok |-> FALSE]
Typed(t) == [t |-> t, ok |-> TRUE]
Verdict(good, t) == IF good THEN Typed(t) ELSE Refused

\* The Go zero value of a missing child: a constant nil.
Child(n, name) == IF name \in DOMAIN n.named THEN n.named[name] ELSE Const(Null)

inferConstantType(x) ==
  CASE x.k = "null" -> "null" [] x.k = "bool" -> "bool" [] x.k = "str" -> "string"
    [] x.k = "num" -> "number" [] x.k = "list" -> "list" [] x.k = "object" -> "object"
    [] OTHER -> "unknown"

\* The spellings of a field's type.
mapFieldType(t) ==
  CASE t \in {"string", "text"} -> "string"
    [] t \in {"int", "integer", "float", "number", "numeric"} -> "number"
    [] t \in {"bool", "boolean"} -> "bool"
    [] t \in {"timestamp", "datetime"} -> "timestamp"
    [] t \in {"ip_address", "inet", "ip"} -> "ip_address"
    [] OTHER -> "unknown"

comparisonTypesCompatible(l, r) == l = r \/ {l, r} = {"ip_address", "string"}

RECURSIVE ValidateNode(_, _, _)

Type(n, m, table) == ValidateNode(n, m, table).t
Valid(n, m, table) == ValidateNode(n, m, table).ok
KidsValid(n, m, table) == \A i \in DOMAIN n.kids : Valid(n.kids[i], m, table)

\* A required named child: present, valid, of the wanted type.
validateRequiredNamedChildPresence(n, m, table, name) ==
  name \in DOMAIN n.named /\ Valid(n.named[name], m, table)
validateRequiredNamedChildType(n, m, table, name, want) ==
  validateRequiredNamedChildPresence(n, m, table, name) /\ Type(n.named[name], m, table) = want
validateNamedStringArgs(n, m, table, names) ==
  n.kids = <<>> /\ \A name \in names : validateRequiredNamedChildType(n, m, table, name, "string")
OptionalNamed(n, m, table, name, want) ==
  name \in DOMAIN n.named => validateRequiredNamedChildType(n, m, table, name, want)

\* The text of a constant child, as a sequence of at most one.
constantStringNode(n) ==
  IF canonicalFunctionName(n.fn) \in {"", "constant"} /\ Is(n.c, "str") THEN <<n.c.v>> ELSE <<>>
\* Holds of the constant text of a named child, if it is one.
WhenConstant(n, name, P(_)) ==
  LET c == constantStringNode(Child(n, name)) IN c # <<>> => P(c[1])

TypeOfField(m, table, field) ==
  IF field \in DOMAIN m[table].fields THEN Typed(mapFieldType(m[table].fields[field])) ELSE Refused

\* The table at the end of a path of single links, "" when there is none.
RECURSIVE ResolveRelatedPathTable(_, _, _)
ResolveRelatedPathTable(m, table, path) ==
  CASE path = <<>> -> table
    [] path # <<>> /\ Head(path) \notin DOMAIN m[table].links -> ""
    [] path # <<>> /\ Head(path) \in DOMAIN m[table].links ->
         LET parent == m[table].links[Head(path)].parent
         IN  IF parent \in DOMAIN m THEN ResolveRelatedPathTable(m, parent, Tail(path)) ELSE ""

-----------------------------------------------------------------------------
(* Logic, comparison, text, arithmetic.                                    *)

ValidateFieldRef(n, m, table) ==
  IF "field" \in DOMAIN n.named /\ Is(n.named["field"].c, "str") /\ n.named["field"].c.v # <<>>
  THEN TypeOfField(m, table, n.named["field"].c.v) ELSE Refused

ValidateLogic(n, m, table) ==
  Verdict(/\ n.kids # <<>>
          /\ \A i \in DOMAIN n.kids : Valid(n.kids[i], m, table) /\ Type(n.kids[i], m, table) = "bool", "bool")
ValidateNot(n, m, table) ==
  Verdict(Len(n.kids) = 1 /\ Type(n.kids[1], m, table) = "bool" /\ KidsValid(n, m, table), "bool")

\* The order of the types: any for the functions spelled eq and neq.
ValidateComparison(n, m, table) ==
  Verdict(/\ Len(n.kids) = 2
          /\ KidsValid(n, m, table)
          /\ LET l == Type(n.kids[1], m, table)
                 r == Type(n.kids[2], m, table)
             IN  /\ "unknown" \notin {l, r}
                 /\ comparisonTypesCompatible(l, r)
                 /\ n.fn \in {"eq", "neq"} \/ l \in {"number", "timestamp", "string"}, "bool")

\* Exactly two valid children of the given types.
Operands(n, m, table, l, r) ==
  /\ Len(n.kids) = 2 /\ KidsValid(n, m, table)
  /\ Type(n.kids[1], m, table) \in l /\ Type(n.kids[2], m, table) \in r
Types == {"null", "bool", "string", "number", "timestamp", "ip_address", "list", "object", "unknown"}

ValidateContains(n, m, table) ==
  Verdict(Operands(n, m, table, {"string"}, {"string"}) \/ Operands(n, m, table, {"list"}, Types), "bool")
ValidateStringNotContain(n, m, table) == Verdict(Operands(n, m, table, {"string"}, {"string"}), "bool")
ValidateIn(n, m, table) == Verdict(Operands(n, m, table, Types, {"list"}), "bool")
ValidateContainsAny(n, m, table) == Verdict(Operands(n, m, table, {"string"}, {"list"}), "bool")
ValidateAffix(n, m, table) == Verdict(Operands(n, m, table, {"string"}, {"string"}), "bool")
ValidateCase(n, m, table) ==
  Verdict(Len(n.kids) = 1 /\ KidsValid(n, m, table) /\ Type(n.kids[1], m, table) = "string", "string")
ValidateIsNull(n, m, table) == Verdict(Len(n.kids) = 1 /\ KidsValid(n, m, table), "bool")
ValidateIsEmpty(n, m, table) == Verdict(Len(n.kids) = 1 /\ KidsValid(n, m, table), "bool")

\* Children of one type, nulls and untellable ones aside.
ValidateCoalesce(n, m, table) ==
  LET types == SelectSeq([i \in DOMAIN n.kids |-> Type(n.kids[i], m, table)], LAMBDA t : t # "null")
      known == {types[i] : i \in DOMAIN types} \ {"unknown"}
  IN  IF n.kids = <<>> \/ ~KidsValid(n, m, table) \/ Cardinality(known) > 1 THEN Refused
      ELSE Typed(IF known = {} THEN "null" ELSE CHOOSE t \in known : TRUE)
\* (Mutant: the operands' types are not looked at.)
ValidateArithmeticUntyped(n, m, table) == Verdict(Operands(n, m, table, Types, Types), "number")
ValidateArithmetic(n, m, table) == Verdict(Operands(n, m, table, {"number"}, {"number"}), "number")

-----------------------------------------------------------------------------
(* Reads outside the record.                                               *)

ValidateRecordRiskLevel(n, m, table) == Verdict(n.kids = <<>> /\ DOMAIN n.named = {}, "string")
ValidateHasIPFlag(n, m, table) ==
  Verdict(/\ n.kids = <<>>
          /\ validateRequiredNamedChildPresence(n, m, table, "ip")
          /\ Type(n.named["ip"], m, table) \in {"ip_address", "string"}
          /\ validateRequiredNamedChildType(n, m, table, "flag", "string"), "bool")
\* (Mutant: every geolocation function is a text.)
validateGeoIPText(n, m, table) ==
  Verdict(Len(n.kids) = 1 /\ KidsValid(n, m, table) /\ Type(n.kids[1], m, table) = "ip_address", "string")
validateGeoIPFunction(n, m, table) ==
  Verdict(Len(n.kids) = 1 /\ KidsValid(n, m, table) /\ Type(n.kids[1], m, table) = "ip_address",
          IF canonicalFunctionName(n.fn) = "ip_geo_found" THEN "bool" ELSE "string")
ValidatePastDecisionCount(n, m, table) ==
  Verdict(n.kids = <<>> /\ OptionalNamed(n, m, table, "outcome", "string"), "number")

\* The constant names of a table and of its fields must exist.
NamedTable(n, name, m, P(_)) == WhenConstant(n, name, LAMBDA t : Head(t) \in DOMAIN m /\ P(Head(t)))
NamedField(n, name, m, t) == WhenConstant(n, name, LAMBDA f : f \in DOMAIN m[t].fields)

ValidateRelatedCount(n, m, table) ==
  Verdict(/\ validateNamedStringArgs(n, m, table, {"object_type", "field"})
          /\ Valid(Child(n, "equals"), m, table)
          /\ NamedTable(n, "object_type", m, LAMBDA t : NamedField(n, "field", m, t)), "number")
ValidateRelatedRecords(n, m, table) ==
  Verdict(/\ validateNamedStringArgs(n, m, table, {"object_type"})
          /\ \A name \in {"match_field", "timestamp_field"} : OptionalNamed(n, m, table, name, "string")
          /\ \A name \in {"within_hours", "limit"} : OptionalNamed(n, m, table, name, "number")
          /\ Valid(Child(n, "equals"), m, table)
          /\ NamedTable(n, "object_type", m, LAMBDA t :
               /\ NamedField(n, "match_field", m, t)
               /\ WhenConstant(n, "timestamp_field",
                               LAMBDA f : TypeOfField(m, t, f) = Typed("timestamp"))), "list")
ValidateRelatedField(n, m, table) ==
  IF ~validateNamedStringArgs(n, m, table, {"path", "field"}) THEN Refused
  ELSE LET path == IF Is(n.named["path"].c, "str") THEN n.named["path"].c.v ELSE <<>>
           field == IF Is(n.named["field"].c, "str") THEN n.named["field"].c.v ELSE <<>>
           target == IF path = <<>> THEN "" ELSE ResolveRelatedPathTable(m, table, path)
       IN  IF target = "" THEN Refused ELSE TypeOfField(m, target, field)
ValidatePayload(n, m, table) ==
  IF Len(n.kids) = 1 /\ constantStringNode(n.kids[1]) # <<>>
  THEN TypeOfField(m, table, n.kids[1].c.v) ELSE Refused
ValidateList(n, m, table) == Verdict(KidsValid(n, m, table), "list")

validateMarbleFilterOperator(type, op) ==
  \/ op \in {<<"=">>, <<"!=">>, <<"isempty">>, <<"isnotempty">>}
  \/ op \in {<<">">>, <<">=">>, <<"<">>, <<"<=">>} /\ mapFieldType(type) \in {"number", "string", "timestamp"}
  \/ /\ op \in {<<"isinlist">>, <<"isnotinlist">>, <<"stringstartswith">>, <<"stringendswith">>}
     /\ mapFieldType(type) = "string"
ValidateFilter(n, m, table) ==
  Verdict(/\ n.kids = <<>>
          /\ \A name \in {"tableName", "fieldName", "operator"} :
               validateRequiredNamedChildType(n, m, table, name, "string")
          /\ NamedTable(n, "tableName", m, LAMBDA t : WhenConstant(n, "fieldName", LAMBDA f :
               /\ f \in DOMAIN m[t].fields
               /\ WhenConstant(n, "operator", LAMBDA op : validateMarbleFilterOperator(m[t].fields[f], op))))
          /\ Valid(Child(n, "value"), m, table), "object")

\* The type of an aggregate of a field, "" when the field has none.
marbleAggregatorResultType(type, name) ==
  LET t == mapFieldType(type)
  IN  CASE name \in {<<"COUNT">>, <<"COUNT_DISTINCT">>} -> "number"
        [] name \in {<<"SUM">>, <<"AVG">>, <<"STDDEV">>, <<"PCTILE">>, <<"MEDIAN">>} /\ t = "number" -> "number"
        [] name \in {<<"MIN">>, <<"MAX">>} /\ t \in {"number", "timestamp"} -> t
        [] OTHER -> ""
ValidateAggregator(n, m, table) ==
  LET names == {"tableName", "fieldName", "aggregator"}
      Text(name) == constantStringNode(Child(n, name))
      t == IF Text("tableName") # <<>> THEN Head(Text("tableName")[1]) ELSE ""
      told == \A name \in names : Text(name) # <<>>
      result == marbleAggregatorResultType(m[t].fields[Text("fieldName")[1]], Text("aggregator")[1])
      good == /\ n.kids = <<>>
              /\ \A name \in names : validateRequiredNamedChildType(n, m, table, name, "string")
              /\ OptionalNamed(n, m, table, "filters", "list")
              /\ NamedTable(n, "tableName", m, LAMBDA x : NamedField(n, "fieldName", m, x))
  IN  CASE ~good -> Refused
        [] good /\ told -> Verdict(result # "", result)
        [] good /\ ~told -> Typed("unknown")

\* The texts of a constant list; no path at all when it is computed.
validateNamedStringListArg(n, m, table, name) ==
  /\ validateRequiredNamedChildType(n, m, table, name, "list")
  /\ LET c == n.named[name] IN (c.fn \in {"", "constant"}) => \A i \in DOMAIN c.c.v : Is(c.c.v[i], "str")
ValidateDatabaseAccess(n, m, table) ==
  IF ~validateNamedStringArgs(n, m, table, {"tableName", "fieldName"}) \/ ~validateNamedStringListArg(n, m, table, "path")
  THEN Refused
  ELSE LET c == n.named["path"]
           path == IF c.fn \in {"", "constant"} THEN [i \in DOMAIN c.c.v |-> Head(c.c.v[i].v)] ELSE <<>>
           target == ResolveRelatedPathTable(m, table, path)
           field == constantStringNode(n.named["fieldName"])
       IN  IF target = "" \/ field = <<>> THEN Refused ELSE TypeOfField(m, target, field[1])

-----------------------------------------------------------------------------
(* Time, fuzzy matching, text building.                                    *)

\* A missing timestampField is a constant nil, and passes.
ValidateTime(n, m, table) ==
  Verdict(/\ canonicalFunctionName(n.fn) = "time_add" =>
               /\ \A name \in {"duration", "sign"} : validateRequiredNamedChildType(n, m, table, name, "string")
               /\ Valid(Child(n, "timestampField"), m, table)
          /\ canonicalFunctionName(n.fn) = "parse_time" =>
               Len(n.kids) = 1 /\ KidsValid(n, m, table) /\ Type(n.kids[1], m, table) = "string", "timestamp")
TimestampParts == {<<"year">>, <<"month">>, <<"day_of_month">>, <<"day_of_week">>, <<"hour">>}
ValidateTimestampExtract(n, m, table) ==
  Verdict(/\ validateRequiredNamedChildType(n, m, table, "part", "string")
          /\ validateRequiredNamedChildPresence(n, m, table, "timestamp")
          /\ WhenConstant(n, "part", LAMBDA p : p \in TimestampParts), "number")
ValidateFuzzyMatch(n, m, table) ==
  Verdict(/\ Operands(n, m, table, {"string"}, {"string"})
          /\ validateRequiredNamedChildType(n, m, table, "algorithm", "string"), "number")
ValidateFuzzyMatchAnyOf(n, m, table) ==
  Verdict(/\ Operands(n, m, table, {"string"}, {"list"})
          /\ validateRequiredNamedChildType(n, m, table, "algorithm", "string"), "number")
ValidateFuzzyOptions(n, m, table) ==
  Verdict(/\ validateRequiredNamedChildType(n, m, table, "algorithm", "string")
          /\ validateRequiredNamedChildType(n, m, table, "threshold", "number")
          /\ validateRequiredNamedChildType(n, m, table, "value", "string"), "object")
ValidateIsInList(n, m, table) == Verdict(Operands(n, m, table, Types, {"list"}), "bool")
ValidateIsMultipleOf(n, m, table) ==
  Verdict(/\ validateRequiredNamedChildPresence(n, m, table, "value")
          /\ validateRequiredNamedChildType(n, m, table, "divider", "number"), "bool")
Printable == {"string", "number", "null"}
ValidateStringConcat(n, m, table) ==
  Verdict(/\ KidsValid(n, m, table)
          /\ \A i \in DOMAIN n.kids : Type(n.kids[i], m, table) \in Printable
          /\ OptionalNamed(n, m, table, "with_separator", "bool")
          /\ OptionalNamed(n, m, table, "separator", "string"), "string")
ValidateStringTemplate(n, m, table) ==
  Verdict(/\ Len(n.kids) = 1 /\ KidsValid(n, m, table) /\ Type(n.kids[1], m, table) = "string"
          /\ \A name \in DOMAIN n.named :
               Valid(n.named[name], m, table) /\ Type(n.named[name], m, table) \in Printable, "string")

-----------------------------------------------------------------------------
(* Scores, and lists of objects.                                           *)

ValidateScoreComputation(n, m, table) ==
  Verdict(/\ Len(n.kids) = 1 /\ KidsValid(n, m, table) /\ Type(n.kids[1], m, table) = "bool"
          /\ validateRequiredNamedChildType(n, m, table, "modifier", "number")
          /\ OptionalNamed(n, m, table, "floor", "number"), "object")
ValidateSwitch(n, m, table) ==
  Verdict(/\ n.kids # <<>> /\ KidsValid(n, m, table)
          /\ validateRequiredNamedChildPresence(n, m, table, "field")
          /\ OptionalNamed(n, m, table, "fallback", "object")
          /\ \A i \in DOMAIN n.kids : Type(n.kids[i], m, table) = "object", "object")

ItemsAndTexts(n, m, table, texts) ==
  /\ n.kids = <<>>
  /\ validateRequiredNamedChildType(n, m, table, "items", "list")
  /\ \A name \in texts : validateRequiredNamedChildType(n, m, table, name, "string")
ValidateFilterEq(n, m, table) ==
  Verdict(ItemsAndTexts(n, m, table, {"field"}) /\ validateRequiredNamedChildPresence(n, m, table, "value"), "list")
ValidateMapField(n, m, table) == Verdict(ItemsAndTexts(n, m, table, {"field"}), "list")
ValidateGroupCount(n, m, table) == Verdict(ItemsAndTexts(n, m, table, {"field"}), "object")
ValidateGroupSum(n, m, table) == Verdict(ItemsAndTexts(n, m, table, {"group_field", "value_field"}), "object")
ValidateObjectGet(n, m, table) ==
  Verdict(/\ n.kids = <<>>
          /\ validateRequiredNamedChildType(n, m, table, "object", "object")
          /\ validateRequiredNamedChildType(n, m, table, "key", "string"), "unknown")
validateListInput(n, m, table) ==
  IF "items" \in DOMAIN n.named
  THEN Verdict(validateRequiredNamedChildType(n, m, table, "items", "list"), "number")
  ELSE Verdict(Len(n.kids) = 1 /\ KidsValid(n, m, table) /\ Type(n.kids[1], m, table) = "list", "number")

ValidateNode(n, m, table) ==
  LET fn == canonicalFunctionName(n.fn)
  IN  CASE table \notin DOMAIN m -> Refused
        [] fn \in {"", "constant"} -> Typed(inferConstantType(n.c))
        [] fn = "field_ref" -> ValidateFieldRef(n, m, table)
        [] fn \in {"and", "or"} -> ValidateLogic(n, m, table)
        [] fn = "not" -> ValidateNot(n, m, table)
        [] fn \in {"eq", "neq", "gt", "gte", "lt", "lte"} -> ValidateComparison(n, m, table)
        [] fn = "contains" -> ValidateContains(n, m, table)
        [] fn = "string_not_contain" -> ValidateStringNotContain(n, m, table)
        [] fn = "in" -> ValidateIn(n, m, table)
        [] fn \in {"contains_any", "contains_none"} -> ValidateContainsAny(n, m, table)
        [] fn \in {"starts_with", "ends_with"} -> ValidateAffix(n, m, table)
        [] fn \in {"lower", "upper"} -> ValidateCase(n, m, table)
        [] fn = "is_null" -> ValidateIsNull(n, m, table)
        [] fn \in {"is_empty", "is_not_empty"} -> ValidateIsEmpty(n, m, table)
        [] fn = "coalesce" -> ValidateCoalesce(n, m, table)
        [] fn \in {"add", "subtract", "multiply", "divide"} -> ValidateArithmetic(n, m, table)
        [] fn = "in_custom_list" -> Verdict(validateNamedStringArgs(n, m, table, {"list", "value"}), "bool")
        [] fn = "record_has_tag" -> Verdict(validateNamedStringArgs(n, m, table, {"tag"}), "bool")
        [] fn = "record_risk_level" -> ValidateRecordRiskLevel(n, m, table)
        [] fn = "has_ip_flag" -> ValidateHasIPFlag(n, m, table)
        [] fn \in {"ip_country", "ip_geo_found"} -> validateGeoIPFunction(n, m, table)
        [] fn = "past_decision_count" -> ValidatePastDecisionCount(n, m, table)
        [] fn = "related_count" -> ValidateRelatedCount(n, m, table)
        [] fn = "related_records" -> ValidateRelatedRecords(n, m, table)
        [] fn = "related_field" -> ValidateRelatedField(n, m, table)
        [] fn = "payload" -> ValidatePayload(n, m, table)
        [] fn = "list" -> ValidateList(n, m, table)
        [] fn = "filter" -> ValidateFilter(n, m, table)
        [] fn = "aggregator" -> ValidateAggregator(n, m, table)
        [] fn = "database_access" -> ValidateDatabaseAccess(n, m, table)
        [] fn \in {"time_now", "parse_time", "time_add"} -> ValidateTime(n, m, table)
        [] fn = "timestamp_extract" -> ValidateTimestampExtract(n, m, table)
        [] fn = "fuzzy_match" -> ValidateFuzzyMatch(n, m, table)
        [] fn = "fuzzy_match_any_of" -> ValidateFuzzyMatchAnyOf(n, m, table)
        [] fn = "fuzzy_match_filter_options" -> ValidateFuzzyOptions(n, m, table)
        [] fn = "custom_list_access" -> Verdict(validateNamedStringArgs(n, m, table, {"customListId"}), "list")
        [] fn \in {"is_in_list", "is_not_in_list"} -> ValidateIsInList(n, m, table)
        [] fn = "is_multiple_of" -> ValidateIsMultipleOf(n, m, table)
        [] fn = "string_concat" -> ValidateStringConcat(n, m, table)
        [] fn = "string_template" -> ValidateStringTemplate(n, m, table)
        [] fn = "score_computation" -> ValidateScoreComputation(n, m, table)
        [] fn = "switch" -> ValidateSwitch(n, m, table)
        [] fn = "filter_eq" -> ValidateFilterEq(n, m, table)
        [] fn = "map_field" -> ValidateMapField(n, m, table)
        [] fn \in {"list_count", "sum", "avg", "min", "max"} -> validateListInput(n, m, table)
        [] fn = "group_count" -> ValidateGroupCount(n, m, table)
        [] fn = "group_sum" -> ValidateGroupSum(n, m, table)
        [] fn = "object_get" -> ValidateObjectGet(n, m, table)
        [] OTHER -> Refused

(***************************************************************************)
(* SupportedFunctionCatalog (runtime/ast_eval/catalog.go): the functions a *)
(* rule author is offered, each with the type it is said to return and its *)
(* example.  Names are in lower case; the examples read the fields n (a    *)
(* number), s (a text), t (a timestamp), ip (an address) of the table tx   *)
(* and its link acct.                                                      *)
(***************************************************************************)
C(x) == Const(x)
W(w) == Const(Word(w))
Fn(fn, kids) == Node(fn, kids, NoNamed)
FnNamed(fn, named) == Node(fn, <<>>, named)
Payload(f) == Fn("payload", <<W(f)>>)
FieldRef(f) == FnNamed("field_ref", [field |-> W(f)])
Entry(ret, example) == [ret |-> ret, example |-> example]

booleanFunc(fn, kids) == fn :> Entry("bool", Fn(fn, kids))
comparisonFunc(fn) == fn :> Entry("bool", Fn(fn, <<FieldRef("n"), C(Num(1))>>))
arithmeticFunc(fn) == fn :> Entry("number", Fn(fn, <<FieldRef("n"), C(Num(2))>>))
geoIPFunc(fn, ret) == fn :> Entry(ret, Fn(fn, <<Payload("ip")>>))
Texts == Fn("list", <<W("a"), W("b")>>)

CatalogOperators ==
  [constant |-> Entry("unknown", [C(Num(2)) EXCEPT !.fn = "constant"]),
   field_ref |-> Entry("unknown", FieldRef("n")),
   in |-> Entry("bool", Fn("in", <<W("a"), C(ListOf(<<Word("a"), Word("b")>>))>>)),
   is_null |-> Entry("bool", Fn("is_null", <<FieldRef("s")>>)),
   isempty |-> Entry("bool", Fn("isempty", <<Payload("s")>>)),
   isnotempty |-> Entry("bool", Fn("isnotempty", <<Payload("s")>>)),
   coalesce |-> Entry("unknown", Fn("coalesce", <<FieldRef("s"), FieldRef("s")>>)),
   stringnotcontain |-> Entry("bool", Fn("stringnotcontain", <<W("a"), W("b")>>)),
   contains |-> Entry("bool", Fn("contains", <<W("a"), W("b")>>)),
   containsanyof |-> Entry("bool", Fn("containsanyof", <<W("a"), Texts>>)),
   containsnoneof |-> Entry("bool", Fn("containsnoneof", <<W("a"), Texts>>)),
   isnotinlist |-> Entry("bool", Fn("isnotinlist", <<W("a"), Texts>>)),
   starts_with |-> Entry("bool", Fn("starts_with", <<W("a"), W("b")>>)),
   ends_with |-> Entry("bool", Fn("ends_with", <<W("a"), W("b")>>)),
   lower |-> Entry("string", Fn("lower", <<W("A")>>)),
   upper |-> Entry("string", Fn("upper", <<W("a")>>))]
  @@ booleanFunc("and", <<Fn("eq", <<W("a"), W("a")>>), C(Bool(TRUE))>>)
  @@ booleanFunc("or", <<C(Bool(FALSE)), C(Bool(TRUE))>>) @@ booleanFunc("not", <<C(Bool(FALSE))>>)
  @@ comparisonFunc("eq") @@ comparisonFunc("neq") @@ comparisonFunc("gt") @@ comparisonFunc("gte")
  @@ comparisonFunc("lt") @@ comparisonFunc("lte")
  @@ arithmeticFunc("add") @@ arithmeticFunc("subtract") @@ arithmeticFunc("multiply") @@ arithmeticFunc("divide")

InTx(named) == [tableName |-> W("tx")] @@ named
CatalogReads ==
  [in_custom_list |-> Entry("bool", FnNamed("in_custom_list", [list |-> W("blocked"), value |-> FieldRef("s")])),
   record_has_tag |-> Entry("bool", FnNamed("record_has_tag", [tag |-> W("vip")])),
   record_risk_level |-> Entry("string", Fn("record_risk_level", <<>>)),
   has_ip_flag |-> Entry("bool", FnNamed("has_ip_flag", [ip |-> FieldRef("ip"), flag |-> W("tor")])),
   past_decision_count |-> Entry("number", FnNamed("past_decision_count", [outcome |-> W("review")])),
   related_count |-> Entry("number", FnNamed("related_count",
                       [object_type |-> W("tx"), field |-> W("s"), equals |-> FieldRef("s")])),
   related_field |-> Entry("unknown", FnNamed("related_field", [path |-> W("acct"), field |-> W("s")])),
   payload |-> Entry("unknown", Payload("n")),
   databaseaccess |-> Entry("unknown", FnNamed("databaseaccess",
                        InTx([fieldName |-> W("s"), path |-> C(ListOf(<<Word("acct")>>))]))),
   list |-> Entry("list", Texts),
   filter |-> Entry("object", FnNamed("filter", InTx([fieldName |-> W("t"), operator |-> W("<"),
                value |-> FnNamed("timeadd", [timestampField |-> Payload("t"), duration |-> W("PT1H"), sign |-> W("-")])]))),
   aggregator |-> Entry("unknown", FnNamed("aggregator", InTx([fieldName |-> W("n"), aggregator |-> W("SUM"),
                    filters |-> Fn("list", <<FnNamed("filter", InTx([fieldName |-> W("s"), operator |-> W("="),
                                                                     value |-> Payload("s")]))>>)])))]
  @@ geoIPFunc("ipcountry", "string") @@ geoIPFunc("ipgeofound", "bool")

CatalogFunctions ==
  [timeadd |-> Entry("timestamp", FnNamed("timeadd", [timestampField |-> Fn("timenow", <<>>),
                                                     duration |-> W("PT1H"), sign |-> W("-")])),
   timenow |-> Entry("timestamp", Fn("timenow", <<>>)),
   parsetime |-> Entry("timestamp", Fn("parsetime", <<W("@30")>>)),
   timestampextract |-> Entry("number", FnNamed("timestampextract", [timestamp |-> Payload("t"), part |-> W("hour")])),
   fuzzymatch |-> Entry("number", Node("fuzzymatch", <<W("a"), W("b")>>, [algorithm |-> W("ratio")])),
   fuzzymatchanyof |-> Entry("number", Node("fuzzymatchanyof", <<W("a"), Texts>>, [algorithm |-> W("token_set_ratio")])),
   fuzzymatchoptions |-> Entry("object", FnNamed("fuzzymatchoptions",
                           [algorithm |-> W("ratio"), threshold |-> C(Num(85)), value |-> W("a")])),
   ismultipleof |-> Entry("bool", FnNamed("ismultipleof", [value |-> Payload("n"), divider |-> C(Num(5))])),
   stringtemplate |-> Entry("string", Node("stringtemplate", <<C(Str(<<"a", "%x%">>))>>, [x |-> W("b")])),
   stringconcat |-> Entry("string", Node("stringconcat", <<W("a"), W("b")>>,
                      [with_separator |-> C(Bool(TRUE)), separator |-> W(" ")])),
   scorecomputation |-> Entry("object", Node("scorecomputation", <<Fn(">", <<Payload("n"), C(Num(1))>>)>>,
                          [modifier |-> C(Num(20)), floor |-> C(Num(50))])),
   switch |-> Entry("object", Node("switch", <<Node("scorecomputation", <<Fn(">", <<Payload("n"), C(Num(1))>>)>>,
                                                    [modifier |-> C(Num(10))])>>, [field |-> Payload("n")]))]

Stored == FnNamed("related_records", [object_type |-> W("tx")])
Amounts == FnNamed("map_field", [items |-> Stored, field |-> W("n")])
CountByS == FnNamed("group_count", [items |-> Stored, field |-> W("s")])
CatalogLists ==
  [related_records |-> Entry("list", FnNamed("related_records",
      [object_type |-> W("tx"), match_field |-> W("s"), equals |-> FieldRef("s"),
       timestamp_field |-> W("t"), within_hours |-> C(Num(24))])),
   filter_eq |-> Entry("list", FnNamed("filter_eq", [items |-> Stored, field |-> W("s"), value |-> W("a")])),
   map_field |-> Entry("list", Amounts),
   list_count |-> Entry("number", Fn("list_count", <<Stored>>)),
   sum |-> Entry("number", Fn("sum", <<Amounts>>)), avg |-> Entry("number", Fn("avg", <<Amounts>>)),
   min |-> Entry("number", Fn("min", <<Amounts>>)), max |-> Entry("number", Fn("max", <<Amounts>>)),
   group_count |-> Entry("object", CountByS),
   group_sum |-> Entry("object", FnNamed("group_sum", [items |-> Stored, group_field |-> W("s"), value_field |-> W("n")])),
   object_get |-> Entry("unknown", FnNamed("object_get", [object |-> CountByS, key |-> W("a")]))]

Catalog == CatalogOperators @@ CatalogReads @@ CatalogFunctions @@ CatalogLists
=============================================================================
