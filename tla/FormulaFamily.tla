--------------------------- MODULE FormulaFamily ---------------------------
(* Formulas over one table with a link, and four situations: the inputs of *)
(* RuleFormula for model checking.                                         *)
EXTENDS AstValidation

MCModel ==
  [tx |-> [fields |-> (<<"n">> :> "int") @@ (<<"s">> :> "text") @@ (<<"t">> :> "timestamp")
                      @@ (<<"b">> :> "bool") @@ (<<"ip">> :> "inet"),
           links |-> [acct |-> [child |-> "s", field |-> "s", parent |-> "account"]]],
   account |-> [fields |-> (<<"s">> :> "string") @@ (<<"n">> :> "number"), links |-> <<>>]]

Row(n, s, t, b, ip) == (<<"n">> :> n) @@ (<<"s">> :> s) @@ (<<"t">> :> t) @@ (<<"b">> :> b) @@ (<<"ip">> :> ip)
Row1 == Row(Num(2), Str(<<"a", "b">>), Time(30), Bool(TRUE), Word("1.1.1.1"))
Row2 == Row(Num(0), Str(<<"b">>), Time(31), Bool(FALSE), Word("1.1.1.1"))
Row3 == Row(Num(-1), Str(<<"_">>), Time(30), Bool(FALSE), Word("1.1.1.1"))
RowNull == Row(Null, Null, Null, Null, Null)

Account(s) == (<<"s">> :> Str(s)) @@ (<<"n">> :> Num(7))
Situation(row, stored, up, pushdown) ==
  [table |-> "tx", fields |-> row, model |-> MCModel, now |-> 40, up |-> up, pushdown |-> pushdown,
   rows |-> [tx |-> stored, account |-> <<Account(<<"a", "b">>)>>],
   lists |-> (<<"blocked">> :> {<<"b">>}), tags |-> {<<"vip">>}, risk |-> Word("high"),
   flags |-> {<<<<"1.1.1.1">>, <<"tor">>>>}, geo |-> (<<"1.1.1.1">> :> Word("GH")), past |-> <<<<"review">>>>]
MCRuntimes ==
  {Situation(Row1, <<Row1, Row2, Row3>>, TRUE, Aggregates),
   Situation(Row2, <<Row2, Row3, RowNull>>, TRUE, {"count", "sum", "max"}),
   Situation(RowNull, <<Row1>>, TRUE, Aggregates),
   Situation(Row3, <<Row1>>, FALSE, {})}

\* Leaves, one-level formulas, and connectives over a selection of them.
Leaves == {Payload(f) : f \in {"n", "s", "t", "b", "ip"}}
          \cup {C(Null), C(Num(0)), C(Num(2)), W("b"), C(Bool(TRUE)), C(ListOf(<<Word("b"), Num(2)>>))}
Binary == {"eq", "neq", "lt", "gte", "contains", "string_not_contain", "in", "contains_any", "starts_with", "ends_with",
           "add", "divide", "is_in_list", "is_not_in_list", "contains_none", "string_concat"}
Unary == {"not", "lower", "upper", "is_null", "is_empty", "is_not_empty", "parse_time"}
OneLevel == {Fn(fn, <<x, y>>) : fn \in Binary, x \in Leaves, y \in Leaves}
            \cup {Fn(fn, <<x>>) : fn \in Unary, x \in Leaves}
            \cup {Fn("coalesce", <<x, y>>) : x \in Leaves, y \in Leaves}
Parts == {Fn("eq", <<Payload("n"), C(Num(2))>>), Fn("lt", <<Payload("s"), W("b")>>), Payload("b"),
          Fn("eq", <<Fn("divide", <<C(Num(2)), Payload("n")>>), C(Num(1))>>), C(Bool(FALSE)),
          Fn("is_null", <<Payload("s")>>), Fn("eq", <<Fn("lower", <<Payload("s")>>), W("b")>>)}
TwoLevels == {Fn(fn, <<x, y>>) : fn \in {"and", "or", "coalesce"}, x \in Parts, y \in Parts}
             \cup {Fn("not", <<x>>) : x \in Parts}
             \cup {Fn("and", <<x, Fn("or", <<y, z>>)>>) : x \in Parts, y \in Parts, z \in Parts}
             \cup {Fn("is_null", <<Fn("coalesce", <<x, y>>)>>) : x \in Leaves, y \in Parts}

\* Scores: a branch that fails, one that does not apply, a fallback that fails.
Branch(x) == Node("score_computation", <<x>>, [modifier |-> C(Num(3))])
Get(n, key) == FnNamed("object_get", [object |-> n, key |-> W(key)])
Fallbacks == {Branch(C(Bool(TRUE))), Branch(Fn("eq", <<Fn("divide", <<C(Num(1)), C(Num(0))>>), C(Num(1))>>))}
Switches == {Get(Node("switch", <<Branch(x), Branch(y)>>, [field |-> f, fallback |-> z]), key)
               : x \in Parts, y \in Parts, f \in {Payload("n"), Payload("s")}, z \in Fallbacks, key \in {"triggered", "branch"}}
            \cup {FnNamed("is_multiple_of", [value |-> x, divider |-> y]) : x \in Leaves, y \in Leaves}

\* Aggregates of the stored records under filters up to three levels deep.
FilterOn(f, op, x) == FnNamed("filter", InTx([fieldName |-> W(f), operator |-> W(op), value |-> x]))
Filters == {FilterOn("n", op, x) : op \in {"=", "!=", ">", "<="}, x \in {C(Num(0)), C(Num(2)), C(Null)}}
           \cup {FilterOn("s", "stringstartswith", x) : x \in {W("a"), W("_")}}
           \cup {FilterOn("s", "=", W("b")), FilterOn("s", "isinlist", C(ListOf(<<Word("b"), Word("_")>>))),
              FilterOn("s", "isinlist", C(ListOf(<<Word("b"), Null>>))), FilterOn("s", "=", C(Null)), FilterOn("s", "!=", C(Null)),
                 FilterOn("t", "<", FnNamed("time_add", [timestampField |-> Payload("t"), duration |-> W("PT1H"), sign |-> W("+")]))}
FilterLists == {Fn("list", <<x>>) : x \in Filters} \cup {Fn("list", <<Fn("or", <<x, y>>)>>) : x \in Filters, y \in Filters}
               \cup {Fn("list", <<Fn("not", <<Fn("and", <<x, y>>)>>)>>) : x \in Filters, y \in Filters}
               \cup {Fn("list", <<>>), Fn("list", <<Fn("or", <<>>)>>)}
               \cup {Fn("list", <<FilterOn("s", op, W("b"))>>) : op \in {"isempty", "isnotempty", "stringendswith", "isnotinlist"}}
Aggregations ==
  {FnNamed("aggregator", InTx([fieldName |-> W("n"), aggregator |-> W(a), filters |-> f]))
     : a \in {"COUNT", "SUM", "MAX"}, f \in FilterLists}
  \cup {FnNamed("aggregator", InTx([fieldName |-> W(f), aggregator |-> W(a)]))
          : f \in {"n", "t"}, a \in {"COUNT_DISTINCT", "AVG", "MIN", "MAX", "MEDIAN"}}

CatalogExamples == {Catalog[name].example : name \in DOMAIN Catalog}

MCFormulas == OneLevel \cup TwoLevels \cup Switches \cup Aggregations \cup CatalogExamples
=============================================================================
