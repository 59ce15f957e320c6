--------------------------- MODULE AggregateQuery ---------------------------
(***************************************************************************)
(* Aggregates over the stored records of a table, as the ingestion service *)
(* answers them for the decision engine: the checks on a query             *)
(* (domain/ingestion/aggregate.go), the SQL it becomes and what that SQL   *)
(* computes (store/postgres/tenant_data_reader.go).                        *)
(*                                                                         *)
(* A filter is a group [kind, op, kids] or a predicate                     *)
(* [kind, field, op, value]; a record maps field names to values.          *)
(***************************************************************************)
EXTENDS AstValues

Pred(field, op, value) == [kind |-> "predicate", field |-> field, op |-> op, value |-> value]
Grp(op, kids) == [kind |-> "group", op |-> op, kids |-> kids]

CONSTANTS MaxAggregateFilterDepth, MaxAggregateFilterNodes,
          MaxAggregateGroupChildren, MaxAggregateInListItems

GroupOperators == {"and", "or", "not"}
PredicateOperators ==
  {"eq", "neq", "gt", "gte", "lt", "lte", "in", "is_null", "is_not_null", "starts_with"}

\* The number of nodes of a filter.  (The code measures a child again at each
\* level that validates it, so a deep filter counts more than its nodes.)
RECURSIVE measureAggregateFilter(_)
measureAggregateFilter(f) ==
  1 + IF f.kind = "predicate" THEN 0
      ELSE FoldLeft(LAMBDA acc, g : acc + measureAggregateFilter(g), 0, f.kids)

RECURSIVE validateAggregateFilter(_, _)
validateAggregateFilter(f, depth) ==
  /\ depth <= MaxAggregateFilterDepth
  /\ IF f.kind = "group"
     THEN /\ f.op \in GroupOperators
          /\ Len(f.kids) <= MaxAggregateGroupChildren
          /\ f.op = "not" => Len(f.kids) = 1
          /\ \A i \in DOMAIN f.kids : validateAggregateFilter(f.kids[i], depth + 1)
     ELSE /\ f.op \in PredicateOperators
          /\ f.op = "in" => Is(f.value, "list") /\ Len(f.value.v) <= MaxAggregateInListItems

RECURSIVE CountedNodes(_)
CountedNodes(f) ==
  measureAggregateFilter(f)
  + IF f.kind = "predicate" THEN 0 ELSE FoldLeft(LAMBDA acc, g : acc + CountedNodes(g), 0, f.kids)

ValidateAggregateQuery(q) ==
  q.filter # <<>> => /\ validateAggregateFilter(q.filter[1], 1)
                     /\ CountedNodes(q.filter[1]) <= MaxAggregateFilterNodes

-----------------------------------------------------------------------------
(* What the WHERE clause computes for one row: SQL's three truth values,   *)
(* "t", "f" and "u" (unknown).  "" is a part the builder leaves out.       *)

Truth(b) == IF b THEN "t" ELSE "f"
Opposite(x) == CASE x = "t" -> "f" [] x = "f" -> "t" [] OTHER -> x

\* x LIKE (p || '%'): an underscore of p stands for any character.
Like(p, x) == Len(p) <= Len(x) /\ \A i \in DOMAIN p : p[i] \in {"_", x[i]}

\* Two values of one column: numbers and times by size, texts symbol by symbol.
SameSQL(x, y) == IF Is(x, "num") THEN x.v * y.d = y.v * x.d ELSE x.v = y.v
LessSQL(x, y) ==
  CASE Is(x, "num") -> x.v * y.d < y.v * x.d
    [] Is(x, "time") -> x.v < y.v
    [] Is(x, "bool") -> ~x.v /\ y.v
    [] OTHER -> LessText(x.v, y.v)

\* Comparing with NULL is unknown; IN is the disjunction of its equalities.
buildAggregatePredicateSQL(f, row) ==
  LET x == At(row, f.field)
      Compare(op, y) ==
        IF x = Null \/ y = Null THEN "u"
        ELSE Truth(CASE op = "eq" -> SameSQL(x, y) [] op = "neq" -> ~SameSQL(x, y)
                     [] op = "lt" -> LessSQL(x, y) [] op = "gte" -> ~LessSQL(x, y)
                     [] op = "gt" -> LessSQL(y, x) [] op = "lte" -> ~LessSQL(y, x))
  IN  CASE f.op \in {"eq", "neq", "gt", "gte", "lt", "lte"} -> Compare(f.op, f.value)
        [] f.op = "in" -> LET each == {Compare("eq", f.value.v[i]) : i \in DOMAIN f.value.v}
                          IN  IF "t" \in each THEN "t" ELSE IF "u" \in each THEN "u" ELSE "f"
        [] f.op = "is_null" -> Truth(x = Null)
        [] f.op = "is_not_null" -> Truth(x # Null)
        [] f.op = "starts_with" -> IF x = Null THEN "u" ELSE Truth(Like(f.value.v, x.v))

RECURSIVE buildAggregateFilterSQL(_, _)
buildAggregateFilterSQL(f, row) ==
  IF f.kind = "predicate" THEN buildAggregatePredicateSQL(f, row)
  ELSE LET parts == {buildAggregateFilterSQL(f.kids[i], row) : i \in DOMAIN f.kids} \ {""}
           strong == IF f.op = "or" THEN "t" ELSE "f"
       IN  IF f.op = "not" THEN Opposite(buildAggregateFilterSQL(f.kids[1], row))
           ELSE IF parts = {} THEN ""
           ELSE IF strong \in parts THEN strong
           ELSE IF "u" \in parts THEN "u" ELSE Opposite(strong)

\* IN () is refused when the statement is built, and a value of another type than
\* the column's when it is run.
RECURSIVE Runnable(_, _)
Runnable(f, rows) ==
  IF f.kind = "group" THEN \A i \in DOMAIN f.kids : Runnable(f.kids[i], rows)
  ELSE LET given == IF f.op = "in" THEN Range(f.value.v) ELSE {f.value}
       IN  /\ given # {}
           /\ \A y \in given, i \in DOMAIN rows :
                 LET x == At(rows[i], f.field) IN x = Null \/ y = Null \/ x.k = y.k

\* The values of a field in the given rows, NULLs left out.
Values(rows, field) ==
  SelectSeq([i \in DOMAIN rows |-> At(rows[i], field)], LAMBDA x : x # Null)
LeastSQL(vals) == vals[CHOOSE i \in DOMAIN vals : \A j \in DOMAIN vals : ~LessSQL(vals[j], vals[i])]
GreatestSQL(vals) == vals[CHOOSE i \in DOMAIN vals : \A j \in DOMAIN vals : ~LessSQL(vals[i], vals[j])]

\* COUNT, COUNT(DISTINCT), COALESCE(SUM, 0), and AVG, MIN, MAX, which are
\* NULL when there is nothing to aggregate.
buildAggregateExpression(name, vals) ==
  CASE name = "count" -> Num(Len(vals))
    [] name = "count_distinct" -> Num(Cardinality(Range(vals)))
    [] name = "sum" -> AddUp(vals)
    [] name = "avg" -> IF vals = <<>> THEN Null ELSE arithmeticValue("divide", AddUp(vals), Num(Len(vals)))
    [] name = "min" -> IF vals = <<>> THEN Null ELSE LeastSQL(vals)
    [] name = "max" -> IF vals = <<>> THEN Null ELSE GreatestSQL(vals)
    [] OTHER -> Err("remote")

\* POST .../aggregate: q is [table, aggregate, field, filter] with filter a
\* sequence of at most one filter; rows are the stored records by table.
AggregateRecords(q, rows) ==
  IF ~ValidateAggregateQuery(q) \/ (q.filter # <<>> /\ ~Runnable(q.filter[1], rows[q.table])) THEN Err("remote")
  ELSE LET Kept(r) == q.filter = <<>> \/ buildAggregateFilterSQL(q.filter[1], r) \in {"t", ""}
       IN  buildAggregateExpression(q.aggregate, Values(SelectSeq(rows[q.table], Kept), q.field))
=============================================================================
