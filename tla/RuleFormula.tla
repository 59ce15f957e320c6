---------------------------- MODULE RuleFormula ----------------------------
(***************************************************************************)
(* The life of a formula in the decision engine: it is validated against   *)
(* the tenant's model when its scenario is authored, and evaluated on a    *)
(* record when the scenario runs, plainly for a trigger (EvaluateFormula)  *)
(* and with evidence for a rule (EvaluateFormulaWithEvidence).  Formulas   *)
(* and Runtimes are the formulas and the situations to be checked.         *)
(***************************************************************************)
EXTENDS AstValidation

CONSTANTS Formulas, Runtimes

VARIABLES formula, rt,     \* what is evaluated, and on what
          verdict,         \* of the validation
          value,           \* of EvaluateNode at the root
          evidence         \* the evaluation shown to an analyst
vars == <<formula, rt, verdict, value, evidence>>

None == [k |-> "none"]

Init == /\ formula \in Formulas /\ rt \in Runtimes
        /\ verdict = None /\ value = None /\ evidence = None

Validate == /\ verdict = None
            /\ verdict' = ValidateNode(formula, rt.model, rt.table)
            /\ UNCHANGED <<formula, rt, value, evidence>>

\* Evaluation does not wait for a good verdict: the model may have changed, or
\* the formula have been edited, since its iteration was validated.
Evaluate == /\ verdict # None /\ value = None
            /\ value' = EvaluateNode(formula, rt)
            /\ UNCHANGED <<formula, rt, verdict, evidence>>

EvaluateShown == /\ value # None /\ evidence = None
                 /\ evidence' = evaluateNodeWithEvidence(formula, rt)
                 /\ UNCHANGED <<formula, rt, verdict, value>>

Next == Validate \/ Evaluate \/ EvaluateShown
Spec == Init /\ [][Next]_vars

-----------------------------------------------------------------------------
\* A record every field of which has a value of its type, with texts that do
\* not read as timestamps.
KindOf(t) == CASE t = "number" -> "num" [] t = "bool" -> "bool" [] t = "timestamp" -> "time" [] OTHER -> "str"
Conforms(row, fields) ==
  \A f \in DOMAIN fields : f \in DOMAIN row /\ Is(row[f], KindOf(mapFieldType(fields[f]))) /\ ~(Is(row[f], "str") /\ parseTimeValue(row[f])[1])

RECURSIVE FunctionsOf(_)
FunctionsOf(n) ==
  {canonicalFunctionName(n.fn)} \cup UNION {FunctionsOf(n.kids[i]) : i \in DOMAIN n.kids}
    \cup UNION {FunctionsOf(n.named[a]) : a \in DOMAIN n.named}
RECURSIVE SpelledOut(_)
SpelledOut(n) == /\ n.fn = canonicalFunctionName(n.fn)
                 /\ \A i \in DOMAIN n.kids : SpelledOut(n.kids[i])
                 /\ \A a \in DOMAIN n.named : SpelledOut(n.named[a])
RECURSIVE NoNull(_)
NoNull(n) == n.c = Null => n.fn # "" /\ \A i \in DOMAIN n.kids : NoNull(n.kids[i])

RECURSIVE ComparesScalars(_, _)
ComparesScalars(n, r) ==
  /\ canonicalFunctionName(n.fn) \in {"eq", "neq"} => Type(n.kids[1], r.model, r.table) \notin {"list", "object"}
  /\ \A i \in DOMAIN n.kids : ComparesScalars(n.kids[i], r)

\* The functions whose children's types the validator fixes.
Strict == {"", "constant", "field_ref", "payload", "and", "or", "not", "eq", "neq", "gt", "gte", "lt", "lte",
           "contains", "string_not_contain", "starts_with", "ends_with", "lower", "upper", "is_null", "is_empty",
           "is_not_empty", "coalesce", "add", "subtract", "multiply", "divide", "in", "is_in_list",
           "is_not_in_list", "list", "string_concat", "score_computation"}

\* VALIDATED FORMULAS ARE WELL TYPED: a formula over the strict functions that
\* the validator accepts never fails for its shape or its types on a complete
\* record, and its value has the type the validator gave it.
ValidatedIsWellTyped ==
  (/\ value # None /\ verdict.ok
   /\ FunctionsOf(formula) \subseteq Strict /\ SpelledOut(formula) /\ NoNull(formula)
   /\ ComparesScalars(formula, rt)
   /\ Conforms(rt.fields, rt.model[rt.table].fields))
  => /\ ~(Is(value, "err") /\ value.e \in {"type", "shape", "off"})
     /\ Is(value, "err") \/ value.k = CASE verdict.t \in {"string", "ip_address"} -> "str"
                                        [] verdict.t = "number" -> "num"
                                        [] verdict.t = "timestamp" -> "time"
                                        [] verdict.t = "object" -> "score"
                                        [] OTHER -> verdict.t

RECURSIVE ShownIsTrue(_, _, _)
ShownIsTrue(e, n, r) ==
  ~e.skipped => /\ e.value = EvaluateNode(n, r)
                /\ \A i \in DOMAIN e.kids : ShownIsTrue(e.kids[i], n.kids[i], r)
\* EVIDENCE TELLS THE TRUTH: when the evaluation with evidence answers, it
\* answers what the plain evaluation does, for the formula and for every child
\* it shows as evaluated; so a rule and a trigger never contradict each other.
EvidenceAgrees ==
  (evidence # None /\ ~Is(evidence.value, "err")) => ShownIsTrue(evidence, formula, rt)

-----------------------------------------------------------------------------
(* The meaning of an aggregate's filters: the rule condition that has the  *)
(* same operators, evaluated on each stored record.                        *)

FieldOf(f) == f.named["fieldName"]
OperatorOf(f) == canonicalFunctionName(Head(f.named["operator"].c.v))
RECURSIVE FiltersIn(_)
FiltersIn(n) == IF n.fn = "filter" THEN {n} ELSE UNION {FiltersIn(n.kids[i]) : i \in DOMAIN n.kids}

\* The values of the filters belong to the record the formula is evaluated on ...
OperandsOf(n, r) == [f \in FiltersIn(n) |-> EvaluateNode(f.named["value"], r)]

\* ... and their fields to the stored record, for which their condition holds or not.
RECURSIVE Condition(_, _)
Condition(n, operand) ==
  IF n.fn = "filter" THEN Fn(OperatorOf(n), <<Fn("payload", <<FieldOf(n)>>), C(operand[n])>>)
  ELSE Fn(IF n.fn = "list" THEN "and" ELSE n.fn, [i \in DOMAIN n.kids |-> Condition(n.kids[i], operand)])
Holds(condition, row, r) == EvaluateNode(condition, [r EXCEPT !.fields = row])

RECURSIVE Negated(_)
Negated(n) == n.fn = "not" \/ \E i \in DOMAIN n.kids : Negated(n.kids[i])
\* An empty group is left out by the SQL builder; the validator refuses empty
\* connectives.
RECURSIVE Nonempty(_)
Nonempty(n) == n.fn = "filter" \/ (n.kids # <<>> /\ \A i \in DOMAIN n.kids : Nonempty(n.kids[i]))

\* A prefix y with a wildcard of LIKE.
Wild(f, y) == OperatorOf(f) = "starts_with" /\ "_" \in Range(y.v)
\* SQL can decide the filter f with the operand y on a record: it tests for nil, or
\* no NULL takes part.
Decided(f, y, row) ==
  /\ ~Wild(f, y)
  /\ \/ OperatorOf(f) \in {"eq", "neq"} /\ y = Null
     \/ /\ At(row, FieldOf(f).c.v) # Null /\ y # Null
        /\ Is(y, "list") => Null \notin Range(y.v)

\* On a record that every filter can decide, the SQL keeps the record exactly if
\* the condition holds.  With a NULL in the way the SQL may leave the record
\* undecided, and so drop it, but it never contradicts the condition; and a
\* wildcard that is not under a not loses no record that has the prefix.
RowAgrees(n, operand, holds, sql, row) ==
  LET wild == \E f \in FiltersIn(n) : Wild(f, operand[f])
  IN  /\ (\A f \in FiltersIn(n) : Decided(f, operand[f], row)) => (sql \in {"t", ""} <=> holds = Bool(TRUE))
      /\ ~wild => ~(sql = "t" /\ holds = Bool(FALSE))
      /\ ~(wild /\ Negated(n)) => ~(sql = "f" /\ holds = Bool(TRUE))

\* The answer is what the function on lists gives for the values of the records
\* that satisfy the condition, when SQL can decide them all.  (Of nothing, AVG,
\* MIN and MAX are NULL and the functions on lists 0.)
ListFunction == [count |-> "list_count", sum |-> "sum", avg |-> "avg", min |-> "min", max |-> "max"]
AnswerAgrees(name, vals, v, r) ==
  (/\ name \in DOMAIN ListFunction
   /\ vals # <<>> \/ name \in {"count", "sum"}
   /\ name = "count" \/ \A i \in DOMAIN vals : Is(vals[i], "num"))
  => compareFloat("eq", v, EvaluateNode(Fn(ListFunction[name], <<C(ListOf(vals))>>), r))

\* The query q that the filters n were compiled to, on the stored rows, of which the
\* condition holds or not.
QueryAgrees(q, n, operand, rows, holds) ==
  LET sql == [i \in DOMAIN rows |-> IF q.filter = <<>> THEN "" ELSE buildAggregateFilterSQL(q.filter[1], rows[i])]
  IN  /\ \A i \in DOMAIN rows : RowAgrees(n, operand, holds[i], sql[i], rows[i])
      /\ (\A i \in DOMAIN rows, f \in FiltersIn(n) : Decided(f, operand[f], rows[i])) =>
           LET kept == SelectSeq([i \in DOMAIN rows |-> i], LAMBDA i : holds[i] = Bool(TRUE))
           IN  AnswerAgrees(q.aggregate, Values([k \in DOMAIN kept |-> rows[kept[k]]], q.field), value, rt)

RowsAgree(q, n, operand, rows) ==
  QueryAgrees(q, n, operand, rows, [i \in DOMAIN rows |-> Holds(Condition(n, operand), rows[i], rt)])
FiltersMeant(q, n) ==
  (\A i \in DOMAIN n.kids : Nonempty(n.kids[i])) => RowsAgree(q, n, OperandsOf(n, rt), rt.rows[q.table])

\* A PUSHED-DOWN AGGREGATE MEANS ITS FILTERS: when the ingestion service answers an
\* aggregate, the compiled and rewritten filter selects the stored records, with
\* NULLs or without, that the rule condition of the same name selects, and the
\* answer aggregates those.  A filter that cannot be pushed down is never dropped.
PushdownAgrees ==
  (value # None /\ formula.fn = "aggregator" /\ ~Is(value, "err")) =>
    FiltersMeant(CompileAggregateQuery(formula, rt).q,
                 IF "filters" \in DOMAIN formula.named THEN formula.named["filters"] ELSE Fn("list", <<>>))

Scanning == {"related_count", "related_records"}
\* THE CATALOGUE IS TRUE: every catalogued function's example is accepted with
\* the type the catalogue gives it, and on a complete record it evaluates,
\* unless it is one of the helpers that scan records or rests on one.
CatalogIsTrue ==
  \A name \in DOMAIN Catalog :
    LET e == Catalog[name]
    IN  formula = e.example =>
          /\ verdict # None => verdict.ok /\ (e.ret # "unknown" => verdict.t = e.ret)
          /\ (value # None /\ rt.up /\ Conforms(rt.fields, rt.model[rt.table].fields)
              /\ FunctionsOf(formula) \cap Scanning = {}) => ~Is(value, "err")
=============================================================================
