----------------------------- MODULE AstValues -----------------------------
(***************************************************************************)
(* The values a rule formula computes with, and the helpers of the         *)
(* decision engine's AST evaluator that compare, search, add up and match  *)
(* them (runtime/ast_eval/evaluator.go).                                   *)
(*                                                                         *)
(* A value is a record whose field k is its dynamic Go type.  A number is  *)
(* an exact fraction v/d (the code compares integers beyond 2^53 exactly   *)
(* and other numbers as float64: rounding is not modelled).  A text is a   *)
(* sequence of symbols, where a symbol may stand for a whole word: what    *)
(* counts is equality, prefixes, suffixes, containment, case and order.    *)
(* A time is a number of hours since 1970-01-01T00:00Z, within 1970.       *)
(***************************************************************************)
EXTENDS Integers, Sequences, FiniteSets, SequencesExt, FiniteSetsExt, Functions

Null == [k |-> "null"]
Bool(b) == [k |-> "bool", v |-> b]
Frac(p, q) == [k |-> "num", v |-> p, d |-> q]
Num(n) == Frac(n, 1)
Str(s) == [k |-> "str", v |-> s]
Word(w) == Str(<<w>>)
Time(h) == [k |-> "time", v |-> h]
ListOf(s) == [k |-> "list", v |-> s]
Obj(f) == [k |-> "object", v |-> f]

\* An error: "shape" (arity, missing child), "type" (an operand of the wrong
\* type), "data" (the value itself is at fault), "remote" (a read failed),
\* "off" (refused whatever the data).
Err(e) == [k |-> "err", e |-> e]

Is(x, kind) == x.k = kind

\* The first error of a sequence of values, or the value F gives for them.
OrErr(vals, F(_)) ==
  IF \E i \in DOMAIN vals : Is(vals[i], "err")
  THEN vals[Min({i \in DOMAIN vals : Is(vals[i], "err")})]
  ELSE F(vals)

\* and (stop = FALSE) and or (stop = TRUE) evaluate their children in order
\* up to the first that decides, fails or is no boolean.
Connective(kids, rt, stop, Eval(_, _)) ==
  LET RECURSIVE From(_)
      From(i) == IF i > Len(kids) THEN Bool(~stop)
                 ELSE LET x == Eval(kids[i], rt)
                      IN  CASE Is(x, "err") -> x
                            [] ~Is(x, "err") /\ ~Is(x, "bool") -> Err("type")
                            [] Is(x, "bool") -> IF x.v = stop THEN Bool(stop) ELSE From(i + 1)
  IN  From(1)
Negate(x) == IF Is(x, "bool") THEN Bool(~x.v) ELSE x

-----------------------------------------------------------------------------
(* Texts: the symbols that matter, their lower and upper case, their order. *)

Letters == <<" ", "-", "_", "A", "B", "a", "b">>
Rank(c) == IF c \in Range(Letters) THEN CHOOSE i \in DOMAIN Letters : Letters[i] = c ELSE 0
ToLower(s) == [i \in DOMAIN s |-> CASE s[i] = "A" -> "a" [] s[i] = "B" -> "b" [] OTHER -> s[i]]
ToUpper(s) == [i \in DOMAIN s |-> CASE s[i] = "a" -> "A" [] s[i] = "b" -> "B" [] OTHER -> s[i]]
ContainsText(s, t) == \E i \in 0 .. Len(s) - Len(t) : SubSeq(s, i + 1, i + Len(t)) = t
LessText(s, t) ==
  \/ Len(s) < Len(t) /\ IsPrefix(s, t)
  \/ \E i \in 1 .. Min({Len(s), Len(t)}) :
        /\ SubSeq(s, 1, i - 1) = SubSeq(t, 1, i - 1)
        /\ Rank(s[i]) < Rank(t[i])

\* The texts that are RFC 3339 timestamps, and the ones that are durations.
TimeText == [w \in {"@30", "@31"} |-> IF w = "@30" THEN 30 ELSE 31]
DurationText == [w \in {"PT1H"} |-> 1]

\* time.Time as it is, and texts that parse as RFC 3339.
parseTimeValue(x) ==
  IF Is(x, "time") THEN <<TRUE, x.v>>
  ELSE IF Is(x, "str") /\ Len(x.v) = 1 /\ Head(x.v) \in DOMAIN TimeText
       THEN <<TRUE, TimeText[Head(x.v)]>> ELSE <<FALSE, 0>>

\* A duration text, or a failure (a total of zero is one).
parseDurationValue(s) ==
  IF Len(s) = 1 /\ Head(s) \in DOMAIN DurationText THEN <<TRUE, DurationText[Head(s)]>> ELSE <<FALSE, 0>>

-----------------------------------------------------------------------------
(* Comparison.                                                             *)

ByOrder(op, less, equal) ==
  CASE op = "eq" -> equal [] op = "neq" -> ~equal
    [] op = "lt" -> less [] op = "lte" -> less \/ equal
    [] op = "gt" -> ~less /\ ~equal [] op = "gte" -> ~less

toFloat(x) == Is(x, "num")
compareFloat(op, x, y) == ByOrder(op, x.v * y.d < y.v * x.d, x.v * y.d = y.v * x.d)

\* Null only ever equals null; a left operand that reads as a timestamp wants
\* a timestamp on the right; otherwise both sides have the left one's type.
compareValues(op, l, r) ==
  LET lt == parseTimeValue(l)
      rt == parseTimeValue(r)
  IN  CASE Is(l, "null") \/ Is(r, "null") ->
             Bool(CASE op = "eq" -> l = r [] op = "neq" -> l # r [] OTHER -> FALSE)
        [] lt[1] -> IF rt[1] THEN Bool(ByOrder(op, lt[2] < rt[2], lt[2] = rt[2])) ELSE Err("type")
        [] ~lt[1] /\ Is(l, "bool") ->
             IF Is(r, "bool") /\ op \in {"eq", "neq"} THEN Bool((l = r) = (op = "eq")) ELSE Err("type")
        [] ~lt[1] /\ Is(l, "str") ->
             IF Is(r, "str") THEN Bool(ByOrder(op, LessText(l.v, r.v), l = r)) ELSE Err("type")
        [] Is(l, "num") -> IF toFloat(r) THEN Bool(compareFloat(op, l, r)) ELSE Err("type")
        [] OTHER -> Err("type")

\* Membership compares with eq and lets no comparison error out.
EqualTo(x, y) == compareValues("eq", x, y) = Bool(TRUE)
inValue(l, r) ==
  IF Is(r, "list") THEN Bool(\E i \in DOMAIN r.v : EqualTo(l, r.v[i])) ELSE Err("type")
containsValue(l, r) ==
  CASE Is(l, "str") -> IF Is(r, "str") THEN Bool(ContainsText(l.v, r.v)) ELSE Err("type")
    [] Is(l, "list") -> Bool(\E i \in DOMAIN l.v : EqualTo(l.v[i], r))
    [] OTHER -> Err("type")

\* Case-insensitive containment of any text of a list; a member that is not a
\* text is an error unless an earlier member already matched.
containsAnyValue(l, r) ==
  IF ~(Is(l, "str") /\ Is(r, "list")) THEN Err("type")
  ELSE LET stop == {i \in DOMAIN r.v : \/ ~Is(r.v[i], "str")
                                       \/ ContainsText(ToLower(l.v), ToLower(r.v[i].v))}
       IN  IF stop = {} THEN Bool(FALSE)
           ELSE IF Is(r.v[Min(stop)], "str") THEN Bool(TRUE) ELSE Err("item")

arithmeticValue(op, l, r) ==
  CASE ~toFloat(l) \/ ~toFloat(r) -> Err("type")
    [] op = "add" -> Frac(l.v * r.d + r.v * l.d, l.d * r.d)
    [] op = "subtract" -> Frac(l.v * r.d - r.v * l.d, l.d * r.d)
    [] op = "multiply" -> Frac(l.v * r.v, l.d * r.d)
    [] op = "divide" /\ r.v = 0 -> Err("data")
    [] op = "divide" /\ r.v > 0 -> Frac(l.v * r.d, l.d * r.v)
    [] op = "divide" /\ r.v < 0 -> Frac(-(l.v * r.d), -(l.d * r.v))
    [] OTHER -> Err("off")

-----------------------------------------------------------------------------
(* Lists of numbers, and lists of objects grouped by a field.              *)

AddUp(s) == FoldSeq(LAMBDA x, acc : arithmeticValue("add", x, acc), Num(0), s)
Least(s, op) == s[CHOOSE i \in DOMAIN s : \A j \in DOMAIN s : compareFloat(op, s[i], s[j])]

\* An empty list aggregates to 0, whatever the aggregate.
aggregateNumericList(op, items) ==
  CASE items = <<>> -> Num(0)
    [] items # <<>> /\ \E i \in DOMAIN items : ~toFloat(items[i]) -> Err("item")
    [] OTHER -> CASE op = "sum" -> AddUp(items)
                  [] op = "avg" -> arithmeticValue("divide", AddUp(items), Num(Len(items)))
                  [] op = "min" -> Least(items, "lte")
                  [] op = "max" -> Least(items, "gte")

\* What a Go map answers for a key: its value, or nil.
At(f, key) == IF key \in DOMAIN f THEN f[key] ELSE Null
ObjectList(items) == SelectSeq(items, LAMBDA x : Is(x, "object"))
GroupKeys(objs, field) == {At(objs[i].v, field) : i \in DOMAIN objs}
Group(objs, field, key) == SelectSeq(objs, LAMBDA o : At(o.v, field) = key)

groupCount(items, field) ==
  LET objs == ObjectList(items)
  IN  Obj([key \in GroupKeys(objs, field) |-> Num(Len(Group(objs, field, key)))])

groupSum(items, field, valueField) ==
  LET objs == ObjectList(items)
      Values(s) == [i \in DOMAIN s |-> At(s[i].v, valueField)]
  IN  IF \E i \in DOMAIN objs : ~toFloat(Values(objs)[i]) THEN Err("item")
      ELSE Obj([key \in GroupKeys(objs, field) |-> AddUp(Values(Group(objs, field, key)))])

\* Rounded to an integer when it is one; otherwise no integer at all.
downcastToInt64(x) == <<x.v % x.d = 0, x.v \div x.d>>

-----------------------------------------------------------------------------
(* Parts of a timestamp.                                                   *)

MonthStart == <<0, 31, 59, 90, 120, 151, 181, 212, 243, 273, 304, 334>>
MonthOf(day) == Max({i \in DOMAIN MonthStart : MonthStart[i] <= day})

\* Sunday counts as 7; 1970-01-01 was a Thursday.
extractTimestampPart(h, part) ==
  LET day == h \div 24
      weekday == (day + 4) % 7
  IN  CASE part = <<"year">> -> Num(1970)
        [] part = <<"month">> -> Num(MonthOf(day))
        [] part = <<"day_of_month">> -> Num(day - MonthStart[MonthOf(day)] + 1)
        [] part = <<"day_of_week">> -> Num(IF weekday = 0 THEN 7 ELSE weekday)
        [] part = <<"hour">> -> Num(h % 24)
        [] OTHER -> Err("data")

-----------------------------------------------------------------------------
(* Fuzzy matching.                                                         *)

\* Lower case, punctuation dropped, runs of blanks reduced to one.
normalizeFuzzyText(s) ==
  LET kept == SelectSeq(ToLower(s), LAMBDA c : c # "-")
      Blank(i) == kept[i] = " "
      keep == {i \in DOMAIN kept : ~Blank(i)
                 \/ (/\ i > 1 /\ ~Blank(i - 1)
                     /\ \E j \in i + 1 .. Len(kept) : ~Blank(j))}
  IN  [j \in 1 .. Cardinality(keep) |->
         kept[CHOOSE i \in keep : Cardinality({x \in keep : x <= i}) = j]]

\* The edit distance, row by row.
levenshteinDistance(s, t) ==
  LET dist[p \in (0 .. Len(s)) \X (0 .. Len(t))] ==
        IF p[1] = 0 THEN p[2] ELSE IF p[2] = 0 THEN p[1]
        ELSE Min({dist[<<p[1], p[2] - 1>>] + 1,
                  dist[<<p[1] - 1, p[2]>>] + 1,
                  dist[<<p[1] - 1, p[2] - 1>>] + (IF s[p[1]] = t[p[2]] THEN 0 ELSE 1)})
  IN  dist[<<Len(s), Len(t)>>]

\* n of m as a rounded percentage.
Percent(n, m) == (200 * n + m) \div (2 * m)

directSimilarity(s, t) ==
  LET m == Max({Len(s), Len(t)})
  IN  IF m = 0 THEN 100 ELSE Percent(m - levenshteinDistance(s, t), m)

\* The words of a normalised text.
Words(s) ==
  LET Word_(i, j) == /\ \A x \in i .. j : s[x] # " "
                     /\ (i = 1 \/ s[i - 1] = " ") /\ (j = Len(s) \/ s[j + 1] = " ")
  IN  {SubSeq(s, p[1], p[2]) : p \in {q \in (DOMAIN s) \X (DOMAIN s) : q[1] <= q[2] /\ Word_(q[1], q[2])}}

bagOfWordsSimilarity(s, t) ==
  IF Words(s) \cup Words(t) = {} THEN 100
  ELSE Percent(Cardinality(Words(s) \cap Words(t)), Cardinality(Words(s) \cup Words(t)))

fuzzySimilarityScore(s, t, algorithm) ==
  LET a == normalizeFuzzyText(s)
      b == normalizeFuzzyText(t)
  IN  CASE algorithm = <<"ratio">> -> Num(directSimilarity(a, b))
        [] algorithm = <<"token_set_ratio">> -> Num(bagOfWordsSimilarity(a, b))
        [] OTHER -> Err("data")
=============================================================================
