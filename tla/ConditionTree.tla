---------------------------- MODULE ConditionTree ----------------------------
(***************************************************************************)
(* ConditionTree of the workflow editor: what Validate accepts, and when a *)
(* tree matches a decision.  A tree is a record with the six members of    *)
(* the Go struct; a member that is absent in the JSON is empty.  A value   *)
(* is [t, v] with t its JSON type; numbers are given as rationals, so that *)
(* 1 and 1.0 are one value, as they are for big.Rat; texts are sequences.  *)
(***************************************************************************)
EXTENDS Integers, Sequences, FiniteSets, SequencesExt, FiniteSetsExt

CONSTANTS MaxNodes, MaxDepth

NoValue == [t |-> "absent"]
ConditionOutcomes == {"approve", "review", "block_and_review", "decline"}

Leaf(kind) ==
  [kind |-> kind, children |-> <<>>, outcomes |-> <<>>, field |-> "", op |-> "", value |-> NoValue]

NoDuplicates(s) == Cardinality(ToSet(s)) = Len(s)

\* the parameters that belong to one kind of node are refused on every other
StrayParameters(n) ==
  \/ n.kind \notin {"all", "any"} /\ n.children # <<>>
  \/ n.kind # "outcome_in" /\ n.outcomes # <<>>
  \/ n.kind # "payload" /\ (n.field # "" \/ n.op # "" \/ n.value # NoValue)

OutcomesValid(s) ==
  s # <<>> /\ Len(s) <= 4 /\ ToSet(s) \subseteq ConditionOutcomes /\ NoDuplicates(s)

PayloadValid(n) ==
  /\ n.field # ""
  /\ CASE n.op \in {"exists", "not_exists"}   -> n.value = NoValue
       [] n.op \in {"eq", "neq"}              -> n.value.t \in {"null", "bool", "string", "number"}
       [] n.op \in {"gt", "gte", "lt", "lte"} -> n.value.t = "number"
       [] n.op = "contains"                   -> n.value.t = "string"
       [] OTHER                               -> FALSE

RECURSIVE NodeCount(_)
NodeCount(n) ==
  1 + MapThenSumSet(LAMBDA i : NodeCount(n.children[i]), DOMAIN n.children)

RECURSIVE NodesValid(_, _)
NodesValid(n, depth) ==
  /\ depth <= MaxDepth
  /\ ~StrayParameters(n)
  /\ CASE n.kind \in {"all", "any"} ->
            n.children # <<>> /\ \A i \in DOMAIN n.children : NodesValid(n.children[i], depth + 1)
       [] n.kind \in {"always", "never"} -> TRUE
       [] n.kind = "outcome_in" -> OutcomesValid(n.outcomes)
       [] n.kind = "payload"    -> PayloadValid(n)
       [] OTHER                 -> FALSE

\* visit: one fault anywhere in the tree, or one node too many, refuses it
Validate(n) == NodesValid(n, 1) /\ NodeCount(n) <= MaxNodes

Infix(a, b) == \E i \in 0 .. Len(a) - Len(b) : SubSeq(a, i + 1, i + Len(b)) = b

\* values of different types are never equal, lists and objects equal nothing
SameValue(a, b) ==
  a.t = b.t /\ a.t \in {"null", "bool", "string", "number"} /\ (a.t = "null" \/ a.v = b.v)

Compares(op, a, b) ==
  LET numbers == a.t = "number" /\ b.t = "number"
  IN CASE op = "eq"  -> SameValue(a, b)
       [] op = "neq" -> ~SameValue(a, b)
       [] op = "gt"  -> numbers /\ a.v > b.v
       [] op = "gte" -> numbers /\ a.v >= b.v
       [] op = "lt"  -> numbers /\ a.v < b.v
       [] op = "lte" -> numbers /\ a.v <= b.v
       [] op = "contains" -> a.t = "string" /\ b.t = "string" /\ Infix(a.v, b.v)

\* (Mutant: a field that is missing reads as null.)
PayloadMatchesNull(n, fields) ==
  CASE n.op = "exists"     -> n.field \in DOMAIN fields
    [] n.op = "not_exists" -> n.field \notin DOMAIN fields
    [] OTHER -> Compares(n.op, IF n.field \in DOMAIN fields THEN fields[n.field] ELSE [t |-> "null"], n.value)

PayloadMatches(n, fields) ==
  CASE n.op = "exists"     -> n.field \in DOMAIN fields
    [] n.op = "not_exists" -> n.field \notin DOMAIN fields
    [] OTHER -> n.field \in DOMAIN fields /\ Compares(n.op, fields[n.field], n.value)

RECURSIVE Matches(_, _, _)
Matches(n, outcome, fields) ==
  CASE n.kind = "always" -> TRUE
    [] n.kind = "never"  -> FALSE
    [] n.kind = "all"    -> \A i \in DOMAIN n.children : Matches(n.children[i], outcome, fields)
    [] n.kind = "any"    -> \E i \in DOMAIN n.children : Matches(n.children[i], outcome, fields)
    [] n.kind = "outcome_in" -> outcome \in ToSet(n.outcomes)
    [] n.kind = "payload"    -> PayloadMatches(n, fields)

(***************************************************************************)
(* Titles.  A template is the sequence of its pieces between percent signs:*)
(* the pieces in between are literal, the enclosed ones are placeholders.  *)
(* The cut to 200 bytes at a character boundary is left out.               *)
(***************************************************************************)
titleKeys == {"object_id", "object_type", "decision_id", "scenario_id", "outcome", "score"}

Expandable(pieces) ==
  /\ Len(pieces) % 2 = 1
  /\ \A i \in DOMAIN pieces : i % 2 = 0 => pieces[i] \in titleKeys \cup {""}

ExpandTitle(pieces, values) ==
  [i \in DOMAIN pieces |-> IF i % 2 = 1 THEN pieces[i]
                           ELSE IF pieces[i] = "" THEN "%" ELSE values[pieces[i]]]

(***************************************************************************)
(* Laws.                                                                   *)
(***************************************************************************)
Group(kind, kids) == [Leaf(kind) EXCEPT !.children = kids]
WithOp(n, op) == [n EXCEPT !.op = op]

\* What authors rely on when they rearrange a valid tree: a group of one child
\* is that child, the order of children does not matter, every child is itself
\* valid and can be moved up; a comparison never matches a decision without the
\* field, not even neq; eq and neq, and gt and lte, are each other's negation on
\* a field that is present (the latter pair for numbers, and neither for others).
TreeLaws(n, outcome, fields) ==
  LET M(x) == Matches(x, outcome, fields)
      present == n.field \in DOMAIN fields
  IN Validate(n) =>
       /\ M(Group("all", <<n>>)) = M(n) /\ M(Group("any", <<n>>)) = M(n)
       /\ \A i \in DOMAIN n.children : Validate(n.children[i])
       /\ n.children # <<>> =>
            /\ M(Group("all", n.children)) => M(Group("any", n.children))
            /\ M([n EXCEPT !.children = Reverse(@)]) = M(n)
       /\ n.kind = "payload" /\ n.op \in {"eq", "neq"} =>
            (M(WithOp(n, "eq")) <=> (present /\ ~M(WithOp(n, "neq")))) 
            /\ (~present => ~M(WithOp(n, "neq")))
       /\ n.kind = "payload" /\ n.op \in {"gt", "lte"} =>
            /\ ~(M(WithOp(n, "gt")) /\ M(WithOp(n, "lte")))
            /\ (M(WithOp(n, "gt")) \/ M(WithOp(n, "lte"))) <=> (present /\ fields[n.field].t = "number")
=============================================================================
