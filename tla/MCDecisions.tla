----------------------------- MODULE MCDecisions -----------------------------
(* The rules of a tenant: how scenarios are edited, published and decide    *)
(* (LiveDecisions), what their formulas mean (RuleFormula), how the         *)
(* workflows that act on a decision are edited (WorkflowAuthoring) and what *)
(* their condition trees mean (ConditionTree).  Here they share no state,   *)
(* so each behaviour moves one of them; focus says which.                   *)
EXTENDS LiveDecisions, TLC

CONSTANTS c1, c2, fa, fb, x1, g1, Quotas,
          r1, r2, w1, NoVersion, NoTree,
          Foci

VARIABLES formula, rt, verdict, value, evidence,
          wrules, legacy, events, editors, clerks, clock,
          probe, focus

formulaVars  == <<formula, rt, verdict, value, evidence>>
workflowVars == <<wrules, legacy, events, editors, clerks, clock>>

(***************************************************************************)
(* Decisions start from a state that a few requests reach: scenario 1 is   *)
(* live on iteration 1, and its iteration 2 is a draft.                    *)
(***************************************************************************)
MCFormulaTypes == (fa :> {"tx", "acct"}) @@ (fb :> {"tx"})
MCFormulaTables == (fa :> {}) @@ (fb :> {"acct"})
MCFormulaIndexes == (fa :> {}) @@ (fb :> {x1})
MCIndexTable == (x1 :> "acct")
MCThresholds == {[review |-> 1, block |-> 2, decline |-> 3],
                 [review |-> NoThreshold, block |-> NoThreshold, decline |-> 0]}
MCObjectType == [o \in Objects |-> "tx"]
MCValue == (fa :> [o \in Objects |-> "yes"]) @@ (fb :> [o \in Objects |-> "no"])
MCGroups == {g1, NoGroup}
MCTreeValid(t) == t # "invalid"
MCTreeMatches(t, o) == t = o

action(ty) == [type |-> ty, title |-> "static"]
MCStructured ==
  {<<>>,
   <<[conds |-> <<[fn |-> "rule_hit", rules |-> {1, 2}], [fn |-> "outcome_in", outcomes |-> {"review"}]>>,
      fall |-> FALSE, actions |-> <<action("create_case")>>],
     [conds |-> <<[fn |-> "always"]>>, fall |-> FALSE,
      actions |-> <<action("do_nothing"), action("emit_event")>>]>>}
MCLegacy == {<<[outcomes |-> {"review", "approve"}, action |-> action("add_to_case")]>>}

AllQuotas ==
  {[requests |-> 3, evals |-> 0, tests |-> 0],
   [requests |-> 1, evals |-> 2, tests |-> 0],
   [requests |-> 2, evals |-> 1, tests |-> 0],
   [requests |-> 2, evals |-> 0, tests |-> 2]}
AuthoringQuotas == {[requests |-> 2, evals |-> 0, tests |-> 0]}

row(t) == [type |-> "tx", live |-> t]
MCInit ==
  /\ scenarios = [s \in ScenarioIDs |-> IF s = 1 THEN row(1) ELSE NoRow]
  /\ iterations = [i \in IterationIDs |->
       CASE i = 1 -> [DraftDefaults(1, 1) EXCEPT !.status = "committed"]
         [] i = 2 -> DraftDefaults(1, 2)
         [] OTHER -> NoRow]
  /\ rules = [r \in RuleIDs |->
       IF r > 2 THEN NoRow
       ELSE [iter |-> r, formula |-> fa, mod |-> 1, group |-> IF r = 1 THEN g1 ELSE NoGroup, stable |-> 1]]
  /\ publications = [s \in ScenarioIDs |->
       IF s = 1 THEN <<[iter |-> 1, action |-> "publish"]>> ELSE <<>>]
  /\ indexJobs = [x \in Indexes |-> "none"]
  /\ nextID = [scn |-> 2, iter |-> 3, rule |-> 3]
  /\ req = [c \in Clients |-> NoRequest]
  /\ \E q \in Quotas : budget = q.requests /\ quota = [evals |-> q.evals, tests |-> q.tests]
  /\ DecisionInit

Family == INSTANCE FormulaFamily WITH
  MaxAggregateFilterDepth <- 5, MaxAggregateFilterNodes <- 50,
  MaxAggregateGroupChildren <- 20, MaxAggregateInListItems <- 100

Formula == INSTANCE RuleFormula WITH
  Formulas <- Family!MCFormulas, Runtimes <- Family!MCRuntimes,
  MaxAggregateFilterDepth <- 5, MaxAggregateFilterNodes <- 50,
  MaxAggregateGroupChildren <- 20, MaxAggregateInListItems <- 100

(***************************************************************************)
(* Condition trees, and decisions with and without the field they test.    *)
(***************************************************************************)
Tree == INSTANCE ConditionTree WITH MaxNodes <- 6, MaxDepth <- 3

Group(k, kids) == Tree!Group(k, kids)
Num(n) == [t |-> "number", v |-> n]
Text(s) == [t |-> "string", v |-> s]
Always == Tree!Leaf("always")
Pay(op, v) == [Tree!Leaf("payload") EXCEPT !.field = "f", !.op = op, !.value = v]
In(s) == [Tree!Leaf("outcome_in") EXCEPT !.outcomes = s]

Leaves ==
  {Always, Tree!Leaf("never"), In(<<"review">>), In(<<"review", "review">>), In(<<>>)}
  \cup {Pay(op, v) : op \in {"eq", "neq", "gt", "gte", "lt", "lte", "contains"},
                     v \in {Num(1), Text(<<"a">>), [t |-> "null"], Tree!NoValue, [t |-> "object"]}}
  \cup {Pay("exists", Tree!NoValue), Pay("not_exists", Tree!NoValue), Pay("exists", Num(1)), Pay("like", Num(1))}
  \cup {[In(<<"review">>) EXCEPT !.field = "f"], [Tree!Leaf("all") EXCEPT !.outcomes = <<"review">>]}

SomeLeaves == {Always, Tree!Leaf("never"), In(<<"review">>), Pay("neq", Num(1)), Pay("gt", Num(1))}
Pairs == {Group(k, <<x, y>>) : k \in {"all", "any"}, x \in SomeLeaves, y \in SomeLeaves}
Deep == {Group(k, <<p, Always>>) : k \in {"all", "any"}, p \in Pairs}
Trees == Leaves \cup Pairs \cup Deep \cup {Group("any", <<d>>) : d \in Deep}
         \cup {Group("all", <<>>), Tree!Leaf("odd")}
Fields == {[x \in {} |-> 0]} \cup
  {[x \in {"f"} |-> v] : v \in {Num(0), Num(1), Num(2), Text(<<"a", "b">>), [t |-> "null"],
                                [t |-> "bool", v |-> TRUE], [t |-> "list"]}}
Probes == [tree : Trees, outcome : {"review", "approve"}, fields : Fields]
NoProbe == NoRow

(***************************************************************************)
(* Workflows: two editors, one of them no administrator, and a clerk.      *)
(***************************************************************************)
FlowTreeValid(t) == Tree!Validate(t)
FlowTitleExpands(t) == Tree!Expandable(t)
FlowFormulaValid(f) == FALSE

Draft(name, on) ==
  [name |-> name, enabled |-> on, outcomes |-> <<"review">>, tree |-> NoTree, act |-> "create_case",
   inbox |-> "i1", title |-> <<"t">>, mode |-> "", tags |-> <<>>]

Drafts ==
  {Draft("a", TRUE),
   [Draft("b", FALSE) EXCEPT !.outcomes = <<>>, !.tree = Pay("gt", Num(1)), !.mode = "template",
                             !.title = <<"t", "score", "">>, !.tags = <<"g">>, !.inbox = "i2"]}

Flow == INSTANCE WorkflowAuthoring WITH
  rules <- wrules, RuleIDs <- {r1, r2}, LegacyIDs <- {w1}, Editors <- {"e1", "e2"}, Clerks <- {"c"},
  Admins <- {"e1"}, InboxUsers <- {<<"i1", "e2">>}, Names <- {"n"},
  ActiveInboxes <- {"i1", "i2"}, AllInboxes <- {"i1", "i2", "i3"}, LiveTags <- {"g"}, AllTags <- {"g", "gone"},
  Conditions <- {[fn |-> "always", params |-> [t |-> "null"]],
                 [fn |-> "condition_tree", params |-> [t |-> "tree", v |-> Tree!Leaf("odd")]]},
  Actions <- {[act |-> "create_case", version |-> 2, inbox |-> "i1", title |-> <<"t">>, mode |-> "",
               tags |-> <<>>, url |-> FALSE, template |-> FALSE]},
  MaxRules <- 1, MaxTags <- 2, Skew <- 15, MaxClock <- 3, MaxSubmits <- 1,
  TreeValid <- FlowTreeValid, TitleExpands <- FlowTitleExpands, FormulaValid <- FlowFormulaValid

(***************************************************************************)
(* The specification.                                                      *)
(***************************************************************************)
DecisionsInit ==
  /\ focus \in Foci
  /\ MCInit /\ Flow!Init
  /\ focus # "decisions" => budget = 3
  /\ IF focus = "trees" THEN probe \in Probes ELSE probe = NoProbe
  /\ IF focus = "formulas" THEN Formula!Init
     ELSE /\ formula = NoRow /\ rt = NoRow
          /\ verdict = Formula!None /\ value = Formula!None /\ evidence = Formula!None

DecisionsNext ==
  /\ UNCHANGED <<focus, probe>>
  /\ \/ focus = "decisions" /\ Next /\ UNCHANGED <<formulaVars, workflowVars>>
     \/ focus = "formulas" /\ Formula!Next /\ UNCHANGED <<vars, workflowVars>>
     \/ focus = "workflows" /\ Flow!Next /\ UNCHANGED <<vars, formulaVars>>

DecisionsSpec == DecisionsInit /\ [][DecisionsNext]_<<vars, formulaVars, workflowVars, probe, focus>>

RequestSymmetry == Permutations(Clients) \cup Permutations({r1, r2})

\* WHAT IS ACCEPTED BEHAVES: a formula that ValidateNode accepts evaluates to the
\* type it was given, the catalogue's examples among them, and a condition tree
\* that Validate accepts obeys the laws authors rely on when they rearrange it,
\* for decisions with and without the field and of every JSON type.
AcceptedBehaves ==
  /\ focus = "formulas" => Formula!ValidatedIsWellTyped /\ Formula!CatalogIsTrue
  /\ focus = "trees" => Tree!TreeLaws(probe.tree, probe.outcome, probe.fields)

\* EVALUATIONS AGREE: the one with evidence and the plain one node by node, and the
\* SQL of an aggregate's filters and the rule conditions with the same operators
\* record by record, NULLs included; the answer aggregates the records they select.
EvaluationsAgree == focus = "formulas" => Formula!EvidenceAgrees /\ Formula!PushdownAgrees

\* THE EDITOR'S VERSIONS WORK: nobody saves over a row they have not been shown,
\* the repeat of a request whose answer was lost is told of its success, and it is
\* applied once.
EditsAreInformed ==
  []Flow!OneEventPerSubmission /\ [][Flow!KnowsTheRow /\ Flow!AcknowledgesRepeats]_workflowVars
=============================================================================
