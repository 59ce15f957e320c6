-------------------------- MODULE DecisionEvaluation --------------------------
(***************************************************************************)
(* What an evaluation of one scenario computes from the rows it read: rule *)
(* executions, score and outcome, and the workflow executions, screenings, *)
(* scoring requests and outbox events that are stored with the decision.   *)
(*                                                                         *)
(* rs is a function from rule ids to rule rows [formula, mod, group].      *)
(* val[f] is what the formula f evaluates to for the object at hand:       *)
(* "yes", "no" or "error" (see AstEvaluator).                              *)
(***************************************************************************)
EXTENDS Integers, Sequences, SequencesExt, FiniteSetsExt

CONSTANTS
  NoThreshold,
  NoGroup,               \* a rule without a snooze group
  TreeValid(_),          \* ConditionTree.Validate
  TreeMatches(_, _)      \* ConditionTree.Matches(outcome, fields of the object)

Outcomes == {"approve", "review", "block_and_review", "decline"}

(***************************************************************************)
(* Rules.                                                                  *)
(***************************************************************************)
\* at most as many goroutines as rules, at least one
resolveConcurrency(configured, count, default) ==
  IF count <= 0 THEN 1
  ELSE IF configured > 0 THEN Min({configured, count})
  ELSE Max({1, Min({default, count})})

\* every rule that is not snoozed is evaluated; one error fails them all
evaluateRules(rs, snoozed, val) ==
  [r \in DOMAIN rs |-> IF rs[r].group # NoGroup /\ rs[r].group \in snoozed
                       THEN "snoozed" ELSE val[rs[r].formula]]

RulesFail(evaluated) == \E r \in DOMAIN evaluated : evaluated[r] = "error"

newRuleExecution(rule, result) ==
  [outcome |-> IF result = "yes" THEN "hit" ELSE IF result = "snoozed" THEN "snoozed" ELSE "no_hit",
   mod |-> rule.mod]

RuleExecutions(rs, evaluated) == [r \in DOMAIN rs |-> newRuleExecution(rs[r], evaluated[r])]

Hits(execs) == {r \in DOMAIN execs : execs[r].outcome = "hit"}

Score(execs) == MapThenSumSet(LAMBDA r : execs[r].mod, Hits(execs))

\* the highest threshold the score reaches; an unset threshold is never reached
outcomeFromScore(score, thr) ==
  LET reached(t) == t # NoThreshold /\ score >= t
  IN IF reached(thr.decline) THEN "decline"
     ELSE IF reached(thr.block) THEN "block_and_review"
     ELSE IF reached(thr.review) THEN "review"
     ELSE "approve"

(***************************************************************************)
(* Workflows.  A condition is [fn, ...]; its value "yes", "no" or "error". *)
(***************************************************************************)
evaluateWorkflowCondition(cond, outcome, execs, val) ==
  CASE cond.fn = "always"     -> "yes"
    [] cond.fn = "never"      -> "no"
    [] cond.fn = "outcome_in" -> IF outcome \in cond.outcomes THEN "yes" ELSE "no"
    [] cond.fn = "rule_hit"   -> IF cond.rules \cap Hits(execs) # {} THEN "yes" ELSE "no"
    [] cond.fn = "payload_evaluates" -> val[cond.formula]
    [] cond.fn = "condition_tree" ->
         IF ~TreeValid(cond.tree) THEN "error"
         ELSE IF TreeMatches(cond.tree, outcome) THEN "yes" ELSE "no"
    [] OTHER -> "error"

\* conditions are tried in order up to the first that does not hold
RuleVerdict(rule, outcome, execs, val) ==
  LET v(k) == evaluateWorkflowCondition(rule.conds[k], outcome, execs, val)
      stop == {k \in 1 .. Len(rule.conds) : v(k) # "yes"}
  IN IF rule.actions = <<>> THEN "skipped"
     ELSE IF stop = {} THEN "yes" ELSE v(Min(stop))

CaseActions == {"create_case", "add_to_case", "add_to_case_if_possible"}

\* workflowActionConfig: the title template of a case action is resolved now,
\* so that a retry carries the same title; an empty title is an error
ActionConfigFails(a) == a.type \in CaseActions /\ a.title \in {"empty", "invalid"}

Dispatched(actions) == SelectSeq(actions, LAMBDA a : a.type # "do_nothing")

Execs(failed, actions) == [failed |-> failed, actions |-> IF failed THEN <<>> ELSE actions]

\* a rule that matches and does not fall through ends the loop
buildStructuredWorkflowExecutions(wrules, outcome, execs, val) ==
  LET v(k)    == RuleVerdict(wrules[k], outcome, execs, val)
      ends    == {k \in 1 .. Len(wrules) : v(k) = "error" \/ (v(k) = "yes" /\ ~wrules[k].fall)}
      last    == IF ends = {} THEN Len(wrules) ELSE Min(ends)
      matched == {k \in 1 .. last : v(k) = "yes"}
      acts(k) == IF k \in matched THEN Dispatched(wrules[k].actions) ELSE <<>>
      chosen  == FlattenSeq([k \in 1 .. last |-> acts(k)])
  IN Execs(\/ \E k \in 1 .. last : v(k) = "error"
           \/ \E k \in 1 .. Len(chosen) : ActionConfigFails(chosen[k]), chosen)

\* legacy workflows are consulted only where there is no structured rule
buildWorkflowExecutions(wrules, legacy, outcome, execs, val) ==
  LET matching == SelectSeq(legacy, LAMBDA d : outcome \in d.outcomes)
      actions  == [k \in 1 .. Len(matching) |-> matching[k].action]
  IN IF wrules # <<>> THEN buildStructuredWorkflowExecutions(wrules, outcome, execs, val)
     ELSE Execs(\E k \in 1 .. Len(actions) : ActionConfigFails(actions[k]), actions)

\* active configurations (of screening, of scoring) that allow the outcome
buildRequests(configs, outcome) == {k \in DOMAIN configs : outcome \in configs[k].outcomes}

\* one event for the decision and one for each thing it started
buildOutboxEvents(wf, screenings, scorings) ==
  [created |-> 1, workflow |-> Len(wf), screening |-> screenings, scoring |-> scorings]

(***************************************************************************)
(* What a decision by iteration row it with rules rs must look like.       *)
(***************************************************************************)
Evaluated(it, rs, snoozed, val) ==
  LET execs == RuleExecutions(rs, evaluateRules(rs, snoozed, val))
  IN [execs |-> execs, score |-> Score(execs), outcome |-> outcomeFromScore(Score(execs), it.thr)]
=============================================================================
