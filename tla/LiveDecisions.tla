---------------------------- MODULE LiveDecisions ----------------------------
(***************************************************************************)
(* Decisions by the live iteration while scenarios are being edited:       *)
(* DecisionService.EvaluateScenario and EvaluateAllLiveScenarios, snoozes, *)
(* screening and scoring configurations, and test runs.                    *)
(*                                                                         *)
(* An evaluation reads the scenario, its live iteration, the rules and the *)
(* configurations one after the other, most of them through caches, and    *)
(* then stores the decision with everything it starts in one transaction.  *)
(* seen holds, for each cache key, every value that some evaluation (of    *)
(* this or of another process) may have loaded: a getter answers with any  *)
(* of them or fails.  That allows for every order of expiry, invalidation  *)
(* and shared loads; MetadataCache bounds the age of an answer.            *)
(***************************************************************************)
EXTENDS ScenarioAuthoring

CONSTANTS
  Evals,            \* evaluation requests
  Objects,          \* prepared objects: their identity and fields passed validation
  ObjectType,       \* [Objects -> ObjectTypes]
  Value,            \* [Formulas -> [Objects -> {"yes", "no", "error"}]]
  NoGroup,
  ConfigIDs,        \* screening and scoring configurations
  Structured,       \* the structured workflow rules a scenario may have
  Legacy,           \* and its legacy workflows
  TestRunIDs,
  TreeValid(_), TreeMatches(_, _)

\* a formula evaluates to a boolean or fails
ASSUME ValueAssumption == Value \in [Formulas -> [Objects -> {"yes", "no", "error"}]]

INSTANCE DecisionEvaluation

VARIABLES snoozes, configs, seen, evals, decisions, testRuns, phantoms, touched, quota

decisionVars == <<snoozes, configs, evals, decisions, testRuns, phantoms, quota>>
vars == <<authoringVars, decisionVars, seen, touched>>

(***************************************************************************)
(* What a cache may hold.                                                  *)
(***************************************************************************)
\* ListLiveByTriggerObject
LiveScenarios(t) ==
  {s \in ScenarioIDs : ScenarioExists(s) /\ scenarios[s].type = t /\ scenarios[s].live # NoID}

\* identifiers are not used again: a deleted configuration belongs to no scenario
ConfigExists(k) == configs[k] # NoRow /\ configs[k].scn # NoID

ActiveConfigs(s) ==
  [k \in {x \in ConfigIDs : ConfigExists(x) /\ configs[x].scn = s /\ configs[x].active} |->
    configs[k]]

NothingSeen ==
  [scn  |-> [s \in ScenarioIDs |-> {}],
   iter |-> [i \in IterationIDs |-> {}],
   rule |-> [i \in IterationIDs |-> {}],
   live |-> [t \in ObjectTypes |-> {}],
   conf |-> [s \in ScenarioIDs |-> {}]]

Current ==
  [scn  |-> [s \in ScenarioIDs |-> IF ScenarioExists(s) THEN {scenarios[s]} ELSE {}],
   iter |-> [i \in IterationIDs |-> IF iterations[i] # NoRow THEN {iterations[i]} ELSE {}],
   rule |-> [i \in IterationIDs |-> IF iterations[i] # NoRow THEN {RuleRows(i)} ELSE {}],
   live |-> [t \in ObjectTypes |-> {LiveScenarios(t)}],
   conf |-> [s \in ScenarioIDs |-> {ActiveConfigs(s)}]]

\* the keys are (scenario), (scenario, iteration), (scenario, iteration), (type)
\* and (scenario); an iteration is asked for only as the live one of a scenario
Loaded(old, now) ==
  LET Both(f, g) == [x \in DOMAIN f |-> f[x] \cup g[x]]
      scn  == Both(old.scn, now.scn)
      used == {v.live : v \in UNION {scn[s] : s \in ScenarioIDs}}
      Used(f) == [i \in IterationIDs |-> IF i \in used THEN f[i] ELSE {}]
  IN [scn  |-> scn,
      iter |-> Both(old.iter, Used(now.iter)),
      rule |-> Both(old.rule, Used(now.rule)),
      live |-> Both(old.live, now.live),
      conf |-> Both(old.conf, now.conf)]

getScenario(s)      == seen.scn[s]
getIteration(s, i)  == {v \in seen.iter[i] : v.scn = s}

\* (Mutant: the key of the rules is the scenario without the iteration.)
getRulesOfScenario(s, i) == UNION {seen.rule[j] : j \in IterationIDs}

getRules(s, i)      == seen.rule[i]
getLiveScenariosByTriggerObject(t) == seen.live[t]
getActiveConfigs(s) == seen.conf[s]

Val(o, f) == Value[f][o]
ValuesFor(o) == [f \in DOMAIN Value |-> Value[f][o]]

(***************************************************************************)
(* Evaluations: one branch per scenario.                                   *)
(***************************************************************************)
Ended(b) == b.st \in {"none", "stored", "quiet", "failed"}
NoBranch == [st |-> "none"]

StartEvaluation(e, o, S) ==
  /\ evals[e] = NoRequest /\ quota.evals > 0
  /\ evals' = [evals EXCEPT ![e] =
       [obj |-> o, b |-> [s \in ScenarioIDs |-> IF s \in S THEN [st |-> "scenario"] ELSE NoBranch]]]
  /\ quota' = [quota EXCEPT !.evals = @ - 1]
  /\ UNCHANGED <<authoringVars, snoozes, configs, decisions, testRuns, phantoms>>

EvaluateScenario(e, s, o) == StartEvaluation(e, o, {s})

EvaluateAllLiveScenarios(e, o) ==
  \E S \in getLiveScenariosByTriggerObject(ObjectType[o]) : StartEvaluation(e, o, S)

At(e, s, st) == evals[e] # NoRequest /\ evals[e].b[s].st = st

Move(e, s, b) ==
  /\ evals' = [evals EXCEPT ![e].b[s] = b]
  /\ UNCHANGED <<authoringVars, snoozes, configs, testRuns, phantoms, quota>>

\* scenario_get
ReadScenario(e, s) ==
  /\ At(e, s, "scenario")
  /\ \E scn \in getScenario(s) :
       Move(e, s, IF scn.live = NoID THEN [st |-> "failed"]
                  ELSE [st |-> "iteration", scn |-> scn])
  /\ UNCHANGED decisions

\* iteration_get, the check of the object's type, trigger_eval
ReadIteration(e, s) ==
  LET scn == evals[e].b[s].scn
      o   == evals[e].obj
  IN /\ At(e, s, "iteration")
     /\ \E it \in getIteration(s, scn.live) :
          Move(e, s, IF ObjectType[o] # scn.type \/ Val(o, it.trigger) = "error" THEN [st |-> "failed"]
                     ELSE IF Val(o, it.trigger) = "no" THEN [st |-> "quiet"]
                     ELSE [st |-> "rules", i |-> scn.live, it |-> it])
     /\ UNCHANGED decisions

\* rules_list
ReadRules(e, s) ==
  LET b == evals[e].b[s]
  IN /\ At(e, s, "rules")
     /\ \E rs \in getRules(s, b.i) :
          Move(e, s, [st |-> "evaluate", i |-> b.i, it |-> b.it, rs |-> rs])
     /\ UNCHANGED decisions

ActiveSnoozes(s, o) == {g \in Groups : <<s, o, g>> \in snoozes}

\* snoozes_list (not cached), rules_eval, decision_build
EvaluateRules(e, s) ==
  LET b  == evals[e].b[s]
      o  == evals[e].obj
      sn == ActiveSnoozes(s, o)
  IN /\ At(e, s, "evaluate")
     /\ Move(e, s, IF RulesFail(evaluateRules(b.rs, sn, ValuesFor(o))) THEN [st |-> "failed"]
                   ELSE [st |-> "build", i |-> b.i, d |-> Evaluated(b.it, b.rs, sn, ValuesFor(o))])
     /\ UNCHANGED decisions

\* workflow_build, screening_build, scoring_build
BuildOutputs(e, s) ==
  LET b == evals[e].b[s]
  IN /\ At(e, s, "build")
     /\ \E w \in Structured, l \in Legacy, cs \in getActiveConfigs(s) :
          LET wf == buildWorkflowExecutions(w, l, b.d.outcome, b.d.execs, ValuesFor(evals[e].obj))
          IN Move(e, s, IF wf.failed THEN [st |-> "failed"]
                        ELSE [st |-> "store", i |-> b.i, d |-> b.d, wf |-> wf.actions,
                              reqs |-> buildRequests(cs, b.d.outcome)])
     /\ UNCHANGED decisions

\* the foreign keys of the decision, its rule executions and its requests
ReferencesHold(s, b) ==
  /\ ScenarioExists(s)
  /\ IterationOf(s, b.i)
  /\ \A r \in DOMAIN b.d.execs : rules[r] # NoRow
  /\ \A k \in b.reqs : ConfigExists(k)

\* one transaction: the decision, its executions and requests, their jobs, and
\* the outbox events with theirs
StoreDecision(e, s) ==
  LET b == evals[e].b[s]
      n(kind) == Cardinality({k \in b.reqs : configs[k].kind = kind})
  IN /\ At(e, s, "store")
     /\ IF ReferencesHold(s, b)
        THEN /\ decisions' = [decisions EXCEPT ![e][s] =
                  [i |-> b.i, obj |-> evals[e].obj, d |-> b.d, wf |-> b.wf, reqs |-> b.reqs,
                   events |-> buildOutboxEvents(b.wf, n("screening"), n("scoring"))]]
             /\ Move(e, s, [st |-> "stored"])
        ELSE Move(e, s, [st |-> "failed"]) /\ UNCHANGED decisions

\* a query or the transaction fails; after the first failure the group's context
\* is cancelled, and the branches that have not ended fail in the same way
BranchFails(e, s) ==
  /\ evals[e] # NoRequest /\ ~Ended(evals[e].b[s])
  /\ Move(e, s, [st |-> "failed"])
  /\ UNCHANGED decisions

(***************************************************************************)
(* Snoozes and configurations.                                             *)
(***************************************************************************)
Spend == budget > 0 /\ budget' = budget - 1
KeepAuthoring == UNCHANGED <<scenarios, iterations, rules, publications, indexJobs, nextID, req>>

\* SnoozeService.Create, and the moment expires_at passes
CreateSnooze(s, o, g) ==
  /\ ScenarioExists(s) /\ Spend
  /\ snoozes' = snoozes \cup {<<s, o, g>>}
  /\ KeepAuthoring
  /\ UNCHANGED <<configs, evals, decisions, testRuns, phantoms, quota>>

SnoozeExpires(z) ==
  /\ z \in snoozes
  /\ snoozes' = snoozes \ {z}
  /\ UNCHANGED <<authoringVars, configs, evals, decisions, testRuns, phantoms, quota>>

WriteConfig(k, row) ==
  /\ Spend
  /\ configs' = [configs EXCEPT ![k] = row]
  /\ KeepAuthoring
  /\ UNCHANGED <<snoozes, evals, testRuns, phantoms, quota>>

CreateConfig(k, s, kind, outs) ==
  /\ ScenarioExists(s)
  /\ configs[k] = NoRow /\ outs # {}
  /\ WriteConfig(k, [scn |-> s, kind |-> kind, active |-> TRUE, outcomes |-> outs])
  /\ UNCHANGED decisions

UpdateConfig(k, active, outs) ==
  /\ ConfigExists(k) /\ outs # {}
  /\ WriteConfig(k, [configs[k] EXCEPT !.active = active, !.outcomes = outs])
  /\ UNCHANGED decisions

\* a hard delete, and with it the executions (or requests) of the configuration
DeleteConfig(k) ==
  /\ ConfigExists(k)
  /\ WriteConfig(k, [configs[k] EXCEPT !.scn = NoID])
  /\ decisions' = [e \in Evals |-> [s \in ScenarioIDs |->
       IF decisions[e][s] = NoRow THEN NoRow
       ELSE [decisions[e][s] EXCEPT !.reqs = @ \ {k}]]]

ConfigStep(k, kind) ==
  \/ configs[k] # NoRow /\ configs[k].kind = kind /\ DeleteConfig(k)
  \/ \E outs \in {{"review"}, {"approve", "review"}} :
       \/ configs[k] # NoRow /\ configs[k].kind = kind /\ \E a \in BOOLEAN : UpdateConfig(k, a, outs)
       \/ \E s \in ScenarioIDs : CreateConfig(k, s, kind, outs)

ScreeningConfigStep(k) == ConfigStep(k, "screening")
ScoringConfigStep(k)   == ConfigStep(k, "scoring")

(***************************************************************************)
(* Test runs: the live iteration beside a phantom one, on fresh rows.      *)
(***************************************************************************)
\* read and insert are one step: what changes between them could as well change
\* after, because the row pins both iterations
CreateTestRun(t, s, ph) ==
  /\ testRuns[t] = NoRow /\ quota.tests > 0
  /\ ScenarioExists(s) /\ scenarios[s].live # NoID /\ scenarios[s].live # ph
  /\ IterationOf(s, ph)
  /\ testRuns' = [testRuns EXCEPT ![t] =
       [scn |-> s, live |-> scenarios[s].live, ph |-> ph, status |-> "up", at |-> NoRequest]]
  /\ quota' = [quota EXCEPT !.tests = @ - 1]
  /\ UNCHANGED <<authoringVars, snoozes, configs, evals, decisions, phantoms>>

SetTestRun(t, row) ==
  /\ testRuns' = [testRuns EXCEPT ![t] = row]
  /\ UNCHANGED <<authoringVars, snoozes, configs, evals, decisions>>

CancelTestRun(t) ==
  /\ testRuns[t] # NoRow /\ testRuns[t].status = "up"
  /\ SetTestRun(t, [testRuns[t] EXCEPT !.status = "down"])
  /\ UNCHANGED <<phantoms, quota>>

\* the live side is evaluated and only answered: a failure there ends the request
EvaluateTestRun(t, o) ==
  LET tr == testRuns[t]
  IN /\ tr # NoRow /\ tr.status = "up" /\ tr.at = NoRequest /\ quota.tests > 0
     /\ ScenarioExists(tr.scn) /\ scenarios[tr.scn].type = ObjectType[o]
     /\ IterationOf(tr.scn, tr.live) /\ IterationOf(tr.scn, tr.ph)
     /\ Val(o, iterations[tr.live].trigger) # "error"
     /\ Val(o, iterations[tr.ph].trigger) = "yes"
     /\ SetTestRun(t, [tr EXCEPT !.at = [st |-> "rules", obj |-> o, it |-> iterations[tr.ph]]])
     /\ quota' = [quota EXCEPT !.tests = @ - 1]
     /\ UNCHANGED phantoms

\* no snooze applies to a test run
EvaluatePhantomRules(t) ==
  LET tr == testRuns[t]
      rs == RuleRows(tr.ph)
  IN /\ tr # NoRow /\ tr.at # NoRequest /\ tr.at.st = "rules"
     /\ SetTestRun(t, [tr EXCEPT !.at =
          IF RulesFail(evaluateRules(rs, {}, ValuesFor(tr.at.obj))) THEN NoRequest
          ELSE [st |-> "store", obj |-> tr.at.obj, was |-> tr.at.it.status,
                d |-> Evaluated(tr.at.it, rs, {}, ValuesFor(tr.at.obj))]])
     /\ UNCHANGED <<phantoms, quota>>

StorePhantom(t) ==
  LET tr == testRuns[t]
  IN /\ tr # NoRow /\ tr.at # NoRequest /\ tr.at.st = "store"
     /\ phantoms' = IF /\ IterationOf(tr.scn, tr.ph)
                       /\ \A r \in DOMAIN tr.at.d.execs : rules[r] # NoRow
                    THEN phantoms \cup {[t |-> t, i |-> tr.ph, was |-> tr.at.was, obj |-> tr.at.obj, d |-> tr.at.d]}
                    ELSE phantoms
     /\ SetTestRun(t, [tr EXCEPT !.at = NoRequest])
     /\ UNCHANGED quota

(***************************************************************************)
(* The composition.  Deleting a scenario deletes its decisions, test runs, *)
(* snoozes and configurations; deleting a rule, its executions.            *)
(***************************************************************************)
Cascade ==
  LET gone(s) == scenarios[s] # NoRow /\ scenarios'[s] = NoRow
      lost    == {r \in RuleIDs : rules[r] # NoRow /\ rules'[r] = NoRow}
      Keep(f) == [r \in DOMAIN f \ lost |-> f[r]]
  IN /\ decisions' = [e \in Evals |-> [s \in ScenarioIDs |->
          IF decisions[e][s] = NoRow \/ gone(s) THEN NoRow
          ELSE [decisions[e][s] EXCEPT !.d.execs = Keep(@)]]]
     /\ snoozes' = {z \in snoozes : ~gone(z[1])}
     /\ configs' = [k \in ConfigIDs |->
          IF ConfigExists(k) /\ gone(configs[k].scn) THEN [configs[k] EXCEPT !.scn = NoID]
          ELSE configs[k]]
     /\ testRuns' = [t \in TestRunIDs |->
          IF testRuns[t] # NoRow /\ gone(testRuns[t].scn) THEN NoRow ELSE testRuns[t]]
     /\ phantoms' = {[p EXCEPT !.d.execs = Keep(@)] : p \in
          {q \in phantoms : ~gone(testRuns[q.t].scn)}}
     /\ UNCHANGED <<evals, quota>>

TestRunStep(t) ==
  \/ \E s \in ScenarioIDs, i \in IterationIDs : CreateTestRun(t, s, i)
  \/ CancelTestRun(t)
  \/ \E o \in Objects : EvaluateTestRun(t, o)
  \/ EvaluatePhantomRules(t)
  \/ StorePhantom(t)

SnoozeStep ==
  \/ \E s \in ScenarioIDs, o \in Objects, g \in Groups \ {NoGroup} : CreateSnooze(s, o, g)
  \/ \E z \in snoozes : SnoozeExpires(z)

EvaluationStep(e, s) ==
  \/ ReadScenario(e, s) \/ ReadIteration(e, s) \/ ReadRules(e, s)
  \/ EvaluateRules(e, s) \/ BuildOutputs(e, s) \/ StoreDecision(e, s)

DecisionNext ==
  \/ \E e \in Evals, o \in Objects :
       EvaluateAllLiveScenarios(e, o) \/ \E s \in ScenarioIDs : EvaluateScenario(e, s, o)
  \/ \E e \in Evals, s \in ScenarioIDs : evals[e] # NoRequest /\ (EvaluationStep(e, s) \/ BranchFails(e, s))
  \/ SnoozeStep
  \/ \E k \in ConfigIDs : ScreeningConfigStep(k) \/ ScoringConfigStep(k)
  \/ \E t \in TestRunIDs : TestRunStep(t)

\* iterations whose row or rules changed after they were committed
TouchedNow ==
  {i \in IterationIDs : /\ iterations[i] # NoRow /\ iterations[i].status = "committed"
                        /\ iterations'[i] # iterations[i] \/ RuleRows(i)' # RuleRows(i)}

DecisionInit ==
  /\ snoozes = {}
  /\ configs = [k \in ConfigIDs |-> NoRow]
  /\ evals = [e \in Evals |-> NoRequest]
  /\ decisions = [e \in Evals |-> [s \in ScenarioIDs |-> NoRow]]
  /\ testRuns = [t \in TestRunIDs |-> NoRow]
  /\ phantoms = {}
  /\ touched = {}
  /\ seen = Loaded(NothingSeen, Current)

Next ==
  /\ (AuthoringNext /\ Cascade) \/ DecisionNext
  /\ seen' = Loaded(seen, Current')
  /\ touched' = touched \cup TouchedNow

DecisionSpec == Init /\ DecisionInit /\ [][Next]_vars

(***************************************************************************)
(* Properties.                                                             *)
(***************************************************************************)
AsCommitted(i, o, d) ==
  /\ Val(o, iterations[i].trigger) = "yes"
  /\ DOMAIN d.execs = RulesOf(i)
  /\ \A r \in RulesOf(i) :
       /\ d.execs[r].mod = rules[r].mod
       /\ \/ d.execs[r].outcome = "snoozed" /\ rules[r].group # NoGroup
          \/ d.execs[r].outcome = "hit" /\ Val(o, rules[r].formula) = "yes"
          \/ d.execs[r].outcome = "no_hit" /\ Val(o, rules[r].formula) = "no"
  /\ d.score = Score(d.execs)
  /\ d.outcome = outcomeFromScore(d.score, iterations[i].thr)

\* A stored decision names an iteration of its scenario, and if that iteration was
\* not changed after its commit (see FrozenOnceQuiet) the decision is exactly what
\* its trigger, rules, modifiers and thresholds say, although scenario, iteration
\* and rules were read at different times through caches of any age.  The same
\* holds of a phantom decision of a committed iteration.
DecidedAsCommitted ==
  /\ \A e \in Evals, s \in ScenarioIDs :
       LET r == decisions[e][s]
       IN r # NoRow => /\ IterationOf(s, r.i)
                       /\ r.i \notin touched => AsCommitted(r.i, r.obj, r.d)
  /\ \A p \in phantoms :
       p.was = "committed" /\ p.i \notin touched => AsCommitted(p.i, p.obj, p.d)
=============================================================================
