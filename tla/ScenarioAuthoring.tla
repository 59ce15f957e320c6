-------------------------- MODULE ScenarioAuthoring --------------------------
(***************************************************************************)
(* Authoring and publication of scenarios in the decision engine: the rows *)
(* of core.scenarios, core.scenario_iterations, core.rules and             *)
(* core.scenario_publications, and the requests that read and write them.  *)
(*                                                                         *)
(* Transactions run at READ COMMITTED and none of these reads locks its    *)
(* row, so a request is two steps (or three): what it read, kept in        *)
(* req[c], and the statement that writes.  Other requests come between.    *)
(* Names, descriptions and display order are left out; a formula is a      *)
(* member of a small set with the object types it validates for and the    *)
(* index its aggregates need.                                              *)
(***************************************************************************)
EXTENDS Integers, Sequences, FiniteSets

CONSTANTS
  Clients,          \* API requests that may be open at once
  MaxScenarios, MaxIterations, MaxRules,   \* bounds on the identifiers handed out
  MaxRequests,      \* bound on the number of authoring requests
  ObjectTypes,      \* the tables of the tenant model
  Formulas,
  AlwaysTrue,       \* the formula {"constant":true}, one of them
  FormulaTypes,     \* [Formulas -> SUBSET ObjectTypes]: valid and boolean for these
  FormulaTables,    \* [Formulas -> SUBSET ObjectTypes]: tables it refers to
  FormulaIndexes,   \* [Formulas -> SUBSET Indexes]
  Indexes,          \* index requirements (table and columns)
  IndexTable,       \* [Indexes -> ObjectTypes]
  Thresholds,       \* records [review, block, decline]; NoThreshold where unset
  Groups,           \* snooze groups a rule may name
  NoThreshold, NoRow, NoID, NoRequest

VARIABLES scenarios, iterations, rules, publications, indexJobs, nextID, req, budget

authoringVars == <<scenarios, iterations, rules, publications, indexJobs, nextID, req, budget>>
tables == <<scenarios, iterations, rules, publications, indexJobs, nextID>>

ScenarioIDs  == 1 .. MaxScenarios
IterationIDs == 1 .. MaxIterations
RuleIDs      == 1 .. MaxRules

(***************************************************************************)
(* Rows and the domain checks on them.                                     *)
(***************************************************************************)
DefaultThresholds == [review |-> 1, block |-> 10, decline |-> 20]
Mods == {1}         \* the score modifiers that requests carry

ScenarioRow  == [type : ObjectTypes, live : IterationIDs \cup {NoID}]
IterationRow == [scn : ScenarioIDs, ver : Nat, status : {"draft", "committed"},
                 trigger : Formulas, thr : Thresholds \cup {DefaultThresholds}]
RuleRow      == [iter : IterationIDs, formula : Formulas, mod : Mods, group : Groups,
                 stable : RuleIDs \cup {NoID}]

\* an identifier names at most one row, and NoRow is none of them
ASSUME AuthoringAssumption ==
  /\ MaxScenarios \in Nat /\ MaxIterations \in Nat /\ MaxRules \in Nat
  /\ AlwaysTrue \in Formulas
  /\ NoID \notin IterationIDs
  /\ NoRow \notin ScenarioRow \cup IterationRow \cup RuleRow

HasThresholds(t) == NoThreshold \notin {t.review, t.block, t.decline}
ThresholdsOrdered(t) == t.review <= t.block /\ t.block <= t.decline

\* Iteration.Validate: thresholds may be missing, but not out of order
IterationValidate(row) == HasThresholds(row.thr) => ThresholdsOrdered(row.thr)

DraftDefaults(s, v) ==
  [scn |-> s, ver |-> v, status |-> "draft", trigger |-> AlwaysTrue, thr |-> DefaultThresholds]

(***************************************************************************)
(* The repositories.                                                       *)
(***************************************************************************)
ScenarioExists(s)  == s \in ScenarioIDs /\ scenarios[s] # NoRow
IterationOf(s, i)  == i \in IterationIDs /\ iterations[i] # NoRow /\ iterations[i].scn = s
IterationsOf(s)    == {i \in IterationIDs : IterationOf(s, i)}
RuleOf(i, r)       == rules[r] # NoRow /\ rules[r].iter = i
RulesOf(i)         == {r \in RuleIDs : RuleOf(i, r)}

\* select coalesce(max(version), 0) + 1
NextVersion(s) ==
  IF IterationsOf(s) = {} THEN 1
  ELSE 1 + (CHOOSE v \in {iterations[i].ver : i \in IterationsOf(s)} :
              \A i \in IterationsOf(s) : iterations[i].ver <= v)

\* (Mutant: the unique index on (scenario_id, version) is missing.)
AnyVersionFree(s, v) == TRUE

\* the unique index on (scenario_id, version)
VersionFree(s, v) == \A i \in IterationsOf(s) : iterations[i].ver # v

IterationsCreate(i, row) == [iterations EXCEPT ![i] = row]
IterationsUpdate(i, row) ==
  [iterations EXCEPT ![i].trigger = row.trigger, ![i].thr = row.thr]
IterationsCommit(i) == [iterations EXCEPT ![i].status = "committed"]

RulesCreate(r, row) == [rules EXCEPT ![r] = row]
RulesUpdate(r, row) == [rules EXCEPT ![r] = row]
RulesDelete(r)      == [rules EXCEPT ![r] = NoRow]

ScenariosCreate(s, row) == [scenarios EXCEPT ![s] = row]
\* update core.scenarios set ..., live_iteration_id = $4: the whole row as read
ScenariosUpdate(s, row) == [scenarios EXCEPT ![s] = row]
SetLiveIterationID(s, i) == [scenarios EXCEPT ![s].live = i]

PublicationsCreate(s, events) == [publications EXCEPT ![s] = @ \o events]

(***************************************************************************)
(* Requests: Open keeps what the request read; Close ends it.              *)
(***************************************************************************)
Open(c, q) ==
  /\ req[c] = NoRequest
  /\ budget > 0
  /\ req' = [req EXCEPT ![c] = q]
  /\ budget' = budget - 1

Continue(c, q) == req' = [req EXCEPT ![c] = q] /\ UNCHANGED budget

Close(c) == req' = [req EXCEPT ![c] = NoRequest] /\ UNCHANGED budget

Pending(c, op) == req[c] # NoRequest /\ req[c].op = op

\* the answer is an error: nothing is written
Refuse(c) == Close(c) /\ UNCHANGED tables

(***************************************************************************)
(* Scenarios.                                                              *)
(***************************************************************************)
CreateScenario(c, t) ==
  /\ req[c] = NoRequest /\ budget > 0
  /\ t \in ObjectTypes
  /\ nextID.scn <= MaxScenarios
  /\ scenarios' = ScenariosCreate(nextID.scn, [type |-> t, live |-> NoID])
  /\ nextID' = [nextID EXCEPT !.scn = @ + 1]
  /\ budget' = budget - 1
  /\ UNCHANGED <<iterations, rules, publications, indexJobs, req>>

\* the row is read before the transaction, live_iteration_id with it
UpdateScenarioRead(c, s, t) ==
  /\ ScenarioExists(s)
  /\ t \in ObjectTypes
  /\ Open(c, [op |-> "update_scenario", s |-> s, row |-> [scenarios[s] EXCEPT !.type = t]])
  /\ UNCHANGED tables

UpdateScenarioWrite(c) ==
  /\ Pending(c, "update_scenario")
  /\ IF ScenarioExists(req[c].s)
     THEN /\ scenarios' = ScenariosUpdate(req[c].s, req[c].row)
          /\ Close(c)
          /\ UNCHANGED <<iterations, rules, publications, indexJobs, nextID>>
     ELSE Refuse(c)

CopyScenarioRead(c, s) ==
  /\ ScenarioExists(s)
  /\ Open(c, [op |-> "copy", s |-> s, row |-> scenarios[s],
              its |-> [i \in IterationsOf(s) |-> iterations[i]]])
  /\ UNCHANGED tables

\* the identifiers a copy of n rows takes, in the order of the old ones
Renumber(S, first) == [x \in S |-> first + Cardinality({y \in S : y < x})]

\* one transaction: the scenario, every iteration with its status, their rules
\* (listed now, not when the iterations were), and the live pointer
CopyScenarioWrite(c) ==
  LET q    == req[c]
      s2   == nextID.scn
      newI == Renumber(DOMAIN q.its, nextID.iter)
      old  == {r \in RuleIDs : rules[r] # NoRow /\ rules[r].iter \in DOMAIN q.its}
      newR == Renumber(old, nextID.rule)
      live == IF q.row.live \in DOMAIN q.its THEN newI[q.row.live] ELSE NoID
  IN /\ Pending(c, "copy")
     /\ s2 <= MaxScenarios
     /\ nextID.iter + Cardinality(DOMAIN q.its) - 1 <= MaxIterations
     /\ nextID.rule + Cardinality(old) - 1 <= MaxRules
     /\ scenarios' = ScenariosCreate(s2, [type |-> q.row.type, live |-> live])
     /\ iterations' = [i \in IterationIDs |->
          IF \E o \in DOMAIN newI : newI[o] = i
          THEN [q.its[CHOOSE o \in DOMAIN newI : newI[o] = i] EXCEPT !.scn = s2]
          ELSE iterations[i]]
     /\ rules' = [r \in RuleIDs |->
          IF \E o \in old : newR[o] = r
          THEN LET o == CHOOSE x \in old : newR[x] = r
               IN [rules[o] EXCEPT !.iter = newI[rules[o].iter], !.stable = r]
          ELSE rules[r]]
     /\ nextID' = [scn |-> s2 + 1, iter |-> nextID.iter + Cardinality(DOMAIN q.its),
                   rule |-> nextID.rule + Cardinality(old)]
     /\ Close(c)
     /\ UNCHANGED <<publications, indexJobs>>

\* delete from core.scenarios, and the foreign keys' cascades
DeleteScenario(c, s) ==
  /\ req[c] = NoRequest /\ budget > 0
  /\ ScenarioExists(s)
  /\ scenarios' = [scenarios EXCEPT ![s] = NoRow]
  /\ iterations' = [i \in IterationIDs |-> IF IterationOf(s, i) THEN NoRow ELSE iterations[i]]
  /\ rules' = [r \in RuleIDs |->
        IF rules[r] # NoRow /\ IterationOf(s, rules[r].iter) THEN NoRow ELSE rules[r]]
  /\ publications' = [publications EXCEPT ![s] = <<>>]
  /\ budget' = budget - 1
  /\ UNCHANGED <<indexJobs, nextID, req>>

\* GET .../latest-rules: the live iteration's rules, else the newest version's
LatestRules(s) ==
  LET newest == CHOOSE i \in IterationsOf(s) : iterations[i].ver = NextVersion(s) - 1
  IN IF IterationsOf(s) = {} THEN {}
     ELSE RulesOf(IF scenarios[s].live \in IterationsOf(s) THEN scenarios[s].live ELSE newest)

(***************************************************************************)
(* Iterations.                                                             *)
(***************************************************************************)
\* NextVersion is a statement of its own; the insert meets the unique index
CreateDraftRead(c, s) ==
  /\ ScenarioExists(s)
  /\ Open(c, [op |-> "create_draft", s |-> s, v |-> NextVersion(s)])
  /\ UNCHANGED tables

CreateDraftWrite(c) ==
  /\ Pending(c, "create_draft")
  /\ LET s == req[c].s IN
     IF ScenarioExists(s) /\ VersionFree(s, req[c].v)
     THEN /\ nextID.iter <= MaxIterations
          /\ iterations' = IterationsCreate(nextID.iter, DraftDefaults(s, req[c].v))
          /\ nextID' = [nextID EXCEPT !.iter = @ + 1]
          /\ Close(c)
          /\ UNCHANGED <<scenarios, rules, publications, indexJobs>>
     ELSE Refuse(c)

CloneDraftRead(c, s, i) ==
  /\ IterationOf(s, i)
  /\ Open(c, [op |-> "clone_draft", s |-> s, i |-> i, v |-> NextVersion(s),
              row |-> iterations[i]])
  /\ UNCHANGED tables

\* the source's rules are listed after the clone is inserted
CloneDraftWrite(c) ==
  LET q    == req[c]
      new  == nextID.iter
      newR == Renumber(RulesOf(q.i), nextID.rule)
  IN /\ Pending(c, "clone_draft")
     /\ IF ScenarioExists(q.s) /\ VersionFree(q.s, q.v)
        THEN /\ new <= MaxIterations
             /\ nextID.rule + Cardinality(RulesOf(q.i)) - 1 <= MaxRules
             /\ iterations' = IterationsCreate(new, [q.row EXCEPT !.ver = q.v, !.status = "draft"])
             /\ rules' = [r \in RuleIDs |->
                  IF \E o \in RulesOf(q.i) : newR[o] = r
                  THEN [rules[CHOOSE o \in RulesOf(q.i) : newR[o] = r] EXCEPT !.iter = new]
                  ELSE rules[r]]
             /\ nextID' = [nextID EXCEPT !.iter = @ + 1, !.rule = @ + Cardinality(RulesOf(q.i))]
             /\ Close(c)
             /\ UNCHANGED <<scenarios, publications, indexJobs>>
        ELSE Refuse(c)

UpdateDraftRead(c, s, i, f, t) ==
  LET row == [iterations[i] EXCEPT !.trigger = f, !.thr = t]
  IN /\ IterationOf(s, i)
     /\ iterations[i].status = "draft"
     /\ IterationValidate(row)
     /\ Open(c, [op |-> "update_draft", s |-> s, i |-> i, row |-> row])
     /\ UNCHANGED tables

\* the update's where clause names the row, not its status
UpdateDraftWrite(c) ==
  /\ Pending(c, "update_draft")
  /\ IF IterationOf(req[c].s, req[c].i)
     THEN /\ iterations' = IterationsUpdate(req[c].i, req[c].row)
          /\ Close(c)
          /\ UNCHANGED <<scenarios, rules, publications, indexJobs, nextID>>
     ELSE Refuse(c)

FormulaValid(f, type) == type \in FormulaTypes[f]

\* ValidationService.ValidateIteration
ValidateIteration(s, i) ==
  LET it == iterations[i]
  IN /\ scenarios[s].type \in ObjectTypes
     /\ FormulaValid(it.trigger, scenarios[s].type)
     /\ HasThresholds(it.thr)
     /\ ThresholdsOrdered(it.thr)
     /\ \A r \in RulesOf(i) : FormulaValid(rules[r].formula, scenarios[s].type)

\* outside the transaction that commits
CommitValidate(c, s, i) ==
  /\ IterationOf(s, i)
  /\ ValidateIteration(s, i)
  /\ Open(c, [op |-> "commit", s |-> s, i |-> i, phase |-> "validated"])
  /\ UNCHANGED tables

CommitRead(c) ==
  /\ Pending(c, "commit") /\ req[c].phase = "validated"
  /\ IF IterationOf(req[c].s, req[c].i) /\ iterations[req[c].i].status = "draft"
     THEN Continue(c, [req[c] EXCEPT !.phase = "draft"]) /\ UNCHANGED tables
     ELSE Refuse(c)

CommitWrite(c) ==
  /\ Pending(c, "commit") /\ req[c].phase = "draft"
  /\ IF IterationOf(req[c].s, req[c].i)
     THEN /\ iterations' = IterationsCommit(req[c].i)
          /\ Close(c)
          /\ UNCHANGED <<scenarios, rules, publications, indexJobs, nextID>>
     ELSE Refuse(c)

(***************************************************************************)
(* Rules: the iteration's status is read, then the rule is written.        *)
(***************************************************************************)
\* (Mutant: the rule service does not look at the status of the iteration.)
RuleRequestReadAnyStatus(c, q) ==
  /\ IterationOf(q.s, q.i)
  /\ Open(c, q)
  /\ UNCHANGED tables

RuleRequestRead(c, q) ==
  /\ IterationOf(q.s, q.i)
  /\ iterations[q.i].status = "draft"
  /\ Open(c, q)
  /\ UNCHANGED tables

CreateRuleRead(c, s, i, row) ==
  RuleRequestRead(c, [op |-> "create_rule", s |-> s, i |-> i, row |-> row])

CreateRuleWrite(c) ==
  /\ Pending(c, "create_rule")
  /\ IF IterationOf(req[c].s, req[c].i)
     THEN /\ nextID.rule <= MaxRules
          /\ rules' = RulesCreate(nextID.rule, [req[c].row EXCEPT !.stable = nextID.rule])
          /\ nextID' = [nextID EXCEPT !.rule = @ + 1]
          /\ Close(c)
          /\ UNCHANGED <<scenarios, iterations, publications, indexJobs>>
     ELSE Refuse(c)

UpdateRuleRead(c, s, i, r, f, mod) ==
  /\ RuleOf(i, r)
  /\ RuleRequestRead(c, [op |-> "update_rule", s |-> s, i |-> i, r |-> r,
                         row |-> [rules[r] EXCEPT !.formula = f, !.mod = mod]])

UpdateRuleWrite(c) ==
  /\ Pending(c, "update_rule")
  /\ IF RuleOf(req[c].i, req[c].r)
     THEN /\ rules' = RulesUpdate(req[c].r, req[c].row)
          /\ Close(c)
          /\ UNCHANGED <<scenarios, iterations, publications, indexJobs, nextID>>
     ELSE Refuse(c)

DeleteRuleRead(c, s, i, r) ==
  RuleRequestRead(c, [op |-> "delete_rule", s |-> s, i |-> i, r |-> r])

\* deleting a rule that is not there is no error
DeleteRuleWrite(c) ==
  /\ Pending(c, "delete_rule")
  /\ IF IterationOf(req[c].s, req[c].i) /\ RuleOf(req[c].i, req[c].r)
     THEN /\ rules' = RulesDelete(req[c].r)
          /\ Close(c)
          /\ UNCHANGED <<scenarios, iterations, publications, indexJobs, nextID>>
     ELSE Refuse(c)

(***************************************************************************)
(* Preparation: index jobs belong to the data-model service.               *)
(***************************************************************************)
IterationFormulas(i) == {iterations[i].trigger} \cup {rules[r].formula : r \in RulesOf(i)}

CollectReferencedTables(s, i) ==
  {scenarios[s].type} \cup UNION {FormulaTables[f] : f \in IterationFormulas(i)}

CollectIndexRequirements(i) == UNION {FormulaIndexes[f] : f \in IterationFormulas(i)}

\* GetPreparationStatus: jobs of any referenced table count, and required
\* indexes that have no job; a cancelled job counts as done
PendingItems(s, i) ==
  {x \in Indexes : /\ IndexTable[x] \in CollectReferencedTables(s, i)
                   /\ indexJobs[x] \in {"pending", "running", "failed"}}
  \cup {x \in CollectIndexRequirements(i) :
          indexJobs[x] = "none" \/ IndexTable[x] \notin CollectReferencedTables(s, i)}

\* POST .../publications/preparation: a job for every requirement without one,
\* and a retry of every failed job of a referenced table
StartPreparation(c, s, i) ==
  /\ req[c] = NoRequest /\ budget > 0
  /\ IterationOf(s, i)
  /\ indexJobs' = [x \in Indexes |->
       IF \/ x \in CollectIndexRequirements(i) /\ indexJobs[x] = "none"
          \/ IndexTable[x] \in CollectReferencedTables(s, i) /\ indexJobs[x] = "failed"
       THEN "pending" ELSE indexJobs[x]]
  /\ budget' = budget - 1
  /\ UNCHANGED <<scenarios, iterations, rules, publications, nextID, req>>

\* the data-model service's worker and operators (external)
IndexJobStep(x) ==
  /\ \/ indexJobs[x] = "pending" /\ indexJobs' = [indexJobs EXCEPT ![x] = "running"]
     \/ /\ indexJobs[x] = "running"
        /\ \E st \in {"applied", "failed"} : indexJobs' = [indexJobs EXCEPT ![x] = st]
     \/ indexJobs[x] \in {"pending", "failed"} /\ indexJobs' = [indexJobs EXCEPT ![x] = "cancelled"]
  /\ UNCHANGED <<scenarios, iterations, rules, publications, nextID, req, budget>>

(***************************************************************************)
(* Publication.                                                            *)
(***************************************************************************)
\* (Mutant: Publish does not ask that the iteration is committed.)
PublishReadAnyStatus(c, s, i) ==
  /\ ScenarioExists(s)
  /\ IterationOf(s, i)
  /\ PendingItems(s, i) = {}
  /\ Open(c, [op |-> "publish", s |-> s, i |-> i, old |-> scenarios[s].live])
  /\ UNCHANGED tables

PublishRead(c, s, i) ==
  /\ ScenarioExists(s)
  /\ IterationOf(s, i)
  /\ iterations[i].status = "committed"
  /\ PendingItems(s, i) = {}
  /\ Open(c, [op |-> "publish", s |-> s, i |-> i, old |-> scenarios[s].live])
  /\ UNCHANGED tables

PublishWrite(c) ==
  LET q   == req[c]
      old == IF q.old \in {NoID, q.i} THEN <<>> ELSE <<[iter |-> q.old, action |-> "unpublish"]>>
  IN /\ Pending(c, "publish")
     /\ IF ScenarioExists(q.s)
        THEN /\ scenarios' = SetLiveIterationID(q.s, q.i)
             /\ publications' =
                  PublicationsCreate(q.s, old \o <<[iter |-> q.i, action |-> "publish"]>>)
             /\ Close(c)
             /\ UNCHANGED <<iterations, rules, indexJobs, nextID>>
        ELSE Refuse(c)

UnpublishRead(c, s, i) ==
  /\ ScenarioExists(s)
  /\ scenarios[s].live = i
  /\ Open(c, [op |-> "unpublish", s |-> s, i |-> i])
  /\ UNCHANGED tables

UnpublishWrite(c) ==
  /\ Pending(c, "unpublish")
  /\ IF ScenarioExists(req[c].s)
     THEN /\ scenarios' = SetLiveIterationID(req[c].s, NoID)
          /\ publications' =
               PublicationsCreate(req[c].s, <<[iter |-> req[c].i, action |-> "unpublish"]>>)
          /\ Close(c)
          /\ UNCHANGED <<iterations, rules, indexJobs, nextID>>
     ELSE Refuse(c)

(***************************************************************************)
(* The specification.                                                      *)
(***************************************************************************)
Init ==
  /\ scenarios = [s \in ScenarioIDs |-> NoRow]
  /\ iterations = [i \in IterationIDs |-> NoRow]
  /\ rules = [r \in RuleIDs |-> NoRow]
  /\ publications = [s \in ScenarioIDs |-> <<>>]
  /\ indexJobs = [x \in Indexes |-> "none"]
  /\ nextID = [scn |-> 1, iter |-> 1, rule |-> 1]
  /\ req = [c \in Clients |-> NoRequest]
  /\ budget = MaxRequests

\* what a client may ask for, and what it goes on with
ScenarioStep(c) ==
  \/ \E t \in ObjectTypes : CreateScenario(c, t)
  \/ \E s \in ScenarioIDs, t \in ObjectTypes : UpdateScenarioRead(c, s, t)
  \/ \E s \in ScenarioIDs : CopyScenarioRead(c, s) \/ DeleteScenario(c, s)

IterationStep(c) ==
  \/ \E s \in ScenarioIDs : CreateDraftRead(c, s)
  \/ \E s \in ScenarioIDs, i \in IterationIDs :
       \/ CloneDraftRead(c, s, i)
       \/ CommitValidate(c, s, i)
       \/ \E f \in Formulas, t \in Thresholds : UpdateDraftRead(c, s, i, f, t)

RuleStep(c) ==
  \/ \E s \in ScenarioIDs, i \in IterationIDs, f \in Formulas, mod \in Mods, g \in Groups :
       CreateRuleRead(c, s, i, [iter |-> i, formula |-> f, mod |-> mod, group |-> g, stable |-> NoID])
  \/ \E s \in ScenarioIDs, i \in IterationIDs, r \in RuleIDs :
       \/ DeleteRuleRead(c, s, i, r)
       \/ \E f \in Formulas, mod \in Mods : UpdateRuleRead(c, s, i, r, f, mod)

PublicationStep(c) ==
  \E s \in ScenarioIDs, i \in IterationIDs :
    StartPreparation(c, s, i) \/ PublishRead(c, s, i) \/ UnpublishRead(c, s, i)

WriteStep(c) ==
  \/ UpdateScenarioWrite(c) \/ CopyScenarioWrite(c)
  \/ CreateDraftWrite(c) \/ CloneDraftWrite(c) \/ UpdateDraftWrite(c) \/ CommitRead(c) \/ CommitWrite(c)
  \/ CreateRuleWrite(c) \/ UpdateRuleWrite(c) \/ DeleteRuleWrite(c)
  \/ PublishWrite(c) \/ UnpublishWrite(c)

AuthoringNext ==
  \/ \E c \in Clients :
       \/ /\ req[c] = NoRequest /\ budget > 0
          /\ ScenarioStep(c) \/ IterationStep(c) \/ RuleStep(c) \/ PublicationStep(c)
       \/ req[c] # NoRequest /\ WriteStep(c)
  \/ \E x \in Indexes : IndexJobStep(x)

AuthoringSpec == Init /\ [][AuthoringNext]_authoringVars

(***************************************************************************)
(* Properties.                                                             *)
(***************************************************************************)
\* The live iteration of a scenario is one of its own iterations and is
\* committed, whatever publish, unpublish, update, copy and delete requests
\* overlap: scenario_service.Update writes the live id it read earlier back.
LiveIsCommitted ==
  \A s \in ScenarioIDs :
    ScenarioExists(s) /\ scenarios[s].live # NoID =>
      /\ IterationOf(s, scenarios[s].live)
      /\ iterations[scenarios[s].live].status = "committed"

\* Versions number the iterations of a scenario in the order of their creation,
\* without a repeat, although NextVersion is read before the insert and several
\* drafts may be created at once.
VersionsFollowCreation ==
  \A s \in ScenarioIDs : \A i, j \in IterationsOf(s) :
    i < j => iterations[i].ver < iterations[j].ver

\* PUBLICATION IS SOUND: the live iteration of a scenario is one of its committed
\* ones, and versions number its iterations in the order of their creation.
PublicationIsSound == LiveIsCommitted /\ VersionsFollowCreation

Writers(i) ==
  {c \in Clients : /\ req[c] # NoRequest
                   /\ req[c].op \in {"update_draft", "create_rule", "update_rule", "delete_rule"}
                   /\ req[c].i = i}

Quiet(i) == iterations[i] # NoRow /\ iterations[i].status = "committed" /\ Writers(i) = {}

RuleRows(i) == [r \in RulesOf(i) |-> rules[r]]

\* Once an iteration is committed and the requests that had read it as a draft
\* have ended, neither its row nor its rules ever change again, until the
\* scenario is deleted: no request passes the draft check of UpdateDraft and of
\* the rule service any more.
FrozenOnceQuiet ==
  [][\A i \in IterationIDs :
       Quiet(i) =>
         \/ iterations'[i] = NoRow
         \/ Quiet(i)' /\ iterations'[i] = iterations[i] /\ RuleRows(i)' = RuleRows(i)]_authoringVars

\* The API documentation of unpublish: the scenario "no longer has an active
\* live iteration"; only a publication makes one live again.
UnpublishedStaysDown ==
  [][\A s \in ScenarioIDs :
       ScenarioExists(s) /\ scenarios[s].live = NoID /\ scenarios'[s] # NoRow
         /\ scenarios'[s].live # NoID
       => \E c \in Clients : Pending(c, "publish") /\ req[c].s = s /\ req[c] # req'[c]]_authoringVars
=============================================================================
