-------------------------- MODULE WorkflowAuthoring --------------------------
(***************************************************************************)
(* The workflows of one scenario under their three writers:                *)
(*   - the case-rule editor (WorkflowAuthoringRepository Save and Delete): *)
(*     one transaction under a lock on the scenario, with the version of   *)
(*     the rule (updated_at) that the editor has read;                     *)
(*   - the workflow-rules API (WorkflowRuleService), which edits rules,    *)
(*     conditions and actions one by one and takes no lock;                *)
(*   - the older workflows API (WorkflowService).                          *)
(* A rule row carries its conditions and actions in order of creation.     *)
(* Roles, inboxes and tags belong to other services: they are parameters.  *)
(***************************************************************************)
EXTENDS Integers, Sequences, FiniteSets, SequencesExt, FiniteSetsExt

CONSTANTS
  RuleIDs, LegacyIDs, Editors, Clerks,  \* clerks call the two APIs
  NoRow, NoVersion, NoTree,
  Drafts,                    \* the case rules an editor may write
  Conditions, Actions,       \* what the API may be asked to write
  Names,
  Admins,                    \* editors that administer cases; all may author
  InboxUsers,                \* <<inbox, editor>>
  ActiveInboxes, AllInboxes, LiveTags, AllTags,
  MaxRules,                  \* 500
  MaxTags,                   \* 25
  Skew,                      \* by how much the clock of a process may be ahead
  MaxClock, MaxSubmits,      \* bounds of the model
  TreeValid(_), TitleExpands(_), FormulaValid(_)

VARIABLES rules, legacy, events, editors, clerks, clock

vars == <<rules, legacy, events, editors, clerks, clock>>

(***************************************************************************)
(* What is valid.                                                          *)
(***************************************************************************)
CaseOutcomes == {"approve", "review", "block_and_review", "decline"}
CaseActionTypes == {"create_case", "add_to_case", "add_to_case_if_possible"}
Distinct(s) == Cardinality(ToSet(s)) = Len(s)

\* CaseRule.Validate; a title is a sequence of pieces, <<>> when it is blank
CaseRuleValid(d) ==
  /\ d.mode \in {"", "template"}
  /\ d.mode = "template" => d.act # "do_nothing" /\ TitleExpands(d.title)
  /\ ToSet(d.tags) \subseteq AllTags
  /\ d.act # "do_nothing" => d.inbox \in AllInboxes
  /\ d.name # "" /\ (d.act # "do_nothing" => d.title # <<>>)
  /\ d.act \in {"create_case", "add_to_case_if_possible", "do_nothing"}
  /\ d.act = "do_nothing" => d.tree # NoTree /\ d.inbox = "" /\ d.title = <<>> /\ d.tags = <<>>
  /\ d.tree # NoTree => TreeValid(d.tree) /\ d.outcomes = <<>>
  /\ d.tree = NoTree => d.outcomes # <<>>
  /\ ToSet(d.outcomes) \subseteq CaseOutcomes /\ Distinct(d.outcomes)
  /\ Len(d.tags) <= MaxTags /\ Distinct(d.tags)

\* the parameters of a condition are JSON: [t, v] with t what v was written as
Null == [t |-> "null"]

\* WorkflowRuleService.validateCondition
validateCondition(c) ==
  CASE c.fn = "condition_tree"      -> c.params.t = "tree" /\ TreeValid(c.params.v)
    [] c.fn \in {"always", "never"} -> c.params = Null
    [] c.fn = "outcome_in"          ->
         c.params.t = "list" /\ c.params.v # <<>> /\ ToSet(c.params.v) \subseteq CaseOutcomes
    [] c.fn = "rule_hit"            -> c.params.t = "rules" /\ c.params.v # <<>>
    [] c.fn = "payload_evaluates"   -> c.params.t = "formula" /\ FormulaValid(c.params.v)
    [] OTHER                        -> FALSE

\* ValidateActionConfig; version is authoring_version, 0 when the key is absent
ValidateActionConfig(a) ==
  CASE a.act = "do_nothing"         -> TRUE
    [] a.act \in CaseActionTypes    ->
         a.inbox \in AllInboxes /\ ToSet(a.tags) \subseteq AllTags /\ ~a.url /\ ~a.template
    [] a.act \in {"add_tag", "emit_event"} -> a.url
    [] OTHER                        -> FALSE

(***************************************************************************)
(* Case rules as rows.                                                     *)
(***************************************************************************)
Live(r) == rules[r] # NoRow /\ ~rules[r].deleted
LiveRules == {r \in RuleIDs : Live(r)}
LegacyActive == \E w \in LegacyIDs : legacy[w] # NoRow /\ legacy[w].active

EncodedCondition(d) ==
  [fn |-> IF ~d.enabled THEN "never" ELSE IF d.tree = NoTree THEN "outcome_in" ELSE "condition_tree",
   params |-> IF d.tree = NoTree THEN [t |-> "list", v |-> d.outcomes] ELSE [t |-> "tree", v |-> d.tree]]

EncodedAction(d) ==
  [act |-> d.act, version |-> IF d.tree = NoTree THEN 1 ELSE 2, inbox |-> d.inbox,
   title |-> d.title, mode |-> d.mode, tags |-> d.tags, url |-> FALSE, template |-> FALSE]

\* what the one condition and the one action of a case rule say
Decoded(row) ==
  LET c == row.conds[1]
      a == row.acts[1]
  IN [name |-> row.name, enabled |-> c.fn # "never",
      outcomes |-> IF a.version = 1 /\ c.params # Null THEN c.params.v ELSE <<>>,
      tree |-> IF a.version = 2 THEN c.params.v ELSE NoTree,
      act |-> a.act, inbox |-> a.inbox, title |-> a.title, mode |-> a.mode, tags |-> a.tags]

\* (Mutant: a rule of the second version that is switched off is not understood.)
DecodesEnabledTrees(row) ==
  /\ ~row.fall /\ Len(row.conds) = 1 /\ Len(row.acts) = 1
  /\ \/ /\ row.acts[1].version = 1 /\ row.conds[1].fn \in {"never", "outcome_in"}
        /\ row.conds[1].params.t \in {"list", "null"}
     \/ row.acts[1].version = 2 /\ row.conds[1].fn = "condition_tree"
  /\ CaseRuleValid(Decoded(row))

\* decodeCaseRule: whether a row is a rule of the editor
Decodes(row) ==
  /\ ~row.fall /\ Len(row.conds) = 1 /\ Len(row.acts) = 1
  /\ \/ /\ row.acts[1].version = 1 /\ row.conds[1].fn \in {"never", "outcome_in"}
        /\ row.conds[1].params.t \in {"list", "null"}
     \/ /\ row.acts[1].version = 2 /\ row.conds[1].fn \in {"never", "condition_tree"}
        /\ row.conds[1].params.t = "tree"
  /\ CaseRuleValid(Decoded(row))

\* workflowInbox
InboxAccess(e, inbox, requireActive) ==
  /\ inbox \in AllInboxes
  /\ requireActive => inbox \in ActiveInboxes
  /\ e \in Admins \/ <<inbox, e>> \in InboxUsers

DraftAccess(e, d, requireActive) ==
  d.act # "do_nothing" => InboxAccess(e, d.inbox, requireActive)

NextPriority ==
  IF LiveRules = {} THEN 0 ELSE Max({0} \cup {rules[r].prio + 1 : r \in LiveRules})

(***************************************************************************)
(* Time.  Every request reads the clock of its process at a moment of its  *)
(* own; a process that is ahead may stamp a row with a time that the next  *)
(* reader has not reached yet.  The clock bounds the writes of a behaviour.*)
(***************************************************************************)
Stamps == {10 * clock, 10 * clock + Skew}
Tick == clock < MaxClock /\ clock' = clock + 1

\* a version is later than the one it replaces
NewVersion(row, t) == IF row # NoRow /\ row.ver >= t THEN row.ver + 1 ELSE t

(***************************************************************************)
(* The editor.  saw is the row that the editor's version belongs to.  An   *)
(* answer may be lost; the editor then sends the same request again.       *)
(***************************************************************************)
Idle == [st |-> "idle"]
Request(st, op, r, d, base, saw, n) ==
  [st |-> st, op |-> op, rule |-> r, draft |-> d, base |-> base, saw |-> saw, n |-> n]

Submits(e) == IF editors[e].st = "idle" THEN 0 ELSE editors[e].n

\* List, and the choice of a visible rule or of a new identifier
Open(e, r) ==
  /\ editors[e].st \in {"idle", "done"}
  /\ Submits(e) < MaxSubmits
  /\ rules[r] # NoRow =>
       /\ Live(r) /\ Decodes(rules[r]) /\ Cardinality(LiveRules) <= MaxRules
       /\ DraftAccess(e, Decoded(rules[r]), FALSE)
  /\ editors' = [editors EXCEPT ![e] =
       Request("open", "none", r, NoRow, IF rules[r] = NoRow THEN NoVersion ELSE rules[r].ver,
               rules[r], Submits(e) + 1)]
  /\ UNCHANGED <<rules, legacy, events, clerks, clock>>

Submit(e, op, d) ==
  /\ editors[e].st = "open"
  /\ op = "delete" => editors[e].base # NoVersion /\ d = NoRow
  /\ op = "save" => d \in Drafts
  /\ editors' = [editors EXCEPT ![e].st = "sent", ![e].op = op, ![e].draft = d]
  /\ UNCHANGED <<rules, legacy, events, clerks, clock>>

\* the transaction has committed or rolled back; its answer arrives or is lost
Answer(e, ans) ==
  \/ editors' = [editors EXCEPT ![e] = [st |-> "done", n |-> @.n, ans |-> ans]]
  \/ UNCHANGED editors

Event(e, r, op, d, ver) ==
  Append(events, [by |-> e, n |-> editors[e].n, rule |-> r, op |-> op, draft |-> d, ver |-> ver])

Sent(e, op) == editors[e].st = "sent" /\ editors[e].op = op

\* (Mutant: only a version older than the stored one is a conflict.)
SaveConflictsIfGiven(e) ==
  LET q == editors[e]
  IN \/ LegacyActive
     \/ ~Live(q.rule) /\ (q.base # NoVersion \/ Cardinality(LiveRules) >= MaxRules \/ rules[q.rule] # NoRow)
     \/ Live(q.rule) /\ ~Decodes(rules[q.rule])
     \/ /\ Live(q.rule) /\ Decoded(rules[q.rule]) # q.draft
        /\ q.base # NoVersion /\ q.base < rules[q.rule].ver

\* (Mutant: a deleted rule leaves its identifier free.)
SaveConflictsWithLive(e) ==
  LET q == editors[e]
  IN \/ LegacyActive
     \/ ~Live(q.rule) /\ (q.base # NoVersion \/ Cardinality(LiveRules) >= MaxRules)
     \/ Live(q.rule) /\ ~Decodes(rules[q.rule])
     \/ /\ Live(q.rule) /\ Decoded(rules[q.rule]) # q.draft
        /\ q.base # rules[q.rule].ver

SaveConflicts(e) ==
  LET q == editors[e]
  IN \/ LegacyActive
     \/ ~Live(q.rule) /\ (q.base # NoVersion \/ Cardinality(LiveRules) >= MaxRules \/ rules[q.rule] # NoRow)
     \/ Live(q.rule) /\ ~Decodes(rules[q.rule])
     \/ /\ Live(q.rule) /\ Decoded(rules[q.rule]) # q.draft
        /\ q.base # rules[q.rule].ver

SaveDenied(e) ==
  LET q == editors[e]
  IN \/ ~DraftAccess(e, q.draft, q.draft.enabled)
     \/ ~(ToSet(q.draft.tags) \subseteq (IF q.draft.enabled THEN LiveTags ELSE AllTags))
     \/ /\ Live(q.rule) /\ Decodes(rules[q.rule])
        /\ ~DraftAccess(e, Decoded(rules[q.rule]), FALSE)

\* more than MaxRules live rules: ListStructured fails
TooManyRules == Cardinality(LiveRules) > MaxRules

\* WorkflowAuthoringRepository.Save
Save(e) ==
  LET q   == editors[e]
      row == IF Live(q.rule) THEN rules[q.rule] ELSE NoRow
      refused == ~CaseRuleValid(q.draft) \/ TooManyRules \/ SaveDenied(e) \/ SaveConflicts(e)
  IN /\ Sent(e, "save")
     /\ IF refused THEN Answer(e, "refused") /\ UNCHANGED <<rules, events, clock>>
        ELSE IF row # NoRow /\ Decoded(row) = q.draft
        THEN Answer(e, "saved") /\ UNCHANGED <<rules, events, clock>>
        ELSE \E t \in Stamps :
               LET ver == NewVersion(row, t)
               IN /\ rules' = [rules EXCEPT ![q.rule] =
                       [name |-> q.draft.name, prio |-> IF row = NoRow THEN NextPriority ELSE row.prio,
                        fall |-> FALSE, ver |-> ver, deleted |-> FALSE,
                        conds |-> <<EncodedCondition(q.draft)>>, acts |-> <<EncodedAction(q.draft)>>]]
                  /\ events' = Event(e, q.rule, "save", q.draft, ver)
                  /\ Answer(e, "saved") /\ Tick
     /\ UNCHANGED <<legacy, clerks>>

\* WorkflowAuthoringRepository.Delete: a repeat finds the tombstone, which keeps
\* the version it was deleted at
Delete(e) ==
  LET q   == editors[e]
      row == rules[q.rule]
      refused == \/ ~Decodes(row) \/ ~DraftAccess(e, Decoded(row), FALSE)
                 \/ q.base # row.ver \/ (~row.deleted /\ LegacyActive)
  IN /\ Sent(e, "delete")
     /\ IF refused THEN Answer(e, "refused") /\ UNCHANGED <<rules, events, clock>>
        ELSE IF row.deleted THEN Answer(e, "deleted") /\ UNCHANGED <<rules, events, clock>>
        ELSE /\ rules' = [rules EXCEPT ![q.rule].deleted = TRUE,
                            ![q.rule].conds = [i \in DOMAIN @ |-> [@[i] EXCEPT !.fn = "never"]]]
             /\ events' = Event(e, q.rule, "delete", Decoded(row), row.ver)
             /\ Answer(e, "deleted") /\ Tick
     /\ UNCHANGED <<legacy, clerks>>

(***************************************************************************)
(* The workflow-rules API.  A clerk reads outside of the transaction and   *)
(* writes in it; only what UpdateRule and Reorder write moves the version. *)
(***************************************************************************)
Free(c) == clerks[c].st = "free"
Work(c, w) == clerks' = [clerks EXCEPT ![c] = w]
Release(c) == Work(c, [st |-> "free"])

\* CreateRule reads the priorities, and writes one above them later
CreateRule(c) ==
  /\ Free(c) /\ Tick
  /\ \E t \in Stamps : Work(c, [st |-> "create", prio |-> NextPriority, t |-> t])
  /\ UNCHANGED <<rules, legacy, events, editors>>

CreateRuleTx(c, r, name, fall) ==
  /\ clerks[c].st = "create" /\ rules[r] = NoRow
  /\ rules' = [rules EXCEPT ![r] =
       [name |-> name, prio |-> clerks[c].prio, fall |-> fall, ver |-> clerks[c].t,
        deleted |-> FALSE, conds |-> <<>>, acts |-> <<>>]]
  /\ Release(c)
  /\ UNCHANGED <<legacy, events, editors, clock>>

\* UpdateRule takes its time when it reads; the write changes name, fallthrough
\* and updated_at of the row as it is then
UpdateRule(c, r, name, fall) ==
  /\ Free(c) /\ Live(r) /\ Tick
  /\ \E t \in Stamps : Work(c, [st |-> "update", rule |-> r, name |-> name, fall |-> fall, t |-> t])
  /\ UNCHANGED <<rules, legacy, events, editors>>

UpdateRuleTx(c) ==
  LET w == clerks[c]
  IN /\ w.st = "update"
     /\ rules' = IF Live(w.rule)
                 THEN [rules EXCEPT ![w.rule].name = w.name, ![w.rule].fall = w.fall, ![w.rule].ver = w.t]
                 ELSE rules
     /\ Release(c)
     /\ UNCHANGED <<legacy, events, editors, clock>>

DeleteRule(r) ==
  /\ Live(r)
  /\ rules' = [rules EXCEPT ![r].deleted = TRUE]
  /\ Tick
  /\ UNCHANGED <<legacy, events, editors, clerks>>

\* ReorderRules compares the identifiers with the list, then writes them one by
\* one: a rule that went in the meantime rolls everything back
ReorderRules(c, order) ==
  /\ Free(c) /\ Tick
  /\ ToSet(order) = LiveRules /\ Len(order) = Cardinality(LiveRules) /\ order # <<>>
  /\ \E t \in Stamps : Work(c, [st |-> "reorder", order |-> order, t |-> t])
  /\ UNCHANGED <<rules, legacy, events, editors>>

ReorderRulesTx(c) ==
  LET w == clerks[c]
      At(r) == CHOOSE i \in DOMAIN w.order : w.order[i] = r
  IN /\ w.st = "reorder"
     /\ rules' = IF ToSet(w.order) \subseteq LiveRules
                 THEN [r \in RuleIDs |-> IF r \in ToSet(w.order)
                                         THEN [rules[r] EXCEPT !.prio = At(r) - 1, !.ver = w.t] ELSE rules[r]]
                 ELSE rules
     /\ Release(c)
     /\ UNCHANGED <<legacy, events, editors, clock>>

InsertPart(parts, p) == Append(parts, p)
ReplacePart(parts, i, p) == [parts EXCEPT ![i] = p]
RemovePart(parts, i) == RemoveAt(parts, i)

\* CreateCondition and CreateAction ask for a live rule; so do DeleteCondition,
\* UpdateAction and DeleteAction, through scenarioIDForWorkflowRule
EditRule(r, row) ==
  /\ rules' = [rules EXCEPT ![r] = row]
  /\ Tick
  /\ UNCHANGED <<legacy, events, editors, clerks>>

CreateCondition(r, c) ==
  Live(r) /\ validateCondition(c) /\ EditRule(r, [rules[r] EXCEPT !.conds = InsertPart(@, c)])

UpdateCondition(r, i, c) ==
  /\ rules[r] # NoRow /\ i \in DOMAIN rules[r].conds /\ validateCondition(c)
  /\ EditRule(r, [rules[r] EXCEPT !.conds = ReplacePart(@, i, c)])

DeleteCondition(r, i) ==
  /\ Live(r) /\ i \in DOMAIN rules[r].conds
  /\ EditRule(r, [rules[r] EXCEPT !.conds = RemovePart(@, i)])

CreateAction(r, a) ==
  Live(r) /\ ValidateActionConfig(a) /\ EditRule(r, [rules[r] EXCEPT !.acts = InsertPart(@, a)])

UpdateAction(r, i, a) ==
  /\ Live(r) /\ i \in DOMAIN rules[r].acts /\ ValidateActionConfig(a)
  /\ EditRule(r, [rules[r] EXCEPT !.acts = ReplacePart(@, i, a)])

DeleteAction(r, i) ==
  /\ Live(r) /\ i \in DOMAIN rules[r].acts
  /\ EditRule(r, [rules[r] EXCEPT !.acts = RemovePart(@, i)])

(***************************************************************************)
(* The older API: definitions that apply when there is no structured rule. *)
(***************************************************************************)
Definitions == {w \in LegacyIDs : legacy[w] # NoRow}

WriteLegacy(l) == legacy' = l /\ Tick /\ UNCHANGED <<rules, events, editors>>

CreateWorkflow(c) ==
  /\ Free(c)
  /\ Work(c, [st |-> "workflow", order |-> Max({0} \cup {legacy[w].order + 1 : w \in Definitions})])
  /\ UNCHANGED <<rules, legacy, events, editors, clock>>

CreateWorkflowTx(c, w, active) ==
  /\ clerks[c].st = "workflow" /\ legacy[w] = NoRow
  /\ WriteLegacy([legacy EXCEPT ![w] = [active |-> active, order |-> clerks[c].order]])
  /\ Release(c)

UpdateWorkflow(w, active) ==
  /\ w \in Definitions
  /\ WriteLegacy([legacy EXCEPT ![w].active = active]) /\ UNCHANGED clerks

DeleteWorkflow(w) ==
  w \in Definitions /\ WriteLegacy([legacy EXCEPT ![w] = NoRow]) /\ UNCHANGED clerks

ReorderWorkflows(order) ==
  /\ ToSet(order) = Definitions /\ Len(order) = Cardinality(Definitions)
  /\ WriteLegacy([w \in LegacyIDs |-> IF w \in Definitions
                    THEN [legacy[w] EXCEPT !.order = (CHOOSE i \in DOMAIN order : order[i] = w) - 1]
                    ELSE NoRow])
  /\ UNCHANGED clerks

(***************************************************************************)
(* The specification.                                                      *)
(***************************************************************************)
Init ==
  /\ rules = [r \in RuleIDs |-> NoRow]
  /\ legacy = [w \in LegacyIDs |-> NoRow]
  /\ events = <<>>
  /\ editors = [e \in Editors |-> Idle]
  /\ clerks = [c \in Clerks |-> [st |-> "free"]]
  /\ clock = 0

EditorStep ==
  \E e \in Editors :
    \/ \E r \in RuleIDs : Open(e, r)
    \/ \E op \in {"save", "delete"}, d \in Drafts \cup {NoRow} : Submit(e, op, d)
    \/ Save(e) \/ Delete(e)

ClerkStep ==
  \/ \E c \in Clerks :
       \/ CreateRule(c) \/ UpdateRuleTx(c) \/ ReorderRulesTx(c)
       \/ \E r \in RuleIDs, name \in Names, fall \in BOOLEAN :
            CreateRuleTx(c, r, name, fall) \/ UpdateRule(c, r, name, fall)
       \/ \E order \in SetToSeqs(LiveRules) : ReorderRules(c, order)
  \/ \E r \in RuleIDs : DeleteRule(r)

PartStep ==
  \E r \in RuleIDs :
    \/ \E c \in Conditions : CreateCondition(r, c) \/ UpdateCondition(r, 1, c)
    \/ \E a \in Actions : CreateAction(r, a) \/ UpdateAction(r, 1, a)
    \/ DeleteCondition(r, 1) \/ DeleteAction(r, 1)

LegacyStep ==
  \/ \E c \in Clerks : CreateWorkflow(c) \/ \E w \in LegacyIDs, on \in BOOLEAN : CreateWorkflowTx(c, w, on)
  \/ \E w \in LegacyIDs : (\E on \in BOOLEAN : UpdateWorkflow(w, on)) \/ DeleteWorkflow(w)
  \/ \E order \in SetToSeqs(Definitions) : ReorderWorkflows(order)

Next == EditorStep \/ ClerkStep \/ PartStep \/ LegacyStep

Spec == Init /\ [][Next]_vars

(***************************************************************************)
(* Properties.                                                             *)
(***************************************************************************)
NewEvent == Len(events') > Len(events)

\* An editor never changes or deletes a rule whose row (name, priority,
\* fallthrough, version) is not the one it was shown: whoever renamed, reordered
\* or saved the rule in between makes the editor's request a conflict.
KnowsTheRow ==
  NewEvent =>
    LET ev  == Last(events')
        row == rules[ev.rule]
        saw == editors[ev.by].saw
    IN row # NoRow =>
         saw # NoRow /\ <<saw.name, saw.prio, saw.fall, saw.ver>> = <<row.name, row.prio, row.fall, row.ver>>

\* A request that an editor repeats because its answer was lost is applied once:
\* the audit log has at most one event of it, whatever others did in between.
OneEventPerSubmission ==
  \A i, j \in DOMAIN events :
    events[i].by = events[j].by /\ events[i].n = events[j].n => i = j

\* A rule is as the event left it, its row and its parts.
Untouched(ev) ==
  LET row == rules[ev.rule]
  IN /\ row.ver = ev.ver /\ (ev.op = "delete" <=> row.deleted)
     /\ row.acts = <<EncodedAction(ev.draft)>>
     /\ row.conds = <<IF ev.op = "save" THEN EncodedCondition(ev.draft)
                     ELSE [EncodedCondition(ev.draft) EXCEPT !.fn = "never"]>>

\* The repeat is acknowledged: while the last event of a rule is the editor's own
\* and neither its row nor its parts were touched since, Save and Delete answer
\* the repeat with success (unless an older workflow became active).
AcknowledgesRepeats ==
  \A e \in Editors :
    LET q == editors[e]
        mine == {i \in DOMAIN events : events[i].by = e /\ events[i].n = q.n}
    IN (/\ q.st = "sent" /\ editors'[e].st = "done" /\ ~LegacyActive /\ ~TooManyRules
        /\ \E i \in mine : Untouched(events[i])) => editors'[e].ans # "refused"
=============================================================================
