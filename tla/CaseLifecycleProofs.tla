------------------------- MODULE CaseLifecycleProofs -------------------------
(***************************************************************************)
(* Proofs for CaseLifecycle: for any number of cases, inboxes, members and *)
(* workers.                                                                *)
(*                                                                         *)
(* Every step of a command or of the worker that touches a case is a       *)
(* RowStep: it writes one sound row, tells what it changed, and has passed *)
(* the trigger.  The invariant and the capacity property follow from that  *)
(* alone.                                                                  *)
(***************************************************************************)
EXTENDS CaseLifecycle, FiniteSetTheorems, TLAPS

\* A bulk operation has a receipt on a case exactly when it took effect there.
ReceiptsCount ==
    \A o \in Operations, c \in Cases : applied[o][c] = IF <<o, c>> \in receipts THEN 1 ELSE 0

\* A worker that has chosen a user has locked a case, and a locked case is open.
JobsSound ==
    \A w \in Workers :
        /\ job[w].user # Nobody => job[w].case # 0
        /\ job[w].case # 0 => Open(case[job[w].case])

\* A case that does not exist is not snoozed.
NoGhosts == \A c \in Cases : case[c].status = "absent" => ~case[c].snoozed

Inv == NoGhosts /\ TypeOK /\ LifecycleConsistent /\ AssigneeIsMember /\ AuditReplays /\ ReceiptsCount /\ JobsSound

\* A row that an existing case may have.
SoundRow(r) ==
    /\ r \in Row
    /\ r.status # "absent"
    /\ r.inbox \in Inboxes
    /\ r.status = "closed" <=> r.outcome = "settled"
    /\ r.status = "closed" => ~r.snoozed

\* The assignee of the new row is a member, and has room if the case is new to him.
Assigned(c, new) ==
    Open(new) /\ new.assignee # Nobody =>
        /\ Has(new.inbox, new.assignee)
        /\ c \notin Workload(new.inbox, new.assignee) =>
            Cardinality(Workload(new.inbox, new.assignee) \ {c}) < member[new.inbox][new.assignee].capacity

RowStep(c, new, told) ==
    /\ Write(c, new, told)
    /\ Explains(Told(audit[c], new, told), new)
    /\ SoundRow(new)
    /\ Assigned(c, new)
    /\ due' \subseteq due
    /\ c \in due' => new.snoozed
    /\ UNCHANGED inboxVars

LEMMA CaseTypes ==
    ASSUME TypeOK, NEW c \in Cases
    PROVE  /\ case[c] \in Row
           /\ c \in Nat /\ c # 0
  BY ConstantsAssumption DEF TypeOK, Cases

\* What the trigger lets through is an assignment in the sense above.
LEMMA TriggerAssigns ==
    ASSUME TypeOK, AssigneeIsMember, NEW c \in Cases, NEW new \in Row,
           CapacityAllows(c, case[c], new)
    PROVE  Assigned(c, new)
  BY CaseTypes DEF CapacityAllows, Assigned, AssigneeIsMember, Workload

\* Two updates of one transaction, both let through.
LEMMA TriggerAssignsTwice ==
    ASSUME TypeOK, AssigneeIsMember, NEW c \in Cases, NEW mid \in Row, NEW new \in Row,
           CapacityAllows(c, case[c], mid), CapacityAllows(c, mid, new)
    PROVE  Assigned(c, new)
  <1>1. Assigned(c, mid)
    BY TriggerAssigns
  <1>2. CASE mid.assignee = new.assignee /\ mid.inbox = new.inbox /\ Open(mid)
    BY <1>1, <1>2 DEF Assigned
  <1>3. CASE ~(mid.assignee = new.assignee /\ mid.inbox = new.inbox /\ Open(mid))
    BY <1>3 DEF CapacityAllows, Assigned
  <1> QED BY <1>2, <1>3

\* A row step keeps the invariant of the cases.
LEMMA RowStepKeeps ==
    ASSUME Inv, NEW c \in Cases, NEW new, NEW told, RowStep(c, new, told)
    PROVE  /\ case' \in [Cases -> Row]
           /\ \A d \in Cases : case'[d].status # "absent" => case'[d].inbox \in Inboxes
           /\ due' \subseteq Cases
           /\ audit' \in [Cases -> Row]
           /\ LifecycleConsistent'
           /\ AssigneeIsMember'
           /\ AuditReplays'
           /\ NoGhosts'
  <1>1. /\ case' = [case EXCEPT ![c] = new]
        /\ new \in Row
    BY DEF RowStep, Write, SoundRow
  <1>2. case \in [Cases -> Row]
    BY DEF Inv, TypeOK
  <1>3. case' \in [Cases -> Row] /\ case'[c] = new /\ \A d \in Cases \ {c} : case'[d] = case[d]
    BY <1>1, <1>2
  <1>4. /\ audit' \in [Cases -> Row]
        /\ audit'[c] = Told(audit[c], new, told) /\ \A d \in Cases \ {c} : audit'[d] = audit[d]
    <2>1. audit' = [audit EXCEPT ![c] = Told(audit[c], new, told)] /\ audit \in [Cases -> Row]
      BY DEF RowStep, Write, Inv, TypeOK
    <2>2. Told(audit[c], new, told) \in Row
      BY <1>1, <2>1 DEF Told, Row
    <2> QED BY <2>1, <2>2
  <1>10. AuditReplays'
    BY <1>3, <1>4 DEF RowStep, Inv, AuditReplays
  <1>5. \A d \in Cases : case'[d].status # "absent" => case'[d].inbox \in Inboxes
    BY <1>3 DEF Inv, TypeOK, RowStep, SoundRow
  <1>6. due' \subseteq Cases
    BY DEF Inv, TypeOK, RowStep
  <1>7. LifecycleConsistent'
    BY <1>3 DEF Inv, LifecycleConsistent, RowStep, SoundRow
  <1>8. AssigneeIsMember'
    <2>1. member' = member
      BY DEF RowStep, inboxVars
    <2> SUFFICES ASSUME NEW d \in Cases, Open(case'[d]), case'[d].assignee # Nobody
                 PROVE  Has(case[d].inbox, case[d].assignee)'
      BY DEF AssigneeIsMember, Open
    <2>3. CASE d = c
      <3>1. Has(new.inbox, new.assignee)
        BY <2>3, <1>3 DEF RowStep, Assigned
      <3> QED BY <3>1, <2>1, <2>3, <1>3 DEF Has, Members
    <2>4. CASE d # c
      <3>1. Has(case[d].inbox, case[d].assignee)
        BY <2>4, <1>3 DEF Inv, AssigneeIsMember
      <3> QED BY <3>1, <2>1, <2>4, <1>3 DEF Has, Members
    <2> QED BY <2>3, <2>4
  <1>9. NoGhosts'
    BY <1>3 DEF Inv, NoGhosts, RowStep, SoundRow
  <1> QED BY <1>3, <1>4, <1>5, <1>6, <1>7, <1>8, <1>9, <1>10

-----------------------------------------------------------------------------
(***************************************************************************)
(* The commands and the worker take row steps.                             *)
(***************************************************************************)
LEMMA CaseFacts ==
    ASSUME Inv, NEW c \in Cases, case[c].status # "absent"
    PROVE  SoundRow(case[c])
  BY DEF Inv, TypeOK, LifecycleConsistent, SoundRow

LEMMA InvestigateSound ==
    ASSUME NEW r, SoundRow(r), NEW a \in Actors, NEW advance
    PROVE  /\ SoundRow(Investigate(r, a, advance))
           /\ Investigate(r, a, advance).inbox = r.inbox
           /\ Investigate(r, a, advance).outcome = r.outcome
           /\ Investigate(r, a, advance).snoozed = r.snoozed
           /\ Investigate(r, a, advance).review = r.review
  BY DEF SoundRow, Row, Boosts, Investigate, Actors, Has, Members

\* Changed leaves out only the fields that stay.
LEMMA ChangedTells ==
    ASSUME NEW old \in Row, NEW new \in Row
    PROVE  /\ "inbox" \in Changed(old, new) \/ new.inbox = old.inbox
           /\ "status" \in Changed(old, new) \/ new.status = old.status
           /\ "outcome" \in Changed(old, new) \/ new.outcome = old.outcome
           /\ "assignee" \in Changed(old, new) \/ new.assignee = old.assignee
           /\ "snoozed" \in Changed(old, new) \/ new.snoozed = old.snoozed
           /\ "boost" \in Changed(old, new) \/ new.boost = old.boost
           /\ "review" \in Changed(old, new) \/ new.review = old.review
  BY DEF Changed, Fields

\* A history that explains a row explains the next one, if the events state every
\* field that changes, except a flag that a wake-up or an escalation sets and a
\* level that is cleared.
LEMMA ToldExplains ==
    ASSUME Inv, NEW c \in Cases, NEW new \in Row, NEW told,
           "inbox" \in told \/ new.inbox = case[c].inbox,
           "status" \in told \/ new.status = case[c].status,
           "outcome" \in told \/ new.outcome = case[c].outcome,
           "assignee" \in told \/ new.assignee = case[c].assignee,
           "snoozed" \in told \/ new.snoozed = case[c].snoozed,
           "boost" \in told \/ new.boost = case[c].boost \/ new.boost \in {"unsnoozed", "escalated"},
           "review" \in told \/ new.review = case[c].review \/ new.review = "none"
    PROVE  Explains(Told(audit[c], new, told), new)
  <1>1. Explains(audit[c], case[c])
    BY DEF Inv, AuditReplays
  <1> QED BY <1>1 DEF Explains, Told

LEMMA CreateCaseRow ==
    ASSUME Inv, NEW c \in Cases, NEW a \in Actors, NEW i \in Inboxes, NEW u \in Users \cup {Nobody},
           CreateCase(c, a, i, u)
    PROVE  \E new, told : RowStep(c, new, told)
  <1> DEFINE assignee == IF u = Nobody /\ a # Service /\ Has(i, a) THEN a ELSE u
             new == [NoRow EXCEPT !.inbox = i, !.assignee = assignee,
                                  !.status = IF a = Service THEN "pending" ELSE "investigating"]
  <1>1. SoundRow(new)
    BY DEF SoundRow, Row, Boosts, ReviewLevels, NoRow, Actors, Has, Members
  <1>2. Assigned(c, new)
    <2>1. CapacityAllows(c, NoRow, new) /\ ~Open(NoRow) /\ ~Open(case[c])
      BY DEF CreateCase, Open, NoRow
    <2>2. CapacityAllows(c, case[c], new)
      BY <2>1 DEF CapacityAllows
    <2> HIDE DEF new
    <2> QED BY <1>1, <2>2, TriggerAssigns DEF Inv, SoundRow
  <1>3. Explains(Told(audit[c], new, Fields), new)
    <2> HIDE DEF new
    <2> QED BY <1>1, ToldExplains DEF Fields, SoundRow
  <1>4. due' = due /\ c \notin due
    BY DEF CreateCase, Inv, NoGhosts, LifecycleConsistent
  <1>5. Write(c, new, Fields) /\ UNCHANGED inboxVars
    BY DEF CreateCase
  <1> QED BY <1>1, <1>2, <1>3, <1>4, <1>5 DEF RowStep

LEMMA TouchRow ==
    ASSUME Inv, NEW c \in Cases, NEW a \in Actors, Touch(c, a)
    PROVE  \E new, told : RowStep(c, new, told)
  <1> DEFINE new == Investigate(case[c], a, TRUE)
  <1>1. SoundRow(case[c]) /\ SoundRow(new) /\ new \in Row
    BY CaseFacts, InvestigateSound DEF Touch, MayMutate, SoundRow
  <1>2. Assigned(c, new)
    BY <1>1, TriggerAssigns DEF Touch, Inv
  <1>3. Explains(Told(audit[c], new, Changed(case[c], new)), new)
    <2> HIDE DEF new
    <2> QED BY <1>1, ChangedTells, ToldExplains DEF SoundRow
  <1>4. due' = due /\ (c \in due => new.snoozed)
    BY <1>1, InvestigateSound DEF Touch, Inv, LifecycleConsistent
  <1> QED BY <1>1, <1>2, <1>3, <1>4 DEF RowStep, Touch

LEMMA UpdateCaseRow ==
    ASSUME Inv, NEW c \in Cases, NEW a \in Actors, NEW dest \in Inboxes \cup {NoInbox},
           NEW status \in {"none", "pending", "investigating"}, NEW p \in Patches,
           UpdateCase(c, a, dest, status, p)
    PROVE  \E new, told : RowStep(c, new, told)
  <1> DEFINE old == case[c]
             moved == [old EXCEPT !.inbox = IF dest = NoInbox THEN @ ELSE dest]
             reopening == old.status = "closed" /\ status = "investigating"
             turned == IF reopening THEN Reopened(moved)
                       ELSE [moved EXCEPT !.status = IF status = "none" THEN @ ELSE status]
             patched == [turned EXCEPT !.boost = IF p.boost = "keep" THEN @ ELSE p.boost,
                                       !.review = IF p.review = "keep" THEN @ ELSE p.review]
             keepAssignment == reopening \/ (old.status = "investigating" /\ status = "investigating")
             new == IF keepAssignment THEN patched
                    ELSE Investigate(patched, a, status \in {"none", "pending"})
             told == Changed(old, patched) \cup Changed(patched, new)
  <1>1. SoundRow(old)
    BY CaseFacts DEF UpdateCase, MayMutate
  <1>2. SoundRow(moved) /\ moved.status = old.status
    BY <1>1 DEF SoundRow, Row
  <1>3. SoundRow(patched)
    <2>1. status # "none" => ValidTransition(old.status, status)
      BY DEF UpdateCase
    <2>2. SoundRow(turned)
      <3> HIDE DEF moved
      <3>1. CASE reopening
        BY <1>2, <3>1 DEF Reopened, SoundRow, Row, Boosts
      <3>2. CASE ~reopening
        BY <1>2, <2>1, <3>2 DEF ValidTransition, SoundRow, Row
      <3> QED BY <3>1, <3>2
    <2> HIDE DEF turned
    <2>3. p.boost \in Boosts \cup {"keep"} /\ p.review \in ReviewLevels \cup {"keep"}
      BY ConstantsAssumption DEF Patch
    <2> QED BY <2>2, <2>3 DEF SoundRow, Row
  <1>4. SoundRow(new)
    <2> HIDE DEF patched, keepAssignment
    <2> QED BY <1>3, InvestigateSound
  <1>5. Assigned(c, new)
    <2>1. CapacityAllows(c, old, patched) /\ CapacityAllows(c, patched, new)
      BY DEF UpdateCase
    <2> HIDE DEF patched, new
    <2> QED BY <1>3, <1>4, <2>1, TriggerAssignsTwice DEF Inv, SoundRow
  <1>6. Write(c, new, told) /\ UNCHANGED inboxVars /\ (IF new.snoozed THEN UNCHANGED due ELSE NotDue(c))
    BY DEF UpdateCase
  <1> HIDE DEF new, patched
  <1>7. Explains(Told(audit[c], new, told), new)
    <2>1. old \in Row /\ patched \in Row /\ new \in Row
      BY <1>1, <1>3, <1>4 DEF SoundRow
    <2>2. /\ "inbox" \in told \/ new.inbox = old.inbox
          /\ "status" \in told \/ new.status = old.status
          /\ "outcome" \in told \/ new.outcome = old.outcome
          /\ "assignee" \in told \/ new.assignee = old.assignee
          /\ "snoozed" \in told \/ new.snoozed = old.snoozed
          /\ "boost" \in told \/ new.boost = old.boost
          /\ "review" \in told \/ new.review = old.review
      <3>1. /\ "inbox" \in Changed(old, patched) \/ patched.inbox = old.inbox
            /\ "status" \in Changed(old, patched) \/ patched.status = old.status
            /\ "outcome" \in Changed(old, patched) \/ patched.outcome = old.outcome
            /\ "assignee" \in Changed(old, patched) \/ patched.assignee = old.assignee
            /\ "snoozed" \in Changed(old, patched) \/ patched.snoozed = old.snoozed
            /\ "boost" \in Changed(old, patched) \/ patched.boost = old.boost
            /\ "review" \in Changed(old, patched) \/ patched.review = old.review
        BY <2>1, ChangedTells
      <3>2. /\ "inbox" \in Changed(patched, new) \/ new.inbox = patched.inbox
            /\ "status" \in Changed(patched, new) \/ new.status = patched.status
            /\ "outcome" \in Changed(patched, new) \/ new.outcome = patched.outcome
            /\ "assignee" \in Changed(patched, new) \/ new.assignee = patched.assignee
            /\ "snoozed" \in Changed(patched, new) \/ new.snoozed = patched.snoozed
            /\ "boost" \in Changed(patched, new) \/ new.boost = patched.boost
            /\ "review" \in Changed(patched, new) \/ new.review = patched.review
        BY <2>1, ChangedTells
      <3> QED BY <3>1, <3>2
    <2> HIDE DEF told
    <2> QED BY <2>1, <2>2, ToldExplains
  <1>8. due' \subseteq due /\ (c \in due' => new.snoozed)
    BY <1>6 DEF NotDue
  <1> QED BY <1>4, <1>5, <1>6, <1>7, <1>8 DEF RowStep

LEMMA AssignRow ==
    ASSUME Inv, NEW c \in Cases, NEW a \in Actors, NEW u \in Users \cup {Nobody}, Assign(c, a, u)
    PROVE  \E new, told : RowStep(c, new, told)
  <1> DEFINE new == [case[c] EXCEPT !.assignee = u]
  <1>1. SoundRow(case[c])
    BY CaseFacts DEF Assign, MayMutate
  <1>2. /\ SoundRow(new) /\ new.inbox = case[c].inbox /\ new.status = case[c].status
        /\ new.outcome = case[c].outcome /\ new.snoozed = case[c].snoozed
        /\ new.boost = case[c].boost /\ new.review = case[c].review
    BY <1>1 DEF SoundRow, Row
  <1>3. /\ CapacityAllows(c, case[c], new) /\ Write(c, new, {"assignee"})
        /\ UNCHANGED <<due, inboxVars>>
    BY DEF Assign
  <1> HIDE DEF new
  <1>4. Assigned(c, new)
    BY <1>2, <1>3, TriggerAssigns DEF Inv, SoundRow
  <1>5. Explains(Told(audit[c], new, {"assignee"}), new)
    BY <1>2, ToldExplains DEF SoundRow
  <1>6. c \in due => new.snoozed
    BY <1>2 DEF Inv, LifecycleConsistent
  <1> QED BY <1>2, <1>3, <1>4, <1>5, <1>6 DEF RowStep

LEMMA SnoozeRow ==
    ASSUME Inv, NEW c \in Cases, NEW a \in Actors, NEW on \in BOOLEAN, Snooze(c, a, on)
    PROVE  \E new, told : RowStep(c, new, told)
  <1> DEFINE set == [case[c] EXCEPT !.snoozed = on]
             new == Investigate(set, a, TRUE)
             told == {"snoozed"} \cup Changed(set, new)
  <1>1. SoundRow(case[c])
    BY CaseFacts DEF Snooze, MayMutate
  <1>2. /\ SoundRow(set)
        /\ set.inbox = case[c].inbox /\ set.outcome = case[c].outcome /\ set.status = case[c].status
        /\ set.assignee = case[c].assignee /\ set.boost = case[c].boost /\ set.review = case[c].review
    BY <1>1 DEF SoundRow, Row, Snooze, Open
  <1>3. CapacityAllows(c, case[c], new) /\ Write(c, new, told) /\ UNCHANGED inboxVars /\ NotDue(c)
    BY DEF Snooze
  <1>4. SoundRow(new)
    <2> HIDE DEF set
    <2> QED BY <1>2, InvestigateSound
  <1> HIDE DEF set, new
  <1>5. Assigned(c, new)
    BY <1>3, <1>4, TriggerAssigns DEF Inv, SoundRow
  <1>6. Explains(Told(audit[c], new, told), new)
    BY <1>2, <1>4, ChangedTells, ToldExplains DEF SoundRow
  <1> QED BY <1>3, <1>4, <1>5, <1>6 DEF RowStep, NotDue

LEMMA EscalateCaseRow ==
    ASSUME Inv, NEW c \in Cases, NEW a \in Actors, EscalateCase(c, a)
    PROVE  \E new, told : RowStep(c, new, told)
  <1> DEFINE dest == inbox[case[c].inbox].escalation
             new == [case[c] EXCEPT !.inbox = dest, !.assignee = Nobody, !.snoozed = FALSE,
                               !.boost = "escalated", !.review = "none"]
             told == {"inbox", "assignee", "snoozed"}
  <1>1. SoundRow(case[c]) /\ Open(case[c])
    BY CaseFacts DEF EscalateCase, MayMutate
  <1>2. dest \in Inboxes
    BY <1>1 DEF EscalateCase, Inv, TypeOK, SoundRow
  <1>3. Write(c, new, told) /\ UNCHANGED inboxVars /\ NotDue(c)
    BY DEF EscalateCase
  <1> HIDE DEF dest
  <1>4. /\ SoundRow(new) /\ new.assignee = Nobody
        /\ new.status = case[c].status /\ new.outcome = case[c].outcome
        /\ new.boost = "escalated" /\ new.review = "none"
    BY <1>1, <1>2 DEF SoundRow, Row, Open, Boosts, ReviewLevels
  <1> HIDE DEF new
  <1>5. Assigned(c, new)
    BY <1>4 DEF Assigned
  <1>6. Explains(Told(audit[c], new, told), new)
    BY <1>4, ToldExplains DEF SoundRow
  <1> QED BY <1>3, <1>4, <1>5, <1>6 DEF RowStep, NotDue

LEMMA CloseCaseRow ==
    ASSUME Inv, NEW c \in Cases, NEW a \in Actors, CloseCase(c, a)
    PROVE  \E new, told : RowStep(c, new, told)
  <1> DEFINE new == Closed(case[c])
             told == {"status", "outcome", "snoozed"} \cup Changed(case[c], new)
  <1>1. SoundRow(case[c])
    BY CaseFacts DEF CloseCase, MayMutate
  <1>2. SoundRow(new) /\ ~Open(new)
    BY <1>1 DEF Closed, SoundRow, Row, Open, Boosts
  <1>3. Write(c, new, told) /\ UNCHANGED inboxVars /\ NotDue(c)
    BY DEF CloseCase
  <1> HIDE DEF new
  <1>4. Assigned(c, new)
    BY <1>2 DEF Assigned
  <1>5. Explains(Told(audit[c], new, told), new)
    BY <1>1, <1>2, ChangedTells, ToldExplains DEF SoundRow
  <1> QED BY <1>2, <1>3, <1>4, <1>5 DEF RowStep, NotDue

LEMMA BulkOneRow ==
    ASSUME Inv, NEW c \in Cases, NEW a \in Actors, NEW o \in Operations, NEW action \in BulkActions,
           NEW i \in Inboxes, NEW u \in Users \cup {Nobody}, BulkOne(c, a, o, action, i, u)
    PROVE  \E new, told : RowStep(c, new, told)
  <1> DEFINE new == BulkRow(c, action, i, u)
  <1>1. SoundRow(case[c])
    BY CaseFacts DEF BulkOne, MayMutate
  <1>2. SoundRow(new)
    <2>1. CASE action = "close"
      BY <1>1, <2>1 DEF BulkRow, Closed, SoundRow, Row, Boosts
    <2>2. CASE action = "reopen"
      BY <1>1, <2>2 DEF BulkRow, Reopened, SoundRow, Row, Boosts
    <2>3. CASE action = "assign"
      BY <1>1, <2>3 DEF BulkRow, SoundRow, Row
    <2>4. CASE action = "move"
      BY <1>1, <2>4 DEF BulkRow, SoundRow, Row
    <2> QED BY <2>1, <2>2, <2>3, <2>4 DEF BulkActions
  <1>3. /\ CapacityAllows(c, case[c], new) /\ Write(c, new, Fields)
        /\ UNCHANGED inboxVars /\ (IF new.snoozed THEN UNCHANGED due ELSE NotDue(c))
    BY DEF BulkOne
  <1> HIDE DEF new
  <1>4. Assigned(c, new)
    BY <1>2, <1>3, TriggerAssigns DEF Inv, SoundRow
  <1>5. Explains(Told(audit[c], new, Fields), new)
    BY <1>2, ToldExplains DEF SoundRow, Fields
  <1>6. due' \subseteq due /\ (c \in due' => new.snoozed)
    BY <1>3 DEF NotDue
  <1> QED BY <1>2, <1>3, <1>4, <1>5, <1>6 DEF RowStep

LEMMA WakeOneRow ==
    ASSUME Inv, NEW c \in Cases, WakeOne(c)
    PROVE  \E new, told : RowStep(c, new, told)
  <1> DEFINE new == [case[c] EXCEPT !.snoozed = FALSE, !.boost = "unsnoozed"]
  <1>1. SoundRow(case[c])
    BY CaseFacts DEF WakeOne, Open
  <1>2. /\ SoundRow(new) /\ new.inbox = case[c].inbox /\ new.status = case[c].status
        /\ new.outcome = case[c].outcome /\ new.assignee = case[c].assignee
        /\ new.boost = "unsnoozed" /\ new.review = case[c].review
    BY <1>1 DEF SoundRow, Row, Boosts
  <1>3. Write(c, new, {"snoozed"}) /\ UNCHANGED inboxVars /\ NotDue(c)
    BY DEF WakeOne
  <1> HIDE DEF new
  <1>4. Assigned(c, new)
    BY <1>2 DEF Assigned, Inv, AssigneeIsMember, Workload, Open
  <1>5. Explains(Told(audit[c], new, {"snoozed"}), new)
    BY <1>2, ToldExplains DEF SoundRow
  <1> QED BY <1>2, <1>3, <1>4, <1>5 DEF RowStep, NotDue

LEMMA AutoAssignRow ==
    ASSUME Inv, NEW w \in Workers, AutoAssign(w)
    PROVE  /\ job[w].case \in Cases
           /\ \E new, told : RowStep(job[w].case, new, told) /\ Open(new)
  <1> DEFINE c == job[w].case
             new == [case[c] EXCEPT !.assignee = job[w].user]
  <1>1. c \in Cases /\ Open(case[c]) /\ job[w].user \in Users \cup {Nobody}
    BY DEF AutoAssign, Inv, JobsSound, TypeOK
  <1>2. /\ CapacityAllows(c, case[c], new) /\ Write(c, new, {"assignee"})
        /\ UNCHANGED <<due, inboxVars>>
    BY DEF AutoAssign
  <1> HIDE DEF c
  <1>3. SoundRow(case[c])
    BY <1>1, CaseFacts DEF Open
  <1>4. /\ SoundRow(new) /\ new.inbox = case[c].inbox /\ new.status = case[c].status
        /\ new.outcome = case[c].outcome /\ new.snoozed = case[c].snoozed
        /\ new.boost = case[c].boost /\ new.review = case[c].review
    BY <1>1, <1>3 DEF SoundRow, Row
  <1> HIDE DEF new
  <1>5. Assigned(c, new)
    BY <1>1, <1>2, <1>4, TriggerAssigns DEF Inv, SoundRow
  <1>6. Explains(Told(audit[c], new, {"assignee"}), new)
    BY <1>1, <1>4, ToldExplains DEF SoundRow
  <1>7. c \in due => new.snoozed
    BY <1>1, <1>4 DEF Inv, LifecycleConsistent
  <1>8. RowStep(c, new, {"assignee"}) /\ Open(new)
    BY <1>1, <1>2, <1>4, <1>5, <1>6, <1>7 DEF RowStep, Open
  <1> QED BY <1>1, <1>8 DEF c

-----------------------------------------------------------------------------
(***************************************************************************)
(* The invariant.                                                          *)
(***************************************************************************)
LEMMA JobsStaySound ==
    ASSUME Inv, NEW c \in Cases, NEW new, NEW told, RowStep(c, new, told),
           ~Locked(c) \/ Open(new),
           \A w \in Workers : job'[w] = job[w] \/ job'[w] = Idle
    PROVE  JobsSound'
  <1>1. case' = [case EXCEPT ![c] = new] /\ case \in [Cases -> Row] /\ Idle.case = 0 /\ Idle.user = Nobody
    BY DEF RowStep, Write, Inv, TypeOK, Idle
  <1> SUFFICES ASSUME NEW w \in Workers
               PROVE  /\ job'[w].user # Nobody => job'[w].case # 0
                      /\ job'[w].case # 0 => Open(case'[job'[w].case])
    BY DEF JobsSound, Open
  <1>2. CASE job'[w] = Idle
    BY <1>1, <1>2
  <1>3. CASE job'[w] = job[w]
    <2>1. /\ job[w].user # Nobody => job[w].case # 0
          /\ job[w].case # 0 => Open(case[job[w].case]) /\ job[w].case \in Cases
      BY DEF Inv, JobsSound, TypeOK
    <2>2. CASE job[w].case = c
      BY <1>1, <1>3, <2>1, <2>2 DEF Locked
    <2>3. CASE job[w].case # c
      BY <1>1, <1>3, <2>1, <2>3
    <2> QED BY <2>2, <2>3
  <1> QED BY <1>2, <1>3

\* A command, or a wake-up: its case is not locked by a worker.
LEMMA UnlockedRowStep ==
    ASSUME Inv, NEW c \in Cases, \E new, told : RowStep(c, new, told),
           ~Locked(c), UNCHANGED <<job, bulkVars>>
    PROVE  Inv'
  <1>1. PICK new, told : RowStep(c, new, told)
    OBVIOUS
  <1>2. JobsSound'
    BY <1>1, JobsStaySound
  <1>3. UNCHANGED <<member, inbox, receipts, applied, job>>
    BY <1>1 DEF RowStep, inboxVars, bulkVars
  <1>4. TypeOK'
    BY <1>1, <1>3, RowStepKeeps DEF TypeOK, Inv
  <1>5. ReceiptsCount'
    BY <1>3 DEF Inv, ReceiptsCount
  <1> QED BY <1>1, <1>2, <1>4, <1>5, RowStepKeeps DEF Inv

\* A created case is not locked: a locked one exists.
LEMMA AbsentUnlocked ==
    ASSUME Inv, NEW c \in Cases, case[c].status = "absent"
    PROVE  ~Locked(c)
  BY CaseTypes DEF Inv, JobsSound, Locked, Open

LEMMA CommandKeeps ==
    ASSUME Inv, Command
    PROVE  Inv'
  <1> PICK c \in Cases, a \in Actors :
        \/ \E i \in Inboxes, u \in Users \cup {Nobody} : CreateCase(c, a, i, u)
        \/ Touch(c, a)
        \/ \E dest \in Inboxes \cup {NoInbox}, status \in {"none", "pending", "investigating"},
                p \in Patches : UpdateCase(c, a, dest, status, p)
        \/ \E u \in Users \cup {Nobody} : Assign(c, a, u)
        \/ \E on \in BOOLEAN : Snooze(c, a, on)
        \/ EscalateCase(c, a)
        \/ CloseCase(c, a)
        \/ \E o \in Operations, action \in BulkActions, i \in Inboxes, u \in Users \cup {Nobody} :
                BulkOne(c, a, o, action, i, u)
    BY DEF Command
  <1>1. ASSUME NEW i \in Inboxes, NEW u \in Users \cup {Nobody}, CreateCase(c, a, i, u)
        PROVE  Inv'
    <2>1. ~Locked(c) /\ UNCHANGED <<job, bulkVars>>
      BY <1>1, AbsentUnlocked DEF CreateCase
    <2> QED BY <1>1, <2>1, CreateCaseRow, UnlockedRowStep
  <1>2. ASSUME Touch(c, a) PROVE Inv'
    <2>1. ~Locked(c) /\ UNCHANGED <<job, bulkVars>>
      BY <1>2 DEF Touch, MayMutate
    <2> QED BY <1>2, <2>1, TouchRow, UnlockedRowStep
  <1>3. ASSUME NEW dest \in Inboxes \cup {NoInbox}, NEW status \in {"none", "pending", "investigating"},
               NEW p \in Patches, UpdateCase(c, a, dest, status, p)
        PROVE  Inv'
    <2>1. ~Locked(c) /\ UNCHANGED <<job, bulkVars>>
      BY <1>3 DEF UpdateCase, MayMutate
    <2> QED BY <1>3, <2>1, UpdateCaseRow, UnlockedRowStep
  <1>4. ASSUME NEW u \in Users \cup {Nobody}, Assign(c, a, u) PROVE Inv'
    <2>1. ~Locked(c) /\ UNCHANGED <<job, bulkVars>>
      BY <1>4 DEF Assign, MayMutate
    <2> QED BY <1>4, <2>1, AssignRow, UnlockedRowStep
  <1>5. ASSUME NEW on \in BOOLEAN, Snooze(c, a, on) PROVE Inv'
    <2>1. ~Locked(c) /\ UNCHANGED <<job, bulkVars>>
      BY <1>5 DEF Snooze, MayMutate
    <2> QED BY <1>5, <2>1, SnoozeRow, UnlockedRowStep
  <1>6. ASSUME EscalateCase(c, a) PROVE Inv'
    <2>1. ~Locked(c) /\ UNCHANGED <<job, bulkVars>>
      BY <1>6 DEF EscalateCase, MayMutate
    <2> QED BY <1>6, <2>1, EscalateCaseRow, UnlockedRowStep
  <1>7. ASSUME CloseCase(c, a) PROVE Inv'
    <2>1. ~Locked(c) /\ UNCHANGED <<job, bulkVars>>
      BY <1>7 DEF CloseCase, MayMutate
    <2> QED BY <1>7, <2>1, CloseCaseRow, UnlockedRowStep
  <1>8. ASSUME NEW o \in Operations, NEW action \in BulkActions, NEW i \in Inboxes,
               NEW u \in Users \cup {Nobody}, BulkOne(c, a, o, action, i, u)
        PROVE  Inv'
    <2>1. PICK new, told : RowStep(c, new, told)
      BY <1>8, BulkOneRow
    <2>2. ~Locked(c) /\ UNCHANGED <<member, inbox, job>>
      BY <1>8 DEF BulkOne, MayMutate, inboxVars
    <2>3. JobsSound'
      BY <2>1, <2>2, JobsStaySound
    <2>4. /\ <<o, c>> \notin receipts
          /\ receipts' = receipts \cup {<<o, c>>}
          /\ applied' = [applied EXCEPT ![o][c] = @ + 1]
          /\ applied \in [Operations -> [Cases -> Nat]]
          /\ receipts \subseteq Operations \X Cases
      BY <1>8 DEF BulkOne, Inv, TypeOK
    <2>5. applied' \in [Operations -> [Cases -> Nat]] /\ receipts' \subseteq Operations \X Cases
      BY <2>4
    <2>6. TypeOK'
      BY <2>1, <2>2, <2>5, RowStepKeeps DEF TypeOK, Inv
    <2>7. ReceiptsCount'
      <3> SUFFICES ASSUME NEW p \in Operations, NEW d \in Cases
                   PROVE  applied'[p][d] = IF <<p, d>> \in receipts' THEN 1 ELSE 0
        BY DEF ReceiptsCount
      <3>1. applied[p][d] = IF <<p, d>> \in receipts THEN 1 ELSE 0
        BY DEF Inv, ReceiptsCount
      <3>2. CASE p = o /\ d = c
        BY <2>4, <3>1, <3>2
      <3>3. CASE p # o \/ d # c
        BY <2>4, <3>1, <3>3
      <3> QED BY <3>2, <3>3
    <2> QED BY <2>1, <2>3, <2>6, <2>7, RowStepKeeps DEF Inv
  <1> QED BY <1>1, <1>2, <1>3, <1>4, <1>5, <1>6, <1>7, <1>8

LEMMA AdministerKeeps ==
    ASSUME Inv, Administer
    PROVE  Inv'
  <1> USE DEF caseVars, bulkVars
  <1>0. /\ member \in [Inboxes -> [Users -> Membership]]
        /\ inbox \in [Inboxes -> [active : BOOLEAN, auto : BOOLEAN, escalation : Inboxes \cup {NoInbox}]]
    BY DEF Inv, TypeOK
  <1>1. ASSUME NEW i \in Inboxes, NEW u \in Users, NEW g \in Grants, PutInboxUser(i, u, g)
        PROVE  Inv'
    <2>1. g \in Membership /\ g.in
      BY ConstantsAssumption
    <2>2. member' = [member EXCEPT ![i][u] = g] /\ UNCHANGED <<case, due, audit, inbox, receipts, applied, job>>
      BY <1>1 DEF PutInboxUser
    <2>3. member' \in [Inboxes -> [Users -> Membership]]
      BY <1>0, <2>1, <2>2
    <2>4. \A j \in Inboxes, v \in Users : member[j][v].in => member'[j][v].in
      BY <1>0, <2>1, <2>2
    <2>5. AssigneeIsMember'
      BY <2>2, <2>4 DEF Inv, TypeOK, AssigneeIsMember, Has, Members, Open
    <2> QED BY <2>2, <2>3, <2>5 DEF Inv, TypeOK, NoGhosts, LifecycleConsistent, AuditReplays, ReceiptsCount, JobsSound
  <1>2. ASSUME NEW i \in Inboxes, NEW u \in Users, RemoveInboxUser(i, u)
        PROVE  Inv'
    <2>1. /\ member' = [member EXCEPT ![i][u] = NoMember] /\ Workload(i, u) = {}
          /\ UNCHANGED <<case, due, audit, inbox, receipts, applied, job>>
      BY <1>2 DEF RemoveInboxUser
    <2>2. member' \in [Inboxes -> [Users -> Membership]]
      BY <1>0, <2>1 DEF NoMember, Membership
    <2>3. AssigneeIsMember'
      <3> SUFFICES ASSUME NEW c \in Cases, Open(case[c]), case[c].assignee # Nobody
                   PROVE  case[c].assignee \in Users /\ member'[case[c].inbox][case[c].assignee].in
        BY <2>1 DEF AssigneeIsMember, Has, Members, Open
      <3>1. /\ case[c].assignee \in Users /\ case[c].inbox \in Inboxes
            /\ member[case[c].inbox][case[c].assignee].in
        BY DEF Inv, TypeOK, AssigneeIsMember, Has, Members, Open
      <3>2. case[c].inbox # i \/ case[c].assignee # u
        BY <2>1 DEF Workload
      <3> QED BY <1>0, <2>1, <3>1, <3>2
    <2> QED BY <2>1, <2>2, <2>3 DEF Inv, TypeOK, NoGhosts, LifecycleConsistent, AuditReplays, ReceiptsCount, JobsSound
  <1>3. ASSUME NEW i \in Inboxes, NEW s \in Settings, UpdateInbox(i, s)
        PROVE  Inv'
    <2>1. inbox' = [inbox EXCEPT ![i] = s] /\ UNCHANGED <<case, due, audit, member, receipts, applied, job>>
      BY <1>3 DEF UpdateInbox
    <2>2. inbox' \in [Inboxes -> [active : BOOLEAN, auto : BOOLEAN, escalation : Inboxes \cup {NoInbox}]]
      BY <1>0, <2>1, ConstantsAssumption
    <2>3. AssigneeIsMember'
      BY <2>1 DEF Inv, AssigneeIsMember, Has, Members
    <2> QED BY <2>1, <2>2, <2>3 DEF Inv, TypeOK, NoGhosts, LifecycleConsistent, AuditReplays, ReceiptsCount, JobsSound
  <1> QED BY <1>1, <1>2, <1>3 DEF Administer

\* The worker's choices and roll-backs change nothing but its job.
LEMMA JobKeeps ==
    ASSUME Inv, UNCHANGED <<caseVars, inboxVars, bulkVars>>,
           job' \in [Workers -> [case : Cases \cup {0}, user : Users \cup {Nobody}]], JobsSound'
    PROVE  Inv'
  <1>1. UNCHANGED <<case, due, audit, member, inbox, receipts, applied>>
    BY DEF caseVars, inboxVars, bulkVars
  <1>2. AssigneeIsMember'
    BY <1>1 DEF Inv, AssigneeIsMember, Has, Members
  <1> QED BY <1>1, <1>2 DEF Inv, TypeOK, NoGhosts, LifecycleConsistent, AuditReplays, ReceiptsCount

LEMMA MaintainKeeps ==
    ASSUME Inv, Maintain
    PROVE  Inv'
  <1>0. job \in [Workers -> [case : Cases \cup {0}, user : Users \cup {Nobody}]] /\ 0 \notin Cases
    BY CaseTypes DEF Inv, TypeOK
  <1>1. ASSUME NEW c \in Cases, SnoozePasses(c) PROVE Inv'
    <2>1. /\ case[c].snoozed /\ due' = due \cup {c}
          /\ UNCHANGED <<case, audit, member, inbox, receipts, applied, job>>
      BY <1>1 DEF SnoozePasses, inboxVars, bulkVars
    <2>2. LifecycleConsistent'
      BY <2>1 DEF Inv, LifecycleConsistent
    <2>3. AssigneeIsMember'
      BY <2>1 DEF Inv, AssigneeIsMember, Has, Members
    <2> QED BY <2>1, <2>2, <2>3 DEF Inv, TypeOK, NoGhosts, AuditReplays, ReceiptsCount, JobsSound
  <1>2. ASSUME NEW c \in Cases, WakeOne(c) PROVE Inv'
    <2>1. ~Locked(c) /\ UNCHANGED <<job, bulkVars>>
      BY <1>2 DEF WakeOne
    <2> QED BY <1>2, <2>1, WakeOneRow, UnlockedRowStep
  <1>3. ASSUME NEW w \in Workers, NEW c \in Cases, SelectCase(w, c) PROVE Inv'
    <2>1. /\ job' = [job EXCEPT ![w].case = c] /\ UNCHANGED <<caseVars, inboxVars, bulkVars>>
          /\ Open(case[c]) /\ case' = case
      BY <1>3 DEF SelectCase, Assignable, Waiting, caseVars
    <2>2. job' \in [Workers -> [case : Cases \cup {0}, user : Users \cup {Nobody}]]
      BY <1>0, <2>1
    <2>3. JobsSound'
      BY <1>0, <2>1 DEF Inv, JobsSound
    <2> QED BY <2>1, <2>2, <2>3, JobKeeps
  <1>4. ASSUME NEW w \in Workers, NEW u \in Users, SelectUser(w, u) PROVE Inv'
    <2>1. /\ job' = [job EXCEPT ![w].user = u] /\ UNCHANGED <<caseVars, inboxVars, bulkVars>>
          /\ job[w].case # 0 /\ case' = case
      BY <1>4 DEF SelectUser, caseVars
    <2>2. job' \in [Workers -> [case : Cases \cup {0}, user : Users \cup {Nobody}]]
      BY <1>0, <2>1
    <2>3. JobsSound'
      BY <1>0, <2>1 DEF Inv, JobsSound
    <2> QED BY <2>1, <2>2, <2>3, JobKeeps
  <1>5. ASSUME NEW w \in Workers, AutoAssign(w) PROVE Inv'
    <2> DEFINE c == job[w].case
    <2>1. c \in Cases /\ \E new, told : RowStep(c, new, told) /\ Open(new)
      BY <1>5, AutoAssignRow
    <2>2. PICK new, told : RowStep(c, new, told) /\ Open(new)
      BY <2>1
    <2>3. job' = [job EXCEPT ![w] = Idle] /\ UNCHANGED <<member, inbox, receipts, applied>>
      BY <1>5 DEF AutoAssign, inboxVars, bulkVars
    <2>4. job' \in [Workers -> [case : Cases \cup {0}, user : Users \cup {Nobody}]]
      BY <1>0, <2>3 DEF Idle
    <2>5. \A x \in Workers : job'[x] = job[x] \/ job'[x] = Idle
      BY <1>0, <2>3
    <2>6. JobsSound'
      BY <2>1, <2>2, <2>5, JobsStaySound
    <2>7. TypeOK'
      BY <2>1, <2>2, <2>3, <2>4, RowStepKeeps DEF TypeOK, Inv
    <2>8. ReceiptsCount'
      BY <2>3 DEF Inv, ReceiptsCount
    <2> QED BY <2>1, <2>2, <2>6, <2>7, <2>8, RowStepKeeps DEF Inv
  <1>6. ASSUME NEW w \in Workers, Rollback(w) PROVE Inv'
    <2>1. /\ job' = [job EXCEPT ![w] = Idle] /\ UNCHANGED <<caseVars, inboxVars, bulkVars>>
          /\ case' = case
      BY <1>6 DEF Rollback, caseVars
    <2>2. job' \in [Workers -> [case : Cases \cup {0}, user : Users \cup {Nobody}]]
      BY <1>0, <2>1 DEF Idle
    <2>3. JobsSound'
      BY <1>0, <2>1 DEF Inv, JobsSound, Idle
    <2> QED BY <2>1, <2>2, <2>3, JobKeeps
  <1> QED BY <1>1, <1>2, <1>3, <1>4, <1>5, <1>6 DEF Maintain

LEMMA InitSound == Init => Inv
  <1> SUFFICES ASSUME Init PROVE Inv
    OBVIOUS
  <1>1. NoRow \in Row /\ Idle \in [case : Cases \cup {0}, user : Users \cup {Nobody}] /\ NoMember \in Membership
    BY DEF NoRow, Row, Boosts, ReviewLevels, Idle, NoMember, Membership
  <1>2. TypeOK
    BY <1>1 DEF Init, TypeOK, NoRow
  <1>3. NoGhosts /\ LifecycleConsistent /\ AssigneeIsMember /\ AuditReplays
    BY DEF Init, NoRow, NoGhosts, LifecycleConsistent, AssigneeIsMember, AuditReplays, Explains, Open
  <1>4. ReceiptsCount /\ JobsSound
    BY DEF Init, ReceiptsCount, JobsSound, Idle
  <1> QED BY <1>2, <1>3, <1>4 DEF Inv

\* The invariant holds in every reachable state.
THEOREM Invariance == Spec => []Inv
  <1>1. ASSUME Inv, [Next]_vars PROVE Inv'
    <2>1. CASE Next
      BY <1>1, <2>1, CommandKeeps, AdministerKeeps, MaintainKeeps DEF Next
    <2>2. CASE UNCHANGED vars
      <3>1. UNCHANGED <<case, due, audit, member, inbox, receipts, applied, job>>
        BY <2>2 DEF vars, caseVars, inboxVars, bulkVars
      <3>2. AssigneeIsMember'
        BY <1>1, <3>1 DEF Inv, AssigneeIsMember, Has, Members
      <3> QED BY <1>1, <3>1, <3>2 DEF Inv, TypeOK, NoGhosts, LifecycleConsistent, AuditReplays, ReceiptsCount, JobsSound
    <2> QED BY <1>1, <2>1, <2>2
  <1> QED BY <1>1, InitSound, PTL DEF Spec

\* Every reachable state is well typed.
THEOREM TypeCorrect == Spec => []TypeOK
  BY Invariance, PTL DEF Inv

\* Whatever paths it took, a case has an outcome exactly while it is closed, and is
\* then not snoozed.
THEOREM LifecycleHolds == Spec => []LifecycleConsistent
  BY Invariance, PTL DEF Inv

\* The assignee of an open case is always a member of its inbox: the trigger, and
\* the search for open cases when a member is removed, are enough.
THEOREM AssigneesAreMembers == Spec => []AssigneeIsMember
  BY Invariance, PTL DEF Inv

\* Whatever happened to a case, replaying what its events state gives its inbox,
\* status, outcome, assignment and snooze; it may lag behind an attention flag that a
\* wake-up or an escalation set and a review level that an escalation cleared, and
\* behind nothing else.
THEOREM HistoryExplains == Spec => []AuditReplays
  BY Invariance, PTL DEF Inv

\* A bulk operation takes effect on a case at most once.
THEOREM BulkTakesEffectOnce == Spec => []BulkOnce
  <1>1. Inv => BulkOnce
    <2> SUFFICES ASSUME Inv, NEW o \in Operations, NEW c \in Cases
                 PROVE  applied[o][c] <= 1
      BY DEF BulkOnce
    <2>1. applied[o][c] \in {0, 1}
      BY DEF Inv, ReceiptsCount
    <2> QED BY <2>1
  <1> QED BY <1>1, Invariance, PTL

-----------------------------------------------------------------------------
(***************************************************************************)
(* Capacity.                                                               *)
(***************************************************************************)
LEMMA WorkloadFinite ==
    ASSUME NEW S \in SUBSET Cases
    PROVE  IsFiniteSet(S) /\ Cardinality(S) \in Nat
  <1>1. IsFiniteSet(Cases)
    BY ConstantsAssumption, FS_Interval DEF Cases
  <1> QED BY <1>1, FS_Subset, FS_CardinalityType

\* A row step gives a member more work only if he has room for it.
LEMMA RowStepCapacity ==
    ASSUME Inv, NEW c \in Cases, NEW new, NEW told, RowStep(c, new, told),
           NEW i \in Inboxes, NEW u \in Users,
           Cardinality(Workload(i, u)') > Cardinality(Workload(i, u))
    PROVE  Cardinality(Workload(i, u)') <= member'[i][u].capacity
  <1> DEFINE old == Workload(i, u)
             now == Workload(i, u)'
             rest == old \ {c}
  <1>1. case' = [case EXCEPT ![c] = new] /\ case \in [Cases -> Row] /\ member' = member
    BY DEF RowStep, Write, inboxVars, Inv, TypeOK
  <1>2. old \in SUBSET Cases /\ now \in SUBSET Cases
    BY DEF Workload
  <1>3. \A d \in Cases \ {c} : d \in now <=> d \in old
    BY <1>1 DEF Workload
  <1>4. c \in now /\ c \notin old
    <2>1. ~(now \subseteq old)
      <3> HIDE DEF old, now
      <3> SUFFICES ASSUME now \subseteq old PROVE FALSE
        OBVIOUS
      <3>1. Cardinality(now) <= Cardinality(old)
        BY <1>2, WorkloadFinite, FS_Subset
      <3> QED BY <1>2, <3>1, WorkloadFinite DEF old, now
    <2> HIDE DEF old, now
    <2> QED BY <1>2, <1>3, <2>1
  <1>5. i = new.inbox /\ u = new.assignee /\ Open(new)
    BY <1>1, <1>4 DEF Workload, Open
  <1>6. Cardinality(rest) < member[i][u].capacity
    BY <1>4, <1>5, ConstantsAssumption DEF RowStep, Assigned
  <1>7. now = rest \cup {c} /\ c \notin rest /\ rest \in SUBSET Cases
    <2> HIDE DEF old, now
    <2> QED BY <1>2, <1>3, <1>4
  <1>8. Cardinality(now) = Cardinality(rest) + 1
    <2> HIDE DEF old, now, rest
    <2> QED BY <1>7, WorkloadFinite, FS_AddElement
  <1>9. Cardinality(rest) \in Nat /\ member[i][u].capacity \in Nat
    <2>1. member[i][u] \in Membership
      BY DEF Inv, TypeOK
    <2> HIDE DEF rest
    <2> QED BY <1>7, <2>1, WorkloadFinite DEF Membership
  <1> HIDE DEF now, rest
  <1>10. Cardinality(now) <= member'[i][u].capacity
    BY <1>1, <1>6, <1>8, <1>9
  <1> QED BY <1>10 DEF now

\* A step that changes a case is a row step.
LEMMA StepShape ==
    ASSUME Inv, [Next]_vars
    PROVE  case' = case \/ \E c \in Cases : \E new, told : RowStep(c, new, told)
  <1>1. CASE Command
    <2> PICK c \in Cases, a \in Actors :
          \/ \E i \in Inboxes, u \in Users \cup {Nobody} : CreateCase(c, a, i, u)
          \/ Touch(c, a)
          \/ \E dest \in Inboxes \cup {NoInbox}, status \in {"none", "pending", "investigating"},
                  p \in Patches : UpdateCase(c, a, dest, status, p)
          \/ \E u \in Users \cup {Nobody} : Assign(c, a, u)
          \/ \E on \in BOOLEAN : Snooze(c, a, on)
          \/ EscalateCase(c, a)
          \/ CloseCase(c, a)
          \/ \E o \in Operations, action \in BulkActions, i \in Inboxes, u \in Users \cup {Nobody} :
                  BulkOne(c, a, o, action, i, u)
      BY <1>1 DEF Command
    <2>1. \E new, told : RowStep(c, new, told)
      BY CreateCaseRow, TouchRow, UpdateCaseRow, AssignRow, SnoozeRow, EscalateCaseRow,
         CloseCaseRow, BulkOneRow
    <2> QED BY <2>1
  <1>2. CASE Administer
    BY <1>2 DEF Administer, PutInboxUser, RemoveInboxUser, UpdateInbox, caseVars
  <1>3. CASE Maintain
    <2>1. ASSUME NEW w \in Workers, AutoAssign(w)
          PROVE  \E c \in Cases : \E new, told : RowStep(c, new, told)
      BY <2>1, AutoAssignRow
    <2> QED BY <1>3, <2>1, WakeOneRow DEF Maintain, SnoozePasses, SelectCase, SelectUser, Rollback, caseVars
  <1>4. CASE UNCHANGED vars
    BY <1>4 DEF vars, caseVars
  <1> QED BY <1>1, <1>2, <1>3, <1>4 DEF Next

\* The open work of a member never grows beyond his capacity, for any number of
\* workers that choose from stale snapshots beside any commands.
THEOREM CapacityHolds == Spec => CapacityRespected
  <1>1. ASSUME Inv, [Next]_vars, NEW i \in Inboxes, NEW u \in Users,
               Cardinality(Workload(i, u)') > Cardinality(Workload(i, u))
        PROVE  Cardinality(Workload(i, u)') <= member'[i][u].capacity
    <2>1. CASE case' = case
      <3>1. Workload(i, u)' = Workload(i, u) /\ Workload(i, u) \in SUBSET Cases
        BY <2>1 DEF Workload
      <3> QED BY <1>1, <3>1, WorkloadFinite
    <2>2. ASSUME NEW c \in Cases, NEW new, NEW told, RowStep(c, new, told)
          PROVE  Cardinality(Workload(i, u)') <= member'[i][u].capacity
      BY <1>1, <2>2, RowStepCapacity
    <2> QED BY <1>1, <2>1, <2>2, StepShape
  <1>2. Inv /\ [Next]_vars =>
            [\A i \in Inboxes, u \in Users :
                Cardinality(Workload(i, u)') > Cardinality(Workload(i, u))
                    => Cardinality(Workload(i, u)') <= member'[i][u].capacity]_vars
    BY <1>1
  <1> QED BY <1>2, Invariance, PTL DEF Spec, CapacityRespected
=============================================================================
