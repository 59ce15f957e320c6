---------------------------- MODULE CaseLifecycle ----------------------------
(***************************************************************************)
(* Cases, inboxes and inbox members of the case manager: the commands of   *)
(* investigators, administrators and integrations, bulk operations, and    *)
(* the maintenance worker that wakes snoozed cases and hands out waiting   *)
(* ones.                                                                   *)
(*                                                                         *)
(* A command is one transaction.  It locks its case FOR UPDATE, its        *)
(* inboxes FOR SHARE and, where the capacity trigger looks at a member,    *)
(* that member FOR UPDATE; a command on an inbox locks it FOR UPDATE.      *)
(* What it has read cannot change before it commits, so it is one step,    *)
(* possible while no worker holds one of its locks.  An assignment of the  *)
(* worker is three: it chooses its user from a snapshot that may be stale. *)
(***************************************************************************)
EXTENDS Naturals, FiniteSets

CONSTANTS
    MaxCases,    \* bound: cases created; they are numbered by created_at
    Inboxes,
    Users,       \* investigators
    Admins,      \* those of them who are administrators of the tenant
    Service,     \* an integration, for which access.Actor is nil
    Nobody,      \* NULL in assigned_to
    NoInbox,     \* NULL in escalation_inbox_id, or no destination in a request
    Grants,      \* bound: the memberships administrators grant
    Settings,    \* bound: the settings administrators give an inbox
    Patches,     \* bound: the attention flag and review level of an update request
    Operations,  \* operation ids of bulk requests
    Workers      \* running maintenance jobs, over all replicas

Cases == 1..MaxCases

\* A row of inbox_users; the row of a user who is not a member.
Membership == [in : BOOLEAN, auto : BOOLEAN, capacity : Nat]
NoMember == [in |-> FALSE, auto |-> FALSE, capacity |-> 0]

\* The reasons a case asks for attention, and the review levels; "none" is NULL.
Boosts == {"none", "unsnoozed", "reassigned", "escalated", "new_decision"}
ReviewLevels == {"none", "probable_false_positive", "investigate", "escalate"}

\* What a request may patch; "keep" is a field it leaves out.
Patch == [boost : Boosts \cup {"keep"}, review : ReviewLevels \cup {"keep"}]

ASSUME ConstantsAssumption ==
    /\ MaxCases \in Nat
    /\ Admins \subseteq Users
    /\ Service \notin Users
    /\ Nobody \notin Users
    /\ NoInbox \notin Inboxes
    /\ Grants \subseteq {g \in Membership : g.in}
    /\ Settings \subseteq [active : BOOLEAN, auto : BOOLEAN, escalation : Inboxes \cup {NoInbox}]
    /\ Patches \subseteq Patch

VARIABLES
    case,      \* per case: its row
    due,       \* the cases whose snoozed_until has passed
    audit,     \* ghost: per case, the row as its creation and its events tell it
    member,    \* per inbox and user: the row of inbox_users
    inbox,     \* per inbox: its settings
    receipts,  \* the <<operation, case>> pairs with a bulk receipt
    applied,   \* ghost: how often a bulk operation took effect on a case
    job        \* per worker: the case it has locked (0: none), and its user

caseVars  == <<case, due, audit>>
inboxVars == <<member, inbox>>
bulkVars  == <<receipts, applied>>
vars      == <<caseVars, inboxVars, bulkVars, job>>

NoRow == [inbox |-> NoInbox, status |-> "absent", outcome |-> "unset",
          assignee |-> Nobody, snoozed |-> FALSE, boost |-> "none", review |-> "none"]
Idle == [case |-> 0, user |-> Nobody]

Init ==
    /\ case = [c \in Cases |-> NoRow]
    /\ due = {}
    /\ audit = [c \in Cases |-> NoRow]
    /\ member = [i \in Inboxes |-> [u \in Users |-> NoMember]]
    /\ inbox = [i \in Inboxes |-> [active |-> TRUE, auto |-> FALSE, escalation |-> NoInbox]]
    /\ receipts = {}
    /\ applied = [o \in Operations |-> [c \in Cases |-> 0]]
    /\ job = [w \in Workers |-> Idle]

-----------------------------------------------------------------------------
(***************************************************************************)
(* Conditions the commands share.                                          *)
(***************************************************************************)
Open(r) == r.status \in {"pending", "investigating"}
Members(i) == {u \in Users : member[i][u].in}
Has(i, u) == u \in Members(i)
Eligible(i, u) == u \in Members(i) \cup {Nobody}
InboxAccess(a, i) == a \in Members(i) \cup Admins \cup {Service}

\* The open cases of a user in an inbox.
Workload(i, u) == {c \in Cases : case[c].inbox = i /\ case[c].assignee = u /\ Open(case[c])}
HasRoom(i, u) == Cardinality(Workload(i, u)) < member[i][u].capacity

\* A trigger that passes every update of an open case.
CapacityAllowsUpdates(c, old, new) ==
    IF new.assignee = Nobody \/ ~Open(new) \/ (Open(old)) THEN TRUE
    ELSE /\ Has(new.inbox, new.assignee)
         /\ Cardinality(Workload(new.inbox, new.assignee) \ {c}) < member[new.inbox][new.assignee].capacity

\* enforce_assignment_capacity: the member row is locked, so the count is exact.
CapacityAllows(c, old, new) ==
    IF new.assignee = Nobody \/ ~Open(new) \/ (old.assignee = new.assignee /\ old.inbox = new.inbox /\ Open(old)) THEN TRUE
    ELSE /\ Has(new.inbox, new.assignee)
         /\ Cardinality(Workload(new.inbox, new.assignee) \ {c}) < member[new.inbox][new.assignee].capacity

\* caseForMutation: the case exists, no worker has it, and the caller may see it.
Locked(c) == \E w \in Workers : job[w].case = c
MayMutate(c, a) ==
    /\ case[c].status # "absent"
    /\ ~Locked(c)
    /\ InboxAccess(a, case[c].inbox)

\* The effects of a human action; an integration has none.
Investigate(r, a, advance) ==
    IF a = Service THEN r
    ELSE [r EXCEPT !.status = IF advance /\ @ = "pending" THEN "investigating" ELSE @,
                   !.assignee = IF @ = Nobody /\ Has(r.inbox, a) THEN a ELSE @,
                   !.boost = "none"]

\* What the history says of a row after events that state some of its new values.
Fields == {"inbox", "status", "outcome", "assignee", "snoozed", "boost", "review"}
Told(old, new, told) ==
    [inbox    |-> IF "inbox" \in told THEN new.inbox ELSE old.inbox,
     status   |-> IF "status" \in told THEN new.status ELSE old.status,
     outcome  |-> IF "outcome" \in told THEN new.outcome ELSE old.outcome,
     assignee |-> IF "assignee" \in told THEN new.assignee ELSE old.assignee,
     snoozed  |-> IF "snoozed" \in told THEN new.snoozed ELSE old.snoozed,
     boost    |-> IF "boost" \in told THEN new.boost ELSE old.boost,
     review   |-> IF "review" \in told THEN new.review ELSE old.review]

\* addEvent, and the conditions in investigate: no event for a field that stays.
Changed(old, new) == {f \in Fields : new[f] # old[f]}

\* The row is written, with the events that state the told fields.
Write(c, new, told) ==
    /\ case' = [case EXCEPT ![c] = new]
    /\ audit' = [audit EXCEPT ![c] = Told(@, new, told)]

-----------------------------------------------------------------------------
(***************************************************************************)
(* Commands on a case.                                                     *)
(***************************************************************************)

\* createCase: a human creator starts the investigation and, as a member, gets
\* the case unless another assignee is named.
CreateCase(c, a, i, u) ==
    LET assignee == IF u = Nobody /\ a # Service /\ Has(i, a) THEN a ELSE u
        new == [NoRow EXCEPT !.inbox = i, !.assignee = assignee,
                             !.status = IF a = Service THEN "pending" ELSE "investigating"]
    IN
    /\ case[c].status = "absent"
    /\ \A d \in Cases : d < c => case[d].status # "absent"
    /\ inbox[i].active
    /\ InboxAccess(a, i)
    /\ Eligible(i, assignee)
    /\ CapacityAllows(c, NoRow, new)
    /\ Write(c, new, Fields)
    /\ UNCHANGED <<due, inboxVars, bulkVars, job>>

\* createComment, addTag, removeTag, addFile and, on an open case, addDecision
\* and the destination of TransferDecision.
Touch(c, a) ==
    LET new == Investigate(case[c], a, TRUE) IN
    /\ MayMutate(c, a)
    /\ CapacityAllows(c, case[c], new)
    /\ Write(c, new, Changed(case[c], new))
    /\ UNCHANGED <<due, inboxVars, bulkVars, job>>

ValidTransition(s, t) ==
    \/ s = t
    \/ s = "pending"
    \/ s = "investigating" /\ t = "closed"
    \/ s = "closed" /\ t = "investigating"

\* applyLifecycle: closing keeps the assignment and the review level, and so does
\* reopening.
Closed(r) == [r EXCEPT !.status = "closed", !.outcome = "settled", !.snoozed = FALSE, !.boost = "none"]
Reopened(r) == [r EXCEPT !.status = "investigating", !.outcome = "unset", !.snoozed = FALSE, !.boost = "none"]
MayReopen(r, a) ==
    /\ a # Service
    /\ r.status = "closed"
    /\ inbox[r.inbox].active
    /\ Eligible(r.inbox, r.assignee)

\* A snooze that is cleared or set anew is not due.
NotDue(c) == due' = due \ {c}

\* updateCase: an optional destination, status, attention flag and review level; to
\* reopen is to patch a closed case to investigating.  The patch has its events,
\* and then the investigation has its own.
UpdateCase(c, a, dest, status, p) ==
    LET old == case[c]
        moved == [old EXCEPT !.inbox = IF dest = NoInbox THEN @ ELSE dest]
        reopening == old.status = "closed" /\ status = "investigating"
        turned == IF reopening THEN Reopened(moved)
                  ELSE [moved EXCEPT !.status = IF status = "none" THEN @ ELSE status]
        patched == [turned EXCEPT !.boost = IF p.boost = "keep" THEN @ ELSE p.boost,
                                  !.review = IF p.review = "keep" THEN @ ELSE p.review]
        keepAssignment == reopening \/ (old.status = "investigating" /\ status = "investigating")
        new == IF keepAssignment THEN patched
               ELSE Investigate(patched, a, status \in {"none", "pending"})
    IN
    /\ MayMutate(c, a)
    /\ status # "none" => ValidTransition(old.status, status)
    /\ dest # NoInbox => inbox[dest].active /\ InboxAccess(a, dest) /\ Eligible(dest, old.assignee)
    /\ reopening => MayReopen(moved, a) /\ p.boost \in {"keep", "none"}
    /\ CapacityAllows(c, old, patched)
    /\ CapacityAllows(c, patched, new)
    /\ Write(c, new, Changed(old, patched) \cup Changed(patched, new))
    /\ IF new.snoozed THEN UNCHANGED due ELSE NotDue(c)
    /\ UNCHANGED <<inboxVars, bulkVars, job>>

\* assign, also on a closed case.
Assign(c, a, u) ==
    LET new == [case[c] EXCEPT !.assignee = u] IN
    /\ MayMutate(c, a)
    /\ Eligible(new.inbox, u)
    /\ CapacityAllows(c, case[c], new)
    /\ Write(c, new, {"assignee"})
    /\ UNCHANGED <<due, inboxVars, bulkVars, job>>

Snooze(c, a, on) ==
    LET set == [case[c] EXCEPT !.snoozed = on]
        new == Investigate(set, a, TRUE)
    IN
    /\ MayMutate(c, a)
    /\ Open(case[c])
    /\ CapacityAllows(c, case[c], new)
    /\ Write(c, new, {"snoozed"} \cup Changed(set, new))
    /\ NotDue(c)
    /\ UNCHANGED <<inboxVars, bulkVars, job>>

\* EscalateCase: the configured destination needs no membership of the caller.  Its
\* event states the inboxes, and that the assignment and the snooze are cleared; it
\* says nothing of the attention flag it sets and the review level it clears.
EscalateCase(c, a) ==
    LET source == case[c].inbox
        dest == inbox[source].escalation
    IN
    /\ MayMutate(c, a)
    /\ Open(case[c])
    /\ dest # NoInbox
    /\ inbox[source].active /\ inbox[dest].active
    /\ Write(c, [case[c] EXCEPT !.inbox = dest, !.assignee = Nobody, !.snoozed = FALSE,
                                !.boost = "escalated", !.review = "none"],
             {"inbox", "assignee", "snoozed"})
    /\ NotDue(c)
    /\ UNCHANGED <<inboxVars, bulkVars, job>>

\* CloseCase that records its events before applyLifecycle has cleared the snooze.
CloseUntold(c, a) ==
    /\ MayMutate(c, a)
    /\ a # Service
    /\ Open(case[c])
    /\ Write(c, Closed(case[c]), {"status", "outcome"})
    /\ NotDue(c)
    /\ UNCHANGED <<inboxVars, bulkVars, job>>

CloseCase(c, a) ==
    /\ MayMutate(c, a)
    /\ a # Service
    /\ Open(case[c])
    /\ Write(c, Closed(case[c]), {"status", "outcome", "snoozed"} \cup Changed(case[c], Closed(case[c])))
    /\ NotDue(c)
    /\ UNCHANGED <<inboxVars, bulkVars, job>>

\* bulkOne on one case, in a transaction of its own.  With a receipt it is a replay
\* or, if the payload differs, a conflict: neither has an effect.
BulkActions == {"close", "reopen", "assign", "move"}

BulkRow(c, action, i, u) ==
    CASE action = "close" -> Closed(case[c])
      [] action = "reopen" -> Reopened(case[c])
      [] action = "assign" -> [case[c] EXCEPT !.assignee = u]
      [] action = "move" -> [case[c] EXCEPT !.inbox = i]

BulkAllowed(c, a, action, i, u) ==
    CASE action = "close" -> Open(case[c])
      [] action = "reopen" -> MayReopen(case[c], a)
      [] action = "assign" -> Open(case[c]) /\ Eligible(case[c].inbox, u)
      [] action = "move" -> inbox[i].active /\ InboxAccess(a, i) /\ Eligible(i, case[c].assignee)

\* bulkOne without its look at the receipt.
BulkOneUnchecked(c, a, o, action, i, u) ==
    LET new == BulkRow(c, action, i, u) IN
    /\ MayMutate(c, a)
    /\ a # Service
    /\ BulkAllowed(c, a, action, i, u)
    /\ CapacityAllows(c, case[c], new)
    /\ Write(c, new, Fields)
    /\ IF new.snoozed THEN UNCHANGED due ELSE NotDue(c)
    /\ receipts' = receipts \cup {<<o, c>>}
    /\ applied' = [applied EXCEPT ![o][c] = @ + 1]
    /\ UNCHANGED <<inboxVars, job>>

BulkOne(c, a, o, action, i, u) ==
    LET new == BulkRow(c, action, i, u) IN
    /\ MayMutate(c, a)
    /\ a # Service
    /\ <<o, c>> \notin receipts
    /\ BulkAllowed(c, a, action, i, u)
    /\ CapacityAllows(c, case[c], new)
    /\ Write(c, new, Fields)
    /\ IF new.snoozed THEN UNCHANGED due ELSE NotDue(c)
    /\ receipts' = receipts \cup {<<o, c>>}
    /\ applied' = [applied EXCEPT ![o][c] = @ + 1]
    /\ UNCHANGED <<inboxVars, job>>

-----------------------------------------------------------------------------
(***************************************************************************)
(* Commands of administrators on an inbox: they wait for a worker that has *)
(* it locked.                                                              *)
(***************************************************************************)
InUse(i) == \E w \in Workers : job[w].user # Nobody /\ case[job[w].case].inbox = i

PutInboxUser(i, u, g) ==
    /\ ~InUse(i)
    /\ member' = [member EXCEPT ![i][u] = g]
    /\ UNCHANGED <<caseVars, inbox, bulkVars, job>>

\* RemoveInboxUser without its search for open cases.
RemoveAnyInboxUser(i, u) ==
    /\ ~InUse(i)
    /\ Has(i, u)
    /\ member' = [member EXCEPT ![i][u] = NoMember]
    /\ UNCHANGED <<caseVars, inbox, bulkVars, job>>

RemoveInboxUser(i, u) ==
    /\ ~InUse(i)
    /\ Has(i, u)
    /\ Workload(i, u) = {}
    /\ member' = [member EXCEPT ![i][u] = NoMember]
    /\ UNCHANGED <<caseVars, inbox, bulkVars, job>>

UpdateInbox(i, s) ==
    /\ ~InUse(i)
    /\ s.escalation # i
    /\ s.escalation \in Inboxes => s.escalation = inbox[i].escalation \/ inbox[s.escalation].active
    /\ inbox' = [inbox EXCEPT ![i] = s]
    /\ UNCHANGED <<caseVars, member, bulkVars, job>>

-----------------------------------------------------------------------------
(***************************************************************************)
(* The maintenance worker.                                                 *)
(***************************************************************************)
SnoozePasses(c) ==
    /\ case[c].snoozed
    /\ c \notin due
    /\ due' = due \cup {c}
    /\ UNCHANGED <<case, audit, inboxVars, bulkVars, job>>

\* wakeOne, FOR UPDATE SKIP LOCKED: its event states the snooze, not the flag.
WakeOne(c) ==
    /\ Open(case[c])
    /\ c \in due
    /\ ~Locked(c)
    /\ Write(c, [case[c] EXCEPT !.snoozed = FALSE, !.boost = "unsnoozed"], {"snoozed"})
    /\ NotDue(c)
    /\ UNCHANGED <<inboxVars, bulkVars, job>>

Volunteers(i) == {u \in Users : Has(i, u) /\ member[i][u].auto /\ HasRoom(i, u)}
Waiting(c) == Open(case[c]) /\ case[c].assignee = Nobody /\ (case[c].snoozed => c \in due)
Assignable(c) ==
    /\ Waiting(c)
    /\ inbox[case[c].inbox].active /\ inbox[case[c].inbox].auto
    /\ Volunteers(case[c].inbox) # {}

\* assignOne that looks for the oldest waiting case first, and only then for a user.
SelectOldest(w, c) ==
    /\ job[w] = Idle
    /\ Waiting(c) /\ ~Locked(c)
    /\ \A d \in Cases : d < c => ~Waiting(d) \/ Locked(d)
    /\ job' = [job EXCEPT ![w].case = c]
    /\ UNCHANGED <<caseVars, inboxVars, bulkVars>>

\* assignOne: the oldest assignable case, locked; locked ones are skipped.
SelectCase(w, c) ==
    /\ job[w] = Idle
    /\ Assignable(c) /\ ~Locked(c)
    /\ \A d \in Cases : d < c => ~Assignable(d) \/ Locked(d)
    /\ job' = [job EXCEPT ![w].case = c]
    /\ UNCHANGED <<caseVars, inboxVars, bulkVars>>

\* The inbox is locked and checked again, and the member with the least work is
\* chosen; one with less work is passed over if another worker has him locked.  The
\* counts are of a snapshot: by the time the chosen one is locked they may be old.
SelectUser(w, u) ==
    LET i == case[job[w].case].inbox
        skipped == {job[x].user : x \in {y \in Workers \ {w} : job[y] # Idle /\ case[job[y].case].inbox = i}}
        load(v) == Cardinality(Workload(i, v))
    IN
    /\ job[w].case # 0 /\ job[w].user = Nobody
    /\ inbox[i].active /\ inbox[i].auto
    /\ u \in Volunteers(i)
    /\ \A v \in Volunteers(i) : load(v) < load(u) => v \in skipped
    /\ job' = [job EXCEPT ![w].user = u]
    /\ UNCHANGED <<caseVars, inboxVars, bulkVars>>

\* The update runs into the trigger.
AutoAssign(w) ==
    LET c == job[w].case
        new == [case[c] EXCEPT !.assignee = job[w].user]
    IN
    /\ job[w].user # Nobody
    /\ CapacityAllows(c, case[c], new)
    /\ Write(c, new, {"assignee"})
    /\ job' = [job EXCEPT ![w] = Idle]
    /\ UNCHANGED <<due, inboxVars, bulkVars>>

\* The transaction ends without effect: the inbox is disabled, nobody is free,
\* the trigger refused, or the worker died.
Rollback(w) ==
    /\ job[w] # Idle
    /\ job' = [job EXCEPT ![w] = Idle]
    /\ UNCHANGED <<caseVars, inboxVars, bulkVars>>

-----------------------------------------------------------------------------
Actors == Users \cup {Service}

Command ==
    \E c \in Cases, a \in Actors :
        \/ \E i \in Inboxes, u \in Users \cup {Nobody} : CreateCase(c, a, i, u)
        \/ Touch(c, a)
        \/ \E dest \in Inboxes \cup {NoInbox}, status \in {"none", "pending", "investigating"}, p \in Patches :
                UpdateCase(c, a, dest, status, p)
        \/ \E u \in Users \cup {Nobody} : Assign(c, a, u)
        \/ \E on \in BOOLEAN : Snooze(c, a, on)
        \/ EscalateCase(c, a)
        \/ CloseCase(c, a)
        \/ \E o \in Operations, action \in BulkActions, i \in Inboxes, u \in Users \cup {Nobody} :
                BulkOne(c, a, o, action, i, u)

Administer ==
    \E i \in Inboxes :
        \/ \E u \in Users, g \in Grants : PutInboxUser(i, u, g)
        \/ \E u \in Users : RemoveInboxUser(i, u)
        \/ \E s \in Settings : UpdateInbox(i, s)

\* What happens while nobody sends a command.
Maintain ==
    \/ \E c \in Cases : SnoozePasses(c) \/ WakeOne(c)
    \/ \E w \in Workers, c \in Cases : SelectCase(w, c)
    \/ \E w \in Workers, u \in Users : SelectUser(w, u)
    \/ \E w \in Workers : AutoAssign(w) \/ Rollback(w)

Next == Command \/ Administer \/ Maintain

Spec == Init /\ [][Next]_vars

\* River starts the maintenance job again and again, and a transaction of the
\* worker does not fail for ever.
Fairness ==
    /\ \A c \in Cases : SF_vars(WakeOne(c))
    /\ \A w \in Workers :
        /\ WF_vars(\E c \in Cases : SelectCase(w, c))
        /\ SF_vars(\E u \in Users : SelectUser(w, u))
        /\ SF_vars(AutoAssign(w))
        /\ WF_vars(Rollback(w))

FairSpec == Spec /\ Fairness

-----------------------------------------------------------------------------
(***************************************************************************)
(* Properties.                                                             *)
(***************************************************************************)
Row == [inbox : Inboxes \cup {NoInbox}, status : {"absent", "pending", "investigating", "closed"},
        outcome : {"unset", "settled"}, assignee : Users \cup {Nobody},
        snoozed : BOOLEAN, boost : Boosts, review : ReviewLevels]

\* The variables have their types, and a case that exists is in an inbox.
TypeOK ==
    /\ case \in [Cases -> Row]
    /\ \A c \in Cases : case[c].status # "absent" => case[c].inbox \in Inboxes
    /\ due \subseteq Cases
    /\ audit \in [Cases -> Row]
    /\ member \in [Inboxes -> [Users -> Membership]]
    /\ inbox \in [Inboxes -> [active : BOOLEAN, auto : BOOLEAN, escalation : Inboxes \cup {NoInbox}]]
    /\ receipts \subseteq Operations \X Cases
    /\ applied \in [Operations -> [Cases -> Nat]]
    /\ job \in [Workers -> [case : Cases \cup {0}, user : Users \cup {Nobody}]]

\* A case has an outcome exactly while it is closed, and a closed case is never
\* snoozed, whichever of the close, reopen, update, snooze and bulk paths it took.
LifecycleConsistent ==
    \A c \in Cases :
        /\ case[c].status = "closed" <=> case[c].outcome = "settled"
        /\ case[c].status = "closed" => ~case[c].snoozed
        /\ c \in due => case[c].snoozed

\* The assignee of an open case is a member of its inbox, through moves,
\* escalations, reopenings and removals of members.
AssigneeIsMember ==
    \A c \in Cases : Open(case[c]) /\ case[c].assignee # Nobody => Has(case[c].inbox, case[c].assignee)

\* The open work of a member grows only up to his capacity, however commands and
\* workers race; a capacity lowered afterwards takes nothing away.
CapacityRespected ==
    [][\A i \in Inboxes, u \in Users :
        Cardinality(Workload(i, u)') > Cardinality(Workload(i, u))
            => Cardinality(Workload(i, u)') <= member'[i][u].capacity]_vars

\* Replaying what the events of a case state gives its inbox, status, outcome,
\* assignment and snooze.  Of the attention flag and the review level they tell
\* less: a wake-up and an escalation set the flag, and an escalation clears the
\* level, without stating it.  So the history may lag behind a flag only where the
\* row has one of those two, and behind a level only where the row has none: a
\* cleared flag and a level that is set are always explained.
Explains(h, r) ==
    /\ h.inbox = r.inbox /\ h.status = r.status /\ h.outcome = r.outcome
    /\ h.assignee = r.assignee /\ h.snoozed = r.snoozed
    /\ h.boost = r.boost \/ r.boost \in {"unsnoozed", "escalated"}
    /\ h.review = r.review \/ r.review = "none"
AuditReplays == \A c \in Cases : Explains(audit[c], case[c])

\* However often a bulk request is sent again, and whatever happened to a case in
\* between, an operation takes effect on a case at most once.
BulkOnce == \A o \in Operations, c \in Cases : applied[o][c] <= 1

\* A snooze that has run out does not last, unless a command ends it first: the
\* worker skips a locked case and comes back for it.  And once no more commands
\* come, no case stays assignable for ever: one that waits in an inbox without
\* volunteers does not block the ones behind it.
MaintenanceCatchesUp ==
    \A c \in Cases :
        /\ c \in due ~> c \notin due
        /\ <>[][Maintain]_vars => ~<>[]Assignable(c)
=============================================================================
