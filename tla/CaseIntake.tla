------------------------------ MODULE CaseIntake ------------------------------
(***************************************************************************)
(* The intake of the case manager: workflow actions, arrivals and reviews  *)
(* of screenings, and the investigators' ways to move a decision (create a *)
(* case with decisions, attach one, transfer one).                         *)
(*                                                                         *)
(* Each request is one transaction at READ COMMITTED.  A step takes one    *)
(* lock, waiting for it, and goes on to the next lock: what it reads on    *)
(* the way is what is committed then, what it writes is seen by the others *)
(* when it commits.  Locks are the advisory locks of IntakeRepository, the *)
(* rows of cases, and the entries of case_decisions_primary_unique that an *)
(* open transaction has inserted.  Decisions and inboxes do not change.    *)
(***************************************************************************)
EXTENDS Naturals, Sequences, FiniteSets, FiniteSetsExt, SequencesExt, Bags

CONSTANTS
    CastSize,
    Casts,         \* the requests that meet in one behaviour, as sequences
    Req,           \* per request: kind, receipt, body, decs, action, inbox, any, scr, status
    ObjectOf,      \* per decision
    Opened,        \* the first cases: inbox and a decision they may have
    Screenings,
    ScreeningOf,   \* per screening: decision, published, continuous, inbox
    ActiveInboxes,
    None,
    MaxFaults,     \* failures and lost answers in one behaviour
    MaxRepeats     \* requests that are sent again

VARIABLES
    cast,
    cases,      \* the committed cases: inbox, type, status, by whom created
    links,      \* case_decisions: decision, case, by whom
    routes,     \* screening_intake_routes: screening, case
    evidence,   \* case_screenings: screening, case, status
    receipts,   \* intake_receipts: id, body, case, by whom
    history,    \* case events, as a bag
    match,      \* per screening: the status of its match, owned by screening
    told,       \* reviews whose event is in the outbox of screening
    st,         \* per request: its transaction
    held,       \* locks and their holders
    faults, repeats

tables == <<cases, links, routes, evidence, receipts, history>>
others == <<cast, match, told, repeats>>
intakeVars == <<others, tables, st, held, faults>>

-----------------------------------------------------------------------------
Waiting == [pc |-> "new", case |-> None, todo |-> <<>>, added |-> {}, made |-> FALSE,
            cand |-> {}, from |-> None, to |-> None, answer |-> None]

\* Cases that investigators opened, with decisions or without.
Init ==
    /\ cast \in Casts
    /\ cases = [c \in DOMAIN Opened |-> [inbox |-> Opened[c].inbox, type |-> "decision", status |-> "open", by |-> None]]
    /\ links \in {{}, {[dec |-> Opened[c].dec, case |-> c, by |-> None] : c \in DOMAIN Opened}}
    /\ routes = {} /\ evidence = {} /\ receipts = {} /\ history = EmptyBag
    /\ match = [s \in Screenings |-> "pending"]
    /\ told = {}
    /\ st = [r \in ToSet(cast) |-> Waiting]
    /\ held = {}
    /\ faults = 0 /\ repeats = 0

Free(x, r) == \A h \in held : h[1] = x => h[2] = r
Open(r) == st[r].pc \notin {"new", "done"}

\* The state of request r changes to s, which holds the further locks xs.
Go(r, s, xs) ==
    /\ st' = [st EXCEPT ![r] = s]
    /\ held' = held \cup {<<x, r>> : x \in xs}
    /\ UNCHANGED <<others, tables, faults>>

\* The end of the transaction: its locks go, and what it did not commit.
Ended(r, answer, case) ==
    /\ st' = [st EXCEPT ![r] = [Waiting EXCEPT !.pc = "done", !.answer = answer, !.case = case,
                                  !.from = st[r].from, !.to = st[r].to]]
    /\ held' = {h \in held : h[2] # r}

Refuse(r, answer) == Ended(r, answer, None) /\ UNCHANGED <<others, tables, faults>>

\* The answer to a commit: it may be lost on the way back.
Answers == {"ok"} \cup (IF faults < MaxFaults THEN {"lost"} ELSE {})
Counted(answer) == faults' = IF answer = "lost" THEN faults + 1 ELSE faults

-----------------------------------------------------------------------------
Screening(r) == ScreeningOf[Req[r].scr]
ByScreening(r) == Req[r].scr # None
Continuous(r) == ByScreening(r) /\ Screening(r).continuous
OfDecision(r) == ByScreening(r) /\ ~Screening(r).continuous /\ Screening(r).decision # None
\* A screening whose arrival its owner has published.
Published(r) == ByScreening(r) /\ Screening(r).published

\* The decisions a request brings, and the inbox and type of a case it opens.
Decs(r) ==
    CASE ~ByScreening(r) -> Req[r].decs
      [] OfDecision(r) -> <<Screening(r).decision>>
      [] OTHER -> <<>>
InboxFor(r) == IF ByScreening(r) THEN Screening(r).inbox ELSE Req[r].inbox
TypeFor(r) == IF ByScreening(r) /\ ~OfDecision(r) THEN "continuous" ELSE "decision"

ReceiptLock(r) == <<"receipt", Req[r].receipt>>
ScreeningLock(r) == <<"screening", Req[r].scr>>
\* One lock per inbox: a scoped and a cross-inbox action pass each other.
PivotLockByInbox(r) == <<"pivot", InboxFor(r)>>

PivotLock(r) == <<"pivot", ObjectOf[Head(Decs(r))]>>
CaseLock(c) == <<"case", c>>
LinkLock(d) == <<"decision", d>>

-----------------------------------------------------------------------------
\* What the repositories read of the committed rows, and of those the
\* transaction itself has inserted.
Membership(r, d) ==
    {l.case : l \in {x \in links : x.dec = d}} \cup (IF d \in st[r].added THEN {st[r].case} ELSE {})
CanonicalCase(s) ==
    {x.case : x \in {y \in routes : y.scr = s}} \cup {x.case : x \in {y \in evidence : y.scr = s}}

\* Cases are numbered as they are created.
Newest(S) == {c \in S : \A d \in S \ {c} : c > d}

\* ScreeningLinkRepository.FindCase: open cases first, then the newest.
FindCase(s) ==
    LET found == {x.case : x \in {y \in evidence : y.scr = s}}
        live  == {c \in found : cases[c].status # "closed"}
    IN Newest(IF live # {} THEN live ELSE found)

Eligible(r, c) ==
    /\ cases[c].status # "closed"
    /\ cases[c].inbox \in ActiveInboxes
    /\ Req[r].any \/ cases[c].inbox = Req[r].inbox

\* FindOpenByPivot: the eligible cases of the object.
FindOpenByPivot(r) ==
    {c \in {l.case : l \in {x \in links : ObjectOf[x.dec] = ObjectOf[Head(Decs(r))]}} : Eligible(r, c)}

\* An id greater than every other, as created_at is later.
NewCase == Max(DOMAIN cases \cup {st[q].case : q \in {x \in DOMAIN st : st[x].made}}) + 1

\* Where a transaction goes when it still has these decisions to add.
After(r, todo) ==
    CASE todo # <<>> -> "member"
      [] todo = <<>> /\ ByScreening(r) -> "bind"
      [] OTHER -> "finish"

-----------------------------------------------------------------------------
\* The receipt is looked up before its lock is taken.
ReceiveUnlocked(r) ==
    /\ st[r].pc = "new"
    /\ Req[r].kind \in {"workflow", "arrival", "review", "create"}
    /\ Req[r].kind = "review" => r \in told
    /\ \A x \in receipts : x.id # Req[r].receipt
    /\ Go(r, [st[r] EXCEPT !.todo = Decs(r),
                !.pc = CASE ByScreening(r) -> "screening" [] Req[r].kind = "workflow" -> "inbox" [] OTHER -> "create"],
          {})

\* receive and createCaseWithReceipt: the lock of the receipt, then the
\* receipt; a request that was received before is answered from it.
Receive(r) ==
    /\ st[r].pc = "new"
    /\ Req[r].kind \in {"workflow", "arrival", "review", "create"}
    /\ Req[r].kind = "review" => r \in told
    /\ Free(ReceiptLock(r), r)
    /\ LET found == {x \in receipts : x.id = Req[r].receipt}
       IN \/ \E x \in found :
               /\ IF x.body = Req[r].body THEN Ended(r, "ok", x.case) ELSE Ended(r, "conflict", None)
               /\ UNCHANGED <<others, tables, faults>>
          \/ /\ found = {}
             /\ Go(r, [st[r] EXCEPT !.todo = Decs(r),
                         !.pc = CASE ByScreening(r) -> "screening"
                                  [] Req[r].kind = "workflow" -> "inbox"
                                  [] OTHER -> "create"],
                   {ReceiptLock(r)})

\* handleWorkflowAction: activeInbox, then the lock of the object, then the
\* case that has the decision already.
LockPivotOfAction(r) ==
    /\ st[r].pc = "inbox"
    /\ IF Req[r].inbox \notin ActiveInboxes THEN Refuse(r, "invalid")
       ELSE /\ Free(PivotLock(r), r)
            /\ \/ \E c \in Membership(r, Head(Decs(r))) : Go(r, [st[r] EXCEPT !.pc = "owned", !.case = c], {PivotLock(r)})
               \/ /\ Membership(r, Head(Decs(r))) = {}
                  /\ Go(r, [st[r] EXCEPT !.pc = IF Req[r].action = "create_case" THEN "create" ELSE "search"], {PivotLock(r)})

Search(r) ==
    /\ st[r].pc = "search"
    /\ Go(r, [st[r] EXCEPT !.pc = "take", !.cand = FindOpenByPivot(r)], {})

\* ... FOR UPDATE: the newest case that still qualifies once it is locked; the
\* others stay locked.
Take(r) ==
    /\ st[r].pc = "take"
    /\ IF st[r].cand = {}
       THEN IF Req[r].action = "add_to_case" THEN Refuse(r, "not_found")
            ELSE Go(r, [st[r] EXCEPT !.pc = "create"], {})
       ELSE \E c \in Newest(st[r].cand) :
              /\ Free(CaseLock(c), r)
              /\ Go(r, IF Eligible(r, c) THEN [st[r] EXCEPT !.pc = "member", !.case = c, !.cand = {}]
                       ELSE [st[r] EXCEPT !.cand = @ \ {c}],
                    {CaseLock(c)})

\* ReceiveScreeningArrival, handleScreeningReviewed: the lock of the screening,
\* then its route.  A continuous run keeps its canonical case.
RouteContinuous(r) ==
    /\ st[r].pc = "screening"
    /\ Continuous(r)
    /\ Free(ScreeningLock(r), r)
    /\ LET found == CanonicalCase(Req[r].scr)
       IN CASE ~Published(r) -> Refuse(r, "invalid")
            [] Published(r) /\ Cardinality(found) > 1 -> Refuse(r, "conflict")
            [] Published(r) /\ found = {} -> Go(r, [st[r] EXCEPT !.pc = "create"], {ScreeningLock(r)})
            [] OTHER -> \E c \in found : Go(r, [st[r] EXCEPT !.pc = "bind", !.case = c], {ScreeningLock(r)})

\* A published screening of a decision goes where its decision goes.
RouteDecision(r) ==
    /\ st[r].pc = "screening"
    /\ OfDecision(r)
    /\ Free(ScreeningLock(r), r)
    /\ IF Published(r) THEN Go(r, [st[r] EXCEPT !.pc = "pivot"], {ScreeningLock(r)})
       ELSE \/ /\ Req[r].kind = "arrival" \/ Membership(r, Head(Decs(r))) = {}
               /\ Refuse(r, "invalid")
            \/ /\ Req[r].kind = "review"
               /\ \E c \in Membership(r, Head(Decs(r))) :
                    Go(r, [st[r] EXCEPT !.pc = "bind", !.case = c], {ScreeningLock(r)})

\* Any other review goes to the case that shows its screening.
RouteOther(r) ==
    /\ st[r].pc = "screening"
    /\ ~Continuous(r) /\ ~OfDecision(r)
    /\ Free(ScreeningLock(r), r)
    /\ LET found == FindCase(Req[r].scr)
       IN CASE Req[r].kind = "arrival" -> Refuse(r, "not_found")
            [] Req[r].kind = "review" /\ found = {} -> Go(r, [st[r] EXCEPT !.pc = "create"], {ScreeningLock(r)})
            [] OTHER -> \E c \in found : Go(r, [st[r] EXCEPT !.pc = "bind", !.case = c], {ScreeningLock(r)})

\* ensureDecisionScreeningCase: the lock of the object, then the decision's case.
LockPivotOfScreening(r) ==
    /\ st[r].pc = "pivot"
    /\ Free(PivotLock(r), r)
    /\ LET found == Membership(r, Head(Decs(r)))
       IN \/ found = {} /\ Go(r, [st[r] EXCEPT !.pc = "create"], {PivotLock(r)})
          \/ \E c \in found : Go(r, [st[r] EXCEPT !.pc = "bind", !.case = c], {PivotLock(r)})

\* createCase up to its decisions: the case is locked as the transaction's own.
CreateCase(r) ==
    /\ st[r].pc = "create"
    /\ IF InboxFor(r) \notin ActiveInboxes THEN Refuse(r, "invalid")
       ELSE Go(r, [st[r] EXCEPT !.pc = After(r, st[r].todo), !.case = NewCase, !.made = TRUE], {CaseLock(NewCase)})

\* An investigator attaches a decision to a case.
AddDecision(r) ==
    /\ st[r].pc = "new" /\ Req[r].kind = "attach"
    /\ \E c \in DOMAIN cases : Go(r, [st[r] EXCEPT !.pc = "member", !.case = c, !.todo = Decs(r)], {})

Status(r) == IF st[r].made THEN "open" ELSE cases[st[r].case].status
Type(r) == IF st[r].made THEN TypeFor(r) ELSE cases[st[r].case].type

\* addDecision: the lock of the case, then the memberships of the decision.
CheckMembership(r) ==
    /\ st[r].pc = "member"
    /\ Free(CaseLock(st[r].case), r)
    /\ LET d == Head(st[r].todo)
           found == Membership(r, d)
           rest == Tail(st[r].todo)
       IN CASE Type(r) # "decision" -> Refuse(r, "invalid")
            [] Type(r) = "decision" /\ found = {st[r].case} ->
                 Go(r, [st[r] EXCEPT !.pc = After(r, rest), !.todo = rest], {CaseLock(st[r].case)})
            [] Type(r) = "decision" /\ found = {} /\ Status(r) # "closed" ->
                 Go(r, [st[r] EXCEPT !.pc = "insert"], {CaseLock(st[r].case)})
            [] Type(r) = "decision" /\ found = {} /\ Status(r) = "closed" -> Refuse(r, "invalid")
            [] OTHER -> Refuse(r, "conflict")

\* The index is unique per case and decision only.
InsertLinkPerCase(r) ==
    /\ st[r].pc = "insert"
    /\ LET rest == Tail(st[r].todo)
       IN Go(r, [st[r] EXCEPT !.pc = After(r, rest), !.todo = rest, !.added = @ \cup {Head(st[r].todo)}], {})

\* The insert waits for an open insert of the same decision; a committed one
\* violates the unique index.
InsertLink(r) ==
    /\ st[r].pc = "insert"
    /\ LET d == Head(st[r].todo)
           rest == Tail(st[r].todo)
       IN /\ Free(LinkLock(d), r)
          /\ IF Membership(r, d) # {} THEN Refuse(r, "conflict")
             ELSE Go(r, [st[r] EXCEPT !.pc = After(r, rest), !.todo = rest, !.added = @ \cup {d}], {LinkLock(d)})

-----------------------------------------------------------------------------
\* The commit of what the transaction has written: its case, its links, its
\* receipt and its events.  The answer may be lost on the way back.
Event(kind, what, c) == [kind |-> kind, what |-> what, case |-> c]
Commit(r, answer, events) ==
    /\ cases' = IF st[r].made
                THEN [c \in DOMAIN cases \cup {st[r].case} |->
                        IF c \in DOMAIN cases THEN cases[c]
                        ELSE [inbox |-> InboxFor(r), type |-> TypeFor(r), status |-> "open", by |-> r]]
                ELSE cases
    /\ links' = links \cup {[dec |-> d, case |-> st[r].case, by |-> r] : d \in st[r].added}
    /\ receipts' = IF Req[r].receipt = None THEN receipts
                   ELSE receipts \cup {[id |-> Req[r].receipt, body |-> Req[r].body, case |-> st[r].case, by |-> r]}
    /\ history' = history (+) SetToBag(events \cup {Event("decision_added", d, st[r].case) : d \in st[r].added})
    /\ Ended(r, answer, st[r].case) /\ Counted(answer)
    /\ UNCHANGED others

Finish(r, answer) ==
    /\ st[r].pc = "finish"
    /\ Commit(r, answer, {})
    /\ UNCHANGED <<routes, evidence>>

\* A workflow that finds its decision in a case answers with that case, which
\* it reads under a shared lock.
KeepOwned(r, answer) ==
    /\ st[r].pc = "owned"
    /\ Free(CaseLock(st[r].case), r)
    /\ Commit(r, answer, {})
    /\ UNCHANGED <<routes, evidence>>

\* The memberships are not read again under the lock of the case.
StillThereUnread(r) == OfDecision(r) /\ Published(r) => CanonicalCase(Req[r].scr) \subseteq {st[r].case}

\* The decision must be where it was found: a transfer may have won.
StillThere(r) ==
    \/ ~OfDecision(r)
    \/ /\ Membership(r, Head(Decs(r))) = {st[r].case}
       /\ Published(r) => CanonicalCase(Req[r].scr) \subseteq {st[r].case}

\* The status the event carries.
ShownAsDelivered(r) == IF Req[r].kind = "review" THEN Req[r].status ELSE match[Req[r].scr]

\* What case_screenings shows: the owner's status, whatever the event said.
Shown(r) == match[Req[r].scr]

\* ensureContinuousCase, ensureDecisionScreeningCase and the end of
\* handleScreeningReviewed: the case is locked, the screening bound to it and
\* its match shown there.  SyncContinuous locks the match until the commit.
Bind(r, answer) ==
    /\ st[r].pc = "bind"
    /\ Free(CaseLock(st[r].case), r)
    /\ LET c == st[r].case
           s == Req[r].scr
           new == IF Continuous(r) THEN \A x \in routes : x.scr # s ELSE Published(r) /\ CanonicalCase(s) = {}
       IN IF ~StillThere(r) THEN answer = "ok" /\ Refuse(r, "conflict")
          ELSE /\ routes' = IF Continuous(r) /\ new THEN routes \cup {[scr |-> s, case |-> c]} ELSE routes
               /\ evidence' = {e \in evidence : <<e.scr, e.case>> # <<s, c>>}
                                \cup {[scr |-> s, case |-> c, status |-> Shown(r)]}
               /\ Commit(r, answer,
                    (IF new THEN {Event("screening_added", s, c)} ELSE {})
                      \cup (IF Req[r].kind = "review" THEN {Event("reviewed", Req[r].receipt, c)} ELSE {}))

-----------------------------------------------------------------------------
\* TransferDecision: the lock of the operation, the two cases in the order of
\* their ids, and then everything else.  The investigator has seen the decision
\* in from.
LockOperation(r) ==
    /\ st[r].pc = "new" /\ Req[r].kind = "transfer"
    /\ Free(ReceiptLock(r), r)
    /\ \E to \in DOMAIN cases, from \in Membership(r, Head(Decs(r))) \cup {st[r].from} :
         /\ from # None /\ from # to
         /\ st[r].from # None => from = st[r].from /\ to = st[r].to
         /\ Go(r, [st[r] EXCEPT !.pc = "first", !.from = from, !.to = to, !.case = to], {ReceiptLock(r)})

LockFirst(r) ==
    /\ st[r].pc = "first"
    /\ LET c == Min({st[r].from, st[r].to})
       IN Free(CaseLock(c), r) /\ Go(r, [st[r] EXCEPT !.pc = "second"], {CaseLock(c)})

\* Transfer: the link and the screenings of the decision move; the unique
\* index of case_screenings refuses evidence that is there already.
Transfer(r, answer) ==
    LET from == st[r].from
        to == st[r].to
        d == Head(Decs(r))
        moving == {e \in evidence : e.case = from /\ ScreeningOf[e.scr].decision = d}
    IN IF \E e \in moving, f \in evidence : f.scr = e.scr /\ f.case = to
       THEN answer = "ok" /\ Refuse(r, "error")
       ELSE /\ links' = {l \in links : l.dec # d} \cup {[dec |-> d, case |-> to, by |-> r]}
            /\ evidence' = (evidence \ moving) \cup {[e EXCEPT !.case = to] : e \in moving}
            /\ receipts' = receipts \cup {[id |-> Req[r].receipt, body |-> <<from, to>>, case |-> to, by |-> r]}
            /\ history' = history (+) SetToBag({Event("transferred_out", Req[r].receipt, from), Event("transferred_in", Req[r].receipt, to)})
            /\ Ended(r, answer, to) /\ Counted(answer)
            /\ UNCHANGED <<others, cases, routes>>

TransferDecision(r, answer) ==
    /\ st[r].pc = "second"
    /\ Free(CaseLock(Max({st[r].from, st[r].to})), r)
    /\ LET from == st[r].from
           to == st[r].to
           found == {x \in receipts : x.id = Req[r].receipt}
       IN \/ \E x \in found :
               /\ answer = "ok"
               /\ IF x.body = <<from, to>> THEN Ended(r, "ok", to) ELSE Ended(r, "conflict", None)
               /\ UNCHANGED <<others, tables, faults>>
          \/ /\ found = {}
             /\ IF cases[from].type # "decision" \/ cases[to].type # "decision"
                     \/ cases[to].status = "closed" \/ cases[to].inbox \notin ActiveInboxes
                THEN answer = "ok" /\ Refuse(r, "invalid")
                ELSE IF Membership(r, Head(Decs(r))) # {from} THEN answer = "ok" /\ Refuse(r, "conflict")
                ELSE Transfer(r, answer)
-----------------------------------------------------------------------------
\* An investigator closes a case (CaseLifecycle has the whole command).
CloseCase(r) ==
    /\ st[r].pc = "new" /\ Req[r].kind = "close"
    /\ \E c \in DOMAIN cases :
         /\ Free(CaseLock(c), r)
         /\ cases' = [cases EXCEPT ![c].status = "closed"]
         /\ Ended(r, "ok", c)
    /\ UNCHANGED <<others, links, routes, evidence, receipts, history, faults>>

\* Screening records a review of its match and queues the event.
OwnerReview(r) ==
    /\ Req[r].kind = "review" /\ r \notin told
    /\ match' = [match EXCEPT ![Req[r].scr] = Req[r].status]
    /\ told' = told \cup {r}
    /\ UNCHANGED <<cast, tables, st, held, faults, repeats>>

\* A statement fails, the connection breaks or the process dies.
Fail(r) ==
    /\ Open(r) /\ faults < MaxFaults
    /\ Ended(r, "error", None)
    /\ faults' = faults + 1
    /\ UNCHANGED <<others, tables>>

\* The outboxes send again what was not acknowledged; so do people.
Again(r) ==
    /\ st[r].pc = "done" /\ st[r].answer # "ok"
    /\ repeats < MaxRepeats
    /\ repeats' = repeats + 1
    /\ st' = [st EXCEPT ![r] = [@ EXCEPT !.pc = "new", !.case = None, !.answer = None]]
    /\ UNCHANGED <<cast, tables, match, told, held, faults>>

\* The lock that stops a transaction, and who holds it.
Wanted(r) ==
    CASE st[r].pc = "screening" -> {ScreeningLock(r)}
      [] st[r].pc \in {"inbox", "pivot"} -> {PivotLock(r)}
      [] st[r].pc = "take" -> {CaseLock(c) : c \in Newest(st[r].cand)}
      [] st[r].pc \in {"owned", "member", "bind"} -> {CaseLock(st[r].case)}
      [] st[r].pc = "insert" -> {LinkLock(Head(st[r].todo))}
      [] st[r].pc = "first" -> {CaseLock(Min({st[r].from, st[r].to}))}
      [] st[r].pc = "second" -> {CaseLock(Max({st[r].from, st[r].to}))}
      [] OTHER -> {}
WaitsFor(r) == {h[2] : h \in {x \in held : x[1] \in Wanted(r) /\ x[2] # r}}

\* Postgres aborts one transaction of a cycle.
DeadlockAbort(r) ==
    /\ \E S \in SUBSET DOMAIN st : r \in S /\ \A q \in S : WaitsFor(q) \cap S # {}
    /\ Refuse(r, "error")

Advance(r) ==
    \/ Receive(r) \/ LockPivotOfAction(r) \/ Search(r) \/ Take(r)
    \/ RouteContinuous(r) \/ RouteDecision(r) \/ RouteOther(r) \/ LockPivotOfScreening(r)
    \/ CreateCase(r) \/ AddDecision(r) \/ CheckMembership(r) \/ InsertLink(r)
    \/ LockOperation(r) \/ LockFirst(r) \/ CloseCase(r)
    \/ \E answer \in Answers :
         Finish(r, answer) \/ KeepOwned(r, answer) \/ Bind(r, answer) \/ TransferDecision(r, answer)
    \/ DeadlockAbort(r)

Next == \E r \in DOMAIN st : Advance(r) \/ Fail(r) \/ Again(r) \/ OwnerReview(r)

\* A request's goroutine runs on, and Postgres finds deadlocks.
Fairness == \A i \in 1..CastSize : WF_intakeVars(Advance(cast[i]))

Spec == Init /\ [][Next]_intakeVars /\ Fairness

-----------------------------------------------------------------------------
\* A decision has at most one case, however many transactions found it without
\* one; the evidence of its screenings is in that case and no other, although a
\* transfer may move the decision while a screening is on its way; and what a
\* case shows of a match is the owner's status, unless the event of a review is
\* still to be delivered: late deliveries do not turn it back.
EvidenceIsCurrent ==
    /\ \A k, l \in links : k.dec = l.dec => k.case = l.case
    /\ \A e \in evidence :
         /\ ScreeningOf[e.scr].decision # None =>
              \E l \in links : l.dec = ScreeningOf[e.scr].decision /\ l.case = e.case
         /\ e.status = match[e.scr] \/
              \E r \in told : Req[r].scr = e.scr /\ \A x \in receipts : x.id # Req[r].receipt

\* However often and by however many connections an event is delivered, it is
\* received once: one transaction writes its receipt, all who are told of
\* success are told the same case, and the history tells nothing twice.
ReceivedOnce ==
    /\ \A x, y \in receipts : x.id = y.id => x = y
    /\ \A q, r \in DOMAIN st : Req[q].receipt = Req[r].receipt /\ Req[q].receipt # None
                            /\ st[q].answer = "ok" /\ st[r].answer = "ok" => st[q].case = st[r].case
    /\ \A e \in DOMAIN history : \A f \in DOMAIN history :
         e.kind = f.kind /\ e.what = f.what => e = f /\ history[e] = 1

\* An action that reuses cases opens one only if its object has none it could
\* have reused, whatever inboxes the actions are scoped to; cases that people
\* gave decisions of the object meanwhile are not meant.
ReusesOpenCases ==
    [][\A c \in DOMAIN cases' \ DOMAIN cases :
         LET r == cases'[c].by
         IN Req[r].action = "add_to_case_if_possible" =>
              ~\E l \in links : /\ l.by # None /\ Req[l.by].kind \in {"workflow", "arrival", "review"}
                                /\ ObjectOf[l.dec] = ObjectOf[Head(Decs(r))]
                                /\ Eligible(r, l.case)]_intakeVars

\* Every transaction ends: a lock is given back in the end, and cycles of
\* waiting transactions are broken.
AllAnswered == \A r \in DOMAIN st : ~Open(r)
=============================================================================
