------------------------------ MODULE Screenings ------------------------------
(***************************************************************************)
(* Screenings: from the decision engine's request, or an API call, through *)
(* the provider's answer and the reviews of its matches, to the execution  *)
(* row of the decision engine that mirrors it.                             *)
(*                                                                         *)
(* One execution (Exec) and the screenings (Ids) that may be its source:   *)
(* Dispatched is the one created by the execution's own request, under the *)
(* execution's id as key; the others come from the public API, without a   *)
(* key, or from continuous monitoring.                                     *)
(***************************************************************************)
EXTENDS DecisionDispatch, FiniteSets

CONSTANTS
    Exec, Ids, Dispatched, Entities, Ops,
    Origins,        \* what an undispatched screening may be: a subset of
                    \* {"keyless", "continuous", "manual"}
    MaxAttempts,    \* IntakeMaxAttempts
    MaxRetries, MaxFaults, MaxReviews, MaxEnrichments,   \* bounds
    NoSource, NoToken

ASSUME ScreeningAssumption ==
    /\ Exec \in Items /\ Dispatched \in Ids /\ NoSource \notin Ids
    /\ MaxAttempts \in Nat \ {0}

VARIABLES
    status, origin, version,    \* screening.screenings
    token, leased,              \* processing_token; processing_until > now
    match,                      \* screening_matches
    queue,                      \* execution_projection_queue has a row
    arrivals,                   \* ghost: requires-review events written
    callbacks,                  \* status callbacks on their way to the decision engine
    jobs,                       \* per screening: its River jobs, oldest first
    work,                       \* per job: where its worker stands
    source, projected,          \* projection_source_id and _version of Exec
    receipts, seen, caseOpen,   \* investigators: receipts, what each one read, the case
    enriching,                  \* matches whose enrichment is with the provider
    retries, faults, reviews, enrichments

rowVars == <<status, origin, version, token, leased, match, queue, arrivals, callbacks>>
jobVars == <<jobs, work, retries, faults>>
projVars == <<source, projected>>
deskVars == <<receipts, seen, caseOpen, enriching, reviews, enrichments>>
screeningVars == <<rowVars, jobVars, projVars, deskVars>>
allVars == <<dispatchVars, screeningVars>>

Settled == {"awaiting_review", "no_hit", "confirmed_hit", "failed"}
NoMatch == [st |-> "none", enriched |-> FALSE, upd |-> 0]
NewMatch == [st |-> "pending", enriched |-> FALSE, upd |-> 0]
Idle == [pc |-> "idle", attempt |-> 0, found |-> {}, partial |-> FALSE]
Gens == 1 .. 1 + MaxRetries

ScreeningInit ==
    /\ status = [s \in Ids |-> "none"] /\ origin = [s \in Ids |-> "none"]
    /\ version = [s \in Ids |-> 0]
    /\ token = [s \in Ids |-> NoToken] /\ leased = [s \in Ids |-> FALSE]
    /\ match = [s \in Ids |-> [x \in Entities |-> NoMatch]]
    /\ queue = {} /\ arrivals = [s \in Ids |-> 0] /\ callbacks = {}
    /\ jobs = [s \in Ids |-> [g \in Gens |-> [state |-> "none", attempt |-> 0]]]
    /\ work = [s \in Ids |-> [g \in Gens |-> Idle]]
    /\ source = NoSource /\ projected = 0
    /\ receipts = {} /\ seen = {} /\ caseOpen = TRUE
    /\ enriching = {} /\ retries = 0 /\ faults = 0 /\ reviews = 0 /\ enrichments = 0

-----------------------------------------------------------------------------
Linked(s) == origin[s] \in {"decision", "keyless"}
Announced(s) == Linked(s) \/ origin[s] = "continuous"

\* The triggers on screening.screenings, on every insert and update of a row.
RowWritten(s, org) ==
    /\ version' = [version EXCEPT ![s] = @ + 1]
    /\ queue' = IF org \in {"decision", "keyless"} THEN queue \cup {s} ELSE queue

\* ScreeningRepository.Update, as far as the status goes.
SetStatus(s, st) == status' = [status EXCEPT ![s] = st]

\* The old matches go, the new ones start out pending.
ReplaceForScreening(s, found) ==
    match' = [match EXCEPT ![s] = [x \in Entities |-> IF x \in found THEN NewMatch ELSE NoMatch]]

\* EnqueueTx without unique options: every insert is a job of its own.
AddJob(s, g) == jobs' = [jobs EXCEPT ![s][g] = [state |-> "available", attempt |-> 0]]

\* createScreening: the row and its job in one transaction.
Insert(s, org) ==
    /\ status' = [status EXCEPT ![s] = "pending"]
    /\ origin' = [origin EXCEPT ![s] = org]
    /\ RowWritten(s, org)
    /\ AddJob(s, 1)
    /\ UNCHANGED <<token, leased, match, arrivals, callbacks, work, projVars, deskVars, retries, faults>>

\* The internal endpoint: the key of the execution finds the row it made before.
ReceiveScreening ==
    /\ Receive(Exec)
    /\ IF status[Dispatched] = "none"
         THEN Insert(Dispatched, "decision")
         ELSE UNCHANGED screeningVars

\* The public endpoints and the continuous worker.
CreateScreening(s) ==
    /\ s # Dispatched /\ status[s] = "none" /\ row[Exec] # "none"
    /\ \E org \in Origins : Insert(s, org)
    /\ UNCHANGED dispatchVars

\* (Mutant: Retry that does not look at the status again under the lock.)
RetryableAgain(s) == status[s] \in Settled

\* Retry, under the row lock.
Retryable(s) == status[s] = "failed"

RetryScreening(s) ==
    /\ Retryable(s) /\ retries < MaxRetries
    /\ SetStatus(s, "pending")
    /\ ReplaceForScreening(s, {})
    /\ RowWritten(s, origin[s])
    /\ AddJob(s, CHOOSE g \in Gens : jobs[s][g].state = "none" /\ \A h \in 1 .. g - 1 : jobs[s][h].state # "none")
    /\ retries' = retries + 1
    /\ UNCHANGED <<origin, token, leased, arrivals, callbacks, work, faults, projVars, deskVars, dispatchVars>>

-----------------------------------------------------------------------------
\* (Mutant: an expired claim is not taken over.)
ClaimablePending(s) == status[s] = "pending"

\* Claim takes a pending row, or one whose claim has run out.
Claimable(s) == status[s] = "pending" \/ (status[s] = "processing" /\ ~leased[s])
Token(s, g) == <<g, work[s][g].attempt>>

JobEnds(s, g, state) ==
    /\ jobs' = [jobs EXCEPT ![s][g].state = state]
    /\ work' = [work EXCEPT ![s][g] = Idle]

\* Claim: the row is ours until the lease runs out.
Claim(s, g) ==
    /\ jobs[s][g].state \in ReadyStates
    /\ Claimable(s)
    /\ LET attempt == jobs[s][g].attempt + 1
       IN  /\ jobs' = [jobs EXCEPT ![s][g] = [state |-> "running", attempt |-> attempt]]
           /\ work' = [work EXCEPT ![s][g] = [Idle EXCEPT !.pc = "searching", !.attempt = attempt]]
           /\ token' = [token EXCEPT ![s] = <<g, attempt>>]
    /\ SetStatus(s, "processing")
    /\ leased' = [leased EXCEPT ![s] = TRUE]
    /\ RowWritten(s, origin[s])
    /\ UNCHANGED <<origin, match, arrivals, callbacks, retries, faults, projVars, deskVars, dispatchVars>>

\* The claim fails because the row is neither pending nor an expired claim; the
\* row is then read once more.
ClaimRefused(s, g) ==
    /\ jobs[s][g].state \in ReadyStates
    /\ status[s] # "none" /\ ~Claimable(s)
    /\ LET attempt == jobs[s][g].attempt + 1
       IN  /\ jobs' = [jobs EXCEPT ![s][g] = [state |-> "running", attempt |-> attempt]]
           /\ work' = [work EXCEPT ![s][g] = [Idle EXCEPT !.pc = "refused", !.attempt = attempt]]
    /\ UNCHANGED <<rowVars, retries, faults, projVars, deskVars, dispatchVars>>

\* Processing by then: the job is snoozed, which gives its attempt back.  Any
\* other status: the job is done.
Reread(s, g) ==
    /\ work[s][g].pc = "refused"
    /\ IF status[s] = "processing"
         THEN /\ jobs' = [jobs EXCEPT ![s][g] = [state |-> "available", attempt |-> @.attempt - 1]]
              /\ work' = [work EXCEPT ![s][g] = Idle]
         ELSE JobEnds(s, g, "completed")
    /\ UNCHANGED <<rowVars, retries, faults, projVars, deskVars, dispatchVars>>

\* provider.Search, outside any transaction.
Search(s, g) ==
    /\ work[s][g].pc = "searching"
    /\ \E found \in {{}, Entities}, partial \in BOOLEAN :
          work' = [work EXCEPT ![s][g].pc = "found", ![s][g].found = found, ![s][g].partial = partial]
    /\ UNCHANGED <<rowVars, jobs, retries, faults, projVars, deskVars, dispatchVars>>

SearchFails(s, g) ==
    /\ work[s][g].pc = "searching"
    /\ work' = [work EXCEPT ![s][g].pc = "providerError"]
    /\ UNCHANGED <<rowVars, jobs, retries, faults, projVars, deskVars, dispatchVars>>

\* LockClaim.
HoldsClaim(s, g) == status[s] = "processing" /\ token[s] = Token(s, g)

ResultStatus(s, w) ==
    IF w.found # {} \/ (Announced(s) /\ w.partial) THEN "awaiting_review" ELSE "no_hit"

\* The publication: matches, status and the event for the case manager commit
\* together; the callback to the decision engine is sent afterwards, once.
Publish(s, g) ==
    /\ work[s][g].pc = "found" /\ HoldsClaim(s, g)
    /\ LET result == ResultStatus(s, work[s][g])
       IN  /\ SetStatus(s, result)
           /\ arrivals' = [arrivals EXCEPT ![s] = IF Announced(s) /\ result = "awaiting_review" THEN @ + 1 ELSE @]
    /\ ReplaceForScreening(s, work[s][g].found)
    /\ RowWritten(s, origin[s])
    /\ callbacks' = callbacks \cup {s}
    /\ JobEnds(s, g, "completed")
    /\ UNCHANGED <<origin, token, leased, retries, faults, projVars, deskVars, dispatchVars>>

\* failScreening.
FailScreening(s, g) ==
    /\ work[s][g].pc = "providerError" /\ HoldsClaim(s, g)
    /\ SetStatus(s, "failed")
    /\ RowWritten(s, origin[s])
    /\ callbacks' = callbacks \cup {s}
    /\ JobEnds(s, g, "completed")
    /\ UNCHANGED <<origin, token, leased, match, arrivals, retries, faults, projVars, deskVars, dispatchVars>>

\* The claim was lost, or the database or the job's deadline failed a worker:
\* ReleaseClaim gives the row back and River tries the job again.
WorkerErrors(s, g) ==
    /\ work[s][g].pc \in {"searching", "found", "providerError"}
    /\ \/ work[s][g].pc # "searching" /\ ~HoldsClaim(s, g) /\ UNCHANGED faults
       \/ faults < MaxFaults /\ faults' = faults + 1
    /\ IF HoldsClaim(s, g)
         THEN /\ SetStatus(s, "pending")
              /\ token' = [token EXCEPT ![s] = NoToken] /\ leased' = [leased EXCEPT ![s] = FALSE]
              /\ RowWritten(s, origin[s])
         ELSE UNCHANGED <<status, token, leased, version, queue>>
    /\ JobEnds(s, g, AfterFailure(work[s][g].attempt, MaxAttempts))
    /\ UNCHANGED <<origin, match, arrivals, callbacks, retries, projVars, deskVars, dispatchVars>>

\* The process dies; River's rescuer finds the job later.
WorkerDies(s, g) ==
    /\ work[s][g].pc # "idle" /\ faults < MaxFaults
    /\ faults' = faults + 1
    /\ JobEnds(s, g, AfterFailure(work[s][g].attempt, MaxAttempts))
    /\ UNCHANGED <<rowVars, retries, projVars, deskVars, dispatchVars>>

\* processing_until passes: six minutes, longer than a job's timeout, so that a
\* worker outlives its lease only when its process was held up.
LeaseExpires(s) ==
    /\ status[s] = "processing" /\ leased[s]
    /\ \/ \A g \in Gens : work[s][g].pc = "idle" \/ token[s] # Token(s, g)
       \/ faults < MaxFaults
    /\ faults' = IF \A g \in Gens : work[s][g].pc = "idle" \/ token[s] # Token(s, g) THEN faults ELSE faults + 1
    /\ leased' = [leased EXCEPT ![s] = FALSE]
    /\ UNCHANGED <<status, origin, version, token, match, queue, arrivals, callbacks, jobs, work, retries, projVars, deskVars, dispatchVars>>

-----------------------------------------------------------------------------
\* reviewMatch, under the row lock.
Reviewed(matches) ==
    CASE \E x \in Entities : matches[x].st = "confirmed_hit" -> "confirmed_hit"
      [] \A x \in Entities : matches[x].st \notin {"confirmed_hit", "pending"} -> "no_hit"
      [] OTHER -> "awaiting_review"

Review(s, x, verdict) ==
    LET matches == [match[s] EXCEPT ![x].st = verdict, ![x].upd = @ + 1]
    IN  /\ match' = [match EXCEPT ![s] = matches]
        /\ SetStatus(s, Reviewed(matches))
        /\ RowWritten(s, origin[s])
        /\ UNCHANGED <<origin, token, leased, arrivals>>

Verdicts == {"confirmed_hit", "no_hit"}

\* ReviewMatch: any match that exists, reviewed before or not.
ReviewMatch(s, x, verdict) ==
    /\ match[s][x].st # "none" /\ reviews < MaxReviews
    /\ Review(s, x, verdict)
    /\ callbacks' = callbacks \cup {s}
    /\ reviews' = reviews + 1
    /\ UNCHANGED <<jobVars, projVars, receipts, seen, caseOpen, enriching, enrichments, dispatchVars>>

\* An investigator opens a match of the case and keeps what was shown.
InvestigatorRead(o, s, x) ==
    /\ Announced(s) /\ match[s][x].st = "pending"
    /\ \A r \in seen : r.op # o
    /\ seen' = seen \cup {[op |-> o, s |-> s, x |-> x, match |-> match[s][x]]}
    /\ UNCHANGED <<rowVars, jobVars, projVars, receipts, caseOpen, enriching, reviews, enrichments, dispatchVars>>

\* (Mutant: Run without the expected version.)
EligibleNow(r) == match[r.s][r.x].st = "pending"

\* The state the owner shows inside the transaction.
Eligible(r) == match[r.s][r.x].st = "pending" /\ match[r.s][r.x].upd = r.match.upd

\* identity.Run with a command: an operation that has a receipt is answered from
\* it and changes nothing; otherwise the case must be open and the match still
\* be the one that was shown.  Neither a callback nor a "reviewed" event follows.
InvestigatorReview(r, verdict) ==
    /\ r \in seen
    /\ \A p \in receipts : p.seen.op # r.op
    /\ caseOpen /\ Eligible(r)
    /\ Review(r.s, r.x, verdict)
    /\ receipts' = receipts \cup {[seen |-> r, was |-> match[r.s][r.x]]}
    /\ UNCHANGED <<callbacks, jobVars, projVars, seen, caseOpen, enriching, reviews, enrichments, dispatchVars>>

\* The case manager closes and reopens the case.
MoveCase ==
    /\ Ops # {} /\ caseOpen' = ~caseOpen
    /\ UNCHANGED <<rowVars, jobVars, projVars, receipts, seen, enriching, reviews, enrichments, dispatchVars>>

\* EnrichMatch asks the provider first.
EnrichMatch(s, x) ==
    /\ match[s][x].st # "none" /\ enrichments < MaxEnrichments
    /\ enriching' = enriching \cup {[s |-> s, x |-> x, read |-> match[s][x]]}
    /\ enrichments' = enrichments + 1
    /\ UNCHANGED <<rowVars, jobVars, projVars, receipts, seen, caseOpen, reviews, dispatchVars>>

\* (Mutant: the row that was read before the provider answered is written back.)
EnrichedRead(e) == [e.read EXCEPT !.enriched = TRUE, !.upd = @ + 1]

\* The answer is merged into the row as it is now.
Enriched(e) ==
    LET now == match[e.s][e.x] IN [st |-> now.st, enriched |-> TRUE, upd |-> now.upd + 1]

\* Its transaction; the provider's failure, or a match replaced since, ends it.
EnrichmentAnswered(e) ==
    /\ e \in enriching
    /\ enriching' = enriching \ {e}
    /\ \/ match[e.s][e.x].st # "none" /\ match' = [match EXCEPT ![e.s][e.x] = Enriched(e)]
       \/ UNCHANGED match
    /\ UNCHANGED <<status, origin, version, token, leased, queue, arrivals, callbacks, jobVars, projVars,
                   receipts, seen, caseOpen, reviews, enrichments, dispatchVars>>

-----------------------------------------------------------------------------
\* (Mutant: a failure of the source is shown as sent.)
MapStatusWithoutFailed(st) ==
    CASE st = "pending" -> "pending"
      [] st \in {"processing", "failed"} -> "sent"
      [] OTHER -> "completed"

MapStatus(st) ==
    CASE st = "pending" -> "pending"
      [] st = "processing" -> "sent"
      [] st = "failed" -> "failed"
      [] OTHER -> "completed"

\* core.reconcile_screening_source reads the source itself, under its lock.
Bindable(s) == Linked(s) /\ source \in {NoSource, s}

Reconcile(s) ==
    IF source = s /\ projected >= version[s]
      THEN UNCHANGED <<row, bound, projVars>>
      ELSE /\ row' = [row EXCEPT ![Exec] = MapStatus(status[s])]
           /\ bound' = [bound EXCEPT ![Exec] = TRUE]
           /\ source' = s /\ projected' = version[s]

\* ExecutionProjector: the queued row leaves with the reconciliation; a refused
\* one stays, later and later.
Project(s) ==
    /\ s \in queue /\ Bindable(s)
    /\ Reconcile(s)
    /\ queue' = queue \ {s}
    /\ UNCHANGED <<status, origin, version, token, leased, match, arrivals, callbacks, jobVars, deskVars,
                   djob, post, received, edit, edits>>

\* ScreeningStatusChanged of the decision engine; callbacks come late, in any order.
StatusChanged(s) ==
    /\ s \in callbacks
    /\ callbacks' = callbacks \ {s}
    /\ IF Bindable(s) THEN Reconcile(s) ELSE UNCHANGED <<row, bound, projVars>>
    /\ UNCHANGED <<status, origin, version, token, leased, match, queue, arrivals, jobVars, deskVars,
                   djob, post, received, edit, edits>>

-----------------------------------------------------------------------------
Worker(s, g) ==
    \/ Claim(s, g) \/ ClaimRefused(s, g) \/ Reread(s, g) \/ Search(s, g) \/ SearchFails(s, g)
    \/ Publish(s, g) \/ FailScreening(s, g) \/ WorkerErrors(s, g)

Desk ==
    \/ MoveCase
    \/ \E s \in Ids, x \in Entities :
          \/ EnrichMatch(s, x)
          \/ \E verdict \in Verdicts : ReviewMatch(s, x, verdict)
          \/ \E o \in Ops : InvestigatorRead(o, s, x)
    \/ \E r \in seen, verdict \in Verdicts : InvestigatorReview(r, verdict)
    \/ \E e \in enriching : EnrichmentAnswered(e)

ScreeningNext ==
    \/ DispatchStep(Exec) /\ UNCHANGED screeningVars
    \/ ReceiveScreening
    \/ Desk
    \/ \E s \in Ids :
          \/ CreateScreening(s) \/ RetryScreening(s) \/ LeaseExpires(s) \/ Project(s) \/ StatusChanged(s)
          \/ \E g \in Gens : Worker(s, g) \/ WorkerDies(s, g)

\* The other rows that decisions wrote are dispatched meanwhile.
OtherRows == \E i \in Items \ {Exec} : (DispatchStep(i) \/ Receive(i)) /\ UNCHANGED screeningVars

ScreeningSpec == DispatchInit /\ ScreeningInit /\ [][ScreeningNext \/ OtherRows]_allVars

\* River runs ready jobs, jobs have a timeout, leases run out by themselves, and
\* the projector runs on a timer.
ScreeningFairness ==
    \A s \in Ids :
        /\ WF_allVars(Project(s)) /\ WF_allVars(LeaseExpires(s))
        /\ \A g \in Gens : WF_allVars(Worker(s, g))

-----------------------------------------------------------------------------
\* The execution row of the decision engine shows its source's status whenever no
\* projection of that source is queued: neither the answer to the request, which
\* may come after the screening is over, nor an operator, nor a late or
\* reordered callback overwrites it.
ProjectionCurrent ==
    \A s \in Ids : (Linked(s) /\ s \notin queue) =>
        /\ source = s /\ projected = version[s]
        /\ row[Exec] = MapStatus(status[s])

\* The status of a screening agrees with the reviews of its matches, whatever the
\* order of reviews, enrichments and publications: each works on the row as it is
\* under the lock.
StatusMatchesReviews ==
    \A s \in Ids : (\E x \in Entities : match[s][x].st # "none") => status[s] = Reviewed(match[s])

\* The case manager is told once of a screening that waits for a review: a worker
\* that lost its claim publishes nothing, and a retry starts from a failure only.
\* The outbox refuses a second event of the same identity, so a second
\* publication could never commit.
ArrivesOnce ==
    \A s \in Ids : arrivals[s] <= 1 /\ (arrivals[s] = 1 => status[s] \notin {"pending", "processing", "failed"})

\* An investigator's verdict is about the match that was shown: not about one that
\* was enriched, or reviewed by somebody else, in between.
ActsOnWhatWasSeen == \A r \in receipts : r.was = r.seen.match

\* The status of a screening tells the reviews of its matches, whatever reviewers,
\* enrichments and retries do at once, and an investigator's verdict is about the
\* match as it was shown.
ReviewsStand == StatusMatchesReviews /\ ActsOnWhatWasSeen

\* A receiver is asked once for each row unless an operator asked again, and the
\* case manager is told once of a screening to review.
EffectsOnce == PostedOncePerRequest /\ ArrivesOnce

\* A screening comes to a result, unless its jobs are used up: through errors of
\* workers, their deaths and claims that nobody holds any more.
ScreeningSettles ==
    \A s \in Ids : status[s] \in {"pending", "processing"} ~>
        (status[s] \in Settled \/ \E g \in Gens : jobs[s][g].state = "discarded")
=============================================================================
