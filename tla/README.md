# Verification of the fraud system

TLA+ models of the Go services under `src/backend`, the TLC runs that check
them on small instances, and TLAPS proofs about eight of them. `PROJECT.json`
relates every definition to the source lines it stands for (`map`), every
property to a change of the code that would break it (`mutants`), and lists
what is hard to test in this code (`hazards`).

Paths below are relative to `src/backend`.

## 1. The system

Six services share one PostgreSQL server, each with a schema of its own, and
call each other over HTTP. Background work is done by River, a job queue whose
rows live in the same database, or by workers that lease rows of an outbox.

| Service | State it keeps | Operations | Talks to |
| --- | --- | --- | --- |
| data-model | tables, fields, links, pivots, enums, display settings, index jobs, a revision per tenant | edit the model, apply it to the tenant's schema, build indexes, reconcile, export and import | read by ingestion and decision engine, which cache it |
| ingestion | the tenant's records, idempotency keys, record events and audit, upload logs, deferred ingests | ingest one record or a batch, CSV upload, deferred ingest, reads and aggregates | data-model (contract), River |
| decision-engine | scenarios, iterations, rules, workflows, decisions, executions, workflow, screening and scoring executions, an outbox | author and publish scenarios, decide, run asynchronous and scheduled executions, dispatch | ingestion (records, aggregates), case manager, screening, River |
| screening | screenings, matches, continuous configurations, dataset jobs, an outbox of case events | search a provider, review matches, enrich, re-screen, tell the case manager | provider, decision engine, case manager, River |
| case-manager | cases, inboxes, members, events, receipts, uploads, reports, an outbox | intake, investigate, assign, snooze, escalate, close, bulk, transfer, maintenance | decision engine, consumers of its outbox |
| auth | users, memberships, invitations, sessions, mail deliveries | invite, accept, log in, change members, revoke | all services check its sessions |

How the parts interact:

* A **client** sends records to *ingestion* and objects to the
  *decision engine*. A decision may start workflows, screenings and scoring,
  each a row with a River job that posts to another service.
* A **screening** is mirrored on the row of the execution that asked for it, by
  a projection queue. The *investigator* reviews matches with receipts.
* **River** is at-least-once. A worker that returns an error, runs out of time
  or dies is repeated up to the job's attempts. A unique job absorbs further
  inserts with the same arguments as long as it is waiting, running or
  completed and not cleaned.
* The **outboxes** of *screening* and *case-manager* are leased rows: a worker
  claims a row for a while, posts it, and records the answer if its claim still
  stands. The mails of *auth* are delivered in the same way.
* The **case manager** is shared by investigators, administrators, integrations
  and a periodic maintenance job, all of which change the same case rows under
  row locks; a trigger enforces the capacity of members.
* Every service checks a **session** before it writes, under locks on the
  session and the membership.

### What is hard here

* *Interleavings*: status checks outside the transaction that acts on them;
  whole rows written back from an earlier read (scenarios, fields); two
  requests with one idempotency key; automatic assignment from a stale
  snapshot; logins and suspensions, acceptances and revocations.
* *Stale data*: scenario, iteration, rules and configurations come from caches
  of different ages; a formula is validated long before it is evaluated.
* *Crashes and repeats*: a worker dies between the commit of its result and the
  completion of its job; the answer to a commit or a post is lost.
* *Timeouts*: a lease runs out under a slow worker.
* *Uniqueness of jobs*: a retry enqueued from inside the job it retries.
* *Deadlock*: batches lock rows in request order; a transfer locks two cases.
* *Long legal sequences*: snooze, close, move, remove, reopen; deleting what
  display settings refer to.
* *Calendar arithmetic*: weekdays and month ends in time zones.
* *Two evaluators of one language*: plain and with evidence, in memory and as
  SQL in another service.

### What makes each component correct

| Component | Properties |
| --- | --- |
| asynchronous and scheduled executions | bounded attempts; one evaluation at a time; terminal stays terminal; completed means every object was decided; a receiver that acknowledged a result is not told again; every job ends |
| recurring schedules | the next run shown is the first occurrence from now on |
| record ingestion | one effect per key; one creation per object, before its updates; events agree with rows; batches are all or nothing; every request is answered |
| upload logs, deferred ingests | a keyed request is ingested once; every job ends |
| outboxes, mails | one worker can finish a row; delivered means accepted; given up means exhausted; every event ends |
| case lifecycle | assignees are members; capacity is kept; the events of a case explain its row but for two untold effects (section 2); a bulk operation takes effect once; snoozed cases wake; waiting cases are handed out |
| intake and transfer | what is delivered twice is received once; evidence is where its decision is; no second case beside one that could be reused; deadlocks end |
| formulas | what validates evaluates to its type; both evaluations agree; a pushed-down filter selects what the rule condition with its operators holds of |
| publication, decisions, test runs | the live iteration is committed; a committed iteration freezes; a decision is what its iteration says |
| metadata cache, pages | answers are at most a TTL old; a walk through pages misses nothing that was there |
| workflow authoring, trees | nobody saves over what he has not seen; a repeat is applied once and acknowledged; trees obey the laws of logic |
| dispatch, screenings | one post per request; the execution's row shows its source; reviews stand; results are announced once |
| continuous screening | a request is answered with a record as new as it asked for; every object is screened |
| data model, portable models, index jobs | schema, metadata and contracts agree; references resolve; an import of an export is the model; saves see the latest; jobs settle |
| accounts | a session is of an active member; an administrator is left; grants follow their inviter; a login and an invitation are used once |

## 2. Modules

| Module | Models | Built on |
| --- | --- | --- |
| `River` | the job queue, external: job states, which states are unique, what a failure does | |
| `AsyncExecution` | asynchronous executions and callbacks of the decision engine | `River` |
| `ScheduledExecutions` | scheduled executions, object by object | `River` |
| `RecurringSchedule` | normalisation, next run, due occurrences | |
| `IngestJobs` | upload logs and deferred ingests | `River` |
| `MCExecutions` | the four together | the four |
| `EventDelivery` | abstract: what an outbox promises | |
| `CaseOutbox`, `ScreeningOutbox` | the outboxes: fence by token, fence by attempt number | `CaseOutbox` is refined from `EventDelivery` |
| `CaseIntake` | intake of decisions and screenings, transfer, attachment | |
| `RecordIngest` | record ingestion: transactions, locks, keys, events | |
| `Identity` | accounts: members, sessions, invitations, mails | |
| `MetadataCache` | one process's cache with shared loads | |
| `DecisionPages` | listing decisions page by page | |
| `MCRecords` | the seven together | the seven |
| `CaseLifecycle`, `MCCaseLifecycle` | cases, inboxes, members, bulk operations, maintenance | |
| `AstValues`, `AggregateQuery`, `AstEvaluator`, `AstValidation` | values, aggregate queries, the evaluator, the validator and the function catalogue | each extends the one before |
| `RuleFormula`, `FormulaFamily` | the life of a formula; the formulas and worlds checked | `AstValidation` |
| `ScenarioAuthoring` | scenarios, iterations, rules, publication | |
| `DecisionEvaluation` | what one evaluation computes | |
| `LiveDecisions` | evaluations, snoozes, configurations, test runs, while scenarios are edited | `ScenarioAuthoring`, `DecisionEvaluation` |
| `WorkflowAuthoring`, `ConditionTree` | the editors of workflows; condition trees and titles | |
| `MCDecisions` | decisions, formulas, workflows and trees | all of the above |
| `DecisionDispatch` | executions, requests and events on their way out | `River` |
| `Screenings` | screenings, reviews, enrichment, projection | `DecisionDispatch` |
| `ContinuousScreening`, `ProviderSearch` | monitored objects and dataset jobs; queries, answers | `River` |
| `MCScreening` | the four together | the four |
| `DataModel`, `IndexJobs`, `PortableModel`, `MCDataModel` | the model of a tenant, its index jobs, its export and import | each extends the one before |
| `ExecutionsProofs`, `RecordsProofs` | theorems about the parts of `MCExecutions`, and of `MCRecords` with `Identity` | these modules |
| other `...Proofs` | theorems | the module they are named after |

Where services do not meet in a behaviour, one MC module holds several of them
and the variable `focus`, chosen in the initial state, says which one moves.
This keeps independent parts independent: the state space is the sum of the
parts and not their product.

An operator such as `ClaimPendingOnly` or `getRulesOfScenario` that stands
before the definition it resembles and is used nowhere is a *mutant*: the form
that definition would take after a plausible mistake in the code.
`PROJECT.json` names the property each one violates.

### AsyncExecution, ScheduledExecutions, RecurringSchedule, IngestJobs

`AsyncExecution`: the row of `core.async_decision_executions` (`status`,
`attempts`, `result`, `callback`, `cbAttempts`), its run and callback jobs
(`jstate`, `jattempt`, `cstate`, `cattempt`) and the workers inside them (`pc`,
`item`, `cpc`, `citem`). Every statement or transaction is one action; between
two of them other requests, workers, failed statements and the death of the
process may come. `CreateNew` and `CreateExisting` are the insert `on conflict
do nothing`; `RetryCheck`, `RetryReset`, `RetryRolledBack` the manual retry,
which reads the status outside its transaction; `Work`, `StartAttempt`,
`MarkCompleted`, `RecordFinalFailure`, `RecordRetry`, `FailValidation`,
`Requeue`, `EnqueueAsyncExecutionCallback`, `WriteLifecycleEvent` the run;
`DeliverAsyncExecutionCallback`, `Post`, `UpdateCallbackDelivery` the callback;
`JobReturned`, `Crash`, `Rescue`, `CleanJob` River. The evaluation itself is the
choice between success, failure and a payload that fails validation.

`ScheduledExecutions` has the same shape (`exec`, `job`) with one decision per
object (`decided`): each is stored at once, so a failure in the middle leaves
some, and a retry decides the objects again. `RecurringSchedule` is arithmetic:
`Normalize`, `NextRun` and `Due` as in `recurring_schedule.go`, compared with
the set of all occurrences on a small calendar. Time zones keep their distance
from UTC: the changes of summer time are left out.

`IngestJobs`: an upload log and a deferred ingest have the same life, so one
module serves both; `Uploads` and `Keyed` say where they differ. The ingestion
itself is one step, which `RecordIngest` justifies. The worker holds a copy of
the row (`copy`) and writes all of it back, as `Update` of the repository does.

### CaseOutbox, ScreeningOutbox, EventDelivery

`ClaimDelivery`/`Claim` take a due row or one whose lease has run out,
`PostAccepted` and `PostRefused` are the post, `FinishDelivery`/`Finish` record
the answer if the claim still stands and `FinishConflict`/`FinishSuperseded` do
nothing otherwise. `ExpireLease` may happen at any time after the claim, under
a live worker too; `Abandon` is the death of a worker. `PostAccepted(w,
"failure")` is an acceptance whose answer is lost. `EventDelivery` is the
promise: an event stays open until it is accepted or given up, and nothing is
recorded as delivered that was not accepted.

### CaseIntake

Each request is one transaction, stepped lock by lock: advisory locks of the
intake repository, rows of cases, entries of the unique index on primary
decisions. `FindOpenByPivot` locks what it finds newest first and keeps the
locks of rows that were closed meanwhile (`cand` is what its query found and it
has not locked yet), while a transfer locks its two cases
in the order of their ids: this is a real deadlock, which PostgreSQL breaks and
which is in the model. Decisions and inboxes do not change.

### RecordIngest

`Ingest` and `BatchIngest` at READ COMMITTED. A request looks up its key
(`GetMissing`, `Replay`), writes its records one after the other (`Insert`,
`Patch`), each under a lock that lasts until the transaction ends, inserts its
key (`PutKey`), and commits. A statement that needs a locked row waits;
PostgreSQL's deadlock detection is `DeadlockAbort`; `Fail` is any failed
statement, including a commit whose acknowledgement is lost (`Commit(r, a)`
with another answer). `Overloaded` is the refusal by the write path's limit,
`Refused` a record the validation rejects.

### Identity

Members (`member`, with `version`, `access_version`), sessions, OIDC logins,
invitations with the version of their token, mail deliveries with leases, and
the requests that change them (`st`, the locks in `rowLocks`): logins, logouts,
revocations, changes of members, invitations, resends, cancellations and
acceptances, and the check of a session before another service writes. Tokens
are versions; idle and absolute expiry are one flag; of the roles only
`tenant_admin` matters. `users.active` and the tenant's status are never
written in this repository and are constants.

### MetadataCache, DecisionPages

`MetadataCache` is `decisionEvaluationCache` with its single-flight group for
any key: `Lookup`, `Do`, `LoadRead`, `LoadSet`, `LoadReturn`, `Invalidate`, and
a clock. A load that read before a write may store after the invalidation.
`DecisionPages` walks `ListFilteredPage` and `ListFilteredCursor` while rows
are stored in any order of their `created_at` and deleted with their scenario.

### CaseLifecycle

A case is a record of inbox, status, outcome, assignee, snooze, attention flag
(`boost_reason`) and review level. A command
locks its case, its inboxes and the member the trigger looks at before it reads
them, so it is one step, possible only while no worker holds one of its locks.
The assignment by the maintenance worker is three steps (`SelectCase`,
`SelectUser`, `AutoAssign`), because it counts a member's cases in a snapshot
taken before it locks the member. `CapacityAllows` is the trigger of migration
000007. `audit` is the row one gets from the case's creation by replaying its
events: each action names the fields its events state. They do not state
everything. `EscalateCase` sets the flag to `escalated` and clears the review
level (`workspace.go:202-203`), and its one event gives the inboxes and says
"Assignment and snooze cleared"; `wakeOne` (`maintenance.go:59`) sets the flag to
`unsnoozed`, and its event gives only the snooze. `updateCase`, `investigate` and
`CloseCase` do emit `boost_updated`, and `updateCase` `review_level_updated`. So
`AuditReplays` claims inbox, status, outcome, assignee and snooze in every state,
the flag unless the row has one of those two values, and the level unless the row
has none: the history lags in exactly the places where these two paths leave it
behind. The service's `INVESTIGATOR_CONTRACT.md` (lines 277 and 328) describes
both effects and nowhere promises that the events state them, so this is a limit
of the history and no finding. Left out: names, tags, contributors, SLA
deadlines, creation of inboxes. A command of a user is atomic, so `SKIP LOCKED`
skips cases held by workers only.

### AstValues to FormulaFamily

The rule language with its dynamic types: numbers are exact fractions, texts
sequences of symbols, times hours. `EvaluateNode` and the evidence walk
short-circuit separately, as in the code; `AggregateQuery` is the ingestion
service's side of an aggregate, its checks and SQL's three-valued logic; the
compiler to it is in `AstEvaluator`.
`ValidateNode` gives a type or refuses; the catalogue lists every function with
the type it promises. `RuleFormula` validates a formula on a model and
evaluates it on a record in both ways; `FormulaFamily` is about 5,000 formulas
and four worlds (complete, null-ridden, unreachable, without pushdown).

`PushdownAgrees` (part of `EvaluationsAgree`) compares, for each stored record,
the truth value of the SQL with the rule condition that has the filter's
operators, evaluated by the evaluator that production uses. That is what
`decision-engine-service/AGGREGATE_PUSHDOWN_CHECKLIST.md:66` asks of the rewriting
of filters. Records with NULLs are among those compared, and the answer must be
that of the function on lists for the values selected. What differs, and how the
property puts it:

* SQL leaves a record undecided, and so drops it, when a NULL takes part in a
  comparison: a `!=` filter drops the records without a value, although the
  condition `!=` holds of them. The property demands agreement on records that
  every filter can decide, and of the others that SQL never contradicts the
  condition;
* a prefix is a LIKE pattern and is not escaped: it selects more, and under `not`
  fewer. The property demands that no record with the prefix is lost outside a
  `not`. A backslash in a prefix is not modelled;
* AVG, MIN and MAX of nothing are NULL, the functions on lists give 0; a group
  without members is left out of the SQL, and the validator refuses empty
  connectives. Both are excluded by name;
* texts are ordered symbol by symbol on both sides, which is the collation "C".

`applyFilter`, `recordMatchesFilterExpr` and `aggregateFieldValues` of
`evaluator.go`, which filter records in memory, are called from nowhere but each
other and are not modelled.

Differences that show up in the model and are excluded by named conditions of
the properties (`SpelledOut`, `ComparesScalars`, `Strict`, `NoNull`): an alias
accepted by the validator takes another branch at run time
(`StringStartsWith` tests a suffix; `+ - * /` fail, although
`frontend/src/lib/rule-builder.ts:62` offers them); the validator refuses
`and`/`or`/`not` groups of filters that the compiler supports; `eq` on lists or
objects validates and always fails; `time_add` without `timestampField`,
`is_multiple_of` of a text and `timestamp_extract` of another type validate and
fail; STDDEV, PCTILE, MEDIAN and the IsEmpty filter validate but are refused by
pushdown; `database_access` falls back to the trigger record when its path
leads nowhere; `CountedNodes` counts more than the message "50 nodes" says. A text
that reads as a timestamp fails every comparison with one that does not, and so
does a missing field in a function that needs it (`Conforms`). `AcceptedBehaves`
says nothing of these cases.

### ScenarioAuthoring, DecisionEvaluation, LiveDecisions

None of the authoring transactions locks the row it reads, so a request is two
or three steps: `...Read` keeps what was read in `req[c]`, `...Write` is the
statement (or statements) that write. Rows are numbered in order of creation
(`nextID`), as identifiers are not used again. `LiveDecisions` adds evaluations
that read scenario, iteration, rules and configurations one after the other.
`seen` holds, per cache key, every value that any evaluation of any process may
have loaded: a getter answers with any of them or fails, which allows for every
order of expiry, invalidation and shared loads. `StoreDecision` is the
transaction, with its foreign keys; `Cascade` is what deleting a scenario or a
rule takes with it. A test run pins both iterations and evaluates the phantom
one as it finds it. `touched` remembers iterations that changed after their
commit: a request that saw the draft may still write, and only then.

### WorkflowAuthoring, ConditionTree

The case-rule editor (a transaction under a lock on the scenario with the
version it has read), the workflow-rules API (no lock) and the older workflows
API on one scenario, with lost answers and a clock whose ticks may repeat.
`UpdateCondition` and `UpdateAction` leave `workflow_rules.updated_at` alone, so
the editor overwrites such a change unseen although `authoring.go:13` says
otherwise; the property is about the whole-row writers. `ConditionTree` is
`Validate` and `Matches` with JSON types.

### DecisionDispatch, Screenings, ContinuousScreening, ProviderSearch

A dispatched row (`row`) has its River job (`djob`), a post under way (`post`)
and operators who write statuses (`edit`). A screening has a status and a
version, its workers per generation (`jobs`, `work`, fenced by `token` and a
lease), its matches and what reviewers were shown (`seen`); the projection
queue copies its status to the execution. `ContinuousScreening` has monitored
objects whose job is re-enqueued while the previous one runs, and dataset jobs
that ask for all objects of a provider. `ProviderSearch` walks field maps and
responses in any order.

### DataModel, IndexJobs, PortableModel

The metadata, physical schema, unique indexes, contracts and index jobs of one
tenant are one record `db`, because they are in one database. A request is
`Begin` (its reads and checks) and `Finish` (its transaction, with cascades and
triggers). `IndexJobs` adds the worker, which dies anywhere, River's attempts
and the reconciliation; `PortableModel` the export by name and the import as a
sequence of service calls. Identifiers are UUIDs: `used` collects those drawn,
so that none is drawn twice. The predicates of `Sound` are what a database of
the service always satisfies; a menu starts with such a database
(`DataModelAssumption`).

## 3. Runs

| Run | Instance | Question |
| --- | --- | --- |
| `executions` | async: 2 executions with one key, 3 jobs, a callback, 2 operators, 2 attempts, 2 manual retries; scheduled: 1 row, 2 objects, 2 job slots, 2 operators, 1 reset; recurring: 70-odd configurations in three zones, ten days around month ends; ingest: an upload and a keyed deferred ingest, 2 attempts, 2 crashes; fair | Do resets, rescues and late workers keep attempts bounded and evaluation exclusive? Is completed complete? Does every job come to rest? |
| `records_and_events` | outbox: 1 event, 2 workers, 2 attempts, 3 lost leases, 1 replay; screening outbox: 3 workers; intake: casts of 3 requests, 1 fault, 1 repeat; identity: casts of 3 requests, 1 fault, 1 mailer, 2 mail attempts; ingest: 4 requests, 2 objects, 1 key, 3 slots; cache: 2 callers, TTL 1, 1 write; pages: 4 rows, 3 filters; fair | Does a stale worker ever finish a row? One effect per key, per receipt, per login? Is everyone answered, deadlocks included? |
| `case_lifecycle` | 2 inboxes, 1 user who is an administrator, an integration, 1 bulk operation, 2 workers; either 2 cases without snooze, flag and level, or 1 case with everything and 4 patches | Does any sequence or race break a case, its history or a member's capacity? |
| `case_maintenance` | the same with 2 cases that may be snoozed but are not escalated or pending, without bulk operations and patches, fair | Are snoozed cases woken and waiting cases handed out? |
| `decisions` | 2 clients, 2 evaluations, 1 test run, request quotas; 5,000 formulas in 4 worlds; 2 editors and a clerk; some hundred trees | Is a decision what its iteration says? Do formulas keep their types and meanings? Are edits informed? |
| `screening` | claims, desk and sources on 2 screenings and 2 entities, dispatch of 4 rows, 1 monitored object with dataset updates, provider answers; 2 attempts, 2 faults; fair | Is the row what its source says? One post, one announcement? Do reviews stand? Does everything end? |
| `data_model` | menus of 3 or 4 requests on two tables, 2 clients, index workers that die, a reconciliation; fair | Do schema, metadata, contracts, references and exports stay consistent? Do index jobs settle? |
| `async_automatic_retry` | 1 execution, 2 attempts, fair | Is a failed attempt retried? **No** (finding 1). |
| `ingest_other_table` | 2 requests, 1 key | Is what is answered as stored stored? **No** (finding 2). |
| `unpublish_race` | 2 clients | Does an unpublished iteration stay down? **No** (finding 3). |
| `retried_dispatch` | 4 rows, fair | Is a retried row posted? **No** (finding 4). |
| `stale_field` | 2 updates of one field | Do flags and indexes agree? **No** (finding 5). |

Why the bounds are enough. Rows of a table do not interact except through
what the instances contain: jobs of one execution, workers on one row, requests
on one key or object, cases of one member, requests on one scenario. Each
instance has at least two of whatever competes, one attempt more than the
first, and enough losses to make a third worker meet the leftovers of the
first. Where the number of possible requests is large, casts or menus group
those that meet (`IntakeSetting`, `IdentityCasts`, `MCMenus`, `AllQuotas`): three
transactions are needed to have two of them wait and a third undo what they
read. In `case_lifecycle` two cases compete for the capacity of one member, and
he is a user and an administrator in turn; a second user multiplies the states
without a new conflict, because capacity and membership are per member. The flag
and the level matter to no other case, so one case shows them; to the
maintenance worker a pending case is as good as one under investigation. In
`decisions` the scenario starts live on one iteration with the draft of a next,
the shortest state in which edits, publications, copies and evaluations
disagree about which rows are meant. `InviteLimit` stands for 100 an hour and
`MailAttempts` for 5. The theorems remove the bounds for the properties they
cover. `SYMMETRY` is used only in `decisions` (clients and rule identifiers) and
`case_lifecycle` (workers), which check no liveness.

`CHECK_DEADLOCK FALSE` is given where the system may stop: all events
delivered, all jobs done, no request left within the bounds.

### Fairness

Nothing makes clients ask, processes crash, messages get lost or the cleaner
run. In a behaviour of one focus the fair actions of the others are disabled
for ever, so that their fairness asks for nothing.

* `AsyncExecution`, `ScheduledExecutions`, `IngestJobs`, `IndexJobs`,
  `DecisionDispatch`, `ContinuousScreening`: weak fairness of the steps of a
  live worker and of River's fetching, completing and rescuing, which the
  worker process runs in a loop; of the dispatch also that an operator's open
  transaction ends.
* `CaseOutbox`, `ScreeningOutbox`: weak fairness of claims (a periodic job), of
  a worker's next step and of the end of a lease (the clock). `Screenings`
  likewise, with its projection queue.
* `RecordIngest`, `CaseIntake`, `Identity`: weak fairness of a request's next
  step, deadlock detection included (in `Identity` of `Progress` as a whole:
  that something moves, which is all its bounded number of steps needs).
* `MetadataCache`: a caller's and a load's next step.
* `CaseLifecycle`: the maintenance job runs periodically. `WakeOne`,
  `SelectUser` and `AutoAssign` have strong fairness, because commands may take
  the row or the place in between again and again; a periodic job that retries
  for ever meets a free moment. No command is fair.

## 4. Proofs

Everything is proved for all values of the constants that satisfy the module's
assumption, which TLC evaluates in the runs. Each run property that a theorem
states was checked by TLC first, and so was each inductive invariant.

| Module | Theorems (run property) | Assumption on the constants |
| --- | --- | --- |
| `ExecutionsProofs` | asynchronous: `TypeCorrect`, `AttemptsStayBounded` (`AttemptsBounded`), `AtMostOneRunner` (`SingleRunner`), `ResultAgrees` (`ResultMatchesStatus`), `TerminalRowsStay` (`TerminalUntilReset`), `ToldOnce` (`NotToldTwice`); scheduled: `ScheduledIsWhole` (`CompletedIsWhole`); uploads and deferred ingests: `JobsIngestOnce` (`IngestedOnce`) | bounds are numbers, attempts at least one, maps have their types |
| `RecordsProofs` | outbox: `OutboxTypes`, `OneHolder` (`SingleHolder`), `DeliveredMeansAccepted`, `FailedMeansExhausted`, `Refinement` (`ImplementsDelivery`); all services of the run: `DeliveriesCount` (`DeliveredOnce`), `EvidenceStaysCurrent` (`EvidenceIsCurrent`), `OpenCasesAreReused` (`ReusesOpenCases`); cache: `EntriesRecent`, `AnswersRecent` (`AnswersAreRecent`) | `OutboxAssumption`; bounds of the cache are numbers; `IntakeAssumption`: requests are well formed; a receipt's identifier stands for its source and event, so that only requests of one kind share it and a review has its own; continuous screenings have no decision; no two cases open with the same one |
| `CaseLifecycleProofs` | `TypeCorrect`, `LifecycleHolds`, `AssigneesAreMembers` (`AssigneeIsMember`), `HistoryExplains` (`AuditReplays`), `BulkTakesEffectOnce` (`BulkOnce`), `CapacityHolds` (`CapacityRespected`) | administrators are users; patches have the values the handler accepts |
| `RecordIngestProofs` | `RecordsExact` (`RecordsAreExact`) | a request names at least one object and none twice, as the handler's check of a batch has it |
| `IdentityProofs` | `AccountsTyped`, `AccessCurrent` (`AccessIsCurrent`), `GrantsCurrent` (`GrantsAreCurrent`), `MailTold` (part of `DeliveredOnce`) | requests name sessions there are; a login is not an acceptance; a mail has at least one attempt |
| `ScreeningsProofs` | `ScreeningsTyped`, `RowShowsSource` (`ProjectionCurrent`), `ReviewsAreKept` (`ReviewsStand`), `SideEffectsOnce` (`EffectsOnce`), `AsAsked` (`ScreenedAsAsked`) | one execution, at least one attempt; a provider's results are lists |
| `LiveDecisionsProofs` | `PublicationSound` (`PublicationIsSound`), `CommittedIsFrozen` (`FrozenOnceQuiet`), `DecisionsExact` (`DecidedAsCommitted`) | absent rows and ids are no rows and ids; a formula answers yes, no or error |
| `DataModelProofs` | `Invariance`, `SchemaDescribed` (`SchemaIsDescribed`), `ModelReadable` (`ModelIsReadable`), `SavesLatest` (`SavesSeeLatest`) | `DataModelAssumption`: each table has one identifier for each default column; a menu starts with a whole database and asks for what the handlers decode (flags are booleans, seeds belong to the new field) |

**ExecutionsProofs.** The bound on attempts is not inductive: validation
recovery puts a row back in the queue without looking at its count. `SafetyInv`
adds why it holds. River's uniqueness leaves an execution one job that may act
(`UniqueJob`), a job has a worker exactly while it runs (`WorkerIffRunning`),
its attempts are bounded (`JobAttemptsBounded`) and each attempt of the row is
paid for by one of the job (`AttemptsPaidFor`). `EvalOfOpenRow` says that a
worker about to write finds the row open, which gives `ResultAgrees` and
`TerminalRowsStay`. `CallbackInv` says the same of the callback: one job that
may act, and a worker that is about to post has read the row since it was last
acknowledged. `ScheduledInv` (`OneJob`, `AttemptsCounted`, `RunnerKnows`: a
worker in the middle of its list finds the row open, has decided what it has
passed, and has an attempt left to pay for the rest) and `JobsInv`
(`AttemptsPaid`, `IngestionsCounted`) carry the argument to the other two kinds
of jobs.

**RecordsProofs.** *Outbox.* `IndInv` adds that tokens are drawn once
(`TokensFresh`) and that what a worker knows of its row is true as long as its
token is the row's (`HolderKnows`). Every step then maps to a step of
`EventDelivery` or to a stutter. *Screening outbox.* `FenceInv`: a worker has
the number of its claim, and while the row still has this number nobody has
claimed it since, although an operator may have requeued it. *Intake.*
`IntakeInv` says what a transaction knows at each step from its reads and its
locks: the receipt it looked for, the screening and the pivot it reads
(`ReceiptKept`, `ScreeningKept`, `PivotKept`), the case it adds to (`Adding`),
the cases of the pivot it has not looked at yet (`Searched`) and what it will
answer (`Answered`). `LocksExclusive` makes this last: others write only what
they have locked (`OthersKeep`). The tables then keep the truth at every commit
(`ReceiptsTrue`, `LinksTrue`, `EvidenceTrue`, `EvidenceShown`, `HistoryTrue`).
In `OpenCasesAreReused` the search may pass over an open case only because a
locked row was closed meanwhile; `Searched` says that every eligible case that
the transaction has not dismissed is still before it. `RecordsInv` joins these
parts and Identity's for the whole specification `MCSpec`, by `StepsApart`: a
step of one service leaves the variables of the others alone. *Cache.* An
answer is recent because whatever a load has read or looked up is already as
recent as the entry or the answer it will become, and no recorded time lies
ahead of the clock (`RecentEntries`, `RecentFlights`, `RecentCalls`).

**CaseLifecycleProofs.** Every action that touches a case is shown to be a
`RowStep`: it writes one sound row, the history with its events explains that row
(`ToldExplains`), and it has passed the trigger. The invariant, and the capacity property for steps of any
worker with any stale snapshot, follow from that. The strengthening (`Inv`) is
small: receipts count effects (`ReceiptsCount`) and the case a worker has
locked stays open (`JobsSound`).

**RecordIngestProofs.** `IngestInv` says what an open transaction knows: the
records it has written are the first of its request, each locked by it, and
whether each creates or updates is settled by the committed table, which nobody
else can change under the lock; a key is locked from its insertion to the
commit, and what a request was told is what the key's row says.

**IdentityProofs.** `IdentityInv` says what a transaction knows under the locks
it holds: its target under the row's lock, the other administrators under the
tenant's, an unrevoked session under the session's; what an acceptance read of
its invitation before any lock stands as long as the token's version does. Each
step is shown to be `Careful`: it changes a member only under both locks, a
session only when nobody has locked it, and an invitation only with a later
token, so that the other transactions' knowledge survives. `MailInv` says what a
mailer knows of its delivery under the lease, and that a delivery recorded as
sent was sent.

**ScreeningsProofs.** `ScreeningInv` has three independent parts. A row of the
decision engine pays for its posts: what was received and what may still be
posted is at most one and the edits (`PostsBounded`). A bound execution row is
what its source was at the projected version (`Bound`). A pending match is
identified by how often it was written (`PendingShape`, `ShownPending`), hence a
verdict is about the match that was shown; arrivals are announced by settled
screenings once (`ArrivalsSettled`). `AsAsked` has two more invariants.
`MonitorInv`: a row never asks for a newer record than there is, and a worker
that finds the row as it read it has screened a record as new as the row asks
for (every step is a `MonitorMove`). `SearchInv`: the result is complete over
the responses walked so far, in whatever order.

**LiveDecisionsProofs.** `AuthoringInv` says that what a request carries from
its read into its write stays true for as long as its scenario exists
(`RequestsKnow`), although nothing is locked: identifiers are not used again, a
committed iteration stays committed, and the versions below the one a request
chose stay taken. From it `PublicationSound` follows for any interleaving. A
step of a request spares every iteration that is committed and quiet (`Spares`),
which is `CommittedIsFrozen`. `DecidedInv` carries the same through the caches:
every value that may have been loaded of an iteration that was not changed
after its commit is the committed row (`SeenInv`), at every stage of an
evaluation (`BranchInv`), in every stored decision and phantom (`DecisionInv`,
`PhantomInv`) and test run (`RunInv`), through the cascades of deletions
(`Trimmed`). No bound on requests, evaluations, rows or the ages of cache
entries is used.

**DataModelProofs.** The invariant has three parts. `Intact`: the database is
`Sound` in every state (foreign keys, unique names, default columns, options
that a trigger has validated, current contracts); physical tables and indexes,
the paths of pivots, captions and the flag of enum fields, which only a check
before the transaction protects, are whole as long as no transaction that makes
this check has committed on reads that another one overtook. `RequestsStand`:
what a request in flight has read is true while nothing has committed since,
and while the version a save has read is that of its table, so are the settings
it has read. `IdsNew`: a table that is being created is neither live nor in the
hands of another creation or save; without it a new table could come to have
the version that a save of an older one has read. Each of the twenty
transactions has a lemma that it `Keeps` the database, once for overtaken reads
and once for reads that still hold; for the deletions the lemma follows the
rows through the cascade and both cleaning triggers (`FieldRowIs`,
`TableRowIs`, `RowsGone`), and shows that options which the triggers leave as
they are do not use what is gone (`UnchangedOptions`). The steps of `IndexJobs`
change none of this (`JobsNextIs`). The proof has also strengthened the
property: that options resolve needs no condition on overtaken requests,
because the trigger validates them inside the transaction.

Only model-checked, and why:

* all liveness properties: fairness and `ENABLED` are beyond the prover;
* formulas, condition trees and their titles (`AcceptedBehaves`,
  `EvaluationsAgree`): their definitions are `RECURSIVE`;
* `EditsAreInformed` of the workflow editors: it is no theorem for every `Skew`.
  A version is a time stamp, and when two processes stamp a row with the same
  time the editor cannot tell the two rows apart (with `Skew` equal to one tick
  TLC finds the repeat of a save refused). The instance has stamps that overtake
  each other but never coincide;
* `PagesComplete`: a page is made with `SelectSeq` and a sort, recursion over
  data that needs an induction the prover does not have;
* `OccurrencesAgree`: arithmetic of calendars, best enumerated;
* `PortableRoundTrip`: an import is a fold over the tables, fields and relations
  of a document, and what a fold computes for every document needs the
  induction that the prover does not have.

## 5. Findings

1. *Automatic retry of asynchronous executions* (`async_automatic_retry`,
   `decision-engine-service/internal/service/execution_service.go:746`). The
   retry is enqueued from inside the unique job it retries and absorbed by it;
   the job then completes and the row stays queued.
2. *Keys across object types* (`ingest_other_table`,
   `ingestion-service/internal/service/ingest_service.go:106`). The request
   hash covers the payload only, so the same payload sent to a second object
   type under the same key is answered as replayed and never stored.
3. *Unpublishing undone* (`unpublish_race`,
   `decision-engine-service/internal/service/scenario_service.go:93`). A change
   of a scenario's name writes back the whole row read before, its live
   iteration included, so an unpublish in between is undone without a record.
4. *Retries of dispatched rows* (`retried_dispatch`,
   `decision-engine-service/internal/service/screening_service.go:170`). The
   retry sets the row to pending and enqueues nothing; the loop that used to
   poll for such rows has no tasks any more.
5. *Updates of fields* (`stale_field`,
   `data-model-service/internal/service/field_service.go:246`). An update that
   does not mention `is_unique` writes back the flag it read earlier, so the
   flag and the unique index part ways.

Further disagreements met while reading, not stated as runs:

*Executions*
* The manual retry of an asynchronous execution is absorbed in the same way by
  a completed job that was not cleaned yet (`execution_service.go:441`,
  `openapi.yaml:2329`). Its status check is outside its transaction, and the
  reset is unconditional (`:435`, `:438`), so that an operator may reset a row that
  was completed in between; `TerminalUntilReset` permits exactly this one actor. The retry of a scheduled execution
  shares the first part; a repeated creation by key always enqueues.
* A worker that dies after `StartAttempt` leaves the row running; repeats of the
  job and the manual retry are both refused. The same holds for scheduled
  executions.
* A refused callback is recorded as failed and its job completes, so that
  further attempts are not used (`decision-engine-service/README.md:25`).
* `materializeRecurringSchedules` has no caller: an enabled recurring schedule
  creates no executions, while `DECISION_ENGINE_RIVER_MIGRATION_CHECKLIST.md:38`
  says "recurring schedule materialization now enqueues River work". `next_run`
  mixes the UTC weekday with the local date, and adding months to the 29th to
  31st rolls over into the month after a short one. `OccurrencesAgree` does not
  demand the first occurrence there: it bounds the error to the day beside an
  occurrence, and to one occurrence passed over.

*Ingestion*
* The worker process has no-op enqueuers: a failed attempt of an upload or a
  deferred ingest sets the row back to waiting and nothing runs it again
  (`ingestion-service/cmd/worker/main.go:78`, `ingestion-service/README.md:306`).
* The second of two concurrent requests with one ingest key fails with a unique
  violation; the replay is given on the next try only (`ingestion-service/README.md:326`).
* `StartAttempt` of an upload log restarts a terminal row when River repeats
  the job after a crash (`csv-upload-logs-and-worker.md:163`), and `failed_rows`
  of an earlier attempt stays on a completed upload.

*Decisions*
* `EvaluateAllLiveScenarios` stores each scenario's decision in a transaction of
  its own. Two overlapping publications leave records that disagree with each
  other about which iteration was replaced. The copy of a live scenario is live
  at once.
* `UpdateCondition` and `UpdateAction` of the workflow-rules API do not raise
  the version that the case-rule editor compares (`authoring.go:13`); the API
  has no limit of 500 rules, and tied priorities have no defined order.
* The first page of a listing never carries `next_cursor` (`openapi.yaml:732`).
* The rule language: section 2, AstValues to FormulaFamily.

*Screening*
* An operator's requeue of a screening event sets attempts to 0, so the attempt
  numbers that fence workers repeat (`INTAKE_CONTRACT.md:63`).
* A dataset job whose worker dies, or whose retry is absorbed, is stranded;
  only the first 500 active objects are re-screened; a disabled configuration
  spends the attempts of its jobs; a field that is null is searched as the text
  `<nil>`; a partial result without matches waits for reviews that cannot come.

*Case manager*
* The order of routing in `INTAKE_CONTRACT.md` is not the code's, which looks
  for the decision first. `HandleScreeningReviewed` without a receipt has no
  caller. Manual creations and attachments do not take the lock of the pivot,
  so that they may open a case beside one that intake opens.

*Data model*
* A repair row whose process dies before the enqueue, or whose enqueue is
  absorbed by an earlier repair, never runs.
* `data-model-service/README.md:425` says that reconciliation does not infer
  search indexes; the code does.

*Accounts*
* Without the tenant's lock, two administrators demoting each other would
  deadlock on their session rows; the lock is what prevents it.

## 6. Not modelled

`PROJECT.json` lists each component with what is left out of it. As a whole:
reports and evidence uploads (each operation is one transaction under the lock
of its case), queues, explorer and analytics (queries), validation and the
contract cache of ingestion (a cached contract is used only after its ETag was
confirmed for that very request), the OIDC provider and preflight, HTTP
decoding, configuration and migrations (read as the definition of tables and
triggers), blob clients, the frontend and the test programs.

Left out of modelled components: summer time; the rounding of floating-point
numbers; names, comments, tags, files, the whitelist, SLA deadlines and review
levels of cases; scoring arithmetic; the creation of tenants and inboxes;
reports of column differences.

## 7. Plan

The state machines above cover the parts with concurrent state, and their
safety properties are proved: those of everything that acts concurrently on
rows, jobs, cases, accounts, screenings, decisions and data models. What remains
for proof:

1. `WorkflowAuthoring`: `EditsAreInformed` from the assumption that no two
   versions coincide, stated over a module that no `RECURSIVE` definition reaches.
2. `RecurringSchedule`: the lemmas on `Normalize` and `NextRun` that need no
   induction.

Worth modelling next: reports and evidence uploads as one more focus of
`MCCaseLifecycle`, and summer time in `RecurringSchedule`.
