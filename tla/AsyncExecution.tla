---------------------------- MODULE AsyncExecution ----------------------------
(***************************************************************************)
(* Asynchronous decision executions of the decision engine: the row of     *)
(* core.async_decision_executions, the River job that runs it, the River   *)
(* job that delivers its callback, and the operators who ask for a retry.  *)
(*                                                                         *)
(* Every statement or transaction against Postgres is one step.  Between   *)
(* two steps of a worker anything may happen: another request, another     *)
(* worker, a failed statement (the pool, a cancelled job context), or the  *)
(* death of the process, after which River rescues the job.                *)
(***************************************************************************)
EXTENDS River, FiniteSets

CONSTANTS
    NoOne,          \* no execution
    Executions,     \* ids CreateAsyncDecisionExecution may generate
    Keys,           \* idempotency keys
    KeyOf,          \* KeyOf[e]: the key of the request that generates id e
    WithCallback,   \* the executions whose request carries a callback_url
    Operators,      \* concurrent callers of RetryAsyncDecisionExecution
    Jobs,           \* river_job rows: a pool of run jobs and one of callback jobs
    ExecOf,         \* ExecOf[j]: the execution id in the arguments of job j
    MaxAttempts,    \* ASYNC_EXECUTION_MAX_ATTEMPTS: of the row and of the job
    CallbackMaxAttempts,
    MaxRetries      \* bound: manual retries in a behaviour

ASSUME ConstantsAssumption ==
    /\ MaxAttempts \in Nat \ {0}
    /\ CallbackMaxAttempts \in Nat \ {0}
    /\ MaxRetries \in Nat
    /\ KeyOf \in [Executions -> Keys]
    /\ ExecOf \in [Jobs -> Executions]
    /\ NoOne \notin Executions
    /\ WithCallback \subseteq Executions

VARIABLES
    status,      \* the row's status; "absent" before it is inserted
    attempts,    \* attempt_count
    result,      \* result_body: a decision, validation evidence, or null
    callback,    \* callback_status
    cbAttempts,  \* callback_attempt_count
    events,      \* lifecycle events written to the outbox for the execution
    jstate,      \* run jobs: river_job.state
    jattempt,    \* run jobs: river_job.attempt
    pc,          \* run jobs: where the worker is in RunAsyncDecisionExecution
    item,        \* run jobs: item.AttemptCount as StartAttempt returned it
    outcome,     \* run jobs: the lifecycle event the worker is to write
    cstate,      \* callback jobs: river_job.state
    cattempt,    \* callback jobs: river_job.attempt
    cpc,         \* callback jobs: where the worker is
    citem,       \* callback jobs: callback_attempt_count as the worker read it
    retrying,    \* per operator, the execution it found failed
    retries      \* manual retries carried out so far

rowVars  == <<status, attempts, result, callback, cbAttempts, events>>
runVars  == <<jstate, jattempt, pc, item, outcome>>
cbVars   == <<cstate, cattempt, cpc, citem>>
opVars   == <<retrying, retries>>
vars     == <<rowVars, runVars, cbVars, opVars>>


RowStatuses == {"absent", "queued", "running", "completed", "failed"}
Terminal == {"completed", "failed"}
\* Steps of the run worker; "ok" and "err" are a worker that has returned,
\* "dead" one whose process died.
PCs == {"idle", "start", "eval", "requeue", "callback", "event", "ok", "err", "dead"}
CallbackPCs == {"idle", "read", "post", "sent", "failed", "ok", "err", "dead"}
EventTypes == {"queued", "retry_scheduled", "completed", "failed"}

Init ==
    /\ status     = [e \in Executions |-> "absent"]
    /\ attempts   = [e \in Executions |-> 0]
    /\ result     = [e \in Executions |-> "null"]
    /\ callback   = [e \in Executions |-> "null"]
    /\ cbAttempts = [e \in Executions |-> 0]
    /\ events     = [e \in Executions |-> {}]
    /\ jstate     = [j \in Jobs |-> "none"]
    /\ jattempt   = [j \in Jobs |-> 0]
    /\ pc         = [j \in Jobs |-> "idle"]
    /\ item       = [j \in Jobs |-> 0]
    /\ outcome    = [j \in Jobs |-> "queued"]
    /\ cstate     = [j \in Jobs |-> "none"]
    /\ cattempt   = [j \in Jobs |-> 0]
    /\ cpc        = [j \in Jobs |-> "idle"]
    /\ citem      = [j \in Jobs |-> 0]
    /\ retrying   = [o \in Operators |-> NoOne]
    /\ retries    = 0

-----------------------------------------------------------------------------
(***************************************************************************)
(* Enqueueing.  Both enqueuers insert with UniqueOpts{ByArgs: true}: the   *)
(* insert is absorbed by a job with the same execution id that is waiting, *)
(* running or completed and not yet cleaned.                               *)
(***************************************************************************)
UniqueRunJob(e) == \E j \in Jobs : ExecOf[j] = e /\ jstate[j] \in UniqueStates
UniqueCallbackJob(e) == \E j \in Jobs : ExecOf[j] = e /\ cstate[j] \in UniqueStates

InsertRunJob(e) ==
    \E j \in Jobs :
        /\ ExecOf[j] = e
        /\ jstate[j] \notin UniqueStates
        /\ jstate' = [jstate EXCEPT ![j] = "available"]
        /\ jattempt' = [jattempt EXCEPT ![j] = 0]

InsertCallbackJob(e) ==
    \E j \in Jobs :
        /\ ExecOf[j] = e
        /\ cstate[j] \notin UniqueStates
        /\ cstate' = [cstate EXCEPT ![j] = "available"]
        /\ cattempt' = [cattempt EXCEPT ![j] = 0]

\* A missing UniqueOpts: every enqueue adds a job.
EnqueueRunNotUnique(e) == InsertRunJob(e)

EnqueueRun(e) ==
    \/ UniqueRunJob(e) /\ UNCHANGED <<jstate, jattempt>>
    \/ ~UniqueRunJob(e) /\ InsertRunJob(e)

EnqueueCallback(e) ==
    \/ /\ e \notin WithCallback \/ UniqueCallbackJob(e)
       /\ UNCHANGED <<cstate, cattempt>>
    \/ e \in WithCallback /\ ~UniqueCallbackJob(e) /\ InsertCallbackJob(e)

-----------------------------------------------------------------------------
(***************************************************************************)
(* The API.                                                                *)
(***************************************************************************)

\* CreateAsyncDecisionExecution: the row, its job and its "queued" event in
\* one transaction.  A request whose key already has a row gets that row, no
\* second job, and writes one more "queued" event for it.
CreateNew(e) ==
    /\ status[e] = "absent"
    /\ \A f \in Executions : KeyOf[f] = KeyOf[e] => status[f] = "absent"
    /\ status' = [status EXCEPT ![e] = "queued"]
    /\ events' = [events EXCEPT ![e] = @ \cup {"queued"}]
    /\ EnqueueRun(e)
    /\ UNCHANGED <<attempts, result, callback, cbAttempts, pc, item, outcome, cbVars, opVars>>

CreateExisting(f) ==
    /\ status[f] # "absent"
    /\ events' = [events EXCEPT ![f] = @ \cup {"queued"}]
    /\ UNCHANGED <<status, attempts, result, callback, cbAttempts, runVars, cbVars, opVars>>

\* RetryAsyncDecisionExecution reads the row outside any transaction ...
RetryCheck(o, e) ==
    /\ retrying[o] = NoOne
    /\ retries < MaxRetries
    /\ status[e] = "failed"
    /\ retrying' = [retrying EXCEPT ![o] = e]
    /\ retries' = retries + 1
    /\ UNCHANGED <<rowVars, runVars, cbVars>>

\* ... and resets it, whatever its status has become, with its job.
ResetForRetry(e) ==
    /\ status' = [status EXCEPT ![e] = "queued"]
    /\ attempts' = [attempts EXCEPT ![e] = 0]
    /\ result' = [result EXCEPT ![e] = "null"]
    /\ callback' = [callback EXCEPT ![e] = "null"]
    /\ cbAttempts' = [cbAttempts EXCEPT ![e] = 0]

RetryReset(o) ==
    LET e == retrying[o] IN
    /\ e # NoOne
    /\ ResetForRetry(e)
    /\ EnqueueRun(e)
    /\ retrying' = [retrying EXCEPT ![o] = NoOne]
    /\ UNCHANGED <<events, pc, item, outcome, cbVars, retries>>

RetryRolledBack(o) ==
    /\ retrying[o] # NoOne
    /\ retrying' = [retrying EXCEPT ![o] = NoOne]
    /\ UNCHANGED <<rowVars, runVars, cbVars, retries>>

-----------------------------------------------------------------------------
(***************************************************************************)
(* The run job.                                                            *)
(***************************************************************************)

\* A worker that snoozes its job on an error: the attempt is not counted.
WorkSnoozing(j) ==
    /\ jstate[j] \in ReadyStates
    /\ jstate' = [jstate EXCEPT ![j] = "running"]
    /\ pc' = [pc EXCEPT ![j] = "start"]
    /\ UNCHANGED <<rowVars, jattempt, item, outcome, cbVars, opVars>>

\* River hands the job to a worker.
Work(j) ==
    /\ jstate[j] \in ReadyStates
    /\ jstate' = [jstate EXCEPT ![j] = "running"]
    /\ jattempt' = [jattempt EXCEPT ![j] = @ + 1]
    /\ pc' = [pc EXCEPT ![j] = "start"]
    /\ UNCHANGED <<rowVars, item, outcome, cbVars, opVars>>

\* Moves the worker of job j without touching anything else.
Goto(j, l) == pc' = [pc EXCEPT ![j] = l]

\* StartAttempt claims a queued row; any other row is pgx.ErrNoRows.
StartAttempt(j) ==
    LET e == ExecOf[j] IN
    /\ pc[j] = "start"
    /\ status[e] = "queued"
    /\ status' = [status EXCEPT ![e] = "running"]
    /\ attempts' = [attempts EXCEPT ![e] = @ + 1]
    /\ item' = [item EXCEPT ![j] = attempts[e] + 1]
    /\ Goto(j, "eval")
    /\ UNCHANGED <<result, callback, cbAttempts, events, jstate, jattempt, outcome, cbVars, opVars>>

StartAttemptRefused(j) ==
    /\ pc[j] = "start"
    /\ status[ExecOf[j]] # "queued"
    /\ Goto(j, "err")
    /\ UNCHANGED <<rowVars, jstate, jattempt, item, outcome, cbVars, opVars>>

\* A statement of the worker fails: the worker returns the error.  The
\* validation path first tries to give the row back (see Requeue).
StatementFails(j) ==
    /\ pc[j] \in {"start", "eval", "requeue", "callback", "event"}
    /\ Goto(j, "err")
    /\ UNCHANGED <<rowVars, jstate, jattempt, item, outcome, cbVars, opVars>>

PendingCallback(e) == IF e \in WithCallback THEN "pending" ELSE "null"

\* The evaluation succeeded: MarkCompleted, unconditional on the row's status.
MarkCompleted(j) ==
    LET e == ExecOf[j] IN
    /\ pc[j] = "eval"
    /\ status' = [status EXCEPT ![e] = "completed"]
    /\ result' = [result EXCEPT ![e] = "decision"]
    /\ callback' = [callback EXCEPT ![e] = PendingCallback(e)]
    /\ outcome' = [outcome EXCEPT ![j] = "completed"]
    /\ Goto(j, "callback")
    /\ UNCHANGED <<attempts, cbAttempts, events, jstate, jattempt, item, cbVars, opVars>>

\* The evaluation failed on the last attempt: RecordAttemptFailure(failed).
RecordFinalFailure(j) ==
    LET e == ExecOf[j] IN
    /\ pc[j] = "eval"
    /\ item[j] >= MaxAttempts
    /\ status' = [status EXCEPT ![e] = "failed"]
    /\ outcome' = [outcome EXCEPT ![j] = "failed"]
    /\ Goto(j, "callback")
    /\ UNCHANGED <<attempts, result, callback, cbAttempts, events, jstate, jattempt, item, cbVars, opVars>>

\* It failed earlier: back to queued, a new job and an event, in one
\* transaction that runs inside the job being retried.
RecordRetry(j) ==
    LET e == ExecOf[j] IN
    /\ pc[j] = "eval"
    /\ item[j] < MaxAttempts
    /\ status' = [status EXCEPT ![e] = "queued"]
    /\ events' = [events EXCEPT ![e] = @ \cup {"retry_scheduled"}]
    /\ EnqueueRun(e)
    /\ Goto(j, "ok")
    /\ UNCHANGED <<attempts, result, callback, cbAttempts, item, outcome, cbVars, opVars>>

\* The worker enqueues the callback of the terminal row in its own statement,
EnqueueAsyncExecutionCallback(j) ==
    /\ pc[j] = "callback"
    /\ EnqueueCallback(ExecOf[j])
    /\ Goto(j, "event")
    /\ UNCHANGED <<rowVars, jstate, jattempt, item, outcome, cpc, citem, opVars>>

\* and writes the lifecycle event in another.
WriteLifecycleEvent(j) ==
    /\ pc[j] = "event"
    /\ events' = [events EXCEPT ![ExecOf[j]] = @ \cup {outcome[j]}]
    /\ Goto(j, "ok")
    /\ UNCHANGED <<status, attempts, result, callback, cbAttempts, jstate, jattempt, item, outcome, cbVars, opVars>>

\* The input was invalid: failAsyncValidation writes the terminal row, the
\* evidence, the callback job and the event in one transaction.  Its commit
\* may succeed without the worker learning of it (l = "requeue").
FailValidation(j, l) ==
    LET e == ExecOf[j] IN
    /\ pc[j] = "eval"
    /\ status[e] = "running"
    /\ status' = [status EXCEPT ![e] = "failed"]
    /\ result' = [result EXCEPT ![e] = "evidence"]
    /\ callback' = [callback EXCEPT ![e] = PendingCallback(e)]
    /\ events' = [events EXCEPT ![e] = @ \cup {"failed"}]
    /\ EnqueueCallback(e)
    /\ Goto(j, l)
    /\ UNCHANGED <<attempts, cbAttempts, jstate, jattempt, item, outcome, cpc, citem, opVars>>

\* The transaction rolled back: a failed statement, or a row that is no longer
\* running ("async validation failure state conflict").
FailValidationRolledBack(j) ==
    /\ pc[j] = "eval"
    /\ Goto(j, "requeue")
    /\ UNCHANGED <<rowVars, jstate, jattempt, item, outcome, cbVars, opVars>>

\* RequeueValidationPersistenceFailure without its test of the status.
RequeueAnyStatus(j) ==
    LET e == ExecOf[j] IN
    /\ pc[j] = "requeue"
    /\ status' = [status EXCEPT ![e] = "queued"]
    /\ Goto(j, "err")
    /\ UNCHANGED <<attempts, result, callback, cbAttempts, events, jstate, jattempt, item, outcome, cbVars, opVars>>

\* RequeueValidationPersistenceFailure gives a row that is still running, and
\* has no evidence, back to the queue; the worker returns the error.
Requeue(j) ==
    LET e == ExecOf[j] IN
    /\ pc[j] = "requeue"
    /\ status' = [status EXCEPT ![e] =
                    IF @ = "running" /\ result[e] = "null" THEN "queued" ELSE @]
    /\ Goto(j, "err")
    /\ UNCHANGED <<attempts, result, callback, cbAttempts, events, jstate, jattempt, item, outcome, cbVars, opVars>>

\* The worker is gone and its local variables with it.
Forget(j) ==
    /\ pc' = [pc EXCEPT ![j] = "idle"]
    /\ item' = [item EXCEPT ![j] = 0]
    /\ outcome' = [outcome EXCEPT ![j] = "queued"]

\* River records what the worker returned.
JobReturned(j) ==
    /\ pc[j] \in {"ok", "err"}
    /\ jstate' = [jstate EXCEPT ![j] =
                    IF pc[j] = "ok" THEN "completed" ELSE AfterFailure(jattempt[j], MaxAttempts)]
    /\ Forget(j)
    /\ UNCHANGED <<rowVars, jattempt, cbVars, opVars>>

\* The process dies; the job stays running until River's rescuer finds it.
Crash(j) ==
    /\ pc[j] \notin {"idle", "dead"}
    /\ Goto(j, "dead")
    /\ UNCHANGED <<rowVars, jstate, jattempt, item, outcome, cbVars, opVars>>

Rescue(j) ==
    /\ pc[j] = "dead"
    /\ jstate' = [jstate EXCEPT ![j] = AfterFailure(jattempt[j], MaxAttempts)]
    /\ Forget(j)
    /\ UNCHANGED <<rowVars, jattempt, cbVars, opVars>>

\* The job cleaner removes a finished job after its retention period.
CleanJob(j) ==
    /\ jstate[j] \in {"completed", "discarded"}
    /\ jstate' = [jstate EXCEPT ![j] = "none"]
    /\ jattempt' = [jattempt EXCEPT ![j] = 0]
    /\ UNCHANGED <<rowVars, pc, item, outcome, cbVars, opVars>>

-----------------------------------------------------------------------------
(***************************************************************************)
(* The callback job.                                                       *)
(***************************************************************************)
CallbackGoto(j, l) == cpc' = [cpc EXCEPT ![j] = l]

CallbackWork(j) ==
    /\ cstate[j] \in ReadyStates
    /\ cstate' = [cstate EXCEPT ![j] = "running"]
    /\ cattempt' = [cattempt EXCEPT ![j] = @ + 1]
    /\ CallbackGoto(j, "read")
    /\ UNCHANGED <<rowVars, runVars, citem, opVars>>

\* DeliverAsyncExecutionCallback that posts whatever callback_status says.
DeliverAlways(j) ==
    LET e == ExecOf[j] IN
    /\ cpc[j] = "read"
    /\ citem' = [citem EXCEPT ![j] = cbAttempts[e]]
    /\ CallbackGoto(j, "post")
    /\ UNCHANGED <<rowVars, runVars, cstate, cattempt, opVars>>

\* DeliverAsyncExecutionCallback reads the row and skips one already told.
DeliverAsyncExecutionCallback(j) ==
    LET e == ExecOf[j] IN
    /\ cpc[j] = "read"
    /\ citem' = [citem EXCEPT ![j] = cbAttempts[e]]
    /\ CallbackGoto(j, IF callback[e] = "sent" THEN "ok" ELSE "post")
    /\ UNCHANGED <<rowVars, runVars, cstate, cattempt, opVars>>

\* The POST: a 2xx answer, or another answer, an error or a timeout.
Post(j, answer) ==
    /\ cpc[j] = "post"
    /\ CallbackGoto(j, answer)
    /\ UNCHANGED <<rowVars, runVars, cstate, cattempt, citem, opVars>>

\* UpdateCallbackDelivery records the answer and the worker returns nil, for
\* a failed delivery too.
UpdateCallbackDelivery(j) ==
    LET e == ExecOf[j] IN
    /\ cpc[j] \in {"sent", "failed"}
    /\ callback' = [callback EXCEPT ![e] = cpc[j]]
    /\ cbAttempts' = [cbAttempts EXCEPT ![e] = citem[j] + 1]
    /\ CallbackGoto(j, "ok")
    /\ UNCHANGED <<status, attempts, result, events, runVars, cstate, cattempt, citem, opVars>>

CallbackStatementFails(j) ==
    /\ cpc[j] \in {"read", "sent", "failed"}
    /\ CallbackGoto(j, "err")
    /\ UNCHANGED <<rowVars, runVars, cstate, cattempt, citem, opVars>>

CallbackForget(j) ==
    /\ cpc' = [cpc EXCEPT ![j] = "idle"]
    /\ citem' = [citem EXCEPT ![j] = 0]

CallbackReturned(j) ==
    /\ cpc[j] \in {"ok", "err"}
    /\ cstate' = [cstate EXCEPT ![j] =
                    IF cpc[j] = "ok" THEN "completed"
                    ELSE AfterFailure(cattempt[j], CallbackMaxAttempts)]
    /\ CallbackForget(j)
    /\ UNCHANGED <<rowVars, runVars, cattempt, opVars>>

CallbackCrash(j) ==
    /\ cpc[j] \notin {"idle", "dead"}
    /\ CallbackGoto(j, "dead")
    /\ UNCHANGED <<rowVars, runVars, cstate, cattempt, citem, opVars>>

CallbackRescue(j) ==
    /\ cpc[j] = "dead"
    /\ cstate' = [cstate EXCEPT ![j] = AfterFailure(cattempt[j], CallbackMaxAttempts)]
    /\ CallbackForget(j)
    /\ UNCHANGED <<rowVars, runVars, cattempt, opVars>>

CleanCallbackJob(j) ==
    /\ cstate[j] \in {"completed", "discarded"}
    /\ cstate' = [cstate EXCEPT ![j] = "none"]
    /\ cattempt' = [cattempt EXCEPT ![j] = 0]
    /\ UNCHANGED <<rowVars, runVars, cpc, citem, opVars>>

-----------------------------------------------------------------------------
RequestStep ==
    \/ \E e \in Executions : CreateNew(e) \/ CreateExisting(e)
    \/ \E o \in Operators, e \in Executions : RetryCheck(o, e)
    \/ \E o \in Operators : RetryReset(o) \/ RetryRolledBack(o)

\* What the worker of job j does once River has given it the job.
WorkerStep(j) ==
    \/ StartAttempt(j) \/ StartAttemptRefused(j)
    \/ MarkCompleted(j) \/ RecordFinalFailure(j) \/ RecordRetry(j)
    \/ EnqueueAsyncExecutionCallback(j) \/ WriteLifecycleEvent(j)
    \/ FailValidation(j, "ok") \/ FailValidation(j, "requeue")
    \/ FailValidationRolledBack(j) \/ Requeue(j)
    \/ StatementFails(j)

CallbackStep(j) ==
    \/ DeliverAsyncExecutionCallback(j)
    \/ Post(j, "sent") \/ Post(j, "failed")
    \/ UpdateCallbackDelivery(j) \/ CallbackStatementFails(j)

\* What River itself does with the jobs.
RiverStep(j) ==
    \/ Work(j) \/ JobReturned(j) \/ Rescue(j)
    \/ CallbackWork(j) \/ CallbackReturned(j) \/ CallbackRescue(j)

Next ==
    \/ RequestStep
    \/ \E j \in Jobs :
        \/ WorkerStep(j) \/ CallbackStep(j) \/ RiverStep(j)
        \/ Crash(j) \/ CallbackCrash(j) \/ CleanJob(j) \/ CleanCallbackJob(j)

Spec == Init /\ [][Next]_vars

\* Workers that live go on, and River serves, completes and rescues its jobs.
\* Nothing makes clients ask, processes crash or the cleaner run.
Fairness ==
    \A j \in Jobs : WF_vars(WorkerStep(j)) /\ WF_vars(CallbackStep(j)) /\ WF_vars(RiverStep(j))

FairSpec == Spec /\ Fairness

-----------------------------------------------------------------------------
(***************************************************************************)
(* Properties.                                                             *)
(***************************************************************************)

\* Every variable has its type.
TypeOK ==
    /\ status \in [Executions -> RowStatuses]
    /\ attempts \in [Executions -> Nat]
    /\ result \in [Executions -> {"null", "decision", "evidence"}]
    /\ callback \in [Executions -> {"null", "pending", "sent", "failed"}]
    /\ cbAttempts \in [Executions -> Nat]
    /\ events \in [Executions -> SUBSET EventTypes]
    /\ jstate \in [Jobs -> JobStates]
    /\ jattempt \in [Jobs -> Nat]
    /\ pc \in [Jobs -> PCs]
    /\ item \in [Jobs -> Nat]
    /\ outcome \in [Jobs -> EventTypes]
    /\ cstate \in [Jobs -> JobStates]
    /\ cattempt \in [Jobs -> Nat]
    /\ cpc \in [Jobs -> CallbackPCs]
    /\ citem \in [Jobs -> Nat]
    /\ retrying \in [Operators -> Executions \cup {NoOne}]
    /\ retries \in 0..MaxRetries

\* The attempts of an execution never exceed the configured maximum, although
\* validation recovery puts a row back in the queue without looking at its
\* attempt count: what bounds it is that the row has only one job at a time and
\* that the job's own attempts are bounded.
AttemptsBounded == \A e \in Executions : attempts[e] <= MaxAttempts

\* A worker that has claimed the row and has not yet made its terminal write.
Running(j) == pc[j] \in {"eval", "requeue"}

\* No two workers evaluate the same execution at the same time, even when
\* operators reset the row under a running worker.
SingleRunner ==
    \A j, k \in Jobs : ExecOf[j] = ExecOf[k] /\ Running(j) /\ Running(k) => j = k

\* The stored result agrees with the status: only a completed row holds a
\* decision, it always does, and validation evidence is found only on a row
\* that failed; no late worker or reset leaves one without the other.
ResultMatchesStatus ==
    \A e \in Executions :
        /\ status[e] = "completed" <=> result[e] = "decision"
        /\ result[e] = "evidence" => status[e] = "failed"

\* A terminal row changes its status only by a manual reset: no worker, late
\* or rescued, and no recovery of a lost commit takes a result back.
TerminalUntilReset ==
    [][\A e \in Executions :
         status[e] \in Terminal /\ status'[e] # status[e]
         => status'[e] = "queued" /\ attempts'[e] = 0 /\ \E o \in Operators : retrying[o] = e]_vars

\* Why the properties above hold, as an inductive invariant.  River's uniqueness
\* gives an execution one job that may still act; a job has a worker exactly
\* while it is running; the row's attempts are paid for by that job's attempts;
\* and a worker that is about to write finds the row running or reset.
UniqueJob ==
    \A j, k \in Jobs :
        ExecOf[j] = ExecOf[k] /\ jstate[j] \in UniqueStates /\ jstate[k] \in UniqueStates => j = k

WorkerIffRunning == \A j \in Jobs : pc[j] # "idle" <=> jstate[j] = "running"

JobAttemptsBounded ==
    \A j \in Jobs :
        /\ jattempt[j] <= MaxAttempts
        /\ jstate[j] \in ReadyStates => jattempt[j] < MaxAttempts
        /\ jstate[j] = "running" => jattempt[j] >= 1

AttemptsPaidFor ==
    \A j \in Jobs :
        /\ jstate[j] \in ReadyStates \cup {"running"} => attempts[ExecOf[j]] <= jattempt[j]
        /\ pc[j] = "start" => attempts[ExecOf[j]] < jattempt[j]

AbsentIsFresh == \A e \in Executions : status[e] = "absent" => attempts[e] = 0

EvalOfOpenRow == \A j \in Jobs : pc[j] = "eval" => status[ExecOf[j]] \in {"queued", "running"}

SafetyInv ==
    /\ AttemptsBounded
    /\ UniqueJob
    /\ WorkerIffRunning
    /\ JobAttemptsBounded
    /\ AttemptsPaidFor
    /\ AbsentIsFresh
    /\ EvalOfOpenRow
    /\ ResultMatchesStatus

\* A receiver that acknowledged the callback of a result is not sent it again,
\* although a crash after the acknowledgement makes River repeat the job.
NotToldTwice ==
    [][\A j \in Jobs : cpc[j] = "post" /\ cpc'[j] \in {"sent", "failed"}
         => callback[ExecOf[j]] # "sent"]_vars

\* Why: an execution has one callback job that may act, which has a worker
\* exactly while it runs, and a worker about to post has read the row since the
\* last acknowledgement was written.
CallbackInv ==
    /\ \A j, k \in Jobs :
        ExecOf[j] = ExecOf[k] /\ cstate[j] \in UniqueStates /\ cstate[k] \in UniqueStates => j = k
    /\ \A j \in Jobs : cpc[j] # "idle" <=> cstate[j] = "running"
    /\ \A j \in Jobs : cpc[j] = "post" => callback[ExecOf[j]] # "sent"

\* No run or callback job waits or runs.
JobsSettled ==
    \A j \in Jobs : jstate[j] \notin ReadyStates \cup {"running"} /\ cstate[j] \notin ReadyStates \cup {"running"}

\* An execution that was given back for another attempt is attempted again.
AutomaticRetryHappens ==
    \A e \in Executions :
        status[e] = "queued" /\ attempts[e] > 0 /\ "retry_scheduled" \in events[e]
            ~> status[e] # "queued"

=============================================================================
