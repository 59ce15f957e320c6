------------------------- MODULE ExecutionsProofs -------------------------
(***************************************************************************)
(* Proofs about the background work of MCExecutions: AsyncExecution, and   *)
(* its instances of ScheduledExecutions and IngestJobs.  The constants of  *)
(* that module are parameters here: the theorems hold for any number of    *)
(* executions, operators, objects, rows and jobs, and any limits.          *)
(***************************************************************************)
EXTENDS MCExecutions, TLAPS

\* What an enqueue of a run job (enqueuer.go, UniqueOpts) may do to the jobs.
LEMMA EnqueueRunEffect ==
    ASSUME TypeOK, NEW e \in Executions, EnqueueRun(e)
    PROVE  /\ jstate' \in [Jobs -> JobStates]
           /\ jattempt' \in [Jobs -> Nat]
           /\ \A j \in Jobs :
                \/ jstate'[j] = jstate[j] /\ jattempt'[j] = jattempt[j]
                \/ /\ ExecOf[j] = e /\ ~UniqueRunJob(e)
                   /\ jstate'[j] = "available" /\ jattempt'[j] = 0
           /\ \A j, k \in Jobs : jstate'[j] # jstate[j] /\ jstate'[k] # jstate[k] => j = k
  <1>1. CASE UniqueRunJob(e) /\ UNCHANGED <<jstate, jattempt>>
    BY <1>1 DEF TypeOK
  <1>2. CASE ~UniqueRunJob(e) /\ InsertRunJob(e)
    BY <1>2 DEF TypeOK, InsertRunJob, JobStates
  <1> QED BY <1>1, <1>2 DEF EnqueueRun

\* What an enqueue of a callback job does to the callback jobs' types.
LEMMA EnqueueCallbackType ==
    ASSUME TypeOK, NEW e \in Executions, EnqueueCallback(e)
    PROVE  cstate' \in [Jobs -> JobStates] /\ cattempt' \in [Jobs -> Nat]
  BY DEF TypeOK, EnqueueCallback, InsertCallbackJob, JobStates

LEMMA AfterFailureType ==
    ASSUME NEW a \in Nat, NEW n \in Nat
    PROVE  AfterFailure(a, n) \in JobStates
  BY DEF AfterFailure, JobStates

\* Every step of the API handlers, the workers and River keeps the types.
LEMMA TypeStep == ASSUME TypeOK, [Next]_vars PROVE TypeOK'
  <1> USE ConstantsAssumption
  <1>1. CASE RequestStep
    <2>1. ASSUME NEW e \in Executions, CreateNew(e) PROVE TypeOK'
      BY <2>1, EnqueueRunEffect DEF TypeOK, CreateNew, cbVars, opVars, RowStatuses, EventTypes
    <2>2. ASSUME NEW e \in Executions, CreateExisting(e) PROVE TypeOK'
      BY <2>2 DEF TypeOK, CreateExisting, runVars, cbVars, opVars, EventTypes
    <2>3. ASSUME NEW o \in Operators, NEW e \in Executions, RetryCheck(o, e) PROVE TypeOK'
      BY <2>3 DEF TypeOK, RetryCheck, rowVars, runVars, cbVars
    <2>4. ASSUME NEW o \in Operators, RetryReset(o) PROVE TypeOK'
      <3>1. retrying[o] \in Executions
        BY <2>4 DEF TypeOK, RetryReset
      <3> QED BY <2>4, <3>1, EnqueueRunEffect DEF TypeOK, RetryReset, ResetForRetry, cbVars, RowStatuses
    <2>5. ASSUME NEW o \in Operators, RetryRolledBack(o) PROVE TypeOK'
      BY <2>5 DEF TypeOK, RetryRolledBack, rowVars, runVars, cbVars
    <2> QED BY <1>1, <2>1, <2>2, <2>3, <2>4, <2>5 DEF RequestStep
  <1>2. ASSUME NEW j \in Jobs, WorkerStep(j) PROVE TypeOK'
    <2> USE DEF TypeOK, Goto, rowVars, cbVars, opVars, PCs, RowStatuses, EventTypes
    <2>1. CASE StartAttempt(j) BY <2>1 DEF StartAttempt
    <2>2. CASE StartAttemptRefused(j) BY <2>2 DEF StartAttemptRefused
    <2>3. CASE MarkCompleted(j) BY <2>3 DEF MarkCompleted, PendingCallback
    <2>4. CASE RecordFinalFailure(j) BY <2>4 DEF RecordFinalFailure
    <2>5. CASE RecordRetry(j) BY <2>5, EnqueueRunEffect DEF RecordRetry
    <2>6. CASE EnqueueAsyncExecutionCallback(j)
      BY <2>6, EnqueueCallbackType DEF EnqueueAsyncExecutionCallback
    <2>7. CASE WriteLifecycleEvent(j) BY <2>7 DEF WriteLifecycleEvent
    <2>8. ASSUME NEW l \in {"ok", "requeue"}, FailValidation(j, l) PROVE TypeOK'
      BY <2>8, EnqueueCallbackType DEF FailValidation, PendingCallback
    <2>9. CASE FailValidationRolledBack(j) BY <2>9 DEF FailValidationRolledBack
    <2>10. CASE Requeue(j) BY <2>10 DEF Requeue
    <2>11. CASE StatementFails(j) BY <2>11 DEF StatementFails
    <2> QED BY <1>2, <2>1, <2>2, <2>3, <2>4, <2>5, <2>6, <2>7, <2>8, <2>9, <2>10, <2>11
            DEF WorkerStep
  <1>3. ASSUME NEW j \in Jobs, CallbackStep(j) PROVE TypeOK'
    <2> USE DEF TypeOK, CallbackGoto, rowVars, runVars, opVars, CallbackPCs
    <2>1. CASE DeliverAsyncExecutionCallback(j) BY <2>1 DEF DeliverAsyncExecutionCallback
    <2>2. ASSUME NEW l \in {"sent", "failed"}, Post(j, l) PROVE TypeOK' BY <2>2 DEF Post
    <2>3. CASE UpdateCallbackDelivery(j) BY <2>3 DEF UpdateCallbackDelivery
    <2>4. CASE CallbackStatementFails(j) BY <2>4 DEF CallbackStatementFails
    <2> QED BY <1>3, <2>1, <2>2, <2>3, <2>4 DEF CallbackStep
  <1>4. ASSUME NEW j \in Jobs, RiverStep(j) PROVE TypeOK'
    <2> USE DEF TypeOK, rowVars, runVars, cbVars, opVars, PCs, CallbackPCs, EventTypes
    <2>1. CASE Work(j) BY <2>1 DEF Work, JobStates
    <2>2. CASE JobReturned(j)
      BY <2>2, AfterFailureType DEF JobReturned, Forget, JobStates
    <2>3. CASE Rescue(j) BY <2>3, AfterFailureType DEF Rescue, Forget
    <2>4. CASE CallbackWork(j) BY <2>4 DEF CallbackWork, CallbackGoto, JobStates
    <2>5. CASE CallbackReturned(j)
      BY <2>5, AfterFailureType DEF CallbackReturned, CallbackForget, JobStates
    <2>6. CASE CallbackRescue(j) BY <2>6, AfterFailureType DEF CallbackRescue, CallbackForget
    <2> QED BY <1>4, <2>1, <2>2, <2>3, <2>4, <2>5, <2>6 DEF RiverStep
  <1>5. ASSUME NEW j \in Jobs, Crash(j) \/ CallbackCrash(j) \/ CleanJob(j) \/ CleanCallbackJob(j)
        PROVE  TypeOK'
    BY <1>5 DEF TypeOK, Crash, CallbackCrash, CleanJob, CleanCallbackJob, Goto, CallbackGoto,
        rowVars, runVars, cbVars, opVars, PCs, CallbackPCs, JobStates
  <1>6. CASE UNCHANGED vars
    BY <1>6 DEF TypeOK, vars, rowVars, runVars, cbVars, opVars
  <1> QED BY <1>1, <1>2, <1>3, <1>4, <1>5, <1>6 DEF Next

\* TypeOK holds in every reachable state of the execution service.
THEOREM TypeCorrect == Spec => []TypeOK
  <1>1. Init => TypeOK
    BY ConstantsAssumption DEF Init, TypeOK, RowStatuses, EventTypes, JobStates, PCs, CallbackPCs
  <1> QED BY <1>1, TypeStep, PTL DEF Spec

-----------------------------------------------------------------------------
\* The variables SafetyInv is about.
coreVars == <<status, attempts, result, jstate, jattempt, pc>>

LEMMA CoreUnchanged == ASSUME SafetyInv, UNCHANGED coreVars PROVE SafetyInv'
  BY DEF SafetyInv, coreVars, AttemptsBounded, UniqueJob, WorkerIffRunning, JobAttemptsBounded,
         AttemptsPaidFor, AbsentIsFresh, EvalOfOpenRow, ResultMatchesStatus

\* Enqueueing keeps an execution's acting job unique and adds a fresh job only.
LEMMA EnqueueKeepsUnique ==
    ASSUME TypeOK, UniqueJob, NEW e \in Executions, EnqueueRun(e)
    PROVE  UniqueJob'
  <1>1. ASSUME NEW j \in Jobs, NEW k \in Jobs, ExecOf[j] = ExecOf[k],
               jstate'[j] \in UniqueStates, jstate'[k] \in UniqueStates
        PROVE  j = k
    <2>1. CASE jstate'[j] = jstate[j] /\ jstate'[k] = jstate[k]
      BY <1>1, <2>1 DEF UniqueJob
    <2>2. CASE jstate'[j] # jstate[j] /\ jstate'[k] # jstate[k]
      BY <1>1, <2>2, EnqueueRunEffect
    <2>3. CASE jstate'[j] # jstate[j] /\ jstate'[k] = jstate[k]
      BY <1>1, <2>3, EnqueueRunEffect DEF UniqueRunJob
    <2>4. CASE jstate'[j] = jstate[j] /\ jstate'[k] # jstate[k]
      BY <1>1, <2>4, EnqueueRunEffect DEF UniqueRunJob
    <2> QED BY <2>1, <2>2, <2>3, <2>4
  <1> QED BY <1>1 DEF UniqueJob

\* The invariant behind the bound on attempts, mutual exclusion and the
\* agreement of result and status is kept by every step.
LEMMA SafetyStep == ASSUME TypeOK, SafetyInv, [Next]_vars PROVE SafetyInv'
  <1> USE ConstantsAssumption
  <1>1. CASE RequestStep
    <2>1. ASSUME NEW e \in Executions, CreateNew(e) PROVE SafetyInv'
      <3>1. UniqueJob' BY <2>1, EnqueueKeepsUnique DEF CreateNew, SafetyInv
      <3>2. AttemptsBounded' /\ AbsentIsFresh' /\ EvalOfOpenRow' /\ ResultMatchesStatus'
        BY <2>1 DEF TypeOK, SafetyInv, CreateNew, AttemptsBounded, AbsentIsFresh, EvalOfOpenRow,
                    ResultMatchesStatus, RowStatuses
      <3>3. WorkerIffRunning' /\ JobAttemptsBounded' /\ AttemptsPaidFor'
        BY <2>1, EnqueueRunEffect
           DEF TypeOK, SafetyInv, CreateNew, WorkerIffRunning, JobAttemptsBounded, AttemptsPaidFor,
               AbsentIsFresh, UniqueRunJob, UniqueStates, ReadyStates
      <3> QED BY <3>1, <3>2, <3>3 DEF SafetyInv
    <2>2. ASSUME NEW e \in Executions, CreateExisting(e) PROVE SafetyInv'
      BY <2>2, CoreUnchanged DEF CreateExisting, coreVars, runVars
    <2>3. ASSUME NEW o \in Operators, NEW e \in Executions, RetryCheck(o, e) PROVE SafetyInv'
      BY <2>3, CoreUnchanged DEF RetryCheck, coreVars, runVars, rowVars
    <2>4. ASSUME NEW o \in Operators, RetryReset(o) PROVE SafetyInv'
      <3> DEFINE e == retrying[o]
      <3>0. e \in Executions /\ EnqueueRun(e) /\ ResetForRetry(e) /\ pc' = pc
        BY <2>4 DEF TypeOK, RetryReset
      <3>1. UniqueJob' BY <3>0, EnqueueKeepsUnique DEF SafetyInv
      <3>2. AttemptsBounded' /\ AbsentIsFresh' /\ EvalOfOpenRow' /\ ResultMatchesStatus'
        BY <3>0 DEF TypeOK, SafetyInv, ResetForRetry, AttemptsBounded, AbsentIsFresh, EvalOfOpenRow,
                    ResultMatchesStatus, RowStatuses
      <3>3. WorkerIffRunning' /\ JobAttemptsBounded' /\ AttemptsPaidFor'
        BY <3>0, EnqueueRunEffect
           DEF TypeOK, SafetyInv, ResetForRetry, WorkerIffRunning, JobAttemptsBounded,
               AttemptsPaidFor, UniqueRunJob, UniqueStates, ReadyStates
      <3> QED BY <3>1, <3>2, <3>3 DEF SafetyInv
    <2>5. ASSUME NEW o \in Operators, RetryRolledBack(o) PROVE SafetyInv'
      BY <2>5, CoreUnchanged DEF RetryRolledBack, coreVars, runVars, rowVars
    <2> QED BY <1>1, <2>1, <2>2, <2>3, <2>4, <2>5 DEF RequestStep
  <1>2. ASSUME NEW j \in Jobs, WorkerStep(j) PROVE SafetyInv'
    <2> DEFINE e == ExecOf[j]
    <2>0. e \in Executions OBVIOUS
    <2>a. UNCHANGED <<jstate, jattempt>>
      \* A re-enqueue from inside the job is absorbed by the job itself.
      <3>1. CASE RecordRetry(j)
        <4>1. jstate[j] = "running"
          BY <3>1 DEF RecordRetry, SafetyInv, WorkerIffRunning
        <4>2. UniqueRunJob(e) BY <4>1 DEF UniqueRunJob, UniqueStates
        <4> QED BY <3>1, <4>2 DEF RecordRetry, EnqueueRun
      <3>2. CASE ~RecordRetry(j)
        BY <1>2, <3>2 DEF WorkerStep, StartAttempt, StartAttemptRefused, MarkCompleted,
           RecordFinalFailure, EnqueueAsyncExecutionCallback, WriteLifecycleEvent, FailValidation,
           FailValidationRolledBack, Requeue, StatementFails
      <3> QED BY <3>1, <3>2
    <2>b. pc[j] \notin {"idle", "dead", "ok", "err"} /\ \E l \in PCs \ {"idle", "start"} : Goto(j, l)
      BY <1>2 DEF WorkerStep, StartAttempt, StartAttemptRefused, MarkCompleted, RecordRetry,
           RecordFinalFailure, EnqueueAsyncExecutionCallback, WriteLifecycleEvent, FailValidation,
           FailValidationRolledBack, Requeue, StatementFails, PCs
    <2>c. UniqueJob' /\ WorkerIffRunning' /\ JobAttemptsBounded'
      BY <2>a, <2>b DEF TypeOK, SafetyInv, UniqueJob, WorkerIffRunning, JobAttemptsBounded, Goto
    <2>d. ASSUME NEW k \in Jobs, ExecOf[k] = e, pc[k] # "idle" PROVE k = j
      BY <2>b, <2>d DEF SafetyInv, UniqueJob, WorkerIffRunning, UniqueStates
    <2>1. CASE StartAttempt(j)
      <3>1. attempts[e] < jattempt[j] /\ jstate[j] = "running"
        BY <2>1 DEF StartAttempt, SafetyInv, AttemptsPaidFor, WorkerIffRunning
      <3>2. \A k \in Jobs : ExecOf[k] = e /\ jstate[k] \in ReadyStates \cup {"running"} => k = j
        BY <3>1 DEF SafetyInv, UniqueJob, UniqueStates, ReadyStates
      <3>3. AttemptsBounded' /\ AttemptsPaidFor'
        BY <2>1, <2>a, <2>d, <3>1, <3>2 DEF TypeOK, SafetyInv, StartAttempt, AttemptsBounded,
           AttemptsPaidFor, JobAttemptsBounded, Goto, ReadyStates
      <3>4. AbsentIsFresh' /\ EvalOfOpenRow' /\ ResultMatchesStatus'
        BY <2>1 DEF TypeOK, SafetyInv, StartAttempt, AbsentIsFresh, EvalOfOpenRow,
           ResultMatchesStatus, Goto
      <3> QED BY <2>c, <3>3, <3>4 DEF SafetyInv
    <2>2. CASE ~StartAttempt(j)
      <3>1. attempts' = attempts
        BY <1>2, <2>2 DEF WorkerStep, StartAttemptRefused, MarkCompleted, RecordRetry,
           RecordFinalFailure, EnqueueAsyncExecutionCallback, WriteLifecycleEvent, FailValidation,
           FailValidationRolledBack, Requeue, StatementFails, rowVars
      <3>2. AttemptsBounded' /\ AttemptsPaidFor'
        BY <3>1, <2>a, <2>b DEF TypeOK, SafetyInv, AttemptsBounded, AttemptsPaidFor, Goto, PCs
      <3>3. CASE status' = status /\ result' = result
        <4>1. \A k \in Jobs : pc'[k] = "eval" => pc[k] = "eval"
          BY <1>2, <2>2 DEF TypeOK, WorkerStep, StartAttemptRefused, MarkCompleted, RecordRetry,
           RecordFinalFailure, EnqueueAsyncExecutionCallback, WriteLifecycleEvent, FailValidation,
           FailValidationRolledBack, Requeue, StatementFails, Goto
        <4> QED BY <2>c, <3>1, <3>2, <3>3, <4>1
              DEF SafetyInv, AbsentIsFresh, EvalOfOpenRow, ResultMatchesStatus
      <3>4. CASE pc[j] \in {"eval", "requeue"} /\ pc'[j] # "eval"
        <4>1. EvalOfOpenRow'
          BY <1>2, <2>2, <2>d, <3>4 DEF TypeOK, SafetyInv, EvalOfOpenRow, WorkerStep,
           StartAttemptRefused, MarkCompleted, RecordRetry,
           RecordFinalFailure, EnqueueAsyncExecutionCallback, WriteLifecycleEvent, FailValidation,
           FailValidationRolledBack, Requeue, StatementFails, Goto, rowVars
        <4>2. AbsentIsFresh' /\ ResultMatchesStatus'
          BY <1>2, <2>2, <3>1, <3>4 DEF TypeOK, SafetyInv, EvalOfOpenRow, AbsentIsFresh,
           ResultMatchesStatus, WorkerStep,
           StartAttemptRefused, MarkCompleted, RecordRetry,
           RecordFinalFailure, EnqueueAsyncExecutionCallback, WriteLifecycleEvent, FailValidation,
           FailValidationRolledBack, Requeue, StatementFails, Goto, rowVars
        <4> QED BY <2>c, <3>2, <4>1, <4>2 DEF SafetyInv
      <3> QED BY <1>2, <2>2, <3>3, <3>4 DEF TypeOK, WorkerStep, StartAttemptRefused, MarkCompleted,
           RecordRetry, RecordFinalFailure, EnqueueAsyncExecutionCallback, WriteLifecycleEvent,
           FailValidation, FailValidationRolledBack, Requeue, StatementFails, Goto, rowVars
    <2> QED BY <2>1, <2>2
  <1>3. ASSUME NEW j \in Jobs, CallbackStep(j) PROVE SafetyInv'
    BY <1>3, CoreUnchanged DEF CallbackStep, DeliverAsyncExecutionCallback, Post,
       UpdateCallbackDelivery, CallbackStatementFails, coreVars, rowVars, runVars
  <1>4. ASSUME NEW j \in Jobs, RiverStep(j) PROVE SafetyInv'
    <2> USE DEF TypeOK, SafetyInv, AttemptsBounded, UniqueJob, WorkerIffRunning, JobAttemptsBounded,
         AttemptsPaidFor, AbsentIsFresh, EvalOfOpenRow, ResultMatchesStatus,
         UniqueStates, ReadyStates, rowVars
    <2>1. CASE Work(j) BY <2>1 DEF Work
    <2>2. CASE JobReturned(j) BY <2>2 DEF JobReturned, Forget, AfterFailure
    <2>3. CASE Rescue(j) BY <2>3 DEF Rescue, Forget, AfterFailure
    <2>4. CASE CallbackWork(j) \/ CallbackReturned(j) \/ CallbackRescue(j)
      BY <2>4, CoreUnchanged DEF CallbackWork, CallbackReturned, CallbackRescue, coreVars, runVars
    <2> QED BY <1>4, <2>1, <2>2, <2>3, <2>4 DEF RiverStep
  <1>5. ASSUME NEW j \in Jobs, Crash(j) \/ CleanJob(j) PROVE SafetyInv'
    BY <1>5 DEF TypeOK, SafetyInv, AttemptsBounded, UniqueJob, WorkerIffRunning, JobAttemptsBounded,
         AttemptsPaidFor, AbsentIsFresh, EvalOfOpenRow, ResultMatchesStatus,
         UniqueStates, ReadyStates, rowVars, Crash, CleanJob, Goto
  <1>6. ASSUME NEW j \in Jobs, CallbackCrash(j) \/ CleanCallbackJob(j) PROVE SafetyInv'
    BY <1>6, CoreUnchanged DEF CallbackCrash, CleanCallbackJob, coreVars, rowVars, runVars
  <1>7. CASE UNCHANGED vars
    BY <1>7, CoreUnchanged DEF vars, coreVars, rowVars, runVars
  <1> QED BY <1>1, <1>2, <1>3, <1>4, <1>5, <1>6, <1>7 DEF Next

\* The types and the inductive invariant hold in every reachable state.
THEOREM SafetyInvariant == Spec => [](TypeOK /\ SafetyInv)
  <1>1. Init => TypeOK /\ SafetyInv
    BY ConstantsAssumption
       DEF Init, TypeOK, RowStatuses, EventTypes, JobStates, PCs, CallbackPCs,
           SafetyInv, AttemptsBounded, UniqueJob, WorkerIffRunning, JobAttemptsBounded,
           AttemptsPaidFor, AbsentIsFresh, EvalOfOpenRow, ResultMatchesStatus, UniqueStates, ReadyStates
  <1>2. TypeOK /\ SafetyInv /\ [Next]_vars => (TypeOK /\ SafetyInv)'
    BY TypeStep, SafetyStep
  <1> QED BY <1>1, <1>2, PTL DEF Spec

\* The attempts of an execution stay within ASYNC_EXECUTION_MAX_ATTEMPTS, whatever
\* StartAttempt, validation recovery, crashes and manual retries do.
THEOREM AttemptsStayBounded == Spec => []AttemptsBounded
  <1>1. SafetyInv => AttemptsBounded BY DEF SafetyInv
  <1> QED BY <1>1, SafetyInvariant, PTL

\* No two workers are inside runAsyncExecution for one execution.
THEOREM AtMostOneRunner == Spec => []SingleRunner
  <1>1. SafetyInv => SingleRunner
    BY DEF SafetyInv, SingleRunner, Running, UniqueJob, WorkerIffRunning, UniqueStates
  <1> QED BY <1>1, SafetyInvariant, PTL

\* result_body and status of a row agree in every reachable state.
THEOREM ResultAgrees == Spec => []ResultMatchesStatus
  <1>1. SafetyInv => ResultMatchesStatus BY DEF SafetyInv
  <1> QED BY <1>1, SafetyInvariant, PTL

\* A completed or failed row leaves its status only through ResetForRetry.
THEOREM TerminalRowsStay == Spec => TerminalUntilReset
  <1> DEFINE A == \A e \in Executions :
         status[e] \in Terminal /\ status'[e] # status[e]
         => status'[e] = "queued" /\ attempts'[e] = 0 /\ \E o \in Operators : retrying[o] = e
  <1>1. ASSUME TypeOK, SafetyInv, [Next]_vars PROVE [A]_vars
    <2> SUFFICES ASSUME NEW e \in Executions, status[e] \in Terminal, status'[e] # status[e]
                 PROVE  status'[e] = "queued" /\ attempts'[e] = 0
                        /\ \E o \in Operators : retrying[o] = e
      OBVIOUS
    <2> USE <1>1, ConstantsAssumption DEF Terminal, TypeOK
    <2>1. CASE RequestStep
      <3>1. ASSUME NEW o \in Operators, RetryReset(o)
            PROVE  status'[e] = "queued" /\ attempts'[e] = 0 /\ retrying[o] = e
        BY <3>1 DEF RetryReset, ResetForRetry
      <3>2. ASSUME NEW f \in Executions, CreateNew(f) PROVE FALSE
        BY <3>2 DEF CreateNew
      <3>3. CASE status' = status
        BY <3>3
      <3> QED BY <2>1, <3>1, <3>2, <3>3 DEF RequestStep, CreateExisting, RetryCheck,
                  RetryRolledBack, rowVars
    <2>2. ASSUME NEW j \in Jobs, WorkerStep(j) PROVE FALSE
      <3>1. CASE pc[j] = "eval"
        \* The row is not terminal yet, and no other row is written.
        <4>1. status[ExecOf[j]] \notin Terminal
          BY <3>1 DEF SafetyInv, EvalOfOpenRow
        <4>2. status' = status \/ \E v : status' = [status EXCEPT ![ExecOf[j]] = v]
          BY <2>2, <3>1 DEF WorkerStep, StartAttempt, StartAttemptRefused,
             MarkCompleted, RecordRetry, RecordFinalFailure, EnqueueAsyncExecutionCallback,
             WriteLifecycleEvent, FailValidation, FailValidationRolledBack, Requeue, StatementFails, rowVars
        <4> QED BY <4>1, <4>2
      <3>2. CASE pc[j] # "eval"
        BY <2>2, <3>2 DEF WorkerStep, StartAttempt, StartAttemptRefused,
           MarkCompleted, RecordRetry, RecordFinalFailure, EnqueueAsyncExecutionCallback,
           WriteLifecycleEvent, FailValidation, FailValidationRolledBack, Requeue, StatementFails, rowVars
      <3> QED BY <3>1, <3>2
    <2>3. ASSUME NEW j \in Jobs, CallbackStep(j) \/ RiverStep(j) \/ Crash(j) \/ CallbackCrash(j)
                                 \/ CleanJob(j) \/ CleanCallbackJob(j)
          PROVE  FALSE
      BY <2>3 DEF CallbackStep, DeliverAsyncExecutionCallback, Post, UpdateCallbackDelivery,
           CallbackStatementFails, RiverStep, Work, JobReturned, Rescue, CallbackWork,
           CallbackReturned, CallbackRescue, Crash, CallbackCrash, CleanJob, CleanCallbackJob, rowVars
    <2>4. CASE UNCHANGED vars
      BY <2>4 DEF vars, rowVars
    <2> QED BY <1>1, <2>1, <2>2, <2>3, <2>4 DEF Next
  <1>2. [][A]_vars => TerminalUntilReset BY PTL DEF TerminalUntilReset
  <1> QED BY <1>1, <1>2, SafetyInvariant, PTL DEF Spec
-----------------------------------------------------------------------------
(***************************************************************************)
(* Callbacks: a receiver that acknowledged is not told again.              *)
(***************************************************************************)
\* The variables CallbackInv is about.
callbackVars == <<cstate, cpc, callback>>

LEMMA CallbackUnchanged == ASSUME CallbackInv, UNCHANGED callbackVars PROVE CallbackInv'
  BY DEF CallbackInv, callbackVars

\* What an enqueue of a callback job may do to the jobs.
LEMMA EnqueueCallbackEffect ==
    ASSUME TypeOK, NEW e \in Executions, EnqueueCallback(e)
    PROVE  \A j \in Jobs :
             \/ cstate'[j] = cstate[j]
             \/ /\ ExecOf[j] = e /\ ~UniqueCallbackJob(e) /\ cstate'[j] = "available"
                /\ \A k \in Jobs \ {j} : cstate'[k] = cstate[k]
  BY DEF TypeOK, EnqueueCallback, InsertCallbackJob

LEMMA EnqueueKeepsCallbacks ==
    ASSUME TypeOK, CallbackInv, NEW e \in Executions, EnqueueCallback(e), cpc' = cpc,
           \A f \in Executions : callback'[f] = "sent" => callback[f] = "sent"
    PROVE  CallbackInv'
  <1> USE ConstantsAssumption
  <1>1. \A j, k \in Jobs :
          ExecOf[j] = ExecOf[k] /\ cstate'[j] \in UniqueStates /\ cstate'[k] \in UniqueStates => j = k
    BY EnqueueCallbackEffect DEF CallbackInv, UniqueCallbackJob
  <1>2. \A j \in Jobs : cpc'[j] # "idle" <=> cstate'[j] = "running"
    BY EnqueueCallbackEffect DEF CallbackInv, UniqueCallbackJob, UniqueStates
  <1>3. \A j \in Jobs : cpc'[j] = "post" => callback'[ExecOf[j]] # "sent"
    BY DEF CallbackInv
  <1> QED BY <1>1, <1>2, <1>3 DEF CallbackInv

\* Every step of the worker that runs an execution, of its callback's worker and
\* of River keeps CallbackInv.
LEMMA CallbackKept == ASSUME TypeOK, CallbackInv, [Next]_vars PROVE CallbackInv'
  <1> USE ConstantsAssumption
  <1>1. CASE RequestStep
    <2>1. ASSUME NEW o \in Operators, RetryReset(o) PROVE CallbackInv'
      BY <2>1 DEF TypeOK, RetryReset, ResetForRetry, CallbackInv, cbVars
    <2>2. CASE ~\E o \in Operators : RetryReset(o)
      BY <1>1, <2>2, CallbackUnchanged DEF RequestStep, CreateNew, CreateExisting, RetryCheck,
         RetryRolledBack, callbackVars, cbVars, rowVars
    <2> QED BY <2>1, <2>2
  <1>2. ASSUME NEW j \in Jobs, WorkerStep(j) PROVE CallbackInv'
    <2>1. CASE MarkCompleted(j)
      BY <2>1 DEF TypeOK, MarkCompleted, PendingCallback, CallbackInv, cbVars
    <2>2. CASE EnqueueAsyncExecutionCallback(j)
      BY <2>2, EnqueueKeepsCallbacks DEF EnqueueAsyncExecutionCallback, rowVars
    <2>3. ASSUME NEW l \in {"ok", "requeue"}, FailValidation(j, l) PROVE CallbackInv'
      <3>1. \A f \in Executions : callback'[f] = "sent" => callback[f] = "sent"
        BY <2>3 DEF TypeOK, FailValidation, PendingCallback
      <3> QED BY <2>3, <3>1, EnqueueKeepsCallbacks DEF FailValidation
    <2>4. CASE \/ StartAttempt(j) \/ StartAttemptRefused(j) \/ RecordFinalFailure(j) \/ RecordRetry(j)
               \/ WriteLifecycleEvent(j) \/ FailValidationRolledBack(j) \/ Requeue(j) \/ StatementFails(j)
      BY <2>4, CallbackUnchanged DEF StartAttempt, StartAttemptRefused, RecordFinalFailure, RecordRetry,
         WriteLifecycleEvent, FailValidationRolledBack, Requeue, StatementFails, callbackVars, cbVars, rowVars
    <2> QED BY <1>2, <2>1, <2>2, <2>3, <2>4 DEF WorkerStep
  <1>3. ASSUME NEW j \in Jobs, CallbackStep(j) PROVE CallbackInv'
    <2> USE DEF TypeOK, CallbackInv, CallbackGoto
    <2>1. CASE DeliverAsyncExecutionCallback(j)
      BY <2>1 DEF DeliverAsyncExecutionCallback, rowVars
    <2>2. ASSUME NEW l \in {"sent", "failed"}, Post(j, l) PROVE CallbackInv'
      BY <2>2 DEF Post, rowVars
    <2>3. CASE UpdateCallbackDelivery(j)
      <3>1. \A k \in Jobs : ExecOf[k] = ExecOf[j] /\ cpc[k] # "idle" => k = j
        BY <2>3 DEF UpdateCallbackDelivery, UniqueStates
      <3> QED BY <2>3, <3>1 DEF UpdateCallbackDelivery
    <2>4. CASE CallbackStatementFails(j)
      BY <2>4 DEF CallbackStatementFails, rowVars
    <2> QED BY <1>3, <2>1, <2>2, <2>3, <2>4 DEF CallbackStep
  <1>4. ASSUME NEW j \in Jobs, RiverStep(j) PROVE CallbackInv'
    <2> USE DEF TypeOK, CallbackInv, UniqueStates, ReadyStates, rowVars
    <2>1. CASE Work(j) \/ JobReturned(j) \/ Rescue(j)
      BY <2>1, CallbackUnchanged DEF Work, JobReturned, Rescue, callbackVars, cbVars
    <2>2. CASE CallbackWork(j) BY <2>2 DEF CallbackWork, CallbackGoto
    <2>3. CASE CallbackReturned(j) BY <2>3 DEF CallbackReturned, CallbackForget, AfterFailure
    <2>4. CASE CallbackRescue(j) BY <2>4 DEF CallbackRescue, CallbackForget, AfterFailure
    <2> QED BY <1>4, <2>1, <2>2, <2>3, <2>4 DEF RiverStep
  <1>5. ASSUME NEW j \in Jobs, Crash(j) \/ CleanJob(j) PROVE CallbackInv'
    BY <1>5, CallbackUnchanged DEF Crash, CleanJob, callbackVars, cbVars, rowVars
  <1>6. ASSUME NEW j \in Jobs, CallbackCrash(j) \/ CleanCallbackJob(j) PROVE CallbackInv'
    BY <1>6 DEF TypeOK, CallbackInv, UniqueStates, CallbackCrash, CleanCallbackJob, CallbackGoto, rowVars
  <1>7. CASE UNCHANGED vars
    BY <1>7, CallbackUnchanged DEF vars, callbackVars, rowVars, cbVars
  <1> QED BY <1>1, <1>2, <1>3, <1>4, <1>5, <1>6, <1>7 DEF Next


\* A receiver that acknowledged a callback is not sent it again, although River
\* repeats the job of a worker that died (DeliverAsyncExecutionCallback).
THEOREM ToldOnce == Spec => NotToldTwice
  <1> DEFINE A == \A j \in Jobs : cpc[j] = "post" /\ cpc'[j] \in {"sent", "failed"}
                                => callback[ExecOf[j]] # "sent"
  <1>1. Init => CallbackInv
    BY ConstantsAssumption DEF Init, CallbackInv, UniqueStates
  <1>2. CallbackInv => A
    BY DEF CallbackInv
  <1>3. TypeOK /\ CallbackInv /\ [Next]_vars => CallbackInv'
    BY CallbackKept
  <1>4. [][A]_vars => NotToldTwice BY PTL DEF NotToldTwice
  <1> QED BY <1>1, <1>2, <1>3, <1>4, TypeCorrect, PTL DEF Spec
-----------------------------------------------------------------------------
(***************************************************************************)
(* Scheduled executions: every row is completed whole (ScheduledInv).      *)
(***************************************************************************)

\* The limits are numbers.
Limits == ScheduledMaxAttempts \in Nat \ {0} /\ ObjectCount \in Nat

\* A step leaves the row, decisions, jobs and resets of an execution alone.
Same(x) ==
  exec'[x] = exec[x] /\ decided'[x] = decided[x] /\ job'[x] = job[x] /\ resets'[x] = resets[x]

\* What the invariant says of one execution.
RowInv(x) == Scheduled!OneJob(x) /\ Scheduled!AttemptsCounted(x) /\ Scheduled!RunnerKnows(x)

\* An execution that a step does not touch keeps its part of the invariant.
LEMMA SameKeeps ==
  ASSUME NEW x \in ScheduledIds, RowInv(x), Same(x)
  PROVE  RowInv(x)'
BY DEF RowInv, Same, Scheduled!OneJob, Scheduled!Unique, Scheduled!AttemptsCounted, Scheduled!Budget,
   Scheduled!RunnerKnows, Scheduled!At

\* A river_job row and its worker.
JobType == [state : Scheduled!JobStates, attempt : Nat, item : Nat, at : 0..ObjectCount,
            pc : {"idle", "start", "run", "event", "ok", "err", "dead"}]

\* An enqueue adds a fresh job where nothing acts, or nothing.
LEMMA EnqueueEffect ==
  ASSUME Limits, Scheduled!ScheduledTypes, NEW x \in ScheduledIds, Scheduled!OneJob(x), Scheduled!EnqueueTx(x)
  PROVE  /\ job' \in [ScheduledIds -> [Slots -> JobType]]
         /\ \A y \in ScheduledIds \ {x} : job'[y] = job[y]
         /\ \A s \in Slots : job'[x][s] = job[x][s] \/ (job'[x][s].state = "available" /\ job'[x][s].pc = "idle")
         /\ Scheduled!OneJob(x)'
<1>1. CASE UNCHANGED job
  BY <1>1 DEF Scheduled!ScheduledTypes, JobType, Scheduled!OneJob, Scheduled!Unique
<1>2. CASE (\A s \in Slots : ~Scheduled!Unique(x, s)) /\ \E s \in Slots : job' = [job EXCEPT ![x][s] = [Scheduled!NoJob EXCEPT !.state = "available"]]
  <2>1. PICK s \in Slots : job' = [job EXCEPT ![x][s] = [Scheduled!NoJob EXCEPT !.state = "available"]]
    BY <1>2
  <2> DEFINE new == [Scheduled!NoJob EXCEPT !.state = "available"]
  <2>2. new \in JobType /\ new.state = "available" /\ new.pc = "idle"
    BY DEF Limits, Scheduled!NoJob, JobType, Scheduled!JobStates
  <2> HIDE DEF new
  <2>3. job' \in [ScheduledIds -> [Slots -> JobType]]
    BY <2>1, <2>2 DEF Scheduled!ScheduledTypes, JobType, new
  <2>4. job'[x][s] = new /\ \A t \in Slots \ {s} : job'[x][t] = job[x][t]
    BY <2>1 DEF Scheduled!ScheduledTypes, new
  <2>5. \A y \in ScheduledIds \ {x} : job'[y] = job[y]
    BY <2>1 DEF Scheduled!ScheduledTypes
  <2>6. Scheduled!OneJob(x)'
    <3>1. \A t \in Slots : t # s => ~Scheduled!Unique(x, t)'
      BY <1>2, <2>4 DEF Scheduled!Unique
    <3>2. \A t \in Slots : job'[x][t].state = "running" <=> job'[x][t].pc # "idle"
      BY <2>2, <2>4 DEF Scheduled!OneJob
    <3> QED
      BY <3>1, <3>2 DEF Scheduled!OneJob
  <2> QED
    BY <2>2, <2>3, <2>4, <2>5, <2>6
<1> QED
  BY <1>1, <1>2 DEF Scheduled!EnqueueTx

\* What a row may have decided for its attempts since the last reset.
LEMMA WithinBudget ==
  ASSUME Limits, Scheduled!ScheduledTypes, NEW x \in ScheduledIds, Scheduled!AttemptsCounted(x)
  PROVE  /\ Scheduled!Budget(x) \in Nat
         /\ Scheduled!Budget(x) <= ScheduledMaxAttempts * (1 + resets[x])
         /\ \A i \in Scheduled!Objects : decided[x][i] <= ScheduledMaxAttempts * (1 + resets[x])
<1>1. exec[x].attempts \in Nat /\ resets[x] \in Nat /\ decided[x] \in [Scheduled!Objects -> Nat]
  BY DEF Scheduled!ScheduledTypes
<1>2. ScheduledMaxAttempts * (1 + resets[x]) = ScheduledMaxAttempts * resets[x] + ScheduledMaxAttempts
  BY <1>1 DEF Limits
<1>3. ScheduledMaxAttempts * resets[x] \in Nat
  BY <1>1 DEF Limits
<1>4. Scheduled!Budget(x) \in Nat /\ Scheduled!Budget(x) <= ScheduledMaxAttempts * (1 + resets[x])
  BY <1>1, <1>2, <1>3 DEF Limits, Scheduled!Budget, Scheduled!AttemptsCounted
<1>5. ASSUME NEW i \in Scheduled!Objects PROVE decided[x][i] <= ScheduledMaxAttempts * (1 + resets[x])
  <2> DEFINE b == ScheduledMaxAttempts * (1 + resets[x])
  <2>1. decided[x][i] \in Nat /\ decided[x][i] <= Scheduled!Budget(x) /\ b \in Nat
    BY <1>1, <1>2, <1>3 DEF Scheduled!AttemptsCounted, Limits
  <2> HIDE DEF b
  <2> QED
    BY <1>4, <2>1 DEF b
<1> QED
  BY <1>4, <1>5

\* What the worker of a job, River or the cleaner do to the job itself.
LEMMA JobEffect ==
  ASSUME Limits, Scheduled!ScheduledTypes, NEW x \in ScheduledIds, Scheduled!OneJob(x), NEW s \in Slots, NEW j \in JobType,
         job' = [job EXCEPT ![x][s] = j],
         j.state = "running" <=> j.pc # "idle",
         j.state \in Scheduled!UniqueStates => job[x][s].state \in Scheduled!UniqueStates
  PROVE  /\ job' \in [ScheduledIds -> [Slots -> JobType]]
         /\ \A y \in ScheduledIds \ {x} : job'[y] = job[y]
         /\ job'[x][s] = j /\ \A t \in Slots \ {s} : job'[x][t] = job[x][t]
         /\ Scheduled!OneJob(x)'
<1>1. job' \in [ScheduledIds -> [Slots -> JobType]]
  BY DEF Scheduled!ScheduledTypes, JobType
<1>2. \A y \in ScheduledIds \ {x} : job'[y] = job[y]
  BY DEF Scheduled!ScheduledTypes
<1>3. job'[x][s] = j /\ \A t \in Slots \ {s} : job'[x][t] = job[x][t]
  BY DEF Scheduled!ScheduledTypes
<1>4. Scheduled!OneJob(x)'
  BY <1>3 DEF Scheduled!OneJob, Scheduled!Unique
<1> QED
  BY <1>1, <1>2, <1>3, <1>4

\* No job of the execution but that of slot s decides objects.
OthersIdle(x, s) == \A t \in Slots \ {s} : ~Scheduled!At(x, t, "run")

\* A live worker is the only one of its execution.
LEMMA OnlyRunner ==
  ASSUME NEW x \in ScheduledIds, Scheduled!OneJob(x), NEW s \in Slots, job[x][s].pc # "idle"
  PROVE  OthersIdle(x, s)
BY DEF Scheduled!OneJob, OthersIdle, Scheduled!At, Scheduled!Unique, Scheduled!UniqueStates

\* Every step of a worker, of River or of the cleaner on a job.
LEMMA JobStep ==
  ASSUME Limits, Scheduled!ScheduledTypes, NEW x \in ScheduledIds, RowInv(x), NEW s \in Slots,
         Scheduled!WorkerStep(x, s) \/ Scheduled!RiverStep(x, s) \/ Scheduled!Crash(x, s) \/ Scheduled!CleanJob(x, s)
  PROVE  /\ Scheduled!ScheduledTypes'
         /\ RowInv(x)'
         /\ \A y \in ScheduledIds \ {x} : Same(y)
         /\ exec[x].status \in {"completed", "failed"} => exec'[x] = exec[x]
         /\ exec'[x].status = "completed" => \A i \in Scheduled!Objects : decided[x][i] > 0
<1> USE DEF Limits
<1> DEFINE j == job[x][s]
           G == /\ Scheduled!ScheduledTypes'
                /\ RowInv(x)'
                /\ \A y \in ScheduledIds \ {x} : Same(y)
                /\ exec[x].status \in {"completed", "failed"} => exec'[x] = exec[x]
                /\ exec'[x].status = "completed" => \A i \in Scheduled!Objects : decided[x][i] > 0
<1>0. /\ j \in JobType /\ Scheduled!OneJob(x) /\ Scheduled!AttemptsCounted(x) /\ Scheduled!RunnerKnows(x)
      /\ exec[x] \in [status : {"absent", "pending", "running", "completed", "failed"}, attempts : Nat]
      /\ decided[x] \in [Scheduled!Objects -> Nat] /\ resets[x] \in Nat
  BY DEF Scheduled!ScheduledTypes, JobType, RowInv
\* Steps that only move the worker, not into "run".
<1>1. ASSUME NEW k \in JobType, job' = [job EXCEPT ![x][s] = k], k.pc # "run",
             k.state = "running" <=> k.pc # "idle", k.state \in Scheduled!UniqueStates => j.state \in Scheduled!UniqueStates,
             UNCHANGED <<exec, decided, asked, resets>>
      PROVE  G
  <2>1. /\ job' \in [ScheduledIds -> [Slots -> JobType]]
        /\ \A y \in ScheduledIds \ {x} : job'[y] = job[y]
        /\ job'[x][s] = k /\ \A t \in Slots \ {s} : job'[x][t] = job[x][t]
        /\ Scheduled!OneJob(x)'
    BY <1>0, <1>1, JobEffect
  <2>2. Scheduled!ScheduledTypes'
    BY <1>1, <2>1 DEF Scheduled!ScheduledTypes, JobType
  <2>3. Scheduled!AttemptsCounted(x)' /\ \A i \in Scheduled!Objects : exec[x].status = "completed" => decided[x][i] > 0
    BY <1>0, <1>1 DEF Scheduled!AttemptsCounted, Scheduled!Budget
  <2>4. Scheduled!RunnerKnows(x)'
    BY <1>0, <1>1, <2>1 DEF Scheduled!RunnerKnows, Scheduled!At, Scheduled!Budget
  <2> QED
    BY <1>1, <2>1, <2>2, <2>3, <2>4 DEF RowInv, Same
<1>2. CASE Scheduled!Work(x, s)
  <2> DEFINE k == [j EXCEPT !.state = "running", !.attempt = @ + 1, !.pc = "start"]
  <2>1. job' = [job EXCEPT ![x][s] = k] /\ UNCHANGED <<exec, decided, asked, resets>> /\ j.state \in Scheduled!ReadyStates
    BY <1>2 DEF Scheduled!Work
  <2>2. k \in JobType /\ k.pc = "start" /\ k.state = "running"
    <3>1. j.attempt + 1 \in Nat /\ "running" \in Scheduled!JobStates
      BY <1>0 DEF JobType, Scheduled!JobStates
    <3> QED
      BY <1>0, <3>1 DEF JobType
  <2> QED
    BY <1>1, <2>1, <2>2 DEF Scheduled!ReadyStates, Scheduled!UniqueStates
<1>3. ASSUME NEW l \in {"event", "ok", "err", "dead"}, Scheduled!Goto(x, s, l), j.pc # "idle", UNCHANGED <<exec, decided, asked, resets>>
      PROVE  G
  <2> DEFINE k == [j EXCEPT !.pc = l]
  <2>1. job' = [job EXCEPT ![x][s] = k]
    BY <1>3 DEF Scheduled!Goto
  <2>2. k \in JobType /\ k.pc = l /\ k.state = j.state
    BY <1>0 DEF JobType
  <2>3. j.state = "running"
    BY <1>0, <1>3 DEF Scheduled!OneJob
  <2> QED
    BY <1>1, <1>3, <2>1, <2>2, <2>3
<1>4. CASE Scheduled!JobReturned(x, s)
  <2> DEFINE k == [Scheduled!NoJob EXCEPT !.attempt = j.attempt,
                    !.state = IF Scheduled!At(x, s, "ok") THEN "completed" ELSE Scheduled!AfterFailure(j.attempt, ScheduledMaxAttempts)]
  <2>1. job' = [job EXCEPT ![x][s] = k] /\ UNCHANGED <<exec, decided, asked, resets>> /\ j.pc # "idle"
    BY <1>4 DEF Scheduled!JobReturned
  <2>2. k \in JobType /\ k.pc = "idle" /\ k.state # "running"
    <3> DEFINE st == IF Scheduled!At(x, s, "ok") THEN "completed" ELSE Scheduled!AfterFailure(j.attempt, ScheduledMaxAttempts)
    <3>1. st \in Scheduled!JobStates \ {"running"}
      BY DEF Scheduled!AfterFailure, Scheduled!JobStates
    <3>2. j.attempt \in Nat /\ 0 \in 0..ObjectCount
      BY <1>0 DEF JobType
    <3> HIDE DEF st
    <3>3. [Scheduled!NoJob EXCEPT !.attempt = j.attempt, !.state = st] \in JobType
      BY <3>1, <3>2 DEF JobType, Scheduled!NoJob
    <3> QED
      BY <3>1, <3>3 DEF Scheduled!NoJob, st
  <2>3. j.state = "running"
    BY <1>0, <2>1 DEF Scheduled!OneJob
  <2> QED
    BY <1>1, <2>1, <2>2, <2>3 DEF Scheduled!UniqueStates
<1>5. CASE Scheduled!CleanJob(x, s)
  <2>1. job' = [job EXCEPT ![x][s] = Scheduled!NoJob] /\ UNCHANGED <<exec, decided, asked, resets>>
    BY <1>5 DEF Scheduled!CleanJob
  <2>2. Scheduled!NoJob \in JobType /\ Scheduled!NoJob.pc = "idle" /\ Scheduled!NoJob.state = "none"
    BY DEF Scheduled!NoJob, JobType, Scheduled!JobStates
  <2> QED
    BY <1>1, <2>1, <2>2 DEF Scheduled!UniqueStates
<1>6. CASE Scheduled!StartAttempt(x, s)
  <2>1. CASE exec[x].status # "pending"
    <3>1. Scheduled!Goto(x, s, "err") /\ j.pc # "idle" /\ UNCHANGED <<exec, decided, asked, resets>>
      BY <1>6, <2>1 DEF Scheduled!StartAttempt, Scheduled!At
    <3> QED
      BY <1>3, <3>1
  <2>2. CASE exec[x].status = "pending"
    <3> DEFINE k == [j EXCEPT !.pc = "run", !.item = exec[x].attempts + 1, !.at = 0]
               e == [status |-> "running", attempts |-> exec[x].attempts + 1]
    <3>1. /\ job' = [job EXCEPT ![x][s] = k] /\ exec' = [exec EXCEPT ![x] = e]
          /\ UNCHANGED <<decided, asked, resets>> /\ j.pc = "start"
      <4>1. job' = [job EXCEPT ![x][s].pc = "run", ![x][s].item = exec[x].attempts + 1, ![x][s].at = 0]
        BY <1>6, <2>2 DEF Scheduled!StartAttempt
      <4>2. job' = [job EXCEPT ![x][s] = k]
        BY <4>1 DEF Scheduled!ScheduledTypes
      <4>3. exec' = [exec EXCEPT ![x] = e] /\ UNCHANGED <<decided, asked, resets>> /\ j.pc = "start"
        BY <1>6, <2>2 DEF Scheduled!StartAttempt, Scheduled!At, Scheduled!ScheduledTypes
      <4> QED
        BY <4>2, <4>3
    <3>2. k \in JobType /\ k.pc = "run" /\ k.state = j.state /\ k.item = exec[x].attempts + 1 /\ k.at = 0
      <4>1. exec[x].attempts + 1 \in Nat /\ 0 \in 0..ObjectCount
        BY <1>0
      <4> QED
        BY <1>0, <4>1 DEF JobType
    <3>3. j.state = "running" /\ OthersIdle(x, s)
      BY <1>0, <3>1, OnlyRunner DEF Scheduled!OneJob
    <3> HIDE DEF k
    <3>4. /\ job' \in [ScheduledIds -> [Slots -> JobType]]
          /\ \A y \in ScheduledIds \ {x} : job'[y] = job[y]
          /\ job'[x][s] = k /\ \A t \in Slots \ {s} : job'[x][t] = job[x][t]
          /\ Scheduled!OneJob(x)'
      BY <1>0, <3>1, <3>2, <3>3, JobEffect
    <3>5. exec'[x] = e /\ \A y \in ScheduledIds \ {x} : exec'[y] = exec[y]
      BY <3>1 DEF Scheduled!ScheduledTypes
    <3>6. Scheduled!ScheduledTypes'
      BY <1>0, <3>1, <3>4 DEF Scheduled!ScheduledTypes, JobType
    <3>7. Scheduled!Budget(x)' = Scheduled!Budget(x) + 1 /\ Scheduled!Budget(x) \in Nat
      BY <1>0, <3>1, <3>5 DEF Scheduled!Budget
    <3>8. Scheduled!AttemptsCounted(x)'
      BY <1>0, <2>2, <3>1, <3>5, <3>7 DEF Scheduled!AttemptsCounted
    <3>9. Scheduled!RunnerKnows(x)'
      <4> SUFFICES ASSUME NEW t \in Slots, job'[x][t].pc = "run"
                   PROVE  /\ exec'[x].status \in {"pending", "running"}
                          /\ exec'[x].attempts <= job'[x][t].item
                          /\ \A i \in Scheduled!Objects : IF i <= job'[x][t].at THEN decided'[x][i] > 0
                                                ELSE decided'[x][i] < Scheduled!Budget(x)'
        BY DEF Scheduled!RunnerKnows, Scheduled!At
      <4>1. t = s
        BY <3>3, <3>4 DEF OthersIdle, Scheduled!At
      <4>2. \A i \in Scheduled!Objects : ~(i <= 0) /\ decided'[x][i] < Scheduled!Budget(x)'
        BY <1>0, <3>1, <3>7 DEF Scheduled!AttemptsCounted, Scheduled!Objects
      <4> QED
        BY <1>0, <3>2, <3>4, <3>5, <4>1, <4>2
    <3> QED
      BY <2>2, <3>1, <3>4, <3>5, <3>6, <3>8, <3>9 DEF RowInv, Same
  <2> QED
    BY <2>1, <2>2
<1>7. CASE Scheduled!EvaluateScenario(x, s)
  <2> DEFINE k == [j EXCEPT !.at = @ + 1]
  <2>1. /\ job' = [job EXCEPT ![x][s] = k] /\ j.pc = "run" /\ j.at < ObjectCount
        /\ decided' = [decided EXCEPT ![x][j.at + 1] = @ + 1] /\ UNCHANGED <<exec, asked, resets>>
    BY <1>7 DEF Scheduled!EvaluateScenario, Scheduled!At
  <2>2. k \in JobType /\ k.pc = "run" /\ k.state = j.state /\ k.item = j.item /\ k.at = j.at + 1 /\ j.at \in Nat
    BY <1>0, <2>1 DEF JobType
  <2>3. j.state = "running" /\ OthersIdle(x, s)
    BY <1>0, <2>1, OnlyRunner DEF Scheduled!OneJob
  <2> HIDE DEF k
  <2>4. /\ job' \in [ScheduledIds -> [Slots -> JobType]]
        /\ \A y \in ScheduledIds \ {x} : job'[y] = job[y]
        /\ job'[x][s] = k /\ \A t \in Slots \ {s} : job'[x][t] = job[x][t]
        /\ Scheduled!OneJob(x)'
    BY <1>0, <2>1, <2>2, <2>3, JobEffect
  <2>5. /\ decided' \in [ScheduledIds -> [Scheduled!Objects -> Nat]]
        /\ \A y \in ScheduledIds \ {x} : decided'[y] = decided[y]
        /\ \A i \in Scheduled!Objects : decided'[x][i] = IF i = j.at + 1 THEN decided[x][i] + 1 ELSE decided[x][i]
    <3>1. decided[x][j.at + 1] + 1 \in Nat /\ j.at + 1 \in Scheduled!Objects
      <4>1. j.at + 1 \in Scheduled!Objects
        BY <2>1, <2>2 DEF Scheduled!Objects
      <4> QED
        BY <1>0, <4>1
    <3> DEFINE n == decided[x][j.at + 1] + 1
    <3>2. decided' = [decided EXCEPT ![x] = [decided[x] EXCEPT ![j.at + 1] = n]]
      BY <2>1 DEF Scheduled!ScheduledTypes
    <3>3. [decided[x] EXCEPT ![j.at + 1] = n] \in [Scheduled!Objects -> Nat]
      BY <1>0, <3>1
    <3> QED
      BY <1>0, <3>1, <3>2, <3>3 DEF Scheduled!ScheduledTypes
  <2>6. Scheduled!ScheduledTypes'
    BY <2>1, <2>4, <2>5 DEF Scheduled!ScheduledTypes, JobType
  <2>7. Scheduled!Budget(x)' = Scheduled!Budget(x) /\ Scheduled!Budget(x) \in Nat
    BY <1>0, <2>1 DEF Scheduled!Budget
  <2>8. /\ exec[x].status \in {"pending", "running"} /\ exec[x].attempts <= j.item
        /\ \A i \in Scheduled!Objects : IF i <= j.at THEN decided[x][i] > 0 ELSE decided[x][i] < Scheduled!Budget(x)
    BY <1>0, <2>1 DEF Scheduled!RunnerKnows, Scheduled!At
  <2>9. Scheduled!AttemptsCounted(x)'
    <3>1. \A i \in Scheduled!Objects : decided'[x][i] <= Scheduled!Budget(x)'
      <4> TAKE i \in Scheduled!Objects
      <4>1. decided[x][i] \in Nat /\ decided[x][i] <= Scheduled!Budget(x)
        BY <1>0 DEF Scheduled!AttemptsCounted
      <4>2. i = j.at + 1 => decided[x][i] < Scheduled!Budget(x)
        BY <2>2, <2>8
      <4> QED
        BY <2>5, <2>7, <4>1, <4>2
    <3> QED
      BY <1>0, <2>1, <2>8, <3>1 DEF Scheduled!AttemptsCounted
  <2>10. Scheduled!RunnerKnows(x)'
    <3> SUFFICES ASSUME NEW t \in Slots, job'[x][t].pc = "run"
                 PROVE  /\ exec'[x].status \in {"pending", "running"}
                        /\ exec'[x].attempts <= job'[x][t].item
                        /\ \A i \in Scheduled!Objects : IF i <= job'[x][t].at THEN decided'[x][i] > 0
                                              ELSE decided'[x][i] < Scheduled!Budget(x)'
      BY DEF Scheduled!RunnerKnows, Scheduled!At
    <3>1. t = s
      BY <2>3, <2>4 DEF OthersIdle, Scheduled!At
    <3>2. ASSUME NEW i \in Scheduled!Objects
          PROVE  IF i <= j.at + 1 THEN decided'[x][i] > 0 ELSE decided'[x][i] < Scheduled!Budget(x)'
      <4>1. i \in Nat /\ decided[x][i] \in Nat
        BY <1>0 DEF Scheduled!Objects
      <4>2. IF i <= j.at THEN decided[x][i] > 0 ELSE decided[x][i] < Scheduled!Budget(x)
        BY <2>8
      <4>3. decided'[x][i] = IF i = j.at + 1 THEN decided[x][i] + 1 ELSE decided[x][i]
        BY <2>5
      <4> QED
        BY <2>2, <2>7, <4>1, <4>2, <4>3
    <3> QED
      BY <2>1, <2>2, <2>4, <2>8, <3>1, <3>2
  <2> QED
    BY <2>1, <2>4, <2>5, <2>6, <2>8, <2>9, <2>10 DEF RowInv, Same
<1>8. ASSUME NEW st \in {"pending", "completed", "failed"}, NEW l \in {"event", "ok"}, Scheduled!At(x, s, "run"),
             Scheduled!Status(x, st), Scheduled!Goto(x, s, l), UNCHANGED <<decided, asked, resets>>,
             st = "pending" => exec[x].attempts < ScheduledMaxAttempts,
             st = "completed" => \A i \in Scheduled!Objects : decided[x][i] > 0
      PROVE  G
  <2> DEFINE k == [j EXCEPT !.pc = l]
  <2>1. job' = [job EXCEPT ![x][s] = k] /\ j.pc = "run"
    BY <1>8 DEF Scheduled!Goto, Scheduled!At
  <2>2. k \in JobType /\ k.pc = l /\ k.state = j.state
    BY <1>0 DEF JobType
  <2>3. j.state = "running" /\ OthersIdle(x, s)
    BY <1>0, <2>1, OnlyRunner DEF Scheduled!OneJob
  <2> HIDE DEF k
  <2>4. /\ job' \in [ScheduledIds -> [Slots -> JobType]]
        /\ \A y \in ScheduledIds \ {x} : job'[y] = job[y]
        /\ job'[x][s] = k /\ \A t \in Slots \ {s} : job'[x][t] = job[x][t]
        /\ Scheduled!OneJob(x)'
    BY <1>0, <2>1, <2>2, <2>3, JobEffect
  <2>5. /\ exec' \in [ScheduledIds -> [status : {"absent", "pending", "running", "completed", "failed"}, attempts : Nat]]
        /\ exec'[x].status = st /\ exec'[x].attempts = exec[x].attempts
        /\ \A y \in ScheduledIds \ {x} : exec'[y] = exec[y]
    BY <1>0, <1>8 DEF Scheduled!Status, Scheduled!ScheduledTypes
  <2>6. Scheduled!ScheduledTypes'
    BY <1>8, <2>4, <2>5 DEF Scheduled!ScheduledTypes, JobType
  <2>7. Scheduled!AttemptsCounted(x)'
    BY <1>0, <1>8, <2>5 DEF Scheduled!AttemptsCounted, Scheduled!Budget
  <2>8. Scheduled!RunnerKnows(x)'
    BY <2>2, <2>3, <2>4 DEF Scheduled!RunnerKnows, Scheduled!At, OthersIdle
  <2>9. exec[x].status \notin {"completed", "failed"}
    BY <1>0, <2>1 DEF Scheduled!RunnerKnows, Scheduled!At
  <2> QED
    BY <1>8, <2>4, <2>5, <2>6, <2>7, <2>8, <2>9 DEF RowInv, Same
<1>9. CASE Scheduled!FailForGood(x, s)
  BY <1>8, <1>9 DEF Scheduled!FailForGood, Scheduled!Fails
<1>10. CASE Scheduled!RetryLater(x, s)
  <2>1. Scheduled!At(x, s, "run") /\ job[x][s].item < ScheduledMaxAttempts
    BY <1>0, <1>10 DEF Scheduled!RetryLater, Scheduled!Fails, Scheduled!LastAttempt, JobType
  <2>2. exec[x].attempts < ScheduledMaxAttempts
    BY <1>0, <2>1 DEF Scheduled!RunnerKnows, JobType
  <2> QED
    BY <1>8, <1>10, <2>2 DEF Scheduled!RetryLater, Scheduled!Fails
<1>11. CASE Scheduled!UpdateStatus(x, s)
  <2>1. Scheduled!At(x, s, "run") /\ job[x][s].at = ObjectCount
    BY <1>11 DEF Scheduled!UpdateStatus
  <2>2. \A i \in Scheduled!Objects : decided[x][i] > 0
    BY <1>0, <2>1 DEF Scheduled!RunnerKnows, Scheduled!Objects
  <2> QED
    BY <1>8, <1>11, <2>2 DEF Scheduled!UpdateStatus
<1>12. CASE Scheduled!writeExecutionLifecycleEvents(x, s) \/ Scheduled!StatementFails(x, s) \/ Scheduled!Crash(x, s)
  BY <1>3, <1>12 DEF Scheduled!writeExecutionLifecycleEvents, Scheduled!StatementFails, Scheduled!Crash,
     Scheduled!At
<1> QED
  BY <1>2, <1>4, <1>5, <1>6, <1>7, <1>9, <1>10, <1>11, <1>12 DEF Scheduled!WorkerStep, Scheduled!RiverStep

\* What a step may do to a row: complete it when everything is decided, and
\* open a settled one by a reset.
RowMoves(x) ==
  /\ exec'[x].status = "completed" => \A i \in Scheduled!Objects : decided[x][i] > 0
  /\ exec[x].status \in {"completed", "failed"} /\ exec'[x].status # exec[x].status => resets'[x] > resets[x]

\* A row that no step touches, and one whose status stays, move as they may.
LEMMA SameMoves ==
  ASSUME NEW x \in ScheduledIds, Scheduled!AttemptsCounted(x), exec'[x].status = exec[x].status
  PROVE  RowMoves(x)
BY DEF Scheduled!AttemptsCounted, RowMoves

\* A request keeps the attempts of a row or starts it afresh, and enqueues it.
LEMMA EnqueueStep ==
  ASSUME Limits, Scheduled!ScheduledInv, NEW x \in ScheduledIds, Scheduled!EnqueueTx(x), UNCHANGED decided,
         asked' \in [Retriers -> ScheduledIds \cup {Scheduled!NoCall}], resets' \in [ScheduledIds -> Nat],
         \A y \in ScheduledIds \ {x} : resets'[y] = resets[y],
         \/ exec' = exec /\ resets' = resets
         \/ /\ exec' = [exec EXCEPT ![x] = [status |-> "pending", attempts |-> 0]]
            /\ (exec[x].status = "absent" /\ resets' = resets) \/ resets'[x] = resets[x] + 1
  PROVE  Scheduled!ScheduledInv' /\ \A y \in ScheduledIds : RowMoves(y)
<1> USE DEF Limits
<1>0. Scheduled!ScheduledTypes /\ \A y \in ScheduledIds : RowInv(y)
  BY DEF Scheduled!ScheduledInv, RowInv
<1>1. /\ job' \in [ScheduledIds -> [Slots -> JobType]]
      /\ \A y \in ScheduledIds \ {x} : job'[y] = job[y]
      /\ \A s \in Slots : job'[x][s] = job[x][s] \/ (job'[x][s].state = "available" /\ job'[x][s].pc = "idle")
      /\ Scheduled!OneJob(x)'
  BY <1>0, EnqueueEffect DEF RowInv
<1>2. /\ exec' \in [ScheduledIds -> [status : {"absent", "pending", "running", "completed", "failed"}, attempts : Nat]]
      /\ \A y \in ScheduledIds \ {x} : exec'[y] = exec[y]
  <2> DEFINE fresh == [status |-> "pending", attempts |-> 0]
  <2>1. fresh \in [status : {"absent", "pending", "running", "completed", "failed"}, attempts : Nat]
    OBVIOUS
  <2> HIDE DEF fresh
  <2>2. CASE exec' = exec
    BY <1>0, <2>2 DEF Scheduled!ScheduledTypes
  <2>3. CASE exec' = [exec EXCEPT ![x] = fresh]
    BY <1>0, <2>1, <2>3 DEF Scheduled!ScheduledTypes
  <2> QED
    BY <2>2, <2>3 DEF fresh
<1>3. Scheduled!ScheduledTypes'
  BY <1>0, <1>1, <1>2 DEF Scheduled!ScheduledTypes, JobType
<1>4. \A y \in ScheduledIds \ {x} : RowInv(y)' /\ RowMoves(y)
  <2> TAKE y \in ScheduledIds \ {x}
  <2>1. Same(y)
    BY <1>1, <1>2 DEF Same
  <2> QED
    BY <1>0, <2>1, SameKeeps, SameMoves DEF RowInv, Same
<1>5. /\ exec[x] \in [status : {"absent", "pending", "running", "completed", "failed"}, attempts : Nat]
      /\ resets[x] \in Nat /\ decided[x] \in [Scheduled!Objects -> Nat] /\ Scheduled!AttemptsCounted(x) /\ Scheduled!RunnerKnows(x)
  BY <1>0 DEF Scheduled!ScheduledTypes, RowInv
<1>6. CASE exec' = exec /\ resets' = resets
  <2>1. RowInv(x)'
    BY <1>1, <1>5, <1>6 DEF RowInv, Scheduled!AttemptsCounted, Scheduled!RunnerKnows, Scheduled!Budget,
       Scheduled!At
  <2> QED
    BY <1>3, <1>4, <1>5, <1>6, <2>1, SameMoves DEF Scheduled!ScheduledInv, RowInv
<1>7. CASE ~(exec' = exec /\ resets' = resets)
  <2>1. /\ exec'[x].status = "pending" /\ exec'[x].attempts = 0
        /\ (exec[x].status = "absent" /\ resets' = resets) \/ resets'[x] = resets[x] + 1
    BY <1>0, <1>7 DEF Scheduled!ScheduledTypes
  <2> DEFINE spent == ScheduledMaxAttempts * resets[x]
  <2>2. spent \in Nat /\ ScheduledMaxAttempts * (resets[x] + 1) = spent + ScheduledMaxAttempts
    BY <1>5
  <2>3. Scheduled!Budget(x) \in Nat /\ Scheduled!Budget(x)' \in Nat /\ Scheduled!Budget(x) <= Scheduled!Budget(x)'
    <3>1. CASE exec[x].status = "absent" /\ resets' = resets
      BY <1>5, <2>1, <2>2, <3>1 DEF Scheduled!Budget, Scheduled!AttemptsCounted
    <3>2. CASE resets'[x] = resets[x] + 1
      <4>1. Scheduled!Budget(x)' = spent + ScheduledMaxAttempts
        BY <1>5, <2>1, <2>2, <3>2 DEF Scheduled!Budget
      <4>2. Scheduled!Budget(x) = spent + exec[x].attempts /\ exec[x].attempts <= ScheduledMaxAttempts
        BY <1>5 DEF Scheduled!Budget, Scheduled!AttemptsCounted
      <4> HIDE DEF spent
      <4> QED
        BY <1>5, <2>2, <4>1, <4>2
    <3> QED
      BY <2>1, <3>1, <3>2
  <2>4. Scheduled!AttemptsCounted(x)'
    BY <1>5, <2>1, <2>3 DEF Scheduled!AttemptsCounted
  <2>5. Scheduled!RunnerKnows(x)'
    <3> SUFFICES ASSUME NEW s \in Slots, job'[x][s].pc = "run"
                 PROVE  /\ exec'[x].status \in {"pending", "running"}
                        /\ exec'[x].attempts <= job'[x][s].item
                        /\ \A i \in Scheduled!Objects : IF i <= job'[x][s].at THEN decided'[x][i] > 0
                                              ELSE decided'[x][i] < Scheduled!Budget(x)'
      BY DEF Scheduled!RunnerKnows, Scheduled!At
    <3>1. job'[x][s] = job[x][s] /\ job[x][s] \in JobType
      BY <1>0, <1>1 DEF Scheduled!ScheduledTypes, JobType
    <3>2. \A i \in Scheduled!Objects : IF i <= job[x][s].at THEN decided[x][i] > 0 ELSE decided[x][i] < Scheduled!Budget(x)
      BY <1>5, <3>1 DEF Scheduled!RunnerKnows, Scheduled!At
    <3> HIDE DEF spent
    <3>3. ASSUME NEW i \in Scheduled!Objects
          PROVE  IF i <= job[x][s].at THEN decided[x][i] > 0 ELSE decided[x][i] < Scheduled!Budget(x)'
      BY <1>5, <2>3, <3>2
    <3>4. job[x][s].item \in Nat
      BY <3>1 DEF JobType
    <3> QED
      BY <2>1, <3>1, <3>3, <3>4
  <2>6. RowMoves(x)
    BY <1>5, <2>1 DEF RowMoves
  <2> QED
    BY <1>1, <1>3, <1>4, <2>4, <2>5, <2>6 DEF Scheduled!ScheduledInv, RowInv
<1> QED
  BY <1>6, <1>7

\* Every step of a request, of a worker or of River keeps the invariant and
\* moves the rows as they may be moved.
LEMMA ScheduledStep ==
  ASSUME Limits, Scheduled!ScheduledInv, [Scheduled!ScheduledNext]_(Scheduled!scheduledVars)
  PROVE  Scheduled!ScheduledInv' /\ (Scheduled!ScheduledNext => \A y \in ScheduledIds : RowMoves(y))
<1>0. Scheduled!ScheduledTypes /\ \A y \in ScheduledIds : RowInv(y)
  BY DEF Scheduled!ScheduledInv, RowInv
<1>1. ASSUME NEW x \in ScheduledIds, Scheduled!CreateScheduledExecution(x)
      PROVE  Scheduled!ScheduledInv' /\ \A y \in ScheduledIds : RowMoves(y)
  <2>1. CASE Scheduled!Existing(x) = {}
    <3>1. x \notin Scheduled!Existing(x)
      BY <2>1
    <3>2. exec[x].status = "absent" /\ Scheduled!EnqueueTx(x) /\ exec' = [exec EXCEPT ![x] = [status |-> "pending", attempts |-> 0]]
      BY <1>1, <2>1, <3>1 DEF Scheduled!CreateScheduledExecution
    <3> QED
      BY <1>0, <1>1, <3>2, EnqueueStep DEF Scheduled!CreateScheduledExecution, Scheduled!ScheduledTypes
  <2>2. CASE Scheduled!Existing(x) # {}
    <3>1. PICK y \in Scheduled!Existing(x) : Scheduled!EnqueueTx(y)
      BY <1>1, <2>2 DEF Scheduled!CreateScheduledExecution
    <3>2. y \in ScheduledIds /\ exec' = exec /\ UNCHANGED <<decided, asked, resets>>
      BY <1>1, <2>2, <3>1 DEF Scheduled!CreateScheduledExecution, Scheduled!Existing
    <3> QED
      BY <1>0, <3>1, <3>2, EnqueueStep DEF Scheduled!ScheduledTypes
  <2> QED
    BY <2>1, <2>2
<1>2. ASSUME asked' \in [Retriers -> ScheduledIds \cup {Scheduled!NoCall}], UNCHANGED <<exec, decided, job, resets>>
      PROVE  Scheduled!ScheduledInv' /\ \A y \in ScheduledIds : RowMoves(y)
  <2>1. \A y \in ScheduledIds : RowInv(y)' /\ RowMoves(y)
    BY <1>0, <1>2, SameKeeps, SameMoves DEF RowInv, Same
  <2> QED
    BY <1>0, <1>2, <2>1 DEF Scheduled!ScheduledInv, Scheduled!ScheduledTypes, RowInv
<1>3. ASSUME NEW c \in Retriers, NEW x \in ScheduledIds, Scheduled!RetryScheduledExecution(c, x)
      PROVE  Scheduled!ScheduledInv' /\ \A y \in ScheduledIds : RowMoves(y)
  BY <1>0, <1>2, <1>3 DEF Scheduled!RetryScheduledExecution, Scheduled!ScheduledTypes
<1>4. ASSUME NEW c \in Retriers, Scheduled!RetryRolledBack(c)
      PROVE  Scheduled!ScheduledInv' /\ \A y \in ScheduledIds : RowMoves(y)
  BY <1>0, <1>2, <1>4 DEF Scheduled!RetryRolledBack, Scheduled!ScheduledTypes
<1>5. ASSUME NEW c \in Retriers, Scheduled!ResetForRetry(c)
      PROVE  Scheduled!ScheduledInv' /\ \A y \in ScheduledIds : RowMoves(y)
  <2> DEFINE x == asked[c]
  <2>1. x \in ScheduledIds /\ Scheduled!EnqueueTx(x) /\ UNCHANGED decided
    BY <1>0, <1>5 DEF Scheduled!ResetForRetry, Scheduled!ScheduledTypes
  <2>2. exec' = [exec EXCEPT ![x] = [status |-> "pending", attempts |-> 0]]
    BY <1>5 DEF Scheduled!ResetForRetry
  <2>3. /\ resets' \in [ScheduledIds -> Nat] /\ resets'[x] = resets[x] + 1
        /\ \A y \in ScheduledIds \ {x} : resets'[y] = resets[y]
    BY <1>0, <1>5, <2>1 DEF Scheduled!ResetForRetry, Scheduled!ScheduledTypes
  <2>4. asked' \in [Retriers -> ScheduledIds \cup {Scheduled!NoCall}]
    BY <1>0, <1>5 DEF Scheduled!ResetForRetry, Scheduled!ScheduledTypes
  <2> QED
    BY <2>1, <2>2, <2>3, <2>4, EnqueueStep
<1>6. ASSUME NEW x \in ScheduledIds, NEW s \in Slots,
             Scheduled!WorkerStep(x, s) \/ Scheduled!RiverStep(x, s) \/ Scheduled!Crash(x, s) \/ Scheduled!CleanJob(x, s)
      PROVE  Scheduled!ScheduledInv' /\ \A y \in ScheduledIds : RowMoves(y)
  <2>1. /\ Scheduled!ScheduledTypes' /\ RowInv(x)' /\ \A y \in ScheduledIds \ {x} : Same(y)
        /\ exec[x].status \in {"completed", "failed"} => exec'[x] = exec[x]
        /\ exec'[x].status = "completed" => \A i \in Scheduled!Objects : decided[x][i] > 0
    BY <1>0, <1>6, JobStep
  <2>2. \A y \in ScheduledIds \ {x} : RowInv(y)' /\ RowMoves(y)
    BY <1>0, <2>1, SameKeeps, SameMoves DEF RowInv, Same
  <2>3. RowMoves(x)
    BY <2>1 DEF RowMoves
  <2> QED
    BY <2>1, <2>2, <2>3 DEF Scheduled!ScheduledInv, RowInv
<1>7. CASE UNCHANGED Scheduled!scheduledVars
  <2>1. \A y \in ScheduledIds : RowInv(y)' /\ RowMoves(y)
    BY <1>0, <1>7, SameKeeps, SameMoves DEF RowInv, Same, Scheduled!scheduledVars
  <2> QED
    BY <1>0, <1>7, <2>1 DEF Scheduled!ScheduledInv, Scheduled!ScheduledTypes, RowInv, Scheduled!scheduledVars
<1> QED
  BY <1>1, <1>3, <1>4, <1>5, <1>6, <1>7 DEF Scheduled!ScheduledNext

\* A scheduled execution is completed only when every object is decided, stays
\* settled until an operator resets it, and decides an object at most once per
\* attempt that it and its resets allow (RunScheduledExecution).
THEOREM ScheduledIsWhole ==
  ASSUME ScheduledMaxAttempts \in Nat \ {0}, ObjectCount \in Nat
  PROVE  Scheduled!ScheduledInit /\ [][Scheduled!ScheduledNext]_(Scheduled!scheduledVars) => CompletedIsWhole
<1> DEFINE Bounded == \A x \in ScheduledIds : \A i \in Scheduled!Objects : decided[x][i] <= ScheduledMaxAttempts * (1 + resets[x])
           Moves == \A y \in ScheduledIds : RowMoves(y)
<1>0. Limits
  BY DEF Limits
<1>1. Scheduled!ScheduledInit => Scheduled!ScheduledInv
  <2> SUFFICES ASSUME Scheduled!ScheduledInit PROVE Scheduled!ScheduledInv
    OBVIOUS
  <2>1. Scheduled!NoJob \in JobType /\ Scheduled!NoJob.state = "none" /\ Scheduled!NoJob.pc = "idle"
    BY <1>0 DEF Scheduled!NoJob, JobType, Scheduled!JobStates, Limits
  <2>2. Scheduled!ScheduledTypes
    BY <2>1 DEF Scheduled!ScheduledInit, Scheduled!ScheduledTypes, JobType
  <2>3. ASSUME NEW x \in ScheduledIds PROVE Scheduled!OneJob(x) /\ Scheduled!RunnerKnows(x) /\ Scheduled!AttemptsCounted(x)
    <3>1. \A s \in Slots : job[x][s] = Scheduled!NoJob
      BY DEF Scheduled!ScheduledInit
    <3>2. Scheduled!Budget(x) = 0
      BY <1>0 DEF Scheduled!ScheduledInit, Scheduled!Budget, Limits
    <3>3. Scheduled!AttemptsCounted(x)
      BY <1>0, <3>2 DEF Scheduled!ScheduledInit, Scheduled!AttemptsCounted, Limits
    <3> QED
      BY <2>1, <3>1, <3>3 DEF Scheduled!OneJob, Scheduled!Unique, Scheduled!UniqueStates,
         Scheduled!RunnerKnows, Scheduled!At
  <2> QED
    BY <2>2, <2>3 DEF Scheduled!ScheduledInv
<1>2. Scheduled!ScheduledInv /\ [Scheduled!ScheduledNext]_(Scheduled!scheduledVars) => Scheduled!ScheduledInv'
  BY <1>0, ScheduledStep
<1>3. Scheduled!ScheduledInv /\ [Scheduled!ScheduledNext]_(Scheduled!scheduledVars) => [Moves]_(Scheduled!scheduledVars)
  BY <1>0, ScheduledStep
<1>4. Scheduled!ScheduledInv => Bounded
  BY <1>0, WithinBudget DEF Scheduled!ScheduledInv
<1>5. Moves /\ Bounded' => Scheduled!WholeStep
  BY DEF RowMoves, Scheduled!WholeStep
<1> QED
  BY <1>1, <1>2, <1>3, <1>4, <1>5, PTL DEF CompletedIsWhole, Scheduled!CompletedIsWhole
-----------------------------------------------------------------------------
(***************************************************************************)
(* The jobs of the ingestion service (JobsInv).                            *)
(***************************************************************************)
\* What one action of a row does to the invariant of that row.
LEMMA JobRowStep ==
    ASSUME IngestMaxAttempts \in Nat \ {0}, Ingest!JobsInv,
           NEW r \in Rows, Ingest!CreateUpload(r) \/ Ingest!CreateDeferred(r) \/ Ingest!Step(r) \/ Ingest!Crash(r)
    PROVE  Ingest!JobTypes' /\ Ingest!AttemptsPaid(r)' /\ Ingest!IngestionsCounted(r)'
  <1> USE DEF Ingest!JobTypes, Ingest!JobStates, Ingest!PCs, Ingest!Verdicts, Ingest!ReadyStates, Ingest!Goto, Ingest!rowVars
  <1>0. Ingest!JobTypes /\ Ingest!AttemptsPaid(r) /\ Ingest!IngestionsCounted(r)
    BY DEF Ingest!JobsInv
  <1>a. copy[r] \in [attempts : Nat, failedRows : BOOLEAN]
    BY <1>0
  <1>1. CASE Ingest!CreateUpload(r) \/ Ingest!CreateDeferred(r)
    <2>1. Ingest!JobTypes'
      BY <1>0, <1>1 DEF Ingest!CreateUpload, Ingest!CreateDeferred, Ingest!Insert
    <2>2. Ingest!AttemptsPaid(r)'
      BY <1>0, <1>1 DEF Ingest!CreateUpload, Ingest!CreateDeferred, Ingest!Insert, Ingest!AttemptsPaid
    <2>3. Ingest!IngestionsCounted(r)'
      BY <1>0, <1>1 DEF Ingest!CreateUpload, Ingest!CreateDeferred, Ingest!Insert, Ingest!AttemptsPaid, Ingest!IngestionsCounted
    <2> QED BY <2>1, <2>2, <2>3
  <1>2. CASE Ingest!Work(r)
    <2>1. Ingest!JobTypes'
      BY <1>0, <1>2 DEF Ingest!Work
    <2>2. Ingest!AttemptsPaid(r)'
      BY <1>0, <1>2 DEF Ingest!Work, Ingest!AttemptsPaid
    <2>3. Ingest!IngestionsCounted(r)'
      BY <1>0, <1>2 DEF Ingest!Work, Ingest!AttemptsPaid, Ingest!IngestionsCounted
    <2> QED BY <2>1, <2>2, <2>3
  <1>3. CASE Ingest!StartAttempt(r) \/ Ingest!StartFails(r)
    <2>1. Ingest!JobTypes'
      <3>1. copy' \in [Rows -> [attempts : Nat, failedRows : BOOLEAN]]
        BY <1>0, <1>a, <1>3 DEF Ingest!StartAttempt, Ingest!StartFails
      <3>2. CASE Ingest!StartAttempt(r)
        BY <1>0, <3>1, <3>2 DEF Ingest!StartAttempt
      <3>3. CASE Ingest!StartFails(r)
        BY <1>0, <3>1, <3>3 DEF Ingest!StartFails
      <3> QED BY <1>3, <3>2, <3>3
    <2>2. Ingest!AttemptsPaid(r)'
      BY <1>0, <1>3 DEF Ingest!StartAttempt, Ingest!StartFails, Ingest!AttemptsPaid
    <2>3. Ingest!IngestionsCounted(r)'
      BY <1>0, <1>3 DEF Ingest!StartAttempt, Ingest!StartFails, Ingest!AttemptsPaid, Ingest!IngestionsCounted
    <2> QED BY <2>1, <2>2, <2>3
  <1>4. ASSUME NEW seen \in BOOLEAN, Ingest!IngestCommits(r, seen)
        PROVE  Ingest!JobTypes' /\ Ingest!AttemptsPaid(r)' /\ Ingest!IngestionsCounted(r)'
    <2>1. Ingest!JobTypes'
      <3>1. copy' \in [Rows -> [attempts : Nat, failedRows : BOOLEAN]]
        BY <1>0, <1>a, <1>4 DEF Ingest!IngestCommits, Ingest!Commits
      <3> QED BY <1>0, <1>a, <1>4, <3>1 DEF Ingest!IngestCommits, Ingest!Commits
    <2>2. Ingest!AttemptsPaid(r)'
      BY <1>0, <1>4 DEF Ingest!IngestCommits, Ingest!Commits, Ingest!AttemptsPaid
    <2>3. Ingest!IngestionsCounted(r)'
      BY <1>0, <1>4 DEF Ingest!IngestCommits, Ingest!Commits, Ingest!AttemptsPaid, Ingest!IngestionsCounted
    <2> QED BY <2>1, <2>2, <2>3
  <1>5. CASE Ingest!IngestInvalid(r)
    <2>1. Ingest!JobTypes'
      <3>1. copy' \in [Rows -> [attempts : Nat, failedRows : BOOLEAN]]
        <4>1. CASE r \in Uploads
          <5>1. copy' = [copy EXCEPT ![r].failedRows = TRUE]
            BY <1>5, <4>1 DEF Ingest!IngestInvalid
          <5> QED BY <1>0, <1>a, <5>1
        <4>2. CASE r \notin Uploads
          <5>1. copy' = [copy EXCEPT ![r].failedRows = FALSE]
            <6>1. (r \in Uploads) = FALSE
              BY <4>2
            <6> QED BY <1>5, <6>1, Zenon DEF Ingest!IngestInvalid
          <5> QED BY <1>0, <1>a, <5>1
        <4> QED BY <4>1, <4>2
      <3> QED BY <1>0, <1>a, <1>5, <3>1 DEF Ingest!IngestInvalid
    <2>2. Ingest!AttemptsPaid(r)'
      BY <1>0, <1>5 DEF Ingest!IngestInvalid, Ingest!AttemptsPaid
    <2>3. Ingest!IngestionsCounted(r)'
      BY <1>0, <1>5 DEF Ingest!IngestInvalid, Ingest!AttemptsPaid, Ingest!IngestionsCounted
    <2> QED BY <2>1, <2>2, <2>3
  <1>6. ASSUME NEW decoded \in BOOLEAN, Ingest!IngestFails(r, decoded)
        PROVE  Ingest!JobTypes' /\ Ingest!AttemptsPaid(r)' /\ Ingest!IngestionsCounted(r)'
    <2>1. Ingest!JobTypes'
      BY <1>0, <1>6 DEF Ingest!IngestFails
    <2>2. Ingest!AttemptsPaid(r)'
      BY <1>0, <1>6 DEF Ingest!IngestFails, Ingest!AttemptsPaid
    <2>3. Ingest!IngestionsCounted(r)'
      BY <1>0, <1>6 DEF Ingest!IngestFails, Ingest!AttemptsPaid, Ingest!IngestionsCounted
    <2> QED BY <2>1, <2>2, <2>3
  <1>7. CASE Ingest!Update(r) \/ Ingest!UpdateFails(r)
    <2>1. Ingest!JobTypes'
      <3>1. copy' \in [Rows -> [attempts : Nat, failedRows : BOOLEAN]]
        BY <1>0, <1>a, <1>7 DEF Ingest!Update, Ingest!UpdateFails, Ingest!Outcome
      <3> QED BY <1>0, <1>a, <1>7, <3>1 DEF Ingest!Update, Ingest!UpdateFails, Ingest!Outcome
    <2>2. Ingest!AttemptsPaid(r)'
      BY <1>0, <1>7 DEF Ingest!Update, Ingest!UpdateFails, Ingest!Outcome, Ingest!AttemptsPaid
    <2>3. Ingest!IngestionsCounted(r)'
      BY <1>0, <1>7 DEF Ingest!Update, Ingest!UpdateFails, Ingest!Outcome, Ingest!AttemptsPaid, Ingest!IngestionsCounted
    <2> QED BY <2>1, <2>2, <2>3
  <1>8. CASE Ingest!JobReturned(r)
    <2>1. Ingest!JobTypes'
      BY <1>0, <1>8 DEF Ingest!JobReturned, Ingest!AfterFailure, Ingest!JobMaxAttempts
    <2>2. Ingest!AttemptsPaid(r)'
      BY <1>0, <1>8 DEF Ingest!JobReturned, Ingest!AfterFailure, Ingest!JobMaxAttempts, Ingest!AttemptsPaid
    <2>3. Ingest!IngestionsCounted(r)'
      BY <1>0, <1>8 DEF Ingest!JobReturned, Ingest!AfterFailure, Ingest!JobMaxAttempts, Ingest!AttemptsPaid, Ingest!IngestionsCounted
    <2> QED BY <2>1, <2>2, <2>3
  <1>9. CASE Ingest!Crash(r)
    <2>1. Ingest!JobTypes'
      BY <1>0, <1>9 DEF Ingest!Crash
    <2>2. Ingest!AttemptsPaid(r)'
      BY <1>0, <1>9 DEF Ingest!Crash, Ingest!AttemptsPaid
    <2>3. Ingest!IngestionsCounted(r)'
      BY <1>0, <1>9 DEF Ingest!Crash, Ingest!AttemptsPaid, Ingest!IngestionsCounted
    <2> QED BY <2>1, <2>2, <2>3
  <1>10. CASE Ingest!Rescue(r)
    <2>1. Ingest!JobTypes'
      BY <1>0, <1>10 DEF Ingest!Rescue, Ingest!AfterFailure, Ingest!JobMaxAttempts
    <2>2. Ingest!AttemptsPaid(r)'
      BY <1>0, <1>10 DEF Ingest!Rescue, Ingest!AfterFailure, Ingest!JobMaxAttempts, Ingest!AttemptsPaid
    <2>3. Ingest!IngestionsCounted(r)'
      BY <1>0, <1>10 DEF Ingest!Rescue, Ingest!AfterFailure, Ingest!JobMaxAttempts, Ingest!AttemptsPaid, Ingest!IngestionsCounted
    <2> QED BY <2>1, <2>2, <2>3
  <1> QED BY <1>1, <1>2, <1>3, <1>4, <1>5, <1>6, <1>7, <1>8, <1>9, <1>10
          DEF Ingest!Step, Ingest!RunLog, Ingest!RunDeferredIngest, Ingest!Attempt

\* An action of one row leaves the others as they are.
LEMMA JobOthersStay ==
    ASSUME Ingest!JobsInv, NEW r \in Rows, NEW o \in Rows \ {r},
           Ingest!CreateUpload(r) \/ Ingest!CreateDeferred(r) \/ Ingest!Step(r) \/ Ingest!Crash(r)
    PROVE  Ingest!AttemptsPaid(o)' /\ Ingest!IngestionsCounted(o)'
  <1>1. /\ istatus'[o] = istatus[o] /\ iattempts'[o] = iattempts[o] /\ ingested'[o] = ingested[o]
        /\ ijstate'[o] = ijstate[o] /\ ijattempt'[o] = ijattempt[o] /\ ipc'[o] = ipc[o] /\ copy'[o] = copy[o]
    <2> USE DEF Ingest!JobsInv, Ingest!JobTypes, Ingest!Goto, Ingest!rowVars
    <2>1. CASE Ingest!CreateUpload(r) \/ Ingest!CreateDeferred(r) \/ Ingest!Work(r) \/ Ingest!JobReturned(r) \/ Ingest!Crash(r) \/ Ingest!Rescue(r)
      BY <2>1 DEF Ingest!CreateUpload, Ingest!CreateDeferred, Ingest!Insert, Ingest!Work, Ingest!JobReturned, Ingest!Crash, Ingest!Rescue
    <2>2. CASE Ingest!Attempt(r)
      BY <2>2 DEF Ingest!Attempt, Ingest!StartAttempt, Ingest!StartFails, Ingest!IngestCommits, Ingest!IngestInvalid, Ingest!IngestFails, Ingest!Update, Ingest!UpdateFails
    <2> QED BY <2>1, <2>2 DEF Ingest!Step, Ingest!RunLog, Ingest!RunDeferredIngest
  <1> QED BY <1>1 DEF Ingest!JobsInv, Ingest!AttemptsPaid, Ingest!IngestionsCounted

\* A keyed deferred ingest writes its record once and any other row at most
\* once per attempt, iattempts stay bounded, and a completed row was ingested,
\* however often River repeats the job (RunLog, RunDeferredIngest).
THEOREM JobsIngestOnce ==
    ASSUME IngestMaxAttempts \in Nat \ {0}
    PROVE  Ingest!Spec => []IngestedOnce
  <1>1. Ingest!Init => Ingest!JobsInv
    BY DEF Ingest!Init, Ingest!JobsInv, Ingest!JobTypes, Ingest!JobStates, Ingest!PCs, Ingest!Verdicts, Ingest!ReadyStates, Ingest!AttemptsPaid, Ingest!IngestionsCounted
  <1>2. Ingest!JobsInv /\ [Ingest!Next]_(Ingest!vars) => Ingest!JobsInv'
    <2> SUFFICES ASSUME Ingest!JobsInv, [Ingest!Next]_(Ingest!vars) PROVE Ingest!JobsInv'
      OBVIOUS
    <2>1. CASE UNCHANGED Ingest!vars
      BY <2>1 DEF Ingest!vars, Ingest!rowVars, Ingest!JobsInv, Ingest!JobTypes, Ingest!AttemptsPaid, Ingest!IngestionsCounted
    <2>2. CASE Ingest!Next
      <3>1. PICK r \in Rows : Ingest!CreateUpload(r) \/ Ingest!CreateDeferred(r) \/ Ingest!Step(r) \/ Ingest!Crash(r)
        BY <2>2 DEF Ingest!Next
      <3>2. \A o \in Rows \ {r} : Ingest!AttemptsPaid(o)' /\ Ingest!IngestionsCounted(o)'
        BY <3>1, JobOthersStay
      <3> QED BY <3>1, <3>2, JobRowStep DEF Ingest!JobsInv
    <2> QED BY <2>1, <2>2
  <1>3. Ingest!JobsInv => IngestedOnce
    <2> SUFFICES ASSUME Ingest!JobsInv, NEW r \in Rows
                 PROVE  /\ ingested[r] <= IF r \in Keyed THEN 1 ELSE iattempts[r]
                        /\ iattempts[r] <= IngestMaxAttempts
                        /\ istatus[r] = "completed" => ingested[r] > 0
      BY DEF IngestedOnce, Ingest!IngestedOnce
    <2> QED BY DEF Ingest!JobsInv, Ingest!JobTypes, Ingest!AttemptsPaid, Ingest!IngestionsCounted
  <1> QED BY <1>1, <1>2, <1>3, PTL DEF Ingest!Spec
=============================================================================
