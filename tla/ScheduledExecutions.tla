------------------------- MODULE ScheduledExecutions -------------------------
(***************************************************************************)
(* Scheduled executions of the decision engine: a row that decides the     *)
(* objects of a scenario one after the other, the River jobs that run it,  *)
(* and the operators who ask for a retry.                                  *)
(*                                                                         *)
(* Every statement or transaction is one step; the process may die between *)
(* two of them.  Requests are named by the ids they generate.  The rows    *)
(* that recurring schedules would make are left out: nothing calls         *)
(* materializeRecurringSchedules.                                          *)
(***************************************************************************)
EXTENDS River, FiniteSets

CONSTANTS ScheduledIds,         \* ids that CreateScheduledExecution may generate
          ScheduledKey,         \* the idempotency key of each, "" for none
          ObjectCount,          \* objects of an execution
          Slots,                \* rows of river_job per execution
          Retriers,             \* concurrent callers of RetryScheduledExecution
          ScheduledMaxAttempts, \* of the row and of the job
          MaxResets             \* bound: manual retries in a behaviour

VARIABLES
  exec,      \* exec[x]: status and attempt_count of the row
  decided,   \* decided[x][i]: decisions stored for object i
  job,       \* job[x][s]: river_job state and attempt, and its worker
  asked,     \* per caller, the execution it found failed
  resets     \* manual retries of each execution

scheduledVars == <<exec, decided, job, asked, resets>>

Objects == 1..ObjectCount
NoJob == [state |-> "none", attempt |-> 0, pc |-> "idle", item |-> 0, at |-> 0]
NoCall == "none"

ScheduledInit ==
  /\ exec = [x \in ScheduledIds |-> [status |-> "absent", attempts |-> 0]]
  /\ decided = [x \in ScheduledIds |-> [i \in Objects |-> 0]]
  /\ job = [x \in ScheduledIds |-> [s \in Slots |-> NoJob]]
  /\ asked = [c \in Retriers |-> NoCall]
  /\ resets = [x \in ScheduledIds |-> 0]
-----------------------------------------------------------------------------
\* RiverScheduledExecutionEnqueuer: unique by arguments.
Unique(x, s) == job[x][s].state \in UniqueStates
EnqueueTx(x) ==
  IF \E s \in Slots : Unique(x, s) THEN UNCHANGED job
  ELSE \E s \in Slots : job' = [job EXCEPT ![x][s] = [NoJob EXCEPT !.state = "available"]]

Existing(x) ==
  {y \in ScheduledIds : exec[y].status # "absent" /\ ScheduledKey[y] = ScheduledKey[x] /\ ScheduledKey[x] # ""}

\* CreateScheduledExecution: a row of the same key is returned instead, and it
\* is that row's job which is enqueued, whatever its status.
CreateScheduledExecution(x) ==
  /\ exec[x].status = "absent" \/ x \in Existing(x)
  /\ IF Existing(x) = {}
     THEN exec' = [exec EXCEPT ![x] = [status |-> "pending", attempts |-> 0]] /\ EnqueueTx(x)
     ELSE UNCHANGED exec /\ \E y \in Existing(x) : EnqueueTx(y)
  /\ UNCHANGED <<decided, asked, resets>>

\* RetryScheduledExecution looks at the status outside its transaction.
RetryScheduledExecution(c, x) ==
  /\ asked[c] = NoCall
  /\ resets[x] < MaxResets
  /\ exec[x].status = "failed"
  /\ asked' = [asked EXCEPT ![c] = x]
  /\ UNCHANGED <<exec, decided, job, resets>>
ResetForRetry(c) ==
  LET x == asked[c]
  IN /\ x # NoCall
     /\ exec' = [exec EXCEPT ![x] = [status |-> "pending", attempts |-> 0]]
     /\ EnqueueTx(x)
     /\ resets' = [resets EXCEPT ![x] = @ + 1]
     /\ asked' = [asked EXCEPT ![c] = NoCall]
     /\ UNCHANGED decided
RetryRolledBack(c) ==
  /\ asked[c] # NoCall
  /\ asked' = [asked EXCEPT ![c] = NoCall]
  /\ UNCHANGED <<exec, decided, job, resets>>
-----------------------------------------------------------------------------
At(x, s, l) == job[x][s].pc = l
Goto(x, s, l) == job' = [job EXCEPT ![x][s].pc = l]
Status(x, status) == exec' = [exec EXCEPT ![x].status = status]

Work(x, s) ==
  /\ job[x][s].state \in ReadyStates
  /\ job' = [job EXCEPT ![x][s].state = "running", ![x][s].attempt = @ + 1, ![x][s].pc = "start"]
  /\ UNCHANGED <<exec, decided, asked, resets>>

\* (Mutant: StartAttempt without "and status = 'pending'".)
StartAnyAttempt(x, s) ==
  /\ At(x, s, "start")
  /\ exec' = [exec EXCEPT ![x] = [status |-> "running", attempts |-> @.attempts + 1]]
  /\ job' = [job EXCEPT ![x][s].pc = "run", ![x][s].item = exec[x].attempts + 1, ![x][s].at = 0]
  /\ UNCHANGED <<decided, asked, resets>>

\* StartAttempt claims a pending row; any other row is an error.
StartAttempt(x, s) ==
  /\ At(x, s, "start")
  /\ IF exec[x].status = "pending"
     THEN /\ exec' = [exec EXCEPT ![x] = [status |-> "running", attempts |-> @.attempts + 1]]
          /\ job' = [job EXCEPT ![x][s].pc = "run", ![x][s].item = exec[x].attempts + 1, ![x][s].at = 0]
     ELSE UNCHANGED exec /\ Goto(x, s, "err")
  /\ UNCHANGED <<decided, asked, resets>>

\* runScheduledExecution: every object is decided, and its decision stored, in
\* a transaction of its own.
EvaluateScenario(x, s) ==
  /\ At(x, s, "run")
  /\ job[x][s].at < ObjectCount
  /\ decided' = [decided EXCEPT ![x][job[x][s].at + 1] = @ + 1]
  /\ job' = [job EXCEPT ![x][s].at = @ + 1]
  /\ UNCHANGED <<exec, asked, resets>>

\* An evaluation fails, or already the list of the objects does.
Fails(x, s) ==
  /\ At(x, s, "run")
  /\ job[x][s].at < ObjectCount
  /\ UNCHANGED <<decided, asked, resets>>

\* (Mutant: one attempt more than the row allows.)
LastAttemptPassed(x, s) == job[x][s].item > ScheduledMaxAttempts

LastAttempt(x, s) == job[x][s].item >= ScheduledMaxAttempts

\* handleScheduledExecutionFailure: a payload that does not validate, or the
\* last attempt, fails the row; otherwise it is pending again and enqueued.
FailForGood(x, s) == Fails(x, s) /\ Status(x, "failed") /\ Goto(x, s, "event")
RetryLater(x, s) ==
  /\ Fails(x, s)
  /\ ~LastAttempt(x, s)
  /\ Status(x, "pending")
  /\ Goto(x, s, "ok")   \* the enqueue is absorbed by the job that is running

\* UpdateStatus has no condition on the status.
UpdateStatus(x, s) ==
  /\ At(x, s, "run")
  /\ job[x][s].at = ObjectCount
  /\ Status(x, "completed")
  /\ Goto(x, s, "event")
  /\ UNCHANGED <<decided, asked, resets>>

writeExecutionLifecycleEvents(x, s) ==
  /\ At(x, s, "event")
  /\ Goto(x, s, "ok")
  /\ UNCHANGED <<exec, decided, asked, resets>>

\* A statement of the worker fails and the worker returns the error.
StatementFails(x, s) ==
  /\ job[x][s].pc \in {"start", "run", "event"}
  /\ Goto(x, s, "err")
  /\ UNCHANGED <<exec, decided, asked, resets>>

\* River records what the worker returned; a worker that died is an error.
JobReturned(x, s) ==
  /\ job[x][s].pc \in {"ok", "err", "dead"}
  /\ job' = [job EXCEPT ![x][s] = [NoJob EXCEPT
       !.attempt = job[x][s].attempt,
       !.state = IF At(x, s, "ok") THEN "completed" ELSE AfterFailure(job[x][s].attempt, ScheduledMaxAttempts)]]
  /\ UNCHANGED <<exec, decided, asked, resets>>
Crash(x, s) ==
  /\ job[x][s].pc \notin {"idle", "dead"}
  /\ Goto(x, s, "dead")
  /\ UNCHANGED <<exec, decided, asked, resets>>
CleanJob(x, s) ==
  /\ job[x][s].state \in {"completed", "discarded"}
  /\ job' = [job EXCEPT ![x][s] = NoJob]
  /\ UNCHANGED <<exec, decided, asked, resets>>

WorkerStep(x, s) ==
  \/ StartAttempt(x, s) \/ EvaluateScenario(x, s) \/ FailForGood(x, s) \/ RetryLater(x, s)
  \/ UpdateStatus(x, s) \/ writeExecutionLifecycleEvents(x, s) \/ StatementFails(x, s)
RiverStep(x, s) == Work(x, s) \/ JobReturned(x, s)

ScheduledNext ==
  \/ \E x \in ScheduledIds : CreateScheduledExecution(x)
  \/ \E c \in Retriers, x \in ScheduledIds : RetryScheduledExecution(c, x)
  \/ \E c \in Retriers : ResetForRetry(c) \/ RetryRolledBack(c)
  \/ \E x \in ScheduledIds, s \in Slots : WorkerStep(x, s) \/ RiverStep(x, s) \/ Crash(x, s) \/ CleanJob(x, s)

\* Workers that live go on, and River serves, completes and rescues its jobs.
ScheduledFairness ==
  \A x \in ScheduledIds, s \in Slots : WF_scheduledVars(WorkerStep(x, s)) /\ WF_scheduledVars(RiverStep(x, s))
-----------------------------------------------------------------------------
\* No job waits or runs.
JobsSettled == \A x \in ScheduledIds, s \in Slots : job[x][s].state \notin ReadyStates \cup {"running"}

\* A row is completed only when all of its objects have been decided, and a
\* row that is completed or failed stays so until an operator resets it,
\* whatever late or repeated jobs do (RunScheduledExecution).  Every object is
\* decided at most once per attempt that the row and its manual retries allow,
\* although repeated requests enqueue the execution again and again, jobs are
\* rescued, and retries start from the first object (runScheduledExecution,
\* StartAttempt).
WholeStep ==
  \A x \in ScheduledIds :
    /\ exec'[x].status = "completed" => \A i \in Objects : decided[x][i] > 0
    /\ exec[x].status \in {"completed", "failed"} /\ exec'[x].status # exec[x].status => resets'[x] > resets[x]
    /\ \A i \in Objects : decided'[x][i] <= ScheduledMaxAttempts * (1 + resets'[x])

\* Every step of RunScheduledExecution, of a retry and of River is such a step.
CompletedIsWhole == [][WholeStep]_scheduledVars

\* Why it holds, as an inductive invariant.  The row has one job that may act
\* and that job a worker exactly while it runs; whoever decides objects finds
\* the row open, with no more attempts than it was started with; and the
\* attempts counted in the row pay for the decisions made since its reset.
ScheduledTypes ==
  /\ exec \in [ScheduledIds -> [status : {"absent", "pending", "running", "completed", "failed"}, attempts : Nat]]
  /\ decided \in [ScheduledIds -> [Objects -> Nat]]
  /\ job \in [ScheduledIds -> [Slots -> [state : JobStates, attempt : Nat, item : Nat, at : 0..ObjectCount,
                                        pc : {"idle", "start", "run", "event", "ok", "err", "dead"}]]]
  /\ asked \in [Retriers -> ScheduledIds \cup {NoCall}]
  /\ resets \in [ScheduledIds -> Nat]

OneJob(x) ==
  /\ \A s, t \in Slots : Unique(x, s) /\ Unique(x, t) => s = t
  /\ \A s \in Slots : job[x][s].state = "running" <=> job[x][s].pc # "idle"

Budget(x) == ScheduledMaxAttempts * resets[x] + exec[x].attempts

AttemptsCounted(x) ==
  /\ exec[x].attempts <= ScheduledMaxAttempts
  /\ exec[x].status = "absent" => exec[x].attempts = 0
  /\ exec[x].status = "pending" => exec[x].attempts < ScheduledMaxAttempts
  /\ exec[x].status = "completed" => \A i \in Objects : decided[x][i] > 0
  /\ \A i \in Objects : decided[x][i] <= Budget(x)

RunnerKnows(x) ==
  \A s \in Slots : At(x, s, "run") =>
    /\ exec[x].status \in {"pending", "running"}
    /\ exec[x].attempts <= job[x][s].item
    /\ \A i \in Objects : IF i <= job[x][s].at THEN decided[x][i] > 0 ELSE decided[x][i] < Budget(x)

ScheduledInv == ScheduledTypes /\ \A x \in ScheduledIds : OneJob(x) /\ AttemptsCounted(x) /\ RunnerKnows(x)
=============================================================================
