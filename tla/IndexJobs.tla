------------------------------ MODULE IndexJobs ------------------------------
(***************************************************************************)
(* The index jobs of the data-model service: the River worker that builds  *)
(* the indexes that captions and navigation options ask for, and the       *)
(* reconciliation that looks for missing ones and schedules repairs.       *)
(*                                                                         *)
(* Every call the worker and the reconciliation make is a transaction of   *)
(* its own.  A job is named by its dedupe key; River knows one job per key.*)
(***************************************************************************)
EXTENDS DataModel

CONSTANTS Keys,            \* the jobs that can exist
          RunnerAttempts,  \* INDEX_WORKER_MAX_ATTEMPTS
          RepairAttempts   \* the attempts the reconciliation gives its jobs

VARIABLES work, rc, runs, lost

jobVars == <<work, rc, runs, lost>>

RiverAttempts(k) == IF k.type = "repair" THEN RepairAttempts ELSE RunnerAttempts
IndexOf(k) == [table |-> TableName[k.table], columns |-> k.columns]
Live(k) == RiverState(db, k) \in {"available", "retryable", "running"}

JobsInit == work = <<>> /\ rc = Idle /\ runs = 0 /\ lost = {}
-----------------------------------------------------------------------------
Quiet == UNCHANGED <<menu, req, used, asked, commits, late, rc, runs>>

Stop(d, k, state) == [d EXCEPT !.river[k].state = state]
Error(d, k) == Stop(d, k, AfterFailure(d.river[k].attempt, RiverAttempts(k)))
SetStatus(d, k, status) == IF k \in DOMAIN d.jobs THEN [d EXCEPT !.jobs[k].status = status] ELSE d

\* River hands the job to IndexJobWorker.Work.
Take(k) ==
  /\ k \in menu.worked
  /\ RiverState(db, k) \in ReadyStates
  /\ db' = [db EXCEPT !.river[k].state = "running", !.river[k].attempt = @ + 1]
  /\ work' = With(work, k, [step |-> "taken", attempts |-> 0])
  /\ UNCHANGED lost /\ Quiet

At(k, step) == k \in DOMAIN work /\ work[k].step = step
Step(k, d, w) == db' = d /\ work' = [work EXCEPT ![k] = w] /\ UNCHANGED lost /\ Quiet
Done(k, d) == db' = d /\ work' = Without(work, {k}) /\ UNCHANGED lost /\ Quiet

\* The attempt ends and the row does not hear of it.  lost has the jobs for
\* which that matters: the row's count of attempts stays behind River's, or
\* the attempt was River's last.
LoseAttempt(k) ==
  /\ db' = Error(db, k)
  /\ work' = Without(work, {k})
  /\ lost' = IF work[k].step = "taken" \/ RiverState(db', k) = "discarded" THEN lost \cup {k} ELSE lost
  /\ Quiet

\* StartAttempt has no condition on the status; without a row it is an error.
StartAttempt(k) ==
  /\ At(k, "taken")
  /\ IF k \in DOMAIN db.jobs
     THEN Step(k, [db EXCEPT !.jobs[k] = [status |-> "running", attempts |-> @.attempts + 1]],
                  [step |-> "started", attempts |-> db.jobs[k].attempts + 1])
     ELSE Done(k, Error(db, k))

failJob(d, k) == SetStatus(d, k, "failed")
markApplied(d, k) == SetStatus(d, k, "applied")

\* (Mutant: the last attempt puts the job back to pending.)
retryAlways(d, k, attempts) == SetStatus(d, k, "pending")

retryOrFail(d, k, attempts) == IF attempts < RunnerAttempts THEN SetStatus(d, k, "pending") ELSE failJob(d, k)

\* executeJob up to GetManagedIndexState.  A table that is gone, or an error of
\* these reads, fails the job for good and returns nil to River.
Look(k) ==
  /\ At(k, "started")
  /\ \/ Done(k, Stop(failJob(db, k), k, "completed"))
     \/ /\ k.table \in LiveTables(db)
        /\ IF IndexOf(k) \in db.index THEN Done(k, Stop(markApplied(db, k), k, "completed"))
           ELSE Step(k, db, [work[k] EXCEPT !.step = "build"])

CanBuild(k) == \A column \in Range(k.columns) : HasColumn(db, TableName[k.table], column)

CreateManagedIndex(k) ==
  /\ At(k, "build")
  /\ \/ /\ CanBuild(k)
        /\ Step(k, [db EXCEPT !.index = @ \cup {IndexOf(k)}], [work[k] EXCEPT !.step = "built"])
     \/ Done(k, Error(retryOrFail(db, k, work[k].attempts), k))

MarkApplied(k) ==
  /\ At(k, "built")
  /\ \/ Done(k, Stop(markApplied(db, k), k, "completed"))
     \/ LoseAttempt(k)

\* The worker process dies, or the 30 seconds of Timeout pass.
Die(k) == k \in DOMAIN work /\ LoseAttempt(k)

\* River removes finished jobs after a while.
Clean(k) ==
  /\ RiverState(db, k) \in {"completed", "discarded"}
  /\ db' = [db EXCEPT !.river = Without(@, {k})]
  /\ UNCHANGED <<work, lost>> /\ Quiet

WorkerStep(k) == Take(k) \/ StartAttempt(k) \/ Look(k) \/ CreateManagedIndex(k) \/ MarkApplied(k)
-----------------------------------------------------------------------------
(* The reconciliation: rc.todo are the indexes it found missing, rc.seen   *)
(* the jobs it listed, rc.held the repair it is about to enqueue.          *)

expectedManagedIndexes(d) ==
  {SearchKey(t, d.table[t].caption) : t \in {u \in LiveTables(d) : d.table[u].caption # NoCaption}}
    \cup {NavigationKey(n) : n \in d.navs}
missingManagedIndexes(d) ==
  {k \in expectedManagedIndexes(d) : TableName[k.table] \in DOMAIN d.phys /\ IndexOf(k) \notin d.index}

reconcileTenant ==
  /\ rc = Idle
  /\ runs < menu.runs
  /\ runs' = runs + 1
  /\ rc' = [todo |-> {JobKey(k.table, "repair", k.columns) : k \in missingManagedIndexes(db)}, seen |-> db.jobs, held |-> {}]
  /\ UNCHANGED <<dataVars, work, lost>>

Reconciling == UNCHANGED <<menu, req, used, asked, commits, late, work, runs, lost>>

\* scheduleRepairJobs, the row: an existing job is set back unless it is under
\* way, otherwise a job is created, and an error ends the run.
RepairRow ==
  /\ rc # Idle
  /\ rc.held = {}
  /\ \E k \in rc.todo :
       IF k \in DOMAIN rc.seen
       THEN IF rc.seen[k].status \in {"pending", "running"}
            THEN rc' = [rc EXCEPT !.todo = @ \ {k}] /\ UNCHANGED db
            ELSE rc' = [rc EXCEPT !.todo = @ \ {k}, !.held = {k}] /\ db' = SetStatus(db, k, "pending")
       ELSE IF k.table \in LiveTables(db) /\ k \notin DOMAIN db.jobs
            THEN /\ rc' = [rc EXCEPT !.todo = @ \ {k}, !.held = {k}]
                 /\ db' = [db EXCEPT !.jobs = With(@, k, [status |-> "pending", attempts |-> 0])]
            ELSE rc' = Idle /\ UNCHANGED db
  /\ Reconciling

\* The insert into River, without a transaction.
RepairEnqueue ==
  /\ rc # Idle
  /\ \E k \in rc.held : db' = enqueue(db, k)
  /\ rc' = [rc EXCEPT !.held = {}]
  /\ Reconciling

\* The run is over, or its process dies.
ReconcileEnds ==
  /\ rc # Idle
  /\ rc' = Idle
  /\ UNCHANGED <<dataVars, work, runs, lost>>

ReconcileStep == reconcileTenant \/ RepairRow \/ RepairEnqueue \/ ReconcileEnds

JobsNext == (\E k \in Keys : WorkerStep(k) \/ Die(k) \/ Clean(k)) \/ ReconcileStep

Next == (DataNext /\ UNCHANGED jobVars) \/ JobsNext

vars == <<dataVars, jobVars>>

\* River runs every job that is ready, and a worker that has a job goes on.
Fairness == \A k \in Keys : WF_vars(WorkerStep(k))

SpecInit == Init /\ JobsInit
Spec == SpecInit /\ [][Next]_vars /\ Fairness
-----------------------------------------------------------------------------
Open(k) == k \in DOMAIN db.jobs /\ db.jobs[k].status \in {"pending", "running"}

\* A job that River has, and that workers work on, is applied, failed or gone
\* in the end, retries, repairs and schema changes notwithstanding: the row and
\* River agree on when to give up, unless an attempt that counts was lost
\* (RunJob, retryOrFail and the attempts of the enqueuer).
JobsSettle == \A k \in Keys : k \in menu.worked /\ Open(k) /\ Live(k) ~> ~Open(k) \/ k \in lost

\* Every job that is asked for or set back to pending is worked off, so that
\* the repairs that the reconciliation schedules are made (README.md: "reconcile
\* detects missing managed indexes and schedules repair jobs automatically").
RepairsRun == \A k \in Keys : k \in menu.worked /\ Open(k) /\ rc = Idle ~> ~Open(k) \/ k \in lost
=============================================================================
