-------------------------------- MODULE River --------------------------------
(***************************************************************************)
(* The River job queue, as the services of this repository use it.  River  *)
(* is a library outside the repository: what is stated here is what the    *)
(* enqueuers (UniqueOpts, MaxAttempts) and the workers (nil or error, a    *)
(* Timeout) rely on.                                                       *)
(*                                                                         *)
(* A job is a row of river_job.  "none" is a row that does not exist (never*)
(* inserted, or removed by the job cleaner); a job scheduled for later is  *)
(* "available": time is not modelled, so a delay is any delay.             *)
(***************************************************************************)
EXTENDS Naturals

JobStates == {"none", "available", "running", "retryable", "completed", "discarded"}

\* The states a worker may take a job from.
ReadyStates == {"available", "retryable"}

\* A unique job in one of these states absorbs an insert with the same
\* arguments: the insert returns no error and adds no row.  These are River's
\* defaults, which apply when UniqueOpts names no states of its own.
UniqueStates == {"available", "running", "retryable", "completed"}

\* A worker that returned an error, or died, has used up one attempt.
AfterFailure(attempt, maxAttempts) ==
    IF attempt < maxAttempts THEN "retryable" ELSE "discarded"
=============================================================================
