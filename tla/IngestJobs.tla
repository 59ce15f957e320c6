------------------------------ MODULE IngestJobs ------------------------------
(***************************************************************************)
(* The background work of the ingestion service: upload logs (CSV files)   *)
(* and deferred ingests (single records put off when the write path is     *)
(* saturated).  Each row has one River job; the worker starts an attempt,  *)
(* ingests (one transaction, see RecordIngest) and updates the row.  The   *)
(* two services have the same shape; "waiting" is 'uploaded' of an upload  *)
(* log and 'queued' of a deferred ingest.                                  *)
(***************************************************************************)
EXTENDS River

CONSTANTS
    Rows,
    Uploads,       \* the rows that are upload logs; the others are deferred
    Keyed,         \* deferred ingests whose request carried an Idempotency-Key
    MaxAttempts,   \* WORKER_MAX_ATTEMPTS, of the row and of the job
    MaxCrashes     \* bound: deaths of a worker process

VARIABLES
    status,      \* per row; "absent" before it is created
    attempts,    \* attempt_count
    failedRows,  \* upload logs: failed_rows counts the file's rows (else it is 0)
    ingested,    \* how often the row's records were committed
    jstate, jattempt,
    pc,          \* the worker: "start", "ingest", then the verdict, then "ok" or "err"
    copy,        \* the worker's copy of attempts and failedRows
    crashes

rowVars == <<status, attempts, failedRows>>
vars == <<rowVars, ingested, jstate, jattempt, pc, copy, crashes>>

Verdicts == {"completed", "invalid", "retry"}

Init ==
    /\ status = [r \in Rows |-> "absent"]
    /\ attempts = [r \in Rows |-> 0]
    /\ failedRows = [r \in Rows |-> FALSE]
    /\ ingested = [r \in Rows |-> 0]
    /\ jstate = [r \in Rows |-> "none"]
    /\ jattempt = [r \in Rows |-> 0]
    /\ pc = [r \in Rows |-> "idle"]
    /\ copy = [r \in Rows |-> [attempts |-> 0, failedRows |-> FALSE]]
    /\ crashes = 0

-----------------------------------------------------------------------------
\* MaxAttempts of the job: max(1, WORKER_MAX_ATTEMPTS).
JobMaxAttempts == MaxAttempts

\* The row and its job in one transaction.
Insert(r) ==
    /\ status[r] = "absent"
    /\ status' = [status EXCEPT ![r] = "waiting"]
    /\ jstate' = [jstate EXCEPT ![r] = "available"]
    /\ UNCHANGED <<attempts, failedRows, ingested, jattempt, pc, copy, crashes>>

CreateUpload(r) == r \in Uploads /\ Insert(r)
CreateDeferred(r) == r \notin Uploads /\ Insert(r)

Work(r) ==
    /\ jstate[r] \in ReadyStates
    /\ jstate' = [jstate EXCEPT ![r] = "running"]
    /\ jattempt' = [jattempt EXCEPT ![r] = @ + 1]
    /\ pc' = [pc EXCEPT ![r] = "start"]
    /\ UNCHANGED <<rowVars, ingested, copy, crashes>>

Goto(r, where) == pc' = [pc EXCEPT ![r] = where]

\* StartAttempt: whatever the row's status.
StartAttempt(r) ==
    /\ pc[r] = "start"
    /\ status' = [status EXCEPT ![r] = "processing"]
    /\ attempts' = [attempts EXCEPT ![r] = @ + 1]
    /\ copy' = [copy EXCEPT ![r] = [attempts |-> attempts[r] + 1, failedRows |-> failedRows[r]]]
    /\ Goto(r, "ingest")
    /\ UNCHANGED <<failedRows, ingested, jstate, jattempt, crashes>>

StartFails(r) ==
    /\ pc[r] = "start"
    /\ Goto(r, "err")
    /\ UNCHANGED <<rowVars, ingested, jstate, jattempt, copy, crashes>>

\* The key of a deferred ingest is not passed on.
CommitsUnkeyed(r) == TRUE

\* Does the ingestion write anything?  A keyed request is replayed the second time.
Commits(r) == r \in Keyed => ingested[r] = 0

\* Ingest or BatchIngest succeeds; its answer may be lost with the connection.
IngestCommits(r, seen) ==
    /\ pc[r] = "ingest"
    /\ ingested' = [ingested EXCEPT ![r] = IF Commits(r) THEN @ + 1 ELSE @]
    /\ copy' = [copy EXCEPT ![r].failedRows = @ \/ (~seen /\ r \in Uploads)]
    /\ Goto(r, IF seen THEN "completed" ELSE "retry")
    /\ UNCHANGED <<rowVars, jstate, jattempt, crashes>>

\* Validation errors.
IngestInvalid(r) ==
    /\ pc[r] = "ingest"
    /\ copy' = [copy EXCEPT ![r].failedRows = r \in Uploads]
    /\ Goto(r, "invalid")
    /\ UNCHANGED <<rowVars, ingested, jstate, jattempt, crashes>>

\* The payload cannot be decoded, or nothing was committed.
IngestFails(r, decoded) ==
    /\ pc[r] = "ingest"
    /\ copy' = [copy EXCEPT ![r].failedRows = @ \/ (decoded /\ r \in Uploads)]
    /\ Goto(r, "retry")
    /\ UNCHANGED <<rowVars, ingested, jstate, jattempt, crashes>>

\* The status the attempt leaves behind.
Outcome(r) ==
    CASE pc[r] = "completed" -> "completed"
      [] pc[r] = "invalid" -> "failed"
      [] pc[r] = "retry" -> IF copy[r].attempts < MaxAttempts THEN "waiting" ELSE "failed"

\* Update writes the whole copy back.  For a retry the worker process also calls
\* its enqueuer, which is the Noop one there: no job is added.
Update(r) ==
    /\ pc[r] \in Verdicts
    /\ status' = [status EXCEPT ![r] = Outcome(r)]
    /\ attempts' = [attempts EXCEPT ![r] = copy[r].attempts]
    /\ failedRows' = [failedRows EXCEPT ![r] = copy[r].failedRows]
    /\ Goto(r, "ok")
    /\ UNCHANGED <<ingested, jstate, jattempt, copy, crashes>>

UpdateFails(r) ==
    /\ pc[r] \in Verdicts
    /\ Goto(r, "err")
    /\ UNCHANGED <<rowVars, ingested, jstate, jattempt, copy, crashes>>

JobReturned(r) ==
    /\ pc[r] \in {"ok", "err"}
    /\ jstate' = [jstate EXCEPT ![r] =
                    IF pc[r] = "ok" THEN "completed" ELSE AfterFailure(jattempt[r], JobMaxAttempts)]
    /\ Goto(r, "idle")
    /\ UNCHANGED <<rowVars, ingested, jattempt, copy, crashes>>

Crash(r) ==
    /\ pc[r] \notin {"idle", "dead"}
    /\ crashes < MaxCrashes
    /\ crashes' = crashes + 1
    /\ Goto(r, "dead")
    /\ UNCHANGED <<rowVars, ingested, jstate, jattempt, copy>>

Rescue(r) ==
    /\ pc[r] = "dead"
    /\ jstate' = [jstate EXCEPT ![r] = AfterFailure(jattempt[r], JobMaxAttempts)]
    /\ Goto(r, "idle")
    /\ UNCHANGED <<rowVars, ingested, jattempt, copy, crashes>>

-----------------------------------------------------------------------------
Attempt(r) ==
    \/ StartAttempt(r) \/ StartFails(r)
    \/ IngestCommits(r, TRUE) \/ IngestCommits(r, FALSE)
    \/ IngestInvalid(r) \/ IngestFails(r, TRUE) \/ IngestFails(r, FALSE)
    \/ Update(r) \/ UpdateFails(r)

RunLog(r) == r \in Uploads /\ Attempt(r)
RunDeferredIngest(r) == r \notin Uploads /\ Attempt(r)

Step(r) ==
    \/ Work(r) \/ RunLog(r) \/ RunDeferredIngest(r)
    \/ JobReturned(r) \/ Rescue(r)

Next == \E r \in Rows : CreateUpload(r) \/ CreateDeferred(r) \/ Step(r) \/ Crash(r)

Spec == Init /\ [][Next]_vars

\* River hands jobs to the workers, a worker that lives goes on, and the rescuer
\* finds the jobs of dead ones.
Fairness == \A r \in Rows : WF_vars(Step(r))

FairSpec == Spec /\ Fairness

-----------------------------------------------------------------------------
\* However often its job is repeated, a deferred ingest with an idempotency key
\* writes its record once, and another row once per attempt at most; attempts
\* are bounded although StartAttempt takes a row in any status, and a row is
\* never completed without having been ingested.
IngestedOnce ==
    \A r \in Rows :
        /\ ingested[r] <= IF r \in Keyed THEN 1 ELSE attempts[r]
        /\ attempts[r] <= MaxAttempts
        /\ status[r] = "completed" => ingested[r] > 0

\* Why IngestedOnce holds, as an inductive invariant: a row has one job, which
\* has a worker exactly while it runs; every attempt of the row is paid for by
\* one of the job; the worker's copy is the row's; and an attempt that has not
\* ingested yet is not counted among those that have.
PCs == {"idle", "start", "ingest", "ok", "err", "dead"} \cup Verdicts

JobTypes ==
    /\ status \in [Rows -> {"absent", "waiting", "processing", "completed", "failed"}]
    /\ attempts \in [Rows -> Nat] /\ failedRows \in [Rows -> BOOLEAN]
    /\ ingested \in [Rows -> Nat]
    /\ jstate \in [Rows -> JobStates] /\ jattempt \in [Rows -> Nat]
    /\ pc \in [Rows -> PCs]
    /\ copy \in [Rows -> [attempts : Nat, failedRows : BOOLEAN]]

AttemptsPaid(r) ==
    /\ jstate[r] = "running" <=> pc[r] # "idle"
    /\ status[r] = "absent" => jstate[r] = "none" /\ jattempt[r] = 0
    /\ jattempt[r] <= MaxAttempts
    /\ jstate[r] \in ReadyStates => jattempt[r] < MaxAttempts
    /\ attempts[r] <= jattempt[r]
    /\ pc[r] = "start" => attempts[r] < jattempt[r]
    /\ pc[r] \in {"ingest"} \cup Verdicts => copy[r].attempts = attempts[r]

IngestionsCounted(r) ==
    /\ ingested[r] <= IF r \in Keyed THEN 1 ELSE attempts[r]
    /\ pc[r] = "ingest" /\ r \notin Keyed => ingested[r] < attempts[r]
    /\ "completed" \in {pc[r], status[r]} => ingested[r] > 0

JobsInv == JobTypes /\ \A r \in Rows : AttemptsPaid(r) /\ IngestionsCounted(r)

\* No job waits or runs.
JobsSettled == \A r \in Rows : jstate[r] \notin ReadyStates \cup {"running"}
=============================================================================
