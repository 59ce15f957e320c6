------------------------- MODULE ContinuousScreening -------------------------
(***************************************************************************)
(* Continuous screening: monitored objects are screened when they are      *)
(* created, when somebody asks again, and when a dataset update asks for   *)
(* all objects of a provider.  One configuration, its objects, and one     *)
(* dataset update job.                                                     *)
(*                                                                         *)
(* Timestamps are versions: every write of a row sets updated_at anew.     *)
(***************************************************************************)
EXTENDS River, ProviderSearch

CONSTANTS
    Objects,
    IntakeAttempts,     \* IntakeMaxAttempts
    RescreenLimit,      \* 500
    Catalogs,           \* what a provider may publish: dataset names -> versions
    NoVersion,          \* the empty text
    MaxRequests, MaxConfigEdits, MaxMonitorFaults, MaxRecord, MaxDatasetRetries   \* bounds

VARIABLES
    object,     \* monitored_objects: [st, at]; want is a ghost: the record when it was asked for
    config,     \* continuous_configs: [st, at]; st is "on", "off" or "gone"
    record,     \* the ingested record of every object, as a version
    mjobs,      \* per object: a sequence number -> its River job
    run,        \* per object and job: what its worker has read
    runs,       \* continuous_runs with their screenings: [o, record, want]
    dataset,    \* the dataset_update_jobs row: [st, job, todo]
    dretry,     \* retries of it that have read it as failed and not yet written
    dretries,
    clock,      \* the last updated_at given
    mfaults

monitorVars == <<object, config, record, mjobs, run, runs, dataset, dretry, dretries, clock, mfaults>>
datasetVars == <<dataset, dretry, dretries>>

Generations == 1 .. MaxRequests
NotRunning == [pc |-> "idle", at |-> 0, config |-> 0, record |-> 0]
Unknown == [st |-> "none", at |-> 0, want |-> 0]

MonitorInit ==
    /\ object = [o \in Objects |-> Unknown]
    /\ config = [st |-> "on", at |-> 0]
    /\ record = [o \in Objects |-> 0]
    /\ mjobs = [o \in Objects |-> [g \in Generations |-> [state |-> "none", attempt |-> 0]]]
    /\ run = [o \in Objects |-> [g \in Generations |-> NotRunning]]
    /\ runs = {}
    /\ dataset = [st |-> "none", job |-> "none", todo |-> {}] /\ dretry = 0 /\ dretries = 0
    /\ clock = 0 /\ mfaults = 0

-----------------------------------------------------------------------------
Requests(o) == Cardinality({g \in Generations : mjobs[o][g].state # "none"})

\* (Mutant: unique jobs, as the other enqueuers have them.)
EnqueueUnique(o) ==
    mjobs' = IF \E g \in Generations : mjobs[o][g].state \in UniqueStates
               THEN mjobs
               ELSE [mjobs EXCEPT ![o][Requests(o) + 1] = [state |-> "available", attempt |-> 0]]

\* Not unique: every request is a job of its own.
EnqueueMonitored(o) ==
    mjobs' = [mjobs EXCEPT ![o][Requests(o) + 1] = [state |-> "available", attempt |-> 0]]

\* The row pending and its job, in one transaction.
Ask(o) ==
    /\ Requests(o) < MaxRequests
    /\ clock' = clock + 1
    /\ object' = [object EXCEPT ![o] = [st |-> "pending", at |-> clock + 1, want |-> record[o]]]
    /\ EnqueueMonitored(o)

\* CreateMonitoredObject.
CreateMonitoredObject(o) ==
    /\ object[o].st = "none" /\ config.st # "gone"
    /\ Ask(o)
    /\ UNCHANGED <<config, record, run, runs, datasetVars, mfaults>>

\* RequeueMonitoredObject.
RequeueMonitoredObject(o) ==
    /\ object[o].st \in {"pending", "active"}
    /\ Ask(o)
    /\ UNCHANGED <<config, record, run, runs, datasetVars, mfaults>>

Gone == [Unknown EXCEPT !.st = "gone"]

\* DeleteMonitoredObject: refused by the foreign key of its runs.
DeleteMonitoredObject(o) ==
    /\ object[o].st # "none" /\ \A r \in runs : r.o # o
    /\ object' = [object EXCEPT ![o] = Gone]
    /\ UNCHANGED <<config, record, mjobs, run, runs, datasetVars, clock, mfaults>>

\* UpdateContinuousConfig, and DeleteContinuousConfig, which takes the objects
\* with it and is refused once there are runs.
EditConfig ==
    /\ config.st # "gone" /\ config.at < MaxConfigEdits
    /\ \E st \in {"on", "off", "gone"} :
          /\ st = "gone" => runs = {}
          /\ config' = [st |-> st, at |-> config.at + 1]
          /\ object' = IF st = "gone" THEN [o \in Objects |-> Gone] ELSE object
    /\ UNCHANGED <<record, mjobs, run, runs, datasetVars, clock, mfaults>>

\* The ingestion service writes the record.
RecordChanges(o) ==
    /\ record[o] < MaxRecord
    /\ record' = [record EXCEPT ![o] = @ + 1]
    /\ UNCHANGED <<object, config, mjobs, run, runs, datasetVars, clock, mfaults>>

-----------------------------------------------------------------------------
MonitorJobEnds(o, g, state) ==
    /\ mjobs' = [mjobs EXCEPT ![o][g].state = state]
    /\ run' = [run EXCEPT ![o][g] = NotRunning]

JobFails(o, g) == MonitorJobEnds(o, g, AfterFailure(mjobs[o][g].attempt, IntakeAttempts))

\* RunMonitoredObject reads the row; nothing to do unless it is pending.
RunMonitoredObject(o, g) ==
    /\ mjobs[o][g].state \in ReadyStates
    /\ LET attempt == mjobs[o][g].attempt + 1
           ends == IF object[o].st = "gone" THEN AfterFailure(attempt, IntakeAttempts) ELSE "completed"
       IN  IF object[o].st = "pending"
             THEN /\ mjobs' = [mjobs EXCEPT ![o][g] = [state |-> "running", attempt |-> attempt]]
                  /\ run' = [run EXCEPT ![o][g] = [NotRunning EXCEPT !.pc = "read", !.at = object[o].at]]
             ELSE /\ mjobs' = [mjobs EXCEPT ![o][g] = [state |-> ends, attempt |-> attempt]]
                  /\ UNCHANGED run
    /\ UNCHANGED <<object, config, record, runs, datasetVars, clock, mfaults>>

\* processMonitoredObject before its transaction: the configuration and the record.
ReadRecord(o, g) ==
    /\ run[o][g].pc = "read"
    /\ IF config.st = "gone"
         THEN JobFails(o, g)
         ELSE /\ run' = [run EXCEPT ![o][g].pc = "ready", ![o][g].config = config.at, ![o][g].record = record[o]]
              /\ UNCHANGED mjobs
    /\ UNCHANGED <<object, config, record, runs, datasetVars, clock, mfaults>>

\* (Mutant: the row is locked, but updated_at is not compared.)
UnchangedStatus(o, g) == config.at = run[o][g].config

\* What the transaction compares with the rows read before it.
Unchanged(o, g) == object[o].at = run[o][g].at /\ config.at = run[o][g].config

\* The transaction: a row that is no longer pending needs nothing; one that was
\* written since, or a configuration disabled or written since, fails the job.
CommitRun(o, g) ==
    /\ run[o][g].pc = "ready"
    /\ \/ /\ object[o].st = "active"
          /\ MonitorJobEnds(o, g, "completed") /\ UNCHANGED <<object, runs, clock>>
       \/ /\ object[o].st # "active"
          /\ object[o].st = "gone" \/ config.st # "on" \/ ~Unchanged(o, g)
          /\ JobFails(o, g) /\ UNCHANGED <<object, runs, clock>>
       \/ /\ object[o].st \notin {"active", "gone"} /\ config.st = "on" /\ Unchanged(o, g)
          /\ MonitorJobEnds(o, g, "completed")
          /\ clock' = clock + 1
          /\ object' = [object EXCEPT ![o].st = "active", ![o].at = clock + 1]
          /\ runs' = runs \cup {[o |-> o, record |-> run[o][g].record, want |-> object[o].want]}
    /\ UNCHANGED <<config, record, datasetVars, mfaults>>

\* The worker dies, or the database fails it.
MonitorWorkerFails(o, g) ==
    /\ run[o][g].pc # "idle" /\ mfaults < MaxMonitorFaults
    /\ mfaults' = mfaults + 1
    /\ JobFails(o, g)
    /\ UNCHANGED <<object, config, record, runs, datasetVars, clock>>

-----------------------------------------------------------------------------
\* CreateDatasetUpdateJob.
CreateDatasetUpdateJob ==
    /\ dataset.st = "none"
    /\ dataset' = [dataset EXCEPT !.st = "pending", !.job = "available"]
    /\ UNCHANGED <<object, config, record, mjobs, run, runs, dretry, dretries, clock, mfaults>>

\* RetryDatasetUpdateJob reads the row and refuses all but a failed one.
RetryDatasetUpdateJob ==
    /\ dataset.st = "failed" /\ dretries < MaxDatasetRetries
    /\ dretry' = dretry + 1 /\ dretries' = dretries + 1
    /\ UNCHANGED <<object, config, record, mjobs, run, runs, dataset, clock, mfaults>>

\* Its transaction; the finished job of the row absorbs the new one.
CommitDatasetRetry ==
    /\ dretry > 0 /\ dretry' = dretry - 1 /\ UNCHANGED dretries
    /\ dataset' = [dataset EXCEPT !.st = "pending", !.job = IF @ \in UniqueStates THEN @ ELSE "available"]
    /\ UNCHANGED <<object, config, record, mjobs, run, runs, clock, mfaults>>

\* River removes the finished job.
CleanDatasetJob ==
    /\ dataset.job \in {"completed", "discarded"}
    /\ dataset' = [dataset EXCEPT !.job = "none"]
    /\ UNCHANGED <<object, config, record, mjobs, run, runs, dretry, dretries, clock, mfaults>>

\* stringMapsEqual: a missing key reads as the empty text.
StringMapsEqual(l, r) ==
    /\ Cardinality(DOMAIN l) = Cardinality(DOMAIN r)
    /\ \A k \in DOMAIN l : l[k] = IF k \in DOMAIN r THEN r[k] ELSE NoVersion

\* GetDatasetDelta: a cursor without datasets is a first run.
DatasetChanged(cursor, current) == DOMAIN cursor # {} /\ ~StringMapsEqual(cursor, current)

\* syncDatasetDelta and the other kinds of job, of which one lists the objects.
Rescreens ==
    {kind = "rescreen_monitored_objects" \/ (kind = "dataset_delta_rescreen" /\ DatasetChanged(cursor, current)) :
        kind \in {"catalog_sync", "dataset_delta_rescreen", "rescreen_monitored_objects"},
        cursor \in Catalogs, current \in Catalogs}

\* processJob: the row is processing, and the active objects are listed.
StartDatasetJob ==
    /\ dataset.job = "available" /\ dataset.st = "pending"
    /\ LET active == {o \in Objects : object[o].st = "active"}
       IN  \E lists \in Rescreens, todo \in SUBSET active :
              /\ IF lists THEN todo = active \/ Cardinality(todo) = RescreenLimit ELSE todo = {}
              /\ Cardinality(todo) <= RescreenLimit
              /\ dataset' = [st |-> "processing", job |-> "running", todo |-> todo]
    /\ UNCHANGED <<object, config, record, mjobs, run, runs, dretry, dretries, clock, mfaults>>

failJob == dataset' = [dataset EXCEPT !.st = "failed", !.job = "completed", !.todo = {}]

\* rescreenMonitoredObjects: each object in a transaction of its own, with the
\* row as it was listed.
RescreenObject(o) ==
    /\ dataset.job = "running" /\ o \in dataset.todo
    /\ IF object[o].st = "gone"
         THEN /\ failJob
              /\ UNCHANGED <<object, mjobs, clock>>
         ELSE /\ Ask(o)
              /\ dataset' = [dataset EXCEPT !.todo = @ \ {o}]
    /\ UNCHANGED <<config, record, run, runs, dretry, dretries, mfaults>>

\* The provider failed, or the last object is requeued; the job never fails.
EndDatasetJob ==
    /\ dataset.job = "running"
    /\ \/ dataset.todo = {} /\ dataset' = [dataset EXCEPT !.st = "completed", !.job = "completed"]
       \/ failJob
    /\ UNCHANGED <<object, config, record, mjobs, run, runs, dretry, dretries, clock, mfaults>>

\* The worker dies: its one attempt is spent and the row stays processing.
DatasetWorkerDies ==
    /\ dataset.job = "running" /\ mfaults < MaxMonitorFaults
    /\ mfaults' = mfaults + 1
    /\ dataset' = [dataset EXCEPT !.job = "discarded", !.todo = {}]
    /\ UNCHANGED <<object, config, record, mjobs, run, runs, dretry, dretries, clock>>

-----------------------------------------------------------------------------
MonitorWorker(o, g) == RunMonitoredObject(o, g) \/ ReadRecord(o, g) \/ CommitRun(o, g)

MonitorNext ==
    \/ \E o \in Objects :
          \/ CreateMonitoredObject(o) \/ RequeueMonitoredObject(o) \/ DeleteMonitoredObject(o)
          \/ RecordChanges(o) \/ RescreenObject(o)
          \/ \E g \in Generations : MonitorWorker(o, g) \/ MonitorWorkerFails(o, g)
    \/ EditConfig \/ CreateDatasetUpdateJob \/ RetryDatasetUpdateJob \/ CleanDatasetJob
    \/ CommitDatasetRetry \/ StartDatasetJob \/ EndDatasetJob \/ DatasetWorkerDies

MonitorFairness == \A o \in Objects, g \in Generations : WF_monitorVars(MonitorWorker(o, g))

-----------------------------------------------------------------------------
\* A screening is made of a record no older than the request it answers, though
\* the record is read before the transaction that answers it, and by jobs that
\* may belong to an earlier request.
FreshRecord == \A r \in runs : r.record >= r.want

\* WHAT WAS ASKED IS SCREENED: no monitored request is answered with an older
\* record than it asked for, and a result covers all responses of the provider
\* in whatever order they are walked.
ScreenedAsAsked == FreshRecord /\ ResultIsComplete

\* Why FreshRecord holds, as an inductive invariant: a request never asks for
\* more than there is, and a worker that finds the row as it read it has read a
\* record as new as the row asks for.
MonitorTypes ==
    /\ object \in [Objects -> [st : {"none", "pending", "active", "gone"}, at : Nat, want : Nat]]
    /\ config \in [st : {"on", "off", "gone"}, at : Nat]
    /\ record \in [Objects -> Nat]
    /\ run \in [Objects -> [Generations -> [pc : {"idle", "read", "ready"}, at : Nat, config : Nat, record : Nat]]]
    /\ clock \in Nat

AskedFor(o) ==
    /\ object[o].want <= record[o]
    /\ object[o].at <= clock
    /\ \A g \in Generations :
          /\ run[o][g].at <= clock
          /\ run[o][g].pc = "ready" /\ object[o].at = run[o][g].at => run[o][g].record >= object[o].want

MonitorInv == MonitorTypes /\ (\A o \in Objects : AskedFor(o)) /\ FreshRecord

\* Every request is answered, the one that arrives while an earlier one runs too,
\* unless the configuration is off, or edited so often that a job is used up.
MonitoredIsScreened ==
    \A o \in Objects : object[o].st = "pending" ~>
        (object[o].st # "pending" \/ \E g \in Generations : mjobs[o][g].state = "discarded")
=============================================================================
