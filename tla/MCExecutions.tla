----------------------------- MODULE MCExecutions -----------------------------
(* The work that River does in the background: asynchronous and scheduled   *)
(* executions, the recurring schedules beside them, and the jobs of the     *)
(* ingestion service.  They share nothing, so each behaviour moves one of   *)
(* them; focus says which.                                                  *)
EXTENDS AsyncExecution, Integers, TLC

CONSTANTS e1, e2, k1, o1, o2, j1, j2, j3, j4,
          ScheduledIds, ScheduledKey, ObjectCount, Slots, Retriers, ScheduledMaxAttempts, MaxResets,
          Hour, Day, MonthDays, Moments, Requests, Catchup,
          Rows, Uploads, Keyed, IngestMaxAttempts, MaxCrashes,
          Foci

VARIABLES exec, decided, job, asked, resets,
          now, schedule, made,
          istatus, iattempts, failedRows, ingested, ijstate, ijattempt, ipc, copy, crashes,
          focus

Scheduled == INSTANCE ScheduledExecutions
Recurring == INSTANCE RecurringSchedule
Ingest == INSTANCE IngestJobs WITH MaxAttempts <- IngestMaxAttempts, status <- istatus, attempts <- iattempts,
            jstate <- ijstate, jattempt <- ijattempt, pc <- ipc

\* Two rows of each kind per execution: uniqueness is what keeps one unused.
MCExecOf == [j \in Jobs |-> IF j \in {j1, j2} THEN e1 ELSE e2]

\* All requests carry the same idempotency key.
MCKeyOf == [e \in Executions |-> k1]

Request(f, z, minute, time, weekday, dom) ==
  [enabled |-> TRUE, frequency |-> f, zone |-> z, minute |-> minute, time |-> time, weekday |-> weekday, dom |-> dom]
Zones == {-1, 0, 3}
MCRequests ==
  {Request("hourly", z, m, 0, 0, 0) : z \in Zones, m \in 0..2}
    \cup {Request(f, z, 0, t, 0, 0) : f \in {"", "daily"}, z \in Zones, t \in {0, 3}}
    \cup {Request("weekly", z, 0, t, w, 0) : z \in Zones, t \in {0, 3}, w \in {0, 3}}
    \cup {Request("monthly", z, 0, t, 0, d) : z \in Zones, t \in {0, 3}, d \in {1, 28, 30, 31}}
    \cup {Request("yearly", 0, 0, 0, 0, 0), [enabled |-> FALSE]}
\* August to May; the moments are around the ends of January, February
\* and March.
MCMonthDays == <<31, 30, 31, 30, 31, 31, 28, 31, 30, 31>>
MCMoments == UNION {(d * Day)..(d * Day + Day - 1) : d \in {181, 182, 183, 184, 210, 211, 212, 213, 242, 243}}
MCScheduledKey == [x \in ScheduledIds |-> "k"]

schedVars == <<exec, decided, job, asked, resets>>
recurVars == <<now, schedule, made>>
ingestVars == <<istatus, iattempts, failedRows, ingested, ijstate, ijattempt, ipc, copy, crashes>>

MCInit ==
  /\ focus \in Foci
  /\ Init
  /\ Scheduled!ScheduledInit
  /\ IF focus = "recurring" THEN Recurring!ScheduleInit ELSE now = 0 /\ schedule = Recurring!Disabled /\ made = {}
  /\ Ingest!Init

MCNext ==
  /\ UNCHANGED focus
  /\ \/ focus = "async" /\ Next /\ UNCHANGED <<schedVars, recurVars, ingestVars>>
     \/ focus = "scheduled" /\ Scheduled!ScheduledNext /\ UNCHANGED <<vars, recurVars, ingestVars>>
     \/ focus = "recurring" /\ Recurring!ScheduleNext /\ UNCHANGED <<vars, schedVars, ingestVars>>
     \/ focus = "ingest" /\ Ingest!Next /\ UNCHANGED <<vars, schedVars, recurVars>>

MCSpec ==
  /\ MCInit
  /\ [][MCNext]_<<vars, schedVars, recurVars, ingestVars, focus>>
  /\ Fairness /\ Scheduled!ScheduledFairness /\ Ingest!Fairness

\* The properties of the instances; their modules explain them.

\* A scheduled execution is completed only when all of its objects have been
\* decided, stays completed or failed until an operator resets it, and decides
\* an object at most once per attempt that it and its resets allow.
CompletedIsWhole == Scheduled!CompletedIsWhole

\* The next run shown to a reader is the first occurrence of the schedule from
\* now on, and what is due are the latest occurrences without an execution.
OccurrencesAgree == Recurring!OccurrencesAgree

\* A deferred ingest with an idempotency key writes its record once, however
\* often its job is repeated.
IngestedOnce == Ingest!IngestedOnce

\* The jobs of every service come to rest again and again: no worker, crash,
\* rescue or repeated request leaves one going round for ever.
EveryJobSettles == []<>(JobsSettled /\ Scheduled!JobsSettled /\ Ingest!JobsSettled)
=============================================================================
