--------------------------- MODULE DecisionDispatch ---------------------------
(***************************************************************************)
(* What the decision engine sends after a decision: workflow executions,   *)
(* screening executions, scoring requests and outbox events.  Each is a row*)
(* written with its River job in the decision's transaction; the job reads *)
(* the row, posts it and writes the answer.  A job has one attempt, and a  *)
(* failed post is written to the row, not returned to River.               *)
(*                                                                         *)
(* DispatchFailed and DispatchedStatus of workflow executions are "failed" *)
(* and "sent" here.  A screening execution that its source manages (bound) *)
(* is written by the projection alone; see Screenings.                     *)
(***************************************************************************)
EXTENDS Naturals, River

CONSTANTS
    Items,       \* rows of the four tables
    Kind,        \* [Items -> {"workflow", "screening", "scoring", "outbox"}]
    MaxEdits     \* bound: operators' updates and retries

VARIABLES
    row,         \* status of the row; "none" before the decision
    bound,       \* projection_source_id is set
    djob,        \* the row's dispatch job, by arguments
    post,        \* of the running job: "idle", "posting", "accepted"
    received,    \* how often the receiver accepted a post of this row
    edit,        \* an operator's request that has read the row and not yet written
    edits

dispatchVars == <<row, bound, djob, post, received, edit, edits>>

ExecutionStatuses == {"pending", "queued", "sent", "completed", "failed"}

DispatchInit ==
    /\ row = [i \in Items |-> "none"]
    /\ bound = [i \in Items |-> FALSE]
    /\ djob = [i \in Items |-> "none"]
    /\ post = [i \in Items |-> "idle"]
    /\ received = [i \in Items |-> 0]
    /\ edit = [i \in Items |-> "none"]
    /\ edits = 0

-----------------------------------------------------------------------------
\* enqueue with UniqueOpts.ByArgs: an earlier job of the row absorbs the new one.
Enqueued(i) ==
    djob' = [djob EXCEPT ![i] = IF @ \in UniqueStates THEN @ ELSE "available"]

\* CreateMany and the enqueuing, in the decision's transaction.
RecordRow(i) ==
    /\ row[i] = "none"
    /\ row' = [row EXCEPT ![i] = "pending"]
    /\ Enqueued(i)
    /\ UNCHANGED <<bound, post, received, edit, edits>>

\* (Mutant: UpdateStatus without "AND projection_source_id IS NULL".)
WritableAnyRow(i) == TRUE

\* The condition of the screening table's Update and UpdateStatus; the other
\* tables have no such column, and their rows are never bound.
Writable(i) == ~bound[i]

\* UpdateStatus: no row is no error.
UpdateStatus(i, status) ==
    row' = [row EXCEPT ![i] = IF Writable(i) THEN status ELSE @]

\* Run...: the job reads its row, and has nothing to do unless it is pending.
RunRow(i) ==
    /\ djob[i] \in ReadyStates
    /\ IF row[i] = "pending"
         THEN /\ djob' = [djob EXCEPT ![i] = "running"]
              /\ post' = [post EXCEPT ![i] = "posting"]
         ELSE /\ djob' = [djob EXCEPT ![i] = "completed"]
              /\ UNCHANGED post
    /\ UNCHANGED <<row, bound, received, edit, edits>>

\* The four workers; a row of the wrong table is never theirs.
RunWorkflowExecution(i) == Kind[i] = "workflow" /\ RunRow(i)
RunScreeningExecution(i) == Kind[i] = "screening" /\ RunRow(i)
RunScoringRequest(i) == Kind[i] = "scoring" /\ RunRow(i)
RunOutboxEvent(i) == Kind[i] = "outbox" /\ RunRow(i)

\* The receiver takes the request.
Receive(i) ==
    /\ post[i] = "posting"
    /\ post' = [post EXCEPT ![i] = "accepted"]
    /\ received' = [received EXCEPT ![i] = @ + 1]
    /\ UNCHANGED <<row, bound, djob, edit, edits>>

\* A 2xx answer came back.
PostAccepted(i) ==
    /\ post[i] = "accepted"
    /\ UpdateStatus(i, "sent")
    /\ djob' = [djob EXCEPT ![i] = "completed"]
    /\ post' = [post EXCEPT ![i] = "idle"]
    /\ UNCHANGED <<bound, received, edit, edits>>

\* Any error: no URL, a refusal, a timeout before or after the receiver acted.
PostFailed(i) ==
    /\ post[i] # "idle"
    /\ UpdateStatus(i, "failed")
    /\ djob' = [djob EXCEPT ![i] = "completed"]
    /\ post' = [post EXCEPT ![i] = "idle"]
    /\ UNCHANGED <<bound, received, edit, edits>>

\* (Mutant: a second attempt.)
TwoAttempts == 2

\* The maxAttempts of the four enqueuers.
DispatchAttempts == 1

\* The worker dies, or cannot write the answer: the only attempt is spent.
DispatchLost(i) ==
    /\ post[i] # "idle"
    /\ djob' = [djob EXCEPT ![i] = AfterFailure(1, DispatchAttempts)]
    /\ post' = [post EXCEPT ![i] = "idle"]
    /\ UNCHANGED <<row, bound, received, edit, edits>>

\* River's cleaner removes a finished job, after which it absorbs no insert.
CleanDispatchJob(i) ==
    /\ djob[i] \in {"completed", "discarded"}
    /\ djob' = [djob EXCEPT ![i] = "none"]
    /\ UNCHANGED <<row, bound, post, received, edit, edits>>

-----------------------------------------------------------------------------
\* An operator's update reads the row and takes any of the statuses; the write
\* comes later.
EditStatus(i, status) ==
    /\ row[i] # "none" /\ edit[i] = "none" /\ edits < MaxEdits
    /\ edit' = [edit EXCEPT ![i] = status]
    /\ edits' = edits + 1
    /\ UNCHANGED <<row, bound, djob, post, received>>

UpdateExecutionStatus(i, status) == Kind[i] = "screening" /\ EditStatus(i, status)
UpdateRequestStatus(i, status) == Kind[i] = "scoring" /\ EditStatus(i, status)

\* A retry: from failed or sent, as read.
RetryRow(i) ==
    /\ row[i] \in {"failed", "sent"} /\ edit[i] = "none" /\ edits < MaxEdits
    /\ edit' = [edit EXCEPT ![i] = "retry"]
    /\ edits' = edits + 1
    /\ UNCHANGED <<row, bound, djob, post, received>>

RetryExecution(i) == Kind[i] = "screening" /\ RetryRow(i)
RetryRequest(i) == Kind[i] = "scoring" /\ RetryRow(i)

\* Their transactions.  A bound row refuses both.  A status update enqueues the
\* row's job, whatever the status; a retry does not.
CommitEdit(i) ==
    /\ edit[i] # "none"
    /\ edit' = [edit EXCEPT ![i] = "none"]
    /\ IF Writable(i)
         THEN /\ row' = [row EXCEPT ![i] = IF edit[i] = "retry" THEN "pending" ELSE edit[i]]
              /\ IF edit[i] = "retry" THEN UNCHANGED djob ELSE Enqueued(i)
         ELSE UNCHANGED <<row, djob>>
    /\ UNCHANGED <<bound, post, received, edits>>

-----------------------------------------------------------------------------
Operator(i) ==
    \/ RetryExecution(i) \/ RetryRequest(i) \/ CommitEdit(i)
    \/ \E status \in ExecutionStatuses : UpdateExecutionStatus(i, status) \/ UpdateRequestStatus(i, status)

DispatchStep(i) ==
    \/ RecordRow(i) \/ PostAccepted(i) \/ PostFailed(i)
    \/ DispatchLost(i) \/ CleanDispatchJob(i) \/ Operator(i)
    \/ RunWorkflowExecution(i) \/ RunScreeningExecution(i) \/ RunScoringRequest(i) \/ RunOutboxEvent(i)

DispatchNext == \E i \in Items : DispatchStep(i) \/ Receive(i)

\* River takes ready jobs, and a post ends: the client and the job have timeouts.
DispatchFairness ==
    \A i \in Items :
        /\ WF_dispatchVars(RunRow(i))
        /\ WF_dispatchVars(CommitEdit(i))
        /\ WF_dispatchVars(PostAccepted(i) \/ PostFailed(i) \/ DispatchLost(i))

-----------------------------------------------------------------------------
\* A receiver is never asked twice for one row unless an operator asked again:
\* the requests carry side effects and only screenings carry a key.  It rests on
\* one attempt per job, on one job per row, and on the status read before a post.
PostedOncePerRequest == \A i \in Items : received[i] <= 1 + edits

\* A row that an operator resets to pending by a retry is posted again: the
\* documentation of the retry endpoints says that it is requeued.
RetriedIsPosted ==
    \A i \in Items : (edit[i] = "retry" /\ post[i] = "idle" /\ row[i] = "failed") ~>
        (edit[i] = "none" /\ (post[i] # "idle" \/ row[i] # "pending"))
=============================================================================
