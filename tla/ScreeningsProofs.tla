--------------------------- MODULE ScreeningsProofs ---------------------------
(***************************************************************************)
(* Proofs about Screenings, for any rows, screenings, matches, reviewers   *)
(* and numbers of retries, faults and edits; and, at the end, about the    *)
(* two parts beside it, ContinuousScreening and ProviderSearch.            *)
(*                                                                         *)
(* Three invariants, each about its own part of the state.  A row of the   *)
(* decision engine has one post for each job, and one job for each request *)
(* of a decision or an operator.  The execution's row, once bound, is what *)
(* its source was at the projected version.  A match that is pending is    *)
(* told by how often it was written.                                       *)
(***************************************************************************)
EXTENDS Screenings, ContinuousScreening, Integers, WellFoundedInduction, TLAPS

Statuses == {"none", "pending", "processing"} \cup Settled
Originated == {"none", "decision"} \cup Origins
MatchRow == [st : {"none", "pending"} \cup Verdicts, enriched : BOOLEAN, upd : Nat]
Asked == [s : Ids, x : Entities, read : MatchRow]
Shown == [op : Ops, s : Ids, x : Entities, match : MatchRow]

DispatchTypes ==
    /\ row \in [Items -> {"none"} \cup ExecutionStatuses]
    /\ bound \in [Items -> BOOLEAN]
    /\ djob \in [Items -> JobStates]
    /\ post \in [Items -> {"idle", "posting", "accepted"}]
    /\ received \in [Items -> Nat]
    /\ edit \in [Items -> {"none", "retry"} \cup ExecutionStatuses]
    /\ edits \in Nat
SourceTypes ==
    /\ status \in [Ids -> Statuses]
    /\ origin \in [Ids -> Originated]
    /\ version \in [Ids -> Nat]
    /\ projected \in Nat
MatchTypes ==
    /\ match \in [Ids -> [Entities -> MatchRow]]
    /\ arrivals \in [Ids -> Nat]
    /\ seen \subseteq Shown
    /\ enriching \subseteq Asked

\* What may still reach the receiver of a row: the post under way, a job that is
\* ready, the decision to come, and an operator's update.
One(c) == IF c THEN 1 ELSE 0
MayPost(i) ==
    One(post[i] = "posting") + One(djob[i] \in ReadyStates) + One(row[i] = "none")
      + One(edit[i] \notin {"none", "retry"})
PostsBounded == \A i \in Items : received[i] + MayPost(i) <= 1 + edits

\* The execution's row and its source.
Bound ==
    /\ \A s \in Ids : origin[s] # "none" => status[s] # "none"
    /\ source # NoSource =>
         /\ bound[Exec] /\ row[Exec] # "none"
         /\ source \in Ids /\ Linked(source)
         /\ projected <= version[source]
         /\ projected = version[source] => row[Exec] = MapStatus(status[source])

\* A match that is pending has been written by enrichments alone.
PendingShape ==
    \A s \in Ids, x \in Entities : match[s][x].st = "pending" => match[s][x].enriched = (match[s][x].upd > 0)
ShownPending ==
    \A r \in seen : r.match.st = "pending" /\ r.match.enriched = (r.match.upd > 0)

ArrivalsSettled ==
    \A s \in Ids : arrivals[s] <= 1 /\ (arrivals[s] = 1 => status[s] \in Settled \ {"failed"})

SourcePart == SourceTypes /\ Bound /\ ProjectionCurrent
DeskPart ==
    MatchTypes /\ PendingShape /\ ShownPending /\ StatusMatchesReviews /\ ActsOnWhatWasSeen /\ ArrivalsSettled

\* The jobs of a screening, and what their workers found: all or nothing.
Working == {"idle", "searching", "found", "providerError", "refused"}
JobTypes ==
    /\ jobs \in [Ids -> [Gens -> [state : JobStates, attempt : Int]]]
    /\ work \in [Ids -> [Gens -> [pc : Working, attempt : Int, found : {{}, Entities}, partial : BOOLEAN]]]

ScreeningInv == DispatchTypes /\ PostsBounded /\ SourcePart /\ DeskPart

-----------------------------------------------------------------------------
\* Dispatching: the rows and their posts.
LEMMA OthersPost ==
    ASSUME DispatchTypes, PostsBounded, NEW i \in Items,
           \A j \in Items \ {i} : row'[j] = row[j] /\ djob'[j] = djob[j] /\ post'[j] = post[j]
                                  /\ received'[j] = received[j] /\ edit'[j] = edit[j],
           edits' \in Nat, edits <= edits',
           received'[i] + MayPost(i)' <= 1 + edits'
    PROVE  PostsBounded'
<1> SUFFICES ASSUME NEW j \in Items PROVE received'[j] + MayPost(j)' <= 1 + edits'
  BY DEF PostsBounded
<1>1. CASE j = i
  BY <1>1
<1>2. CASE j # i
  <2>1. received'[j] = received[j] /\ MayPost(j)' = MayPost(j)
    BY <1>2 DEF MayPost
  <2>2. received[j] + MayPost(j) <= 1 + edits
    BY DEF PostsBounded
  <2>3. received[j] \in Nat /\ MayPost(j) \in Nat /\ edits \in Nat
    BY DEF DispatchTypes, MayPost, One
  <2> QED
    BY <2>1, <2>2, <2>3
<1> QED
  BY <1>1, <1>2

\* A step of row i.
LEMMA RowStep ==
    ASSUME DispatchTypes, NEW i \in Items, DispatchStep(i) \/ Receive(i)
    PROVE  /\ DispatchTypes' /\ bound' = bound
           /\ \A j \in Items \ {i} : row'[j] = row[j] /\ djob'[j] = djob[j] /\ post'[j] = post[j]
                                     /\ received'[j] = received[j] /\ edit'[j] = edit[j]
           /\ edits <= edits'
           /\ bound[i] /\ row[i] # "none" => row'[i] = row[i]
           /\ received'[i] + MayPost(i)' + edits <= received[i] + MayPost(i) + edits'
<1> USE DEF DispatchTypes, JobStates, ExecutionStatuses
<1>1. CASE RecordRow(i)
  BY <1>1 DEF RecordRow, Enqueued, UniqueStates, ReadyStates, MayPost, One
<1>2. CASE RunRow(i)
  BY <1>2 DEF RunRow, ReadyStates, MayPost, One
<1>3. CASE PostAccepted(i)
  BY <1>3 DEF PostAccepted, UpdateStatus, Writable, ReadyStates, MayPost, One
<1>4. CASE PostFailed(i)
  BY <1>4 DEF PostFailed, UpdateStatus, Writable, ReadyStates, MayPost, One
<1>5. CASE DispatchLost(i)
  BY <1>5 DEF DispatchLost, AfterFailure, DispatchAttempts, ReadyStates, MayPost, One
<1>6. CASE CleanDispatchJob(i)
  BY <1>6 DEF CleanDispatchJob, ReadyStates, MayPost, One
<1>7. CASE RetryRow(i)
  BY <1>7 DEF RetryRow, ReadyStates, MayPost, One
<1>8. CASE \E s \in ExecutionStatuses : EditStatus(i, s)
  BY <1>8 DEF EditStatus, ReadyStates, MayPost, One
<1>9. CASE CommitEdit(i)
  BY <1>9 DEF CommitEdit, Writable, Enqueued, UniqueStates, ReadyStates, MayPost, One
<1>10. CASE Receive(i)
  BY <1>10 DEF Receive, ReadyStates, MayPost, One
<1> QED
  BY <1>1, <1>2, <1>3, <1>4, <1>5, <1>6, <1>7, <1>8, <1>9, <1>10
     DEF DispatchStep, Operator, RetryExecution, RetryRequest, UpdateExecutionStatus, UpdateRequestStatus,
         RunWorkflowExecution, RunScreeningExecution, RunScoringRequest, RunOutboxEvent
\* The steps that leave the rows alone, but for the projection of a source.
RowsQuiet == UNCHANGED dispatchVars
Projects(s) == Bindable(s) /\ Reconcile(s) /\ UNCHANGED <<djob, post, received, edit, edits>>

LEMMA MapStatusType == ASSUME NEW st PROVE MapStatus(st) \in ExecutionStatuses
BY DEF MapStatus, ExecutionStatuses

\* What a projection does to the row of the execution: it binds it, or nothing.
LEMMA ProjectRow ==
    ASSUME DispatchTypes, NEW s, Projects(s), source \in {NoSource, s}
    PROVE  /\ DispatchTypes'
           /\ \A j \in Items \ {Exec} : row'[j] = row[j]
           /\ row'[Exec] # "none" \/ row' = row
           /\ \/ source = s /\ projected >= version[s] /\ UNCHANGED <<row, bound, source, projected>>
              \/ /\ source' = s /\ projected' = version[s] /\ bound'[Exec]
                 /\ row'[Exec] = MapStatus(status[s]) /\ row'[Exec] # "none"
<1>1. MapStatus(status[s]) \in ExecutionStatuses /\ Exec \in Items
  BY MapStatusType, ScreeningAssumption
<1> QED
  BY <1>1 DEF Projects, Reconcile, projVars, DispatchTypes, ExecutionStatuses

LEMMA PostsStep ==
    ASSUME DispatchTypes, PostsBounded,
           \/ \E i \in Items : DispatchStep(i) \/ Receive(i)
           \/ RowsQuiet
           \/ \E s \in Ids : Projects(s)
    PROVE  DispatchTypes' /\ PostsBounded'
<1>1. CASE RowsQuiet
  BY <1>1 DEF RowsQuiet, dispatchVars, DispatchTypes, PostsBounded, MayPost
<1>2. ASSUME NEW i \in Items, DispatchStep(i) \/ Receive(i) PROVE DispatchTypes' /\ PostsBounded'
  <2>1. /\ DispatchTypes'
        /\ \A j \in Items \ {i} : row'[j] = row[j] /\ djob'[j] = djob[j] /\ post'[j] = post[j]
                                  /\ received'[j] = received[j] /\ edit'[j] = edit[j]
        /\ edits <= edits'
        /\ received'[i] + MayPost(i)' + edits <= received[i] + MayPost(i) + edits'
    BY <1>2, RowStep
  <2>2. received[i] + MayPost(i) <= 1 + edits
    BY DEF PostsBounded
  <2>3. /\ received[i] \in Nat /\ MayPost(i) \in Nat /\ edits \in Nat
        /\ received'[i] \in Nat /\ MayPost(i)' \in Nat /\ edits' \in Nat
    BY <2>1 DEF DispatchTypes, MayPost, One
  <2>4. received'[i] + MayPost(i)' <= 1 + edits'
    BY <2>1, <2>2, <2>3
  <2> QED
    BY <2>1, <2>3, <2>4, OthersPost
<1>3. ASSUME NEW s \in Ids, Projects(s) PROVE DispatchTypes' /\ PostsBounded'
  <2>1. /\ DispatchTypes' /\ \A j \in Items \ {Exec} : row'[j] = row[j]
        /\ row'[Exec] # "none" \/ row' = row
        /\ djob' = djob /\ post' = post /\ received' = received /\ edit' = edit /\ edits' = edits
    BY <1>3, ProjectRow DEF Projects, Bindable
  <2>2. Exec \in Items /\ received[Exec] + MayPost(Exec) <= 1 + edits
    BY ScreeningAssumption DEF PostsBounded
  <2>3. received[Exec] \in Nat /\ MayPost(Exec) \in Nat /\ MayPost(Exec)' \in Nat /\ edits \in Nat
        /\ MayPost(Exec)' <= MayPost(Exec)
    BY <2>1, <2>2 DEF DispatchTypes, MayPost, One
  <2>4. received'[Exec] + MayPost(Exec)' <= 1 + edits'
    BY <2>1, <2>2, <2>3
  <2>5. edits' \in Nat /\ edits <= edits'
    BY <2>1, <2>3
  <2> QED
    BY <2>1, <2>2, <2>4, <2>5, OthersPost
<1> QED
  BY <1>1, <1>2, <1>3
-----------------------------------------------------------------------------
\* The screenings and the execution that mirrors one of them.  A row that is bound
\* stays as it is unless it is projected.
RowKept == bound[Exec] /\ row[Exec] # "none" => bound'[Exec] /\ row'[Exec] = row[Exec]

LEMMA SourceQuiet ==
    ASSUME SourcePart, RowKept, UNCHANGED <<status, origin, version, queue, projVars>>
    PROVE  SourcePart'
<1>1. source' = source /\ projected' = projected
  BY DEF projVars
<1>2. SourceTypes'
  BY <1>1 DEF SourcePart, SourceTypes
<1>3. Bound'
  BY <1>1 DEF SourcePart, Bound, RowKept, Linked
<1>4. ProjectionCurrent'
  BY <1>1, ScreeningAssumption DEF SourcePart, Bound, ProjectionCurrent, RowKept, Linked
<1> QED
  BY <1>2, <1>3, <1>4 DEF SourcePart

\* A screening that is written, or inserted, waits for its projection.
LEMMA SourceWritten ==
    ASSUME SourcePart, RowKept, UNCHANGED projVars, NEW s \in Ids, NEW st \in Statuses \ {"none"}, SetStatus(s, st),
           NEW org \in Originated, RowWritten(s, org),
           \/ origin' = origin /\ org = origin[s]
           \/ origin' = [origin EXCEPT ![s] = org] /\ status[s] = "none"
    PROVE  SourcePart'
<1>1. /\ source' = source /\ projected' = projected
      /\ status' = [status EXCEPT ![s] = st] /\ version' = [version EXCEPT ![s] = @ + 1]
      /\ queue' = IF org \in {"decision", "keyless"} THEN queue \cup {s} ELSE queue
  BY DEF projVars, SetStatus, RowWritten
<1>2. SourceTypes
  BY DEF SourcePart
<1>3. /\ SourceTypes'
      /\ status'[s] = st /\ version'[s] = version[s] + 1 /\ version[s] \in Nat /\ projected \in Nat /\ origin'[s] = org
      /\ \A u \in Ids \ {s} : status'[u] = status[u] /\ version'[u] = version[u] /\ origin'[u] = origin[u]
  BY <1>1, <1>2 DEF SourceTypes
<1>4. source = s => origin' = origin
  <2>1. source = s /\ status[s] = "none" => FALSE
    BY ScreeningAssumption DEF SourcePart, Bound, Linked
  <2> QED
    BY <2>1
<1>5. Bound'
  <2>1. \A u \in Ids : origin'[u] # "none" => status'[u] # "none"
    BY <1>3 DEF SourcePart, Bound
  <2>2. ASSUME source # NoSource
        PROVE  /\ bound'[Exec] /\ row'[Exec] # "none" /\ source' \in Ids /\ Linked(source)'
               /\ projected' <= version'[source'] /\ (projected' = version'[source'] => row'[Exec] = MapStatus(status'[source']))
    <3>1. /\ bound[Exec] /\ row[Exec] # "none" /\ source \in Ids /\ Linked(source) /\ projected <= version[source]
          /\ projected = version[source] => row[Exec] = MapStatus(status[source])
      BY <2>2 DEF SourcePart, Bound
    <3>2. bound'[Exec] /\ row'[Exec] = row[Exec]
      BY <3>1 DEF RowKept
    <3>3. CASE source = s
      <4>1. projected < version'[s]
        BY <1>3, <3>1, <3>3
      <4> QED
        BY <1>1, <1>3, <1>4, <3>1, <3>2, <3>3, <4>1 DEF Linked
    <3>4. CASE source # s
      BY <1>1, <1>3, <3>1, <3>2, <3>4 DEF Linked
    <3> QED
      BY <3>3, <3>4
  <2> QED
    BY <1>1, <2>1, <2>2 DEF Bound
<1>6. ProjectionCurrent'
  <2> SUFFICES ASSUME NEW u \in Ids, Linked(u)', u \notin queue'
               PROVE  source = u /\ projected = version'[u] /\ row'[Exec] = MapStatus(status'[u])
    BY <1>1 DEF ProjectionCurrent
  <2>1. u # s
    BY <1>1, <1>3 DEF Linked
  <2>2. Linked(u) /\ u \notin queue
    BY <1>1, <1>3, <2>1 DEF Linked
  <2>3. source = u /\ projected = version[u] /\ row[Exec] = MapStatus(status[u]) /\ bound[Exec] /\ row[Exec] # "none"
    BY <2>2, ScreeningAssumption DEF SourcePart, ProjectionCurrent, Bound
  <2> QED
    BY <1>3, <2>1, <2>3 DEF RowKept
<1> QED
  BY <1>3, <1>5, <1>6 DEF SourcePart

\* A projection brings the row up to its source, if it is not.
LEMMA SourceProjected ==
    ASSUME SourcePart, DispatchTypes, NEW s \in Ids, Projects(s), UNCHANGED <<status, origin, version>>,
           queue' \in {queue, queue \ {s}}
    PROVE  SourcePart'
<1>1. Linked(s) /\ source \in {NoSource, s}
  BY DEF Projects, Bindable
<1>2. \/ source = s /\ projected >= version[s] /\ UNCHANGED <<row, bound, source, projected>>
      \/ /\ source' = s /\ projected' = version[s] /\ bound'[Exec]
         /\ row'[Exec] = MapStatus(status[s]) /\ row'[Exec] # "none"
  BY <1>1, ProjectRow
<1>3. SourceTypes /\ version[s] \in Nat /\ projected \in Nat
  BY DEF SourcePart, SourceTypes
<1>4. /\ source' = s /\ projected' = version[s] /\ bound'[Exec] /\ row'[Exec] = MapStatus(status[s]) /\ row'[Exec] # "none"
  BY <1>2, <1>3, ScreeningAssumption DEF SourcePart, Bound
<1>5. SourceTypes'
  BY <1>3, <1>4 DEF SourceTypes
<1>6. Bound'
  BY <1>1, <1>3, <1>4 DEF SourcePart, Bound, Linked
<1>7. ProjectionCurrent'
  <2> SUFFICES ASSUME NEW u \in Ids, Linked(u), u \notin queue' PROVE u = s
    BY <1>4 DEF ProjectionCurrent, Linked
  <2>1. u # s => u \notin queue
    OBVIOUS
  <2> QED
    BY <1>1, <2>1, ScreeningAssumption DEF SourcePart, ProjectionCurrent
<1> QED
  BY <1>5, <1>6, <1>7 DEF SourcePart
-----------------------------------------------------------------------------
\* The matches and their reviews.  A screening in one of these has no matches yet.
Unreviewed == {"none", "pending", "processing", "failed"}

LEMMA ReviewedType == ASSUME NEW m PROVE Reviewed(m) \in {"confirmed_hit", "no_hit", "awaiting_review"}
BY DEF Reviewed

LEMMA UnreviewedEmpty ==
    ASSUME StatusMatchesReviews, NEW s \in Ids, status[s] \in Unreviewed, NEW x \in Entities
    PROVE  match[s][x].st = "none"
<1>1. status[s] # Reviewed(match[s])
  BY ReviewedType DEF Unreviewed
<1> QED
  BY <1>1 DEF StatusMatchesReviews

LEMMA NotToldYet ==
    ASSUME MatchTypes, ArrivalsSettled, NEW s \in Ids, status[s] \in Unreviewed
    PROVE  arrivals[s] = 0
<1>1. arrivals[s] \in Nat /\ arrivals[s] <= 1
  BY DEF MatchTypes, ArrivalsSettled
<1>2. arrivals[s] # 1
  BY DEF ArrivalsSettled, Settled, Unreviewed
<1> QED
  BY <1>1, <1>2

\* The steps that leave the matches alone.
LEMMA DeskQuiet ==
    ASSUME DeskPart, UNCHANGED <<match, arrivals, receipts>>, seen' \subseteq Shown, enriching' \subseteq Asked,
           \A r \in seen' \ seen : r.match.st = "pending" /\ r.match.enriched = (r.match.upd > 0),
           \A s \in Ids : status'[s] = status[s] \/ (status[s] \in Unreviewed /\ status'[s] \in Unreviewed)
    PROVE  DeskPart'
<1>1. MatchTypes' /\ PendingShape' /\ ActsOnWhatWasSeen'
  BY DEF DeskPart, MatchTypes, PendingShape, ActsOnWhatWasSeen
<1>2. ShownPending'
  BY DEF DeskPart, ShownPending
<1>3. StatusMatchesReviews'
  <2> SUFFICES ASSUME NEW s \in Ids, NEW x \in Entities, match[s][x].st # "none"
               PROVE  status'[s] = Reviewed(match[s])
    BY DEF StatusMatchesReviews, Reviewed
  <2>1. status[s] \notin Unreviewed
    BY UnreviewedEmpty DEF DeskPart
  <2> QED
    BY <2>1 DEF DeskPart, StatusMatchesReviews
<1>4. ArrivalsSettled'
  BY DEF DeskPart, ArrivalsSettled, Unreviewed, Settled
<1> QED
  BY <1>1, <1>2, <1>3, <1>4 DEF DeskPart

\* A review of the match as it is.
LEMMA DeskReviewed ==
    ASSUME DeskPart, SourceTypes, NEW s \in Ids, NEW x \in Entities, NEW verdict \in Verdicts,
           match[s][x].st # "none", Review(s, x, verdict), UNCHANGED <<seen, enriching>>,
           ActsOnWhatWasSeen'
    PROVE  DeskPart'
<1> DEFINE row1 == [st |-> verdict, enriched |-> match[s][x].enriched, upd |-> match[s][x].upd + 1]
           now == [match[s] EXCEPT ![x] = row1]
<1>1. match[s][x] \in MatchRow /\ match[s] \in [Entities -> MatchRow] /\ match \in [Ids -> [Entities -> MatchRow]]
  BY DEF DeskPart, MatchTypes
<1>2. row1 \in MatchRow
  BY <1>1 DEF MatchRow, Verdicts
<1>3. [match[s] EXCEPT ![x].st = verdict, ![x].upd = @ + 1] = now
  <2> DEFINE said == [match[s] EXCEPT ![x].st = verdict]
  <2>1. said[x] = [st |-> verdict, enriched |-> match[s][x].enriched, upd |-> match[s][x].upd]
    BY <1>1 DEF MatchRow
  <2>2. said \in [Entities -> MatchRow] /\ \A y \in Entities \ {x} : said[y] = match[s][y]
    <3>1. [match[s][x] EXCEPT !.st = verdict] \in MatchRow
      BY <1>1 DEF MatchRow, Verdicts
    <3> QED
      BY <1>1, <3>1
  <2>3. [said[x] EXCEPT !.upd = said[x].upd + 1] = row1
    BY <2>1
  <2> HIDE DEF said, row1
  <2>4. [said EXCEPT ![x] = row1] = [match[s] EXCEPT ![x] = row1]
    BY <1>1, <2>2
  <2>5. [said EXCEPT ![x].upd = said[x].upd + 1] = [said EXCEPT ![x] = row1]
    BY <2>2, <2>3
  <2> QED
    BY <2>4, <2>5 DEF said
<1>4. now \in [Entities -> MatchRow] /\ now[x].st = verdict
  BY <1>1, <1>2
<1>5. match' = [match EXCEPT ![s] = now] /\ status' = [status EXCEPT ![s] = Reviewed(now)] /\ arrivals' = arrivals
  BY <1>3 DEF Review, SetStatus
<1> HIDE DEF now, row1
<1>6. /\ match'[s] = now /\ status'[s] = Reviewed(now)
      /\ \A u \in Ids \ {s} : match'[u] = match[u] /\ status'[u] = status[u]
      /\ match' \in [Ids -> [Entities -> MatchRow]]
  BY <1>1, <1>4, <1>5 DEF SourceTypes
<1>7. MatchTypes' /\ ShownPending'
  BY <1>5, <1>6 DEF DeskPart, MatchTypes, ShownPending
<1>8. \A y \in Entities \ {x} : now[y] = match[s][y]
  BY <1>1 DEF now
<1>9. PendingShape'
  BY <1>4, <1>6, <1>8 DEF DeskPart, PendingShape, Verdicts
<1>10. StatusMatchesReviews'
  <2> SUFFICES ASSUME NEW u \in Ids, \E y \in Entities : match'[u][y].st # "none"
               PROVE  status'[u] = Reviewed(match'[u])
    BY DEF StatusMatchesReviews, Reviewed
  <2>1. CASE u = s
    BY <1>6, <2>1
  <2>2. CASE u # s
    BY <1>6, <2>2 DEF DeskPart, StatusMatchesReviews
  <2> QED
    BY <2>1, <2>2
<1>11. ArrivalsSettled'
  <2>1. status'[s] \in Settled \ {"failed"}
    BY <1>6, ReviewedType DEF Settled
  <2> QED
    BY <1>5, <1>6, <2>1 DEF DeskPart, ArrivalsSettled
<1> QED
  BY <1>7, <1>9, <1>10, <1>11 DEF DeskPart
-----------------------------------------------------------------------------
\* The steps, one by one.
QuietDesk == UNCHANGED <<match, arrivals, receipts, seen, enriching>>

\* A screening whose status moves among those without matches.
LEMMA Moved ==
    ASSUME SourcePart, DeskPart, RowKept, UNCHANGED projVars, QuietDesk,
           NEW s \in Ids, status[s] \in Unreviewed,
           NEW st \in Unreviewed \ {"none"}, SetStatus(s, st), NEW org \in Originated, RowWritten(s, org),
           \/ origin' = origin /\ org = origin[s]
           \/ origin' = [origin EXCEPT ![s] = org] /\ status[s] = "none"
    PROVE  SourcePart' /\ DeskPart'
<1>1. st \in Statuses \ {"none"}
  BY DEF Unreviewed, Statuses, Settled
<1>2. SourcePart'
  BY <1>1, SourceWritten
<1>3. \A u \in Ids : status'[u] = status[u] \/ (status[u] \in Unreviewed /\ status'[u] \in Unreviewed)
  BY DEF SetStatus, SourcePart, SourceTypes
<1>4. DeskPart'
  BY <1>3, DeskQuiet DEF QuietDesk, DeskPart, MatchTypes
<1> QED
  BY <1>2, <1>4

LEMMA NothingMoves ==
    ASSUME SourcePart, DeskPart, RowKept, UNCHANGED <<status, origin, version, queue, projVars>>, QuietDesk
    PROVE  SourcePart' /\ DeskPart'
BY SourceQuiet, DeskQuiet DEF QuietDesk, DeskPart, MatchTypes

LEMMA RowsKept == ASSUME RowsQuiet PROVE RowKept
BY DEF RowsQuiet, dispatchVars, RowKept

LEMMA OriginTyped == ASSUME SourcePart, NEW s \in Ids PROVE origin[s] \in Originated
BY DEF SourcePart, SourceTypes

LEMMA Inserted ==
    ASSUME SourcePart, DeskPart, RowKept, NEW s \in Ids, status[s] = "none", NEW org \in Originated, Insert(s, org)
    PROVE  SourcePart' /\ DeskPart'
<1>1. /\ SetStatus(s, "pending") /\ origin' = [origin EXCEPT ![s] = org] /\ RowWritten(s, org)
      /\ UNCHANGED projVars /\ QuietDesk
  BY DEF Insert, SetStatus, QuietDesk, deskVars
<1>2. status[s] \in Unreviewed /\ "pending" \in Unreviewed \ {"none"}
  BY DEF Unreviewed
<1> QED
  BY <1>1, <1>2, Moved

LEMMA RowsStep ==
    ASSUME ScreeningInv, NEW i \in Items, DispatchStep(i) \/ Receive(i)
    PROVE  RowKept
<1>1. /\ bound' = bound /\ \A j \in Items \ {i} : row'[j] = row[j]
      /\ bound[i] /\ row[i] # "none" => row'[i] = row[i]
  BY RowStep DEF ScreeningInv
<1> QED
  BY <1>1, ScreeningAssumption DEF RowKept

LEMMA RowsOnly ==
    ASSUME ScreeningInv, NEW i \in Items, DispatchStep(i) \/ Receive(i), UNCHANGED screeningVars
    PROVE  ScreeningInv'
<1>1. DispatchTypes' /\ PostsBounded'
  BY PostsStep DEF ScreeningInv
<1>2. SourcePart' /\ DeskPart'
  BY RowsStep, NothingMoves DEF ScreeningInv, screeningVars, rowVars, deskVars, QuietDesk
<1> QED
  BY <1>1, <1>2 DEF ScreeningInv

LEMMA ReceiveScreeningStep == ASSUME ScreeningInv, ReceiveScreening PROVE ScreeningInv'
<1>1. Receive(Exec) /\ Exec \in Items /\ Dispatched \in Ids
  BY ScreeningAssumption DEF ReceiveScreening
<1>2. CASE status[Dispatched] = "none"
  <2>1. DispatchTypes' /\ PostsBounded'
    BY <1>1, PostsStep DEF ScreeningInv
  <2>2. RowKept
    BY <1>1, RowsStep
  <2>3. Insert(Dispatched, "decision") /\ "decision" \in Originated
    BY <1>2 DEF ReceiveScreening, Originated
  <2>4. SourcePart' /\ DeskPart'
    BY <1>1, <1>2, <2>2, <2>3, Inserted DEF ScreeningInv
  <2> QED
    BY <2>1, <2>4 DEF ScreeningInv
<1>3. CASE status[Dispatched] # "none"
  BY <1>1, <1>3, RowsOnly DEF ReceiveScreening
<1> QED
  BY <1>2, <1>3

\* The steps of the screening service leave the rows of the decision engine alone.
LEMMA QuietRows == ASSUME ScreeningInv, RowsQuiet PROVE DispatchTypes' /\ PostsBounded' /\ RowKept
BY PostsStep, RowsKept DEF ScreeningInv

LEMMA CreateScreeningStep == ASSUME ScreeningInv, NEW s \in Ids, CreateScreening(s) PROVE ScreeningInv'
<1>1. DispatchTypes' /\ PostsBounded' /\ RowKept
  BY QuietRows DEF CreateScreening, RowsQuiet
<1>2. PICK org \in Origins : Insert(s, org)
  BY DEF CreateScreening
<1>3. SourcePart' /\ DeskPart'
  BY <1>1, <1>2, Inserted DEF CreateScreening, ScreeningInv, Originated
<1> QED
  BY <1>1, <1>3 DEF ScreeningInv

\* A claim, a failure, or a claim that is given back.
LEMMA MovedStep ==
    ASSUME ScreeningInv, RowsQuiet, UNCHANGED <<origin, projVars>>, QuietDesk, NEW s \in Ids,
           status[s] \in {"pending", "processing"}, NEW st \in Unreviewed \ {"none"}, SetStatus(s, st),
           RowWritten(s, origin[s])
    PROVE  ScreeningInv'
<1>1. DispatchTypes' /\ PostsBounded' /\ RowKept
  BY QuietRows
<1>2. status[s] \in Unreviewed /\ origin[s] \in Originated
  BY OriginTyped DEF Unreviewed, ScreeningInv
<1>3. SourcePart' /\ DeskPart'
  BY <1>1, <1>2, Moved DEF ScreeningInv
<1> QED
  BY <1>1, <1>3 DEF ScreeningInv

LEMMA StandingStep ==
    ASSUME ScreeningInv, RowsQuiet, UNCHANGED <<status, origin, version, queue, projVars>>, QuietDesk
    PROVE  ScreeningInv'
BY QuietRows, NothingMoves DEF ScreeningInv

LEMMA WorkerStep ==
    ASSUME ScreeningInv, NEW s \in Ids, NEW g \in Gens,
           \/ Claim(s, g) \/ ClaimRefused(s, g) \/ Reread(s, g) \/ Search(s, g) \/ SearchFails(s, g)
           \/ FailScreening(s, g) \/ WorkerErrors(s, g) \/ WorkerDies(s, g) \/ LeaseExpires(s)
    PROVE  ScreeningInv'
<1> USE DEF rowVars, deskVars, QuietDesk, RowsQuiet
<1>1. "pending" \in Unreviewed \ {"none"} /\ "processing" \in Unreviewed \ {"none"} /\ "failed" \in Unreviewed \ {"none"}
  BY DEF Unreviewed
<1>2. CASE Claim(s, g)
  BY <1>1, <1>2, MovedStep DEF Claim, Claimable
<1>3. CASE ClaimRefused(s, g) \/ Reread(s, g) \/ Search(s, g) \/ SearchFails(s, g) \/ WorkerDies(s, g) \/ LeaseExpires(s)
  BY <1>3, StandingStep DEF ClaimRefused, Reread, Search, SearchFails, WorkerDies, LeaseExpires
<1>4. CASE FailScreening(s, g)
  BY <1>1, <1>4, MovedStep DEF FailScreening, HoldsClaim
<1>5. CASE WorkerErrors(s, g)
  <2>1. CASE HoldsClaim(s, g)
    BY <1>1, <1>5, <2>1, MovedStep DEF WorkerErrors, HoldsClaim
  <2>2. CASE ~HoldsClaim(s, g)
    BY <1>5, <2>2, StandingStep DEF WorkerErrors
  <2> QED
    BY <2>1, <2>2
<1> QED
  BY <1>2, <1>3, <1>4, <1>5
\* The matches are replaced with a result that goes with them.
LEMMA DeskReplaced ==
    ASSUME DeskPart, SourceTypes, NEW s \in Ids, status[s] \in Unreviewed, UNCHANGED <<receipts, seen, enriching>>,
           NEW hits \in {{}, Entities}, ReplaceForScreening(s, hits),
           NEW st, SetStatus(s, st), hits # {} => st = "awaiting_review",
           NEW n \in {0, 1}, arrivals' = [arrivals EXCEPT ![s] = n], n = 1 => st = "awaiting_review"
    PROVE  DeskPart'
<1> DEFINE now == [x \in Entities |-> IF x \in hits THEN NewMatch ELSE NoMatch]
<1>1. now \in [Entities -> MatchRow] /\ \A x \in Entities : now[x].st \in {"pending", "none"}
  BY DEF MatchRow, NewMatch, NoMatch
<1>2. \A x \in Entities : now[x].st = "pending" => ~now[x].enriched /\ now[x].upd = 0
  BY DEF NewMatch, NoMatch
<1>3. \A x \in Entities : now[x].st # "none" => x \in hits /\ hits = Entities
  BY DEF NewMatch, NoMatch
<1>4. hits = Entities => \A x \in Entities : now[x].st = "pending"
  BY DEF NewMatch
<1>5. match' = [match EXCEPT ![s] = now] /\ status' = [status EXCEPT ![s] = st]
  BY DEF ReplaceForScreening, SetStatus
<1> HIDE DEF now
<1>6. /\ match'[s] = now /\ status'[s] = st /\ arrivals'[s] = n
      /\ \A u \in Ids \ {s} : match'[u] = match[u] /\ status'[u] = status[u] /\ arrivals'[u] = arrivals[u]
      /\ match' \in [Ids -> [Entities -> MatchRow]] /\ arrivals' \in [Ids -> Nat]
  BY <1>1, <1>5 DEF DeskPart, MatchTypes, SourceTypes
<1>7. MatchTypes' /\ ShownPending' /\ ActsOnWhatWasSeen'
  BY <1>6 DEF DeskPart, MatchTypes, ShownPending, ActsOnWhatWasSeen
<1>8. PendingShape'
  <2> SUFFICES ASSUME NEW u \in Ids, NEW x \in Entities, match'[u][x].st = "pending"
               PROVE  match'[u][x].enriched = (match'[u][x].upd > 0)
    BY DEF PendingShape
  <2>1. CASE u = s
    <3>1. match'[u][x].upd = 0 /\ ~match'[u][x].enriched /\ match'[u][x].enriched \in BOOLEAN
      BY <1>1, <1>2, <1>6, <2>1 DEF MatchRow
    <3> QED
      BY <3>1
  <2>2. CASE u # s
    BY <1>6, <2>2 DEF DeskPart, PendingShape
  <2> QED
    BY <2>1, <2>2
<1>9. StatusMatchesReviews'
  <2> SUFFICES ASSUME NEW u \in Ids, NEW x \in Entities, match'[u][x].st # "none"
               PROVE  status'[u] = Reviewed(match'[u])
    BY DEF StatusMatchesReviews, Reviewed
  <2>1. CASE u = s
    <3>1. hits = Entities /\ st = "awaiting_review" /\ now[x].st = "pending"
      BY <1>3, <1>4, <1>6, <2>1
    <3>2. \A y \in Entities : now[y].st = "pending"
      BY <1>4, <3>1
    <3>3. Reviewed(now) = "awaiting_review"
      BY <3>2 DEF Reviewed
    <3> QED
      BY <1>6, <2>1, <3>1, <3>3
  <2>2. CASE u # s
    BY <1>6, <2>2 DEF DeskPart, StatusMatchesReviews
  <2> QED
    BY <2>1, <2>2
<1>10. ArrivalsSettled'
  BY <1>6 DEF DeskPart, ArrivalsSettled, Settled
<1> QED
  BY <1>7, <1>8, <1>9, <1>10 DEF DeskPart

LEMMA RetryStep == ASSUME ScreeningInv, NEW s \in Ids, RetryScreening(s) PROVE ScreeningInv'
<1>1. DispatchTypes' /\ PostsBounded' /\ RowKept
  BY QuietRows DEF RetryScreening, RowsQuiet
<1>2. /\ status[s] = "failed" /\ SetStatus(s, "pending") /\ ReplaceForScreening(s, {}) /\ RowWritten(s, origin[s])
      /\ UNCHANGED <<origin, arrivals, projVars, receipts, seen, enriching>>
  BY DEF RetryScreening, Retryable, deskVars
<1>3. SourcePart'
  BY <1>1, <1>2, OriginTyped, SourceWritten DEF ScreeningInv, Statuses
<1>4. SourceTypes /\ status[s] \in Unreviewed
  BY <1>2 DEF ScreeningInv, SourcePart, Unreviewed
<1>5. arrivals[s] = 0 /\ arrivals' = [arrivals EXCEPT ![s] = 0]
  BY <1>2, <1>4, NotToldYet DEF ScreeningInv, DeskPart, MatchTypes
<1>6. {} \in {{}, Entities} /\ 0 \in {0, 1} /\ 0 # 1
  OBVIOUS
<1>7. DeskPart /\ UNCHANGED <<receipts, seen, enriching>>
  BY <1>2 DEF ScreeningInv
<1>8. DeskPart'
  BY <1>2, <1>4, <1>5, <1>6, <1>7, DeskReplaced
<1> QED
  BY <1>1, <1>3, <1>8 DEF ScreeningInv

LEMMA PublishStep ==
    ASSUME ScreeningInv, NEW s \in Ids, NEW g \in Gens, Publish(s, g), work[s][g].found \in {{}, Entities}
    PROVE  ScreeningInv'
<1> DEFINE result == ResultStatus(s, work[s][g])
           n == IF Announced(s) /\ result = "awaiting_review" THEN arrivals[s] + 1 ELSE arrivals[s]
<1>1. DispatchTypes' /\ PostsBounded' /\ RowKept
  BY QuietRows DEF Publish, RowsQuiet
<1>2. /\ status[s] = "processing" /\ SetStatus(s, result) /\ ReplaceForScreening(s, work[s][g].found)
      /\ RowWritten(s, origin[s]) /\ arrivals' = [arrivals EXCEPT ![s] = n]
      /\ UNCHANGED <<origin, projVars, receipts, seen, enriching>>
  BY DEF Publish, HoldsClaim, deskVars
<1>3. result \in Statuses \ {"none"} /\ (work[s][g].found # {} => result = "awaiting_review")
  BY DEF ResultStatus, Statuses, Settled
<1>4. SourceTypes /\ status[s] \in Unreviewed
  BY <1>2 DEF ScreeningInv, SourcePart, Unreviewed
<1>5. arrivals[s] = 0
  BY <1>4, NotToldYet DEF ScreeningInv, DeskPart
<1>6. n \in {0, 1} /\ (n = 1 => result = "awaiting_review")
  BY <1>5
<1> HIDE DEF result, n
<1>7. SourcePart'
  BY <1>1, <1>2, <1>3, OriginTyped, SourceWritten DEF ScreeningInv
<1>8. DeskPart'
  BY <1>2, <1>3, <1>4, <1>6, DeskReplaced DEF ScreeningInv
<1> QED
  BY <1>1, <1>7, <1>8 DEF ScreeningInv
-----------------------------------------------------------------------------
\* The jobs.
LEMMA JobSet ==
    ASSUME JobTypes, NEW s \in Ids, NEW g \in Gens,
           NEW j \in [state : JobStates, attempt : Int],
           NEW w \in [pc : Working, attempt : Int, found : {{}, Entities}, partial : BOOLEAN]
    PROVE  /\ [jobs EXCEPT ![s][g] = j] \in [Ids -> [Gens -> [state : JobStates, attempt : Int]]]
           /\ [work EXCEPT ![s][g] = w] \in
                 [Ids -> [Gens -> [pc : Working, attempt : Int, found : {{}, Entities}, partial : BOOLEAN]]]
<1> DEFINE J == [state : JobStates, attempt : Int]
           W == [pc : Working, attempt : Int, found : {{}, Entities}, partial : BOOLEAN]
<1>1. jobs \in [Ids -> [Gens -> J]] /\ work \in [Ids -> [Gens -> W]] /\ j \in J /\ w \in W
  BY DEF JobTypes
<1> HIDE DEF J, W
<1>2. [jobs EXCEPT ![s][g] = j] \in [Ids -> [Gens -> J]] /\ [work EXCEPT ![s][g] = w] \in [Ids -> [Gens -> W]]
  BY <1>1
<1> QED
  BY <1>2 DEF J, W

LEMMA JobEndsTyped ==
    ASSUME JobTypes, NEW s \in Ids, NEW g \in Gens, NEW state \in JobStates, JobEnds(s, g, state)
    PROVE  JobTypes'
<1>1. jobs[s][g] \in [state : JobStates, attempt : Int]
  BY DEF JobTypes
<1>2. [jobs[s][g] EXCEPT !.state = state] \in [state : JobStates, attempt : Int]
  BY <1>1
<1>3. Idle \in [pc : Working, attempt : Int, found : {{}, Entities}, partial : BOOLEAN]
  BY DEF Idle, Working
<1>4. jobs' = [jobs EXCEPT ![s][g] = [jobs[s][g] EXCEPT !.state = state]] /\ work' = [work EXCEPT ![s][g] = Idle]
  BY DEF JobEnds, JobTypes
<1> QED
  BY <1>2, <1>3, <1>4, JobSet DEF JobTypes
LEMMA JobAdded ==
    ASSUME JobTypes, NEW s \in Ids, NEW g, AddJob(s, g), work' = work
    PROVE  JobTypes'
<1>1. CASE g \in Gens
  <2>1. [state |-> "available", attempt |-> 0] \in [state : JobStates, attempt : Int]
    BY DEF JobStates
  <2>2. work[s][g] \in [pc : Working, attempt : Int, found : {{}, Entities}, partial : BOOLEAN]
    BY <1>1 DEF JobTypes
  <2> QED
    BY <1>1, <2>1, <2>2, JobSet DEF AddJob, JobTypes
<1>2. CASE g \notin Gens
  <2>1. [jobs[s] EXCEPT ![g] = [state |-> "available", attempt |-> 0]] = jobs[s]
    BY <1>2 DEF JobTypes
  <2>2. jobs' = [jobs EXCEPT ![s] = jobs[s]]
    BY <2>1 DEF AddJob
  <2>3. jobs' = jobs
    BY <2>2 DEF JobTypes
  <2> QED
    BY <2>3 DEF JobTypes
<1> QED
  BY <1>1, <1>2

LEMMA JobsStep ==
    ASSUME JobTypes, NEW s \in Ids, NEW g \in Gens,
           \/ Claim(s, g) \/ ClaimRefused(s, g) \/ Reread(s, g) \/ Search(s, g) \/ SearchFails(s, g)
           \/ Publish(s, g) \/ FailScreening(s, g) \/ WorkerErrors(s, g) \/ WorkerDies(s, g)
    PROVE  JobTypes'
<1> DEFINE J == [state : JobStates, attempt : Int]
           W == [pc : Working, attempt : Int, found : {{}, Entities}, partial : BOOLEAN]
<1>1. jobs[s][g] \in J /\ work[s][g] \in W
  BY DEF JobTypes
<1>2. "completed" \in JobStates /\ \A a, b : AfterFailure(a, b) \in JobStates
  BY DEF JobStates, AfterFailure
<1>3. CASE Claim(s, g) \/ ClaimRefused(s, g)
  <2> DEFINE attempt == jobs[s][g].attempt + 1
  <2>1. [state |-> "running", attempt |-> attempt] \in J
    BY <1>1 DEF JobStates
  <2>2. /\ [Idle EXCEPT !.pc = "searching", !.attempt = attempt] \in W
        /\ [Idle EXCEPT !.pc = "refused", !.attempt = attempt] \in W
    <3>1. attempt \in Int
      BY <1>1
    <3> HIDE DEF attempt
    <3> QED
      BY <3>1 DEF Idle, Working
  <2>3. CASE Claim(s, g)
    <3>1. /\ jobs' = [jobs EXCEPT ![s][g] = [state |-> "running", attempt |-> attempt]]
          /\ work' = [work EXCEPT ![s][g] = [Idle EXCEPT !.pc = "searching", !.attempt = attempt]]
      BY <2>3 DEF Claim
    <3> QED
      BY <2>1, <2>2, <3>1, JobSet DEF JobTypes
  <2>4. CASE ClaimRefused(s, g)
    <3>1. /\ jobs' = [jobs EXCEPT ![s][g] = [state |-> "running", attempt |-> attempt]]
          /\ work' = [work EXCEPT ![s][g] = [Idle EXCEPT !.pc = "refused", !.attempt = attempt]]
      BY <2>4 DEF ClaimRefused
    <3> QED
      BY <2>1, <2>2, <3>1, JobSet DEF JobTypes
  <2> QED
    BY <1>3, <2>3, <2>4
<1>4. CASE Reread(s, g)
  <2>1. CASE status[s] = "processing"
    <3>1. [state |-> "available", attempt |-> jobs[s][g].attempt - 1] \in J /\ Idle \in W
      BY <1>1 DEF JobStates, Idle, Working
    <3>2. /\ jobs' = [jobs EXCEPT ![s][g] = [state |-> "available", attempt |-> jobs[s][g].attempt - 1]]
          /\ work' = [work EXCEPT ![s][g] = Idle]
      BY <1>4, <2>1 DEF Reread, JobTypes
    <3> QED
      BY <3>1, <3>2, JobSet DEF JobTypes
  <2>2. CASE status[s] # "processing"
    BY <1>2, <1>4, <2>2, JobEndsTyped DEF Reread
  <2> QED
    BY <2>1, <2>2
<1>5. CASE Search(s, g)
  <2>1. PICK hits \in {{}, Entities}, some \in BOOLEAN :
            work' = [work EXCEPT ![s][g].pc = "found", ![s][g].found = hits, ![s][g].partial = some]
    BY <1>5 DEF Search
  <2>2. [work[s][g] EXCEPT !.pc = "found", !.found = hits, !.partial = some] \in W
    BY <1>1 DEF Working
  <2>3. work' = [work EXCEPT ![s][g] = [work[s][g] EXCEPT !.pc = "found", !.found = hits, !.partial = some]]
    BY <2>1 DEF JobTypes
  <2>4. jobs' = jobs
    BY <1>5 DEF Search
  <2> QED
    BY <1>1, <2>2, <2>3, <2>4, JobSet DEF JobTypes
<1>6. CASE SearchFails(s, g)
  <2>1. [work[s][g] EXCEPT !.pc = "providerError"] \in W
    BY <1>1 DEF Working
  <2>2. work' = [work EXCEPT ![s][g] = [work[s][g] EXCEPT !.pc = "providerError"]] /\ jobs' = jobs
    BY <1>6 DEF SearchFails, JobTypes
  <2> QED
    BY <1>1, <2>1, <2>2, JobSet DEF JobTypes
<1>7. CASE Publish(s, g)
  BY <1>2, <1>7, JobEndsTyped DEF Publish
<1>8. CASE FailScreening(s, g)
  BY <1>2, <1>8, JobEndsTyped DEF FailScreening
<1>9. CASE WorkerErrors(s, g)
  BY <1>2, <1>9, JobEndsTyped DEF WorkerErrors
<1>10. CASE WorkerDies(s, g)
  BY <1>2, <1>10, JobEndsTyped DEF WorkerDies
<1> QED
  BY <1>3, <1>4, <1>5, <1>6, <1>7, <1>8, <1>9, <1>10

-----------------------------------------------------------------------------
\* The desk.
LEMMA MatchReviewed ==
    ASSUME ScreeningInv, RowsQuiet, NEW s \in Ids, NEW x \in Entities, NEW verdict \in Verdicts,
           match[s][x].st # "none", Review(s, x, verdict), UNCHANGED <<seen, enriching, projVars>>,
           ActsOnWhatWasSeen'
    PROVE  ScreeningInv'
<1>1. DispatchTypes' /\ PostsBounded' /\ RowKept
  BY QuietRows
<1> DEFINE st == Reviewed([match[s] EXCEPT ![x].st = verdict, ![x].upd = @ + 1])
<1>2. SetStatus(s, st) /\ RowWritten(s, origin[s]) /\ origin' = origin
  BY DEF Review
<1>3. st \in Statuses \ {"none"}
  BY ReviewedType DEF Statuses, Settled
<1> HIDE DEF st
<1>4. SourcePart'
  BY <1>1, <1>2, <1>3, OriginTyped, SourceWritten DEF ScreeningInv
<1>5. DeskPart'
  BY DeskReviewed DEF ScreeningInv, SourcePart
<1> QED
  BY <1>1, <1>4, <1>5 DEF ScreeningInv

LEMMA ReviewMatchStep ==
    ASSUME ScreeningInv, NEW s \in Ids, NEW x \in Entities, NEW verdict \in Verdicts, ReviewMatch(s, x, verdict)
    PROVE  ScreeningInv'
<1>1. ActsOnWhatWasSeen'
  BY DEF ReviewMatch, ScreeningInv, DeskPart, ActsOnWhatWasSeen
<1> QED
  BY <1>1, MatchReviewed DEF ReviewMatch, RowsQuiet

\* A match that is still pending, and was written as often as when it was shown,
\* is what was shown.
LEMMA EligibleIsShown ==
    ASSUME ScreeningInv, NEW r \in seen, Eligible(r)
    PROVE  match[r.s][r.x] = r.match
<1>1. r \in Shown /\ match \in [Ids -> [Entities -> MatchRow]]
  BY DEF ScreeningInv, DeskPart, MatchTypes
<1>2. r.s \in Ids /\ r.x \in Entities /\ r.match \in MatchRow /\ match[r.s][r.x] \in MatchRow
  BY <1>1 DEF Shown
<1>3. /\ match[r.s][r.x].st = r.match.st /\ match[r.s][r.x].upd = r.match.upd
      /\ match[r.s][r.x].enriched = (match[r.s][r.x].upd > 0) /\ r.match.enriched = (r.match.upd > 0)
  BY <1>2 DEF Eligible, ScreeningInv, DeskPart, PendingShape, ShownPending
<1>4. match[r.s][r.x].enriched = r.match.enriched
  BY <1>3
<1> QED
  BY <1>2, <1>3, <1>4 DEF MatchRow

LEMMA InvestigatorReviewStep ==
    ASSUME ScreeningInv, NEW r \in seen, NEW verdict \in Verdicts, InvestigatorReview(r, verdict)
    PROVE  ScreeningInv'
<1>1. r.s \in Ids /\ r.x \in Entities
  BY DEF ScreeningInv, DeskPart, MatchTypes, Shown
<1>2. /\ Eligible(r) /\ Review(r.s, r.x, verdict) /\ RowsQuiet
      /\ receipts' = receipts \cup {[seen |-> r, was |-> match[r.s][r.x]]}
      /\ UNCHANGED <<seen, enriching, projVars>>
  BY DEF InvestigatorReview, RowsQuiet
<1>3. ActsOnWhatWasSeen'
  BY <1>2, EligibleIsShown DEF ScreeningInv, DeskPart, ActsOnWhatWasSeen
<1>4. match[r.s][r.x].st # "none"
  BY <1>2 DEF Eligible
<1> QED
  BY <1>1, <1>2, <1>3, <1>4, MatchReviewed
\* What an investigator is shown is a match that is pending.
LEMMA InvestigatorReadStep ==
    ASSUME ScreeningInv, NEW o \in Ops, NEW s \in Ids, NEW x \in Entities, InvestigatorRead(o, s, x)
    PROVE  ScreeningInv'
<1> DEFINE shown == [op |-> o, s |-> s, x |-> x, match |-> match[s][x]]
<1>1. DispatchTypes' /\ PostsBounded' /\ RowKept
  BY QuietRows DEF InvestigatorRead, RowsQuiet
<1>2. SourcePart'
  BY <1>1, SourceQuiet DEF InvestigatorRead, ScreeningInv, rowVars
<1>3. match[s][x].st = "pending" /\ match[s][x] \in MatchRow
      /\ match[s][x].enriched = (match[s][x].upd > 0)
  BY DEF InvestigatorRead, ScreeningInv, DeskPart, MatchTypes, PendingShape
<1>4. shown \in Shown /\ shown.match.st = "pending" /\ shown.match.enriched = (shown.match.upd > 0)
  BY <1>3 DEF Shown
<1>5. seen' = seen \cup {shown}
  BY DEF InvestigatorRead
<1> HIDE DEF shown
<1>6. UNCHANGED <<match, arrivals, receipts, enriching, status>>
  BY DEF InvestigatorRead, rowVars
<1>7. DeskPart'
  BY <1>4, <1>5, <1>6, DeskQuiet DEF ScreeningInv, DeskPart, MatchTypes
<1> QED
  BY <1>1, <1>2, <1>7 DEF ScreeningInv

LEMMA EnrichMatchStep ==
    ASSUME ScreeningInv, NEW s \in Ids, NEW x \in Entities, EnrichMatch(s, x)
    PROVE  ScreeningInv'
<1>1. DispatchTypes' /\ PostsBounded' /\ RowKept
  BY QuietRows DEF EnrichMatch, RowsQuiet
<1>2. SourcePart'
  BY <1>1, SourceQuiet DEF EnrichMatch, ScreeningInv, rowVars
<1>3. [s |-> s, x |-> x, read |-> match[s][x]] \in Asked
  BY DEF ScreeningInv, DeskPart, MatchTypes, Asked
<1>4. enriching' \subseteq Asked /\ UNCHANGED <<match, arrivals, receipts, seen, status>>
  BY <1>3 DEF EnrichMatch, rowVars, ScreeningInv, DeskPart, MatchTypes
<1>5. DeskPart'
  BY <1>4, DeskQuiet DEF ScreeningInv, DeskPart, MatchTypes
<1> QED
  BY <1>1, <1>2, <1>5 DEF ScreeningInv

\* The answer is merged into the match as it is: its review stays.
LEMMA EnrichmentAnsweredStep ==
    ASSUME ScreeningInv, NEW e \in enriching, EnrichmentAnswered(e)
    PROVE  ScreeningInv'
<1>1. DispatchTypes' /\ PostsBounded' /\ RowKept
  BY QuietRows DEF EnrichmentAnswered, RowsQuiet
<1>2. SourcePart'
  BY <1>1, SourceQuiet DEF EnrichmentAnswered, ScreeningInv
<1>3. enriching' \subseteq Asked /\ UNCHANGED <<arrivals, receipts, seen, status>>
  BY DEF EnrichmentAnswered, ScreeningInv, DeskPart, MatchTypes
<1>4. CASE match' = match
  <2>1. DeskPart'
    BY <1>3, <1>4, DeskQuiet DEF ScreeningInv, DeskPart, MatchTypes
  <2> QED
    BY <1>1, <1>2, <2>1 DEF ScreeningInv
<1>5. CASE match[e.s][e.x].st # "none" /\ match' = [match EXCEPT ![e.s][e.x] = Enriched(e)]
  <2> DEFINE old == match[e.s][e.x]
             new == [st |-> old.st, enriched |-> TRUE, upd |-> old.upd + 1]
  <2>1. e.s \in Ids /\ e.x \in Entities /\ match \in [Ids -> [Entities -> MatchRow]] /\ old \in MatchRow
    BY DEF ScreeningInv, DeskPart, MatchTypes, Asked
  <2>2. Enriched(e) = new
    BY DEF Enriched
  <2>3. new \in MatchRow /\ new.st = old.st /\ new.enriched /\ new.upd > 0
    BY <2>1 DEF MatchRow
  <2>4. match' = [match EXCEPT ![e.s][e.x] = new]
    BY <1>5, <2>2
  <2>5. DeskPart /\ MatchTypes /\ PendingShape /\ StatusMatchesReviews
    BY DEF ScreeningInv, DeskPart
  <2> HIDE DEF new, old
  <2>6. /\ match' \in [Ids -> [Entities -> MatchRow]]
        /\ match'[e.s][e.x] = new
        /\ \A u \in Ids, y \in Entities : u # e.s \/ y # e.x => match'[u][y] = match[u][y]
    BY <2>1, <2>3, <2>4
  <2>7. \A u \in Ids, y \in Entities : match'[u][y].st = match[u][y].st
    BY <2>1, <2>3, <2>6 DEF old
  <2>8. MatchTypes' /\ ShownPending' /\ ActsOnWhatWasSeen' /\ ArrivalsSettled'
    BY <1>3, <2>5, <2>6 DEF DeskPart, MatchTypes, ShownPending, ActsOnWhatWasSeen, ArrivalsSettled
  <2>9. PendingShape'
    <3> SUFFICES ASSUME NEW u \in Ids, NEW y \in Entities, match'[u][y].st = "pending"
                 PROVE  match'[u][y].enriched = (match'[u][y].upd > 0)
      BY DEF PendingShape
    <3>1. CASE u = e.s /\ y = e.x
      <4>1. match'[u][y].enriched = TRUE /\ (match'[u][y].upd > 0) = TRUE
        BY <2>3, <2>6, <3>1 DEF new
      <4> QED
        BY <4>1
    <3>2. CASE u # e.s \/ y # e.x
      BY <2>5, <2>6, <3>2 DEF PendingShape
    <3> QED
      BY <3>1, <3>2
  <2>10. \A u \in Ids : Reviewed(match'[u]) = Reviewed(match[u])
    BY <2>7 DEF Reviewed
  <2>11. StatusMatchesReviews'
    BY <1>3, <2>5, <2>7, <2>10 DEF StatusMatchesReviews, Reviewed
  <2> QED
    BY <1>1, <1>2, <2>8, <2>9, <2>11 DEF ScreeningInv, DeskPart
<1> QED
  BY <1>4, <1>5 DEF EnrichmentAnswered

LEMMA MoveCaseStep == ASSUME ScreeningInv, MoveCase PROVE ScreeningInv'
BY StandingStep DEF MoveCase, rowVars, QuietDesk, RowsQuiet
-----------------------------------------------------------------------------
\* Projections.
LEMMA ProjectsStep ==
    ASSUME ScreeningInv, NEW s \in Ids, Projects(s), UNCHANGED <<status, origin, version>>, QuietDesk,
           queue' \in {queue, queue \ {s}}
    PROVE  ScreeningInv'
<1>1. DispatchTypes' /\ PostsBounded'
  BY PostsStep DEF ScreeningInv
<1>2. SourcePart'
  BY SourceProjected DEF ScreeningInv
<1>3. DeskPart'
  BY DeskQuiet DEF QuietDesk, ScreeningInv, DeskPart, MatchTypes
<1> QED
  BY <1>1, <1>2, <1>3 DEF ScreeningInv

LEMMA ProjectStep == ASSUME ScreeningInv, NEW s \in Ids, Project(s) PROVE ScreeningInv'
BY ProjectsStep DEF Project, Projects, QuietDesk, deskVars

\* A callback that cannot be bound to the execution changes nothing.
LEMMA StatusChangedStep == ASSUME ScreeningInv, NEW s \in Ids, StatusChanged(s) PROVE ScreeningInv'
<1>1. CASE Bindable(s)
  BY <1>1, ProjectsStep DEF StatusChanged, Projects, QuietDesk, deskVars
<1>2. CASE ~Bindable(s)
  BY <1>2, StandingStep DEF StatusChanged, RowsQuiet, dispatchVars, QuietDesk, deskVars
<1> QED
  BY <1>1, <1>2

-----------------------------------------------------------------------------
LEMMA InitInv == ASSUME DispatchInit, ScreeningInit PROVE ScreeningInv /\ JobTypes
<1>1. DispatchTypes /\ PostsBounded
  BY DEF DispatchInit, DispatchTypes, PostsBounded, MayPost, One, JobStates, ReadyStates, ExecutionStatuses
<1>2. SourcePart
  BY DEF ScreeningInit, SourcePart, SourceTypes, Bound, ProjectionCurrent, Linked, Statuses, Originated
<1>3. MatchTypes /\ PendingShape
  BY DEF ScreeningInit, MatchTypes, PendingShape, NoMatch, MatchRow
<1>4. StatusMatchesReviews /\ ShownPending /\ ActsOnWhatWasSeen /\ ArrivalsSettled
  BY DEF ScreeningInit, StatusMatchesReviews, ShownPending, ActsOnWhatWasSeen, ArrivalsSettled, NoMatch
<1>5. JobTypes
  BY DEF ScreeningInit, JobTypes, JobStates, Idle, Working
<1> QED
  BY <1>1, <1>2, <1>3, <1>4, <1>5 DEF ScreeningInv, DeskPart

LEMMA DeskStep == ASSUME ScreeningInv, Desk PROVE ScreeningInv'
<1>1. CASE MoveCase
  BY <1>1, MoveCaseStep
<1>2. ASSUME NEW s \in Ids, NEW x \in Entities,
             \/ EnrichMatch(s, x)
             \/ \E verdict \in Verdicts : ReviewMatch(s, x, verdict)
             \/ \E o \in Ops : InvestigatorRead(o, s, x)
      PROVE  ScreeningInv'
  BY <1>2, EnrichMatchStep, ReviewMatchStep, InvestigatorReadStep
<1>3. ASSUME NEW r \in seen, NEW verdict \in Verdicts, InvestigatorReview(r, verdict) PROVE ScreeningInv'
  BY <1>3, InvestigatorReviewStep
<1>4. ASSUME NEW e \in enriching, EnrichmentAnswered(e) PROVE ScreeningInv'
  BY <1>4, EnrichmentAnsweredStep
<1> QED
  BY <1>1, <1>2, <1>3, <1>4 DEF Desk

LEMMA StepInv ==
    ASSUME ScreeningInv, JobTypes, [ScreeningNext \/ OtherRows]_allVars
    PROVE  ScreeningInv' /\ JobTypes'
<1>1. CASE UNCHANGED allVars
  <2>1. ScreeningInv'
    BY <1>1, StandingStep DEF allVars, screeningVars, rowVars, deskVars, QuietDesk, RowsQuiet
  <2>2. JobTypes'
    BY <1>1 DEF allVars, screeningVars, jobVars, JobTypes
  <2> QED
    BY <2>1, <2>2
<1>2. CASE OtherRows \/ (DispatchStep(Exec) /\ UNCHANGED screeningVars)
  <2>1. PICK i \in Items : (DispatchStep(i) \/ Receive(i)) /\ UNCHANGED screeningVars
    BY <1>2, ScreeningAssumption DEF OtherRows
  <2>2. JobTypes'
    BY <2>1 DEF screeningVars, jobVars, JobTypes
  <2> QED
    BY <2>1, <2>2, RowsOnly
<1>3. CASE ReceiveScreening
  <2>1. JobTypes'
    <3>1. CASE UNCHANGED screeningVars
      BY <3>1 DEF screeningVars, jobVars, JobTypes
    <3>2. CASE Insert(Dispatched, "decision")
      BY <3>2, JobAdded, ScreeningAssumption DEF Insert
    <3> QED
      BY <1>3, <3>1, <3>2 DEF ReceiveScreening
  <2> QED
    BY <1>3, <2>1, ReceiveScreeningStep
<1>4. CASE Desk
  <2>1. UNCHANGED jobVars
    BY <1>4 DEF Desk, MoveCase, EnrichMatch, ReviewMatch, InvestigatorRead, InvestigatorReview, EnrichmentAnswered
  <2>2. JobTypes'
    BY <2>1 DEF jobVars, JobTypes
  <2> QED
    BY <1>4, <2>2, DeskStep
<1>5. ASSUME NEW s \in Ids, CreateScreening(s) \/ RetryScreening(s) PROVE ScreeningInv' /\ JobTypes'
  <2>1. \E g : AddJob(s, g) /\ work' = work
    BY <1>5 DEF CreateScreening, Insert, RetryScreening
  <2>2. JobTypes'
    BY <2>1, JobAdded
  <2> QED
    BY <1>5, <2>2, CreateScreeningStep, RetryStep
<1>6. ASSUME NEW s \in Ids, LeaseExpires(s) \/ Project(s) \/ StatusChanged(s) PROVE ScreeningInv' /\ JobTypes'
  <2>1. JobTypes'
    BY <1>6 DEF LeaseExpires, Project, StatusChanged, jobVars, JobTypes
  <2>2. ASSUME LeaseExpires(s) PROVE ScreeningInv'
    BY <2>2, StandingStep DEF LeaseExpires, RowsQuiet, QuietDesk, deskVars
  <2> QED
    BY <1>6, <2>1, <2>2, ProjectStep, StatusChangedStep
<1>7. ASSUME NEW s \in Ids, NEW g \in Gens, Worker(s, g) \/ WorkerDies(s, g) PROVE ScreeningInv' /\ JobTypes'
  <2>1. work[s][g].found \in {{}, Entities}
    BY DEF JobTypes
  <2>2. JobTypes'
    BY <1>7, JobsStep DEF Worker
  <2> QED
    BY <1>7, <2>1, <2>2, WorkerStep, PublishStep DEF Worker
<1> QED
  BY <1>1, <1>2, <1>3, <1>4, <1>5, <1>6, <1>7 DEF ScreeningNext

\* The tables hold what their columns allow, whatever rows are dispatched and
\* whatever workers, reviewers and projections do.
THEOREM ScreeningsTyped == ScreeningSpec => [](DispatchTypes /\ SourceTypes /\ MatchTypes /\ JobTypes)
<1>1. ScreeningInv => DispatchTypes /\ SourceTypes /\ MatchTypes
  BY DEF ScreeningInv, SourcePart, DeskPart
<1> QED
  BY <1>1, InitInv, StepInv, PTL DEF ScreeningSpec

\* The execution row shows its source's status whenever no projection of the
\* source is queued, whatever answers, operators and late callbacks write.
THEOREM RowShowsSource == ScreeningSpec => []ProjectionCurrent
<1>1. ScreeningInv => ProjectionCurrent
  BY DEF ScreeningInv, SourcePart
<1> QED
  BY <1>1, InitInv, StepInv, PTL DEF ScreeningSpec

\* The status of a screening tells the reviews of its matches, and an
\* investigator's verdict is about the match as it was shown.
THEOREM ReviewsAreKept == ScreeningSpec => []ReviewsStand
<1>1. ScreeningInv => ReviewsStand
  BY DEF ScreeningInv, DeskPart, ReviewsStand
<1> QED
  BY <1>1, InitInv, StepInv, PTL DEF ScreeningSpec

\* A receiver is asked once for each request, and the case manager is told once
\* of a screening to review.
THEOREM SideEffectsOnce == ScreeningSpec => []EffectsOnce
<1>1. ScreeningInv => PostedOncePerRequest
  <2> SUFFICES ASSUME ScreeningInv, NEW i \in Items PROVE received[i] <= 1 + edits
    BY DEF PostedOncePerRequest
  <2>1. received[i] + MayPost(i) <= 1 + edits
    BY DEF ScreeningInv, PostsBounded
  <2>2. received[i] \in Nat /\ MayPost(i) \in Nat /\ edits \in Nat
    BY DEF ScreeningInv, DispatchTypes, MayPost, One
  <2> QED
    BY <2>1, <2>2
<1>2. ScreeningInv => ArrivesOnce
  BY DEF ScreeningInv, DeskPart, ArrivalsSettled, ArrivesOnce, Settled
<1> QED
  BY <1>1, <1>2, InitInv, StepInv, PTL DEF ScreeningSpec, EffectsOnce

-----------------------------------------------------------------------------
\* ContinuousScreening: the record a monitored object is screened with.
RunRecord == [pc : {"idle", "read", "ready"}, at : Nat, config : Nat, record : Nat]
ObjectRow == [st : {"none", "pending", "active", "gone"}, at : Nat, want : Nat]

\* What a step may do to a monitored object and to the workers of its jobs: ask
\* for the present record or forget the object, and let one of them read on.
MonitorMove ==
  /\ MonitorTypes'
  /\ \A o \in Objects :
       /\ record'[o] >= record[o] /\ clock' >= clock
       /\ \/ object'[o].at = object[o].at /\ object'[o].want = object[o].want
          \/ object'[o].at = clock + 1 /\ clock' = clock + 1 /\ object'[o].want <= record[o]
          \/ object'[o].at = 0 /\ object'[o].want = 0
       /\ \A g \in Generations :
            \/ run'[o][g] = run[o][g]
            \/ run'[o][g] = NotRunning
            \/ run'[o][g].pc = "read" /\ run'[o][g].at = object[o].at
            \/ run'[o][g].pc = "ready" /\ run'[o][g].at = run[o][g].at /\ run'[o][g].record = record[o]
               /\ object'[o] = object[o]

LEMMA MovesKeepAskedFor ==
  ASSUME MonitorInv, MonitorMove, NEW o \in Objects
  PROVE  AskedFor(o)'
<1>1. AskedFor(o) /\ object[o] \in ObjectRow /\ object'[o] \in ObjectRow /\ record[o] \in Nat /\ record'[o] \in Nat
      /\ clock \in Nat /\ clock' \in Nat
  BY DEF MonitorInv, MonitorMove, MonitorTypes, ObjectRow
<1>2. object'[o].want <= record'[o] /\ object'[o].at <= clock'
  <2>1. record'[o] >= record[o] /\ clock' >= clock
    BY DEF MonitorMove
  <2>2. CASE object'[o].at = object[o].at /\ object'[o].want = object[o].want
    BY <1>1, <2>1, <2>2 DEF AskedFor, ObjectRow
  <2>3. CASE object'[o].at = clock + 1 /\ clock' = clock + 1 /\ object'[o].want <= record[o]
    BY <1>1, <2>1, <2>3 DEF ObjectRow
  <2>4. CASE object'[o].at = 0 /\ object'[o].want = 0
    BY <1>1, <2>4
  <2> QED
    BY <2>2, <2>3, <2>4 DEF MonitorMove
<1>3. ASSUME NEW g \in Generations
      PROVE  /\ run'[o][g].at <= clock'
             /\ run'[o][g].pc = "ready" /\ object'[o].at = run'[o][g].at => run'[o][g].record >= object'[o].want
  <2>1. run[o][g] \in RunRecord /\ run'[o][g] \in RunRecord
    BY DEF MonitorInv, MonitorMove, MonitorTypes, RunRecord
  <2>2. run[o][g].at <= clock /\ clock' >= clock
        /\ (run[o][g].pc = "ready" /\ object[o].at = run[o][g].at => run[o][g].record >= object[o].want)
    BY <1>1 DEF AskedFor, MonitorMove
  <2>3. CASE run'[o][g] = run[o][g]
    <3>1. CASE object'[o].at = object[o].at /\ object'[o].want = object[o].want
      BY <1>1, <2>1, <2>2, <2>3, <3>1 DEF RunRecord
    <3>2. CASE object'[o].at = clock + 1 /\ clock' = clock + 1 /\ object'[o].want <= record[o]
      BY <1>1, <2>1, <2>2, <2>3, <3>2 DEF RunRecord
    <3>3. CASE object'[o].at = 0 /\ object'[o].want = 0
      BY <1>1, <2>1, <2>2, <2>3, <3>3 DEF RunRecord
    <3> QED
      BY <3>1, <3>2, <3>3 DEF MonitorMove
  <2>4. CASE run'[o][g] = NotRunning
    BY <1>1, <2>4 DEF NotRunning
  <2>5. CASE run'[o][g].pc = "read" /\ run'[o][g].at = object[o].at
    BY <1>1, <2>2, <2>5 DEF AskedFor, ObjectRow
  <2>6. CASE run'[o][g].pc = "ready" /\ run'[o][g].at = run[o][g].at /\ run'[o][g].record = record[o]
             /\ object'[o] = object[o]
    BY <1>1, <2>1, <2>2, <2>6 DEF AskedFor, ObjectRow, RunRecord
  <2> QED
    BY <2>3, <2>4, <2>5, <2>6 DEF MonitorMove
<1> QED
  BY <1>2, <1>3 DEF AskedFor

LEMMA RunUpdate ==
  ASSUME run \in [Objects -> [Generations -> RunRecord]], NEW o \in Objects, NEW g \in Generations, NEW r \in RunRecord,
         run' = [run EXCEPT ![o][g] = r]
  PROVE  /\ run' \in [Objects -> [Generations -> RunRecord]] /\ run'[o][g] = r
         /\ \A p \in Objects, h \in Generations : p # o \/ h # g => run'[p][h] = run[p][h]
OBVIOUS

\* Every step of a request, of an editor, of a worker or of the dataset job is
\* such a move.
LEMMA MonitorMoves == ASSUME MonitorInv, [MonitorNext]_monitorVars PROVE MonitorMove
<1>0. MonitorTypes
  BY DEF MonitorInv
<1>a. run \in [Objects -> [Generations -> RunRecord]] /\ object \in [Objects -> ObjectRow]
  BY <1>0 DEF MonitorTypes, RunRecord, ObjectRow
<1> USE DEF MonitorTypes
<1>1. ASSUME NEW o \in Objects, Ask(o), UNCHANGED <<config, record, run>> PROVE MonitorMove
  <2>1. record[o] \in Nat /\ record[o] <= record[o]
    BY <1>0
  <2>2. object' = [object EXCEPT ![o] = [st |-> "pending", at |-> clock + 1, want |-> record[o]]] /\ clock' = clock + 1
    BY <1>1 DEF Ask
  <2>3. MonitorTypes'
    BY <1>0, <1>1, <2>1, <2>2
  <2>4. object'[o] = [st |-> "pending", at |-> clock + 1, want |-> record[o]] /\ \A p \in Objects \ {o} : object'[p] = object[p]
    BY <1>0, <2>2
  <2> QED
    BY <1>0, <1>1, <2>1, <2>2, <2>3, <2>4 DEF MonitorMove
<1>2. ASSUME UNCHANGED <<object, config, record, run, clock>> PROVE MonitorMove
  BY <1>0, <1>2 DEF MonitorMove
<1>3. ASSUME NEW o \in Objects, NEW g \in Generations, JobFails(o, g) \/ MonitorJobEnds(o, g, "completed"),
             UNCHANGED <<object, config, record, clock>>
      PROVE  MonitorMove
  <2>1. run' = [run EXCEPT ![o][g] = NotRunning]
    BY <1>3 DEF JobFails, MonitorJobEnds
  <2> QED
    BY <1>0, <1>3, <2>1 DEF MonitorMove, NotRunning
<1>4. ASSUME NEW o \in Objects, CreateMonitoredObject(o) \/ RequeueMonitoredObject(o) \/ RescreenObject(o)
      PROVE  MonitorMove
  <2>1. CASE Ask(o)
    BY <1>1, <1>4, <2>1 DEF CreateMonitoredObject, RequeueMonitoredObject, RescreenObject
  <2>2. CASE ~Ask(o)
    BY <1>2, <1>4, <2>2 DEF CreateMonitoredObject, RequeueMonitoredObject, RescreenObject
  <2> QED
    BY <2>1, <2>2
<1>5. ASSUME NEW o \in Objects, DeleteMonitoredObject(o) PROVE MonitorMove
  BY <1>0, <1>5 DEF DeleteMonitoredObject, Gone, Unknown, MonitorMove
<1>6. ASSUME NEW o \in Objects, RecordChanges(o) PROVE MonitorMove
  BY <1>0, <1>6 DEF RecordChanges, MonitorMove
<1>7. ASSUME NEW o \in Objects, NEW g \in Generations, RunMonitoredObject(o, g) PROVE MonitorMove
  <2>1. CASE object[o].st = "pending"
    <3> DEFINE r == [NotRunning EXCEPT !.pc = "read", !.at = object[o].at]
    <3>1. run' = [run EXCEPT ![o][g] = r] /\ UNCHANGED <<object, config, record, clock>>
      BY <1>7, <2>1 DEF RunMonitoredObject
    <3>2. r \in RunRecord /\ r.pc = "read" /\ r.at = object[o].at
      BY <1>0 DEF NotRunning, RunRecord
    <3> HIDE DEF r
    <3>3. /\ run' \in [Objects -> [Generations -> RunRecord]] /\ run'[o][g] = r
          /\ \A p \in Objects, h \in Generations : p # o \/ h # g => run'[p][h] = run[p][h]
      BY <1>a, <3>1, <3>2, RunUpdate
    <3>4. MonitorTypes'
      BY <1>0, <3>1, <3>3 DEF RunRecord
    <3> QED
      BY <1>0, <3>1, <3>2, <3>3, <3>4 DEF MonitorMove
  <2>2. CASE object[o].st # "pending"
    BY <1>2, <1>7, <2>2 DEF RunMonitoredObject
  <2> QED
    BY <2>1, <2>2
<1>8. ASSUME NEW o \in Objects, NEW g \in Generations, ReadRecord(o, g) PROVE MonitorMove
  <2>1. CASE config.st = "gone"
    BY <1>3, <1>8, <2>1 DEF ReadRecord
  <2>2. CASE config.st # "gone"
    <3> DEFINE r == [run[o][g] EXCEPT !.pc = "ready", !.config = config.at, !.record = record[o]]
    <3>1. run' = [run EXCEPT ![o][g] = r] /\ UNCHANGED <<object, config, record, clock>>
      <4>1. run' = [run EXCEPT ![o][g].pc = "ready", ![o][g].config = config.at, ![o][g].record = record[o]]
        BY <1>8, <2>2 DEF ReadRecord
      <4>2. run \in [Objects -> [Generations -> RunRecord]]
        BY <1>0 DEF RunRecord
      <4>3. run' = [run EXCEPT ![o][g] = r]
        BY <4>1, <4>2
      <4> QED
        BY <1>8, <4>3 DEF ReadRecord
    <3>2. r \in RunRecord /\ r.pc = "ready" /\ r.at = run[o][g].at /\ r.record = record[o]
      <4>1. run[o][g] \in RunRecord /\ config.at \in Nat /\ record[o] \in Nat
        BY <1>0 DEF RunRecord
      <4> QED
        BY <4>1 DEF RunRecord
    <3> HIDE DEF r
    <3>3. /\ run' \in [Objects -> [Generations -> RunRecord]] /\ run'[o][g] = r
          /\ \A p \in Objects, h \in Generations : p # o \/ h # g => run'[p][h] = run[p][h]
      BY <1>a, <3>1, <3>2, RunUpdate
    <3>4. MonitorTypes'
      BY <1>0, <3>1, <3>3 DEF RunRecord
    <3> QED
      BY <1>0, <3>1, <3>2, <3>3, <3>4 DEF MonitorMove
  <2> QED
    BY <2>1, <2>2
<1>9. ASSUME NEW o \in Objects, NEW g \in Generations, CommitRun(o, g) PROVE MonitorMove
  <2>1. CASE UNCHANGED <<object, clock>>
    BY <1>3, <1>9, <2>1 DEF CommitRun
  <2>2. CASE ~UNCHANGED <<object, clock>>
    <3>1. /\ run' = [run EXCEPT ![o][g] = NotRunning] /\ clock' = clock + 1
          /\ object' = [object EXCEPT ![o].st = "active", ![o].at = clock + 1]
          /\ UNCHANGED <<config, record>>
      BY <1>9, <2>2 DEF CommitRun, MonitorJobEnds
    <3>2. object[o].want <= record[o]
      BY DEF MonitorInv, AskedFor
    <3>3. NotRunning \in RunRecord
      BY DEF NotRunning, RunRecord
    <3>4. /\ run' \in [Objects -> [Generations -> RunRecord]] /\ run'[o][g] = NotRunning
          /\ \A p \in Objects, h \in Generations : p # o \/ h # g => run'[p][h] = run[p][h]
      BY <1>a, <3>1, <3>3, RunUpdate
    <3>5. /\ object' \in [Objects -> ObjectRow] /\ object'[o].at = clock + 1 /\ object'[o].want = object[o].want
          /\ \A p \in Objects \ {o} : object'[p] = object[p]
      <4>1. clock + 1 \in Nat /\ object[o] \in ObjectRow
        BY <1>0, <1>a
      <4>2. [object[o] EXCEPT !.st = "active", !.at = clock + 1] \in ObjectRow
        BY <4>1 DEF ObjectRow
      <4>3. object' = [object EXCEPT ![o] = [object[o] EXCEPT !.st = "active", !.at = clock + 1]]
        BY <1>a, <3>1
      <4> QED
        BY <1>a, <4>1, <4>2, <4>3 DEF ObjectRow
    <3>6. MonitorTypes'
      BY <1>0, <3>1, <3>4, <3>5 DEF RunRecord, ObjectRow
    <3> QED
      BY <1>0, <3>1, <3>2, <3>4, <3>5, <3>6 DEF MonitorMove
  <2> QED
    BY <2>1, <2>2
<1>10. ASSUME NEW o \in Objects, NEW g \in Generations, MonitorWorkerFails(o, g) PROVE MonitorMove
  BY <1>3, <1>10 DEF MonitorWorkerFails
<1>11. CASE EditConfig
  BY <1>0, <1>11 DEF EditConfig, Gone, Unknown, MonitorMove
<1>12. CASE \/ CreateDatasetUpdateJob \/ RetryDatasetUpdateJob \/ CleanDatasetJob \/ CommitDatasetRetry
            \/ StartDatasetJob \/ EndDatasetJob \/ DatasetWorkerDies \/ UNCHANGED monitorVars
  BY <1>2, <1>12 DEF CreateDatasetUpdateJob, RetryDatasetUpdateJob, CleanDatasetJob, CommitDatasetRetry,
     StartDatasetJob, EndDatasetJob, DatasetWorkerDies, monitorVars
<1> QED
  BY <1>4, <1>5, <1>6, <1>7, <1>8, <1>9, <1>10, <1>11, <1>12 DEF MonitorNext, MonitorWorker

\* A run that is committed has read the record no earlier than it was asked for.
LEMMA CommitsAreFresh == ASSUME MonitorInv, [MonitorNext]_monitorVars PROVE FreshRecord'
<1>1. CASE runs' = runs
  BY <1>1 DEF MonitorInv, FreshRecord
<1>2. CASE runs' # runs
  <2>1. PICK o \in Objects, g \in Generations : CommitRun(o, g)
    <3>1. ASSUME NEW o \in Objects, ~\E g \in Generations : CommitRun(o, g)
          PROVE  ~\/ CreateMonitoredObject(o) \/ RequeueMonitoredObject(o) \/ DeleteMonitoredObject(o)
                  \/ RecordChanges(o) \/ RescreenObject(o)
                  \/ \E g \in Generations : MonitorWorker(o, g) \/ MonitorWorkerFails(o, g)
      BY <1>2, <3>1 DEF MonitorWorker, CreateMonitoredObject, RequeueMonitoredObject, DeleteMonitoredObject,
         RecordChanges, RescreenObject, RunMonitoredObject, ReadRecord, MonitorWorkerFails
    <3>2. ~(EditConfig \/ CreateDatasetUpdateJob \/ RetryDatasetUpdateJob \/ CleanDatasetJob
            \/ CommitDatasetRetry \/ StartDatasetJob \/ EndDatasetJob \/ DatasetWorkerDies)
      BY <1>2 DEF EditConfig, CreateDatasetUpdateJob, RetryDatasetUpdateJob, CleanDatasetJob, CommitDatasetRetry,
         StartDatasetJob, EndDatasetJob, DatasetWorkerDies
    <3>3. MonitorNext
      BY <1>2 DEF monitorVars
    <3> QED
      BY <3>1, <3>2, <3>3 DEF MonitorNext
  <2>2. /\ run[o][g].pc = "ready" /\ object[o].at = run[o][g].at
        /\ runs' = runs \cup {[o |-> o, record |-> run[o][g].record, want |-> object[o].want]}
    BY <1>2, <2>1 DEF CommitRun, Unchanged
  <2>3. run[o][g].record >= object[o].want
    BY <2>2 DEF MonitorInv, AskedFor
  <2> QED
    BY <2>2, <2>3 DEF MonitorInv, FreshRecord
<1> QED
  BY <1>1, <1>2

LEMMA MonitorHolds == MonitorInit /\ [][MonitorNext]_monitorVars => []MonitorInv
<1>1. MonitorInit => MonitorInv
  BY DEF MonitorInit, MonitorInv, MonitorTypes, AskedFor, FreshRecord, Unknown, NotRunning
<1>2. MonitorInv /\ [MonitorNext]_monitorVars => MonitorInv'
  <2>1. MonitorInv /\ [MonitorNext]_monitorVars => MonitorTypes'
    BY MonitorMoves DEF MonitorMove
  <2> QED
    BY <2>1, MonitorMoves, MovesKeepAskedFor, CommitsAreFresh DEF MonitorInv
<1> QED
  BY <1>1, <1>2, PTL

-----------------------------------------------------------------------------
\* ProviderSearch: the responses are walked in any order.
\* A non-empty set of positions has a first one.
LEMMA FirstPosition ==
  ASSUME NEW S \in SUBSET Nat, NEW i \in S
  PROVE  \E f \in S : \A j \in S : ~(j < f)
<1> DEFINE R == OpToRel(<, Nat)
<1>1. IsWellFoundedOn(R, Nat)
  BY NatLessThanWellFounded
<1>2. \E f \in S : \A j \in S : ~(<<j, f>> \in R)
  BY <1>1, WFMin
<1> QED
  BY <1>2 DEF OpToRel

\* Adapting the response to one more query keeps the result complete.
LEMMA AdaptCompletes ==
  ASSUME NEW W, NEW q, q \notin W, answers[q] \in Answers, CompleteOver(W),
         AdaptResponse(q)
  PROVE  CompleteOver(W \cup {q})'
<1> DEFINE answer == answers[q]
           hits == {answer.results[i].id : i \in Matching(answer)}
           first(e) == CHOOSE i \in Matching(answer) :
                          /\ answer.results[i].id = e
                          /\ \A j \in Matching(answer) : j < i => answer.results[j].id # e
<1>1. /\ found' = [e \in DOMAIN found \cup hits |-> IF e \in DOMAIN found THEN found[e] ELSE answer.results[first(e)].score]
      /\ texts' = [e \in DOMAIN texts \cup hits |->
                     (IF e \in DOMAIN texts THEN texts[e] ELSE {}) \cup
                     (IF e \in hits THEN {TrimSpace(queries[q])} ELSE {})]
      /\ partial' = PartialSoFar(answer) /\ answers' = answers /\ queries' = queries
  BY DEF AdaptResponse
<1>a. \A V, x, n : n \in GivenScores(V, x) <=>
        \E r \in V : \E i \in Matching(answers[r]) : answers[r].results[i].id = x /\ answers[r].results[i].score = n
  BY DEF GivenScores
<1>b. \A x, n : (n \in GivenScores(W \cup {q}, x)') <=> (n \in GivenScores(W \cup {q}, x))
  BY <1>1 DEF GivenScores, Matching
<1>2. Matching(answer) \subseteq Nat
  BY AnswersAssumption DEF Matching
<1>3. ASSUME NEW e \in hits
      PROVE  first(e) \in Matching(answer) /\ answer.results[first(e)].id = e
  <2> DEFINE S == {i \in Matching(answer) : answer.results[i].id = e}
  <2>1. S \subseteq Nat /\ \E i \in S : TRUE
    BY <1>2
  <2>2. PICK f \in S : \A j \in S : ~(j < f)
    BY <2>1, FirstPosition
  <2>3. f \in Matching(answer) /\ answer.results[f].id = e /\ \A j \in Matching(answer) : j < f => answer.results[j].id # e
    BY <2>2
  <2> QED
    BY <2>3
<1> HIDE DEF first
<1>4. ASSUME NEW e
      PROVE  Finds(q, e) <=> e \in hits
  BY DEF Finds
<1>5. DOMAIN found' = DOMAIN found \cup hits /\ DOMAIN texts' = DOMAIN texts \cup hits /\ DOMAIN texts = DOMAIN found
  BY <1>1 DEF CompleteOver
<1>6. ASSUME NEW e \in DOMAIN found'
      PROVE  found'[e] \in GivenScores(W \cup {q}, e)'
  <2>1. CASE e \in DOMAIN found
    <3>1. found'[e] = found[e]
      BY <1>1, <2>1
    <3>2. found[e] \in GivenScores(W, e)
      BY <2>1 DEF CompleteOver
    <3>3. PICK n : n = found[e]
      OBVIOUS
    <3>4. n \in GivenScores(W \cup {q}, e)
      BY <1>a, <3>2, <3>3
    <3>5. n \in GivenScores(W \cup {q}, e)'
      BY <1>b, <3>4
    <3> QED
      BY <3>1, <3>3, <3>5
  <2>2. CASE e \notin DOMAIN found
    <3>1. e \in hits /\ found'[e] = answer.results[first(e)].score
      BY <1>1, <1>5, <2>2
    <3>2. first(e) \in {j \in Matching(answer) : answer.results[j].id = e}
      BY <1>3, <3>1
    <3> QED
      BY <1>a, <1>b, <3>1, <3>2
  <2> QED
    BY <2>1, <2>2
<1>7. ASSUME NEW e \in DOMAIN found'
      PROVE  texts'[e] = {TrimSpace(queries'[p]) : p \in {r \in W \cup {q} : Finds(r, e)'}}
  <2>1. \A r : Finds(r, e)' <=> Finds(r, e)
    BY <1>1 DEF Finds
  <2>2. texts'[e] = (IF e \in DOMAIN found THEN texts[e] ELSE {}) \cup (IF e \in hits THEN {TrimSpace(queries[q])} ELSE {})
    BY <1>1, <1>5
  <2>3. (IF e \in DOMAIN found THEN texts[e] ELSE {}) = {TrimSpace(queries[p]) : p \in {r \in W : Finds(r, e)}}
    <3>1. CASE e \in DOMAIN found
      BY <3>1 DEF CompleteOver
    <3>2. CASE e \notin DOMAIN found
      BY <3>2 DEF CompleteOver, Finds
    <3> QED
      BY <3>1, <3>2
  <2> HIDE DEF hits
  <2>4. {TrimSpace(queries[p]) : p \in {r \in W \cup {q} : Finds(r, e)}}
        = {TrimSpace(queries[p]) : p \in {r \in W : Finds(r, e)}} \cup (IF e \in hits THEN {TrimSpace(queries[q])} ELSE {})
    <3>1. CASE e \in hits
      BY <1>4, <3>1
    <3>2. CASE e \notin hits
      BY <1>4, <3>2
    <3> QED
      BY <3>1, <3>2
  <2>5. {r \in W \cup {q} : Finds(r, e)'} = {r \in W \cup {q} : Finds(r, e)}
    BY <2>1
  <2>6. {TrimSpace(queries'[p]) : p \in {r \in W \cup {q} : Finds(r, e)'}}
        = {TrimSpace(queries[p]) : p \in {r \in W \cup {q} : Finds(r, e)}}
    BY <1>1, <2>5
  <2> QED
    BY <2>2, <2>3, <2>4, <2>6
<1>8. ASSUME NEW r \in W \cup {q}, NEW i \in Matching(answers'[r])
      PROVE  answers'[r].results[i].id \in DOMAIN found'
  BY <1>1, <1>5 DEF CompleteOver
<1>9. partial' = (\E r \in W \cup {q} : answers'[r].total > Cardinality(Matching(answers'[r])))
  <2>1. partial = (\E r \in W : answers[r].total > Cardinality(Matching(answers[r])))
    BY DEF CompleteOver
  <2>2. partial' = (partial \/ answers[q].total > Cardinality(Matching(answers[q])))
    BY <1>1 DEF PartialSoFar
  <2> QED
    BY <1>1, <2>1, <2>2
<1>10. \A S, r : Matching(S)' = Matching(S)
  BY DEF Matching
<1> QED
  BY <1>1, <1>5, <1>6, <1>7, <1>8, <1>9, <1>10 DEF CompleteOver

LEMMA SearchHolds == SearchInit /\ [][SearchNext]_searchVars => []SearchInv
<1>1. SearchInit => SearchInv
  BY DEF SearchInit, SearchInv
<1>2. ASSUME SearchInv, [SearchNext]_searchVars PROVE SearchInv'
  <2>1. ASSUME NEW qs, NEW route, SearchProvider(qs, route) PROVE SearchInv'
    <3>1. /\ asked = "start" /\ found' = found /\ texts' = texts /\ partial' = partial
          /\ found = <<>> /\ texts = <<>> /\ partial = FALSE
      BY <1>2, <2>1 DEF SearchProvider, SearchInv
    <3>2. CASE asked' \in {"refused", "passed"}
      BY <3>2 DEF SearchInv
    <3>3. CASE asked' = "asking"
      <4>1. left' = DOMAIN answers' /\ \A q \in DOMAIN answers' : answers'[q] \in Answers
        BY <2>1, <3>3 DEF SearchProvider
      <4>2. DOMAIN answers' \ left' = {}
        BY <4>1
      <4>3. WalkedIsComplete'
        <5>1. DOMAIN found = {} /\ DOMAIN texts = {}
          BY <3>1
        <5> QED
          BY <3>1, <4>2, <5>1 DEF WalkedIsComplete, CompleteOver
      <4> QED
        BY <3>3, <4>1, <4>3 DEF SearchInv
    <3> QED
      BY <2>1, <3>2, <3>3 DEF SearchProvider
  <2>2. ASSUME NEW q \in left, AdaptResponse(q) PROVE SearchInv'
    <3>1. /\ asked = "asking" /\ left' = left \ {q} /\ asked' = (IF left = {q} THEN "done" ELSE asked)
          /\ answers' = answers
      BY <2>2 DEF AdaptResponse
    <3>2. /\ \A p \in DOMAIN answers : answers[p] \in Answers
          /\ left \subseteq DOMAIN answers /\ CompleteOver(DOMAIN answers \ left)
      BY <1>2, <3>1 DEF SearchInv, WalkedIsComplete
    <3>3. PICK W : W = DOMAIN answers \ left
      OBVIOUS
    <3>4. CompleteOver(W \cup {q})'
      BY <2>2, <3>2, <3>3, AdaptCompletes
    <3>5. DOMAIN answers' \ left' = W \cup {q}
      BY <3>1, <3>2, <3>3
    <3>6. WalkedIsComplete'
      BY <3>4, <3>5 DEF WalkedIsComplete, CompleteOver
    <3> QED
      BY <3>1, <3>2, <3>6 DEF SearchInv
  <2>3. CASE UNCHANGED searchVars
    <3>1. /\ asked' = asked /\ answers' = answers /\ queries' = queries /\ left' = left
          /\ found' = found /\ texts' = texts /\ partial' = partial
      BY <2>3 DEF searchVars
    <3>2. (DOMAIN answers \ left)' = DOMAIN answers \ left
      BY <3>1
    <3>3. WalkedIsComplete' <=> WalkedIsComplete
      BY <3>1, <3>2 DEF WalkedIsComplete, CompleteOver, GivenScores, Finds, Matching
    <3> QED
      BY <1>2, <3>1, <3>3 DEF SearchInv
  <2> QED
    BY <1>2, <2>1, <2>2, <2>3 DEF SearchNext, SearchForDecision, SearchForMonitored
<1> QED
  BY <1>1, <1>2, PTL

\* For any objects, requests, edits, faults and records a run screens a record no
\* older than its request (the comparison of updated_at in RunMonitoredObject's
\* transaction), and for any answers the result of adaptSearchResponse says all
\* that the responses say, in whatever order Go walks them.
THEOREM AsAsked ==
    /\ MonitorInit /\ [][MonitorNext]_monitorVars
    /\ SearchInit /\ [][SearchNext]_searchVars
    => []ScreenedAsAsked
<1>1. MonitorInv => FreshRecord
  BY DEF MonitorInv
<1>2. SearchInv => ResultIsComplete
  <2> SUFFICES ASSUME SearchInv, asked = "done" PROVE CompleteOver(DOMAIN answers)
    BY DEF ResultIsComplete
  <2>1. left = {} /\ CompleteOver(DOMAIN answers \ left)
    BY DEF SearchInv, WalkedIsComplete
  <2>2. DOMAIN answers \ left = DOMAIN answers
    BY <2>1
  <2> QED
    BY <2>1, <2>2
<1>3. FreshRecord /\ ResultIsComplete => ScreenedAsAsked
  BY DEF ScreenedAsAsked
<1> QED
  BY <1>1, <1>2, <1>3, MonitorHolds, SearchHolds, PTL
=============================================================================
