----------------------------- MODULE RecordIngest -----------------------------
(***************************************************************************)
(* Record ingestion: IngestService.Ingest and BatchIngest as transactions  *)
(* of the ingestion service against Postgres at READ COMMITTED.  Requests  *)
(* run concurrently; a statement sees what is committed when it runs, a    *)
(* written row or key stays locked until its transaction ends, and a       *)
(* statement that needs such a row waits.                                  *)
(*                                                                         *)
(* An object stands for a table and an object id.  The content of a record *)
(* is the request that wrote it.                                           *)
(***************************************************************************)
EXTENDS Sequences, Naturals, FiniteSets

CONSTANTS
    Requests, NoRequest,
    Objects,
    IngestKeys, NoKey,
    KeyOf,      \* the Idempotency-Key of a request, or NoKey
    BodyOf,     \* what hashRequest covers: the payload, not the table or mode
    KindOf,     \* "single" or "batch": the response kind
    ModeOf,     \* "create" or "patch"
    Records,    \* the objects a request writes, in order, distinct
    Slots       \* write path concurrency limit

\* Validation lets only batches through that have records, and each once.
ASSUME IngestAssumption ==
    /\ NoRequest \notin Requests /\ NoKey \notin IngestKeys
    /\ KeyOf \in [Requests -> IngestKeys \cup {NoKey}]
    /\ Records \in [Requests -> Seq(Objects)]
    /\ \A r \in Requests :
         /\ Records[r] # <<>>
         /\ \A i, j \in 1 .. Len(Records[r]) : Records[r][i] = Records[r][j] => i = j

VARIABLES
    pc,        \* per request
    tx,        \* per request: the record events its transaction has written
    lock,      \* per object: the open transaction that wrote it, or NoRequest
    keyLock,   \* per key: the open transaction that inserted it, or NoRequest
    table,     \* per object: the request whose write is committed, or NoRequest
    keys,      \* per key: the committed row: who wrote it, the stored response
    log,       \* the committed record events, in commit order
    verdict,    \* per request
    response   \* per request: the results returned

locks == <<lock, keyLock>>
db    == <<table, keys, log>>
ingestVars  == <<pc, tx, locks, db, verdict, response>>

NoRow == [by |-> NoRequest, results |-> <<>>]

IngestInit ==
    /\ pc = [r \in Requests |-> "start"]
    /\ tx = [r \in Requests |-> <<>>]
    /\ lock = [o \in Objects |-> NoRequest]
    /\ keyLock = [k \in IngestKeys |-> NoRequest]
    /\ table = [o \in Objects |-> NoRequest]
    /\ keys = [k \in IngestKeys |-> NoRow]
    /\ log = <<>>
    /\ verdict = [r \in Requests |-> "none"]
    /\ response = [r \in Requests |-> <<>>]

-----------------------------------------------------------------------------
\* The record a transaction writes next, and the statement that does it first.
Current(r) == Records[r][Len(tx[r]) + 1]
FirstStatement(r) == IF ModeOf[r] = "patch" THEN "update" ELSE "insert"
InFlight == {r \in Requests : pc[r] \notin {"start", "done"}}

Answer(r, a, results) ==
    /\ pc' = [pc EXCEPT ![r] = "done"]
    /\ verdict' = [verdict EXCEPT ![r] = a]
    /\ response' = [response EXCEPT ![r] = results]

Rollback(r) ==
    /\ lock' = [o \in Objects |-> IF lock[o] = r THEN NoRequest ELSE lock[o]]
    /\ keyLock' = [k \in IngestKeys |-> IF keyLock[k] = r THEN NoRequest ELSE keyLock[k]]
    /\ tx' = [tx EXCEPT ![r] = <<>>]
    /\ UNCHANGED db

\* No write slot is free: 429 (or, for a single record, a deferred ingest).
Overloaded(r) ==
    /\ pc[r] = "start"
    /\ Cardinality(InFlight) >= Slots
    /\ Answer(r, "overloaded", <<>>)
    /\ UNCHANGED <<tx, locks, db>>

\* The data model cannot be read or is not writable, or validation failed
\* (which also refuses an empty batch, an oversized one and repeated ids).
Refused(r) ==
    /\ pc[r] = "start"
    /\ Cardinality(InFlight) < Slots
    /\ Answer(r, "refused", <<>>)
    /\ UNCHANGED <<tx, locks, db>>

BeginTx(r) ==
    /\ pc[r] = "start"
    /\ Cardinality(InFlight) < Slots
    /\ pc' = [pc EXCEPT ![r] = IF KeyOf[r] = NoKey THEN FirstStatement(r) ELSE "get"]
    /\ UNCHANGED <<tx, locks, db, verdict, response>>

\* Idempotency().Get found no committed row.
GetMissing(r) ==
    /\ pc[r] = "get"
    /\ keys[KeyOf[r]].by = NoRequest
    /\ pc' = [pc EXCEPT ![r] = FirstStatement(r)]
    /\ UNCHANGED <<tx, locks, db, verdict, response>>

SameRequest(r, b) == BodyOf[r] = BodyOf[b] /\ KindOf[r] = KindOf[b]

\* ... or found one: the stored response is replayed to an equal request of the
\* same kind.
ReplayKey(r) ==
    /\ pc[r] = "get"
    /\ keys[KeyOf[r]].by # NoRequest
    /\ IF SameRequest(r, keys[KeyOf[r]].by)
       THEN Answer(r, "replayed", keys[KeyOf[r]].results)
       ELSE Answer(r, "key_reused", <<>>)
    /\ UNCHANGED <<tx, locks, db>>

\* The record is written, with its audit row and its outbox event.
Wrote(r, action) ==
    /\ tx' = [tx EXCEPT ![r] = Append(@, [obj |-> Current(r), action |-> action, by |-> r])]
    /\ pc' = [pc EXCEPT ![r] =
                IF Len(tx[r]) + 1 < Len(Records[r]) THEN FirstStatement(r)
                ELSE IF KeyOf[r] = NoKey THEN "commit" ELSE "key"]

\* An existence check before a plain insert, in place of ON CONFLICT.
InsertAfterCheck(r) ==
    /\ pc[r] = "insert"
    /\ IF table[Current(r)] # NoRequest
       THEN /\ pc' = [pc EXCEPT ![r] = "update"]
            /\ UNCHANGED <<tx, lock>>
       ELSE /\ lock' = [lock EXCEPT ![Current(r)] = r]
            /\ Wrote(r, "created")
    /\ UNCHANGED <<keyLock, db, verdict, response>>

\* INSERT ... ON CONFLICT DO NOTHING: waits for an open insert of the same
\* object; a committed one sends it to the update.
Insert(r) ==
    /\ pc[r] = "insert"
    /\ \/ /\ table[Current(r)] # NoRequest
          /\ pc' = [pc EXCEPT ![r] = "update"]
          /\ UNCHANGED <<tx, lock>>
       \/ /\ table[Current(r)] = NoRequest
          /\ lock[Current(r)] = NoRequest
          /\ lock' = [lock EXCEPT ![Current(r)] = r]
          /\ Wrote(r, "created")
    /\ UNCHANGED <<keyLock, db, verdict, response>>

\* patchRecord: UPDATE ... RETURNING id.  A row nobody has committed is not
\* there for it; a committed row under an open write makes it wait.
Patch(r) ==
    /\ pc[r] = "update"
    /\ \/ /\ table[Current(r)] = NoRequest
          /\ pc' = [pc EXCEPT ![r] = "insert"]
          /\ UNCHANGED <<tx, lock>>
       \/ /\ table[Current(r)] # NoRequest
          /\ lock[Current(r)] = NoRequest
          /\ lock' = [lock EXCEPT ![Current(r)] = r]
          /\ Wrote(r, "updated")
    /\ UNCHANGED <<keyLock, db, verdict, response>>

\* Idempotency().Create that overwrites the row of an earlier request.
PutKeyUpsert(r) ==
    /\ pc[r] = "key"
    /\ keyLock[KeyOf[r]] = NoRequest
    /\ keyLock' = [keyLock EXCEPT ![KeyOf[r]] = r]
    /\ pc' = [pc EXCEPT ![r] = "commit"]
    /\ UNCHANGED <<tx, lock, db, verdict, response>>

\* Idempotency().Create: the insert waits for an open insert of the same key; a
\* committed one is a unique violation, and everything is rolled back.
PutKey(r) ==
    /\ pc[r] = "key"
    /\ keyLock[KeyOf[r]] = NoRequest
    /\ IF keys[KeyOf[r]].by = NoRequest
       THEN /\ keyLock' = [keyLock EXCEPT ![KeyOf[r]] = r]
            /\ pc' = [pc EXCEPT ![r] = "commit"]
            /\ UNCHANGED <<tx, lock, db, verdict, response>>
       ELSE /\ Rollback(r)
            /\ Answer(r, "key_violation", <<>>)

\* Commit; the verdict may be lost with the connection.
Commit(r, a) ==
    /\ pc[r] = "commit"
    /\ table' = [o \in Objects |-> IF lock[o] = r THEN r ELSE table[o]]
    /\ lock' = [o \in Objects |-> IF lock[o] = r THEN NoRequest ELSE lock[o]]
    /\ keys' = [k \in IngestKeys |-> IF keyLock[k] = r THEN [by |-> r, results |-> tx[r]] ELSE keys[k]]
    /\ keyLock' = [k \in IngestKeys |-> IF keyLock[k] = r THEN NoRequest ELSE keyLock[k]]
    /\ log' = log \o tx[r]
    /\ tx' = [tx EXCEPT ![r] = <<>>]
    /\ Answer(r, a, IF a = "ok" THEN tx[r] ELSE <<>>)

\* A statement fails, the client goes away, or the process dies: in any case the
\* transaction is rolled back.
Fail(r) ==
    /\ r \in InFlight
    /\ Rollback(r)
    /\ Answer(r, "error", <<>>)

\* The transaction a request waits for, or NoRequest.
WaitsFor(r) ==
    CASE pc[r] = "insert" /\ table[Current(r)] = NoRequest -> lock[Current(r)]
      [] pc[r] = "update" /\ table[Current(r)] # NoRequest -> lock[Current(r)]
      [] pc[r] = "key" -> keyLock[KeyOf[r]]
      [] OTHER -> NoRequest

\* Postgres aborts one transaction of a cycle.
DeadlockAbort(r) ==
    /\ \E S \in SUBSET Requests : r \in S /\ \A q \in S : WaitsFor(q) \in S
    /\ Rollback(r)
    /\ Answer(r, "error", <<>>)

-----------------------------------------------------------------------------
Advance(r) ==
    \/ BeginTx(r) \/ Refused(r) \/ Overloaded(r)
    \/ GetMissing(r) \/ ReplayKey(r)
    \/ Insert(r) \/ Patch(r) \/ PutKey(r)
    \/ Commit(r, "ok") \/ Commit(r, "error")
    \/ DeadlockAbort(r)

Done == (\A r \in Requests : pc[r] = "done") /\ UNCHANGED ingestVars

IngestNext == (\E r \in Requests : Advance(r) \/ Fail(r)) \/ Done

IngestSpec == IngestInit /\ [][IngestNext]_ingestVars

\* A request's goroutine runs on, and Postgres finds deadlocks.
IngestFairness == \A r \in Requests : WF_ingestVars(Advance(r))

-----------------------------------------------------------------------------
Published(r) == \E i \in DOMAIN log : log[i].by = r
Succeeded(r) == verdict[r] \in {"ok", "replayed"}

\* Of all requests with one idempotency key at most one takes effect, although
\* each looks the key up before another has committed it; those that are told
\* of success were the same request and are told the same.
OncePerKey ==
    \A q, r \in Requests : KeyOf[q] = KeyOf[r] /\ KeyOf[q] # NoKey =>
        /\ Published(q) /\ Published(r) => q = r
        /\ Succeeded(q) /\ Succeeded(r) => SameRequest(q, r) /\ response[q] = response[r]

\* An object is created once and first, whoever wrote it at the same time.
CreatedFirst ==
    \A i \in DOMAIN log : log[i].action = "created" <=> \A j \in 1 .. i - 1 : log[j].obj # log[i].obj

\* The stored record is the one its last event announced.
LastIsStored ==
    /\ \A i \in DOMAIN log :
         (\A j \in i + 1 .. Len(log) : log[j].obj # log[i].obj) => table[log[i].obj] = log[i].by
    /\ \A o \in Objects : table[o] # NoRequest => \E i \in DOMAIN log : log[i].obj = o

\* A batch is announced with all its records, in their order and at once.
AnnouncedWhole ==
    \A i \in DOMAIN log : \E n \in 0 .. Len(log) :
        LET r == log[i].by
        IN /\ \A j \in DOMAIN log : log[j].by = r <=> j \in n + 1 .. n + Len(Records[r])
           /\ \A j \in 1 .. Len(Records[r]) : n + j <= Len(log) /\ log[n + j].obj = Records[r][j]

\* The committed events tell the table, whoever wrote one object at once.
EventsTellTheTable == CreatedFirst /\ LastIsStored /\ AnnouncedWhole

\* Ingestion requests with one idempotency key take effect once and are told the
\* same, and the events tell the stored records, in order and whole
\* (IngestService.Ingest, BatchIngest).
RecordsAreExact == OncePerKey /\ EventsTellTheTable

\* A request that is told of success finds its records stored.
SuccessIsStored ==
    \A r \in Requests : Succeeded(r) =>
        \A i \in 1..Len(Records[r]) : table[Records[r][i]] # NoRequest

\* Every request is answered: requests that wait for each other are separated.
AllAnswered == \A r \in Requests : pc[r] = "done"
=============================================================================
