-------------------------- MODULE RecordIngestProofs --------------------------
(***************************************************************************)
(* Proofs about RecordIngest, for any requests, objects and keys.          *)
(*                                                                         *)
(* The inductive invariant says what an open transaction knows while it    *)
(* runs: the records it has written are the first ones of its request,     *)
(* each is locked by it, and whether it creates or updates one is settled  *)
(* by the committed table, which nobody else can change under the lock.    *)
(* The idempotency key is locked from its insertion to the commit.         *)
(***************************************************************************)
EXTENDS RecordIngest, SequenceTheorems, TLAPS

PCs == {"start", "get", "insert", "update", "key", "commit", "done"}
Verdicts == {"none", "ok", "replayed", "error", "refused", "overloaded", "key_reused", "key_violation"}
Event == [obj : Objects, action : {"created", "updated"}, by : Requests]
Owner == Requests \cup {NoRequest}

IngestTypes ==
    /\ pc \in [Requests -> PCs]
    /\ tx \in [Requests -> Seq(Event)]
    /\ lock \in [Objects -> Owner]
    /\ keyLock \in [IngestKeys -> Owner]
    /\ table \in [Objects -> Owner]
    /\ keys \in [IngestKeys -> [by : Owner, results : Seq(Event)]]
    /\ log \in Seq(Event)
    /\ verdict \in [Requests -> Verdicts]
    /\ response \in [Requests -> Seq(Event)]

\* How far a transaction is.
Progressed(r) ==
    /\ pc[r] \in {"start", "get", "done"} => Len(tx[r]) = 0
    /\ pc[r] \in {"insert", "update"} => Len(tx[r]) < Len(Records[r])
    /\ pc[r] \in {"key", "commit"} => Len(tx[r]) = Len(Records[r])
    /\ pc[r] \in {"get", "key"} => KeyOf[r] # NoKey

\* The records written so far, under the locks of the transaction.
Written(r) ==
    \A i \in 1 .. Len(tx[r]) :
        /\ tx[r][i].obj = Records[r][i] /\ tx[r][i].by = r
        /\ lock[Records[r][i]] = r
        /\ tx[r][i].action = "created" <=> table[Records[r][i]] = NoRequest

\* A lock is the trace of a write.
Locked(o) == lock[o] # NoRequest => \E i \in 1 .. Len(tx[lock[o]]) : Records[lock[o]][i] = o

\* The key, from its insertion on.
KeyTaken(k) ==
    /\ keyLock[k] # NoRequest => pc[keyLock[k]] = "commit" /\ KeyOf[keyLock[k]] = k /\ keys[k].by = NoRequest
    /\ keys[k].by # NoRequest => pc[keys[k].by] = "done" /\ KeyOf[keys[k].by] = k
KeyHeld(r) == pc[r] = "commit" /\ KeyOf[r] # NoKey => keyLock[KeyOf[r]] = r

\* What a request was told.
Told(r) ==
    /\ pc[r] # "done" => verdict[r] = "none"
    /\ verdict[r] = "ok" /\ KeyOf[r] # NoKey => keys[KeyOf[r]].by = r /\ response[r] = keys[KeyOf[r]].results
    /\ verdict[r] = "replayed" =>
         /\ KeyOf[r] # NoKey /\ keys[KeyOf[r]].by # NoRequest
         /\ SameRequest(r, keys[KeyOf[r]].by) /\ response[r] = keys[KeyOf[r]].results

\* Events come from committed requests, and of those with a key from the one
\* that the key's row names.
Logged ==
    \A i \in 1 .. Len(log) :
        /\ pc[log[i].by] = "done" /\ table[log[i].obj] # NoRequest
        /\ KeyOf[log[i].by] # NoKey => keys[KeyOf[log[i].by]].by = log[i].by

Requested == \A r \in Requests : Progressed(r) /\ Written(r) /\ KeyHeld(r) /\ Told(r)
Stored == (\A o \in Objects : Locked(o)) /\ (\A k \in IngestKeys : KeyTaken(k))

IngestInv == IngestTypes /\ Requested /\ Stored /\ Logged /\ EventsTellTheTable

-----------------------------------------------------------------------------
\* The fields of an event.
LEMMA EventType ==
    ASSUME NEW e \in Event
    PROVE  e.obj \in Objects /\ e.action \in {"created", "updated"} /\ e.by \in Requests
BY DEF Event

\* The records of a request.
LEMMA RecordsType ==
    ASSUME NEW r \in Requests
    PROVE  /\ Records[r] \in Seq(Objects) /\ Len(Records[r]) \in Nat \ {0}
           /\ \A i \in 1 .. Len(Records[r]) : Records[r][i] \in Objects
           /\ \A i, j \in 1 .. Len(Records[r]) : Records[r][i] = Records[r][j] => i = j
<1>1. Records[r] \in Seq(Objects) /\ Records[r] # <<>>
  BY IngestAssumption
<1> QED
  BY <1>1, EmptySeq, LenProperties, ElementOfSeq, IngestAssumption

\* Nothing has happened at first.
LEMMA InitInv == IngestInit => IngestInv
<1> SUFFICES ASSUME IngestInit PROVE IngestInv
  OBVIOUS
<1> USE DEF IngestInit
<1>1. IngestTypes
  <2>1. <<>> \in Seq(Event)
    BY EmptySeq
  <2>2. pc \in [Requests -> PCs] /\ verdict \in [Requests -> Verdicts]
    BY DEF PCs, Verdicts
  <2>3. tx \in [Requests -> Seq(Event)] /\ response \in [Requests -> Seq(Event)] /\ log \in Seq(Event)
    BY <2>1
  <2>4. lock \in [Objects -> Owner] /\ keyLock \in [IngestKeys -> Owner] /\ table \in [Objects -> Owner]
    BY DEF Owner
  <2>5. keys \in [IngestKeys -> [by : Owner, results : Seq(Event)]]
    BY <2>1 DEF Owner, NoRow
  <2> QED
    BY <2>2, <2>3, <2>4, <2>5 DEF IngestTypes
<1>2. Requested
  BY EmptySeq DEF Requested, Progressed, Written, KeyHeld, Told
<1>3. Stored /\ Logged
  BY EmptySeq DEF Stored, Locked, KeyTaken, Logged, NoRow
<1>4. EventsTellTheTable
  BY EmptySeq DEF EventsTellTheTable, CreatedFirst, LastIsStored, AnnouncedWhole
<1> QED
  BY <1>1, <1>2, <1>3, <1>4 DEF IngestInv

\* What is said of the events stays true while they and the table stay.
LEMMA SameLog == EventsTellTheTable /\ UNCHANGED db => EventsTellTheTable'
<1> SUFFICES ASSUME EventsTellTheTable, log' = log, table' = table PROVE EventsTellTheTable'
  BY DEF db
<1>1. CreatedFirst'
  BY DEF EventsTellTheTable, CreatedFirst
<1>2. LastIsStored'
  BY DEF EventsTellTheTable, LastIsStored
<1>3. AnnouncedWhole'
  BY DEF EventsTellTheTable, AnnouncedWhole
<1> QED
  BY <1>1, <1>2, <1>3 DEF EventsTellTheTable

\* A step of a transaction that leaves its writes and the database alone.
LEMMA QuietStep ==
    ASSUME IngestInv, NEW r \in Requests, UNCHANGED <<tx, locks, db>>,
           pc' \in [Requests -> PCs], verdict' \in [Requests -> Verdicts], response' \in [Requests -> Seq(Event)],
           \A q \in Requests \ {r} : pc'[q] = pc[q] /\ verdict'[q] = verdict[q] /\ response'[q] = response[q],
           pc[r] \notin {"commit", "done"}, pc'[r] # "commit", Progressed(r)', Told(r)'
    PROVE  IngestInv'
<1>1. IngestTypes'
  BY DEF IngestInv, IngestTypes, locks, db
<1>2. Requested'
  <2> SUFFICES ASSUME NEW q \in Requests PROVE (Progressed(q) /\ Written(q) /\ KeyHeld(q) /\ Told(q))'
    BY DEF Requested
  <2>1. Progressed(q)' /\ KeyHeld(q)'
    BY DEF IngestInv, Requested, Progressed, KeyHeld, locks, db
  <2>2. Written(q)'
    BY DEF IngestInv, Requested, Written, locks, db
  <2>3. Told(q)'
    BY DEF IngestInv, Requested, Told, locks, db
  <2> QED
    BY <2>1, <2>2, <2>3
<1>3. Stored'
  <2>1. \A o \in Objects : Locked(o)'
    BY DEF IngestInv, Stored, Locked, locks
  <2>2. \A k \in IngestKeys : KeyTaken(k)'
    BY DEF IngestInv, Stored, KeyTaken, locks, db, IngestTypes, Owner
  <2> QED
    BY <2>1, <2>2 DEF Stored
<1>4. Logged'
  <2> SUFFICES ASSUME NEW i \in 1 .. Len(log)
               PROVE  pc'[log[i].by] = "done" /\ table[log[i].obj] # NoRequest
                      /\ (KeyOf[log[i].by] # NoKey => keys[KeyOf[log[i].by]].by = log[i].by)
    BY DEF Logged, db
  <2>1. log[i].by \in Requests
    BY ElementOfSeq, EventType DEF IngestInv, IngestTypes
  <2> QED
    BY <2>1 DEF IngestInv, Logged
<1>5. EventsTellTheTable'
  BY SameLog DEF IngestInv
<1> QED
  BY <1>1, <1>2, <1>3, <1>4, <1>5 DEF IngestInv

\* A record is written: its lock is taken, and until the commit nobody else
\* writes the object.
LEMMA WriteStep ==
    ASSUME IngestInv, NEW r \in Requests, NEW a \in {"created", "updated"},
           pc[r] \in {"insert", "update"}, lock[Current(r)] = NoRequest,
           a = "created" <=> table[Current(r)] = NoRequest,
           lock' = [lock EXCEPT ![Current(r)] = r], Wrote(r, a),
           UNCHANGED <<keyLock, db, verdict, response>>
    PROVE  IngestInv'
<1> DEFINE e == [obj |-> Current(r), action |-> a, by |-> r]
           n == Len(tx[r]) + 1
<1>1. /\ tx[r] \in Seq(Event) /\ Len(tx[r]) \in Nat /\ Len(tx[r]) < Len(Records[r])
      /\ n \in 1 .. Len(Records[r]) /\ Current(r) = Records[r][n] /\ Current(r) \in Objects
  BY RecordsType, LenProperties DEF IngestInv, IngestTypes, Requested, Progressed, Current
<1>2. /\ e \in Event /\ e.obj = Records[r][n] /\ e.by = r /\ e.action = a
  BY <1>1 DEF Event
<1>3. /\ tx' = [tx EXCEPT ![r] = Append(tx[r], e)]
      /\ Append(tx[r], e) \in Seq(Event) /\ Len(Append(tx[r], e)) = n
      /\ \A i \in 1 .. n : Append(tx[r], e)[i] = IF i = n THEN e ELSE tx[r][i]
  BY <1>1, <1>2, AppendProperties DEF Wrote
<1>4. tx'[r] = Append(tx[r], e) /\ \A q \in Requests \ {r} : tx'[q] = tx[q]
  BY <1>3 DEF IngestInv, IngestTypes
<1>5. /\ pc' \in [Requests -> PCs] /\ \A q \in Requests \ {r} : pc'[q] = pc[q]
      /\ n < Len(Records[r]) => pc'[r] \in {"insert", "update"}
      /\ ~(n < Len(Records[r])) => n = Len(Records[r]) /\ pc'[r] = IF KeyOf[r] = NoKey THEN "commit" ELSE "key"
  BY <1>1, RecordsType DEF Wrote, IngestInv, IngestTypes, FirstStatement, PCs
<1>6. IngestTypes'
  <2>1. tx' \in [Requests -> Seq(Event)]
    BY <1>3 DEF IngestInv, IngestTypes
  <2>2. lock' \in [Objects -> Owner]
    BY <1>1 DEF IngestInv, IngestTypes, Owner
  <2> QED
    BY <1>5, <2>1, <2>2 DEF IngestInv, IngestTypes, db
<1>7. Requested'
  <2> SUFFICES ASSUME NEW q \in Requests PROVE (Progressed(q) /\ Written(q) /\ KeyHeld(q) /\ Told(q))'
    BY DEF Requested
  <2>1. KeyHeld(q)' /\ Told(q)'
    BY <1>5 DEF IngestInv, Requested, KeyHeld, Told, db
  <2>2. Progressed(q)'
    BY <1>1, <1>3, <1>4, <1>5 DEF IngestInv, Requested, Progressed
  <2>3. Written(q)'
    <3>1. CASE q = r
      <4> SUFFICES ASSUME NEW i \in 1 .. n
                   PROVE  /\ tx'[r][i].obj = Records[r][i] /\ tx'[r][i].by = r /\ lock'[Records[r][i]] = r
                          /\ tx'[r][i].action = "created" <=> table[Records[r][i]] = NoRequest
        BY <3>1, <1>3, <1>4 DEF Written, db
      <4>1. CASE i = n
        BY <4>1, <1>1, <1>2, <1>3, <1>4 DEF IngestInv, IngestTypes
      <4>2. CASE i # n
        <5>1. i \in 1 .. Len(tx[r]) /\ tx'[r][i] = tx[r][i] /\ Records[r][i] \in Objects
          BY <4>2, <1>1, <1>3, <1>4, RecordsType
        <5>2. Written(r)
          BY DEF IngestInv, Requested
        <5> QED
          BY <5>1, <5>2, <1>1 DEF Written, IngestInv, IngestTypes
      <4> QED
        BY <4>1, <4>2
    <3>2. CASE q # r
      <4> SUFFICES ASSUME NEW i \in 1 .. Len(tx[q])
                   PROVE  /\ tx[q][i].obj = Records[q][i] /\ tx[q][i].by = q /\ lock'[Records[q][i]] = q
                          /\ tx[q][i].action = "created" <=> table[Records[q][i]] = NoRequest
        BY <3>2, <1>4 DEF Written, db
      <4>1. Written(q) /\ q # NoRequest /\ tx[q][i] \in Event
        BY IngestAssumption, ElementOfSeq DEF IngestInv, Requested, IngestTypes
      <4>2. Records[q][i] \in Objects /\ lock[Records[q][i]] = q
        BY <4>1, EventType DEF Written
      <4> QED
        BY <4>1, <4>2, <1>1 DEF Written, IngestInv, IngestTypes
    <3> QED
      BY <3>1, <3>2
  <2> QED
    BY <2>1, <2>2, <2>3
<1>8. Stored'
  <2>1. ASSUME NEW o \in Objects PROVE Locked(o)'
    <3>1. CASE o = Current(r)
      BY <3>1, <1>1, <1>3, <1>4 DEF Locked, IngestInv, IngestTypes
    <3>2. CASE o # Current(r)
      <4>1. lock'[o] = lock[o] /\ Locked(o) /\ lock[o] \in Owner
        BY <3>2 DEF IngestInv, IngestTypes, Stored
      <4>2. CASE lock[o] = r
        BY <4>1, <4>2, <1>1, <1>3, <1>4 DEF Locked
      <4>3. CASE lock[o] # r
        BY <4>1, <4>3, <1>4 DEF Locked, Owner
      <4> QED
        BY <4>2, <4>3
    <3> QED
      BY <3>1, <3>2
  <2>2. ASSUME NEW k \in IngestKeys PROVE KeyTaken(k)'
    BY <1>5 DEF IngestInv, Stored, KeyTaken, db, IngestTypes, Owner
  <2> QED
    BY <2>1, <2>2 DEF Stored
<1>9. Logged'
  <2> SUFFICES ASSUME NEW i \in 1 .. Len(log)
               PROVE  pc'[log[i].by] = "done" /\ table[log[i].obj] # NoRequest
                      /\ (KeyOf[log[i].by] # NoKey => keys[KeyOf[log[i].by]].by = log[i].by)
    BY DEF Logged, db
  <2>1. log[i].by \in Requests
    BY ElementOfSeq, EventType DEF IngestInv, IngestTypes
  <2> QED
    BY <2>1, <1>5 DEF IngestInv, Logged
<1>10. EventsTellTheTable'
  BY SameLog DEF IngestInv
<1> QED
  BY <1>6, <1>7, <1>8, <1>9, <1>10 DEF IngestInv

\* The key is inserted.
LEMMA TakeKeyStep ==
    ASSUME IngestInv, NEW r \in Requests, pc[r] = "key",
           keyLock[KeyOf[r]] = NoRequest, keys[KeyOf[r]].by = NoRequest,
           keyLock' = [keyLock EXCEPT ![KeyOf[r]] = r], pc' = [pc EXCEPT ![r] = "commit"],
           UNCHANGED <<tx, lock, db, verdict, response>>
    PROVE  IngestInv'
<1>1. KeyOf[r] \in IngestKeys /\ r # NoRequest
  BY IngestAssumption DEF IngestInv, Requested, Progressed
<1>2. IngestTypes'
  BY <1>1 DEF IngestInv, IngestTypes, Owner, PCs, db
<1>3. Requested'
  <2> SUFFICES ASSUME NEW q \in Requests PROVE (Progressed(q) /\ Written(q) /\ KeyHeld(q) /\ Told(q))'
    BY DEF Requested
  <2>1. Progressed(q)'
    BY DEF IngestInv, Requested, Progressed, IngestTypes
  <2>2. Written(q)'
    BY DEF IngestInv, Requested, Written, db
  <2>3. KeyHeld(q)'
    BY <1>1, IngestAssumption DEF IngestInv, Requested, KeyHeld, IngestTypes
  <2>4. Told(q)'
    BY DEF IngestInv, Requested, Told, IngestTypes, db
  <2> QED
    BY <2>1, <2>2, <2>3, <2>4
<1>4. Stored'
  <2>1. \A o \in Objects : Locked(o)'
    BY DEF IngestInv, Stored, Locked
  <2>2. ASSUME NEW k \in IngestKeys PROVE KeyTaken(k)'
    BY <1>1 DEF IngestInv, Stored, KeyTaken, db, IngestTypes, Owner
  <2> QED
    BY <2>1, <2>2 DEF Stored
<1>5. Logged'
  <2> SUFFICES ASSUME NEW i \in 1 .. Len(log)
               PROVE  pc'[log[i].by] = "done" /\ table[log[i].obj] # NoRequest
                      /\ (KeyOf[log[i].by] # NoKey => keys[KeyOf[log[i].by]].by = log[i].by)
    BY DEF Logged, db
  <2>1. log[i].by \in Requests
    BY ElementOfSeq, EventType DEF IngestInv, IngestTypes
  <2> QED
    BY <2>1 DEF IngestInv, Logged, IngestTypes
<1>6. EventsTellTheTable'
  BY SameLog DEF IngestInv
<1> QED
  BY <1>2, <1>3, <1>4, <1>5, <1>6 DEF IngestInv

\* A transaction is rolled back: nobody else's locks go with it.
LEMMA RollbackStep ==
    ASSUME IngestInv, NEW r \in Requests, NEW a \in Verdicts, a \notin {"ok", "replayed"}, pc[r] \notin {"start", "done"},
           Rollback(r), Answer(r, a, <<>>)
    PROVE  IngestInv'
<1>1. <<>> \in Seq(Event) /\ Len(<<>>) = 0 /\ r # NoRequest
  BY EmptySeq, IngestAssumption
<1>2. /\ tx' \in [Requests -> Seq(Event)] /\ tx'[r] = <<>> /\ \A q \in Requests \ {r} : tx'[q] = tx[q]
      /\ pc' \in [Requests -> PCs] /\ pc'[r] = "done" /\ \A q \in Requests \ {r} : pc'[q] = pc[q]
  BY <1>1 DEF IngestInv, IngestTypes, Rollback, Answer, PCs
<1>3. /\ verdict' \in [Requests -> Verdicts] /\ verdict'[r] = a /\ \A q \in Requests \ {r} : verdict'[q] = verdict[q]
      /\ response' \in [Requests -> Seq(Event)] /\ \A q \in Requests \ {r} : response'[q] = response[q]
  BY <1>1 DEF IngestInv, IngestTypes, Answer
<1>4. /\ \A o \in Objects : lock'[o] = IF lock[o] = r THEN NoRequest ELSE lock[o]
      /\ \A k \in IngestKeys : keyLock'[k] = IF keyLock[k] = r THEN NoRequest ELSE keyLock[k]
  BY DEF Rollback
<1>5. IngestTypes'
  <2>1. lock' \in [Objects -> Owner] /\ keyLock' \in [IngestKeys -> Owner]
    BY DEF IngestInv, IngestTypes, Rollback, Owner
  <2> QED
    BY <1>2, <1>3, <2>1 DEF IngestInv, IngestTypes, Rollback, db
<1>6. Requested'
  <2> SUFFICES ASSUME NEW q \in Requests PROVE (Progressed(q) /\ Written(q) /\ KeyHeld(q) /\ Told(q))'
    BY DEF Requested
  <2>1. CASE q = r
    BY <2>1, <1>1, <1>2, <1>3 DEF Progressed, Written, KeyHeld, Told
  <2>2. CASE q # r
    <3>1. Progressed(q)' /\ Told(q)'
      BY <2>2, <1>2, <1>3 DEF IngestInv, Requested, Progressed, Told, Rollback, db
    <3>2. Written(q)'
      <4> SUFFICES ASSUME NEW i \in 1 .. Len(tx[q])
                   PROVE  /\ tx[q][i].obj = Records[q][i] /\ tx[q][i].by = q /\ lock'[Records[q][i]] = q
                          /\ tx[q][i].action = "created" <=> table[Records[q][i]] = NoRequest
        BY <2>2, <1>2 DEF Written, Rollback, db
      <4>1. Written(q) /\ tx[q][i] \in Event
        BY ElementOfSeq DEF IngestInv, Requested, IngestTypes
      <4>2. Records[q][i] \in Objects
        BY <4>1, EventType DEF Written
      <4> QED
        BY <4>1, <4>2, <2>2, <1>4 DEF Written
    <3>3. KeyHeld(q)'
      <4> SUFFICES ASSUME pc[q] = "commit", KeyOf[q] # NoKey PROVE keyLock'[KeyOf[q]] = q
        BY <2>2, <1>2 DEF KeyHeld
      <4>1. KeyOf[q] \in IngestKeys /\ keyLock[KeyOf[q]] = q
        BY IngestAssumption DEF IngestInv, Requested, KeyHeld
      <4> QED
        BY <4>1, <2>2, <1>4
    <3> QED
      BY <3>1, <3>2, <3>3
  <2> QED
    BY <2>1, <2>2
<1>7. Stored'
  <2>1. ASSUME NEW o \in Objects PROVE Locked(o)'
    <3>1. Locked(o) /\ lock[o] \in Owner
      BY DEF IngestInv, IngestTypes, Stored
    <3>2. CASE lock[o] = r
      BY <3>2, <1>4 DEF Locked
    <3>3. CASE lock[o] # r
      BY <3>1, <3>3, <1>2, <1>4 DEF Locked, Owner
    <3> QED
      BY <3>2, <3>3
  <2>2. ASSUME NEW k \in IngestKeys PROVE KeyTaken(k)'
    BY <1>1, <1>2, <1>4 DEF IngestInv, IngestTypes, Stored, KeyTaken, Owner, Rollback, db
  <2> QED
    BY <2>1, <2>2 DEF Stored
<1>8. Logged'
  <2> SUFFICES ASSUME NEW i \in 1 .. Len(log)
               PROVE  pc'[log[i].by] = "done" /\ table[log[i].obj] # NoRequest
                      /\ (KeyOf[log[i].by] # NoKey => keys[KeyOf[log[i].by]].by = log[i].by)
    BY DEF Logged, Rollback, db
  <2>1. log[i].by \in Requests
    BY ElementOfSeq, EventType DEF IngestInv, IngestTypes
  <2> QED
    BY <2>1, <1>2 DEF IngestInv, Logged
<1>9. EventsTellTheTable'
  BY SameLog DEF IngestInv, Rollback
<1> QED
  BY <1>5, <1>6, <1>7, <1>8, <1>9 DEF IngestInv

\* What a commit writes: the events after the others, in their order, and the
\* records under its locks.
Committed(r) ==
    LET L == Len(log)
        N == Len(Records[r])
    IN /\ L \in Nat /\ N \in Nat \ {0} /\ log' \in Seq(Event) /\ Len(log') = L + N
       /\ DOMAIN log = 1 .. L /\ DOMAIN log' = 1 .. L + N
       /\ \A i \in 1 .. L : log'[i] = log[i] /\ log[i] \in Event /\ log[i].by # r
       /\ \A j \in 1 .. N : /\ log'[L + j].obj = Records[r][j] /\ log'[L + j].by = r
                            /\ log'[L + j].action = "created" <=> table[Records[r][j]] = NoRequest
       /\ \A j \in 1 .. N : Records[r][j] \in Objects /\ lock[Records[r][j]] = r
       /\ \A i, j \in 1 .. N : Records[r][i] = Records[r][j] => i = j
       /\ \A o \in Objects : table'[o] = IF lock[o] = r THEN r ELSE table[o]
       /\ \A o \in Objects : lock[o] = r => \E j \in 1 .. N : Records[r][j] = o

LEMMA CommitWrites ==
    ASSUME IngestInv, NEW r \in Requests, NEW a \in {"ok", "error"}, Commit(r, a)
    PROVE  Committed(r)
<1> DEFINE L == Len(log)
           N == Len(Records[r])
<1>1. L \in Nat /\ N \in Nat \ {0} /\ log \in Seq(Event) /\ tx[r] \in Seq(Event) /\ Len(tx[r]) = N
  BY RecordsType, LenProperties DEF IngestInv, IngestTypes, Requested, Progressed, Commit
<1>2. /\ log' \in Seq(Event) /\ Len(log') = L + N
      /\ \A i \in 1 .. L + N : log'[i] = IF i <= L THEN log[i] ELSE tx[r][i - L]
  <2>1. log' = log \o tx[r]
    BY DEF Commit
  <2>2. /\ log \o tx[r] \in Seq(Event) /\ Len(log \o tx[r]) = Len(log) + Len(tx[r])
        /\ \A i \in 1 .. Len(log) + Len(tx[r]) :
             (log \o tx[r])[i] = IF i <= Len(log) THEN log[i] ELSE tx[r][i - Len(log)]
    BY <1>1, ConcatProperties
  <2> QED
    BY <1>1, <2>1, <2>2
<1>3. DOMAIN log = 1 .. L /\ DOMAIN log' = 1 .. L + N
  BY <1>1, <1>2, LenProperties
<1>4. ASSUME NEW i \in 1 .. L PROVE log'[i] = log[i] /\ log[i] \in Event /\ log[i].by # r
  <2>1. i \in 1 .. L + N /\ i <= L
    BY <1>1
  <2>2. log[i] \in Event
    BY <1>1, ElementOfSeq
  <2> QED
    BY <2>1, <2>2, <1>2 DEF IngestInv, Logged, Commit
<1>5. ASSUME NEW j \in 1 .. N
      PROVE  /\ log'[L + j].obj = Records[r][j] /\ log'[L + j].by = r
             /\ log'[L + j].action = "created" <=> table[Records[r][j]] = NoRequest
             /\ Records[r][j] \in Objects /\ lock[Records[r][j]] = r
  <2>1. log'[L + j] = tx[r][j]
    <3>1. L + j \in 1 .. L + N /\ ~(L + j <= L) /\ (L + j) - L = j
      BY <1>1
    <3> QED
      BY <3>1, <1>2
  <2> QED
    BY <2>1, <1>1, RecordsType DEF IngestInv, Requested, Written
<1>6. \A i, j \in 1 .. N : Records[r][i] = Records[r][j] => i = j
  BY RecordsType
<1>7. \A o \in Objects : table'[o] = IF lock[o] = r THEN r ELSE table[o]
  BY DEF Commit
<1>8. ASSUME NEW o \in Objects, lock[o] = r PROVE \E j \in 1 .. N : Records[r][j] = o
  <2>1. r # NoRequest /\ Locked(o)
    BY IngestAssumption DEF IngestInv, Stored
  <2> QED
    BY <2>1, <1>1, <1>8 DEF Locked
<1> QED
  BY <1>1, <1>2, <1>3, <1>4, <1>5, <1>6, <1>7, <1>8 DEF Committed

\* An event of the new log is an old one, or one of those just written.
LEMMA OldOrNew ==
    ASSUME NEW r, Committed(r), NEW i \in DOMAIN log'
    PROVE  \/ i \in 1 .. Len(log)
           \/ \E j \in 1 .. Len(Records[r]) : i = Len(log) + j
<1>1. CASE i <= Len(log)
  BY <1>1 DEF Committed
<1>2. CASE ~(i <= Len(log))
  <2>1. i - Len(log) \in 1 .. Len(Records[r]) /\ i = Len(log) + (i - Len(log))
    BY <1>2 DEF Committed
  <2> QED
    BY <2>1
<1> QED
  BY <1>1, <1>2

\* A commit keeps the log in step with the table.
LEMMA CommitTells ==
    ASSUME NEW r \in Requests, Committed(r), IngestTypes, Logged, EventsTellTheTable
    PROVE  EventsTellTheTable'
<1> DEFINE L == Len(log)
           N == Len(Records[r])
<1>0. /\ L \in Nat /\ N \in Nat \ {0} /\ Len(log') = L + N /\ DOMAIN log = 1 .. L /\ DOMAIN log' = 1 .. L + N
      /\ \A i \in 1 .. L : log'[i] = log[i] /\ log[i].by # r /\ log[i].obj \in Objects
  BY EventType DEF Committed
<1>1. \A j \in 1 .. N : /\ log'[L + j].obj = Records[r][j] /\ log'[L + j].by = r
                        /\ log'[L + j].action = "created" <=> table[Records[r][j]] = NoRequest
                        /\ Records[r][j] \in Objects /\ lock[Records[r][j]] = r
  BY DEF Committed
<1>2. CreatedFirst'
  <2> SUFFICES ASSUME NEW i \in DOMAIN log'
               PROVE  log'[i].action = "created" <=> \A j \in 1 .. i - 1 : log'[j].obj # log'[i].obj
    BY DEF CreatedFirst
  <2>1. CASE i \in 1 .. L
    <3>1. log'[i] = log[i] /\ \A j \in 1 .. i - 1 : log'[j] = log[j]
      BY <2>1, <1>0
    <3> QED
      BY <2>1, <3>1, <1>0 DEF EventsTellTheTable, CreatedFirst
  <2>2. CASE \E n \in 1 .. N : i = L + n
    <3> PICK n \in 1 .. N : i = L + n
      BY <2>2
    <3>1. ASSUME NEW j \in 1 .. N, j < n PROVE log'[L + j].obj # log'[i].obj
      BY <3>1, <1>1 DEF Committed
    <3>2. (\A j \in 1 .. L : log[j].obj # Records[r][n]) <=> table[Records[r][n]] = NoRequest
      BY <1>0, <1>1 DEF EventsTellTheTable, LastIsStored, Logged
    <3>3. CASE table[Records[r][n]] = NoRequest
      <4> SUFFICES ASSUME NEW j \in 1 .. i - 1 PROVE log'[j].obj # log'[i].obj
        BY <3>3, <1>1
      <4>1. CASE j <= L
        BY <4>1, <3>2, <3>3, <1>0, <1>1
      <4>2. CASE ~(j <= L)
        <5>1. j - L \in 1 .. N /\ j - L < n /\ j = L + (j - L)
          BY <4>2, <1>0
        <5> QED
          BY <5>1, <3>1
      <4> QED
        BY <4>1, <4>2
    <3>4. CASE table[Records[r][n]] # NoRequest
      <4>1. PICK j \in 1 .. L : log[j].obj = Records[r][n]
        BY <3>2, <3>4
      <4>2. j \in 1 .. i - 1 /\ log'[j].obj = log'[i].obj
        BY <4>1, <1>0, <1>1
      <4> QED
        BY <4>2, <3>4, <1>1
    <3> QED
      BY <3>3, <3>4
  <2> QED
    BY <2>1, <2>2, OldOrNew
<1>3. LastIsStored'
  <2>1. ASSUME NEW i \in DOMAIN log', \A j \in i + 1 .. Len(log') : log'[j].obj # log'[i].obj
        PROVE  table'[log'[i].obj] = log'[i].by
    <3>1. CASE i \in 1 .. L
      <4>1. \A j \in i + 1 .. L : log[j].obj # log[i].obj
        BY <3>1, <2>1, <1>0
      <4>2. ASSUME NEW j \in 1 .. N PROVE Records[r][j] # log[i].obj
        <5>1. L + j \in i + 1 .. Len(log')
          BY <3>1, <1>0
        <5> QED
          BY <5>1, <3>1, <2>1, <1>0, <1>1
      <4>3. lock[log[i].obj] # r
        BY <4>2, <3>1, <1>0 DEF Committed
      <4> QED
        BY <4>1, <4>3, <3>1, <1>0 DEF Committed, EventsTellTheTable, LastIsStored
    <3>2. CASE \E n \in 1 .. N : i = L + n
      BY <3>2, <1>1 DEF Committed
    <3> QED
      BY <3>1, <3>2, OldOrNew
  <2>2. ASSUME NEW o \in Objects, table'[o] # NoRequest PROVE \E i \in DOMAIN log' : log'[i].obj = o
    <3>1. CASE lock[o] = r
      <4>1. PICK j \in 1 .. N : Records[r][j] = o
        BY <3>1 DEF Committed
      <4>2. L + j \in DOMAIN log' /\ log'[L + j].obj = o
        BY <4>1, <1>0, <1>1
      <4> QED
        BY <4>2
    <3>2. CASE lock[o] # r
      <4>1. PICK i \in 1 .. L : log[i].obj = o
        BY <3>2, <2>2, <1>0 DEF Committed, EventsTellTheTable, LastIsStored
      <4>2. i \in DOMAIN log' /\ log'[i].obj = o
        BY <4>1, <1>0
      <4> QED
        BY <4>2
    <3> QED
      BY <3>1, <3>2
  <2> QED
    BY <2>1, <2>2 DEF LastIsStored
<1>4. AnnouncedWhole'
  <2> SUFFICES ASSUME NEW i \in DOMAIN log'
               PROVE  \E n \in 0 .. Len(log') :
                        /\ \A j \in DOMAIN log' :
                             log'[j].by = log'[i].by <=> j \in n + 1 .. n + Len(Records[log'[i].by])
                        /\ \A j \in 1 .. Len(Records[log'[i].by]) :
                             n + j <= Len(log') /\ log'[n + j].obj = Records[log'[i].by][j]
    BY DEF AnnouncedWhole
  <2>1. CASE i \in 1 .. L
    <3> DEFINE q == log[i].by
    <3>1. PICK n \in 0 .. L :
            /\ \A j \in 1 .. L : log[j].by = q <=> j \in n + 1 .. n + Len(Records[q])
            /\ \A j \in 1 .. Len(Records[q]) : n + j <= L /\ log[n + j].obj = Records[q][j]
      BY <2>1, <1>0 DEF EventsTellTheTable, AnnouncedWhole
    <3>2. q \in Requests /\ q # r /\ Len(Records[q]) \in Nat \ {0} /\ log'[i].by = q
      BY <2>1, <1>0, EventType, RecordsType DEF Committed
    <3>3. n + Len(Records[q]) <= L /\ n \in 0 .. Len(log')
      <4>1. Len(Records[q]) \in 1 .. Len(Records[q])
        BY <3>2
      <4> HIDE DEF q
      <4> QED
        BY <4>1, <3>1, <1>0
    <3>4. ASSUME NEW j \in DOMAIN log' PROVE log'[j].by = q <=> j \in n + 1 .. n + Len(Records[q])
      <4>1. CASE j \in 1 .. L
        BY <4>1, <3>1, <1>0
      <4>2. CASE \E k \in 1 .. N : j = L + k
        BY <4>2, <3>2, <3>3, <1>0, <1>1
      <4> QED
        BY <4>1, <4>2, OldOrNew
    <3>5. ASSUME NEW j \in 1 .. Len(Records[q]) PROVE n + j <= Len(log') /\ log'[n + j].obj = Records[q][j]
      <4>1. n + j \in 1 .. L /\ log[n + j].obj = Records[q][j]
        BY <3>1, <3>2, <1>0
      <4> QED
        BY <4>1, <1>0
    <3> QED
      BY <3>2, <3>3, <3>4, <3>5
  <2>2. CASE \E k \in 1 .. N : i = L + k
    <3>1. log'[i].by = r /\ L \in 0 .. Len(log')
      BY <2>2, <1>0, <1>1
    <3>2. ASSUME NEW j \in DOMAIN log' PROVE log'[j].by = r <=> j \in L + 1 .. L + N
      <4>1. CASE j \in 1 .. L
        BY <4>1, <1>0
      <4>2. CASE \E k \in 1 .. N : j = L + k
        BY <4>2, <1>0, <1>1
      <4> QED
        BY <4>1, <4>2, OldOrNew
    <3>3. \A j \in 1 .. N : L + j <= Len(log') /\ log'[L + j].obj = Records[r][j]
      BY <1>0, <1>1
    <3> QED
      BY <3>1, <3>2, <3>3
  <2> QED
    BY <2>1, <2>2, OldOrNew
<1> QED
  BY <1>2, <1>3, <1>4 DEF EventsTellTheTable

\* A commit keeps the invariant.
LEMMA CommitStep ==
    ASSUME IngestInv, NEW r \in Requests, NEW a \in {"ok", "error"}, Commit(r, a)
    PROVE  IngestInv'
<1>1. Committed(r) /\ pc[r] = "commit" /\ r # NoRequest /\ tx[r] \in Seq(Event) /\ <<>> \in Seq(Event) /\ Len(<<>>) = 0
  BY CommitWrites, EmptySeq, IngestAssumption DEF IngestInv, IngestTypes, Commit
<1>2. /\ tx' \in [Requests -> Seq(Event)] /\ tx'[r] = <<>> /\ \A q \in Requests \ {r} : tx'[q] = tx[q]
      /\ pc' \in [Requests -> PCs] /\ pc'[r] = "done" /\ \A q \in Requests \ {r} : pc'[q] = pc[q]
  BY <1>1 DEF IngestInv, IngestTypes, Commit, Answer, PCs
<1>3. /\ verdict' \in [Requests -> Verdicts] /\ verdict'[r] = a /\ \A q \in Requests \ {r} : verdict'[q] = verdict[q]
      /\ response' \in [Requests -> Seq(Event)] /\ \A q \in Requests \ {r} : response'[q] = response[q]
      /\ a = "ok" => response'[r] = tx[r]
  BY <1>1 DEF IngestInv, IngestTypes, Commit, Answer, Verdicts
<1>4. /\ \A o \in Objects : lock'[o] = IF lock[o] = r THEN NoRequest ELSE lock[o]
      /\ \A k \in IngestKeys : keyLock'[k] = IF keyLock[k] = r THEN NoRequest ELSE keyLock[k]
      /\ \A o \in Objects : table'[o] = IF lock[o] = r THEN r ELSE table[o]
      /\ \A k \in IngestKeys : keys'[k] = IF keyLock[k] = r THEN [by |-> r, results |-> tx[r]] ELSE keys[k]
  BY DEF Commit
<1>5. /\ \A k \in IngestKeys : keyLock[k] = r => KeyOf[r] = k /\ keys[k].by = NoRequest
      /\ KeyOf[r] # NoKey => KeyOf[r] \in IngestKeys /\ keyLock[KeyOf[r]] = r
  BY <1>1, IngestAssumption DEF IngestInv, Requested, Stored, KeyHeld, KeyTaken
\* a key whose row is there keeps it
<1>6. ASSUME NEW k \in IngestKeys, keys[k].by # NoRequest PROVE keys'[k] = keys[k]
  BY <1>4, <1>5, <1>6
<1>7. IngestTypes'
  <2>1. lock' \in [Objects -> Owner] /\ keyLock' \in [IngestKeys -> Owner] /\ table' \in [Objects -> Owner]
    BY DEF IngestInv, IngestTypes, Commit, Owner
  <2>2. keys' \in [IngestKeys -> [by : Owner, results : Seq(Event)]]
    BY <1>1 DEF IngestInv, IngestTypes, Commit, Owner
  <2> QED
    BY <1>1, <1>2, <1>3, <2>1, <2>2 DEF IngestTypes, Committed
<1>8. Requested'
  <2> SUFFICES ASSUME NEW q \in Requests PROVE (Progressed(q) /\ Written(q) /\ KeyHeld(q) /\ Told(q))'
    BY DEF Requested
  <2>0. KeyOf[q] = NoKey \/ KeyOf[q] \in IngestKeys
    BY IngestAssumption
  <2>1. CASE q = r
    <3>1. Progressed(q)' /\ Written(q)' /\ KeyHeld(q)'
      BY <2>1, <1>1, <1>2 DEF Progressed, Written, KeyHeld
    <3>2. Told(q)'
      BY <2>1, <1>2, <1>3, <1>4, <1>5 DEF Told
    <3> QED
      BY <3>1, <3>2
  <2>2. CASE q # r
    <3>1. Progressed(q)'
      BY <2>2, <1>2 DEF IngestInv, Requested, Progressed
    <3>2. Written(q)'
      <4> SUFFICES ASSUME NEW i \in 1 .. Len(tx[q])
                   PROVE  /\ tx[q][i].obj = Records[q][i] /\ tx[q][i].by = q /\ lock'[Records[q][i]] = q
                          /\ tx[q][i].action = "created" <=> table'[Records[q][i]] = NoRequest
        BY <2>2, <1>2 DEF Written
      <4>1. Written(q) /\ tx[q][i] \in Event
        BY ElementOfSeq DEF IngestInv, Requested, IngestTypes
      <4>2. Records[q][i] \in Objects /\ lock[Records[q][i]] = q
        BY <4>1, EventType DEF Written
      <4> QED
        BY <4>1, <4>2, <2>2, <1>4 DEF Written
    <3>3. KeyHeld(q)'
      <4> SUFFICES ASSUME pc[q] = "commit", KeyOf[q] # NoKey PROVE keyLock'[KeyOf[q]] = q
        BY <2>2, <1>2 DEF KeyHeld
      <4>1. keyLock[KeyOf[q]] = q
        BY DEF IngestInv, Requested, KeyHeld
      <4> QED
        BY <4>1, <2>0, <2>2, <1>4
    <3>4. Told(q)'
      <4>1. Told(q) /\ pc'[q] = pc[q] /\ verdict'[q] = verdict[q] /\ response'[q] = response[q]
        BY <2>2, <1>2, <1>3 DEF IngestInv, Requested
      <4>2. CASE KeyOf[q] = NoKey
        BY <4>1, <4>2 DEF Told
      <4>3. CASE KeyOf[q] \in IngestKeys /\ keys[KeyOf[q]].by # NoRequest
        BY <4>1, <4>3, <1>6 DEF Told, SameRequest
      <4>4. CASE KeyOf[q] \in IngestKeys /\ KeyOf[q] # NoKey /\ keys[KeyOf[q]].by = NoRequest
        BY <4>1, <4>4, IngestAssumption DEF Told
      <4> QED
        BY <2>0, <4>2, <4>3, <4>4, IngestAssumption
    <3> QED
      BY <3>1, <3>2, <3>3, <3>4
  <2> QED
    BY <2>1, <2>2
<1>9. Stored'
  <2>1. ASSUME NEW o \in Objects PROVE Locked(o)'
    <3>1. Locked(o) /\ lock[o] \in Owner
      BY DEF IngestInv, IngestTypes, Stored
    <3>2. CASE lock[o] = r
      BY <3>2, <1>4 DEF Locked
    <3>3. CASE lock[o] # r
      BY <3>1, <3>3, <1>2, <1>4 DEF Locked, Owner
    <3> QED
      BY <3>2, <3>3
  <2>2. ASSUME NEW k \in IngestKeys PROVE KeyTaken(k)'
    <3>1. KeyTaken(k) /\ keyLock[k] \in Owner /\ keys[k].by \in Owner
      BY DEF IngestInv, IngestTypes, Stored
    <3>2. CASE keyLock[k] = r
      BY <3>2, <1>1, <1>2, <1>4, <1>5 DEF KeyTaken
    <3>3. CASE keyLock[k] # r
      BY <3>1, <3>3, <1>1, <1>2, <1>4 DEF KeyTaken, Owner
    <3> QED
      BY <3>2, <3>3
  <2> QED
    BY <2>1, <2>2 DEF Stored
<1>10. Logged'
  <2> SUFFICES ASSUME NEW i \in 1 .. Len(log')
               PROVE  pc'[log'[i].by] = "done" /\ table'[log'[i].obj] # NoRequest
                      /\ (KeyOf[log'[i].by] # NoKey => keys'[KeyOf[log'[i].by]].by = log'[i].by)
    BY DEF Logged
  <2>0. i \in DOMAIN log'
    BY <1>1 DEF Committed
  <2>1. CASE i \in 1 .. Len(log)
    <3>1. log'[i] = log[i] /\ log[i].by \in Requests /\ log[i].by # r /\ log[i].obj \in Objects
      BY <2>1, <1>1, EventType DEF Committed
    <3>2. pc[log[i].by] = "done" /\ table[log[i].obj] # NoRequest
          /\ (KeyOf[log[i].by] # NoKey => keys[KeyOf[log[i].by]].by = log[i].by)
      BY <2>1 DEF IngestInv, Logged
    <3>3. KeyOf[log[i].by] # NoKey => KeyOf[log[i].by] \in IngestKeys /\ log[i].by # NoRequest
      BY <3>1, IngestAssumption
    <3> QED
      BY <3>1, <3>2, <3>3, <1>1, <1>2, <1>4, <1>6
  <2>2. CASE \E j \in 1 .. Len(Records[r]) : i = Len(log) + j
    <3> PICK j \in 1 .. Len(Records[r]) : i = Len(log) + j
      BY <2>2
    <3>1. log'[i].by = r /\ log'[i].obj \in Objects /\ lock[log'[i].obj] = r
      <4>1. Records[r][j] \in Objects /\ lock[Records[r][j]] = r
        BY <1>1 DEF Committed
      <4>2. log'[Len(log) + j].obj = Records[r][j] /\ log'[Len(log) + j].by = r
        BY <1>1 DEF Committed
      <4> QED
        BY <4>1, <4>2
    <3>2. KeyOf[r] # NoKey => keys'[KeyOf[r]].by = r
      BY <1>4, <1>5
    <3>3. table'[log'[i].obj] = r
      BY <3>1, <1>4
    <3> QED
      BY <3>1, <3>2, <3>3, <1>1, <1>2
  <2> QED
    BY <2>0, <2>1, <2>2, <1>1, OldOrNew
<1>11. EventsTellTheTable'
  BY <1>1, CommitTells DEF IngestInv
<1> QED
  BY <1>7, <1>8, <1>9, <1>10, <1>11 DEF IngestInv

-----------------------------------------------------------------------------
\* Every step keeps the invariant.
LEMMA StepInv == IngestInv /\ [IngestNext]_ingestVars => IngestInv'
<1> SUFFICES ASSUME IngestInv, [IngestNext]_ingestVars PROVE IngestInv'
  OBVIOUS
<1>0. \A r \in Requests : pc[r] \in PCs /\ tx[r] \in Seq(Event) /\ Progressed(r) /\ Told(r) /\ r # NoRequest
  BY IngestAssumption DEF IngestInv, IngestTypes, Requested
<1>1. <<>> \in Seq(Event) /\ Len(<<>>) = 0
  BY EmptySeq
<1>2. ASSUME NEW r \in Requests, Overloaded(r) \/ Refused(r) PROVE IngestInv'
  <2>1. PICK a \in {"overloaded", "refused"} : Answer(r, a, <<>>) /\ pc[r] = "start" /\ UNCHANGED <<tx, locks, db>>
    BY <1>2 DEF Overloaded, Refused
  <2>2. /\ pc' \in [Requests -> PCs] /\ verdict' \in [Requests -> Verdicts] /\ response' \in [Requests -> Seq(Event)]
        /\ \A q \in Requests \ {r} : pc'[q] = pc[q] /\ verdict'[q] = verdict[q] /\ response'[q] = response[q]
        /\ pc'[r] = "done" /\ verdict'[r] = a
    BY <2>1, <1>1 DEF Answer, IngestInv, IngestTypes, PCs, Verdicts
  <2>3. Progressed(r)' /\ Told(r)'
    BY <2>1, <2>2, <1>0 DEF Progressed, Told
  <2> QED
    BY <2>1, <2>2, <2>3, QuietStep
<1>3. ASSUME NEW r \in Requests, BeginTx(r) \/ GetMissing(r) PROVE IngestInv'
  <2>1. /\ pc[r] \in {"start", "get"} /\ pc'[r] \in {"insert", "update", "get"}
        /\ pc' \in [Requests -> PCs] /\ \A q \in Requests \ {r} : pc'[q] = pc[q]
        /\ pc'[r] = "get" => KeyOf[r] # NoKey
        /\ UNCHANGED <<tx, locks, db, verdict, response>>
    BY <1>3 DEF BeginTx, GetMissing, FirstStatement, IngestInv, IngestTypes, PCs
  <2>2. Progressed(r)'
    BY <2>1, <1>0, RecordsType DEF Progressed
  <2>3. Told(r)'
    BY <2>1, <1>0 DEF Told, db
  <2> QED
    BY <2>1, <2>2, <2>3, QuietStep DEF IngestInv, IngestTypes
<1>4. ASSUME NEW r \in Requests, ReplayKey(r) PROVE IngestInv'
  <2>1. KeyOf[r] \in IngestKeys /\ KeyOf[r] # NoKey /\ keys[KeyOf[r]].by # NoRequest /\ keys[KeyOf[r]].results \in Seq(Event)
    BY <1>0, <1>4, IngestAssumption DEF ReplayKey, Progressed, IngestInv, IngestTypes
  <2>2. PICK a \in {"replayed", "key_reused"}, s \in Seq(Event) :
          /\ Answer(r, a, s)
          /\ a = "replayed" => SameRequest(r, keys[KeyOf[r]].by) /\ s = keys[KeyOf[r]].results
    BY <1>1, <1>4, <2>1 DEF ReplayKey
  <2>3. /\ pc' \in [Requests -> PCs] /\ verdict' \in [Requests -> Verdicts] /\ response' \in [Requests -> Seq(Event)]
        /\ \A q \in Requests \ {r} : pc'[q] = pc[q] /\ verdict'[q] = verdict[q] /\ response'[q] = response[q]
        /\ pc'[r] = "done" /\ verdict'[r] = a /\ response'[r] = s
    BY <2>2 DEF Answer, IngestInv, IngestTypes, PCs, Verdicts
  <2>4. Progressed(r)' /\ Told(r)'
    BY <1>0, <1>4, <2>1, <2>2, <2>3 DEF Progressed, Told, ReplayKey, db, SameRequest
  <2> QED
    BY <1>4, <2>3, <2>4, QuietStep DEF ReplayKey
<1>5. ASSUME NEW r \in Requests, Insert(r) \/ Patch(r) PROVE IngestInv'
  <2>1. CASE /\ pc[r] \in {"insert", "update"} /\ pc' = [pc EXCEPT ![r] = IF pc[r] = "insert" THEN "update" ELSE "insert"]
             /\ UNCHANGED <<tx, lock>>
    <3>1. /\ pc[r] \in {"insert", "update"} /\ pc'[r] \in {"insert", "update"}
          /\ pc' \in [Requests -> PCs] /\ \A q \in Requests \ {r} : pc'[q] = pc[q]
          /\ UNCHANGED <<tx, locks, db, verdict, response>>
      BY <1>5, <2>1 DEF Insert, Patch, locks, IngestInv, IngestTypes, PCs
    <3>2. Progressed(r)' /\ Told(r)'
      BY <3>1, <1>0 DEF Progressed, Told, db
    <3> QED
      BY <3>1, <3>2, QuietStep DEF IngestInv, IngestTypes
  <2>2. CASE \E a \in {"created", "updated"} :
               /\ a = "created" <=> table[Current(r)] = NoRequest
               /\ lock[Current(r)] = NoRequest /\ lock' = [lock EXCEPT ![Current(r)] = r] /\ Wrote(r, a)
    BY <1>5, <2>2, WriteStep DEF Insert, Patch
  <2> QED
    BY <1>5, <2>1, <2>2 DEF Insert, Patch
<1>6. ASSUME NEW r \in Requests, PutKey(r) PROVE IngestInv'
  <2>1. CASE keys[KeyOf[r]].by = NoRequest
    BY <1>6, <2>1, TakeKeyStep DEF PutKey
  <2>2. CASE keys[KeyOf[r]].by # NoRequest
    BY <1>6, <2>2, RollbackStep DEF PutKey, Verdicts
  <2> QED
    BY <2>1, <2>2
<1>7. ASSUME NEW r \in Requests, Commit(r, "ok") \/ Commit(r, "error") PROVE IngestInv'
  BY <1>7, CommitStep
<1>8. ASSUME NEW r \in Requests, DeadlockAbort(r) PROVE IngestInv'
  <2>1. WaitsFor(r) # NoRequest
    BY <1>8, IngestAssumption DEF DeadlockAbort
  <2>2. pc[r] \in {"insert", "update", "key"}
    BY <2>1 DEF WaitsFor
  <2> QED
    BY <1>8, <2>2, RollbackStep DEF DeadlockAbort, Verdicts
<1>9. ASSUME NEW r \in Requests, Fail(r) PROVE IngestInv'
  BY <1>9, RollbackStep DEF Fail, InFlight, Verdicts
<1>10. CASE UNCHANGED ingestVars
  BY <1>10 DEF ingestVars, locks, db, IngestInv, IngestTypes, Requested, Progressed, Written, KeyHeld, Told, SameRequest,
       Stored, Locked, KeyTaken, Logged, EventsTellTheTable, CreatedFirst, LastIsStored, AnnouncedWhole
<1> QED
  BY <1>2, <1>3, <1>4, <1>5, <1>6, <1>7, <1>8, <1>9, <1>10 DEF IngestNext, Advance, Done

\* Requests with one key that are published or told of success were one
\* request: the row of the key names it.
LEMMA InvOncePerKey == IngestInv => OncePerKey
<1> SUFFICES ASSUME IngestInv, NEW q \in Requests, NEW r \in Requests, KeyOf[q] = KeyOf[r], KeyOf[q] # NoKey
             PROVE  /\ Published(q) /\ Published(r) => q = r
                    /\ Succeeded(q) /\ Succeeded(r) => SameRequest(q, r) /\ response[q] = response[r]
  BY DEF OncePerKey
<1>1. ASSUME NEW p \in Requests, Published(p), KeyOf[p] # NoKey PROVE keys[KeyOf[p]].by = p
  <2>1. DOMAIN log = 1 .. Len(log)
    BY LenProperties DEF IngestInv, IngestTypes
  <2> QED
    BY <1>1, <2>1 DEF Published, IngestInv, Logged
<1>2. ASSUME NEW p \in Requests, Succeeded(p), KeyOf[p] # NoKey
      PROVE  SameRequest(p, keys[KeyOf[p]].by) /\ response[p] = keys[KeyOf[p]].results
  BY <1>2 DEF Succeeded, IngestInv, Requested, Told, SameRequest
<1> QED
  BY <1>1, <1>2 DEF SameRequest

\* Whatever requests meet, ingestion takes effect once per key, tells equal
\* requests the same, and its events tell the stored records (BatchIngest).
THEOREM RecordsExact == IngestSpec => []RecordsAreExact
<1>1. IngestInv => RecordsAreExact
  BY InvOncePerKey DEF RecordsAreExact, IngestInv
<1> QED
  BY <1>1, InitInv, StepInv, PTL DEF IngestSpec
=============================================================================
