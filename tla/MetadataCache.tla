---------------------------- MODULE MetadataCache ----------------------------
(***************************************************************************)
(* The cache of one decision-engine process in front of the scenarios,     *)
(* iterations, rules, workflows, configurations and tenant models it       *)
(* decides with (decisionEvaluationCache), and the group through which     *)
(* concurrent callers share one load.  The nine getters have the same      *)
(* code; a key stands for a kind of metadata with its identifiers.         *)
(*                                                                         *)
(* A value is the version of what the key names in the database; born[k][v]*)
(* is when version v was written.  Other processes write without telling   *)
(* this one; its own writes invalidate the key afterwards, and a load that *)
(* read before the write may still store its value after the invalidation. *)
(***************************************************************************)
EXTENDS Integers

CONSTANTS
  Keys, Callers,
  TTL,                     \* how long an entry lives
  MaxTime, MaxVersion,     \* bounds on the clock and on the writes of a key
  None

ASSUME BoundsAreNatural == TTL \in Nat /\ MaxTime \in Nat /\ MaxVersion \in Nat

Time     == 0 .. MaxTime
Versions == 0 .. MaxVersion

VARIABLES
  now,       \* the clock
  ver,       \* the current version of each key
  born,      \* when each version was written
  dirty,     \* keys this process wrote and has not invalidated yet
  cache,     \* None or [ver, exp]
  flight,    \* None or the load in progress: [st, ln, ver]
  call       \* None or the call in progress: [k, st, t, ver]

cacheVars == <<now, ver, born, dirty, cache, flight, call>>

Entries == [ver : Versions, exp : Int]
Flights == [st : {"start", "check", "read", "set", "return", "failed"}, ln : Time, ver : Versions]
Calls   == [k : Keys, st : {"lookup", "do", "wait", "done", "failed"}, t : Time, ver : Versions]

CacheInit ==
  /\ now = 0
  /\ ver = [k \in Keys |-> 0]
  /\ born = [k \in Keys |-> [v \in Versions |-> 0]]
  /\ dirty = {}
  /\ cache = [k \in Keys |-> None]
  /\ flight = [k \in Keys |-> None]
  /\ call = [c \in Callers |-> None]

Tick ==
  /\ now < MaxTime
  /\ now' = now + 1
  /\ UNCHANGED <<ver, born, dirty, cache, flight, call>>

\* another process writes, or a service of this one
Write(k, own) ==
  /\ ver[k] < MaxVersion
  /\ ver' = [ver EXCEPT ![k] = @ + 1]
  /\ born' = [born EXCEPT ![k][ver[k] + 1] = now]
  /\ dirty' = IF own THEN dirty \cup {k} ELSE dirty
  /\ UNCHANGED <<now, cache, flight, call>>

Invalidate(k) ==
  /\ k \in dirty
  /\ cache' = [cache EXCEPT ![k] = None]
  /\ dirty' = dirty \ {k}
  /\ UNCHANGED <<now, ver, born, flight, call>>

(***************************************************************************)
(* A call: time.Now(), the lookup with that time, and the shared load.     *)
(***************************************************************************)
Begin(c, k) ==
  /\ call[c] = None
  /\ call' = [call EXCEPT ![c] = [k |-> k, st |-> "lookup", t |-> now, ver |-> 0]]
  /\ UNCHANGED <<now, ver, born, dirty, cache, flight>>

\* !ok || now.After(entry.expiresAt) is a miss
Fresh(e, t) == e # None /\ t <= e.exp

Lookup(c) ==
  LET q == call[c]
      e == cache[q.k]
  IN /\ q # None /\ q.st = "lookup"
     /\ call' = [call EXCEPT ![c] =
          IF Fresh(e, q.t) THEN [q EXCEPT !.st = "done", !.ver = e.ver] ELSE [q EXCEPT !.st = "do"]]
     /\ UNCHANGED <<now, ver, born, dirty, cache, flight>>

\* Group.Do: join the load of the key, or start it
Do(c) ==
  LET q == call[c]
  IN /\ q # None /\ q.st = "do"
     /\ call' = [call EXCEPT ![c].st = "wait"]
     /\ flight' = IF flight[q.k] # None THEN flight
                  ELSE [flight EXCEPT ![q.k] = [st |-> "start", ln |-> 0, ver |-> 0]]
     /\ UNCHANGED <<now, ver, born, dirty, cache>>

Loading(k, st) == flight[k] # None /\ flight[k].st = st

\* loadNow := time.Now()
LoadStart(k) ==
  /\ Loading(k, "start")
  /\ flight' = [flight EXCEPT ![k] = [@ EXCEPT !.st = "check", !.ln = now]]
  /\ UNCHANGED <<now, ver, born, dirty, cache, call>>

LoadCheck(k) ==
  LET f == flight[k]
      e == cache[k]
  IN /\ Loading(k, "check")
     /\ flight' = [flight EXCEPT ![k] =
          IF Fresh(e, f.ln) THEN [f EXCEPT !.st = "return", !.ver = e.ver] ELSE [f EXCEPT !.st = "read"]]
     /\ UNCHANGED <<now, ver, born, dirty, cache, call>>

LoadRead(k) ==
  /\ Loading(k, "read")
  /\ flight' = [flight EXCEPT ![k] = [@ EXCEPT !.st = "set", !.ver = ver[k]]]
  /\ UNCHANGED <<now, ver, born, dirty, cache, call>>

\* the query fails, or the context of the caller that started the load ends
LoadFail(k) ==
  /\ Loading(k, "read")
  /\ flight' = [flight EXCEPT ![k].st = "failed"]
  /\ UNCHANGED <<now, ver, born, dirty, cache, call>>

\* (Mutant: the entry lives from the end of the load.)
ExpiryFromNow(f) == now + TTL

\* expiresAt: loadNow.Add(ttl)
Expiry(f) == f.ln + TTL

LoadSet(k) ==
  /\ Loading(k, "set")
  /\ cache' = [cache EXCEPT ![k] = [ver |-> flight[k].ver, exp |-> Expiry(flight[k])]]
  /\ flight' = [flight EXCEPT ![k].st = "return"]
  /\ UNCHANGED <<now, ver, born, dirty, call>>

Waiting(c, k) == call[c] # None /\ call[c].k = k /\ call[c].st = "wait"

\* everyone who waits gets the value or the error
Released(k) == {c \in Callers : Waiting(c, k)}

\* the call ends; t becomes the time its answer is measured from: its own
\* beginning, or that of the load it joined, whichever was first
LoadReturn(k) ==
  LET f == flight[k]
      start(t) == IF t < f.ln THEN t ELSE f.ln
  IN /\ Loading(k, "return") \/ Loading(k, "failed")
     /\ call' = [c \in Callers |->
          IF c \notin Released(k) THEN call[c]
          ELSE IF f.st = "failed" THEN [call[c] EXCEPT !.st = "failed"]
          ELSE [call[c] EXCEPT !.st = "done", !.ver = f.ver, !.t = start(call[c].t)]]
     /\ flight' = [flight EXCEPT ![k] = None]
     /\ UNCHANGED <<now, ver, born, dirty, cache>>

End(c) ==
  /\ call[c] # None /\ call[c].st \in {"done", "failed"}
  /\ call' = [call EXCEPT ![c] = None]
  /\ UNCHANGED <<now, ver, born, dirty, cache, flight>>

CallStep(c) == Lookup(c) \/ Do(c)
LoadStep(k) == LoadStart(k) \/ LoadCheck(k) \/ LoadRead(k) \/ LoadFail(k) \/ LoadSet(k) \/ LoadReturn(k)

CacheNext ==
  \/ Tick
  \/ \E k \in Keys : LoadStep(k) \/ Invalidate(k) \/ \E own \in BOOLEAN : Write(k, own)
  \/ \E c \in Callers : CallStep(c) \/ End(c) \/ \E k \in Keys : Begin(c, k)

CacheSpec == CacheInit /\ [][CacheNext]_cacheVars

\* goroutines run on; a crash takes its calls and its cache with it
CacheFairness == /\ \A c \in Callers : WF_cacheVars(CallStep(c))
            /\ \A k \in Keys : WF_cacheVars(LoadStep(k))

(***************************************************************************)
(* Properties.                                                             *)
(***************************************************************************)
CacheTypeOK ==
  /\ now \in Time
  /\ ver \in [Keys -> Versions]
  /\ born \in [Keys -> [Versions -> Time]]
  /\ dirty \in SUBSET Keys
  /\ cache \in [Keys -> Entries \cup {None}]
  /\ flight \in [Keys -> Flights \cup {None}]
  /\ call \in [Callers -> Calls \cup {None}]

\* version v of k was current at t or later
CurrentSince(k, v, t) == v < ver[k] => t <= born[k][v + 1]

\* An entry expires no later than TTL after its value stopped being current,
\* also when a slow load stores it after the invalidation of the write it
\* missed: the expiry counts from before the read (loadNow), not from the set.
EntriesAreRecent ==
  \A k \in Keys : cache[k] # None => CurrentSince(k, cache[k].ver, cache[k].exp - TTL)

\* What a getter answers was current at most TTL before the call began, or
\* before the load it joined began: the bound that the service's operating
\* decisions rely on instead of distributed invalidation.
AnswersAreRecent ==
  \A c \in Callers :
    call[c] # None /\ call[c].st = "done" => CurrentSince(call[c].k, call[c].ver, call[c].t - TTL)

\* Every call is answered, whoever started the load it waits for and however
\* that load ended.
CallsAnswered ==
  \A c \in Callers : call[c] # None ~> (call[c] = None \/ call[c].st \in {"done", "failed"})
=============================================================================
