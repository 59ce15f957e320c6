------------------------------ MODULE CaseOutbox ------------------------------
(***************************************************************************)
(* The outbox of the case manager: rows of case_manager.outbox_events, the *)
(* delivery workers that lease them (ClaimDelivery), post them and record  *)
(* the answer (FinishDelivery), and the operator's Replay.                 *)
(*                                                                         *)
(* Time is abstract: a lease expires at any moment after it was taken, also*)
(* under a worker that is slow, and a retry delay is any delay.            *)
(***************************************************************************)
EXTENDS Naturals

CONSTANTS
    Events,        \* ids of outbox rows
    Workers,       \* delivery workers, over all replicas
    NoEvent,       \* a worker that holds no delivery
    MaxAttempts,   \* 12 in the code
    MaxLost,       \* bound: claims abandoned or outlived by their worker
    MaxReplays     \* bound: replays

ASSUME ConstantsAssumption ==
    /\ MaxAttempts \in Nat \ {0}
    /\ MaxLost \in Nat
    /\ MaxReplays \in Nat
    /\ NoEvent \notin Events

VARIABLES
    status,     \* per row; "absent" before the command that writes it commits
    attempts,   \* per row
    token,      \* per row: lease_token; 0 for NULL
    leased,     \* per row: lease_until > now()
    claims,     \* the last token drawn: tokens are fresh UUIDs
    held,       \* per worker: the delivery it works on, or NoEvent
    wtoken,     \* per worker: d.Token
    wattempt,   \* per worker: d.Attempt
    answer,     \* per worker: what the consumer answered, "none" before
    accepted,   \* per row: a 2xx was returned since it was last opened
    lost,       \* number of leases that ran out before their worker finished
    replays

rowVars  == <<status, attempts, token, leased, claims>>
workVars == <<held, wtoken, wattempt, answer>>
vars     == <<rowVars, workVars, accepted, lost, replays>>

Init ==
    /\ status = [e \in Events |-> "absent"]
    /\ attempts = [e \in Events |-> 0]
    /\ token = [e \in Events |-> 0]
    /\ leased = [e \in Events |-> FALSE]
    /\ claims = 0
    /\ held = [w \in Workers |-> NoEvent]
    /\ wtoken = [w \in Workers |-> 0]
    /\ wattempt = [w \in Workers |-> 0]
    /\ answer = [w \in Workers |-> "none"]
    /\ accepted = [e \in Events |-> FALSE]
    /\ lost = 0
    /\ replays = 0

-----------------------------------------------------------------------------
\* A case command commits its outbox row (status 'pending').
Create(e) ==
    /\ status[e] = "absent"
    /\ status' = [status EXCEPT ![e] = "pending"]
    /\ UNCHANGED <<attempts, token, leased, claims, workVars, accepted, lost, replays>>

\* ClaimDelivery with the attempt number for a token.
ClaimByAttempt(w, e) ==
    /\ held[w] = NoEvent
    /\ status[e] \in {"pending", "delivering"}
    /\ ~leased[e]
    /\ status' = [status EXCEPT ![e] = "delivering"]
    /\ attempts' = [attempts EXCEPT ![e] = @ + 1]
    /\ token' = [token EXCEPT ![e] = attempts[e] + 1]
    /\ leased' = [leased EXCEPT ![e] = TRUE]
    /\ claims' = claims + 1
    /\ held' = [held EXCEPT ![w] = e]
    /\ wtoken' = [wtoken EXCEPT ![w] = attempts[e] + 1]
    /\ wattempt' = [wattempt EXCEPT ![w] = attempts[e] + 1]
    /\ answer' = [answer EXCEPT ![w] = "none"]
    /\ UNCHANGED <<accepted, lost, replays>>

\* ClaimDelivery that does not take over expired leases.
ClaimPendingOnly(w, e) ==
    /\ held[w] = NoEvent
    /\ status[e] = "pending"
    /\ ~leased[e]
    /\ status' = [status EXCEPT ![e] = "delivering"]
    /\ attempts' = [attempts EXCEPT ![e] = @ + 1]
    /\ token' = [token EXCEPT ![e] = claims + 1]
    /\ leased' = [leased EXCEPT ![e] = TRUE]
    /\ claims' = claims + 1
    /\ held' = [held EXCEPT ![w] = e]
    /\ wtoken' = [wtoken EXCEPT ![w] = claims + 1]
    /\ wattempt' = [wattempt EXCEPT ![w] = attempts[e] + 1]
    /\ answer' = [answer EXCEPT ![w] = "none"]
    /\ UNCHANGED <<accepted, lost, replays>>

\* ClaimDelivery: a pending row, or one whose lease has run out, gets a new
\* token and a new lease, and its attempt is counted.
ClaimDelivery(w, e) ==
    /\ held[w] = NoEvent
    /\ status[e] \in {"pending", "delivering"}
    /\ ~leased[e]
    /\ status' = [status EXCEPT ![e] = "delivering"]
    /\ attempts' = [attempts EXCEPT ![e] = @ + 1]
    /\ token' = [token EXCEPT ![e] = claims + 1]
    /\ leased' = [leased EXCEPT ![e] = TRUE]
    /\ claims' = claims + 1
    /\ held' = [held EXCEPT ![w] = e]
    /\ wtoken' = [wtoken EXCEPT ![w] = claims + 1]
    /\ wattempt' = [wattempt EXCEPT ![w] = attempts[e] + 1]
    /\ answer' = [answer EXCEPT ![w] = "none"]
    /\ UNCHANGED <<accepted, lost, replays>>

\* The POST of Deliver.  The consumer accepts it and says so, or accepts it and
\* the answer is lost, or refuses it.
PostAccepted(w, reply) ==
    /\ held[w] # NoEvent
    /\ answer[w] = "none"
    /\ accepted' = [accepted EXCEPT ![held[w]] = TRUE]
    /\ answer' = [answer EXCEPT ![w] = reply]
    /\ UNCHANGED <<rowVars, held, wtoken, wattempt, lost, replays>>

PostRefused(w) ==
    /\ held[w] # NoEvent
    /\ answer[w] = "none"
    /\ answer' = [answer EXCEPT ![w] = "failure"]
    /\ UNCHANGED <<rowVars, held, wtoken, wattempt, accepted, lost, replays>>

\* The worker is done with its delivery.
Release(w) ==
    /\ held' = [held EXCEPT ![w] = NoEvent]
    /\ wtoken' = [wtoken EXCEPT ![w] = 0]
    /\ wattempt' = [wattempt EXCEPT ![w] = 0]
    /\ answer' = [answer EXCEPT ![w] = "none"]

\* The row's next status, decided from the attempt the worker was given.
Outcome(w) ==
    IF answer[w] = "ok" THEN "delivered"
    ELSE IF wattempt[w] >= MaxAttempts THEN "failed" ELSE "pending"

\* The claim of worker w is still the row's: FinishDelivery's WHERE clause.
Holds(w) ==
    /\ held[w] # NoEvent
    /\ status[held[w]] = "delivering"
    /\ token[held[w]] = wtoken[w]

FinishDelivery(w) ==
    /\ answer[w] # "none"
    /\ Holds(w)
    /\ status' = [status EXCEPT ![held[w]] = Outcome(w)]
    /\ token' = [token EXCEPT ![held[w]] = 0]
    /\ leased' = [leased EXCEPT ![held[w]] = FALSE]
    /\ Release(w)
    /\ UNCHANGED <<attempts, claims, accepted, lost, replays>>

\* No row matched: ErrConflict, and Deliver returns.
FinishConflict(w) ==
    /\ answer[w] # "none"
    /\ ~Holds(w)
    /\ Release(w)
    /\ UNCHANGED <<rowVars, accepted, lost, replays>>

\* The worker dies, or cannot reach the database to record the answer.
Abandon(w) ==
    /\ held[w] # NoEvent
    /\ lost < MaxLost
    /\ lost' = lost + 1
    /\ Release(w)
    /\ UNCHANGED <<rowVars, accepted, replays>>

\* A lease runs out: because nobody holds the claim any more, or before the
\* worker that does has finished.
ExpireLease(e) ==
    /\ leased[e]
    /\ \/ /\ \A w \in Workers : ~(held[w] = e /\ Holds(w))
          /\ UNCHANGED lost
       \/ /\ \E w \in Workers : held[w] = e /\ Holds(w)
          /\ lost < MaxLost
          /\ lost' = lost + 1
    /\ leased' = [leased EXCEPT ![e] = FALSE]
    /\ UNCHANGED <<status, attempts, token, claims, workVars, accepted, replays>>

\* Replay of rows in any state.
ReplayAny(e) ==
    /\ replays < MaxReplays
    /\ status[e] # "absent"
    /\ status' = [status EXCEPT ![e] = "pending"]
    /\ attempts' = [attempts EXCEPT ![e] = 0]
    /\ accepted' = [accepted EXCEPT ![e] = FALSE]
    /\ replays' = replays + 1
    /\ UNCHANGED <<token, leased, claims, workVars, lost>>

\* Replay: a failed or delivered row is opened again with its attempts reset.
Replay(e) ==
    /\ replays < MaxReplays
    /\ status[e] \in {"failed", "delivered"}
    /\ status' = [status EXCEPT ![e] = "pending"]
    /\ attempts' = [attempts EXCEPT ![e] = 0]
    /\ accepted' = [accepted EXCEPT ![e] = FALSE]
    /\ replays' = replays + 1
    /\ UNCHANGED <<token, leased, claims, workVars, lost>>

-----------------------------------------------------------------------------
\* What a live worker does with the delivery it holds.
Proceed(w) ==
    \/ PostAccepted(w, "ok") \/ PostAccepted(w, "failure") \/ PostRefused(w)
    \/ FinishDelivery(w) \/ FinishConflict(w)

Next ==
    \/ \E e \in Events : Create(e) \/ ExpireLease(e) \/ Replay(e)
    \/ \E w \in Workers : Proceed(w) \/ Abandon(w)
    \/ \E w \in Workers, e \in Events : ClaimDelivery(w, e)

Spec == Init /\ [][Next]_vars

\* The periodic delivery job keeps claiming due rows, workers go on with what
\* they hold, and the clock passes the end of an orphaned lease.
Fairness ==
    /\ \A e \in Events : WF_vars(\E w \in Workers : ClaimDelivery(w, e))
    /\ \A e \in Events : WF_vars(ExpireLease(e))
    /\ \A w \in Workers : WF_vars(Proceed(w))

FairSpec == Spec /\ Fairness

-----------------------------------------------------------------------------
Statuses == {"absent", "pending", "delivering", "delivered", "failed"}

\* Every variable has its type.
TypeOK ==
    /\ status \in [Events -> Statuses]
    /\ attempts \in [Events -> Nat]
    /\ token \in [Events -> Nat]
    /\ leased \in [Events -> BOOLEAN]
    /\ claims \in Nat
    /\ held \in [Workers -> Events \cup {NoEvent}]
    /\ wtoken \in [Workers -> Nat]
    /\ wattempt \in [Workers -> Nat]
    /\ answer \in [Workers -> {"none", "ok", "failure"}]
    /\ accepted \in [Events -> BOOLEAN]
    /\ lost \in 0..MaxLost
    /\ replays \in 0..MaxReplays

\* Two workers never both hold a claim that FinishDelivery would accept for one
\* row, although a lease may run out under a worker that is only slow.
SingleHolder ==
    \A v, w \in Workers : Holds(v) /\ Holds(w) /\ held[v] = held[w] => v = w

\* A row is delivered only if the consumer accepted it after it was written or
\* last replayed: the answer to an earlier delivery never closes a replayed row.
DeliveredWasAccepted ==
    \A e \in Events : status[e] = "delivered" => accepted[e]

\* Delivery is given up only when the row itself has used up its attempts since
\* the last replay, although the worker decides by the count it was given.
FailedIsExhausted ==
    \A e \in Events : status[e] = "failed" => attempts[e] >= MaxAttempts

\* No event is pending or being delivered.
Settled == \A e \in Events : status[e] \notin {"pending", "delivering"}

\* The outbox implements the promise of EventDelivery: leases, tokens and
\* attempts are invisible.
Delivery == INSTANCE EventDelivery WITH
    state <- [e \in Events |-> IF status[e] \in {"pending", "delivering"} THEN "open" ELSE status[e]]
ImplementsDelivery == Delivery!Spec
=============================================================================
