--------------------------- MODULE ScreeningOutbox ---------------------------
(***************************************************************************)
(* The outbox of the screening service: rows of screening.case_event_outbox *)
(* that tell the case manager about reviews, evidence and screenings that  *)
(* need one.  Unlike the case manager's own outbox a claim is fenced by    *)
(* the attempt number, not by a token of its own.                          *)
(***************************************************************************)
EXTENDS Naturals

CONSTANTS
    Events, Workers, NoEvent,
    MaxAttempts,   \* 20 in the code
    MaxLost        \* bound: claims abandoned or outlived by their worker

VARIABLES
    status, attempts,
    leased,     \* lease_until > now()
    held,       \* per worker: the item it claimed, or NoEvent
    wattempt,   \* per worker: item.Attempts
    answer,     \* per worker: the case manager's answer, "none" before
    accepted,   \* the case manager accepted the event
    current,    \* ghost, per worker: its claim is the row's latest
    lost

rowVars  == <<status, attempts, leased>>
workVars == <<held, wattempt, answer, current>>
vars     == <<rowVars, workVars, accepted, lost>>

Init ==
    /\ status = [e \in Events |-> "absent"]
    /\ attempts = [e \in Events |-> 0]
    /\ leased = [e \in Events |-> FALSE]
    /\ held = [w \in Workers |-> NoEvent]
    /\ wattempt = [w \in Workers |-> 0]
    /\ answer = [w \in Workers |-> "none"]
    /\ current = [w \in Workers |-> FALSE]
    /\ accepted = [e \in Events |-> FALSE]
    /\ lost = 0

-----------------------------------------------------------------------------
\* Enqueue, in the transaction of the review, the upload or the screening run.
Enqueue(e) ==
    /\ status[e] = "absent"
    /\ status' = [status EXCEPT ![e] = "pending"]
    /\ UNCHANGED <<attempts, leased, workVars, accepted, lost>>

\* Claim that does not count the attempt.
ClaimUncounted(w, e) ==
    /\ held[w] = NoEvent
    /\ \/ status[e] = "pending"
       \/ status[e] = "delivering" /\ ~leased[e]
    /\ status' = [status EXCEPT ![e] = "delivering"]
    /\ leased' = [leased EXCEPT ![e] = TRUE]
    /\ held' = [held EXCEPT ![w] = e]
    /\ wattempt' = [wattempt EXCEPT ![w] = attempts[e]]
    /\ answer' = [answer EXCEPT ![w] = "none"]
    /\ current' = [v \in Workers |-> v = w \/ (current[v] /\ held[v] # e)]
    /\ UNCHANGED <<attempts, accepted, lost>>

\* Claim: a pending row, or one whose lease has run out; the attempt number it
\* returns is the fence.
Claim(w, e) ==
    /\ held[w] = NoEvent
    /\ \/ status[e] = "pending"
       \/ status[e] = "delivering" /\ ~leased[e]
    /\ status' = [status EXCEPT ![e] = "delivering"]
    /\ attempts' = [attempts EXCEPT ![e] = @ + 1]
    /\ leased' = [leased EXCEPT ![e] = TRUE]
    /\ held' = [held EXCEPT ![w] = e]
    /\ wattempt' = [wattempt EXCEPT ![w] = attempts[e] + 1]
    /\ answer' = [answer EXCEPT ![w] = "none"]
    /\ current' = [v \in Workers |-> v = w \/ (current[v] /\ held[v] # e)]
    /\ UNCHANGED <<accepted, lost>>

\* The callback to the case manager: accepted, accepted with the answer lost,
\* or refused (an unknown kind or an undecodable payload is refused here too).
PublishAccepted(w, reply) ==
    /\ held[w] # NoEvent
    /\ answer[w] = "none"
    /\ accepted' = [accepted EXCEPT ![held[w]] = TRUE]
    /\ answer' = [answer EXCEPT ![w] = reply]
    /\ UNCHANGED <<rowVars, held, wattempt, current, lost>>

PublishRefused(w) ==
    /\ held[w] # NoEvent
    /\ answer[w] = "none"
    /\ answer' = [answer EXCEPT ![w] = "failure"]
    /\ UNCHANGED <<rowVars, held, wattempt, current, accepted, lost>>

Release(w) ==
    /\ held' = [held EXCEPT ![w] = NoEvent]
    /\ wattempt' = [wattempt EXCEPT ![w] = 0]
    /\ answer' = [answer EXCEPT ![w] = "none"]
    /\ current' = [current EXCEPT ![w] = FALSE]

\* The row's next status, decided from the row's own attempt count.
Outcome(w) ==
    IF answer[w] = "ok" THEN "delivered"
    ELSE IF attempts[held[w]] >= MaxAttempts THEN "failed" ELSE "pending"

Holds(w) ==
    /\ held[w] # NoEvent
    /\ status[held[w]] = "delivering"
    /\ attempts[held[w]] = wattempt[w]

Finish(w) ==
    /\ answer[w] # "none"
    /\ Holds(w)
    /\ status' = [status EXCEPT ![held[w]] = Outcome(w)]
    /\ leased' = [leased EXCEPT ![held[w]] = FALSE]
    /\ Release(w)
    /\ UNCHANGED <<attempts, accepted, lost>>

\* "case event lease was superseded": RunBatch returns.
FinishSuperseded(w) ==
    /\ answer[w] # "none"
    /\ ~Holds(w)
    /\ Release(w)
    /\ UNCHANGED <<rowVars, accepted, lost>>

\* The worker dies, or cannot record the answer.
Abandon(w) ==
    /\ held[w] # NoEvent
    /\ lost < MaxLost
    /\ lost' = lost + 1
    /\ Release(w)
    /\ UNCHANGED <<rowVars, accepted>>

\* A lease runs out, with or without a worker that still works on it.
ExpireLease(e) ==
    /\ leased[e]
    /\ \/ /\ \A w \in Workers : ~(held[w] = e /\ Holds(w))
          /\ UNCHANGED lost
       \/ /\ \E w \in Workers : held[w] = e /\ Holds(w)
          /\ lost < MaxLost
          /\ lost' = lost + 1
    /\ leased' = [leased EXCEPT ![e] = FALSE]
    /\ UNCHANGED <<status, attempts, workVars, accepted>>


-----------------------------------------------------------------------------
Proceed(w) ==
    \/ PublishAccepted(w, "ok") \/ PublishAccepted(w, "failure") \/ PublishRefused(w)
    \/ Finish(w) \/ FinishSuperseded(w)

Next ==
    \/ \E e \in Events : Enqueue(e) \/ ExpireLease(e)
    \/ \E w \in Workers : Proceed(w) \/ Abandon(w)
    \/ \E w \in Workers, e \in Events : Claim(w, e)

Spec == Init /\ [][Next]_vars

\* The worker's loop keeps claiming, a worker goes on with what it holds, and
\* the clock passes the end of an orphaned lease.
Fairness ==
    /\ \A e \in Events : WF_vars(\E w \in Workers : Claim(w, e))
    /\ \A e \in Events : WF_vars(ExpireLease(e))
    /\ \A w \in Workers : WF_vars(Proceed(w))

-----------------------------------------------------------------------------
\* A claim that Finish would accept is the latest claim of its row: a worker
\* whose lease was taken over cannot record its answer.
FencedByAttempt == \A w \in Workers : Holds(w) => current[w]

\* No event is pending or being delivered.
Settled == \A e \in Events : status[e] \notin {"pending", "delivering"}
=============================================================================
