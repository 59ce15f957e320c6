---------------------------- MODULE EventDelivery ----------------------------
(***************************************************************************)
(* What an outbox promises: an event written to it stays open until the    *)
(* consumer has accepted it or delivery is given up; nothing is recorded as *)
(* delivered that the consumer has not accepted since the event was last   *)
(* opened; a closed event is opened again only by an operator.             *)
(***************************************************************************)
CONSTANT Events

VARIABLES
    state,      \* "absent", "open", "delivered" or "failed"
    accepted    \* the consumer accepted the event since it was last opened

vars == <<state, accepted>>

Init ==
    /\ state = [e \in Events |-> "absent"]
    /\ accepted = [e \in Events |-> FALSE]

Write(e) ==
    /\ state[e] = "absent"
    /\ state' = [state EXCEPT ![e] = "open"]
    /\ UNCHANGED accepted

\* Delivery is at least once: the consumer may be reached again at any time.
Accept(e) ==
    /\ state[e] # "absent"
    /\ accepted' = [accepted EXCEPT ![e] = TRUE]
    /\ UNCHANGED state

Deliver(e) ==
    /\ state[e] = "open"
    /\ accepted[e]
    /\ state' = [state EXCEPT ![e] = "delivered"]
    /\ UNCHANGED accepted

GiveUp(e) ==
    /\ state[e] = "open"
    /\ state' = [state EXCEPT ![e] = "failed"]
    /\ UNCHANGED accepted

Reopen(e) ==
    /\ state[e] \in {"delivered", "failed"}
    /\ state' = [state EXCEPT ![e] = "open"]
    /\ accepted' = [accepted EXCEPT ![e] = FALSE]

Next == \E e \in Events : Write(e) \/ Accept(e) \/ Deliver(e) \/ GiveUp(e) \/ Reopen(e)

Spec == Init /\ [][Next]_vars
=============================================================================
