-------------------------- MODULE MCCaseLifecycle --------------------------
(* An instance of CaseLifecycle: two inboxes, the first of which may hand out *)
(* its cases and escalate to the second.  The row of a case has many values,  *)
(* so a behaviour looks at the work of two plain cases, at the snoozes of two *)
(* or at the whole history of one; focus says which.                          *)
EXTENDS CaseLifecycle, TLC

CONSTANTS i1, i2, Foci

VARIABLE focus

MCGrants == {[in |-> TRUE, auto |-> TRUE, capacity |-> k] : k \in {0, 1}}
MCSettings == {[active |-> TRUE, auto |-> TRUE, escalation |-> i2],
               [active |-> FALSE, auto |-> TRUE, escalation |-> i2]}

Nothing == [boost |-> "keep", review |-> "keep"]
MCPatches == {Nothing, [boost |-> "reassigned", review |-> "investigate"],
              [boost |-> "none", review |-> "keep"], [boost |-> "keep", review |-> "none"]}
NoPatches == {Nothing}

\* Two cases without snooze, attention flag and review level; two that are never
\* pending (to the maintenance worker that is as good as investigating) and not
\* escalated; or one case with everything.
InFocus ==
    /\ focus = "work" => \A c \in Cases : case[c].boost = "none" /\ case[c].review = "none" /\ ~case[c].snoozed
    /\ focus = "snoozes" => \A c \in Cases : case[c].boost # "escalated" /\ case[c].status # "pending"
    /\ focus = "history" => \A c \in Cases \ {1} : case[c] = NoRow

MCInit == Init /\ focus \in Foci
MCNext == UNCHANGED focus /\ Next /\ InFocus'
MCSpec == MCInit /\ [][MCNext]_<<vars, focus>>

MCFairSpec == MCSpec /\ Fairness

WorkerSymmetry == Permutations(Workers)
=============================================================================
