----------------------------- MODULE MCScreening -----------------------------
(* Dispatching, screenings, continuous screening and the provider's answers: *)
(* the parts share nothing in a step, so each state of a run moves one of    *)
(* them; focus says which.  The screenings are looked at three times, with   *)
(* failing workers, with people at work, and with two sources.               *)
EXTENDS Screenings, ContinuousScreening

VARIABLE focus

MCKind == [e |-> "screening", s |-> "scoring", w |-> "workflow", o |-> "outbox"]

MCConfigs ==
  {[queries |-> q, field |-> f, query |-> t] :
     q \in {<<>>, <<Blank>>, <<"ann", Blank, "bob">>}, f \in {NoText, FieldName}, t \in {NoText, FieldName, "ann"}}
Hit(e, score, isMatch) == [id |-> e, score |-> score, match |-> isMatch]
MCAnswers ==
  {[total |-> 0, results |-> <<>>], [total |-> 2, results |-> <<Hit("x", 7, TRUE)>>],
   [total |-> 2, results |-> <<Hit("x", 9, TRUE), Hit("y", 5, FALSE)>>],
   [total |-> 2, results |-> <<Hit("y", 8, TRUE), Hit("x", 7, TRUE)>>]}
MCRoutes ==
  {[provider |-> p, sanctions |-> s, clients |-> c, fallback |-> f] :
     p \in {"opensanctions", "other"}, s \in BOOLEAN, c \in {{}, {"other"}}, f \in BOOLEAN}
MCCatalogs == {<<>>, [d |-> "1"], [d |-> "2"], [d |-> "1", e |-> "1"]}

ScreeningFoci == {"claims", "desk", "sources"}

MCInit ==
  /\ focus \in ScreeningFoci \cup {"dispatch", "monitor", "provider"}
  /\ DispatchInit /\ ScreeningInit /\ MonitorInit /\ SearchInit

OneSource == \A s \in Ids \ {Dispatched} : status'[s] = "none"
Related == \A s \in Ids : origin'[s] \in {"continuous", "manual"} => status'[Dispatched] = "none"

MCNext ==
  /\ UNCHANGED focus
  /\ \/ /\ focus \in ScreeningFoci /\ ScreeningNext
        /\ focus = "claims" => UNCHANGED deskVars /\ edits' = 0 /\ OneSource
        /\ focus = "desk" => faults' = 0 /\ edits' = 0 /\ retries' = 0 /\ OneSource
        /\ focus = "sources" => faults' = 0 /\ UNCHANGED deskVars /\ retries' = 0 /\ Related
        /\ UNCHANGED <<monitorVars, searchVars>>
     \/ focus = "dispatch" /\ DispatchNext /\ Cardinality({i \in Items : row'[i] # "none"}) <= 2 /\ UNCHANGED <<screeningVars, monitorVars, searchVars>>
     \/ focus = "monitor" /\ MonitorNext /\ UNCHANGED <<allVars, searchVars>>
     \/ focus = "provider" /\ SearchNext /\ UNCHANGED <<allVars, monitorVars>>

MCSpec ==
  MCInit /\ [][MCNext]_<<allVars, monitorVars, searchVars, focus>>
  /\ DispatchFairness /\ ScreeningFairness /\ MonitorFairness

RetrySpec == MCInit /\ focus = "dispatch" /\ [][MCNext]_<<allVars, monitorVars, searchVars, focus>> /\ DispatchFairness

\* EVERYTHING IS SCREENED: screenings and the requests of monitored objects come
\* to an end, through the deaths of workers and changes that arrive while an
\* earlier one is worked on, unless their jobs are used up.
EverythingScreened == ScreeningSettles /\ MonitoredIsScreened
=============================================================================
