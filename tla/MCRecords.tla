------------------------------ MODULE MCRecords ------------------------------
(* What the services store and tell each other: the two event outboxes, the *)
(* intake of cases, the accounts that are checked before a write, the       *)
(* ingestion of records, the metadata cache and the pages of decisions.     *)
(* They share nothing, so each behaviour moves one of them; focus says      *)
(* which.                                                                   *)
EXTENDS CaseOutbox, RecordIngest, Identity, MetadataCache, DecisionPages, TLC

CONSTANTS w1, w2, ScreeningWorkers,
          r1, r2, r3, r4, a, b, k,
          MaxRepeats,
          IntakeSetting,
          Foci

VARIABLES sstatus, sattempts, sleased, sheld, swattempt, sanswer, saccepted, scurrent, slost,
          icast, cases, links, routes, evidence, receipts, history, match, told, ist, iheld, ifaults, repeats,
          focus

\* What the intake is asked, and what it finds there.
IntakeCasts == IntakeSetting.casts
IntakeReq == IntakeSetting.requests
IntakeObjects == IntakeSetting.objects
IntakeOpened == IntakeSetting.opened
IntakeScreenings == IntakeSetting.screenings
IntakeInboxes == IntakeSetting.inboxes

\* The requests are well formed.  A receipt's id stands for its source and event: it
\* belongs to requests of one kind, that of a review to this review alone.  A
\* screening of a continuous run has no decision, and a workflow action and a
\* transfer have one.
IntakeAssumption ==
  /\ None # "ok"
  /\ \A c \in IntakeCasts : ToSet(c) \subseteq DOMAIN IntakeReq
  /\ \A r \in DOMAIN IntakeReq :
       LET q == IntakeReq[r]
       IN /\ q.kind \in {"workflow", "arrival", "review", "create", "attach", "transfer", "close"}
          /\ q.scr # None <=> q.kind \in {"arrival", "review"}
          /\ q.scr # None => q.scr \in DOMAIN IntakeScreenings
          /\ q.kind \in {"attach", "close"} => q.receipt = None
          /\ q.kind \in {"review", "transfer"} => q.receipt # None
          /\ q.kind = "workflow" => q.decs = <<Head(q.decs)>>
          /\ q.kind = "transfer" => Head(q.decs) # None
          /\ q.action = "add_to_case_if_possible" => q.kind = "workflow"
  /\ \A q, r \in DOMAIN IntakeReq :
       IntakeReq[q].receipt = IntakeReq[r].receipt /\ IntakeReq[r].receipt # None
         => IntakeReq[q].kind = IntakeReq[r].kind /\ (IntakeReq[r].kind = "review" => q = r)
  /\ \A s \in DOMAIN IntakeScreenings : IntakeScreenings[s].continuous => IntakeScreenings[s].decision = None
  /\ \A c, d \in DOMAIN IntakeOpened : IntakeOpened[c].dec = IntakeOpened[d].dec => c = d
ASSUME IntakeAssumption

Intake == INSTANCE CaseIntake WITH cast <- icast, st <- ist, held <- iheld, faults <- ifaults, Casts <- IntakeCasts,
  Req <- IntakeReq, ObjectOf <- IntakeObjects, Opened <- IntakeOpened, Screenings <- DOMAIN IntakeScreenings,
  ScreeningOf <- IntakeScreenings, ActiveInboxes <- IntakeInboxes

Screening == INSTANCE ScreeningOutbox WITH Workers <- ScreeningWorkers,
  status <- sstatus, attempts <- sattempts, leased <- sleased, held <- sheld, wattempt <- swattempt,
  answer <- sanswer, accepted <- saccepted, current <- scurrent, lost <- slost

\* Two equal batches under one key, a batch without a key that takes the same
\* objects in the opposite order, and a single record that reuses the key.
MCKeyOf == r1 :> k @@ r2 :> k @@ r3 :> NoKey @@ r4 :> k
MCBodyOf == r1 :> "x" @@ r2 :> "x" @@ r3 :> "y" @@ r4 :> "y"
MCKindOf == r1 :> "batch" @@ r2 :> "batch" @@ r3 :> "batch" @@ r4 :> "single"
MCModeOf == r1 :> "create" @@ r2 :> "create" @@ r3 :> "patch" @@ r4 :> "create"
MCRecordsOf == r1 :> <<a, b>> @@ r2 :> <<a, b>> @@ r3 :> <<b, a>> @@ r4 :> <<b>>

\* The same payload sent to two tables under one key.
TablesKeyOf == r1 :> k @@ r2 :> k
TablesBodyOf == r1 :> "x" @@ r2 :> "x"
TablesKindOf == r1 :> "single" @@ r2 :> "single"
TablesModeOf == r1 :> "create" @@ r2 :> "create"
TablesRecordsOf == r1 :> <<a>> @@ r2 :> <<b>>

\* Requests of the intake: decisions of one object, and screenings of
\* decisions and of continuous runs, whose arrivals were published or, long
\* ago, were not, and one of neither.  Inbox i3 is not active.
Base == [kind |-> "", receipt |-> None, body |-> <<>>, decs |-> <<>>, action |-> "", inbox |-> None,
         any |-> FALSE, scr |-> None, status |-> ""]
Workflow(id, body, d, action, inbox, any) ==
  [Base EXCEPT !.kind = "workflow", !.receipt = id, !.body = <<body>>, !.decs = <<d>>, !.action = action,
               !.inbox = inbox, !.any = any]
Review(id, s, v) == [Base EXCEPT !.kind = "review", !.receipt = id, !.scr = s, !.status = v]
Arrival(id, s) == [Base EXCEPT !.kind = "arrival", !.receipt = id, !.scr = s]
MCIntakeReq == [
  w1 |-> Workflow("x1", "a", "d1", "add_to_case_if_possible", "i1", FALSE),
  w2 |-> Workflow("x1", "a", "d1", "add_to_case_if_possible", "i1", FALSE),
  w3 |-> Workflow("x1", "b", "d1", "create_case", "i1", FALSE),
  w4 |-> Workflow("x4", "a", "d2", "add_to_case_if_possible", "i2", TRUE),
  w5 |-> Workflow("x5", "a", "d2", "add_to_case", "i1", FALSE),
  w6 |-> Workflow("x6", "a", "d2", "create_case", "i3", FALSE),
  a1 |-> Arrival("xa1", "published"),
  r1 |-> Review("xr1", "published", "hit"),
  r2 |-> Review("xr2", "published", "no_hit"),
  l1 |-> Review("xl1", "legacy", "hit"),
  a2 |-> Arrival("xa2", "continuous"),
  c1 |-> Review("xc1", "continuous", "hit"),
  c2 |-> Review("xc2", "continuous", "no_hit"),
  c3 |-> Review("xc3", "oldrun", "hit"),
  o1 |-> Review("xo1", "other", "hit"),
  o2 |-> Review("xo2", "other", "no_hit"),
  o3 |-> Arrival("xo3", "other"),
  u1 |-> Arrival("xu1", "unrouted"),
  m1 |-> [Base EXCEPT !.kind = "create", !.receipt = "xm1", !.decs = <<"d1", "d2">>, !.inbox = "i2"],
  m2 |-> [Base EXCEPT !.kind = "attach", !.decs = <<"d1">>],
  t1 |-> [Base EXCEPT !.kind = "transfer", !.receipt = "xt1", !.decs = <<"d1">>],
  t2 |-> [Base EXCEPT !.kind = "transfer", !.receipt = "xt1", !.decs = <<"d1">>],
  t3 |-> [Base EXCEPT !.kind = "transfer", !.receipt = "xt3", !.decs = <<"d1">>],
  e1 |-> [Base EXCEPT !.kind = "close"]]
MCIntakeScreenings == [
  published  |-> [decision |-> "d1", published |-> TRUE, continuous |-> FALSE, inbox |-> "i2"],
  legacy     |-> [decision |-> "d1", published |-> FALSE, continuous |-> FALSE, inbox |-> None],
  continuous |-> [decision |-> None, published |-> TRUE, continuous |-> TRUE, inbox |-> "i1"],
  unrouted   |-> [decision |-> "d1", published |-> TRUE, continuous |-> FALSE, inbox |-> None],
  oldrun     |-> [decision |-> None, published |-> FALSE, continuous |-> TRUE, inbox |-> "i1"],
  other      |-> [decision |-> None, published |-> FALSE, continuous |-> FALSE, inbox |-> "i1"]]
MCIntakeCasts ==
  {SetToSeq(S) : S \in kSubset(3, {"w1", "w4", "a1", "t1", "e1"}) \cup
    {{"w1", "w2", "w3"}, {"w4", "w6", "m1"}, {"w5", "m2", "t1"}, {"w1", "m1", "m2"}, {"a1", "m1", "t1"}, {"a1", "r1", "r2"},
     {"r1", "t1", "m2"}, {"l1", "a1", "t1"}, {"a2", "c1", "c2"}, {"o1", "o2", "o3"}, {"a2", "m2", "c3"},
     {"t1", "t2", "t3"}, {"u1", "l1", "m2"}, {"w5", "m2", "e1"}}}
MCIntakeSetting ==
  [casts |-> MCIntakeCasts, requests |-> MCIntakeReq, screenings |-> MCIntakeScreenings,
   objects |-> [d1 |-> "o", d2 |-> "o", d3 |-> "o"],
   opened |-> <<[inbox |-> "i1", dec |-> "d1"], [inbox |-> "i2", dec |-> "d3"]>>,
   inboxes |-> {"i1", "i2"}]

\* Requests to the accounts: a and b are the administrators, n and m share the
\* address that a invited.
Ask(kind, ses) ==
  [kind |-> kind, ses |-> ses, who |-> Nil, admin |-> FALSE, active |-> TRUE, id |-> Nil, email |-> Nil,
   all |-> FALSE, login |-> Nil]
Login(kind, who, login) == [Ask(kind, Nil) EXCEPT !.who = who, !.login = login]
IdentityReq == [
  ca |-> [Ask("change", "sa") EXCEPT !.who = "b"],
  cb |-> [Ask("change", "sb") EXCEPT !.who = "a", !.active = FALSE],
  cs |-> [Ask("change", "sa") EXCEPT !.who = "a"],
  ct |-> [Ask("change", "sb") EXCEPT !.who = "b"],
  cn |-> [Ask("change", "sa") EXCEPT !.who = "n", !.admin = TRUE],
  ra |-> [Ask("revoke", "sa") EXCEPT !.all = TRUE],
  r2 |-> [Ask("revoke", "sa") EXCEPT !.id = "sa"],
  rb |-> [Ask("revoke", "sa") EXCEPT !.id = "sb"],
  lo |-> Ask("logout", "sa"),
  wa |-> Ask("write", "sa"),
  la |-> Login("login", "a", "x"),
  l2 |-> Login("login", "a", "x"),
  pn |-> [Ask("provision", Nil) EXCEPT !.who = "n"],
  i1 |-> [Ask("invite", "sa") EXCEPT !.id = "j", !.email = "q"],
  i2 |-> [Ask("invite", "sb") EXCEPT !.id = "j", !.email = "q"],
  i3 |-> [Ask("invite", "sb") EXCEPT !.id = "k", !.email = "q"],
  cx |-> [Ask("cancel", "sb") EXCEPT !.id = "i"],
  rs |-> [Ask("resend", "sb") EXCEPT !.id = "i"],
  an |-> Login("accept", "n", "y"),
  a2 |-> Login("accept", "n", "y"),
  am |-> Login("accept", "m", "z")]
IdentityCasts ==
  {[requests |-> c, sent |-> TRUE, calm |-> FALSE] : c \in
    {<<"ca", "cb", "la">>, <<"cs", "ct", "cb">>, <<"cb", "wa", "ra">>, <<"cb", "la", "l2">>, <<"r2", "la", "lo">>,
     <<"lo", "ca", "wa">>, <<"an", "am", "cb">>, <<"an", "am", "cx">>, <<"an", "cn", "pn">>, <<"an", "a2", "cx">>}}
  \cup {[requests |-> c, sent |-> TRUE, calm |-> TRUE] : c \in {<<"rb", "cb", "i1">>, <<"i1", "i2", "i3">>, <<"an", "rs", "cb">>}}
  \cup {[requests |-> <<"pn", "cx", "rs">>, sent |-> FALSE, calm |-> TRUE],
        [requests |-> <<"pn", "lo", "cx">>, sent |-> FALSE, calm |-> FALSE]}
IdentityMembers == {"a", "b"}
IdentitySessions == [sa |-> "a", sb |-> "b"]
IdentityInvite == [id |-> "i", email |-> "e", admin |-> TRUE, inviter |-> "a"]
IdentityEmails == [n |-> "e", m |-> "e"]

\* Decisions that share their created_at, of two scenarios.
MCRows ==
  {[id |-> 1, at |-> 1, scn |-> "a", score |-> 5], [id |-> 2, at |-> 1, scn |-> "b", score |-> 1],
   [id |-> 3, at |-> 1, scn |-> "b", score |-> 5], [id |-> 4, at |-> 2, scn |-> "a", score |-> 5]}
MCFilters == {[scn |-> Unset, min |-> Unset], [scn |-> "b", min |-> Unset], [scn |-> Unset, min |-> 5]}

screeningVars == <<sstatus, sattempts, sleased, sheld, swattempt, sanswer, saccepted, scurrent, slost>>
intakeVars == <<icast, cases, links, routes, evidence, receipts, history, match, told, ist, iheld, ifaults, repeats>>

MCInit ==
  /\ focus \in Foci
  /\ Init /\ Screening!Init /\ IngestInit /\ CacheInit
  /\ IF focus = "pages" THEN PagesInit
     ELSE stored = {} /\ gone = {} /\ walk = [w \in Walkers |-> NoWalk]
  /\ IF focus = "intake" THEN Intake!Init
     ELSE /\ icast = <<>> /\ cases = <<>> /\ match = <<>> /\ ist = <<>> /\ history = <<>>
          /\ links = {} /\ routes = {} /\ evidence = {} /\ receipts = {} /\ told = {} /\ iheld = {}
          /\ ifaults = 0 /\ repeats = 0
  /\ IdentityInit /\ (focus # "identity" => cast = <<"ca", "cb", "la">>)

MCNext ==
  /\ UNCHANGED focus
  /\ \/ focus = "outbox" /\ Next
        /\ UNCHANGED <<screeningVars, intakeVars, identityVars, ingestVars, cacheVars, pageVars>>
     \/ focus = "screening" /\ Screening!Next
        /\ UNCHANGED <<vars, intakeVars, identityVars, ingestVars, cacheVars, pageVars>>
     \/ focus = "intake" /\ Intake!Next
        /\ UNCHANGED <<vars, screeningVars, identityVars, ingestVars, cacheVars, pageVars>>
     \/ focus = "identity" /\ IdentityNext
        /\ UNCHANGED <<vars, screeningVars, intakeVars, ingestVars, cacheVars, pageVars>>
     \/ focus = "ingest" /\ IngestNext
        /\ UNCHANGED <<vars, screeningVars, intakeVars, identityVars, cacheVars, pageVars>>
     \/ focus = "cache" /\ CacheNext
        /\ UNCHANGED <<vars, screeningVars, intakeVars, identityVars, ingestVars, pageVars>>
     \/ focus = "pages" /\ PagesNext
        /\ UNCHANGED <<vars, screeningVars, intakeVars, identityVars, ingestVars, cacheVars>>

MCSpec ==
  /\ MCInit
  /\ [][MCNext]_<<vars, screeningVars, intakeVars, identityVars, ingestVars, cacheVars, pageVars, focus>>
  /\ Fairness /\ Screening!Fairness /\ CacheFairness
  /\ \A r \in Requests : WF_ingestVars(focus = "ingest" /\ Advance(r))
  /\ \A i \in 1..CastSize : WF_intakeVars(focus = "intake" /\ Intake!Advance(icast[i]))
  /\ WF_identityVars(focus = "identity" /\ Progress)

\* The properties of the instances; their modules explain them.

\* What is delivered takes effect once and is told truly: a worker of the
\* screening outbox whose claim was taken over cannot record its answer, nor can
\* a mailer of an invitation that was sent anew, and what the intake is sent
\* twice it receives once.
DeliveredOnce == Screening!FencedByAttempt /\ Intake!ReceivedOnce /\ MailIsTold

\* A decision is in one case, with the evidence of its screenings, which shows
\* what their owner says of them.
EvidenceIsCurrent == Intake!EvidenceIsCurrent

\* A workflow action opens no case beside one that it could have reused.
ReusesOpenCases == Intake!ReusesOpenCases

\* Nothing waits for ever: every event of either outbox is delivered or given
\* up, whatever is lost on the way, and so is every invitation's mail; every
\* request for an ingestion, an intake or a change of accounts is answered
\* although transactions wait for each other; and so is every caller of the
\* cache, whoever started the load it waits for and however that load ended.
EverythingSettles ==
  /\ []<>(/\ Settled /\ Screening!Settled /\ Intake!AllAnswered /\ MailSettled /\ RequestsServed
          /\ focus = "ingest" => AllAnswered)
  /\ CallsAnswered
=============================================================================
