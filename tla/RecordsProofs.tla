---------------------------- MODULE RecordsProofs ----------------------------
(***************************************************************************)
(* Proofs about the deliveries and the intake of the case manager and the  *)
(* metadata cache of the decision engine, for any events, workers,         *)
(* requests, screenings and casts, and any keys, callers and TTL.          *)
(*                                                                         *)
(* Four inductive invariants.  The lease tokens of the case manager's      *)
(* outbox do what they are for (IndInv), and the outbox implements         *)
(* EventDelivery.  A worker of the outbox of screening has the number of   *)
(* its claim, which the row has too while nobody claimed it anew           *)
(* (FenceInv).  A transaction of the intake knows what it has locked:      *)
(* nobody has written its receipt, where its screening is shown, which     *)
(* cases of its object it could reuse, and that what it adds has no case   *)
(* yet (IntakeInv).  What a load of the cache has read is as recent as the *)
(* entry or the answer it will become, and no recorded time is ahead of    *)
(* the clock (CacheInv): a version that a write replaces now was current   *)
(* since any of those times.                                               *)
(***************************************************************************)
EXTENDS MCRecords, IdentityProofs

\* Tokens are drawn once: a worker's token was drawn before now, and no two
\* workers have the same.
TokensFresh ==
    /\ \A e \in Events : token[e] <= claims
    /\ \A w \in Workers : wtoken[w] <= claims
    /\ \A w \in Workers : held[w] # NoEvent => wtoken[w] > 0
    /\ \A v, w \in Workers : wtoken[v] > 0 /\ wtoken[v] = wtoken[w] => v = w

\* What a worker knows of its row is true as long as it holds the row.
HolderKnows ==
    \A w \in Workers :
        /\ held[w] # NoEvent => status[held[w]] # "absent"
        /\ Holds(w) => wattempt[w] = attempts[held[w]]
        /\ Holds(w) /\ answer[w] = "ok" => accepted[held[w]]

IndInv ==
    /\ TypeOK
    /\ TokensFresh
    /\ HolderKnows
    /\ DeliveredWasAccepted
    /\ FailedIsExhausted

\* Init establishes the inductive invariant.
LEMMA OutboxStarts == Init => IndInv
  BY ConstantsAssumption
  DEF Init, IndInv, TypeOK, TokensFresh, HolderKnows, Holds, DeliveredWasAccepted,
      FailedIsExhausted, Statuses

\* Every step of the outbox keeps its types.
LEMMA TypeStep == TypeOK /\ [Next]_vars => TypeOK'
  <1> SUFFICES ASSUME TypeOK, [Next]_vars PROVE TypeOK'
    OBVIOUS
  <1> USE ConstantsAssumption DEF TypeOK, Statuses, rowVars, workVars
  <1>1. ASSUME NEW e \in Events, Create(e) PROVE TypeOK'
    BY <1>1 DEF Create
  <1>2. ASSUME NEW e \in Events, ExpireLease(e) PROVE TypeOK'
    BY <1>2 DEF ExpireLease
  <1>3. ASSUME NEW e \in Events, Replay(e) PROVE TypeOK'
    BY <1>3 DEF Replay
  <1>4. ASSUME NEW w \in Workers, NEW r \in {"ok", "failure"}, PostAccepted(w, r) PROVE TypeOK'
    BY <1>4 DEF PostAccepted
  <1>5. ASSUME NEW w \in Workers, PostRefused(w) PROVE TypeOK'
    BY <1>5 DEF PostRefused
  <1>6. ASSUME NEW w \in Workers, FinishDelivery(w) PROVE TypeOK'
    <2>1. Outcome(w) \in Statuses
      BY DEF Outcome
    <2> QED
      BY <1>6, <2>1 DEF FinishDelivery, Release
  <1>7. ASSUME NEW w \in Workers, FinishConflict(w) PROVE TypeOK'
    BY <1>7 DEF FinishConflict, Release
  <1>8. ASSUME NEW w \in Workers, Abandon(w) PROVE TypeOK'
    BY <1>8 DEF Abandon, Release
  <1>9. ASSUME NEW w \in Workers, NEW e \in Events, ClaimDelivery(w, e) PROVE TypeOK'
    BY <1>9 DEF ClaimDelivery
  <1>10. CASE UNCHANGED vars
    BY <1>10 DEF vars
  <1> QED
    BY <1>1, <1>2, <1>3, <1>4, <1>5, <1>6, <1>7, <1>8, <1>9, <1>10 DEF Next, Proceed

\* Every step keeps the inductive invariant.
LEMMA OutboxStep == IndInv /\ [Next]_vars => IndInv'
  <1> SUFFICES ASSUME IndInv, [Next]_vars PROVE IndInv'
    OBVIOUS
  <1> USE ConstantsAssumption
  <1>t. TypeOK /\ TypeOK'
    BY TypeStep DEF IndInv
  <1> DEFINE Rest == TokensFresh /\ HolderKnows /\ DeliveredWasAccepted /\ FailedIsExhausted
  <1>r. Rest
    BY DEF IndInv
  <1> SUFFICES Rest'
    BY <1>t DEF IndInv
  <1>1. ASSUME NEW e \in Events, Create(e) PROVE Rest'
    BY <1>t, <1>r, <1>1
    DEF TypeOK, Create, TokensFresh, HolderKnows, Holds, DeliveredWasAccepted, FailedIsExhausted, workVars
  <1>2. ASSUME NEW e \in Events, ExpireLease(e) PROVE Rest'
    BY <1>t, <1>r, <1>2
    DEF TypeOK, ExpireLease, TokensFresh, HolderKnows, Holds, DeliveredWasAccepted, FailedIsExhausted, workVars
  <1>3. ASSUME NEW e \in Events, Replay(e) PROVE Rest'
    BY <1>t, <1>r, <1>3
    DEF TypeOK, Replay, TokensFresh, HolderKnows, Holds, DeliveredWasAccepted, FailedIsExhausted, workVars
  <1>4. ASSUME NEW w \in Workers, NEW r \in {"ok", "failure"}, PostAccepted(w, r) PROVE Rest'
    BY <1>t, <1>r, <1>4
    DEF TypeOK, PostAccepted, TokensFresh, HolderKnows, Holds, DeliveredWasAccepted, FailedIsExhausted, rowVars
  <1>5. ASSUME NEW w \in Workers, PostRefused(w) PROVE Rest'
    BY <1>t, <1>r, <1>5
    DEF TypeOK, PostRefused, TokensFresh, HolderKnows, Holds, DeliveredWasAccepted, FailedIsExhausted, rowVars
  <1>6. ASSUME NEW w \in Workers, FinishDelivery(w) PROVE Rest'
    <2> DEFINE e == held[w]
    <2>1. /\ e \in Events /\ status[e] = "delivering" /\ answer[w] # "none"
          /\ status' = [status EXCEPT ![e] = Outcome(w)]
          /\ token' = [token EXCEPT ![e] = 0]
          /\ UNCHANGED <<attempts, claims, accepted>>
          /\ held' = [held EXCEPT ![w] = NoEvent]
          /\ wtoken' = [wtoken EXCEPT ![w] = 0]
          /\ wattempt' = [wattempt EXCEPT ![w] = 0]
          /\ answer' = [answer EXCEPT ![w] = "none"]
      BY <1>t, <1>6 DEF FinishDelivery, Release, Holds, TypeOK
    <2>2. wattempt[w] = attempts[e] /\ (answer[w] = "ok" => accepted[e])
      BY <1>r, <1>6 DEF HolderKnows, FinishDelivery
    <2>3. TokensFresh'
      BY <1>t, <1>r, <2>1 DEF TypeOK, TokensFresh
    <2>4. HolderKnows'
      BY <1>t, <1>r, <2>1 DEF TypeOK, TokensFresh, HolderKnows, Holds, Outcome
    <2>5. DeliveredWasAccepted' /\ FailedIsExhausted'
      BY <1>t, <1>r, <2>1, <2>2 DEF TypeOK, DeliveredWasAccepted, FailedIsExhausted, Outcome
    <2> QED
      BY <2>3, <2>4, <2>5
  <1>7. ASSUME NEW w \in Workers, FinishConflict(w) PROVE Rest'
    BY <1>t, <1>r, <1>7
    DEF TypeOK, FinishConflict, Release, TokensFresh, HolderKnows, Holds, DeliveredWasAccepted,
        FailedIsExhausted, rowVars
  <1>8. ASSUME NEW w \in Workers, Abandon(w) PROVE Rest'
    BY <1>t, <1>r, <1>8
    DEF TypeOK, Abandon, Release, TokensFresh, HolderKnows, Holds, DeliveredWasAccepted,
        FailedIsExhausted, rowVars
  <1>9. ASSUME NEW w \in Workers, NEW e \in Events, ClaimDelivery(w, e) PROVE Rest'
    <2>1. TokensFresh'
      BY <1>t, <1>r, <1>9 DEF TypeOK, ClaimDelivery, TokensFresh
    <2>2. HolderKnows'
      BY <1>t, <1>r, <1>9 DEF TypeOK, ClaimDelivery, TokensFresh, HolderKnows, Holds
    <2>3. DeliveredWasAccepted' /\ FailedIsExhausted'
      BY <1>t, <1>r, <1>9 DEF TypeOK, ClaimDelivery, DeliveredWasAccepted, FailedIsExhausted
    <2> QED
      BY <2>1, <2>2, <2>3
  <1>10. CASE UNCHANGED vars
    BY <1>r, <1>10
    DEF vars, rowVars, workVars, TokensFresh, HolderKnows, Holds, DeliveredWasAccepted, FailedIsExhausted
  <1> QED
    BY <1>1, <1>2, <1>3, <1>4, <1>5, <1>6, <1>7, <1>8, <1>9, <1>10 DEF Next, Proceed

\* The inductive invariant holds in every behaviour of the outbox.
THEOREM Invariance == Spec => []IndInv
  BY OutboxStarts, OutboxStep, PTL DEF Spec

\* Every reachable state of the outbox is well typed.
THEOREM OutboxTypes == Spec => []TypeOK
  <1>1. IndInv => TypeOK
    BY DEF IndInv
  <1> QED
    BY <1>1, Invariance, PTL

\* FinishDelivery accepts at most one worker per row, however many leases of it
\* ran out: lease_token is drawn afresh by every ClaimDelivery.
THEOREM OneHolder == Spec => []SingleHolder
  <1>1. IndInv => SingleHolder
    BY DEF IndInv, TokensFresh, SingleHolder, Holds
  <1> QED
    BY <1>1, Invariance, PTL

\* No row becomes delivered without an acceptance since its last Replay.
THEOREM DeliveredMeansAccepted == Spec => []DeliveredWasAccepted
  <1>1. IndInv => DeliveredWasAccepted
    BY DEF IndInv
  <1> QED
    BY <1>1, Invariance, PTL

\* FinishDelivery decides by the attempt number of the claim and is right.
THEOREM FailedMeansExhausted == Spec => []FailedIsExhausted
  <1>1. IndInv => FailedIsExhausted
    BY DEF IndInv
  <1> QED
    BY <1>1, Invariance, PTL

-----------------------------------------------------------------------------
\* Every step of the outbox is a step of EventDelivery or invisible to it.
LEMMA StepDelivers == IndInv /\ [Next]_vars => [Delivery!Next]_(Delivery!vars)
  <1> SUFFICES ASSUME IndInv, [Next]_vars PROVE [Delivery!Next]_(Delivery!vars)
    OBVIOUS
  <1> DEFINE open(s) == [e \in Events |-> IF s[e] \in {"pending", "delivering"} THEN "open" ELSE s[e]]
  <1>t. TypeOK /\ HolderKnows
    BY DEF IndInv
  <1>u. (open(status') = open(status) /\ accepted' = accepted) => [Delivery!Next]_(Delivery!vars)
    BY DEF Delivery!vars
  <1>n. \A e \in Events : \/ Delivery!Write(e) \/ Delivery!Reopen(e) \/ Delivery!Accept(e)
                           \/ Delivery!Deliver(e) \/ Delivery!GiveUp(e)
                        => [Delivery!Next]_(Delivery!vars)
    BY DEF Delivery!Next
  <1>1. ASSUME NEW e \in Events, Create(e) PROVE Delivery!Write(e)
    BY <1>t, <1>1 DEF Create, Delivery!Write, TypeOK
  <1>2. ASSUME NEW e \in Events, ExpireLease(e) PROVE open(status') = open(status) /\ accepted' = accepted
    BY <1>2 DEF ExpireLease
  <1>3. ASSUME NEW e \in Events, Replay(e) PROVE Delivery!Reopen(e)
    BY <1>t, <1>3 DEF Replay, Delivery!Reopen, TypeOK
  <1>4. ASSUME NEW w \in Workers, NEW r \in {"ok", "failure"}, PostAccepted(w, r)
        PROVE  Delivery!Accept(held[w]) /\ held[w] \in Events
    BY <1>t, <1>4 DEF PostAccepted, Delivery!Accept, TypeOK, HolderKnows, rowVars, Statuses
  <1>5. ASSUME NEW w \in Workers, PostRefused(w)
        PROVE  open(status') = open(status) /\ accepted' = accepted
    BY <1>5 DEF PostRefused, rowVars
  <1>6. ASSUME NEW w \in Workers, FinishDelivery(w) PROVE [Delivery!Next]_(Delivery!vars)
    <2>0. PICK e \in Events : e = held[w]
      BY <1>t, <1>6 DEF FinishDelivery, Holds, TypeOK
    <2>1. /\ status[e] = "delivering"
          /\ status' = [status EXCEPT ![e] = Outcome(w)]
          /\ accepted' = accepted
          /\ answer[w] = "ok" => accepted[e]
      BY <1>t, <1>6, <2>0 DEF FinishDelivery, Holds, TypeOK, HolderKnows
    <2>2. CASE Outcome(w) = "delivered"
      <3>1. accepted[e]
        BY <2>1, <2>2 DEF Outcome
      <3>2. Delivery!Deliver(e)
        BY <1>t, <2>1, <2>2, <3>1 DEF Delivery!Deliver, TypeOK
      <3> QED
        BY <1>n, <2>1, <3>2
    <2>3. CASE Outcome(w) = "failed"
      <3>1. Delivery!GiveUp(e)
        BY <1>t, <2>1, <2>3 DEF Delivery!GiveUp, TypeOK
      <3> QED
        BY <1>n, <2>1, <3>1
    <2>4. CASE Outcome(w) = "pending"
      <3>1. open(status') = open(status)
        BY <1>t, <2>1, <2>4 DEF TypeOK
      <3> QED
        BY <1>u, <2>1, <3>1
    <2> QED
      BY <2>2, <2>3, <2>4 DEF Outcome
  <1>7. ASSUME NEW w \in Workers, FinishConflict(w)
        PROVE  open(status') = open(status) /\ accepted' = accepted
    BY <1>7 DEF FinishConflict, rowVars
  <1>8. ASSUME NEW w \in Workers, Abandon(w)
        PROVE  open(status') = open(status) /\ accepted' = accepted
    BY <1>8 DEF Abandon, rowVars
  <1>9. ASSUME NEW w \in Workers, NEW e \in Events, ClaimDelivery(w, e)
        PROVE  open(status') = open(status) /\ accepted' = accepted
    BY <1>t, <1>9 DEF ClaimDelivery, TypeOK
  <1>10. CASE UNCHANGED vars
    BY <1>u, <1>10 DEF vars, rowVars
  <1> QED
    BY <1>1, <1>2, <1>3, <1>4, <1>5, <1>6, <1>7, <1>8, <1>9, <1>10, <1>n, <1>u DEF Next, Proceed

\* Leases, tokens and attempts implement the outbox's promise for any number of
\* events and workers.
THEOREM Refinement == Spec => ImplementsDelivery
  <1>1. Init => Delivery!Init
    BY DEF Init, Delivery!Init
  <1> QED
    BY <1>1, StepDelivers, Invariance, PTL DEF Spec, ImplementsDelivery, Delivery!Spec

-----------------------------------------------------------------------------
\* A worker of the outbox of screening has the number of its claim: while the row
\* has the same number, nobody has claimed it since.
FenceTypes ==
    /\ sattempts \in [Events -> Nat] /\ sstatus = [e \in Events |-> sstatus[e]]
    /\ sheld \in [ScreeningWorkers -> Events \cup {NoEvent}] /\ swattempt \in [ScreeningWorkers -> Nat]
    /\ scurrent \in [ScreeningWorkers -> BOOLEAN]
FenceInv ==
    /\ FenceTypes
    /\ \A w \in ScreeningWorkers : sheld[w] # NoEvent =>
          /\ swattempt[w] <= sattempts[sheld[w]]
          /\ swattempt[w] = sattempts[sheld[w]] => scurrent[w]

LEMMA FenceStarts == Screening!Init => FenceInv
  BY DEF Screening!Init, FenceInv, FenceTypes

LEMMA FenceStep == FenceInv /\ [Screening!Next]_(Screening!vars) => FenceInv'
<1>2. ASSUME FenceInv, [Screening!Next]_(Screening!vars) PROVE FenceInv'
  <2>1. ASSUME NEW w \in ScreeningWorkers, NEW e \in Events, Screening!Claim(w, e) PROVE FenceInv'
    <3>1. /\ sattempts' = [sattempts EXCEPT ![e] = @ + 1] /\ sheld' = [sheld EXCEPT ![w] = e]
          /\ swattempt' = [swattempt EXCEPT ![w] = sattempts[e] + 1]
          /\ scurrent' = [v \in ScreeningWorkers |-> v = w \/ (scurrent[v] /\ sheld[v] # e)]
          /\ sstatus' = [sstatus EXCEPT ![e] = "delivering"]
      BY <2>1 DEF Screening!Claim
    <3>2. FenceTypes'
      <4>1. sattempts[e] \in Nat
        BY <1>2 DEF FenceInv, FenceTypes
      <4> QED
        BY <1>2, <3>1, <4>1 DEF FenceInv, FenceTypes
    <3>3. ASSUME NEW v \in ScreeningWorkers, sheld'[v] # NoEvent
          PROVE  swattempt'[v] <= sattempts'[sheld'[v]] /\ (swattempt'[v] = sattempts'[sheld'[v]] => scurrent'[v])
      <4>0. /\ sattempts[e] \in Nat /\ (sattempts[sheld[v]] \in Nat \/ sheld[v] = NoEvent)
            /\ swattempt[v] \in Nat /\ sheld[v] \in Events \cup {NoEvent}
        BY <1>2 DEF FenceInv, FenceTypes
      <4>3. sattempts'[e] = sattempts[e] + 1 /\ sheld'[w] = e /\ swattempt'[w] = sattempts[e] + 1 /\ scurrent'[w]
        <5>1. /\ sattempts \in [Events -> Nat] /\ sheld \in [ScreeningWorkers -> Events \cup {NoEvent}]
              /\ swattempt \in [ScreeningWorkers -> Nat]
          BY <1>2 DEF FenceInv, FenceTypes
        <5> QED
          BY <3>1, <5>1
      <4>1. CASE v = w
        BY <3>1, <4>0, <4>1, <4>3
      <4>2. CASE v # w
        <5>1. sheld'[v] = sheld[v] /\ swattempt'[v] = swattempt[v] /\ scurrent'[v] = (scurrent[v] /\ sheld[v] # e)
          BY <1>2, <3>1, <4>2 DEF FenceInv, FenceTypes
        <5>2. swattempt[v] <= sattempts[sheld[v]] /\ (swattempt[v] = sattempts[sheld[v]] => scurrent[v])
          BY <1>2, <3>3, <5>1 DEF FenceInv
        <5>3. CASE sheld[v] = e
          BY <4>0, <4>3, <5>1, <5>2, <5>3
        <5>4. CASE sheld[v] # e
          <6>1. sattempts'[sheld[v]] = sattempts[sheld[v]]
            BY <1>2, <3>1, <3>3, <5>1, <5>4 DEF FenceInv, FenceTypes
          <6> QED
            BY <5>1, <5>2, <5>4, <6>1
        <5> QED
          BY <5>3, <5>4
      <4> QED
        BY <4>1, <4>2
    <3> QED
      BY <3>2, <3>3 DEF FenceInv
  <2>2. ASSUME NEW w \in ScreeningWorkers, Screening!Release(w), UNCHANGED sattempts, sstatus' = [e \in Events |-> sstatus'[e]]
        PROVE  FenceInv'
    BY <1>2, <2>2 DEF FenceInv, FenceTypes, Screening!Release
  <2>3. ASSUME UNCHANGED <<sattempts, sstatus, sheld, swattempt, scurrent>> PROVE FenceInv'
    BY <1>2, <2>3 DEF FenceInv, FenceTypes
  <2>4. ASSUME NEW w \in ScreeningWorkers, Screening!Proceed(w) \/ Screening!Abandon(w) PROVE FenceInv'
    <3>1. CASE Screening!Finish(w)
      <4>1. sstatus' = [e \in Events |-> sstatus'[e]]
        BY <1>2, <3>1 DEF Screening!Finish, FenceInv, FenceTypes
      <4> QED
        BY <2>2, <3>1, <4>1 DEF Screening!Finish
    <3>2. CASE Screening!FinishSuperseded(w) \/ Screening!Abandon(w)
      BY <1>2, <2>2, <3>2 DEF Screening!FinishSuperseded, Screening!Abandon, Screening!rowVars, FenceInv, FenceTypes
    <3>3. CASE Screening!PublishAccepted(w, "ok") \/ Screening!PublishAccepted(w, "failure") \/ Screening!PublishRefused(w)
      BY <2>3, <3>3 DEF Screening!PublishAccepted, Screening!PublishRefused, Screening!rowVars
    <3> QED
      BY <2>4, <3>1, <3>2, <3>3 DEF Screening!Proceed
  <2>5. ASSUME NEW e \in Events, Screening!Enqueue(e) \/ Screening!ExpireLease(e) PROVE FenceInv'
    BY <1>2, <2>5 DEF Screening!Enqueue, Screening!ExpireLease, Screening!workVars, FenceInv, FenceTypes
  <2>6. CASE UNCHANGED Screening!vars
    BY <2>3, <2>6 DEF Screening!vars, Screening!rowVars, Screening!workVars
  <2> QED
    BY <1>2, <2>1, <2>4, <2>5, <2>6 DEF Screening!Next
<1> QED
  BY <1>2

LEMMA FenceMeansHeld == FenceInv => Screening!FencedByAttempt
  BY DEF FenceInv, Screening!FencedByAttempt, Screening!Holds

-----------------------------------------------------------------------------
\* The intake: what is asked, and what a transaction knows.
Asked(r) == IntakeReq[r]
Receivable == {"workflow", "arrival", "review", "create"}
Automatic == {"workflow", "arrival", "review"}
Undecided(s) == IntakeScreenings[s].decision = None
Underway(r) == ist[r].pc \notin {"new", "done"}
HasLock(r, x) == <<x, r>> \in iheld
Unreceived(r) == \A x \in receipts : x.id # Asked(r).receipt
Primary(r) == Head(Intake!Decs(r))

TxnFields == {"pc", "case", "todo", "added", "made", "cand", "from", "to", "answer"}
Shaped(s) == s = [f \in TxnFields |-> s[f]]
IntakeShape ==
    /\ DOMAIN ist \subseteq DOMAIN IntakeReq /\ ist = [r \in DOMAIN ist |-> ist[r]]
    /\ \A r \in DOMAIN ist : Shaped(ist[r])
    /\ history = [e \in DOMAIN history |-> 1]
    /\ DOMAIN match = DOMAIN IntakeScreenings
    /\ \A e \in evidence : e = [f \in {"scr", "case", "status"} |-> e[f]] /\ e.scr \in DOMAIN IntakeScreenings
    /\ cases = [c \in DOMAIN cases |-> cases[c]]
    /\ \A c \in DOMAIN cases : cases[c] = [f \in {"inbox", "type", "status", "by"} |-> cases[c][f]]

\* Locks other than those of cases have one holder.
LocksExclusive == \A g, h \in iheld : g[1] = h[1] /\ g[1][1] # "case" => g[2] = h[2]

\* Which requests come where.
Stages(r) ==
    /\ ist[r].pc \notin {"member", "insert", "bind", "finish"} => ist[r].added = {} /\ ist[r].made = FALSE
    /\ ist[r].pc \in {"first", "second"} => Asked(r).kind = "transfer" /\ ist[r].to \in DOMAIN cases
    /\ Asked(r).kind = "transfer" => ist[r].pc \in {"new", "done", "first", "second"}
    /\ Asked(r).kind = "close" => ~Underway(r)
    /\ ist[r].pc \in {"inbox", "owned", "search", "take"} => Asked(r).kind = "workflow"
    /\ ist[r].pc \in {"screening", "pivot", "bind"} => Intake!ByScreening(r)
    /\ ist[r].pc = "finish" => ~Intake!ByScreening(r)
    /\ ist[r].pc = "pivot" => Intake!OfDecision(r)
    /\ Intake!ByScreening(r) /\ Undecided(Asked(r).scr) =>
         ist[r].pc \in {"new", "done", "screening", "create", "bind"} /\ ist[r].added = {}
    /\ Underway(r) /\ Asked(r).kind = "review" => r \in told

\* What a request that is under way has locked, and what it therefore knows.
ReceiptKept(r) ==
    Underway(r) =>
        /\ Asked(r).kind \in Receivable \cup {"transfer"} => HasLock(r, Intake!ReceiptLock(r))
        /\ Asked(r).kind \in Receivable => Unreceived(r)
ScreeningKept(r) ==
    Underway(r) /\ Intake!ByScreening(r) /\ ist[r].pc # "screening" =>
        /\ HasLock(r, Intake!ScreeningLock(r))
        /\ Undecided(Asked(r).scr) =>
             /\ ist[r].pc = "create" => Intake!CanonicalCase(Asked(r).scr) = {}
             /\ ist[r].pc = "bind" => Intake!CanonicalCase(Asked(r).scr) \subseteq {ist[r].case}
PivotKept(r) ==
    Underway(r) =>
        /\ Asked(r).kind = "workflow" /\ ist[r].pc # "inbox" => HasLock(r, Intake!PivotLock(r))
        /\ Intake!OfDecision(r) /\ (ist[r].pc \in {"create", "member", "insert"} \/ ist[r].added # {}) =>
             HasLock(r, Intake!PivotLock(r))

\* A decision that a transaction has added has no case, and the transaction has
\* a case for it.
Adding(r) ==
    /\ \A d \in ist[r].added : HasLock(r, Intake!LinkLock(d)) /\ \A l \in links : l.dec # d
    /\ ist[r].added # {} \/ ist[r].pc \in {"member", "insert"} => ist[r].case \in DOMAIN cases \/ ist[r].made
    /\ ist[r].pc = "take" => ist[r].cand \subseteq DOMAIN cases
    /\ Asked(r).kind \in Automatic =>
         /\ \A d \in ist[r].added : d = Primary(r)
         /\ ist[r].pc \in {"screening", "inbox", "search", "take", "pivot", "create", "member", "insert"} =>
              ist[r].todo = Intake!Decs(r)
         /\ ist[r].pc \in {"search", "take", "member", "insert"} => Intake!Decs(r) = <<Primary(r)>>

\* The cases that an action which reuses cases should not have missed.
Reusable(r) ==
    {l.case : l \in {x \in links : /\ x.by # None /\ Asked(x.by).kind \in Automatic
                                   /\ IntakeObjects[x.dec] = IntakeObjects[Primary(r)]
                                   /\ Intake!Eligible(r, x.case)}}
Searched(r) ==
    Asked(r).action = "add_to_case_if_possible" =>
        /\ ist[r].pc = "take" => Reusable(r) \subseteq ist[r].cand
        /\ ist[r].pc = "create" \/ ist[r].made => Reusable(r) = {}

Answered(r) ==
    ist[r].answer = "ok" =>
        /\ ist[r].pc = "done"
        /\ Asked(r).receipt # None => \E x \in receipts : x.id = Asked(r).receipt /\ x.case = ist[r].case

TxnKnows(r) ==
    Stages(r) /\ ReceiptKept(r) /\ ScreeningKept(r) /\ PivotKept(r) /\ Adding(r) /\ Searched(r) /\ Answered(r)

\* What the tables say of each other.
ReceiptsTrue ==
    /\ \A x, y \in receipts : x.id = y.id => x = y
    /\ \A x \in receipts :
         /\ x.by \in DOMAIN IntakeReq /\ x.id = Asked(x.by).receipt /\ x.id # None
         /\ Asked(x.by).kind = "transfer" => x.body[2] = x.case
         /\ Asked(x.by).kind = "review" => x.by \in told
    /\ \A r \in told : r \in DOMAIN IntakeReq /\ Asked(r).kind = "review"
LinksTrue ==
    /\ \A l, m \in links : l.dec = m.dec => l.case = m.case
    /\ \A l \in links : l.case \in DOMAIN cases
EvidenceTrue ==
    /\ \A e \in evidence : ~Undecided(e.scr) =>
         \E l \in links : l.dec = IntakeScreenings[e.scr].decision /\ l.case = e.case
    /\ \A s \in DOMAIN IntakeScreenings : Undecided(s) =>
         \A c, d \in Intake!CanonicalCase(s) : c = d
    /\ \A x \in routes : x.scr \in DOMAIN IntakeScreenings /\ IntakeScreenings[x.scr].continuous
EvidenceShown ==
    \A e \in evidence :
        e.status = match[e.scr] \/ \E r \in told : Asked(r).scr = e.scr /\ Unreceived(r)
HistoryTrue ==
    /\ \A e, f \in DOMAIN history : e.kind = f.kind /\ e.what = f.what => e = f
    /\ \A e \in DOMAIN history :
         \/ e.kind = "decision_added" /\ \E l \in links : l.dec = e.what
         \/ /\ e.kind = "screening_added"
            /\ IF IntakeScreenings[e.what].continuous THEN \E x \in routes : x.scr = e.what
               ELSE Intake!CanonicalCase(e.what) # {}
         \/ e.kind \in {"reviewed", "transferred_out", "transferred_in"} /\ \E x \in receipts : x.id = e.what

TablesTrue == ReceiptsTrue /\ LinksTrue /\ EvidenceTrue /\ EvidenceShown /\ HistoryTrue

IntakeInv == IntakeShape /\ LocksExclusive /\ (\A r \in DOMAIN ist : TxnKnows(r)) /\ TablesTrue

-----------------------------------------------------------------------------
\* A lock taken when it is free stays exclusive.
LEMMA LocksTaken ==
    ASSUME LocksExclusive, NEW r, NEW xs, \A x \in xs : x[1] = "case" \/ Intake!Free(x, r),
           iheld' = iheld \cup {<<x, r>> : x \in xs}
    PROVE  LocksExclusive'
<1> SUFFICES ASSUME NEW g \in iheld', NEW h \in iheld', g[1] = h[1], g[1][1] # "case" PROVE g[2] = h[2]
  BY DEF LocksExclusive
<1>1. CASE g \in iheld /\ h \in iheld
  BY <1>1 DEF LocksExclusive
<1>2. CASE g \notin iheld /\ h \in iheld
  BY <1>2 DEF Intake!Free
<1>3. CASE g \in iheld /\ h \notin iheld
  BY <1>3 DEF Intake!Free
<1>4. CASE g \notin iheld /\ h \notin iheld
  BY <1>4
<1> QED
  BY <1>1, <1>2, <1>3, <1>4

LEMMA LocksGiven ==
    ASSUME LocksExclusive, NEW r, iheld' = {h \in iheld : h[2] # r}
    PROVE  LocksExclusive' /\ \A h \in iheld : h[2] # r => h \in iheld'
BY DEF LocksExclusive

\* What a request knows stays true when another takes a step: the others write
\* only what they have locked.
LEMMA OthersKeep ==
    ASSUME IntakeInv, NEW r \in DOMAIN ist, NEW q \in DOMAIN ist, q # r,
           ist'[q] = ist[q], \A h \in iheld : h[2] # r => h \in iheld',
           DOMAIN cases \subseteq DOMAIN cases', told \subseteq told', receipts \subseteq receipts',
           \A x \in receipts' \ receipts : x.id = Asked(r).receipt /\ HasLock(r, Intake!ReceiptLock(r)),
           \A l \in links' : (\E m \in links : m.dec = l.dec) \/ HasLock(r, Intake!LinkLock(l.dec)),
           \A s \in DOMAIN IntakeScreenings : Undecided(s) =>
               Intake!CanonicalCase(s)' = Intake!CanonicalCase(s) \/ HasLock(r, <<"screening", s>>),
           Reusable(q)' \subseteq Reusable(q) \/ HasLock(r, Intake!PivotLock(q))
    PROVE  TxnKnows(q)'
<1>0. TxnKnows(q) /\ LocksExclusive
  BY DEF IntakeInv
<1>1. \A x : HasLock(q, x) => HasLock(q, x)'
  BY DEF HasLock
<1>2. \A x : HasLock(q, x) /\ HasLock(r, x) => x[1] = "case"
  BY <1>0 DEF HasLock, LocksExclusive
<1>3. Stages(q)'
  BY <1>0 DEF TxnKnows, Stages, Underway
<1>4. ReceiptKept(q)'
  <2>1. Intake!ReceiptLock(r)[1] # "case" /\ (Asked(q).receipt = Asked(r).receipt => Intake!ReceiptLock(q) = Intake!ReceiptLock(r))
    BY DEF Intake!ReceiptLock, Asked
  <2>2. HasLock(q, Intake!ReceiptLock(q)) /\ Unreceived(q) => Unreceived(q)'
    BY <1>2, <2>1 DEF Unreceived
  <2> QED
    BY <1>0, <1>1, <2>2 DEF TxnKnows, ReceiptKept, Underway, Intake!ReceiptLock
<1>5. ScreeningKept(q)'
  <2>1. Intake!ScreeningLock(q) = <<"screening", Asked(q).scr>>
    BY DEF Intake!ScreeningLock, Asked
  <2>2. HasLock(q, Intake!ScreeningLock(q)) => ~HasLock(r, Intake!ScreeningLock(q))
    BY <1>2, <2>1
  <2>3. Intake!ByScreening(q) => Asked(q).scr \in DOMAIN IntakeScreenings
    BY IntakeAssumption DEF IntakeAssumption, Intake!ByScreening, Asked, IntakeInv, IntakeShape
  <2>4. Intake!ByScreening(q) /\ HasLock(q, Intake!ScreeningLock(q)) /\ Undecided(Asked(q).scr) =>
          Intake!CanonicalCase(Asked(q).scr)' = Intake!CanonicalCase(Asked(q).scr)
    BY <2>1, <2>2, <2>3
  <2> QED
    BY <1>0, <1>1, <2>4 DEF TxnKnows, ScreeningKept, Underway, Intake!ScreeningLock
<1>6. PivotKept(q)'
  BY <1>0, <1>1 DEF TxnKnows, PivotKept, Underway, Intake!PivotLock
<1>7. Adding(q)'
  <2>1. ASSUME NEW d \in ist[q].added PROVE HasLock(q, Intake!LinkLock(d))' /\ \A l \in links' : l.dec # d
    <3>1. HasLock(q, Intake!LinkLock(d)) /\ \A l \in links : l.dec # d
      BY <1>0 DEF TxnKnows, Adding
    <3>2. Intake!LinkLock(d)[1] # "case"
      BY DEF Intake!LinkLock
    <3>3. ~HasLock(r, Intake!LinkLock(d))
      BY <1>2, <3>1, <3>2
    <3>4. HasLock(q, Intake!LinkLock(d))'
      BY <1>1, <3>1 DEF Intake!LinkLock
    <3>5. \A l \in links' : l.dec # d
      BY <3>1, <3>3
    <3> QED
      BY <3>4, <3>5
  <2> QED
    BY <1>0, <2>1 DEF TxnKnows, Adding, Primary
<1>8. Searched(q)'
  <2>1. HasLock(q, Intake!PivotLock(q)) => Reusable(q)' \subseteq Reusable(q)
    BY <1>2 DEF Intake!PivotLock
  <2>2. ASSUME Asked(q).action = "add_to_case_if_possible", ist[q].pc \in {"take", "create"} \/ ist[q].made
        PROVE HasLock(q, Intake!PivotLock(q))
    <3>1. Asked(q).kind = "workflow"
      BY <2>2, IntakeAssumption DEF IntakeAssumption, Asked, IntakeInv, IntakeShape
    <3>2. Underway(q) /\ ist[q].pc # "inbox"
      BY <1>0, <2>2 DEF TxnKnows, Stages, Underway
    <3> QED
      BY <1>0, <3>1, <3>2 DEF TxnKnows, PivotKept
  <2> QED
    BY <1>0, <2>1, <2>2 DEF TxnKnows, Searched
<1>9. Answered(q)'
  BY <1>0 DEF TxnKnows, Answered
<1> QED
  BY <1>3, <1>4, <1>5, <1>6, <1>7, <1>8, <1>9 DEF TxnKnows

\* A step that takes locks and goes on.
LEMMA GoFacts ==
    ASSUME IntakeInv, NEW r \in DOMAIN ist, NEW s, NEW xs, Intake!Go(r, s, xs)
    PROVE  /\ ist'[r] = s /\ DOMAIN ist' = DOMAIN ist /\ \A q \in DOMAIN ist \ {r} : ist'[q] = ist[q]
           /\ \A x \in xs : HasLock(r, x)'
           /\ \A x : HasLock(r, x) => HasLock(r, x)'
           /\ iheld' = iheld \cup {<<x, r>> : x \in xs}
           /\ \A q : Unreceived(q)' = Unreceived(q) /\ Reusable(q)' = Reusable(q)
           /\ \A c : Intake!CanonicalCase(c)' = Intake!CanonicalCase(c)
           /\ UNCHANGED <<icast, cases, links, routes, evidence, receipts, history, match, told, ifaults, repeats>>
<1> USE DEF Intake!Go, Intake!others, Intake!tables, IntakeInv, IntakeShape
<1>1. ist'[r] = s /\ DOMAIN ist' = DOMAIN ist /\ \A q \in DOMAIN ist \ {r} : ist'[q] = ist[q]
  OBVIOUS
<1>2. UNCHANGED <<icast, cases, links, routes, evidence, receipts, history, match, told, ifaults, repeats>>
  OBVIOUS
<1>3. iheld' = iheld \cup {<<x, r>> : x \in xs}
  OBVIOUS
<1>4. /\ \A x \in xs : HasLock(r, x)'
      /\ \A x : HasLock(r, x) => HasLock(r, x)'
  BY <1>3 DEF HasLock
<1>5. /\ \A q : Unreceived(q)' = Unreceived(q) /\ Reusable(q)' = Reusable(q)
      /\ \A c : Intake!CanonicalCase(c)' = Intake!CanonicalCase(c)
  BY <1>2 DEF Unreceived, Reusable, Intake!CanonicalCase, Intake!Eligible
<1> QED
  BY <1>1, <1>2, <1>3, <1>4, <1>5

LEMMA TablesStay ==
    ASSUME TablesTrue, UNCHANGED <<cases, links, routes, evidence, receipts, history, match, told>>
    PROVE  TablesTrue'
BY DEF TablesTrue, ReceiptsTrue, LinksTrue, EvidenceTrue, EvidenceShown, HistoryTrue, Intake!CanonicalCase, Unreceived

LEMMA GoStep ==
    ASSUME IntakeInv, NEW r \in DOMAIN ist, NEW s, NEW xs, Intake!Go(r, s, xs), Shaped(s),
           \A x \in xs : x[1] = "case" \/ Intake!Free(x, r), TxnKnows(r)'
    PROVE  IntakeInv'
<1>1. /\ ist'[r] = s /\ DOMAIN ist' = DOMAIN ist /\ \A q \in DOMAIN ist \ {r} : ist'[q] = ist[q]
      /\ iheld' = iheld \cup {<<x, r>> : x \in xs}
      /\ \A q : Reusable(q)' = Reusable(q)
      /\ \A c : Intake!CanonicalCase(c)' = Intake!CanonicalCase(c)
      /\ UNCHANGED <<icast, cases, links, routes, evidence, receipts, history, match, told, ifaults, repeats>>
  BY GoFacts
<1>2. IntakeShape'
  <2>1. ist' = [q \in DOMAIN ist' |-> ist'[q]]
    BY DEF IntakeInv, IntakeShape, Intake!Go
  <2> QED
    BY <1>1, <2>1 DEF IntakeInv, IntakeShape, Shaped
<1>3. LocksExclusive'
  BY <1>1, LocksTaken DEF IntakeInv
<1>4. TablesTrue'
  BY <1>1, TablesStay DEF IntakeInv
<1>5. ASSUME NEW q \in DOMAIN ist, q # r PROVE TxnKnows(q)'
  BY <1>1, <1>5, OthersKeep
<1> QED
  BY <1>1, <1>2, <1>3, <1>4, <1>5 DEF IntakeInv

\* The end of a transaction that has written nothing.
LEMMA EndFacts ==
    ASSUME IntakeInv, NEW r \in DOMAIN ist, NEW reply, NEW case, Intake!Ended(r, reply, case)
    PROVE  /\ ist'[r].pc = "done" /\ ist'[r].added = {} /\ ist'[r].made = FALSE /\ ist'[r].answer = reply
           /\ ist'[r].case = case /\ Shaped(ist'[r])
           /\ DOMAIN ist' = DOMAIN ist /\ \A q \in DOMAIN ist \ {r} : ist'[q] = ist[q]
           /\ ist' = [q \in DOMAIN ist' |-> ist'[q]]
           /\ LocksExclusive' /\ \A h \in iheld : h[2] # r => h \in iheld'
BY LocksGiven DEF Intake!Ended, Intake!Waiting, IntakeInv, IntakeShape, Shaped, TxnFields

\* A request that is done knows what it was answered.
LEMMA DoneKnows ==
    ASSUME NEW r, ist'[r].pc = "done", ist'[r].added = {}, ist'[r].made = FALSE, Answered(r)'
    PROVE  TxnKnows(r)'
BY DEF TxnKnows, Stages, Underway, ReceiptKept, ScreeningKept, PivotKept, Adding, Searched

LEMMA EndUnwritten ==
    ASSUME IntakeInv, NEW r \in DOMAIN ist, NEW reply, NEW case, Intake!Ended(r, reply, case),
           UNCHANGED <<cases, links, routes, evidence, receipts, history, match, told>>,
           reply = "ok" => \E x \in receipts : x.id = Asked(r).receipt /\ x.case = case
    PROVE  IntakeInv'
<1>1. /\ ist'[r].pc = "done" /\ ist'[r].added = {} /\ ist'[r].made = FALSE /\ ist'[r].answer = reply
      /\ ist'[r].case = case /\ Shaped(ist'[r])
      /\ DOMAIN ist' = DOMAIN ist /\ \A q \in DOMAIN ist \ {r} : ist'[q] = ist[q]
      /\ ist' = [q \in DOMAIN ist' |-> ist'[q]]
      /\ LocksExclusive' /\ \A h \in iheld : h[2] # r => h \in iheld'
  BY EndFacts
<1>2. IntakeShape'
  BY <1>1 DEF IntakeInv, IntakeShape
<1>3. TablesTrue'
  BY TablesStay DEF IntakeInv
<1>4. TxnKnows(r)'
  BY <1>1, DoneKnows DEF Answered
<1>5. /\ \A q : Reusable(q)' = Reusable(q)
      /\ \A c : Intake!CanonicalCase(c)' = Intake!CanonicalCase(c)
  BY DEF Reusable, Intake!CanonicalCase, Intake!Eligible
<1>6. ASSUME NEW q \in DOMAIN ist, q # r PROVE TxnKnows(q)'
  BY <1>1, <1>5, <1>6, OthersKeep
<1> QED
  BY <1>1, <1>2, <1>3, <1>4, <1>6 DEF IntakeInv

LEMMA RefuseStep ==
    ASSUME IntakeInv, NEW r \in DOMAIN ist, NEW reply, reply # "ok", Intake!Refuse(r, reply)
    PROVE  IntakeInv'
BY EndUnwritten DEF Intake!Refuse, Intake!others, Intake!tables

-----------------------------------------------------------------------------
LEMMA AskedWell ==
    ASSUME IntakeInv, NEW r \in DOMAIN ist
    PROVE  /\ Intake!ByScreening(r) <=> Asked(r).kind \in {"arrival", "review"}
           /\ Intake!ByScreening(r) => /\ Asked(r).scr \in DOMAIN IntakeScreenings
                                       /\ Intake!OfDecision(r) <=> ~Undecided(Asked(r).scr)
                                       /\ Intake!Screening(r) = IntakeScreenings[Asked(r).scr]
           /\ Intake!OfDecision(r) => /\ Intake!ByScreening(r)
                                      /\ Primary(r) = IntakeScreenings[Asked(r).scr].decision
           /\ Intake!Continuous(r) => Intake!ByScreening(r) /\ Undecided(Asked(r).scr)
           /\ Asked(r).kind = "workflow" \/ Intake!OfDecision(r) => Intake!Decs(r) = <<Primary(r)>>
           /\ Intake!ByScreening(r) /\ ~Intake!OfDecision(r) => Intake!Decs(r) = <<>>
           /\ Asked(r).action = "add_to_case_if_possible" => Asked(r).kind = "workflow"
<1>0. /\ r \in DOMAIN IntakeReq /\ IntakeAssumption
  BY IntakeAssumption DEF IntakeInv, IntakeShape
<1>1. Intake!ByScreening(r) <=> Asked(r).kind \in {"arrival", "review"}
  BY <1>0 DEF IntakeAssumption, Intake!ByScreening, Asked
<1>2. Intake!ByScreening(r) => Asked(r).scr \in DOMAIN IntakeScreenings /\ Intake!Screening(r) = IntakeScreenings[Asked(r).scr]
  BY <1>0 DEF IntakeAssumption, Intake!ByScreening, Intake!Screening, Asked
<1>3. Intake!OfDecision(r) => Intake!ByScreening(r)
  BY DEF Intake!OfDecision
<1>4. Intake!ByScreening(r) => (Intake!OfDecision(r) <=> ~Undecided(Asked(r).scr))
  BY <1>0, <1>2 DEF IntakeAssumption, Intake!OfDecision, Undecided
<1>5. Intake!OfDecision(r) => Intake!Decs(r) = <<IntakeScreenings[Asked(r).scr].decision>>
  BY <1>2, <1>3 DEF Intake!Decs
<1>6. Asked(r).kind = "workflow" => Intake!Decs(r) = <<Primary(r)>>
  BY <1>0, <1>1 DEF IntakeAssumption, Intake!Decs, Primary, Asked
<1>7. Intake!ByScreening(r) /\ ~Intake!OfDecision(r) => Intake!Decs(r) = <<>>
  BY DEF Intake!Decs
<1>8. Intake!Continuous(r) => Intake!ByScreening(r) /\ Undecided(Asked(r).scr)
  BY <1>0, <1>2 DEF IntakeAssumption, Intake!Continuous, Undecided
<1>9. Asked(r).action = "add_to_case_if_possible" => Asked(r).kind = "workflow"
  BY <1>0 DEF IntakeAssumption, Asked
<1> QED
  BY <1>1, <1>2, <1>3, <1>4, <1>5, <1>6, <1>7, <1>8, <1>9 DEF Primary

\* A receipt is of requests of one kind, and that of a review is its own.
LEMMA ReceiptsApart ==
    ASSUME NEW q \in DOMAIN IntakeReq, NEW r \in DOMAIN IntakeReq, Asked(q).receipt = Asked(r).receipt,
           Asked(r).receipt # None \/ Asked(r).kind \in {"review", "transfer"}
    PROVE  Asked(q).kind = Asked(r).kind /\ (Asked(r).kind = "review" => q = r)
<1>1. Asked(r).receipt # None
  BY IntakeAssumption DEF IntakeAssumption, Asked
<1> QED
  BY <1>1, IntakeAssumption DEF IntakeAssumption, Asked

\* What a request knew before its step.
LEMMA KnownBefore ==
    ASSUME IntakeInv, NEW r \in DOMAIN ist
    PROVE  /\ Shaped(ist[r]) /\ Stages(r) /\ ReceiptKept(r) /\ ScreeningKept(r) /\ PivotKept(r) /\ Adding(r)
           /\ Searched(r) /\ Answered(r)
BY DEF IntakeInv, IntakeShape, TxnKnows

LEMMA ReceiveStep == ASSUME IntakeInv, NEW r \in DOMAIN ist, Intake!Receive(r) PROVE IntakeInv'
<1> DEFINE found == {x \in receipts : x.id = IntakeReq[r].receipt}
           stage == CASE Intake!ByScreening(r) -> "screening"
                      [] IntakeReq[r].kind = "workflow" -> "inbox"
                      [] OTHER -> "create"
           s == [ist[r] EXCEPT !.todo = Intake!Decs(r), !.pc = stage]
<1>1. CASE \E x \in found : /\ IF x.body = IntakeReq[r].body THEN Intake!Ended(r, "ok", x.case)
                                                             ELSE Intake!Ended(r, "conflict", None)
                            /\ UNCHANGED <<Intake!others, Intake!tables, ifaults>>
  BY <1>1, EndUnwritten DEF Asked, Intake!others, Intake!tables
<1>2. CASE found = {} /\ Intake!Go(r, s, {Intake!ReceiptLock(r)})
  <2>2. /\ ist[r].pc = "new" /\ Asked(r).kind \in Receivable /\ (Asked(r).kind = "review" => r \in told)
        /\ Intake!Free(Intake!ReceiptLock(r), r)
    BY DEF Intake!Receive, Asked, Receivable
  <2>3. Shaped(s) /\ s.pc = stage /\ s.todo = Intake!Decs(r) /\ s.added = {} /\ s.made = FALSE /\ s.answer # "ok"
    <3>1. Shaped(ist[r]) /\ ist[r].added = {} /\ ist[r].made = FALSE /\ ist[r].answer # "ok"
      BY <2>2, KnownBefore DEF Stages, Underway, Answered
    <3> HIDE DEF stage
    <3> QED
      BY <3>1 DEF Shaped, TxnFields
  <2>4. /\ ist'[r] = s /\ HasLock(r, Intake!ReceiptLock(r))' /\ told' = told /\ Unreceived(r)'
    BY <1>2, GoFacts DEF Unreceived, Asked
  <2>5. TxnKnows(r)'
    <3>1. Stages(r)'
      BY <2>2, <2>3, <2>4, AskedWell DEF Stages, Underway, Receivable, Asked
    <3>2. ReceiptKept(r)'
      BY <2>4 DEF ReceiptKept
    <3>3. Answered(r)' /\ Searched(r)'
      BY <2>3, <2>4, AskedWell DEF Asked, Answered, Searched
    <3>4. ScreeningKept(r)' /\ PivotKept(r)' /\ Adding(r)'
      BY <2>2, <2>3, <2>4, AskedWell DEF ScreeningKept, PivotKept, Adding, Underway, Receivable, Asked
    <3> QED
      BY <3>1, <3>2, <3>3, <3>4 DEF TxnKnows
  <2> QED
    BY <1>2, <2>2, <2>3, <2>5, GoStep
<1> QED
  BY <1>1, <1>2 DEF Intake!Receive

\* A request that is under way goes on, with its receipt's lock.
LEMMA GoOn ==
    ASSUME IntakeInv, NEW r \in DOMAIN ist, Underway(r), NEW s, NEW xs, Intake!Go(r, s, xs),
           Shaped(s), s.pc \notin {"new", "done"}, s.answer = ist[r].answer,
           \A x \in xs : x[1] = "case" \/ Intake!Free(x, r),
           Stages(r)', ScreeningKept(r)', PivotKept(r)', Adding(r)', Searched(r)'
    PROVE  IntakeInv'
<1>1. ist'[r] = s /\ (\A x : HasLock(r, x) => HasLock(r, x)') /\ Unreceived(r)' = Unreceived(r)
  BY GoFacts
<1>2. ReceiptKept(r)'
  BY <1>1, KnownBefore DEF ReceiptKept, Underway, Intake!ReceiptLock
<1>3. Answered(r)'
  BY <1>1, KnownBefore DEF Answered, Underway
<1> QED
  BY <1>2, <1>3, GoStep DEF TxnKnows

LEMMA LockPivotOfActionStep == ASSUME IntakeInv, NEW r \in DOMAIN ist, Intake!LockPivotOfAction(r) PROVE IntakeInv'
<1>1. CASE Intake!Refuse(r, "invalid")
  BY <1>1, RefuseStep
<1>2. ASSUME NEW p \in {"owned", "create", "search"}, NEW c,
             p = "create" => Asked(r).action # "add_to_case_if_possible",
             Intake!Free(Intake!PivotLock(r), r),
             Intake!Go(r, [ist[r] EXCEPT !.pc = p, !.case = c], {Intake!PivotLock(r)})
      PROVE  IntakeInv'
  <2> DEFINE s == [ist[r] EXCEPT !.pc = p, !.case = c]
  <2>1. /\ ist[r].pc = "inbox" /\ Underway(r) /\ Asked(r).kind = "workflow" /\ ~Intake!ByScreening(r)
        /\ ist[r].added = {} /\ ist[r].made = FALSE /\ Shaped(ist[r])
    BY KnownBefore, AskedWell DEF Intake!LockPivotOfAction, Stages, Underway
  <2>2. Shaped(s) /\ s.pc = p /\ s.todo = ist[r].todo /\ s.added = {} /\ s.made = FALSE /\ s.answer = ist[r].answer
    BY <2>1 DEF Shaped, TxnFields
  <2>g. Intake!Go(r, s, {Intake!PivotLock(r)})
    BY <1>2
  <2> HIDE DEF s
  <2>3. /\ ist'[r] = s /\ HasLock(r, Intake!PivotLock(r))' /\ UNCHANGED <<told, cases>>
    BY <2>g, GoFacts
  <2>4. Stages(r)'
    BY <2>1, <2>2, <2>3, AskedWell DEF Stages, Underway
  <2>5. ScreeningKept(r)' /\ Searched(r)'
    BY <1>2, <2>1, <2>2, <2>3 DEF ScreeningKept, Searched
  <2>7. PivotKept(r)'
    BY <2>1, <2>2, <2>3, AskedWell DEF PivotKept, Intake!PivotLock
  <2>6. Adding(r)'
    BY <2>1, <2>2, <2>3, AskedWell, KnownBefore DEF Adding
  <2> QED
    BY <1>2, <2>g, <2>1, <2>2, <2>4, <2>5, <2>6, <2>7, GoOn
<1>3. ASSUME NEW p, NEW xs, Intake!Go(r, [ist[r] EXCEPT !.pc = p], xs)
      PROVE  Intake!Go(r, [ist[r] EXCEPT !.pc = p, !.case = ist[r].case], xs)
  BY <1>3, KnownBefore DEF Shaped, TxnFields
<1>4. CASE Intake!Free(Intake!PivotLock(r), r) /\ \E c \in Intake!Membership(r, Head(Intake!Decs(r))) :
             Intake!Go(r, [ist[r] EXCEPT !.pc = "owned", !.case = c], {Intake!PivotLock(r)})
  BY <1>2, <1>4
<1>5. CASE /\ Intake!Free(Intake!PivotLock(r), r)
           /\ Intake!Go(r, [ist[r] EXCEPT !.pc = IF IntakeReq[r].action = "create_case" THEN "create" ELSE "search"],
                        {Intake!PivotLock(r)})
  <2>1. CASE IntakeReq[r].action = "create_case"
    BY <1>2, <1>3, <1>5, <2>1 DEF Asked
  <2>2. CASE IntakeReq[r].action # "create_case"
    BY <1>2, <1>3, <1>5, <2>2
  <2> QED
    BY <2>1, <2>2
<1> QED
  BY <1>1, <1>4, <1>5 DEF Intake!LockPivotOfAction

LEMMA SearchStep == ASSUME IntakeInv, NEW r \in DOMAIN ist, Intake!Search(r) PROVE IntakeInv'
<1> DEFINE s == [ist[r] EXCEPT !.pc = "take", !.cand = Intake!FindOpenByPivot(r)]
<1>1. /\ ist[r].pc = "search" /\ Underway(r) /\ Asked(r).kind = "workflow" /\ ~Intake!ByScreening(r)
      /\ ist[r].added = {} /\ ist[r].made = FALSE /\ Shaped(ist[r])
      /\ Intake!Go(r, s, {})
  BY KnownBefore, AskedWell DEF Intake!Search, Stages, Underway
<1>2. /\ Shaped(s) /\ s.pc = "take" /\ s.todo = ist[r].todo /\ s.added = {} /\ s.made = FALSE
      /\ s.answer = ist[r].answer /\ s.cand = Intake!FindOpenByPivot(r)
  BY <1>1 DEF Shaped, TxnFields
<1>3. /\ ist'[r] = s /\ (\A x : HasLock(r, x) => HasLock(r, x)') /\ UNCHANGED <<told, cases, Reusable(r)>>
  BY <1>1, GoFacts
<1>4. Stages(r)'
  BY <1>1, <1>2, <1>3, AskedWell DEF Stages, Underway
<1>5. ScreeningKept(r)' /\ PivotKept(r)'
  BY <1>1, <1>2, <1>3, AskedWell, KnownBefore DEF ScreeningKept, PivotKept, Underway, Intake!PivotLock
<1>6. Adding(r)'
  <2>1. Intake!FindOpenByPivot(r) \subseteq DOMAIN cases
    BY DEF IntakeInv, TablesTrue, LinksTrue, Intake!FindOpenByPivot
  <2> QED
    BY <1>1, <1>2, <1>3, <2>1, AskedWell, KnownBefore DEF Adding
<1>7. Searched(r)'
  <2>1. Reusable(r) \subseteq Intake!FindOpenByPivot(r)
    BY DEF Reusable, Intake!FindOpenByPivot, Primary
  <2> QED
    BY <1>2, <1>3, <2>1 DEF Searched
<1> QED
  BY <1>1, <1>2, <1>4, <1>5, <1>6, <1>7, GoOn

LEMMA TakeStep == ASSUME IntakeInv, NEW r \in DOMAIN ist, Intake!Take(r) PROVE IntakeInv'
<1>1. /\ ist[r].pc = "take" /\ Underway(r) /\ Asked(r).kind = "workflow" /\ ~Intake!ByScreening(r)
      /\ ist[r].added = {} /\ ist[r].made = FALSE /\ Shaped(ist[r])
      /\ ist[r].cand \subseteq DOMAIN cases
  BY KnownBefore, AskedWell DEF Intake!Take, Stages, Underway, Adding
<1>2. ASSUME NEW s, NEW xs, Intake!Go(r, s, xs), \A x \in xs : x[1] = "case",
             Shaped(s), s.todo = ist[r].todo, s.added = {}, s.made = FALSE, s.answer = ist[r].answer,
             s.pc \in {"create", "member", "take"}, s.pc = "member" => s.case \in DOMAIN cases,
             s.pc = "take" => s.cand \subseteq DOMAIN cases /\ (Reusable(r) \subseteq ist[r].cand => Reusable(r) \subseteq s.cand),
             s.pc = "create" => ist[r].cand = {}
      PROVE  IntakeInv'
  <2>1. /\ ist'[r] = s /\ (\A x : HasLock(r, x) => HasLock(r, x)') /\ UNCHANGED <<told, cases, Reusable(r)>>
    BY <1>2, GoFacts
  <2>2. Stages(r)'
    BY <1>1, <1>2, <2>1, AskedWell DEF Stages, Underway
  <2>3. ScreeningKept(r)' /\ PivotKept(r)'
    BY <1>1, <1>2, <2>1, AskedWell, KnownBefore DEF ScreeningKept, PivotKept, Underway, Intake!PivotLock
  <2>4. Adding(r)'
    BY <1>1, <1>2, <2>1, AskedWell, KnownBefore DEF Adding
  <2>5. Searched(r)'
    BY <1>1, <1>2, <2>1, KnownBefore DEF Searched
  <2> QED
    BY <1>1, <1>2, <2>2, <2>3, <2>4, <2>5, GoOn
<1>3. CASE Intake!Refuse(r, "not_found")
  BY <1>3, RefuseStep
<1>4. CASE ist[r].cand = {} /\ Intake!Go(r, [ist[r] EXCEPT !.pc = "create"], {})
  BY <1>1, <1>2, <1>4 DEF Shaped, TxnFields
<1>5. ASSUME NEW c \in Intake!Newest(ist[r].cand),
             Intake!Go(r, IF Intake!Eligible(r, c) THEN [ist[r] EXCEPT !.pc = "member", !.case = c, !.cand = {}]
                          ELSE [ist[r] EXCEPT !.cand = @ \ {c}], {Intake!CaseLock(c)})
      PROVE  IntakeInv'
  <2>1. c \in ist[r].cand /\ \A x \in {Intake!CaseLock(c)} : x[1] = "case"
    BY DEF Intake!Newest, Intake!CaseLock
  <2>2. CASE Intake!Eligible(r, c)
    <3> DEFINE s == [ist[r] EXCEPT !.pc = "member", !.case = c, !.cand = {}]
    <3>1. /\ Shaped(s) /\ s.todo = ist[r].todo /\ s.added = {} /\ s.made = FALSE /\ s.answer = ist[r].answer
          /\ s.pc = "member" /\ s.case = c
      BY <1>1 DEF Shaped, TxnFields
    <3>2. Intake!Go(r, s, {Intake!CaseLock(c)})
      BY <1>5, <2>2
    <3> HIDE DEF s
    <3> QED
      BY <1>1, <1>2, <2>1, <3>1, <3>2
  <2>3. CASE ~Intake!Eligible(r, c)
    <3> DEFINE s == [ist[r] EXCEPT !.cand = @ \ {c}]
    <3>1. /\ Shaped(s) /\ s.todo = ist[r].todo /\ s.added = {} /\ s.made = FALSE /\ s.answer = ist[r].answer
          /\ s.pc = "take" /\ s.cand = ist[r].cand \ {c}
      BY <1>1 DEF Shaped, TxnFields
    <3>2. c \notin Reusable(r)
      BY <2>3 DEF Reusable
    <3>3. Intake!Go(r, s, {Intake!CaseLock(c)})
      BY <1>5, <2>3
    <3>4. s.cand \subseteq DOMAIN cases /\ (Reusable(r) \subseteq ist[r].cand => Reusable(r) \subseteq s.cand)
      BY <1>1, <3>1, <3>2
    <3> HIDE DEF s
    <3> QED
      BY <1>2, <2>1, <3>1, <3>3, <3>4
  <2> QED
    BY <2>2, <2>3
<1> QED
  BY <1>3, <1>4, <1>5 DEF Intake!Take

\* A screening goes on under its lock, that of a decision under the lock of the
\* decision's object before it opens a case.
LEMMA RouteGoes ==
    ASSUME IntakeInv, NEW r \in DOMAIN ist, Intake!ByScreening(r), ist[r].pc \in {"screening", "pivot"},
           NEW p \in {"create", "bind", "pivot"}, NEW c, NEW xs, xs \subseteq {Intake!ScreeningLock(r), Intake!PivotLock(r)},
           Intake!Go(r, [ist[r] EXCEPT !.pc = p, !.case = c], xs), \A x \in xs : Intake!Free(x, r),
           ist[r].pc = "screening" => Intake!ScreeningLock(r) \in xs,
           Intake!OfDecision(r) /\ p = "create" => Intake!PivotLock(r) \in xs,
           p = "pivot" => Intake!OfDecision(r),
           Undecided(Asked(r).scr) =>
             /\ p = "create" => Intake!CanonicalCase(Asked(r).scr) = {}
             /\ p = "bind" => Intake!CanonicalCase(Asked(r).scr) \subseteq {c}
    PROVE  IntakeInv'
<1> DEFINE s == [ist[r] EXCEPT !.pc = p, !.case = c]
<1>1. /\ Underway(r) /\ ist[r].added = {} /\ ist[r].made = FALSE /\ Shaped(ist[r])
      /\ Asked(r).kind \in {"arrival", "review"} /\ Asked(r).action # "add_to_case_if_possible"
  BY KnownBefore, AskedWell DEF Stages, Underway
<1>2. Shaped(s) /\ s.pc = p /\ s.todo = ist[r].todo /\ s.added = {} /\ s.made = FALSE /\ s.answer = ist[r].answer /\ s.case = c
  BY <1>1 DEF Shaped, TxnFields
<1>3. Intake!Go(r, s, xs)
  OBVIOUS
<1> HIDE DEF s
<1>4. /\ ist'[r] = s /\ (\A x \in xs : HasLock(r, x)') /\ (\A x : HasLock(r, x) => HasLock(r, x)')
      /\ UNCHANGED <<told, cases>> /\ \A z : Intake!CanonicalCase(z)' = Intake!CanonicalCase(z)
  BY <1>3, GoFacts
<1>5. Stages(r)'
  BY <1>1, <1>2, <1>4, AskedWell, KnownBefore DEF Stages, Underway
<1>6. ScreeningKept(r)'
  <2>1. HasLock(r, Intake!ScreeningLock(r))'
    BY <1>1, <1>4, KnownBefore DEF ScreeningKept, Intake!ScreeningLock
  <2> QED
    BY <1>2, <1>4, <2>1 DEF ScreeningKept, Intake!ScreeningLock
<1>7. PivotKept(r)'
  BY <1>1, <1>2, <1>4 DEF PivotKept, Intake!PivotLock
<1>8. Adding(r)' /\ Searched(r)'
  BY <1>1, <1>2, <1>4, KnownBefore DEF Adding, Searched
<1> QED
  BY <1>1, <1>2, <1>3, <1>5, <1>6, <1>7, <1>8, GoOn

LEMMA SameCase ==
    ASSUME IntakeInv, NEW r \in DOMAIN ist, NEW p
    PROVE  [ist[r] EXCEPT !.pc = p] = [ist[r] EXCEPT !.pc = p, !.case = ist[r].case]
BY KnownBefore DEF Shaped, TxnFields

LEMMA RouteContinuousStep == ASSUME IntakeInv, NEW r \in DOMAIN ist, Intake!RouteContinuous(r) PROVE IntakeInv'
<1> DEFINE found == Intake!CanonicalCase(Asked(r).scr)
<1>1. /\ ist[r].pc = "screening" /\ Intake!ByScreening(r) /\ Undecided(Asked(r).scr) /\ ~Intake!OfDecision(r)
      /\ Intake!Free(Intake!ScreeningLock(r), r)
      /\ \A c, d \in found : c = d
  <2>1. ist[r].pc = "screening" /\ Intake!Continuous(r) /\ Intake!Free(Intake!ScreeningLock(r), r)
    BY DEF Intake!RouteContinuous
  <2>2. Intake!ByScreening(r) /\ Undecided(Asked(r).scr) /\ ~Intake!OfDecision(r) /\ Asked(r).scr \in DOMAIN IntakeScreenings
    BY <2>1, AskedWell
  <2> QED
    BY <2>1, <2>2 DEF IntakeInv, TablesTrue, EvidenceTrue
<1>2. CASE Intake!Refuse(r, "invalid") \/ Intake!Refuse(r, "conflict")
  BY <1>2, RefuseStep
<1>3. CASE found = {} /\ Intake!Go(r, [ist[r] EXCEPT !.pc = "create"], {Intake!ScreeningLock(r)})
  <2>1. Intake!Go(r, [ist[r] EXCEPT !.pc = "create", !.case = ist[r].case], {Intake!ScreeningLock(r)})
    BY <1>3, SameCase
  <2> QED
    BY <1>1, <1>3, <2>1, RouteGoes
<1>4. CASE \E c \in found : Intake!Go(r, [ist[r] EXCEPT !.pc = "bind", !.case = c], {Intake!ScreeningLock(r)})
  <2>1. PICK c \in found : Intake!Go(r, [ist[r] EXCEPT !.pc = "bind", !.case = c], {Intake!ScreeningLock(r)})
    BY <1>4
  <2>2. Intake!CanonicalCase(Asked(r).scr) \subseteq {c}
    BY <1>1
  <2>3. /\ ist[r].pc \in {"screening", "pivot"} /\ Intake!ByScreening(r) /\ ~Intake!OfDecision(r)
        /\ Intake!Free(Intake!ScreeningLock(r), r)
    BY <1>1
  <2> DEFINE xs == {Intake!ScreeningLock(r)}
  <2>4. /\ xs \subseteq {Intake!ScreeningLock(r), Intake!PivotLock(r)} /\ Intake!ScreeningLock(r) \in xs
        /\ \A x \in xs : Intake!Free(x, r)
    BY <2>3
  <2>5. Intake!Go(r, [ist[r] EXCEPT !.pc = "bind", !.case = c], xs)
    BY <2>1
  <2> HIDE DEF xs
  <2> QED
    BY <2>2, <2>3, <2>4, <2>5, RouteGoes
<1> QED
  BY <1>2, <1>3, <1>4 DEF Intake!RouteContinuous, Asked

LEMMA RouteDecisionStep == ASSUME IntakeInv, NEW r \in DOMAIN ist, Intake!RouteDecision(r) PROVE IntakeInv'
<1>1. /\ ist[r].pc = "screening" /\ Intake!ByScreening(r) /\ ~Undecided(Asked(r).scr) /\ Intake!OfDecision(r)
      /\ Intake!Free(Intake!ScreeningLock(r), r)
  BY AskedWell DEF Intake!RouteDecision
<1>2. CASE Intake!Go(r, [ist[r] EXCEPT !.pc = "pivot"], {Intake!ScreeningLock(r)})
  <2>1. Intake!Go(r, [ist[r] EXCEPT !.pc = "pivot", !.case = ist[r].case], {Intake!ScreeningLock(r)})
    BY <1>2, SameCase
  <2> QED
    BY <1>1, <1>2, <2>1, RouteGoes
<1>3. CASE Intake!Refuse(r, "invalid")
  BY <1>3, RefuseStep
<1>4. CASE \E c \in Intake!Membership(r, Head(Intake!Decs(r))) :
             Intake!Go(r, [ist[r] EXCEPT !.pc = "bind", !.case = c], {Intake!ScreeningLock(r)})
  BY <1>1, <1>4, RouteGoes
<1> QED
  BY <1>2, <1>3, <1>4 DEF Intake!RouteDecision

LEMMA RouteOtherStep == ASSUME IntakeInv, NEW r \in DOMAIN ist, Intake!RouteOther(r) PROVE IntakeInv'
<1> DEFINE found == Intake!FindCase(IntakeReq[r].scr)
           canonical == Intake!CanonicalCase(Asked(r).scr)
<1>1. /\ ist[r].pc = "screening" /\ Intake!ByScreening(r) /\ Undecided(Asked(r).scr) /\ ~Intake!OfDecision(r)
      /\ Intake!Free(Intake!ScreeningLock(r), r) /\ found = canonical
      /\ \A c, d \in canonical : c = d
  <2>1. ist[r].pc = "screening" /\ Intake!ByScreening(r) /\ Intake!Free(Intake!ScreeningLock(r), r)
        /\ ~Intake!Continuous(r) /\ ~Intake!OfDecision(r)
    BY KnownBefore DEF Intake!RouteOther, Stages
  <2>2. Undecided(Asked(r).scr) /\ Asked(r).scr \in DOMAIN IntakeScreenings /\ ~IntakeScreenings[Asked(r).scr].continuous
    BY <2>1, AskedWell DEF Intake!Continuous
  <2>3. \A c, d \in canonical : c = d
    BY <2>2 DEF IntakeInv, TablesTrue, EvidenceTrue
  <2>4. canonical = {x.case : x \in {y \in evidence : y.scr = Asked(r).scr}}
    BY <2>2 DEF IntakeInv, TablesTrue, EvidenceTrue, Intake!CanonicalCase
  <2>5. \A S : (\A c, d \in S : c = d) => Intake!Newest(S) = S
    BY DEF Intake!Newest
  <2>6. found = canonical
    <3> DEFINE live == {c \in canonical : cases[c].status # "closed"}
    <3>1. found = Intake!Newest(IF live # {} THEN live ELSE canonical)
      BY <2>4 DEF Intake!FindCase, Asked
    <3>2. live # {} => live = canonical
      BY <2>3
    <3> QED
      BY <2>3, <2>5, <3>1, <3>2
  <2> QED
    BY <2>1, <2>2, <2>3, <2>6
<1>2. CASE Intake!Refuse(r, "not_found")
  BY <1>2, RefuseStep
<1>3. CASE found = {} /\ Intake!Go(r, [ist[r] EXCEPT !.pc = "create"], {Intake!ScreeningLock(r)})
  <2>1. Intake!Go(r, [ist[r] EXCEPT !.pc = "create", !.case = ist[r].case], {Intake!ScreeningLock(r)})
    BY <1>3, SameCase
  <2> QED
    BY <1>1, <1>3, <2>1, RouteGoes
<1>4. CASE \E c \in found : Intake!Go(r, [ist[r] EXCEPT !.pc = "bind", !.case = c], {Intake!ScreeningLock(r)})
  <2>1. PICK c \in found : Intake!Go(r, [ist[r] EXCEPT !.pc = "bind", !.case = c], {Intake!ScreeningLock(r)})
    BY <1>4
  <2>2. canonical \subseteq {c}
    BY <1>1
  <2> QED
    BY <1>1, <2>1, <2>2, RouteGoes
<1> QED
  BY <1>2, <1>3, <1>4 DEF Intake!RouteOther

LEMMA LockPivotOfScreeningStep == ASSUME IntakeInv, NEW r \in DOMAIN ist, Intake!LockPivotOfScreening(r) PROVE IntakeInv'
<1>1. /\ ist[r].pc = "pivot" /\ Intake!ByScreening(r) /\ ~Undecided(Asked(r).scr) /\ Intake!OfDecision(r)
      /\ Intake!Free(Intake!PivotLock(r), r)
  BY AskedWell, KnownBefore DEF Intake!LockPivotOfScreening, Stages
<1>2. CASE Intake!Go(r, [ist[r] EXCEPT !.pc = "create"], {Intake!PivotLock(r)})
  <2>1. Intake!Go(r, [ist[r] EXCEPT !.pc = "create", !.case = ist[r].case], {Intake!PivotLock(r)})
    BY <1>2, SameCase
  <2> QED
    BY <1>1, <1>2, <2>1, RouteGoes
<1>3. CASE \E c \in Intake!Membership(r, Head(Intake!Decs(r))) :
             Intake!Go(r, [ist[r] EXCEPT !.pc = "bind", !.case = c], {Intake!PivotLock(r)})
  BY <1>1, <1>3, RouteGoes
<1> QED
  BY <1>2, <1>3 DEF Intake!LockPivotOfScreening

LEMMA CreateCaseStep == ASSUME IntakeInv, NEW r \in DOMAIN ist, Intake!CreateCase(r) PROVE IntakeInv'
<1>1. CASE Intake!Refuse(r, "invalid")
  BY <1>1, RefuseStep
<1>2. ASSUME Intake!Go(r, [ist[r] EXCEPT !.pc = Intake!After(r, ist[r].todo), !.case = Intake!NewCase, !.made = TRUE],
                       {Intake!CaseLock(Intake!NewCase)})
      PROVE  IntakeInv'
  <2> DEFINE next == Intake!After(r, ist[r].todo)
             new == Intake!NewCase
             s == [ist[r] EXCEPT !.pc = next, !.case = new, !.made = TRUE]
  <2>1. /\ ist[r].pc = "create" /\ Underway(r) /\ ist[r].added = {} /\ Shaped(ist[r])
        /\ Asked(r).kind \notin {"transfer", "close"}
    BY KnownBefore DEF Intake!CreateCase, Stages, Underway
  <2>2. /\ next \in {"member", "bind", "finish"}
        /\ next = "bind" => Intake!ByScreening(r)
        /\ next = "finish" => ~Intake!ByScreening(r)
        /\ next = "member" => ist[r].todo # <<>>
    BY DEF Intake!After
  <2>3. Intake!Go(r, s, {Intake!CaseLock(new)}) /\ \A x \in {Intake!CaseLock(new)} : x[1] = "case"
    BY <1>2 DEF Intake!CaseLock
  <2> HIDE DEF next, new
  <2>4. /\ Shaped(s) /\ s.pc = next /\ s.todo = ist[r].todo /\ s.added = {} /\ s.made = TRUE
        /\ s.answer = ist[r].answer /\ s.case = new
    BY <2>1 DEF Shaped, TxnFields
  <2> HIDE DEF s
  <2>5. /\ ist'[r] = s /\ (\A x : HasLock(r, x) => HasLock(r, x)') /\ UNCHANGED <<told, cases, Reusable(r)>>
        /\ \A z : Intake!CanonicalCase(z)' = Intake!CanonicalCase(z)
    BY <2>3, GoFacts
  <2>6. Intake!ByScreening(r) /\ Undecided(Asked(r).scr) => next = "bind"
    <3>1. Intake!ByScreening(r) /\ Undecided(Asked(r).scr) => ist[r].todo = <<>>
      BY <2>1, AskedWell, KnownBefore DEF Adding, Automatic
    <3> QED
      BY <2>2, <3>1, AskedWell
  <2>7. Stages(r)'
    BY <2>1, <2>2, <2>4, <2>5, <2>6, AskedWell, KnownBefore DEF Stages, Underway
  <2>8. ScreeningKept(r)'
    BY <2>1, <2>2, <2>4, <2>5, <2>6, KnownBefore DEF ScreeningKept, Underway, Intake!ScreeningLock
  <2>9. PivotKept(r)'
    BY <2>1, <2>2, <2>4, <2>5, KnownBefore DEF PivotKept, Underway, Intake!PivotLock
  <2>10. Adding(r)'
    <3>1. Asked(r).kind \in Automatic => Intake!Decs(r) = <<Primary(r)>> \/ next = "bind"
      BY <2>6, AskedWell DEF Automatic
    <3> QED
      BY <2>1, <2>2, <2>4, <2>5, <3>1, KnownBefore DEF Adding
  <2>11. Searched(r)'
    BY <2>1, <2>2, <2>4, <2>5, KnownBefore DEF Searched
  <2> QED
    BY <2>1, <2>2, <2>3, <2>4, <2>7, <2>8, <2>9, <2>10, <2>11, GoOn
<1> QED
  BY <1>1, <1>2 DEF Intake!CreateCase

LEMMA AddDecisionStep == ASSUME IntakeInv, NEW r \in DOMAIN ist, Intake!AddDecision(r) PROVE IntakeInv'
<1>1. PICK c \in DOMAIN cases : Intake!Go(r, [ist[r] EXCEPT !.pc = "member", !.case = c, !.todo = Intake!Decs(r)], {})
  BY DEF Intake!AddDecision
<1> DEFINE s == [ist[r] EXCEPT !.pc = "member", !.case = c, !.todo = Intake!Decs(r)]
<1>2. /\ ist[r].pc = "new" /\ Asked(r).kind = "attach" /\ ist[r].added = {} /\ ist[r].made = FALSE /\ Shaped(ist[r])
      /\ ist[r].answer # "ok" /\ ~Intake!ByScreening(r) /\ ~Intake!OfDecision(r)
      /\ Asked(r).action # "add_to_case_if_possible"
  BY KnownBefore, AskedWell DEF Intake!AddDecision, Stages, Underway, Answered, Asked
<1>3. /\ Shaped(s) /\ s.pc = "member" /\ s.added = {} /\ s.made = FALSE /\ s.answer = ist[r].answer /\ s.case = c
  BY <1>2 DEF Shaped, TxnFields
<1>4. Intake!Go(r, s, {})
  BY <1>1
<1> HIDE DEF s
<1>5. ist'[r] = s /\ UNCHANGED <<told, cases>>
  BY <1>4, GoFacts
<1>6. Stages(r)' /\ ReceiptKept(r)'
  BY <1>2, <1>3, <1>5 DEF Stages, Underway, ReceiptKept, Receivable
<1>7. ScreeningKept(r)' /\ PivotKept(r)' /\ Adding(r)' /\ Searched(r)' /\ Answered(r)'
  BY <1>2, <1>3, <1>5 DEF ScreeningKept, PivotKept, Adding, Automatic, Searched, Answered
<1> QED
  BY <1>3, <1>4, <1>6, <1>7, GoStep DEF TxnKnows

\* What is left of the decisions of an automatic request after the first.
LEMMA AfterFirst ==
    ASSUME IntakeInv, NEW r \in DOMAIN ist, ist[r].pc \in {"member", "insert"}, NEW next, next = Intake!After(r, Tail(ist[r].todo))
    PROVE  /\ next \in {"member", "bind", "finish"}
           /\ next = "bind" => Intake!ByScreening(r)
           /\ next = "finish" => ~Intake!ByScreening(r)
           /\ Asked(r).kind \in Automatic => next \in {"bind", "finish"} /\ Head(ist[r].todo) = Primary(r)
<1>1. /\ next \in {"member", "bind", "finish"}
      /\ next = "bind" => Intake!ByScreening(r)
      /\ next = "finish" => ~Intake!ByScreening(r)
      /\ next = "member" => Tail(ist[r].todo) # <<>>
  BY DEF Intake!After
<1>2. Asked(r).kind \in Automatic => ist[r].todo = <<Primary(r)>>
  BY KnownBefore DEF Adding
<1>3. \A d : Tail(<<d>>) = <<>> /\ Head(<<d>>) = d
  OBVIOUS
<1> QED
  BY <1>1, <1>2, <1>3

LEMMA CheckMembershipStep == ASSUME IntakeInv, NEW r \in DOMAIN ist, Intake!CheckMembership(r) PROVE IntakeInv'
<1>1. /\ ist[r].pc = "member" /\ Underway(r) /\ Shaped(ist[r]) /\ Asked(r).kind \notin {"transfer", "close"}
      /\ ~(Intake!ByScreening(r) /\ Undecided(Asked(r).scr))
  BY KnownBefore DEF Intake!CheckMembership, Stages, Underway
<1>2. ASSUME NEW s, Intake!Go(r, s, {Intake!CaseLock(ist[r].case)}), Shaped(s), s.answer = ist[r].answer,
             s.pc \in {"member", "insert", "bind", "finish"}, s.case = ist[r].case, s.added = ist[r].added, s.made = ist[r].made,
             s.pc = "bind" => Intake!ByScreening(r), s.pc = "finish" => ~Intake!ByScreening(r),
             Asked(r).kind \in Automatic => s.pc # "member" /\ (s.pc = "insert" => s.todo = ist[r].todo)
      PROVE  IntakeInv'
  <2>1. /\ ist'[r] = s /\ (\A x : HasLock(r, x) => HasLock(r, x)') /\ UNCHANGED <<told, cases, links, Reusable(r)>>
    BY <1>2, GoFacts
  <2>2. Stages(r)'
    BY <1>1, <1>2, <2>1, KnownBefore DEF Stages, Underway
  <2>3. ScreeningKept(r)'
    BY <1>1, <1>2, <2>1, KnownBefore DEF ScreeningKept, Underway, Intake!ScreeningLock
  <2>4. PivotKept(r)'
    BY <1>1, <1>2, <2>1, KnownBefore DEF PivotKept, Underway, Intake!PivotLock
  <2>5. Adding(r)'
    <3>1. \A d \in s.added : HasLock(r, Intake!LinkLock(d))' /\ \A l \in links' : l.dec # d
      BY <1>2, <2>1, KnownBefore DEF Adding, Intake!LinkLock
    <3> QED
      BY <1>1, <1>2, <2>1, <3>1, KnownBefore DEF Adding
  <2>6. Searched(r)'
    BY <1>1, <1>2, <2>1, KnownBefore DEF Searched
  <2>7. \A x \in {Intake!CaseLock(ist[r].case)} : x[1] = "case"
    BY DEF Intake!CaseLock
  <2> QED
    BY <1>1, <1>2, <2>2, <2>3, <2>4, <2>5, <2>6, <2>7, GoOn
<1>3. CASE Intake!Refuse(r, "invalid") \/ Intake!Refuse(r, "conflict")
  BY <1>3, RefuseStep
<1>4. CASE Intake!Go(r, [ist[r] EXCEPT !.pc = "insert"], {Intake!CaseLock(ist[r].case)})
  <2> DEFINE s == [ist[r] EXCEPT !.pc = "insert"]
  <2>1. /\ Shaped(s) /\ s.pc = "insert" /\ s.todo = ist[r].todo /\ s.added = ist[r].added /\ s.made = ist[r].made
        /\ s.answer = ist[r].answer /\ s.case = ist[r].case
    BY <1>1 DEF Shaped, TxnFields
  <2>2. Intake!Go(r, s, {Intake!CaseLock(ist[r].case)})
    BY <1>4
  <2> HIDE DEF s
  <2> QED
    BY <1>2, <2>1, <2>2
<1>5. CASE Intake!Go(r, [ist[r] EXCEPT !.pc = Intake!After(r, Tail(ist[r].todo)), !.todo = Tail(ist[r].todo)],
                     {Intake!CaseLock(ist[r].case)})
  <2> DEFINE next == Intake!After(r, Tail(ist[r].todo))
             rest == Tail(ist[r].todo)
             s == [ist[r] EXCEPT !.pc = next, !.todo = rest]
  <2>1. /\ next \in {"member", "bind", "finish"}
        /\ next = "bind" => Intake!ByScreening(r)
        /\ next = "finish" => ~Intake!ByScreening(r)
        /\ Asked(r).kind \in Automatic => next \in {"bind", "finish"}
    BY <1>1, AfterFirst
  <2>2. Intake!Go(r, s, {Intake!CaseLock(ist[r].case)})
    BY <1>5
  <2> HIDE DEF next, rest
  <2>3. /\ Shaped(s) /\ s.pc = next /\ s.added = ist[r].added /\ s.made = ist[r].made
        /\ s.answer = ist[r].answer /\ s.case = ist[r].case
    BY <1>1 DEF Shaped, TxnFields
  <2> HIDE DEF s
  <2> QED
    BY <1>2, <2>1, <2>2, <2>3
<1> QED
  BY <1>3, <1>4, <1>5 DEF Intake!CheckMembership

LEMMA InsertLinkStep == ASSUME IntakeInv, NEW r \in DOMAIN ist, Intake!InsertLink(r) PROVE IntakeInv'
<1>d. PICK d : d = Head(ist[r].todo)
  OBVIOUS
<1> DEFINE next == Intake!After(r, Tail(ist[r].todo))
           rest == Tail(ist[r].todo)
           s == [ist[r] EXCEPT !.pc = next, !.todo = rest, !.added = @ \cup {d}]
<1>1. /\ ist[r].pc = "insert" /\ Underway(r) /\ Shaped(ist[r]) /\ Asked(r).kind \notin {"transfer", "close"}
      /\ ~(Intake!ByScreening(r) /\ Undecided(Asked(r).scr))
      /\ Intake!Free(Intake!LinkLock(d), r)
  BY <1>d, KnownBefore DEF Intake!InsertLink, Stages, Underway
<1>2. CASE Intake!Refuse(r, "conflict")
  BY <1>2, RefuseStep
<1>3. CASE Intake!Membership(r, d) = {} /\ Intake!Go(r, s, {Intake!LinkLock(d)})
  <2>1. /\ next \in {"member", "bind", "finish"}
        /\ next = "bind" => Intake!ByScreening(r)
        /\ next = "finish" => ~Intake!ByScreening(r)
        /\ Asked(r).kind \in Automatic => next \in {"bind", "finish"} /\ d = Primary(r)
    BY <1>1, <1>d, AfterFirst
  <2>2. \A l \in links : l.dec # d
    BY <1>3 DEF Intake!Membership
  <2>3. Intake!Go(r, s, {Intake!LinkLock(d)})
    BY <1>3
  <2> HIDE DEF next, rest
  <2>4. /\ Shaped(s) /\ s.pc = next /\ s.added = ist[r].added \cup {d} /\ s.made = ist[r].made
        /\ s.answer = ist[r].answer /\ s.case = ist[r].case
    BY <1>1 DEF Shaped, TxnFields
  <2> HIDE DEF s
  <2>5. /\ ist'[r] = s /\ (\A x : HasLock(r, x) => HasLock(r, x)') /\ HasLock(r, Intake!LinkLock(d))'
        /\ UNCHANGED <<told, cases, links, Reusable(r)>>
    BY <2>3, GoFacts
  <2>6. Stages(r)'
    BY <1>1, <2>1, <2>4, <2>5, KnownBefore DEF Stages, Underway
  <2>7. ScreeningKept(r)'
    BY <1>1, <2>1, <2>4, <2>5, KnownBefore DEF ScreeningKept, Underway, Intake!ScreeningLock
  <2>8. PivotKept(r)'
    BY <1>1, <2>1, <2>4, <2>5, KnownBefore DEF PivotKept, Underway, Intake!PivotLock
  <2>9. Adding(r)'
    <3>1. \A e \in s.added : HasLock(r, Intake!LinkLock(e))' /\ \A l \in links' : l.dec # e
      BY <2>2, <2>4, <2>5, KnownBefore DEF Adding, Intake!LinkLock
    <3> QED
      BY <1>1, <2>1, <2>4, <2>5, <3>1, KnownBefore DEF Adding
  <2>10. Searched(r)'
    BY <1>1, <2>1, <2>4, <2>5, KnownBefore DEF Searched
  <2> QED
    BY <1>1, <2>1, <2>3, <2>4, <2>6, <2>7, <2>8, <2>9, <2>10, GoOn
<1> QED
  BY <1>d, <1>2, <1>3 DEF Intake!InsertLink

LEMMA LockOperationStep == ASSUME IntakeInv, NEW r \in DOMAIN ist, Intake!LockOperation(r) PROVE IntakeInv'
<1>1. PICK to, from : /\ to \in DOMAIN cases
                      /\ Intake!Go(r, [ist[r] EXCEPT !.pc = "first", !.from = from, !.to = to, !.case = to],
                                   {Intake!ReceiptLock(r)})
  BY DEF Intake!LockOperation
<1> DEFINE s == [ist[r] EXCEPT !.pc = "first", !.from = from, !.to = to, !.case = to]
<1>2. /\ ist[r].pc = "new" /\ Asked(r).kind = "transfer" /\ ist[r].added = {} /\ ist[r].made = FALSE /\ Shaped(ist[r])
      /\ ist[r].answer # "ok" /\ ~Intake!ByScreening(r) /\ ~Intake!OfDecision(r)
      /\ Asked(r).action # "add_to_case_if_possible"
      /\ Intake!Free(Intake!ReceiptLock(r), r)
  BY KnownBefore, AskedWell DEF Intake!LockOperation, Stages, Underway, Answered, Asked
<1>3. /\ Shaped(s) /\ s.pc = "first" /\ s.added = {} /\ s.made = FALSE /\ s.answer = ist[r].answer /\ s.to = to
  BY <1>2 DEF Shaped, TxnFields
<1>4. Intake!Go(r, s, {Intake!ReceiptLock(r)})
  BY <1>1
<1> HIDE DEF s
<1>5. ist'[r] = s /\ UNCHANGED <<told, cases>> /\ HasLock(r, Intake!ReceiptLock(r))'
  BY <1>4, GoFacts
<1>6. Stages(r)' /\ Adding(r)' /\ Searched(r)' /\ Answered(r)'
  <2>1. Stages(r)'
    BY <1>1, <1>2, <1>3, <1>5 DEF Stages, Underway
  <2>2. Adding(r)'
    BY <1>2, <1>3, <1>5 DEF Adding, Automatic
  <2> QED
    BY <1>2, <1>3, <1>5, <2>1, <2>2 DEF Searched, Answered
<1>7. ReceiptKept(r)' /\ ScreeningKept(r)' /\ PivotKept(r)'
  BY <1>2, <1>3, <1>5 DEF ReceiptKept, Receivable, ScreeningKept, PivotKept, Intake!ReceiptLock
<1> QED
  BY <1>2, <1>3, <1>4, <1>6, <1>7, GoStep DEF TxnKnows

LEMMA LockFirstStep == ASSUME IntakeInv, NEW r \in DOMAIN ist, Intake!LockFirst(r) PROVE IntakeInv'
<1> DEFINE s == [ist[r] EXCEPT !.pc = "second"]
<1>1. PICK c : Intake!Go(r, s, {Intake!CaseLock(c)})
  BY DEF Intake!LockFirst
<1>2. /\ ist[r].pc = "first" /\ Underway(r) /\ Asked(r).kind = "transfer" /\ ist[r].added = {} /\ ist[r].made = FALSE
      /\ Shaped(ist[r]) /\ ~Intake!ByScreening(r) /\ ~Intake!OfDecision(r)
      /\ Asked(r).action # "add_to_case_if_possible"
  BY KnownBefore, AskedWell DEF Intake!LockFirst, Stages, Underway
<1>3. Shaped(s) /\ s.pc = "second" /\ s.added = {} /\ s.made = FALSE /\ s.answer = ist[r].answer /\ s.to = ist[r].to
  BY <1>2 DEF Shaped, TxnFields
<1> HIDE DEF s
<1>4. ist'[r] = s /\ UNCHANGED <<told, cases>> /\ \A x \in {Intake!CaseLock(c)} : x[1] = "case"
  BY <1>1, GoFacts DEF Intake!CaseLock
<1>5. Stages(r)' /\ Adding(r)' /\ Searched(r)'
  BY <1>2, <1>3, <1>4, KnownBefore DEF Stages, Underway, Adding, Automatic, Searched
<1>6. ScreeningKept(r)' /\ PivotKept(r)'
  BY <1>2, <1>3, <1>4 DEF ScreeningKept, PivotKept
<1> QED
  BY <1>1, <1>2, <1>3, <1>4, <1>5, <1>6, GoOn

-----------------------------------------------------------------------------
LEMMA FailStep == ASSUME IntakeInv, NEW r \in DOMAIN ist, Intake!Fail(r) \/ Intake!DeadlockAbort(r) PROVE IntakeInv'
<1>1. CASE Intake!Fail(r)
  BY <1>1, EndUnwritten DEF Intake!Fail, Intake!others, Intake!tables
<1>2. CASE Intake!DeadlockAbort(r)
  BY <1>2, RefuseStep DEF Intake!DeadlockAbort
<1> QED
  BY <1>1, <1>2

LEMMA AgainStep == ASSUME IntakeInv, NEW r \in DOMAIN ist, Intake!Again(r) PROVE IntakeInv'
<1>1. /\ ist[r].pc = "done" /\ ist[r].added = {} /\ ist[r].made = FALSE /\ Shaped(ist[r])
      /\ ist' = [ist EXCEPT ![r] = [@ EXCEPT !.pc = "new", !.case = None, !.answer = None]]
      /\ UNCHANGED <<iheld, cases, links, routes, evidence, receipts, history, match, told>>
  BY KnownBefore DEF Intake!Again, Intake!tables, Stages
<1>2. /\ ist'[r] = [ist[r] EXCEPT !.pc = "new", !.case = None, !.answer = None] /\ DOMAIN ist' = DOMAIN ist
      /\ \A q \in DOMAIN ist \ {r} : ist'[q] = ist[q]
      /\ ist' = [q \in DOMAIN ist' |-> ist'[q]]
  BY <1>1 DEF IntakeInv, IntakeShape
<1>3. Shaped(ist'[r]) /\ ist'[r].pc = "new" /\ ist'[r].added = {} /\ ist'[r].made = FALSE /\ ist'[r].answer # "ok"
  BY <1>1, <1>2, IntakeAssumption DEF Shaped, TxnFields, IntakeAssumption
<1>4. IntakeShape'
  BY <1>1, <1>2, <1>3 DEF IntakeInv, IntakeShape
<1>5. TablesTrue' /\ LocksExclusive'
  BY <1>1, TablesStay DEF IntakeInv, LocksExclusive
<1>6. TxnKnows(r)'
  <2>1. Stages(r)' /\ ReceiptKept(r)' /\ ScreeningKept(r)' /\ PivotKept(r)' /\ Searched(r)' /\ Answered(r)'
    BY <1>3 DEF Stages, Underway, ReceiptKept, ScreeningKept, PivotKept, Searched, Answered
  <2>2. Adding(r)'
    BY <1>3 DEF Adding
  <2> QED
    BY <2>1, <2>2 DEF TxnKnows
<1>7. /\ \A q : Reusable(q)' = Reusable(q)
      /\ \A c : Intake!CanonicalCase(c)' = Intake!CanonicalCase(c)
  BY <1>1 DEF Reusable, Intake!CanonicalCase, Intake!Eligible
<1>8. ASSUME NEW q \in DOMAIN ist, q # r PROVE TxnKnows(q)'
  BY <1>1, <1>2, <1>7, <1>8, OthersKeep
<1> QED
  BY <1>2, <1>4, <1>5, <1>6, <1>8 DEF IntakeInv

\* The owner's review of a match: the event of the review is not received yet.
LEMMA OwnerReviewStep == ASSUME IntakeInv, NEW r \in DOMAIN ist, Intake!OwnerReview(r) PROVE IntakeInv'
<1>1. /\ Asked(r).kind = "review" /\ r \notin told
      /\ match' = [match EXCEPT ![Asked(r).scr] = Asked(r).status] /\ told' = told \cup {r}
      /\ UNCHANGED <<ist, iheld, cases, links, routes, evidence, receipts, history>>
  BY DEF Intake!OwnerReview, Intake!tables, Asked
<1>2. Unreceived(r)
  <2> SUFFICES ASSUME NEW x \in receipts, x.id = Asked(r).receipt PROVE FALSE
    BY DEF Unreceived
  <2>1. /\ x.by \in DOMAIN IntakeReq /\ x.id = Asked(x.by).receipt /\ x.id # None
        /\ Asked(x.by).kind = "review" => x.by \in told
    BY DEF IntakeInv, TablesTrue, ReceiptsTrue
  <2>2. r \in DOMAIN IntakeReq
    BY DEF IntakeInv, IntakeShape
  <2>3. x.by = r
    BY <1>1, <2>1, <2>2, ReceiptsApart
  <2> QED
    BY <1>1, <2>1, <2>3
<1>3. IntakeShape' /\ LocksExclusive'
  BY <1>1 DEF IntakeInv, IntakeShape, LocksExclusive
<1>4. ReceiptsTrue' /\ LinksTrue' /\ EvidenceTrue' /\ HistoryTrue'
  <2>1. r \in DOMAIN IntakeReq
    BY DEF IntakeInv, IntakeShape
  <2>2. ReceiptsTrue /\ LinksTrue /\ EvidenceTrue /\ HistoryTrue
    BY DEF IntakeInv, TablesTrue
  <2>3. ReceiptsTrue'
    BY <1>1, <2>1, <2>2 DEF ReceiptsTrue
  <2>4. LinksTrue' /\ HistoryTrue'
    BY <1>1, <2>2 DEF LinksTrue, HistoryTrue, Intake!CanonicalCase
  <2>5. EvidenceTrue'
    BY <1>1, <2>2 DEF EvidenceTrue, Intake!CanonicalCase
  <2> QED
    BY <2>3, <2>4, <2>5
<1>5. EvidenceShown'
  <2> SUFFICES ASSUME NEW e \in evidence
               PROVE  e.status = match'[e.scr] \/ \E q \in told' : Asked(q).scr = e.scr /\ Unreceived(q)'
    BY <1>1 DEF EvidenceShown
  <2>1. CASE e.scr = Asked(r).scr
    BY <1>1, <1>2, <2>1 DEF Unreceived
  <2>2. CASE e.scr # Asked(r).scr
    <3>1. match'[e.scr] = match[e.scr]
      BY <1>1, <2>2 DEF IntakeInv, IntakeShape
    <3>2. e.status = match[e.scr] \/ \E q \in told : Asked(q).scr = e.scr /\ Unreceived(q)
      BY DEF IntakeInv, TablesTrue, EvidenceShown
    <3> QED
      BY <1>1, <3>1, <3>2 DEF Unreceived
  <2> QED
    BY <2>1, <2>2
<1>6. ASSUME NEW q \in DOMAIN ist PROVE TxnKnows(q)'
  <2>1. TxnKnows(q)
    BY DEF IntakeInv
  <2>2. Stages(q)' /\ ReceiptKept(q)' /\ ScreeningKept(q)'
    BY <1>1, <2>1 DEF TxnKnows, Stages, Underway, ReceiptKept, ScreeningKept, HasLock, Unreceived,
                      Intake!ReceiptLock, Intake!ScreeningLock, Intake!CanonicalCase
  <2>3. PivotKept(q)' /\ Adding(q)'
    BY <1>1, <2>1 DEF TxnKnows, PivotKept, Adding, Underway, HasLock, Intake!PivotLock, Intake!LinkLock
  <2>4. Searched(q)' /\ Answered(q)'
    BY <1>1, <2>1 DEF TxnKnows, Searched, Answered, Reusable, Intake!Eligible
  <2> QED
    BY <2>2, <2>3, <2>4 DEF TxnKnows
<1> QED
  BY <1>1, <1>3, <1>4, <1>5, <1>6 DEF IntakeInv, TablesTrue

-----------------------------------------------------------------------------
\* Events that are not in the history come to it once each.
LEMMA HistoryGrows ==
    ASSUME history = [e \in DOMAIN history |-> 1], NEW S, \A e \in S : e \notin DOMAIN history,
           history' = Intake!(+)(history, Intake!SetToBag(S))
    PROVE  DOMAIN history' = DOMAIN history \cup S /\ history' = [e \in DOMAIN history' |-> 1]
BY DEF Intake!SetToBag, Intake!(+)

\* A case that is closed can be reused no more.
LEMMA CloseCaseStep == ASSUME IntakeInv, NEW r \in DOMAIN ist, Intake!CloseCase(r) PROVE IntakeInv'
<1>1. PICK c \in DOMAIN cases : cases' = [cases EXCEPT ![c].status = "closed"] /\ Intake!Ended(r, "ok", c)
  BY DEF Intake!CloseCase
<1>2. /\ UNCHANGED <<icast, match, told, repeats, links, routes, evidence, receipts, history, ifaults>>
      /\ Asked(r).kind = "close"
  BY DEF Intake!CloseCase, Intake!others, Asked
<1>3. /\ ist'[r].pc = "done" /\ ist'[r].added = {} /\ ist'[r].made = FALSE /\ ist'[r].answer = "ok"
      /\ ist'[r].case = c /\ Shaped(ist'[r])
      /\ DOMAIN ist' = DOMAIN ist /\ \A q \in DOMAIN ist \ {r} : ist'[q] = ist[q]
      /\ ist' = [q \in DOMAIN ist' |-> ist'[q]]
      /\ LocksExclusive' /\ \A h \in iheld : h[2] # r => h \in iheld'
  BY <1>1, EndFacts
<1>4. /\ cases' = [x \in DOMAIN cases' |-> cases'[x]] /\ DOMAIN cases' = DOMAIN cases
      /\ \A x \in DOMAIN cases : /\ cases'[x] = [f \in {"inbox", "type", "status", "by"} |-> cases'[x][f]]
                                 /\ cases'[x].inbox = cases[x].inbox
                                 /\ cases'[x].status # "closed" => cases[x].status # "closed"
  <2>1. /\ cases = [x \in DOMAIN cases |-> cases[x]]
        /\ \A x \in DOMAIN cases : cases[x] = [f \in {"inbox", "type", "status", "by"} |-> cases[x][f]]
    BY DEF IntakeInv, IntakeShape
  <2>2. /\ cases' = [x \in DOMAIN cases' |-> cases'[x]] /\ DOMAIN cases' = DOMAIN cases
        /\ \A x \in DOMAIN cases : x # c => cases'[x] = cases[x]
        /\ cases'[c] = [cases[c] EXCEPT !.status = "closed"]
    BY <1>1, <2>1
  <2>3. /\ cases'[c] = [f \in {"inbox", "type", "status", "by"} |-> cases'[c][f]]
        /\ cases'[c].inbox = cases[c].inbox /\ cases'[c].status = "closed"
    BY <2>1, <2>2
  <2> QED
    BY <2>1, <2>2, <2>3
<1>5. IntakeShape'
  BY <1>2, <1>3, <1>4 DEF IntakeInv, IntakeShape
<1>6. TablesTrue'
  <2>1. LinksTrue'
    BY <1>2, <1>4 DEF IntakeInv, TablesTrue, LinksTrue
  <2> QED
    BY <1>2, <2>1 DEF IntakeInv, TablesTrue, ReceiptsTrue, EvidenceTrue, EvidenceShown, HistoryTrue,
                      Intake!CanonicalCase, Unreceived
<1>7. TxnKnows(r)'
  <2>1. Asked(r).receipt = None
    BY <1>2, IntakeAssumption DEF IntakeAssumption, IntakeInv, IntakeShape, Asked
  <2> QED
    BY <1>3, <2>1, DoneKnows DEF Answered
<1>8. \A q : Reusable(q)' \subseteq Reusable(q)
  BY <1>2, <1>4 DEF Reusable, Intake!Eligible, IntakeInv, TablesTrue, LinksTrue
<1>9. ASSUME NEW q \in DOMAIN ist, q # r PROVE TxnKnows(q)'
  <2>1. \A s : Intake!CanonicalCase(s)' = Intake!CanonicalCase(s)
    BY <1>2 DEF Intake!CanonicalCase
  <2> QED
    BY <1>2, <1>3, <1>4, <1>8, <1>9, <2>1, OthersKeep
<1> QED
  BY <1>3, <1>5, <1>6, <1>7, <1>9 DEF IntakeInv

-----------------------------------------------------------------------------
\* Events of which the history has none of their kind and subject.
NewEvents(E) ==
    \A e \in E :
        /\ e.kind # "decision_added"
        /\ \A f \in DOMAIN history : ~(e.kind = f.kind /\ e.what = f.what)
        /\ \A f \in E : e.kind = f.kind /\ e.what = f.what => e = f
AddedLinks(r) == {[dec |-> d, case |-> ist[r].case, by |-> r] : d \in ist[r].added}
CommitStages == {"finish", "owned", "bind"}

\* What a commit writes.
LEMMA CommitFacts ==
    ASSUME IntakeInv, NEW r \in DOMAIN ist, ist[r].pc \in CommitStages, NEW reply, NEW E, NewEvents(E),
           Intake!Commit(r, reply, E)
    PROVE  /\ links' = links \cup AddedLinks(r)
           /\ \A c \in DOMAIN cases : c \in DOMAIN cases' /\ cases'[c] = cases[c]
           /\ ist[r].added # {} => ist[r].case \in DOMAIN cases'
           /\ receipts \subseteq receipts'
           /\ \A x \in receipts' \ receipts :
                /\ x.id = Asked(r).receipt /\ x.id # None /\ x.by = r /\ x.case = ist[r].case
           /\ Asked(r).receipt # None => \E x \in receipts' : x.id = Asked(r).receipt /\ x.case = ist[r].case
           /\ DOMAIN history' = DOMAIN history \cup E \cup {Intake!Event("decision_added", d, ist[r].case) : d \in ist[r].added}
           /\ history' = [e \in DOMAIN history' |-> 1]
           /\ cases' = [c \in DOMAIN cases' |-> cases'[c]]
           /\ \A c \in DOMAIN cases' : cases'[c] = [f \in {"inbox", "type", "status", "by"} |-> cases'[c][f]]
           /\ UNCHANGED <<icast, match, told, repeats>>
<1>1. links' = links \cup AddedLinks(r)
  BY DEF Intake!Commit, AddedLinks
<1>2. /\ \A c \in DOMAIN cases : c \in DOMAIN cases' /\ cases'[c] = cases[c]
      /\ ist[r].made => ist[r].case \in DOMAIN cases'
      /\ cases' = [c \in DOMAIN cases' |-> cases'[c]]
      /\ \A c \in DOMAIN cases' : cases'[c] = [f \in {"inbox", "type", "status", "by"} |-> cases'[c][f]]
  <2>1. CASE ist[r].made
    BY <2>1 DEF Intake!Commit, IntakeInv, IntakeShape
  <2>2. CASE ~ist[r].made
    BY <2>2 DEF Intake!Commit, IntakeInv, IntakeShape
  <2> QED
    BY <2>1, <2>2
<1>3. ist[r].added # {} => ist[r].case \in DOMAIN cases'
  BY <1>2, KnownBefore DEF Adding
<1>4. /\ receipts \subseteq receipts'
      /\ \A x \in receipts' \ receipts : x.id = Asked(r).receipt /\ x.id # None /\ x.by = r /\ x.case = ist[r].case
      /\ Asked(r).receipt # None => \E x \in receipts' : x.id = Asked(r).receipt /\ x.case = ist[r].case
  <2> DEFINE new == [id |-> Asked(r).receipt, body |-> Asked(r).body, case |-> ist[r].case, by |-> r]
  <2>1. receipts' = IF Asked(r).receipt = None THEN receipts ELSE receipts \cup {new}
    BY DEF Intake!Commit, Asked
  <2>2. new.id = Asked(r).receipt /\ new.by = r /\ new.case = ist[r].case
    OBVIOUS
  <2> HIDE DEF new
  <2> QED
    BY <2>1, <2>2
<1>5. /\ DOMAIN history' = DOMAIN history \cup E \cup {Intake!Event("decision_added", d, ist[r].case) : d \in ist[r].added}
      /\ history' = [e \in DOMAIN history' |-> 1]
  <2> DEFINE S == E \cup {Intake!Event("decision_added", d, ist[r].case) : d \in ist[r].added}
  <2>1. history' = Intake!(+)(history, Intake!SetToBag(S))
    BY DEF Intake!Commit
  <2>2. history = [e \in DOMAIN history |-> 1]
    BY DEF IntakeInv, IntakeShape
  <2>3. \A e \in E : e \notin DOMAIN history
    BY DEF NewEvents
  <2>4. ASSUME NEW d \in ist[r].added PROVE Intake!Event("decision_added", d, ist[r].case) \notin DOMAIN history
    <3> DEFINE e == Intake!Event("decision_added", d, ist[r].case)
    <3>1. e.kind = "decision_added" /\ e.what = d
      BY DEF Intake!Event
    <3>2. \A l \in links : l.dec # d
      BY KnownBefore DEF Adding
    <3> HIDE DEF e
    <3>3. e \notin DOMAIN history
      BY <3>1, <3>2 DEF IntakeInv, TablesTrue, HistoryTrue
    <3> QED
      BY <3>3 DEF e
  <2>5. \A e \in S : e \notin DOMAIN history
    BY <2>3, <2>4
  <2>6. DOMAIN history' = DOMAIN history \cup S /\ history' = [e \in DOMAIN history' |-> 1]
    <3> HIDE DEF S
    <3> QED
      BY <2>1, <2>2, <2>5, HistoryGrows
  <2> QED
    BY <2>6
<1>6. UNCHANGED <<icast, match, told, repeats>>
  BY DEF Intake!Commit, Intake!others
<1> QED
  BY <1>1, <1>2, <1>3, <1>4, <1>5, <1>6

\* A request that commits has its receipt to write, which nobody has written.
LEMMA Receiving ==
    ASSUME IntakeInv, NEW r \in DOMAIN ist, ist[r].pc \in CommitStages
    PROVE  /\ Underway(r) /\ r \in DOMAIN IntakeReq /\ Asked(r).kind \notin {"transfer", "close"}
           /\ Asked(r).receipt # None => Unreceived(r) /\ HasLock(r, Intake!ReceiptLock(r))
           /\ Asked(r).kind = "review" => r \in told /\ Intake!ByScreening(r)
<1>1. Underway(r) /\ r \in DOMAIN IntakeReq /\ Asked(r).kind \notin {"transfer", "close"}
  BY KnownBefore DEF CommitStages, Underway, Stages, IntakeInv, IntakeShape
<1>2. Asked(r).receipt # None => Asked(r).kind \in Receivable
  BY <1>1, IntakeAssumption DEF IntakeAssumption, Asked, Receivable
<1>3. Asked(r).receipt # None => Unreceived(r) /\ HasLock(r, Intake!ReceiptLock(r))
  BY <1>1, <1>2, KnownBefore DEF ReceiptKept
<1>4. Asked(r).kind = "review" => r \in told /\ Intake!ByScreening(r)
  BY <1>1, AskedWell, KnownBefore DEF Stages
<1> QED
  BY <1>1, <1>3, <1>4

LEMMA CommitReceiptsLinks ==
    ASSUME IntakeInv, NEW r \in DOMAIN ist, ist[r].pc \in CommitStages, NEW reply, NEW E, NewEvents(E),
           Intake!Commit(r, reply, E)
    PROVE  ReceiptsTrue' /\ LinksTrue'
<1>1. /\ links' = links \cup AddedLinks(r)
      /\ \A c \in DOMAIN cases : c \in DOMAIN cases'
      /\ ist[r].added # {} => ist[r].case \in DOMAIN cases'
      /\ receipts \subseteq receipts'
      /\ \A x \in receipts' \ receipts : x.id = Asked(r).receipt /\ x.id # None /\ x.by = r /\ x.case = ist[r].case
      /\ UNCHANGED told
  BY CommitFacts
<1>2. ReceiptsTrue'
  <2>0. ReceiptsTrue
    BY DEF IntakeInv, TablesTrue
  <2>1. /\ r \in DOMAIN IntakeReq /\ Asked(r).kind # "transfer"
        /\ Asked(r).receipt # None => Unreceived(r)
        /\ Asked(r).kind = "review" => r \in told
    BY Receiving
  <2>2. ASSUME NEW x \in receipts', NEW y \in receipts', x.id = y.id PROVE x = y
    <3>1. CASE x \in receipts /\ y \in receipts
      BY <2>0, <2>2, <3>1 DEF ReceiptsTrue
    <3>2. CASE x \notin receipts /\ y \in receipts
      BY <1>1, <2>1, <2>2, <3>2 DEF Unreceived
    <3>3. CASE x \in receipts /\ y \notin receipts
      BY <1>1, <2>1, <2>2, <3>3 DEF Unreceived
    <3>4. CASE x \notin receipts /\ y \notin receipts
      BY <2>2, <3>4 DEF Intake!Commit
    <3> QED
      BY <3>1, <3>2, <3>3, <3>4
  <2>3. ASSUME NEW x \in receipts'
        PROVE  /\ x.by \in DOMAIN IntakeReq /\ x.id = Asked(x.by).receipt /\ x.id # None
               /\ Asked(x.by).kind = "transfer" => x.body[2] = x.case
               /\ Asked(x.by).kind = "review" => x.by \in told'
    <3>1. CASE x \in receipts
      BY <1>1, <2>0, <3>1 DEF ReceiptsTrue
    <3>2. CASE x \notin receipts
      BY <1>1, <2>1, <3>2
    <3> QED
      BY <3>1, <3>2
  <2> QED
    BY <1>1, <2>0, <2>2, <2>3 DEF ReceiptsTrue
<1>3. LinksTrue'
  <2>0. LinksTrue /\ \A d \in ist[r].added : \A l \in links : l.dec # d
    BY KnownBefore DEF IntakeInv, TablesTrue, Adding
  <2>1. \A l \in AddedLinks(r) : l.dec \in ist[r].added /\ l.case = ist[r].case
    BY DEF AddedLinks
  <2> QED
    BY <1>1, <2>0, <2>1 DEF LinksTrue
<1> QED
  BY <1>2, <1>3

\* The events of a commit are told of, and told of nowhere else.
LEMMA CommitHistory ==
    ASSUME IntakeInv, NEW r \in DOMAIN ist, ist[r].pc \in CommitStages, NEW reply, NEW E, NewEvents(E),
           Intake!Commit(r, reply, E),
           routes \subseteq routes', \A e \in evidence : \E f \in evidence' : f.scr = e.scr,
           \A e \in E : \/ /\ e.kind = "screening_added"
                           /\ IF IntakeScreenings[e.what].continuous THEN \E x \in routes' : x.scr = e.what
                              ELSE Intake!CanonicalCase(e.what)' # {}
                        \/ e.kind = "reviewed" /\ e.what = Asked(r).receipt /\ Asked(r).receipt # None
    PROVE  HistoryTrue'
<1> DEFINE A == {Intake!Event("decision_added", d, ist[r].case) : d \in ist[r].added}
<1>1. /\ links' = links \cup AddedLinks(r)
      /\ receipts \subseteq receipts'
      /\ Asked(r).receipt # None => \E x \in receipts' : x.id = Asked(r).receipt
      /\ DOMAIN history' = DOMAIN history \cup E \cup A
  BY CommitFacts
<1>2. HistoryTrue /\ \A d \in ist[r].added : \A l \in links : l.dec # d
  BY KnownBefore DEF IntakeInv, TablesTrue, Adding
<1>3. \A e \in A : /\ e.kind = "decision_added" /\ e.what \in ist[r].added
                   /\ \A f \in A : e.what = f.what => e = f
                   /\ \E l \in links' : l.dec = e.what
  <2>1. \A e \in A : e.kind = "decision_added" /\ e.what \in ist[r].added
    BY DEF Intake!Event
  <2>2. \A e, f \in A : e.what = f.what => e = f
    BY DEF Intake!Event
  <2>3. ASSUME NEW d \in ist[r].added PROVE \E l \in links' : l.dec = d
    <3>1. [dec |-> d, case |-> ist[r].case, by |-> r] \in links'
      BY <1>1 DEF AddedLinks
    <3> QED
      BY <3>1
  <2> HIDE DEF A
  <2> QED
    BY <2>1, <2>2, <2>3
<1> HIDE DEF A
<1>4. \A e \in A, f \in DOMAIN history : ~(e.kind = f.kind /\ e.what = f.what)
  BY <1>2, <1>3 DEF HistoryTrue
<1>5. \A e, f \in DOMAIN history' : e.kind = f.kind /\ e.what = f.what => e = f
  BY <1>1, <1>2, <1>3, <1>4 DEF HistoryTrue, NewEvents
<1>6. ASSUME NEW s, Intake!CanonicalCase(s) # {} PROVE Intake!CanonicalCase(s)' # {}
  BY <1>6 DEF Intake!CanonicalCase
<1>7. ASSUME NEW e \in DOMAIN history'
      PROVE  \/ e.kind = "decision_added" /\ \E l \in links' : l.dec = e.what
             \/ /\ e.kind = "screening_added"
                /\ IF IntakeScreenings[e.what].continuous THEN \E x \in routes' : x.scr = e.what
                   ELSE Intake!CanonicalCase(e.what)' # {}
             \/ e.kind \in {"reviewed", "transferred_out", "transferred_in"} /\ \E x \in receipts' : x.id = e.what
  <2>1. CASE e \in DOMAIN history
    BY <1>1, <1>2, <1>6, <2>1 DEF HistoryTrue
  <2>2. CASE e \in E
    BY <1>1, <2>2
  <2>3. CASE e \in A
    BY <1>3, <2>3
  <2> QED
    BY <1>1, <2>1, <2>2, <2>3
<1> QED
  BY <1>5, <1>7 DEF HistoryTrue

\* What evidence shows may be stale only until the event of a review is received.
LEMMA CommitShown ==
    ASSUME IntakeInv, NEW r \in DOMAIN ist, ist[r].pc \in CommitStages, NEW reply, NEW E, NewEvents(E),
           Intake!Commit(r, reply, E),
           \A e \in evidence' : \/ e.status = match[e.scr]
                                \/ e \in evidence /\ ~(Asked(r).kind = "review" /\ e.scr = Asked(r).scr)
    PROVE  EvidenceShown'
<1>1. /\ \A x \in receipts' \ receipts : x.id = Asked(r).receipt /\ x.id # None
      /\ UNCHANGED <<match, told>>
  BY CommitFacts
<1> SUFFICES ASSUME NEW e \in evidence', e.status # match[e.scr]
             PROVE  \E q \in told : Asked(q).scr = e.scr /\ Unreceived(q)'
  BY <1>1 DEF EvidenceShown
<1>2. PICK q \in told : Asked(q).scr = e.scr /\ Unreceived(q)
  BY DEF IntakeInv, TablesTrue, EvidenceShown
<1>3. q \in DOMAIN IntakeReq /\ Asked(q).kind = "review" /\ r \in DOMAIN IntakeReq
  BY Receiving DEF IntakeInv, TablesTrue, ReceiptsTrue
<1>4. ASSUME NEW x \in receipts', x.id = Asked(q).receipt PROVE FALSE
  <2>1. x.id = Asked(r).receipt /\ x.id # None
    BY <1>1, <1>2, <1>4 DEF Unreceived
  <2>2. r = q
    BY <1>3, <1>4, <2>1, ReceiptsApart
  <2> QED
    BY <1>2, <1>3, <2>2
<1> QED
  BY <1>2, <1>4 DEF Unreceived

\* Another request misses no case that a commit makes reusable: the two would
\* hold the lock of one object.
LEMMA CommitReusable ==
    ASSUME IntakeInv, NEW r \in DOMAIN ist, ist[r].pc \in CommitStages, NEW reply, NEW E, NewEvents(E),
           Intake!Commit(r, reply, E), NEW q
    PROVE  Reusable(q)' \subseteq Reusable(q) \/ HasLock(r, Intake!PivotLock(q))
<1>1. /\ links' = links \cup AddedLinks(r)
      /\ \A c \in DOMAIN cases : cases'[c] = cases[c]
  BY CommitFacts
<1> SUFFICES ASSUME NEW c \in Reusable(q)', c \notin Reusable(q) PROVE HasLock(r, Intake!PivotLock(q))
  OBVIOUS
<1>2. PICK l \in links' : /\ l.case = c /\ l.by # None /\ Asked(l.by).kind \in Automatic
                          /\ IntakeObjects[l.dec] = IntakeObjects[Primary(q)] /\ Intake!Eligible(q, c)'
  BY DEF Reusable
<1>3. ASSUME l \in links PROVE FALSE
  <2>1. c \in DOMAIN cases
    BY <1>2, <1>3 DEF IntakeInv, TablesTrue, LinksTrue
  <2>2. Intake!Eligible(q, c)
    BY <1>1, <1>2, <2>1 DEF Intake!Eligible
  <2> QED
    BY <1>2, <1>3, <2>2 DEF Reusable
<1>4. l \in AddedLinks(r) /\ l.by = r /\ l.dec \in ist[r].added
  BY <1>1, <1>3 DEF AddedLinks
<1>5. l.dec = Primary(r) /\ ist[r].added # {} /\ Asked(r).kind \in Automatic
  BY <1>2, <1>4, KnownBefore DEF Adding
<1>6. HasLock(r, Intake!PivotLock(r))
  <2>1. Underway(r)
    BY Receiving
  <2>2. CASE Asked(r).kind = "workflow"
    BY <2>1, <2>2, KnownBefore DEF PivotKept, CommitStages
  <2>3. CASE Asked(r).kind # "workflow"
    <3>1. Intake!ByScreening(r) /\ (Intake!OfDecision(r) <=> ~Undecided(Asked(r).scr))
      BY <1>5, <2>3, AskedWell DEF Automatic
    <3>2. Intake!OfDecision(r)
      BY <1>5, <3>1, KnownBefore DEF Stages
    <3> QED
      BY <1>5, <2>1, <3>2, KnownBefore DEF PivotKept
  <2> QED
    BY <2>2, <2>3
<1> QED
  BY <1>2, <1>5, <1>6 DEF Intake!PivotLock, Primary

LEMMA CommitStep ==
    ASSUME IntakeInv, NEW r \in DOMAIN ist, ist[r].pc \in CommitStages, NEW reply, NEW E, NewEvents(E),
           Intake!Commit(r, reply, E),
           routes \subseteq routes', \A e \in evidence : \E f \in evidence' : f.scr = e.scr,
           \A s \in DOMAIN IntakeScreenings : Undecided(s) =>
               Intake!CanonicalCase(s)' = Intake!CanonicalCase(s) \/ HasLock(r, <<"screening", s>>),
           \A e \in evidence' : e = [f \in {"scr", "case", "status"} |-> e[f]] /\ e.scr \in DOMAIN IntakeScreenings,
           \A e \in evidence' : \/ e.status = match[e.scr]
                                \/ e \in evidence /\ ~(Asked(r).kind = "review" /\ e.scr = Asked(r).scr),
           EvidenceTrue',
           \A e \in E : \/ /\ e.kind = "screening_added"
                           /\ IF IntakeScreenings[e.what].continuous THEN \E x \in routes' : x.scr = e.what
                              ELSE Intake!CanonicalCase(e.what)' # {}
                        \/ e.kind = "reviewed" /\ e.what = Asked(r).receipt /\ Asked(r).receipt # None
    PROVE  IntakeInv'
<1>1. Intake!Ended(r, reply, ist[r].case)
  BY DEF Intake!Commit
<1>2. /\ ist'[r].pc = "done" /\ ist'[r].added = {} /\ ist'[r].made = FALSE /\ ist'[r].answer = reply
      /\ ist'[r].case = ist[r].case /\ Shaped(ist'[r])
      /\ DOMAIN ist' = DOMAIN ist /\ \A q \in DOMAIN ist \ {r} : ist'[q] = ist[q]
      /\ ist' = [q \in DOMAIN ist' |-> ist'[q]]
      /\ LocksExclusive' /\ \A h \in iheld : h[2] # r => h \in iheld'
  BY <1>1, EndFacts
<1>3. /\ links' = links \cup AddedLinks(r)
      /\ DOMAIN cases \subseteq DOMAIN cases'
      /\ receipts \subseteq receipts'
      /\ \A x \in receipts' \ receipts : x.id = Asked(r).receipt /\ x.id # None
      /\ Asked(r).receipt # None => \E x \in receipts' : x.id = Asked(r).receipt /\ x.case = ist[r].case
      /\ history' = [e \in DOMAIN history' |-> 1]
      /\ cases' = [c \in DOMAIN cases' |-> cases'[c]]
      /\ \A c \in DOMAIN cases' : cases'[c] = [f \in {"inbox", "type", "status", "by"} |-> cases'[c][f]]
      /\ UNCHANGED <<match, told>>
  BY CommitFacts
<1>4. IntakeShape'
  BY <1>2, <1>3 DEF IntakeInv, IntakeShape
<1>5. TablesTrue'
  <2>1. ReceiptsTrue' /\ LinksTrue'
    BY CommitReceiptsLinks
  <2>2. HistoryTrue'
    BY CommitHistory
  <2>3. EvidenceShown'
    BY CommitShown
  <2> QED
    BY <2>1, <2>2, <2>3 DEF TablesTrue
<1>6. TxnKnows(r)'
  <2>1. Answered(r)'
    BY <1>2, <1>3 DEF Answered
  <2> QED
    BY <1>2, <2>1, DoneKnows
<1>7. ASSUME NEW q \in DOMAIN ist, q # r PROVE TxnKnows(q)'
  <2>1. \A x \in receipts' \ receipts : x.id = Asked(r).receipt /\ HasLock(r, Intake!ReceiptLock(r))
    BY <1>3, Receiving
  <2>2. \A l \in links' : (\E k0 \in links : k0.dec = l.dec) \/ HasLock(r, Intake!LinkLock(l.dec))
    BY <1>3, KnownBefore DEF Adding, AddedLinks
  <2>3. Reusable(q)' \subseteq Reusable(q) \/ HasLock(r, Intake!PivotLock(q))
    BY CommitReusable
  <2> QED
    BY <1>2, <1>3, <1>7, <2>1, <2>2, <2>3, OthersKeep
<1> QED
  BY <1>2, <1>4, <1>5, <1>6, <1>7 DEF IntakeInv

LEMMA CommitRequestStep ==
    ASSUME IntakeInv, NEW r \in DOMAIN ist, NEW reply, Intake!Finish(r, reply) \/ Intake!KeepOwned(r, reply)
    PROVE  IntakeInv'
<1>1. /\ ist[r].pc \in CommitStages /\ ~Intake!ByScreening(r)
      /\ Intake!Commit(r, reply, {}) /\ UNCHANGED <<routes, evidence>>
  BY KnownBefore, AskedWell DEF Intake!Finish, Intake!KeepOwned, CommitStages, Stages
<1>2. NewEvents({})
  BY DEF NewEvents
<1>3. UNCHANGED match /\ links \subseteq links'
  BY <1>1, <1>2, CommitFacts
<1>4. EvidenceTrue'
  BY <1>1, <1>3 DEF IntakeInv, TablesTrue, EvidenceTrue, Intake!CanonicalCase
<1>5. \A s : Intake!CanonicalCase(s)' = Intake!CanonicalCase(s)
  BY <1>1 DEF Intake!CanonicalCase
<1>6. Asked(r).kind # "review"
  BY <1>1, AskedWell
<1>7. \A e \in evidence : e = [f \in {"scr", "case", "status"} |-> e[f]] /\ e.scr \in DOMAIN IntakeScreenings
  BY DEF IntakeInv, IntakeShape
<1> QED
  BY <1>1, <1>4, <1>5, <1>2, <1>6, <1>7, CommitStep

-----------------------------------------------------------------------------
\* The evidence of a screening that a transaction has locked is in the case that
\* it binds the screening to, or nowhere yet.
LEMMA BoundHere ==
    ASSUME IntakeInv, NEW r \in DOMAIN ist, ist[r].pc = "bind", Intake!StillThere(r)
    PROVE  \A e \in evidence : e.scr = Asked(r).scr => e.case = ist[r].case
<1>1. Underway(r) /\ Intake!ByScreening(r)
  BY KnownBefore DEF Stages, Underway
<1>2. CASE Undecided(Asked(r).scr)
  BY <1>1, <1>2, KnownBefore DEF ScreeningKept, Intake!CanonicalCase
<1>3. CASE ~Undecided(Asked(r).scr)
  <2>1. Intake!OfDecision(r) /\ Primary(r) = IntakeScreenings[Asked(r).scr].decision
    BY <1>1, <1>3, AskedWell
  <2>2. Intake!Membership(r, Primary(r)) = {ist[r].case}
    BY <2>1 DEF Intake!StillThere, Primary
  <2>3. \A l \in links : l.dec = Primary(r) => l.case = ist[r].case
    BY <2>2 DEF Intake!Membership
  <2> QED
    BY <1>3, <2>1, <2>3 DEF IntakeInv, TablesTrue, EvidenceTrue
<1> QED
  BY <1>2, <1>3

LEMMA BindStep ==
    ASSUME IntakeInv, NEW r \in DOMAIN ist, NEW reply, Intake!Bind(r, reply)
    PROVE  IntakeInv'
<1>1. CASE ~Intake!StillThere(r)
  BY <1>1, RefuseStep DEF Intake!Bind
<1>2. CASE Intake!StillThere(r)
  <2>c. PICK c : c = ist[r].case
    OBVIOUS
  <2>s. PICK s : s = Asked(r).scr
    OBVIOUS
  <2>n. PICK new : new = IF Intake!Continuous(r) THEN \A x \in routes : x.scr # s
                         ELSE Intake!Published(r) /\ Intake!CanonicalCase(s) = {}
    OBVIOUS
  <2>E. PICK E : E = (IF new THEN {Intake!Event("screening_added", s, c)} ELSE {})
                      \cup (IF Asked(r).kind = "review" THEN {Intake!Event("reviewed", Asked(r).receipt, c)} ELSE {})
    OBVIOUS
  <2> DEFINE shown == [scr |-> s, case |-> c, status |-> match[s]]
             route == [scr |-> s, case |-> c]
  <2>1. /\ ist[r].pc = "bind"
        /\ routes' = IF Intake!Continuous(r) /\ new THEN routes \cup {route} ELSE routes
        /\ evidence' = {e \in evidence : <<e.scr, e.case>> # <<s, c>>} \cup {shown}
        /\ Intake!Commit(r, reply, E)
    BY <1>2, <2>c, <2>s, <2>n, <2>E DEF Intake!Bind, Intake!Shown, Asked
  <2>2. /\ ist[r].pc \in CommitStages /\ Underway(r) /\ Intake!ByScreening(r)
        /\ HasLock(r, <<"screening", s>>) /\ s \in DOMAIN IntakeScreenings
        /\ Intake!Continuous(r) <=> IntakeScreenings[s].continuous
        /\ Intake!OfDecision(r) <=> ~Undecided(s)
        /\ Asked(r).kind = "review" => Asked(r).receipt # None
    <3>1. Underway(r) /\ Intake!ByScreening(r)
      BY <2>1, KnownBefore DEF Stages, Underway
    <3>2. Asked(r).kind = "review" => Asked(r).receipt # None
      BY IntakeAssumption DEF IntakeAssumption, IntakeInv, IntakeShape, Asked
    <3>3. Intake!ScreeningLock(r) = <<"screening", s>>
      BY <2>s DEF Intake!ScreeningLock, Asked
    <3>4. HasLock(r, <<"screening", s>>)
      BY <2>1, <3>1, <3>3, KnownBefore DEF ScreeningKept
    <3>5. Intake!Continuous(r) <=> IntakeScreenings[s].continuous
      BY <2>s, <3>1, AskedWell DEF Intake!Continuous
    <3> QED
      BY <2>1, <2>s, <3>1, <3>2, <3>4, <3>5, AskedWell DEF CommitStages
  <2>3. \A e \in evidence : e.scr = s => e.case = c
    BY <1>2, <2>1, <2>c, <2>s, BoundHere
  <2>4. shown.scr = s /\ shown.case = c /\ shown.status = match[s] /\ route.scr = s /\ route.case = c
    OBVIOUS
  <2> HIDE DEF shown, route
  <2>5. /\ routes \subseteq routes' /\ \A x \in routes' : x \in routes \/ (x = route /\ Intake!Continuous(r))
        /\ shown \in evidence'
        /\ \A e \in evidence' : e = shown \/ (e \in evidence /\ e.scr # s)
        /\ \A e \in evidence : e.scr # s => e \in evidence'
    BY <2>1, <2>3
  <2>6. NewEvents(E)
    <3>1. new => \A f \in DOMAIN history : ~(f.kind = "screening_added" /\ f.what = s)
      BY <2>2, <2>n DEF IntakeInv, TablesTrue, HistoryTrue
    <3>2. Asked(r).kind = "review" => \A f \in DOMAIN history : ~(f.kind = "reviewed" /\ f.what = Asked(r).receipt)
      BY <2>2, Receiving DEF IntakeInv, TablesTrue, HistoryTrue, Unreceived
    <3>3. \A e \in E : \/ e.kind = "screening_added" /\ e.what = s /\ e = Intake!Event("screening_added", s, c) /\ new
                       \/ /\ e.kind = "reviewed" /\ e.what = Asked(r).receipt /\ Asked(r).kind = "review"
                          /\ e = Intake!Event("reviewed", Asked(r).receipt, c)
      BY <2>E DEF Intake!Event
    <3> QED
      BY <3>1, <3>2, <3>3 DEF NewEvents
  <2>7. /\ links \subseteq links' /\ \A d \in ist[r].added : \E l \in links' : l.dec = d /\ l.case = c
        /\ UNCHANGED match
    <3>1. links' = links \cup AddedLinks(r) /\ UNCHANGED match
      BY <2>1, <2>2, <2>6, CommitFacts
    <3>2. ASSUME NEW d \in ist[r].added PROVE \E l \in AddedLinks(r) : l.dec = d /\ l.case = c
      <4>1. [dec |-> d, case |-> ist[r].case, by |-> r] \in AddedLinks(r)
        BY DEF AddedLinks
      <4> QED
        BY <2>c, <4>1
    <3> QED
      BY <3>1, <3>2
  <2>8. \A x : x # s => Intake!CanonicalCase(x)' = Intake!CanonicalCase(x)
    BY <2>4, <2>5 DEF Intake!CanonicalCase
  <2>9. Intake!CanonicalCase(s)' \subseteq Intake!CanonicalCase(s) \cup {c} /\ c \in Intake!CanonicalCase(s)'
    BY <2>4, <2>5 DEF Intake!CanonicalCase
  <2>10. EvidenceTrue'
    <3>0. EvidenceTrue
      BY DEF IntakeInv, TablesTrue
    <3>1. ASSUME NEW e \in evidence', ~Undecided(e.scr)
          PROVE  \E l \in links' : l.dec = IntakeScreenings[e.scr].decision /\ l.case = e.case
      <4>1. CASE e \in evidence
        BY <2>7, <3>0, <3>1, <4>1 DEF EvidenceTrue
      <4>2. CASE e = shown
        <5>1. Intake!OfDecision(r) /\ Primary(r) = IntakeScreenings[s].decision
          BY <2>2, <2>4, <2>s, <3>1, <4>2, AskedWell
        <5>2. Intake!Membership(r, Primary(r)) = {c}
          BY <1>2, <2>c, <5>1 DEF Intake!StillThere, Primary
        <5>3. (\E l \in links : l.dec = Primary(r) /\ l.case = c) \/ Primary(r) \in ist[r].added
          BY <5>2 DEF Intake!Membership
        <5> QED
          BY <2>4, <2>7, <4>2, <5>1, <5>3
      <4> QED
        BY <2>5, <4>1, <4>2
    <3>2. ASSUME NEW x \in DOMAIN IntakeScreenings, Undecided(x)
          PROVE  \A c1, c2 \in Intake!CanonicalCase(x)' : c1 = c2
      <4>1. CASE x # s
        BY <2>8, <3>0, <3>2, <4>1 DEF EvidenceTrue
      <4>2. CASE x = s
        <5>1. Intake!CanonicalCase(s) \subseteq {c}
          BY <2>1, <2>2, <2>c, <2>s, <3>2, <4>2, KnownBefore DEF ScreeningKept
        <5> QED
          BY <2>9, <4>2, <5>1
      <4> QED
        BY <4>1, <4>2
    <3>3. \A x \in routes' : x.scr \in DOMAIN IntakeScreenings /\ IntakeScreenings[x.scr].continuous
      BY <2>2, <2>4, <2>5, <3>0 DEF EvidenceTrue
    <3> QED
      BY <3>1, <3>2, <3>3 DEF EvidenceTrue
  <2>11. \A e \in E : \/ /\ e.kind = "screening_added"
                         /\ IF IntakeScreenings[e.what].continuous THEN \E x \in routes' : x.scr = e.what
                            ELSE Intake!CanonicalCase(e.what)' # {}
                      \/ e.kind = "reviewed" /\ e.what = Asked(r).receipt /\ Asked(r).receipt # None
    <3>1. new /\ IntakeScreenings[s].continuous => route \in routes'
      BY <2>1, <2>2
    <3>2. \A e \in E : \/ e.kind = "screening_added" /\ e.what = s /\ new
                       \/ e.kind = "reviewed" /\ e.what = Asked(r).receipt /\ Asked(r).kind = "review"
      BY <2>E DEF Intake!Event
    <3> QED
      BY <2>2, <2>4, <2>9, <3>1, <3>2
  <2>12. /\ \A e \in evidence : \E f \in evidence' : f.scr = e.scr
         /\ \A e \in evidence' : e.status = match[e.scr] \/ (e \in evidence /\ ~(Asked(r).kind = "review" /\ e.scr = Asked(r).scr))
         /\ \A e \in evidence' : e = [f \in {"scr", "case", "status"} |-> e[f]] /\ e.scr \in DOMAIN IntakeScreenings
    <3>1. shown = [f \in {"scr", "case", "status"} |-> shown[f]]
      BY DEF shown
    <3> QED
      BY <2>2, <2>4, <2>5, <2>s, <3>1 DEF IntakeInv, IntakeShape
  <2>13. \A x \in DOMAIN IntakeScreenings : Undecided(x) =>
            Intake!CanonicalCase(x)' = Intake!CanonicalCase(x) \/ HasLock(r, <<"screening", x>>)
    BY <2>2, <2>8
  <2> QED
    BY <2>1, <2>2, <2>5, <2>6, <2>10, <2>11, <2>12, <2>13, CommitStep
<1> QED
  BY <1>1, <1>2

-----------------------------------------------------------------------------
\* A transfer moves the link of its decision and all evidence of the decision's
\* screenings, which is where the link is.
LEMMA TransferStep ==
    ASSUME IntakeInv, NEW r \in DOMAIN ist, NEW reply, ist[r].pc = "second", Unreceived(r),
           Intake!Membership(r, Head(Intake!Decs(r))) = {ist[r].from}, Intake!Transfer(r, reply)
    PROVE  IntakeInv'
<1>f. PICK from : from = ist[r].from
  OBVIOUS
<1>t. PICK to : to = ist[r].to
  OBVIOUS
<1>d. PICK d : d = Head(Intake!Decs(r))
  OBVIOUS
<1>i. PICK id : id = Asked(r).receipt
  OBVIOUS
<1> DEFINE moving == {e \in evidence : e.case = from /\ IntakeScreenings[e.scr].decision = d}
           link == [dec |-> d, case |-> to, by |-> r]
           receipt == [id |-> id, body |-> <<from, to>>, case |-> to, by |-> r]
           out == Intake!Event("transferred_out", id, from)
           in == Intake!Event("transferred_in", id, to)
           told2 == {out, in}
           Moved(e) == [e EXCEPT !.case = to]
<1>1. CASE \E e \in moving, f \in evidence : f.scr = e.scr /\ f.case = to
  <2>1. Intake!Refuse(r, "error")
    BY <1>1, <1>f, <1>t, <1>d DEF Intake!Transfer
  <2> QED
    BY <2>1, RefuseStep
<1>2. CASE ~\E e \in moving, f \in evidence : f.scr = e.scr /\ f.case = to
  <2>1. /\ links' = {l \in links : l.dec # d} \cup {link}
        /\ evidence' = (evidence \ moving) \cup {Moved(e) : e \in moving}
        /\ receipts' = receipts \cup {receipt}
        /\ history' = Intake!(+)(history, Intake!SetToBag({out, in}))
        /\ Intake!Ended(r, reply, to)
        /\ UNCHANGED <<icast, match, told, repeats, cases, routes>>
    BY <1>2, <1>f, <1>t, <1>d, <1>i DEF Intake!Transfer, Intake!others, Asked
  <2>2. /\ Underway(r) /\ Asked(r).kind = "transfer" /\ to \in DOMAIN cases /\ ist[r].added = {}
        /\ HasLock(r, Intake!ReceiptLock(r)) /\ id # None /\ d # None /\ r \in DOMAIN IntakeReq
        /\ ~Intake!ByScreening(r)
    <3>1. /\ Underway(r) /\ Asked(r).kind = "transfer" /\ to \in DOMAIN cases /\ ist[r].added = {}
      BY <1>t, KnownBefore DEF Stages, Underway
    <3>3. HasLock(r, Intake!ReceiptLock(r)) /\ ~Intake!ByScreening(r)
      BY <3>1, KnownBefore, AskedWell DEF ReceiptKept
    <3>2. d = Head(Asked(r).decs)
      <4>1. Intake!Decs(r) = Asked(r).decs
        <5>1. ~Intake!OfDecision(r)
          BY <3>3, AskedWell
        <5> QED
          BY <3>3, <5>1 DEF Intake!Decs, Asked
      <4> QED
        BY <1>d, <4>1
    <3> QED
      BY <1>i, <3>1, <3>2, <3>3, IntakeAssumption DEF IntakeAssumption, IntakeInv, IntakeShape, Asked
  <2>3. \A e \in moving : e.scr \in DOMAIN IntakeScreenings /\ ~Undecided(e.scr)
    BY <2>2 DEF Undecided, IntakeInv, IntakeShape
  <2>4. (\E l \in links : l.dec = d /\ l.case = from) /\ \A l \in links : l.dec = d => l.case = from
    BY <1>f, <1>d, <2>2 DEF Intake!Membership
  <2>5. \A e \in evidence : e \notin moving /\ ~Undecided(e.scr) => IntakeScreenings[e.scr].decision # d
    BY <2>4 DEF IntakeInv, TablesTrue, EvidenceTrue
  <2>6. link.dec = d /\ link.case = to /\ link.by = r
    OBVIOUS
  <2>7. receipt.id = id /\ receipt.body[2] = to /\ receipt.case = to /\ receipt.by = r
    OBVIOUS
  <2>8. /\ out.kind = "transferred_out" /\ out.what = id
        /\ in.kind = "transferred_in" /\ in.what = id
    BY DEF Intake!Event
  <2>9. \A e \in moving : /\ Moved(e).scr = e.scr /\ Moved(e).case = to
                          /\ Moved(e).status = e.status
                          /\ Moved(e) = [f \in {"scr", "case", "status"} |-> Moved(e)[f]]
    BY DEF IntakeInv, IntakeShape
  <2>10. /\ \A e \in evidence' : \/ e \in evidence /\ e \notin moving
                                 \/ \E f \in moving : e.scr = f.scr /\ e.case = to /\ e.status = f.status
         /\ \A e \in evidence' : e = [f \in {"scr", "case", "status"} |-> e[f]] /\ e.scr \in DOMAIN IntakeScreenings
         /\ \A e \in evidence : \E f \in evidence' : f.scr = e.scr /\ (e \notin moving => f = e)
    <3>1. \A e \in evidence : e = [f \in {"scr", "case", "status"} |-> e[f]] /\ e.scr \in DOMAIN IntakeScreenings
      BY DEF IntakeInv, IntakeShape
    <3>2. \A e \in moving : e \in evidence
      OBVIOUS
    <3>3. \A e \in evidence' : (e \in evidence /\ e \notin moving) \/ \E f \in moving : e = Moved(f)
      BY <2>1
    <3>4. /\ \A e \in moving : Moved(e) \in evidence'
          /\ \A e \in evidence : e \notin moving => e \in evidence'
      BY <2>1
    <3> HIDE DEF moving, Moved
    <3> QED
      BY <2>9, <3>1, <3>2, <3>3, <3>4
  <2>11. moving \subseteq evidence
    OBVIOUS
  <2>12. \A e \in moving : IntakeScreenings[e.scr].decision = d
    OBVIOUS
  <2> HIDE DEF moving, link, receipt, out, in
  <2>13. /\ ist'[r].pc = "done" /\ ist'[r].added = {} /\ ist'[r].made = FALSE /\ ist'[r].answer = reply
         /\ ist'[r].case = to /\ Shaped(ist'[r])
         /\ DOMAIN ist' = DOMAIN ist /\ \A q \in DOMAIN ist \ {r} : ist'[q] = ist[q]
         /\ ist' = [q \in DOMAIN ist' |-> ist'[q]]
         /\ LocksExclusive' /\ \A h \in iheld : h[2] # r => h \in iheld'
    BY <2>1, EndFacts
  <2>14. DOMAIN history' = DOMAIN history \cup {out, in} /\ history' = [e \in DOMAIN history' |-> 1]
    <3>1. \A e \in {out, in} : e \notin DOMAIN history
      BY <1>i, <2>8 DEF IntakeInv, TablesTrue, HistoryTrue, Unreceived
    <3>2. history = [e \in DOMAIN history |-> 1]
      BY DEF IntakeInv, IntakeShape
    <3>3. DOMAIN history' = DOMAIN history \cup told2 /\ history' = [e \in DOMAIN history' |-> 1]
      <4>1. history' = Intake!(+)(history, Intake!SetToBag(told2)) /\ \A e \in told2 : e \notin DOMAIN history
        BY <2>1, <3>1
      <4> HIDE DEF told2
      <4> QED
        BY <3>2, <4>1, HistoryGrows
    <3> QED
      BY <3>3
  <2>15. IntakeShape'
    BY <2>1, <2>10, <2>13, <2>14 DEF IntakeInv, IntakeShape
  <2>16. ReceiptsTrue'
    BY <1>i, <2>1, <2>2, <2>7 DEF IntakeInv, TablesTrue, ReceiptsTrue, Unreceived
  <2>17. LinksTrue'
    BY <2>1, <2>2, <2>6 DEF IntakeInv, TablesTrue, LinksTrue
  <2>18. \A s : s \notin DOMAIN IntakeScreenings \/ Undecided(s) => Intake!CanonicalCase(s)' = Intake!CanonicalCase(s)
    BY <2>1, <2>3, <2>10, <2>11 DEF Intake!CanonicalCase
  <2>19. EvidenceTrue'
    <3>0. EvidenceTrue
      BY DEF IntakeInv, TablesTrue
    <3>1. ASSUME NEW e \in evidence', ~Undecided(e.scr)
          PROVE  \E l \in links' : l.dec = IntakeScreenings[e.scr].decision /\ l.case = e.case
      <4>1. CASE e \in evidence /\ e \notin moving
        BY <2>1, <2>5, <3>0, <3>1, <4>1 DEF EvidenceTrue
      <4>2. CASE \E f \in moving : e.scr = f.scr /\ e.case = to
        BY <2>1, <2>6, <2>12, <4>2
      <4> QED
        BY <2>10, <4>1, <4>2
    <3>2. ASSUME NEW s \in DOMAIN IntakeScreenings, Undecided(s)
          PROVE  \A c1, c2 \in Intake!CanonicalCase(s)' : c1 = c2
      BY <2>18, <3>0, <3>2 DEF EvidenceTrue
    <3> QED
      BY <2>1, <3>0, <3>1, <3>2 DEF EvidenceTrue
  <2>20. EvidenceShown'
    <3> SUFFICES ASSUME NEW e \in evidence', e.status # match[e.scr]
                 PROVE  \E q \in told : Asked(q).scr = e.scr /\ Unreceived(q)'
      BY <2>1 DEF EvidenceShown
    <3>1. PICK f \in evidence : f.scr = e.scr /\ f.status = e.status
      BY <2>10, <2>11
    <3>2. PICK q \in told : Asked(q).scr = e.scr /\ Unreceived(q)
      BY <3>1 DEF IntakeInv, TablesTrue, EvidenceShown
    <3>3. q \in DOMAIN IntakeReq /\ Asked(q).kind = "review"
      BY DEF IntakeInv, TablesTrue, ReceiptsTrue
    <3>4. Asked(q).receipt # id
      BY <1>i, <2>2, <3>3, ReceiptsApart
    <3> QED
      BY <2>1, <2>7, <3>2, <3>4 DEF Unreceived
  <2>21. HistoryTrue'
    <3>0. HistoryTrue
      BY DEF IntakeInv, TablesTrue
    <3>1. \A e, f \in DOMAIN history' : e.kind = f.kind /\ e.what = f.what => e = f
      <4>1. \A e \in {out, in}, f \in DOMAIN history : e.kind # f.kind \/ e.what # f.what
        BY <1>i, <2>8, <3>0 DEF HistoryTrue, Unreceived
      <4>2. \A e, f \in {out, in} : e.kind = f.kind => e = f
        BY <2>8
      <4> QED
        BY <2>14, <3>0, <4>1, <4>2 DEF HistoryTrue
    <3>2. ASSUME NEW s, Intake!CanonicalCase(s) # {} PROVE Intake!CanonicalCase(s)' # {}
      <4>1. CASE \E x \in routes : x.scr = s
        BY <2>1, <4>1 DEF Intake!CanonicalCase
      <4>2. CASE \E e \in evidence : e.scr = s
        <5>1. PICK e \in evidence' : e.scr = s
          BY <2>10, <4>2
        <5> QED
          BY <5>1 DEF Intake!CanonicalCase
      <4> QED
        BY <3>2, <4>1, <4>2 DEF Intake!CanonicalCase
    <3>3. \A l \in links : \E m \in links' : m.dec = l.dec
      BY <2>1, <2>6
    <3>4. \A x \in receipts : x \in receipts'
      BY <2>1
    <3>5. \E x \in receipts' : x.id = id
      BY <2>1, <2>7
    <3>6. ASSUME NEW e \in DOMAIN history'
          PROVE  \/ e.kind = "decision_added" /\ \E l \in links' : l.dec = e.what
                 \/ /\ e.kind = "screening_added"
                    /\ IF IntakeScreenings[e.what].continuous THEN \E x \in routes' : x.scr = e.what
                       ELSE Intake!CanonicalCase(e.what)' # {}
                 \/ e.kind \in {"reviewed", "transferred_out", "transferred_in"} /\ \E x \in receipts' : x.id = e.what
      <4>1. CASE e \in DOMAIN history
        BY <2>1, <3>0, <3>2, <3>3, <3>4, <4>1 DEF HistoryTrue
      <4>2. CASE e \in {out, in}
        BY <2>8, <3>5, <4>2
      <4> QED
        BY <2>14, <4>1, <4>2
    <3> QED
      BY <3>1, <3>6 DEF HistoryTrue
  <2>22. TxnKnows(r)'
    <3>1. Answered(r)'
      BY <1>i, <2>1, <2>7, <2>13 DEF Answered
    <3> QED
      BY <2>13, <3>1, DoneKnows
  <2>23. ASSUME NEW q \in DOMAIN ist, q # r PROVE TxnKnows(q)'
    <3>1. \A x \in receipts' \ receipts : x.id = Asked(r).receipt /\ HasLock(r, Intake!ReceiptLock(r))
      BY <1>i, <2>1, <2>2, <2>7
    <3>2. \A l \in links' : \E m \in links : m.dec = l.dec
      BY <2>1, <2>4, <2>6
    <3>3. Reusable(q)' \subseteq Reusable(q)
      BY <2>1, <2>2, <2>6 DEF Reusable, Intake!Eligible, Automatic
    <3> QED
      BY <2>1, <2>13, <2>18, <2>23, <3>1, <3>2, <3>3, OthersKeep
  <2> QED
    BY <2>13, <2>15, <2>16, <2>17, <2>19, <2>20, <2>21, <2>22, <2>23 DEF IntakeInv, TablesTrue
<1> QED
  BY <1>1, <1>2

LEMMA TransferDecisionStep ==
    ASSUME IntakeInv, NEW r \in DOMAIN ist, NEW reply, Intake!TransferDecision(r, reply)
    PROVE  IntakeInv'
<1> DEFINE found == {x \in receipts : x.id = IntakeReq[r].receipt}
<1>1. /\ ist[r].pc = "second" /\ Asked(r).kind = "transfer" /\ r \in DOMAIN IntakeReq
  BY KnownBefore DEF Intake!TransferDecision, Stages, IntakeInv, IntakeShape
<1>2. ASSUME NEW x \in found,
             IF x.body = <<ist[r].from, ist[r].to>> THEN Intake!Ended(r, "ok", ist[r].to) ELSE Intake!Ended(r, "conflict", None),
             UNCHANGED <<Intake!others, Intake!tables, ifaults>>
      PROVE  IntakeInv'
  <2>1. x.by \in DOMAIN IntakeReq /\ x.id = Asked(x.by).receipt /\ (Asked(x.by).kind = "transfer" => x.body[2] = x.case)
    BY DEF IntakeInv, TablesTrue, ReceiptsTrue
  <2>2. Asked(x.by).kind = "transfer"
    BY <1>1, <2>1, ReceiptsApart DEF Asked
  <2>3. UNCHANGED <<cases, links, routes, evidence, receipts, history, match, told>>
    BY <1>2 DEF Intake!others, Intake!tables
  <2>4. CASE x.body = <<ist[r].from, ist[r].to>>
    <3>1. x.case = ist[r].to /\ x.id = Asked(r).receipt
      BY <2>1, <2>2, <2>4 DEF Asked
    <3>2. Intake!Ended(r, "ok", ist[r].to)
      BY <1>2, <2>4
    <3> QED
      BY <2>3, <3>1, <3>2, EndUnwritten
  <2>5. CASE x.body # <<ist[r].from, ist[r].to>>
    <3>1. Intake!Ended(r, "conflict", None)
      BY <1>2, <2>5
    <3> QED
      BY <2>3, <3>1, EndUnwritten
  <2> QED
    BY <2>4, <2>5
<1>3. CASE Intake!Refuse(r, "invalid") \/ Intake!Refuse(r, "conflict")
  BY <1>3, RefuseStep
<1>4. CASE found = {} /\ Intake!Membership(r, Head(Intake!Decs(r))) = {ist[r].from} /\ Intake!Transfer(r, reply)
  <2>1. Unreceived(r)
    BY <1>4 DEF Unreceived, Asked
  <2> QED
    BY <1>1, <1>4, <2>1, TransferStep
<1> QED
  BY <1>2, <1>3, <1>4 DEF Intake!TransferDecision

-----------------------------------------------------------------------------
LEMMA IntakeStarts == Intake!Init => IntakeInv
<1> SUFFICES ASSUME Intake!Init PROVE IntakeInv
  OBVIOUS
<1>1. /\ icast \in IntakeCasts
      /\ cases = [c \in DOMAIN IntakeOpened |->
                    [inbox |-> IntakeOpened[c].inbox, type |-> "decision", status |-> "open", by |-> None]]
      /\ links \in {{}, {[dec |-> IntakeOpened[c].dec, case |-> c, by |-> None] : c \in DOMAIN IntakeOpened}}
      /\ routes = {} /\ evidence = {} /\ receipts = {} /\ told = {} /\ iheld = {}
      /\ match = [s \in DOMAIN IntakeScreenings |-> "pending"]
      /\ ist = [r \in Intake!ToSet(icast) |-> Intake!Waiting]
      /\ history = Intake!EmptyBag
  BY DEF Intake!Init
<1>2. DOMAIN history = {} /\ history = [e \in DOMAIN history |-> 1]
  BY <1>1 DEF Intake!EmptyBag, Intake!SetToBag
<1>3. DOMAIN ist \subseteq DOMAIN IntakeReq
  BY <1>1, IntakeAssumption DEF IntakeAssumption, Intake!ToSet, ToSet
<1>4. \A r \in DOMAIN ist : /\ Shaped(ist[r]) /\ ist[r].pc = "new" /\ ist[r].added = {} /\ ist[r].made = FALSE
                            /\ ist[r].answer # "ok"
  BY <1>1, IntakeAssumption DEF IntakeAssumption, Intake!Waiting, Shaped, TxnFields
<1>5. IntakeShape
  BY <1>1, <1>2, <1>3, <1>4 DEF IntakeShape
<1>6. LocksExclusive
  BY <1>1 DEF LocksExclusive
<1>7. ASSUME NEW r \in DOMAIN ist PROVE TxnKnows(r)
  <2>1. Stages(r) /\ ReceiptKept(r) /\ ScreeningKept(r) /\ PivotKept(r) /\ Searched(r) /\ Answered(r)
    BY <1>4 DEF Stages, Underway, ReceiptKept, ScreeningKept, PivotKept, Searched, Answered
  <2>2. Adding(r)
    BY <1>4 DEF Adding
  <2> QED
    BY <2>1, <2>2 DEF TxnKnows
<1>8. LinksTrue
  <2>1. \A c, d \in DOMAIN IntakeOpened : IntakeOpened[c].dec = IntakeOpened[d].dec => c = d
    BY IntakeAssumption DEF IntakeAssumption
  <2> QED
    BY <1>1, <2>1 DEF LinksTrue
<1>9. ReceiptsTrue /\ EvidenceTrue /\ EvidenceShown /\ HistoryTrue
  BY <1>1, <1>2 DEF ReceiptsTrue, EvidenceTrue, EvidenceShown, HistoryTrue, Intake!CanonicalCase
<1> QED
  BY <1>5, <1>6, <1>7, <1>8, <1>9 DEF IntakeInv, TablesTrue

LEMMA IntakeStep ==
    ASSUME IntakeInv, NEW r \in DOMAIN ist,
           Intake!Advance(r) \/ Intake!Fail(r) \/ Intake!Again(r) \/ Intake!OwnerReview(r)
    PROVE  IntakeInv'
<1>1. CASE Intake!Receive(r)
  BY <1>1, ReceiveStep
<1>2. CASE Intake!LockPivotOfAction(r) \/ Intake!Search(r) \/ Intake!Take(r)
  BY <1>2, LockPivotOfActionStep, SearchStep, TakeStep
<1>3. CASE Intake!RouteContinuous(r) \/ Intake!RouteDecision(r) \/ Intake!RouteOther(r)
  BY <1>3, RouteContinuousStep, RouteDecisionStep, RouteOtherStep
<1>4. CASE Intake!LockPivotOfScreening(r) \/ Intake!CreateCase(r) \/ Intake!AddDecision(r)
  BY <1>4, LockPivotOfScreeningStep, CreateCaseStep, AddDecisionStep
<1>5. CASE Intake!CheckMembership(r) \/ Intake!InsertLink(r)
  BY <1>5, CheckMembershipStep, InsertLinkStep
<1>6. CASE Intake!LockOperation(r) \/ Intake!LockFirst(r) \/ Intake!CloseCase(r)
  BY <1>6, LockOperationStep, LockFirstStep, CloseCaseStep
<1>7. ASSUME NEW reply, Intake!Finish(r, reply) \/ Intake!KeepOwned(r, reply)
      PROVE  IntakeInv'
  BY <1>7, CommitRequestStep
<1>8. ASSUME NEW reply, Intake!Bind(r, reply) PROVE IntakeInv'
  BY <1>8, BindStep
<1>9. ASSUME NEW reply, Intake!TransferDecision(r, reply) PROVE IntakeInv'
  BY <1>9, TransferDecisionStep
<1>10. CASE Intake!DeadlockAbort(r) \/ Intake!Fail(r)
  BY <1>10, FailStep
<1>11. CASE Intake!Again(r)
  BY <1>11, AgainStep
<1>12. CASE Intake!OwnerReview(r)
  BY <1>12, OwnerReviewStep
<1> QED
  BY <1>1, <1>2, <1>3, <1>4, <1>5, <1>6, <1>7, <1>8, <1>9, <1>10, <1>11, <1>12 DEF Intake!Advance

LEMMA IntakeNext == IntakeInv /\ [Intake!Next]_(Intake!intakeVars) => IntakeInv'
<1> SUFFICES ASSUME IntakeInv, [Intake!Next]_(Intake!intakeVars) PROVE IntakeInv'
  OBVIOUS
<1>1. CASE Intake!Next
  BY <1>1, IntakeStep DEF Intake!Next
<1>2. CASE UNCHANGED Intake!intakeVars
  <2>1. UNCHANGED <<ist, iheld, cases, links, routes, evidence, receipts, history, match, told>>
    BY <1>2 DEF Intake!intakeVars, Intake!others, Intake!tables
  <2>2. TablesTrue' /\ IntakeShape' /\ LocksExclusive'
    BY <2>1, TablesStay DEF IntakeInv, IntakeShape, LocksExclusive
  <2>3. /\ \A q : Reusable(q)' = Reusable(q)
        /\ \A c : Intake!CanonicalCase(c)' = Intake!CanonicalCase(c)
    BY <2>1 DEF Reusable, Intake!CanonicalCase, Intake!Eligible
  <2>4. ASSUME NEW q \in DOMAIN ist PROVE TxnKnows(q)'
    <3>1. TxnKnows(q)
      BY DEF IntakeInv
    <3>2. Stages(q)' /\ ReceiptKept(q)' /\ ScreeningKept(q)'
      BY <2>1, <2>3, <3>1 DEF TxnKnows, Stages, Underway, ReceiptKept, ScreeningKept, HasLock, Unreceived,
                        Intake!ReceiptLock, Intake!ScreeningLock
    <3>3. PivotKept(q)' /\ Adding(q)'
      BY <2>1, <3>1 DEF TxnKnows, PivotKept, Adding, Underway, HasLock, Intake!PivotLock, Intake!LinkLock
    <3>4. Searched(q)' /\ Answered(q)'
      BY <2>1, <2>3, <3>1 DEF TxnKnows, Searched, Answered
    <3> QED
      BY <3>2, <3>3, <3>4 DEF TxnKnows
  <2> QED
    BY <2>1, <2>2, <2>4 DEF IntakeInv
<1> QED
  BY <1>1, <1>2

-----------------------------------------------------------------------------
LEMMA ReceivedOnceHolds == IntakeInv => Intake!ReceivedOnce
<1> SUFFICES ASSUME IntakeInv PROVE Intake!ReceivedOnce
  OBVIOUS
<1>1. \A x, y \in receipts : x.id = y.id => x = y
  BY DEF IntakeInv, TablesTrue, ReceiptsTrue
<1>2. \A q \in DOMAIN ist : ist[q].answer = "ok" /\ Asked(q).receipt # None =>
        \E x \in receipts : x.id = Asked(q).receipt /\ x.case = ist[q].case
  BY KnownBefore DEF Answered
<1>3. ASSUME NEW q \in DOMAIN ist, NEW r \in DOMAIN ist, Asked(q).receipt = Asked(r).receipt, Asked(r).receipt # None,
             ist[q].answer = "ok", ist[r].answer = "ok"
      PROVE  ist[q].case = ist[r].case
  BY <1>1, <1>2, <1>3
<1>4. /\ \A e, f \in DOMAIN history : e.kind = f.kind /\ e.what = f.what => e = f
      /\ \A e \in DOMAIN history : history[e] = 1
  BY DEF IntakeInv, IntakeShape, TablesTrue, HistoryTrue
<1> QED
  BY <1>1, <1>3, <1>4 DEF Intake!ReceivedOnce, Asked

LEMMA EvidenceIsCurrentHolds == IntakeInv => Intake!EvidenceIsCurrent
<1> SUFFICES ASSUME IntakeInv PROVE Intake!EvidenceIsCurrent
  OBVIOUS
<1>1. \A l, m \in links : l.dec = m.dec => l.case = m.case
  BY DEF IntakeInv, TablesTrue, LinksTrue
<1>2. \A e \in evidence : IntakeScreenings[e.scr].decision # None =>
        \E l \in links : l.dec = IntakeScreenings[e.scr].decision /\ l.case = e.case
  BY DEF IntakeInv, TablesTrue, EvidenceTrue, Undecided
<1>3. \A e \in evidence : e.status = match[e.scr] \/
        \E r \in told : IntakeReq[r].scr = e.scr /\ \A x \in receipts : x.id # IntakeReq[r].receipt
  BY DEF IntakeInv, TablesTrue, EvidenceShown, Unreceived, Asked
<1> QED
  BY <1>1, <1>2, <1>3 DEF Intake!EvidenceIsCurrent

\* Only a commit adds a case, which the request has made; it has looked for one
\* to reuse under the lock of its object, and that search still holds.
LEMMA CasesAreNeeded ==
    ASSUME IntakeInv, [Intake!Next]_(Intake!intakeVars), NEW c \in DOMAIN cases' \ DOMAIN cases
    PROVE  Asked(cases'[c].by).action = "add_to_case_if_possible" => Reusable(cases'[c].by) = {}
<1>1. Intake!Next
  BY DEF Intake!intakeVars, Intake!tables
<1>2. PICK r \in DOMAIN ist :
        Intake!Advance(r) \/ Intake!Fail(r) \/ Intake!Again(r) \/ Intake!OwnerReview(r)
  BY <1>1 DEF Intake!Next
<1>3. ASSUME NEW reply, NEW E, Intake!Commit(r, reply, E)
      PROVE  ist[r].made /\ cases'[c].by = r
  BY <1>3 DEF Intake!Commit
<1>4. \E reply, E : Intake!Commit(r, reply, E)
  <2>1. /\ ~Intake!Fail(r) /\ ~Intake!Again(r) /\ ~Intake!OwnerReview(r) /\ ~Intake!DeadlockAbort(r)
        /\ ~\E reply : Intake!Refuse(r, reply)
    BY DEF Intake!Fail, Intake!Again, Intake!OwnerReview, Intake!DeadlockAbort, Intake!Refuse, Intake!tables
  <2>2. ~\E s, xs : Intake!Go(r, s, xs)
    BY DEF Intake!Go, Intake!tables
  <2>3. ~Intake!Receive(r) /\ ~Intake!LockPivotOfAction(r) /\ ~Intake!Search(r) /\ ~Intake!Take(r)
    BY <2>1, <2>2 DEF Intake!Receive, Intake!LockPivotOfAction, Intake!Search, Intake!Take, Intake!tables
  <2>4. ~Intake!RouteContinuous(r) /\ ~Intake!RouteDecision(r) /\ ~Intake!RouteOther(r) /\ ~Intake!LockPivotOfScreening(r)
    BY <2>1, <2>2 DEF Intake!RouteContinuous, Intake!RouteDecision, Intake!RouteOther, Intake!LockPivotOfScreening
  <2>5. ~Intake!CreateCase(r) /\ ~Intake!AddDecision(r) /\ ~Intake!CheckMembership(r) /\ ~Intake!InsertLink(r)
    BY <2>1, <2>2 DEF Intake!CreateCase, Intake!AddDecision, Intake!CheckMembership, Intake!InsertLink
  <2>6. ~Intake!LockOperation(r) /\ ~Intake!LockFirst(r)
    BY <2>2 DEF Intake!LockOperation, Intake!LockFirst
  <2>7. ~Intake!CloseCase(r)
    BY DEF Intake!CloseCase, IntakeInv, IntakeShape
  <2>8. ~\E reply : Intake!TransferDecision(r, reply)
    BY <2>1 DEF Intake!TransferDecision, Intake!Transfer, Intake!tables
  <2>9. \E reply : Intake!Finish(r, reply) \/ Intake!KeepOwned(r, reply) \/ Intake!Bind(r, reply)
    BY <1>2, <2>1, <2>3, <2>4, <2>5, <2>6, <2>7, <2>8 DEF Intake!Advance
  <2> QED
    BY <2>1, <2>9 DEF Intake!Finish, Intake!KeepOwned, Intake!Bind
<1>5. ist[r].made /\ cases'[c].by = r
  BY <1>3, <1>4
<1> QED
  BY <1>5, KnownBefore DEF Searched

-----------------------------------------------------------------------------
\* The three instances side by side, as the model runs them: a behaviour moves
\* one of them, and another's variables stay.
IntakeIdle ==
    /\ links = {} /\ evidence = {} /\ receipts = {} /\ ist = <<>> /\ history = <<>> /\ cases = <<>>
RecordsInv ==
    /\ FenceInv /\ IdentityInv /\ MailInv
    /\ IF focus = "intake" THEN IntakeInv ELSE IntakeIdle

AllVars == <<vars, screeningVars, intakeVars, identityVars, ingestVars, cacheVars, pageVars, focus>>

LEMMA StepsApart ==
    ASSUME [MCNext]_AllVars
    PROVE  /\ [Screening!Next]_(Screening!vars)
           /\ [IdentityNext]_identityVars
           /\ IF focus = "intake" THEN [Intake!Next]_(Intake!intakeVars) ELSE UNCHANGED intakeVars
           /\ focus' = focus
<1>1. UNCHANGED screeningVars => UNCHANGED Screening!vars
  BY DEF screeningVars, Screening!vars, Screening!rowVars, Screening!workVars
<1>2. UNCHANGED intakeVars => UNCHANGED Intake!intakeVars
  BY DEF intakeVars, Intake!intakeVars, Intake!others, Intake!tables
<1>3. CASE UNCHANGED AllVars
  BY <1>1, <1>2, <1>3 DEF AllVars
<1>4. CASE MCNext
  BY <1>1, <1>2, <1>4 DEF MCNext
<1> QED
  BY <1>3, <1>4

LEMMA RecordsStart == MCInit => RecordsInv
<1> SUFFICES ASSUME MCInit PROVE RecordsInv
  OBVIOUS
<1>1. FenceInv
  BY FenceStarts DEF MCInit
<1>2. IdentityInv /\ MailInv
  BY InitInv, FirstMail DEF MCInit
<1>3. IF focus = "intake" THEN IntakeInv ELSE IntakeIdle
  BY IntakeStarts DEF MCInit, IntakeIdle
<1> QED
  BY <1>1, <1>2, <1>3 DEF RecordsInv

LEMMA RecordsStep == RecordsInv /\ [MCNext]_AllVars => RecordsInv'
<1> SUFFICES ASSUME RecordsInv, [MCNext]_AllVars PROVE RecordsInv'
  OBVIOUS
<1>1. FenceInv'
  BY FenceStep, StepsApart DEF RecordsInv
<1>2. IdentityInv' /\ MailInv'
  BY StepInv, MailStepInv, StepsApart DEF RecordsInv
<1>3. CASE focus = "intake"
  <2>1. IntakeInv' /\ focus' = "intake"
    BY <1>3, IntakeNext, StepsApart DEF RecordsInv
  <2> QED
    BY <1>1, <1>2, <2>1 DEF RecordsInv
<1>4. CASE focus # "intake"
  <2>1. IntakeIdle /\ UNCHANGED intakeVars /\ focus' # "intake"
    BY <1>4, StepsApart DEF RecordsInv
  <2>2. IntakeIdle'
    BY <2>1 DEF IntakeIdle, intakeVars
  <2> QED
    BY <1>1, <1>2, <2>1, <2>2 DEF RecordsInv
<1> QED
  BY <1>3, <1>4

LEMMA RecordsInvariance == MCSpec => []RecordsInv
BY RecordsStart, RecordsStep, PTL DEF MCSpec, AllVars

\* For any outbox, casts and accounts: a worker of the outbox of screening whose
\* claim was taken over holds the row no more, what the intake is sent twice it
\* receives once, and a delivery's state is told truly (claim and finish of the
\* outbox; receive and createCaseWithReceipt; DeliverOne).
THEOREM DeliveriesCount == MCSpec => []DeliveredOnce
<1>1. RecordsInv => DeliveredOnce
  <2> SUFFICES ASSUME RecordsInv PROVE DeliveredOnce
    OBVIOUS
  <2>1. Screening!FencedByAttempt
    BY FenceMeansHeld DEF RecordsInv
  <2>2. MailIsTold
    BY MailMeansTold DEF RecordsInv
  <2>3. Intake!ReceivedOnce
    <3>1. CASE focus = "intake"
      BY <3>1, ReceivedOnceHolds DEF RecordsInv
    <3>2. CASE focus # "intake"
      BY <3>2 DEF RecordsInv, IntakeIdle, Intake!ReceivedOnce
    <3> QED
      BY <3>1, <3>2
  <2> QED
    BY <2>1, <2>2, <2>3 DEF DeliveredOnce
<1> QED
  BY <1>1, RecordsInvariance, PTL

\* For any casts of requests: a decision has at most one case, and the evidence of
\* its screenings is there and shows what their owner says, unless a review is
\* still to be received (the binding of screenings; TransferDecision).
THEOREM EvidenceStaysCurrent == MCSpec => []EvidenceIsCurrent
<1>1. RecordsInv => EvidenceIsCurrent
  <2> SUFFICES ASSUME RecordsInv PROVE EvidenceIsCurrent
    OBVIOUS
  <2>1. CASE focus = "intake"
    BY <2>1, EvidenceIsCurrentHolds DEF RecordsInv, EvidenceIsCurrent
  <2>2. CASE focus # "intake"
    BY <2>2 DEF RecordsInv, IntakeIdle, EvidenceIsCurrent, Intake!EvidenceIsCurrent
  <2> QED
    BY <2>1, <2>2
<1> QED
  BY <1>1, RecordsInvariance, PTL

\* For any casts of requests: an action that reuses cases opens one only when its
\* object has no case of an earlier action or screening that it could have joined,
\* in whatever inbox (handleWorkflowAction under the lock of the object).
THEOREM OpenCasesAreReused == MCSpec => ReusesOpenCases
<1> DEFINE A == \A c \in DOMAIN cases' \ DOMAIN cases :
                  LET r == cases'[c].by
                  IN IntakeReq[r].action = "add_to_case_if_possible" =>
                       ~\E l \in links : /\ l.by # None /\ IntakeReq[l.by].kind \in {"workflow", "arrival", "review"}
                                         /\ IntakeObjects[l.dec] = IntakeObjects[Head(Intake!Decs(r))]
                                         /\ Intake!Eligible(r, l.case)
<1>1. RecordsInv /\ [MCNext]_AllVars => [A]_(Intake!intakeVars)
  <2> SUFFICES ASSUME RecordsInv, [MCNext]_AllVars PROVE A \/ UNCHANGED Intake!intakeVars
    OBVIOUS
  <2>1. CASE focus = "intake"
    <3>1. IntakeInv /\ [Intake!Next]_(Intake!intakeVars)
      BY <2>1, StepsApart DEF RecordsInv
    <3>2. ASSUME NEW c \in DOMAIN cases' \ DOMAIN cases, Asked(cases'[c].by).action = "add_to_case_if_possible"
          PROVE  Reusable(cases'[c].by) = {}
      BY <3>1, <3>2, CasesAreNeeded
    <3> QED
      BY <3>2 DEF Reusable, Asked, Automatic, Primary
  <2>2. CASE focus # "intake"
    <3>1. UNCHANGED intakeVars
      BY <2>2, StepsApart
    <3> QED
      BY <3>1 DEF intakeVars, Intake!intakeVars, Intake!others, Intake!tables
  <2> QED
    BY <2>1, <2>2
<1> QED
  BY <1>1, RecordsInvariance, PTL DEF MCSpec, AllVars, ReusesOpenCases, Intake!ReusesOpenCases
-----------------------------------------------------------------------------
(* The metadata cache.                                                     *)

\* version v of key exists and was current at t or later, and t is not ahead
Recent(key, v, t) == v <= ver[key] /\ t <= now /\ CurrentSince(key, v, t)

RecentEntries ==
  \A key \in Keys : cache[key] # None => Recent(key, cache[key].ver, cache[key].exp - TTL)

RecentFlights ==
  \A key \in Keys : flight[key] # None =>
    /\ flight[key].ln <= now
    /\ flight[key].st = "set" => Recent(key, flight[key].ver, flight[key].ln)
    /\ flight[key].st = "return" => Recent(key, flight[key].ver, flight[key].ln - TTL)

RecentCalls ==
  \A c \in Callers : call[c] # None =>
    /\ call[c].t <= now
    /\ call[c].st = "done" => Recent(call[c].k, call[c].ver, call[c].t - TTL)

CacheInv == CacheTypeOK /\ RecentEntries /\ RecentFlights /\ RecentCalls

\* The initial state satisfies the invariant.
LEMMA CacheStarts == CacheInit => CacheInv
  BY BoundsAreNatural
  DEF CacheInit, CacheInv, CacheTypeOK, RecentEntries, RecentFlights, RecentCalls, Time, Versions

\* Every step keeps the types.
LEMMA CacheTypeStep == ASSUME CacheTypeOK, [CacheNext]_cacheVars PROVE CacheTypeOK'
<1> USE BoundsAreNatural DEF CacheTypeOK, Time, Versions, Entries, Flights, Calls
<1>1. CASE Tick
  BY <1>1 DEF Tick
<1>2. ASSUME NEW key \in Keys, NEW own \in BOOLEAN, Write(key, own) PROVE CacheTypeOK'
  <2>1. ver' \in [Keys -> Versions] /\ ver[key] + 1 \in Versions
    BY <1>2 DEF Write
  <2>2. born' \in [Keys -> [Versions -> Time]]
    <3>1. born' = [born EXCEPT ![key] = [born[key] EXCEPT ![ver[key] + 1] = now]]
      BY <1>2 DEF Write
    <3>2. [born[key] EXCEPT ![ver[key] + 1] = now] \in [Versions -> Time]
      BY <2>1
    <3> QED
      BY <3>1, <3>2
  <2>3. dirty' \in SUBSET Keys
    BY <1>2 DEF Write
  <2> QED
    BY <1>2, <2>1, <2>2, <2>3 DEF Write
<1>3. ASSUME NEW key \in Keys, Invalidate(key) PROVE CacheTypeOK'
  BY <1>3 DEF Invalidate
<1>4. ASSUME NEW c \in Callers, NEW key \in Keys, Begin(c, key) PROVE CacheTypeOK'
  <2>1. [k |-> key, st |-> "lookup", t |-> now, ver |-> 0] \in Calls
    OBVIOUS
  <2>2. call' \in [Callers -> Calls \cup {None}]
    BY <1>4, <2>1 DEF Begin
  <2> QED
    BY <1>4, <2>2 DEF Begin
<1>5. ASSUME NEW c \in Callers, Lookup(c) PROVE CacheTypeOK'
  <2>1. call[c] \in Calls
    BY <1>5 DEF Lookup
  <2>2. cache[call[c].k] \in Entries \cup {None}
    BY <2>1
  <2>3. call' \in [Callers -> Calls \cup {None}]
    BY <1>5, <2>1, <2>2 DEF Lookup, Fresh
  <2> QED
    BY <1>5, <2>3 DEF Lookup
<1>6. ASSUME NEW c \in Callers, Do(c) PROVE CacheTypeOK'
  <2>1. call[c] \in Calls
    BY <1>6 DEF Do
  <2>2. call' \in [Callers -> Calls \cup {None}]
    BY <1>6, <2>1 DEF Do
  <2>3. flight' \in [Keys -> Flights \cup {None}]
    BY <1>6, <2>1 DEF Do
  <2> QED
    BY <1>6, <2>2, <2>3 DEF Do
<1>7. ASSUME NEW c \in Callers, End(c) PROVE CacheTypeOK'
  BY <1>7 DEF End
<1>8. ASSUME NEW key \in Keys, LoadStep(key) PROVE CacheTypeOK'
  <2>0. flight[key] \in Flights
    BY <1>8 DEF LoadStep, LoadStart, LoadCheck, LoadRead, LoadFail, LoadSet, LoadReturn, Loading
  <2>1. CASE LoadStart(key)
    BY <2>0, <2>1 DEF LoadStart
  <2>2. CASE LoadCheck(key)
    <3>1. cache[key] \in Entries \cup {None}
      OBVIOUS
    <3>2. flight' \in [Keys -> Flights \cup {None}]
      BY <2>0, <2>2, <3>1 DEF LoadCheck, Fresh
    <3> QED
      BY <2>2, <3>2 DEF LoadCheck
  <2>3. CASE LoadRead(key)
    BY <2>0, <2>3 DEF LoadRead
  <2>4. CASE LoadFail(key)
    BY <2>0, <2>4 DEF LoadFail
  <2>5. CASE LoadSet(key)
    <3>1. flight' \in [Keys -> Flights \cup {None}]
      BY <2>0, <2>5 DEF LoadSet
    <3>2. cache' \in [Keys -> Entries \cup {None}]
      BY <2>0, <2>5 DEF LoadSet, Expiry
    <3> QED
      BY <2>5, <3>1, <3>2 DEF LoadSet
  <2>6. CASE LoadReturn(key)
    <3>1. \A c \in Callers : c \in Released(key) => call[c] \in Calls
      BY DEF Released, Waiting
    <3>2. call' \in [Callers -> Calls \cup {None}]
      BY <2>0, <2>6, <3>1 DEF LoadReturn
    <3> QED
      BY <2>6, <3>2 DEF LoadReturn
  <2> QED
    BY <1>8, <2>1, <2>2, <2>3, <2>4, <2>5, <2>6 DEF LoadStep
<1>9. CASE UNCHANGED cacheVars
  BY <1>9 DEF cacheVars
<1> QED
  BY <1>1, <1>2, <1>3, <1>4, <1>5, <1>6, <1>7, <1>8, <1>9 DEF CacheNext, CallStep

\* Time and writes only move forward: a version that was recent stays recent.
LEMMA RecentStable ==
  ASSUME CacheTypeOK, [CacheNext]_cacheVars
  PROVE  now <= now' /\ \A key \in Keys, v \in Versions, t \in Int : Recent(key, v, t) => Recent(key, v, t)'
<1> USE BoundsAreNatural DEF CacheTypeOK, Time, Versions, Recent, CurrentSince
<1>1. CASE Tick
  BY <1>1 DEF Tick
<1>2. ASSUME NEW x \in Keys, NEW own \in BOOLEAN, Write(x, own)
      PROVE  now <= now' /\ \A key \in Keys, v \in Versions, t \in Int : Recent(key, v, t) => Recent(key, v, t)'
  <2> SUFFICES ASSUME NEW key \in Keys, NEW v \in Versions, NEW t \in Int, Recent(key, v, t)
               PROVE  v <= ver'[key] /\ t <= now /\ (v < ver'[key] => t <= born'[key][v + 1])
    BY <1>2 DEF Write
  <2>1. CASE key # x
    BY <1>2, <2>1 DEF Write
  <2>2. CASE key = x
    <3>1. ver'[key] = ver[key] + 1
      BY <1>2, <2>2 DEF Write
    <3>2. \A w \in Versions : born'[key][w] = IF w = ver[key] + 1 THEN now ELSE born[key][w]
      <4>1. born'[key] = [born[key] EXCEPT ![ver[key] + 1] = now]
        BY <1>2, <2>2 DEF Write
      <4>2. born[key] \in [Versions -> Time]
        OBVIOUS
      <4> QED
        BY <4>1, <4>2
    <3>3. CASE v = ver[key]
      BY <1>2, <2>2, <3>1, <3>2, <3>3 DEF Write
    <3>4. CASE v < ver[key]
      <4>1. ver[key] \in Versions
        OBVIOUS
      <4>2. v + 1 \in Versions /\ v + 1 # ver[key] + 1
        BY <3>4, <4>1
      <4>3. t <= born[key][v + 1]
        BY <3>4
      <4>4. born'[key][v + 1] = born[key][v + 1]
        BY <3>2, <4>2
      <4>5. v <= ver'[key]
        <5>1. ver[key] \in Int /\ v \in Int
          BY <4>1
        <5> QED
          BY <3>1, <3>4, <5>1
      <4> QED
        BY <4>3, <4>4, <4>5
    <3> QED
      <4>1. ver[key] \in Versions /\ v <= ver[key]
        OBVIOUS
      <4> QED
        BY <3>3, <3>4, <4>1
  <2> QED
    BY <2>1, <2>2
<1>3. CASE UNCHANGED <<now, ver, born>>
  BY <1>3
<1> QED
  BY <1>1, <1>2, <1>3
  DEF CacheNext, cacheVars, CallStep, LoadStep, Invalidate, Begin, Lookup, Do, End,
      LoadStart, LoadCheck, LoadRead, LoadFail, LoadSet, LoadReturn

\* What was current at t or later was current at any earlier time or later.
LEMMA RecentEarlier ==
  ASSUME CacheTypeOK, NEW key \in Keys, NEW v \in Versions, NEW t \in Int, NEW s \in Int, s <= t, Recent(key, v, t)
  PROVE  Recent(key, v, s)
<1>1. now \in Int /\ ver[key] \in Versions /\ (v < ver[key] => born[key][v + 1] \in Int)
  BY BoundsAreNatural DEF CacheTypeOK, Time, Versions
<1> QED
  BY <1>1 DEF Recent, CurrentSince

\* Entries: only LoadSet writes one, and what it writes its load had read.
LEMMA EntriesStep == ASSUME CacheInv, [CacheNext]_cacheVars PROVE RecentEntries'
<1> SUFFICES ASSUME NEW key \in Keys, cache'[key] # None
             PROVE  Recent(key, cache[key].ver, cache[key].exp - TTL)'
  BY DEF RecentEntries
<1>0. CacheTypeOK
  BY DEF CacheInv
<1>1. CASE cache'[key] = cache[key]
  <2>1. cache[key] \in Entries /\ cache[key].ver \in Versions /\ cache[key].exp - TTL \in Int
    BY <1>0, <1>1, BoundsAreNatural DEF CacheTypeOK, Entries
  <2>2. Recent(key, cache[key].ver, cache[key].exp - TTL)
    BY <1>1 DEF CacheInv, RecentEntries
  <2> QED
    BY <1>0, <1>1, <2>1, <2>2, RecentStable DEF Recent, CurrentSince
<1>2. CASE LoadSet(key)
  <2>1. flight[key] \in Flights /\ flight[key].st = "set"
    BY <1>0, <1>2 DEF LoadSet, Loading, CacheTypeOK
  <2>2. flight[key].ver \in Versions /\ flight[key].ln \in Int
    BY <2>1, BoundsAreNatural DEF Flights, Time
  <2>3. Recent(key, flight[key].ver, flight[key].ln)
    BY <1>2, <2>1 DEF CacheInv, RecentFlights, LoadSet, Loading
  <2>4. cache'[key].ver = flight[key].ver /\ cache'[key].exp - TTL = flight[key].ln
    BY <1>0, <1>2, <2>2, BoundsAreNatural DEF LoadSet, Expiry, CacheTypeOK
  <2> QED
    BY <1>0, <2>2, <2>3, <2>4, RecentStable DEF Recent, CurrentSince
<1>3. cache'[key] = cache[key] \/ LoadSet(key)
  BY <1>0 DEF CacheNext, cacheVars, CacheTypeOK, CallStep, LoadStep, Tick, Write, Invalidate, Begin, Lookup, Do, End,
      LoadStart, LoadCheck, LoadRead, LoadFail, LoadSet, LoadReturn
<1> QED
  BY <1>1, <1>2, <1>3

\* Flights: what a load looked up or read is recent from its own start.
LEMMA FlightsStep == ASSUME CacheInv, [CacheNext]_cacheVars PROVE RecentFlights'
<1> SUFFICES ASSUME NEW key \in Keys, flight'[key] # None
             PROVE  /\ flight'[key].ln <= now'
                    /\ flight'[key].st = "set" => Recent(key, flight[key].ver, flight[key].ln)'
                    /\ flight'[key].st = "return" => Recent(key, flight[key].ver, flight[key].ln - TTL)'
  BY DEF RecentFlights
<1>0. CacheTypeOK /\ now \in Int /\ now' \in Int /\ now <= now' /\ ver[key] \in Versions
  BY CacheTypeStep, RecentStable, BoundsAreNatural DEF CacheInv, CacheTypeOK, Time
<1>a. ASSUME flight[key] # None PROVE flight[key] \in Flights /\ flight[key].ver \in Versions /\ flight[key].ln \in Time
             /\ flight[key].ln \in Int /\ flight[key].ln - TTL \in Int /\ flight[key].ln <= now
  BY <1>0, <1>a, BoundsAreNatural DEF CacheTypeOK, Flights, Time, CacheInv, RecentFlights
<1>b. ASSUME NEW v \in Versions, NEW t \in Int, Recent(key, v, t) PROVE Recent(key, v, t)'
  BY <1>0, <1>b, RecentStable
<1>1. CASE flight'[key] = flight[key]
  BY <1>0, <1>1, <1>a, RecentStable DEF CacheInv, RecentFlights, Recent, CurrentSince
<1>2. CASE flight'[key] = [st |-> "start", ln |-> 0, ver |-> 0]
  BY <1>0, <1>2, CacheTypeStep, BoundsAreNatural DEF CacheTypeOK, Time
<1>3. CASE LoadStart(key)
  BY <1>0, <1>3, <1>a DEF LoadStart, Loading, CacheTypeOK, Flights
<1>4. CASE LoadCheck(key)
  <2>1. flight[key] \in Flights /\ flight[key].ln \in Int /\ flight[key].ln - TTL \in Int /\ flight[key].ln <= now /\ now' = now
    BY <1>4, <1>a DEF LoadCheck, Loading
  <2>2. CASE Fresh(cache[key], flight[key].ln)
    <3>1. cache[key].ver \in Versions /\ cache[key].exp \in Int /\ flight[key].ln <= cache[key].exp
      BY <1>0, <2>2 DEF Fresh, CacheTypeOK, Entries
    <3>2. Recent(key, cache[key].ver, cache[key].exp - TTL)
      BY <2>2 DEF Fresh, CacheInv, RecentEntries
    <3>3. Recent(key, cache[key].ver, flight[key].ln - TTL)
      <4>1. cache[key].exp - TTL \in Int /\ flight[key].ln - TTL <= cache[key].exp - TTL
        BY <2>1, <3>1, BoundsAreNatural
      <4> QED
        BY <1>0, <2>1, <3>1, <3>2, <4>1, RecentEarlier
    <3>4. flight'[key] = [flight[key] EXCEPT !.st = "return", !.ver = cache[key].ver]
      BY <1>0, <1>4, <2>2 DEF LoadCheck, CacheTypeOK
    <3>5. flight'[key].st = "return" /\ flight'[key].ver = cache[key].ver /\ flight'[key].ln = flight[key].ln
      BY <2>1, <3>4 DEF Flights
    <3> QED
      BY <1>0, <2>1, <3>1, <3>3, <3>5, RecentStable DEF Recent, CurrentSince
  <2>3. CASE ~Fresh(cache[key], flight[key].ln)
    <3>1. flight'[key] = [flight[key] EXCEPT !.st = "read"]
      BY <1>0, <1>4, <2>3 DEF LoadCheck, CacheTypeOK
    <3> QED
      BY <2>1, <3>1 DEF Flights
  <2> QED
    BY <2>2, <2>3
<1>5. CASE LoadRead(key)
  <2>1. flight[key] \in Flights /\ flight[key].ln \in Int /\ flight[key].ln <= now
    BY <1>5, <1>a DEF LoadRead, Loading
  <2>2. flight'[key] = [flight[key] EXCEPT !.st = "set", !.ver = ver[key]]
    BY <1>0, <1>5 DEF LoadRead, CacheTypeOK
  <2>3. flight'[key].st = "set" /\ flight'[key].ver = ver[key] /\ flight'[key].ln = flight[key].ln
    BY <2>1, <2>2 DEF Flights
  <2>4. now' = now /\ ver' = ver /\ born' = born
    BY <1>5 DEF LoadRead
  <2> QED
    BY <1>0, <2>1, <2>3, <2>4, BoundsAreNatural DEF Recent, CurrentSince, Versions
<1>6. CASE LoadFail(key)
  BY <1>0, <1>6, <1>a DEF LoadFail, Loading, CacheTypeOK, Flights
<1>7. CASE LoadSet(key)
  <2>1. flight[key] \in Flights /\ flight[key].st = "set" /\ flight[key].ver \in Versions
        /\ flight[key].ln \in Int /\ flight[key].ln - TTL \in Int /\ flight[key].ln <= now
    BY <1>7, <1>a DEF LoadSet, Loading
  <2>2. Recent(key, flight[key].ver, flight[key].ln)
    BY <1>7, <2>1 DEF CacheInv, RecentFlights, LoadSet, Loading
  <2>3. Recent(key, flight[key].ver, flight[key].ln - TTL)
    <3>1. flight[key].ln - TTL <= flight[key].ln
      BY <2>1, BoundsAreNatural
    <3> QED
      BY <1>0, <2>1, <2>2, <3>1, RecentEarlier
  <2>4. flight'[key].st = "return" /\ flight'[key].ver = flight[key].ver /\ flight'[key].ln = flight[key].ln
    BY <1>0, <1>7, <2>1 DEF LoadSet, CacheTypeOK, Flights
  <2>5. now' = now /\ ver' = ver /\ born' = born
    BY <1>7 DEF LoadSet
  <2> QED
    BY <2>1, <2>3, <2>4, <2>5 DEF Recent, CurrentSince
<1>8. \/ flight'[key] = flight[key]
      \/ flight'[key] = [st |-> "start", ln |-> 0, ver |-> 0]
      \/ LoadStart(key) \/ LoadCheck(key) \/ LoadRead(key) \/ LoadFail(key) \/ LoadSet(key)
  BY <1>0 DEF CacheNext, cacheVars, CacheTypeOK, CallStep, LoadStep, Tick, Write, Invalidate, Begin, Lookup, Do, End,
      LoadStart, LoadCheck, LoadRead, LoadFail, LoadSet, LoadReturn
<1> QED
  BY <1>1, <1>2, <1>3, <1>4, <1>5, <1>6, <1>7, <1>8

\* Calls: a hit is as recent as the entry was when the call began, and a shared
\* answer as the load was when it began.
LEMMA CallsStep == ASSUME CacheInv, [CacheNext]_cacheVars PROVE RecentCalls'
<1> SUFFICES ASSUME NEW c \in Callers, call'[c] # None
             PROVE  /\ call'[c].t <= now'
                    /\ call'[c].st = "done" => Recent(call[c].k, call[c].ver, call[c].t - TTL)'
  BY DEF RecentCalls
<1>0. CacheTypeOK /\ now \in Int /\ now' \in Int /\ now <= now'
  BY CacheTypeStep, RecentStable, BoundsAreNatural DEF CacheInv, CacheTypeOK, Time
<1>a. ASSUME call[c] # None PROVE call[c] \in Calls /\ call[c].k \in Keys /\ call[c].ver \in Versions
             /\ call[c].t \in Int /\ call[c].t - TTL \in Int /\ call[c].t <= now
  BY <1>0, <1>a, BoundsAreNatural DEF CacheTypeOK, Calls, Time, CacheInv, RecentCalls
<1>1. CASE call'[c] = call[c]
  BY <1>0, <1>1, <1>a, RecentStable DEF CacheInv, RecentCalls, Recent, CurrentSince
<1>2. ASSUME NEW key \in Keys, Begin(c, key)
      PROVE  call'[c].t <= now' /\ call'[c].st # "done"
  BY <1>0, <1>2 DEF Begin, CacheTypeOK
<1>3. CASE Lookup(c)
  <2>1. call[c] \in Calls /\ call[c].k \in Keys /\ call[c].t \in Int /\ call[c].t - TTL \in Int /\ call[c].t <= now
    BY <1>3, <1>a DEF Lookup
  <2>2. now' = now /\ ver' = ver /\ born' = born
    BY <1>3 DEF Lookup
  <2>3. CASE Fresh(cache[call[c].k], call[c].t)
    <3>1. cache[call[c].k] \in Entries
      BY <1>0, <2>1, <2>3 DEF Fresh, CacheTypeOK
    <3>2. cache[call[c].k].ver \in Versions /\ cache[call[c].k].exp \in Int /\ call[c].t <= cache[call[c].k].exp
      BY <2>3, <3>1 DEF Fresh, Entries
    <3>3. Recent(call[c].k, cache[call[c].k].ver, cache[call[c].k].exp - TTL)
      BY <2>1, <2>3 DEF Fresh, CacheInv, RecentEntries
    <3>4. Recent(call[c].k, cache[call[c].k].ver, call[c].t - TTL)
      <4>1. cache[call[c].k].exp - TTL \in Int /\ call[c].t - TTL <= cache[call[c].k].exp - TTL
        BY <2>1, <3>2, BoundsAreNatural
      <4> QED
        BY <1>0, <2>1, <3>2, <3>3, <4>1, RecentEarlier
    <3>5. call'[c] = [call[c] EXCEPT !.st = "done", !.ver = cache[call[c].k].ver]
      BY <1>0, <1>3, <2>3 DEF Lookup, CacheTypeOK
    <3>6. call'[c].k = call[c].k /\ call'[c].ver = cache[call[c].k].ver /\ call'[c].t = call[c].t
      BY <2>1, <3>5 DEF Calls
    <3> QED
      BY <2>1, <2>2, <3>4, <3>6 DEF Recent, CurrentSince
  <2>4. CASE ~Fresh(cache[call[c].k], call[c].t)
    <3>1. call'[c] = [call[c] EXCEPT !.st = "do"]
      BY <1>0, <1>3, <2>4 DEF Lookup, CacheTypeOK
    <3> QED
      BY <2>1, <2>2, <3>1 DEF Calls
  <2> QED
    BY <2>3, <2>4
<1>4. CASE Do(c)
  BY <1>0, <1>4, <1>a DEF Do, CacheTypeOK, Calls
<1>5. ASSUME NEW key \in Keys, LoadReturn(key), c \in Released(key)
      PROVE  /\ call'[c].t <= now'
             /\ call'[c].st = "done" => Recent(call[c].k, call[c].ver, call[c].t - TTL)'
  <2>1. call[c] \in Calls /\ call[c].k = key /\ call[c].t \in Int /\ call[c].t <= now
    BY <1>5, <1>a DEF Released, Waiting
  <2>2. flight[key] \in Flights /\ flight[key].ver \in Versions /\ flight[key].ln \in Int /\ flight[key].ln <= now
    <3>1. flight[key] # None
      BY <1>5 DEF LoadReturn, Loading
    <3>2. flight[key] \in Flights
      BY <1>0, <3>1 DEF CacheTypeOK
    <3>3. flight[key].ln <= now
      BY <3>1 DEF CacheInv, RecentFlights
    <3> QED
      BY <3>2, <3>3, BoundsAreNatural DEF Flights, Time
  <2>3. now' = now /\ ver' = ver /\ born' = born
    BY <1>5 DEF LoadReturn
  <2>4. CASE flight[key].st = "failed"
    <3>1. call'[c] = [call[c] EXCEPT !.st = "failed"]
      BY <1>5, <2>4 DEF LoadReturn
    <3> QED
      BY <2>1, <2>3, <3>1 DEF Calls
  <2>5. CASE flight[key].st # "failed"
    <3> DEFINE s == IF call[c].t < flight[key].ln THEN call[c].t ELSE flight[key].ln
    <3>1. call'[c] = [call[c] EXCEPT !.st = "done", !.ver = flight[key].ver, !.t = s]
      BY <1>5, <2>5 DEF LoadReturn
    <3>2. s \in Int /\ s <= flight[key].ln /\ s <= now
      BY <2>1, <2>2
    <3>3. Recent(key, flight[key].ver, flight[key].ln - TTL)
      BY <1>5, <2>5 DEF LoadReturn, Loading, CacheInv, RecentFlights
    <3>4. Recent(key, flight[key].ver, s - TTL)
      <4>1. s - TTL \in Int /\ flight[key].ln - TTL \in Int /\ s - TTL <= flight[key].ln - TTL
        BY <2>2, <3>2, BoundsAreNatural
      <4> HIDE DEF s
      <4> QED
        BY <1>0, <2>2, <3>3, <4>1, RecentEarlier
    <3>5. call'[c].k = key /\ call'[c].ver = flight[key].ver /\ call'[c].t = s
      BY <2>1, <3>1 DEF Calls
    <3> HIDE DEF s
    <3> QED
      BY <2>3, <3>2, <3>4, <3>5 DEF Recent, CurrentSince
  <2> QED
    BY <2>4, <2>5
<1>6. \/ call'[c] = call[c]
      \/ \E key \in Keys : Begin(c, key)
      \/ Lookup(c) \/ Do(c)
      \/ \E key \in Keys : LoadReturn(key) /\ c \in Released(key)
  BY <1>0 DEF CacheNext, cacheVars, CacheTypeOK, CallStep, LoadStep, Tick, Write, Invalidate, Begin, Lookup, Do, End,
      LoadStart, LoadCheck, LoadRead, LoadFail, LoadSet, LoadReturn
<1> QED
  BY <1>1, <1>2, <1>3, <1>4, <1>5, <1>6

\* The invariant holds in every state.
THEOREM CacheInvariance == CacheSpec => []CacheInv
<1>1. CacheInv /\ [CacheNext]_cacheVars => CacheInv'
  BY CacheTypeStep, EntriesStep, FlightsStep, CallsStep DEF CacheInv
<1> QED
  BY CacheStarts, <1>1, PTL DEF CacheSpec

\* No entry of the cache expires later than TTL after its value stopped being
\* current, whatever loads, writes and invalidations overlap.
THEOREM EntriesRecent == CacheSpec => []EntriesAreRecent
<1>1. CacheInv => EntriesAreRecent
  BY DEF CacheInv, RecentEntries, Recent, EntriesAreRecent
<1> QED
  BY CacheInvariance, <1>1, PTL

\* No getter answers with a value that stopped being current more than TTL before
\* the call, or the load it joined, began.
THEOREM AnswersRecent == CacheSpec => []AnswersAreRecent
<1>1. CacheInv => AnswersAreRecent
  BY DEF CacheInv, RecentCalls, Recent, AnswersAreRecent
<1> QED
  BY CacheInvariance, <1>1, PTL
=============================================================================
