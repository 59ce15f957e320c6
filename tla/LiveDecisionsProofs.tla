-------------------------- MODULE LiveDecisionsProofs --------------------------
(***************************************************************************)
(* Proofs about ScenarioAuthoring and LiveDecisions, for any clients,      *)
(* formulas, evaluations and numbers of rows.                              *)
(*                                                                         *)
(* A request carries what it read into the transaction that writes.  Each  *)
(* such memory is true for as long as its scenario exists: identifiers are *)
(* not used again, a committed iteration stays committed, and the versions *)
(* below the one a request chose stay taken.                               *)
(***************************************************************************)
EXTENDS LiveDecisions, FiniteSetTheorems, WellFoundedInduction, TLAPS

-----------------------------------------------------------------------------
\* Numbers.
LEMMA LargestExists ==
    ASSUME NEW n \in Nat, NEW S, S \subseteq 1 .. n, S # {}
    PROVE  \E m \in S : \A k \in S : k <= m
<1> DEFINE T == {n - k : k \in S}
<1>1. T \subseteq Nat /\ T # {}
  <2>1. \A k \in S : n - k \in Nat
    OBVIOUS
  <2> QED
    BY <2>1
<1>2. \E x \in T : \A y \in T : ~(<<y, x>> \in OpToRel(<, Nat))
  BY <1>1, NatLessThanWellFounded, WFMin
<1>3. PICK x \in T : \A y \in T : ~(y < x)
  BY <1>1, <1>2 DEF OpToRel
<1>4. PICK m \in S : x = n - m
  BY <1>3
<1>5. ASSUME NEW k \in S PROVE k <= m
  <2>1. ~(n - k < n - m) /\ k \in Nat /\ m \in Nat
    BY <1>3, <1>4
  <2> QED
    BY <2>1
<1> QED
  BY <1>5

\* Renumber keeps the order and takes as many numbers as there are rows.
LEMMA RenumberOrder ==
    ASSUME NEW n \in Nat, NEW S, S \subseteq 1 .. n, NEW first \in Nat
    PROVE  /\ DOMAIN Renumber(S, first) = S /\ Cardinality(S) \in Nat
           /\ \A x \in S : Renumber(S, first)[x] \in first .. first + Cardinality(S) - 1
           /\ \A x, y \in S : x < y => Renumber(S, first)[x] < Renumber(S, first)[y]
<1> DEFINE Below(x) == {y \in S : y < x}
<1>1. IsFiniteSet(S) /\ Cardinality(S) \in Nat
  <2>1. IsFiniteSet(1 .. n) /\ S \in SUBSET (1 .. n)
    BY FS_Interval
  <2> QED
    BY <2>1, FS_Subset, FS_CardinalityType
<1>2. ASSUME NEW T, T \subseteq S
      PROVE  IsFiniteSet(T) /\ Cardinality(T) \in Nat
  BY <1>1, <1>2, FS_Subset, FS_CardinalityType
<1>3. ASSUME NEW T, NEW U, T \subseteq U, U \subseteq S, NEW x \in U, x \notin T
      PROVE  Cardinality(T) < Cardinality(U)
  <2>1. Cardinality(T) <= Cardinality(U) /\ (Cardinality(U) = Cardinality(T) => U = T)
    BY <1>2, <1>3, FS_Subset
  <2>2. T # U
    BY <1>3
  <2>3. T \subseteq S
    BY <1>3
  <2>4. Cardinality(T) \in Nat /\ Cardinality(U) \in Nat
    BY <1>2, <1>3, <2>3
  <2> QED
    BY <2>1, <2>2, <2>4
<1>4. \A x \in S : Below(x) \subseteq S /\ x \in S /\ x \notin Below(x)
  OBVIOUS
<1>5. ASSUME NEW x \in S PROVE Renumber(S, first)[x] \in first .. first + Cardinality(S) - 1
  <2>1. Cardinality(Below(x)) < Cardinality(S)
    BY <1>3, <1>4
  <2>2. Cardinality(Below(x)) \in Nat
    BY <1>2
  <2> QED
    BY <1>1, <2>1, <2>2 DEF Renumber
<1>6. ASSUME NEW x \in S, NEW y \in S, x < y PROVE Renumber(S, first)[x] < Renumber(S, first)[y]
  <2>1. Below(x) \subseteq Below(y) /\ x \in Below(y) /\ x \notin Below(x) /\ Below(y) \subseteq S
    <3>1. \A z \in S : z \in Nat
      OBVIOUS
    <3>2. ~(x < x) /\ \A z \in S : z < x => z < y
      BY <1>6, <3>1
    <3> QED
      BY <1>6, <3>2, Zenon
  <2>2. Cardinality(Below(x)) < Cardinality(Below(y))
    BY <1>3, <2>1
  <2>3. Cardinality(Below(x)) \in Nat /\ Cardinality(Below(y)) \in Nat
    BY <1>2
  <2> QED
    BY <2>2, <2>3 DEF Renumber
<1> QED
  BY <1>1, <1>5, <1>6 DEF Renumber
-----------------------------------------------------------------------------
\* The rows, and what is true of them.
TablesTyped ==
    /\ scenarios \in [ScenarioIDs -> ScenarioRow \cup {NoRow}]
    /\ iterations \in [IterationIDs -> IterationRow \cup {NoRow}]
    /\ rules \in [RuleIDs -> RuleRow \cup {NoRow}]
    /\ nextID \in [scn : Nat \ {0}, iter : Nat \ {0}, rule : Nat \ {0}]

\* Identifiers come in order, and an iteration belongs to a scenario.
Fresh ==
    /\ \A s \in ScenarioIDs : ScenarioExists(s) => s < nextID.scn
    /\ \A i \in IterationIDs : iterations[i] # NoRow => i < nextID.iter /\ ScenarioExists(iterations[i].scn)
    /\ \A r \in RuleIDs : rules[r] # NoRow => r < nextID.rule

\* The versions below v are taken.
Taken(s, v) == \A u \in 1 .. v - 1 : \E j \in IterationsOf(s) : iterations[j].ver = u
VersionsDense == \A s \in ScenarioIDs : \A i \in IterationsOf(s) : iterations[i].ver >= 1 /\ Taken(s, iterations[i].ver)

RowsInv == TablesTyped /\ Fresh /\ VersionsDense /\ LiveIsCommitted /\ VersionsFollowCreation

\* What a request knows between its steps.
Older(s) == s \in ScenarioIDs /\ s < nextID.scn
StaysLive(s, i) == ScenarioExists(s) /\ i # NoID => IterationOf(s, i) /\ iterations[i].status = "committed"
Snapshot(its) ==
    /\ its \in [DOMAIN its -> IterationRow] /\ DOMAIN its \subseteq IterationIDs
    /\ \A i, j \in DOMAIN its : i < j => its[i].ver < its[j].ver
    /\ \A i \in DOMAIN its : /\ its[i].ver >= 1
                             /\ \A u \in 1 .. its[i].ver - 1 : \E j \in DOMAIN its : its[j].ver = u
Knows(q) ==
    q # NoRequest =>
      /\ q.op = "update_scenario" => Older(q.s) /\ q.row \in ScenarioRow /\ StaysLive(q.s, q.row.live)
      /\ q.op = "copy" => /\ q.row \in ScenarioRow /\ Snapshot(q.its)
                          /\ q.row.live \in DOMAIN q.its => q.its[q.row.live].status = "committed"
      /\ q.op \in {"create_draft", "clone_draft"} => Older(q.s) /\ q.v \in Nat \ {0} /\ (ScenarioExists(q.s) => Taken(q.s, q.v))
      /\ q.op = "clone_draft" => q.row \in IterationRow /\ q.row.scn = q.s
      /\ q.op = "update_draft" => q.row \in IterationRow
      /\ q.op \in {"create_rule", "update_rule"} => q.row \in RuleRow /\ q.row.iter = q.i
      /\ q.op = "commit" => q \in [op : {"commit"}, s : ScenarioIDs, i : IterationIDs, phase : {"validated", "draft"}]
      /\ q.op = "publish" => Older(q.s) /\ q.i \in IterationIDs /\ StaysLive(q.s, q.i)

RequestsKnow == req = [c \in Clients |-> req[c]] /\ \A c \in Clients : Knows(req[c])

AuthoringInv == RowsInv /\ RequestsKnow

\* What every step leaves: no scenario comes back, and while it exists its
\* iterations stay, with their versions, and stay committed.
Kept ==
    /\ nextID.scn <= nextID'.scn
    /\ \A s \in ScenarioIDs : s < nextID.scn /\ ScenarioExists(s)' => ScenarioExists(s)
    /\ \A s \in ScenarioIDs, i \in IterationIDs :
          ScenarioExists(s)' /\ IterationOf(s, i) =>
            /\ IterationOf(s, i)' /\ iterations'[i].ver = iterations[i].ver
            /\ iterations[i].status = "committed" => iterations'[i].status = "committed"

\* A step that leaves the row of an iteration and its rules alone.
Spared(j) ==
    /\ iterations'[j] = iterations[j]
    /\ \A r \in RuleIDs : (RuleOf(j, r)' <=> RuleOf(j, r)) /\ (RuleOf(j, r) => rules'[r] = rules[r])

LEMMA UnchangedSpares == ASSUME UNCHANGED <<iterations, rules>> PROVE \A j \in IterationIDs : Spared(j)
BY DEF Spared, RuleOf

LEMMA KnowsKept ==
    ASSUME TablesTyped, TablesTyped', Kept
    PROVE  /\ \A s : Older(s) => Older(s)'
           /\ \A s, i : Older(s) /\ StaysLive(s, i) => StaysLive(s, i)'
           /\ \A s, v : Older(s) /\ (ScenarioExists(s) => Taken(s, v)) => (ScenarioExists(s) => Taken(s, v))'
<1>1. nextID.scn \in Nat /\ nextID'.scn \in Nat
  BY DEF TablesTyped
<1>2. \A s : Older(s) => Older(s)'
  BY <1>1 DEF Older, Kept, ScenarioIDs
<1>3. ASSUME NEW s, NEW i, Older(s), StaysLive(s, i) PROVE StaysLive(s, i)'
  BY <1>3 DEF Older, StaysLive, Kept, IterationOf
<1>4. ASSUME NEW s, NEW v, Older(s), ScenarioExists(s) => Taken(s, v) PROVE (ScenarioExists(s) => Taken(s, v))'
  <2> SUFFICES ASSUME ScenarioExists(s)', NEW u \in 1 .. v - 1 PROVE \E j \in IterationsOf(s)' : iterations'[j].ver = u
    BY DEF Taken
  <2>1. ScenarioExists(s)
    BY <1>4 DEF Older, Kept
  <2>2. PICK j \in IterationsOf(s) : iterations[j].ver = u
    BY <1>4, <2>1 DEF Taken
  <2>3. j \in IterationsOf(s)' /\ iterations'[j].ver = u
    BY <1>4, <2>2 DEF Older, Kept, IterationsOf, IterationIDs
  <2> QED
    BY <2>3
<1> QED
  BY <1>2, <1>3, <1>4

LEMMA RequestKept ==
    ASSUME TablesTyped, TablesTyped', Kept, NEW q, Knows(q)
    PROVE  Knows(q)'
BY KnowsKept DEF Knows, Snapshot

\* A step of one client: the others still know.
LEMMA OthersKnow ==
    ASSUME TablesTyped, TablesTyped', RequestsKnow, Kept, NEW c \in Clients,
           NEW q, req' = [req EXCEPT ![c] = q], Knows(q)'
    PROVE  RequestsKnow'
<1>1. req' = [d \in Clients |-> req'[d]]
  BY DEF RequestsKnow
<1>2. ASSUME NEW d \in Clients PROVE Knows(req[d])'
  <2>1. PICK p : p = req'[d]
    OBVIOUS
  <2>2. Knows(p)'
    <3>1. CASE d = c
      BY <2>1, <3>1 DEF RequestsKnow
    <3>2. CASE d # c
      <4>1. p = req[d]
        BY <2>1, <3>2 DEF RequestsKnow
      <4>2. Knows(p)
        BY <4>1 DEF RequestsKnow
      <4> QED
        BY <4>2, RequestKept
    <3> QED
      BY <3>1, <3>2
  <2> QED
    BY <2>1, <2>2 DEF Knows, Older, StaysLive, Snapshot, Taken
<1> QED
  BY <1>1, <1>2 DEF RequestsKnow

\* A request that only reads.
LEMMA ReadStep ==
    ASSUME AuthoringInv, UNCHANGED tables, NEW c \in Clients, NEW q, req' = [req EXCEPT ![c] = q], Knows(q)
    PROVE  AuthoringInv' /\ Kept
<1>1. RowsInv' /\ Kept
  BY DEF tables, AuthoringInv, RowsInv, TablesTyped, Fresh, VersionsDense, LiveIsCommitted, VersionsFollowCreation,
         Kept, Taken, IterationsOf, IterationOf, ScenarioExists
<1>2. Knows(q)'
  BY <1>1, RequestKept DEF AuthoringInv, RowsInv
<1> QED
  BY <1>1, <1>2, OthersKnow DEF AuthoringInv, RowsInv

LEMMA NobodyKnows == Knows(NoRequest)
BY DEF Knows

LEMMA RefuseStep == ASSUME AuthoringInv, NEW c \in Clients, Refuse(c) PROVE AuthoringInv' /\ Kept
BY ReadStep, NobodyKnows DEF Refuse, Close

\* A request that writes and ends.
LEMMA WriteStepKnows ==
    ASSUME AuthoringInv, RowsInv', Kept, NEW c \in Clients, Close(c)
    PROVE  AuthoringInv'
<1>1. Knows(NoRequest)'
  BY DEF Knows
<1> QED
  BY <1>1, OthersKnow DEF Close, AuthoringInv, RowsInv
-----------------------------------------------------------------------------
\* Versions.
LEMMA VersionsTyped ==
    ASSUME TablesTyped, NEW s, NEW i \in IterationsOf(s)
    PROVE  i \in IterationIDs /\ iterations[i] \in IterationRow /\ iterations[i].scn = s /\ iterations[i].ver \in Nat
BY DEF TablesTyped, IterationsOf, IterationOf, IterationRow

\* NextVersion is above every version, and those below it are taken.
LEMMA NextVersionTakes ==
    ASSUME RowsInv, NEW s \in ScenarioIDs
    PROVE  NextVersion(s) \in Nat \ {0} /\ Taken(s, NextVersion(s))
<1>1. CASE IterationsOf(s) = {}
  BY <1>1 DEF NextVersion, Taken
<1>2. CASE IterationsOf(s) # {}
  <2> DEFINE Vs == {iterations[i].ver : i \in IterationsOf(s)}
             top == CHOOSE v \in Vs : \A i \in IterationsOf(s) : iterations[i].ver <= v
  <2>1. IterationsOf(s) \subseteq 1 .. MaxIterations /\ MaxIterations \in Nat
    BY AuthoringAssumption DEF IterationsOf, IterationIDs
  <2>2. PICK m \in IterationsOf(s) : \A k \in IterationsOf(s) : k <= m
    BY <1>2, <2>1, LargestExists
  <2>3. \A k \in IterationsOf(s) : iterations[k].ver <= iterations[m].ver
    <3> SUFFICES ASSUME NEW k \in IterationsOf(s) PROVE iterations[k].ver <= iterations[m].ver
      OBVIOUS
    <3>1. k \in Nat /\ m \in Nat /\ k <= m
      BY <2>1, <2>2
    <3>2. iterations[k].ver \in Nat /\ iterations[m].ver \in Nat
      BY VersionsTyped DEF RowsInv
    <3>3. k < m => iterations[k].ver < iterations[m].ver
      BY DEF RowsInv, VersionsFollowCreation
    <3> QED
      BY <3>1, <3>2, <3>3
  <2>4. iterations[m].ver \in Vs
    OBVIOUS
  <2>5. top \in Vs /\ \A i \in IterationsOf(s) : iterations[i].ver <= top
    BY <2>3, <2>4
  <2>6. NextVersion(s) = 1 + top
    BY <1>2 DEF NextVersion
  <2> HIDE DEF top
  <2>7. PICK j \in IterationsOf(s) : iterations[j].ver = top
    BY <2>5
  <2>8. top \in Nat /\ Taken(s, top)
    BY <2>7, VersionsTyped DEF RowsInv, VersionsDense
  <2>9. \A u \in 1 .. (1 + top) - 1 : u = top \/ u \in 1 .. top - 1
    BY <2>8
  <2>10. Taken(s, 1 + top)
    BY <2>7, <2>8, <2>9 DEF Taken
  <2> QED
    BY <2>6, <2>8, <2>10
<1> QED
  BY <1>1, <1>2

\* A version that is free, with those below it taken, is above every version.
LEMMA FreeIsAbove ==
    ASSUME RowsInv, NEW s \in ScenarioIDs, NEW v \in Nat \ {0}, Taken(s, v), VersionFree(s, v)
    PROVE  \A i \in IterationsOf(s) : iterations[i].ver < v
<1> SUFFICES ASSUME NEW i \in IterationsOf(s), ~(iterations[i].ver < v) PROVE FALSE
  OBVIOUS
<1>1. iterations[i].ver \in Nat /\ iterations[i].ver # v
  BY VersionsTyped DEF RowsInv, VersionFree
<1>2. v \in 1 .. iterations[i].ver - 1
  BY <1>1
<1>3. PICK j \in IterationsOf(s) : iterations[j].ver = v
  BY <1>2 DEF RowsInv, VersionsDense, Taken
<1> QED
  BY <1>3 DEF VersionFree

-----------------------------------------------------------------------------
\* The kinds of writes.
LEMMA ScenarioWritten ==
    ASSUME RowsInv, NEW s \in ScenarioIDs, ScenarioExists(s), NEW row \in ScenarioRow, StaysLive(s, row.live),
           scenarios' = [scenarios EXCEPT ![s] = row], UNCHANGED <<iterations, rules, nextID>>
    PROVE  RowsInv' /\ Kept
<1>1. TablesTyped' /\ \A t \in ScenarioIDs : ScenarioExists(t)' <=> ScenarioExists(t)
  BY AuthoringAssumption DEF RowsInv, TablesTyped, ScenarioExists
<1>2. \A t, i : IterationOf(t, i)' <=> IterationOf(t, i)
  BY DEF IterationOf
<1>3. \A t : IterationsOf(t)' = IterationsOf(t)
  BY DEF IterationsOf, IterationOf
<1>4. Fresh'
  BY <1>1 DEF RowsInv, Fresh, ScenarioExists
<1>5. VersionsDense' /\ VersionsFollowCreation'
  BY <1>3 DEF RowsInv, VersionsDense, VersionsFollowCreation, Taken
<1>6. LiveIsCommitted'
  BY <1>1, <1>2 DEF RowsInv, LiveIsCommitted, StaysLive, TablesTyped
<1>7. Kept
  BY <1>1, <1>2 DEF Kept, RowsInv, TablesTyped
<1> QED
  BY <1>1, <1>4, <1>5, <1>6, <1>7 DEF RowsInv

LEMMA RulesWritten ==
    ASSUME RowsInv, UNCHANGED <<scenarios, iterations>>, rules' \in [RuleIDs -> RuleRow \cup {NoRow}],
           NEW n \in Nat, nextID' = [nextID EXCEPT !.rule = n], nextID.rule <= n,
           \A r \in RuleIDs : rules'[r] # NoRow => r < n
    PROVE  RowsInv' /\ Kept
<1>1. TablesTyped' /\ nextID'.scn = nextID.scn /\ nextID'.iter = nextID.iter /\ nextID'.rule = n
  BY DEF RowsInv, TablesTyped
<1>2. Fresh'
  BY <1>1 DEF RowsInv, Fresh, ScenarioExists
<1>3. VersionsDense' /\ LiveIsCommitted' /\ VersionsFollowCreation'
  BY DEF RowsInv, VersionsDense, LiveIsCommitted, VersionsFollowCreation, Taken, IterationsOf, IterationOf, ScenarioExists
<1>4. Kept
  BY <1>1 DEF Kept, IterationOf, ScenarioExists, RowsInv, TablesTyped
<1> QED
  BY <1>1, <1>2, <1>3, <1>4 DEF RowsInv

\* The trigger, the thresholds or the status of an iteration.
LEMMA IterationWritten ==
    ASSUME RowsInv, NEW i \in IterationIDs, iterations[i] # NoRow, NEW row \in IterationRow,
           row.scn = iterations[i].scn, row.ver = iterations[i].ver,
           iterations[i].status = "committed" => row.status = "committed",
           iterations' = [iterations EXCEPT ![i] = row], UNCHANGED <<scenarios, rules, nextID>>
    PROVE  RowsInv' /\ Kept
<1>1. /\ TablesTyped'
      /\ \A j \in IterationIDs : /\ iterations'[j] # NoRow <=> iterations[j] # NoRow
                                 /\ iterations'[j] # NoRow => /\ iterations'[j].scn = iterations[j].scn
                                                              /\ iterations'[j].ver = iterations[j].ver
                                                              /\ iterations[j].status = "committed" => iterations'[j].status = "committed"
  BY AuthoringAssumption DEF RowsInv, TablesTyped
<1>2. \A t, j : IterationOf(t, j)' <=> IterationOf(t, j)
  BY <1>1 DEF IterationOf
<1>3. \A t : IterationsOf(t)' = IterationsOf(t)
  BY <1>2 DEF IterationsOf
<1>4. \A t : \A j \in IterationsOf(t) : iterations'[j].ver = iterations[j].ver
  BY <1>1 DEF IterationsOf, IterationOf
<1>5. Fresh'
  BY <1>1 DEF RowsInv, Fresh, ScenarioExists
<1>6. VersionsDense' /\ VersionsFollowCreation'
  BY <1>3, <1>4 DEF RowsInv, VersionsDense, VersionsFollowCreation, Taken
<1>7. LiveIsCommitted'
  BY <1>1, <1>2 DEF RowsInv, LiveIsCommitted, ScenarioExists, IterationOf
<1>8. Kept
  BY <1>1, <1>2 DEF Kept, RowsInv, TablesTyped, ScenarioExists, IterationOf
<1> QED
  BY <1>1, <1>5, <1>6, <1>7, <1>8 DEF RowsInv
LEMMA IterationInserted ==
    ASSUME RowsInv, NEW s \in ScenarioIDs, ScenarioExists(s), NEW row \in IterationRow, row.scn = s, row.ver # 0,
           Taken(s, row.ver), VersionFree(s, row.ver),
           nextID.iter <= MaxIterations, iterations' = [iterations EXCEPT ![nextID.iter] = row],
           scenarios' = scenarios, rules' \in [RuleIDs -> RuleRow \cup {NoRow}],
           NEW m \in Nat, nextID' = [scn |-> nextID.scn, iter |-> nextID.iter + 1, rule |-> m], nextID.rule <= m,
           \A r \in RuleIDs : rules'[r] # NoRow => r < m
    PROVE  RowsInv' /\ Kept
<1> DEFINE n == nextID.iter
<1>1. TablesTyped /\ n \in IterationIDs /\ n \in Nat \ {0} /\ nextID.rule \in Nat \ {0}
  BY AuthoringAssumption DEF RowsInv, TablesTyped, IterationIDs
<1>2. nextID'.scn = nextID.scn /\ nextID'.iter = n + 1 /\ nextID'.rule = m /\ nextID' \in [scn : Nat \ {0}, iter : Nat \ {0}, rule : Nat \ {0}]
  <2> DEFINE k == n + 1
  <2>1. k \in Nat \ {0} /\ m \in Nat \ {0}
    BY <1>1
  <2> QED
    BY <1>1, <2>1 DEF TablesTyped
<1>3. TablesTyped'
  BY <1>1, <1>2 DEF TablesTyped
<1>4. iterations[n] = NoRow
  BY <1>1 DEF RowsInv, Fresh
<1>5. /\ iterations'[n] = row /\ row # NoRow
      /\ \A j \in IterationIDs \ {n} : iterations'[j] = iterations[j]
  BY <1>1, AuthoringAssumption DEF TablesTyped
<1>6. IterationsOf(s)' = IterationsOf(s) \cup {n} /\ \A t : t # s => IterationsOf(t)' = IterationsOf(t)
  BY <1>1, <1>4, <1>5 DEF IterationsOf, IterationOf
<1>7. \A t : IterationsOf(t) \subseteq IterationIDs \ {n} /\ \A j \in IterationsOf(t) : j < n /\ iterations'[j].ver = iterations[j].ver
  BY <1>4, <1>5 DEF IterationsOf, IterationOf, RowsInv, Fresh
<1>8. row.ver \in Nat \ {0} /\ \A j \in IterationsOf(s) : iterations[j].ver < row.ver
  BY FreeIsAbove DEF IterationRow
<1>9. Fresh'
  <2>1. \A t : ScenarioExists(t)' <=> ScenarioExists(t)
    BY DEF ScenarioExists
  <2>2. \A j \in IterationIDs : j < n => j < n + 1
    BY <1>1 DEF IterationIDs
  <2> QED
    BY <1>1, <1>2, <1>5, <2>1, <2>2 DEF RowsInv, Fresh
<1>10. VersionsFollowCreation'
  <2> SUFFICES ASSUME NEW t \in ScenarioIDs, NEW i \in IterationsOf(t)', NEW j \in IterationsOf(t)', i < j
               PROVE  iterations'[i].ver < iterations'[j].ver
    BY DEF VersionsFollowCreation
  <2>1. CASE i \in IterationsOf(t) /\ j \in IterationsOf(t)
    BY <1>7, <2>1 DEF RowsInv, VersionsFollowCreation
  <2>2. CASE i \in IterationsOf(t) /\ j = n
    <3>1. t = s
      BY <1>6, <1>7, <2>2
    <3> QED
      BY <1>5, <1>7, <1>8, <2>2, <3>1
  <2>3. CASE i = n
    <3>1. (j = n \/ j < n) /\ n < j
      BY <1>6, <1>7, <2>3
    <3>2. j \in Nat
      BY DEF IterationsOf, IterationIDs
    <3> QED
      BY <1>1, <3>1, <3>2
  <2> QED
    BY <1>6, <2>1, <2>2, <2>3
<1>11. VersionsDense'
  <2> SUFFICES ASSUME NEW t \in ScenarioIDs, NEW i \in IterationsOf(t)'
               PROVE  iterations'[i].ver >= 1 /\ \A u \in 1 .. iterations'[i].ver - 1 : \E j \in IterationsOf(t)' : iterations'[j].ver = u
    BY DEF VersionsDense, Taken
  <2>1. IterationsOf(t) \subseteq IterationsOf(t)'
    BY <1>6
  <2>2. CASE i \in IterationsOf(t)
    <3>1. iterations'[i].ver = iterations[i].ver
      BY <1>7, <2>2
    <3>2. iterations[i].ver >= 1 /\ Taken(t, iterations[i].ver)
      BY <2>2 DEF RowsInv, VersionsDense
    <3> QED
      BY <1>7, <2>1, <3>1, <3>2 DEF Taken
  <2>3. CASE i = n
    <3>1. t = s
      BY <1>6, <1>7, <2>3
    <3>2. iterations'[i].ver = row.ver
      BY <1>5, <2>3
    <3> QED
      BY <1>7, <1>8, <2>1, <3>1, <3>2 DEF Taken
  <2> QED
    BY <1>6, <2>2, <2>3
<1>12. \A t, j : IterationOf(t, j) => IterationOf(t, j)' /\ iterations'[j] = iterations[j]
  BY <1>4, <1>5 DEF IterationOf
<1>13. LiveIsCommitted'
  BY <1>12 DEF RowsInv, LiveIsCommitted, ScenarioExists
<1>14. Kept
  BY <1>1, <1>2, <1>12 DEF Kept, ScenarioExists, TablesTyped
<1> QED
  BY <1>3, <1>9, <1>10, <1>11, <1>13, <1>14 DEF RowsInv

\* The foreign keys of a scenario that is deleted.
LEMMA ScenarioDeleted ==
    ASSUME RowsInv, NEW c, NEW s \in ScenarioIDs, DeleteScenario(c, s)
    PROVE  RowsInv' /\ Kept
<1>1. /\ scenarios' = [scenarios EXCEPT ![s] = NoRow]
      /\ iterations' = [i \in IterationIDs |-> IF IterationOf(s, i) THEN NoRow ELSE iterations[i]]
      /\ rules' = [r \in RuleIDs |-> IF rules[r] # NoRow /\ IterationOf(s, rules[r].iter) THEN NoRow ELSE rules[r]]
      /\ nextID' = nextID
  BY DEF DeleteScenario
<1>2. /\ TablesTyped' /\ ~ScenarioExists(s)'
      /\ \A t \in ScenarioIDs \ {s} : scenarios'[t] = scenarios[t]
      /\ \A j \in IterationIDs : iterations'[j] # NoRow => iterations[j] # NoRow /\ iterations[j].scn # s /\ iterations'[j] = iterations[j]
      /\ \A j \in IterationIDs : iterations[j] # NoRow /\ iterations[j].scn # s => iterations'[j] = iterations[j]
  BY <1>1 DEF RowsInv, TablesTyped, ScenarioExists, IterationOf
<1>3. \A t : t # s => IterationsOf(t)' = IterationsOf(t)
  BY <1>2 DEF IterationsOf, IterationOf
<1>4. IterationsOf(s)' = {}
  BY <1>2 DEF IterationsOf, IterationOf
<1>5. \A t : t # s => \A j \in IterationsOf(t) : iterations'[j] = iterations[j]
  BY <1>2 DEF IterationsOf, IterationOf
<1>6. \A t \in ScenarioIDs : ScenarioExists(t)' => t # s /\ ScenarioExists(t)
  BY <1>2 DEF ScenarioExists
<1>7. Fresh'
  BY <1>1, <1>2, <1>6 DEF RowsInv, Fresh, ScenarioExists
<1>8. VersionsDense' /\ VersionsFollowCreation'
  BY <1>3, <1>4, <1>5 DEF RowsInv, VersionsDense, VersionsFollowCreation, Taken
<1>9. \A t, j : t # s /\ IterationOf(t, j) => IterationOf(t, j)' /\ iterations'[j] = iterations[j]
  BY <1>2 DEF IterationOf
<1>10. LiveIsCommitted'
  BY <1>2, <1>6, <1>9 DEF RowsInv, LiveIsCommitted
<1>11. Kept
  <2>1. nextID.scn <= nextID'.scn
    BY <1>1 DEF RowsInv, TablesTyped
  <2>2. ASSUME NEW t \in ScenarioIDs, NEW j \in IterationIDs, ScenarioExists(t)', IterationOf(t, j)
        PROVE  IterationOf(t, j)' /\ iterations'[j] = iterations[j]
    BY <1>6, <1>9, <2>2
  <2> QED
    BY <1>6, <2>1, <2>2 DEF Kept
<1> QED
  BY <1>2, <1>7, <1>8, <1>10, <1>11 DEF RowsInv
\* A copy: its iterations are those that were read, under new identifiers in the
\* same order.
LEMMA IterationsCopied ==
    ASSUME TablesTyped, Fresh, NEW its, Snapshot(its), NEW s2 \in ScenarioIDs, ~ScenarioExists(s2),
           nextID.iter + Cardinality(DOMAIN its) - 1 <= MaxIterations,
           NEW newI, newI = Renumber(DOMAIN its, nextID.iter),
           iterations' = [i \in IterationIDs |-> iterations'[i]],
           \A i \in IterationIDs : \/ \E o \in DOMAIN its : newI[o] = i /\ iterations'[i] = [its[o] EXCEPT !.scn = s2]
                                   \/ (\A o \in DOMAIN its : newI[o] # i) /\ iterations'[i] = iterations[i]
    PROVE  /\ Cardinality(DOMAIN its) \in Nat
           /\ iterations' \in [IterationIDs -> IterationRow \cup {NoRow}]
           /\ \A o \in DOMAIN its : /\ newI[o] \in IterationIDs /\ newI[o] >= nextID.iter
                                    /\ newI[o] < nextID.iter + Cardinality(DOMAIN its)
                                    /\ iterations'[newI[o]] = [its[o] EXCEPT !.scn = s2]
                                    /\ iterations'[newI[o]] \in IterationRow
                                    /\ iterations'[newI[o]].scn = s2 /\ iterations'[newI[o]].ver = its[o].ver
                                    /\ iterations'[newI[o]].status = its[o].status
           /\ \A o, p \in DOMAIN its : o < p <=> newI[o] < newI[p]
           /\ \A j \in IterationIDs : j < nextID.iter => iterations'[j] = iterations[j]
           /\ IterationsOf(s2)' = {newI[o] : o \in DOMAIN its}
           /\ \A t : t # s2 => IterationsOf(t)' = IterationsOf(t)
<1> DEFINE D == DOMAIN its
           n == nextID.iter
           K == Cardinality(D)
<1>1. D \subseteq 1 .. MaxIterations /\ MaxIterations \in Nat /\ n \in Nat \ {0}
  BY AuthoringAssumption DEF Snapshot, TablesTyped, IterationIDs
<1>2. /\ DOMAIN newI = D /\ K \in Nat
      /\ \A x \in D : newI[x] \in n .. n + K - 1
      /\ \A x, y \in D : x < y => newI[x] < newI[y]
  <2>1. n \in Nat
    BY <1>1
  <2> HIDE DEF n, K, D
  <2>2. /\ DOMAIN Renumber(D, n) = D /\ Cardinality(D) \in Nat
        /\ \A x \in D : Renumber(D, n)[x] \in n .. n + Cardinality(D) - 1
        /\ \A x, y \in D : x < y => Renumber(D, n)[x] < Renumber(D, n)[y]
    BY <1>1, <2>1, RenumberOrder
  <2> QED
    BY <2>2 DEF K, D, n
<1>3. \A x \in D : newI[x] \in IterationIDs /\ newI[x] \in Nat /\ newI[x] >= n /\ newI[x] < n + K
  <2> SUFFICES ASSUME NEW x \in D PROVE newI[x] \in IterationIDs /\ newI[x] \in Nat /\ newI[x] >= n /\ newI[x] < n + K
    OBVIOUS
  <2>1. n + K - 1 <= MaxIterations
    OBVIOUS
  <2> HIDE DEF n, K, D
  <2> QED
    BY <1>1, <1>2, <2>1 DEF IterationIDs
<1>4. \A o, p \in D : (o < p <=> newI[o] < newI[p]) /\ (newI[o] = newI[p] => o = p)
  <2> SUFFICES ASSUME NEW o \in D, NEW p \in D
               PROVE  (o < p <=> newI[o] < newI[p]) /\ (newI[o] = newI[p] => o = p)
    OBVIOUS
  <2>1. o \in Nat /\ p \in Nat /\ newI[o] \in Nat /\ newI[p] \in Nat
    BY <1>1, <1>3
  <2> HIDE DEF D
  <2>2. (o < p => newI[o] < newI[p]) /\ (p < o => newI[p] < newI[o])
    BY <1>2
  <2> QED
    BY <2>1, <2>2
<1>6. \A o \in D : iterations'[newI[o]] = [its[o] EXCEPT !.scn = s2]
  BY <1>3, <1>4
<1>7. \A o \in D : /\ [its[o] EXCEPT !.scn = s2] \in IterationRow /\ [its[o] EXCEPT !.scn = s2].scn = s2
                   /\ [its[o] EXCEPT !.scn = s2].ver = its[o].ver /\ [its[o] EXCEPT !.scn = s2].status = its[o].status
  BY DEF Snapshot, IterationRow
<1>8. \A j \in IterationIDs : (\A o \in D : newI[o] # j) => iterations'[j] = iterations[j]
  OBVIOUS
<1>9. \A o \in D : /\ iterations'[newI[o]] \in IterationRow /\ iterations'[newI[o]].scn = s2
                   /\ iterations'[newI[o]].ver = its[o].ver /\ iterations'[newI[o]].status = its[o].status
  <2> SUFFICES ASSUME NEW o \in D
               PROVE  /\ iterations'[newI[o]] \in IterationRow /\ iterations'[newI[o]].scn = s2
                      /\ iterations'[newI[o]].ver = its[o].ver /\ iterations'[newI[o]].status = its[o].status
    OBVIOUS
  <2>1. iterations'[newI[o]] = [its[o] EXCEPT !.scn = s2]
    BY <1>6
  <2> QED
    BY <1>7, <2>1
<1>10. \A j \in IterationIDs : j < n => iterations'[j] = iterations[j]
  <2>1. \A o \in D, j \in IterationIDs : j < n => newI[o] # j
    BY <1>1, <1>3 DEF IterationIDs
  <2> QED
    BY <1>8, <2>1
<1> HIDE DEF D, n, K
<1>11. \A j \in IterationIDs : iterations[j] # NoRow => iterations'[j] = iterations[j] /\ iterations[j].scn # s2
  BY <1>10 DEF Fresh, n
<1>12. \A j \in IterationIDs : iterations'[j] # NoRow => (\E o \in D : j = newI[o]) \/ iterations[j] # NoRow
  BY <1>8
<1>13. \A o \in D : iterations'[newI[o]] # NoRow
  BY <1>9, AuthoringAssumption
<1>14. IterationsOf(s2)' = {newI[o] : o \in D}
  <2>1. ASSUME NEW j \in IterationsOf(s2)' PROVE j \in {newI[o] : o \in D}
    BY <1>11, <1>12, <2>1 DEF IterationsOf, IterationOf
  <2>2. ASSUME NEW o \in D PROVE newI[o] \in IterationsOf(s2)'
    BY <1>3, <1>9, <1>13 DEF IterationsOf, IterationOf
  <2> QED
    BY <2>1, <2>2
<1>15. ASSUME NEW t, t # s2 PROVE IterationsOf(t)' = IterationsOf(t)
  <2>1. ASSUME NEW j \in IterationsOf(t)' PROVE j \in IterationsOf(t)
    BY <1>9, <1>11, <1>12, <1>15, <2>1 DEF IterationsOf, IterationOf
  <2>2. ASSUME NEW j \in IterationsOf(t) PROVE j \in IterationsOf(t)'
    BY <1>11, <2>2 DEF IterationsOf, IterationOf
  <2> QED
    BY <2>1, <2>2
<1>16. iterations' \in [IterationIDs -> IterationRow \cup {NoRow}]
  <2>1. ASSUME NEW j \in IterationIDs PROVE iterations'[j] \in IterationRow \cup {NoRow}
    <3>1. CASE \E o \in D : newI[o] = j
      BY <1>9, <3>1
    <3>2. CASE \A o \in D : newI[o] # j
      BY <1>8, <3>2 DEF TablesTyped
    <3> QED
      BY <3>1, <3>2
  <2> QED
    BY <2>1
<1> USE DEF D, n, K
<1>17. Cardinality(DOMAIN its) \in Nat
  BY <1>2
<1> QED
  BY <1>3, <1>4, <1>6, <1>9, <1>10, <1>14, <1>15, <1>16, <1>17
LEMMA RuleMoved ==
    ASSUME NEW x \in RuleRow, NEW a \in IterationIDs, NEW b \in RuleIDs
    PROVE  [x EXCEPT !.iter = a, !.stable = b] \in RuleRow
<1>1. [x EXCEPT !.iter = a] \in RuleRow
  BY DEF RuleRow
<1>2. PICK y \in RuleRow : y = [x EXCEPT !.iter = a]
  BY <1>1
<1>3. [y EXCEPT !.stable = b] \in RuleRow
  BY DEF RuleRow
<1>4. [x EXCEPT !.iter = a, !.stable = b] = [[x EXCEPT !.iter = a] EXCEPT !.stable = b]
  OBVIOUS
<1> QED
  BY <1>2, <1>3, <1>4

LEMMA RuleMovedTo ==
    ASSUME NEW x \in RuleRow, NEW a, NEW b
    PROVE  [x EXCEPT !.iter = a, !.stable = b].iter = a
<1>1. PICK y : y = [x EXCEPT !.iter = a]
  OBVIOUS
<1>2. y.iter = a /\ DOMAIN y = DOMAIN x
  BY <1>1 DEF RuleRow
<1>3. [y EXCEPT !.stable = b].iter = a
  BY <1>2
<1>4. [x EXCEPT !.iter = a, !.stable = b] = [[x EXCEPT !.iter = a] EXCEPT !.stable = b]
  OBVIOUS
<1> QED
  BY <1>1, <1>3, <1>4

\* The rules of a copy, or of a clone: every copied rule takes the next number.
LEMMA RulesCopied ==
    ASSUME TablesTyped, Fresh, NEW old, old \subseteq RuleIDs,
           nextID.rule + Cardinality(old) - 1 <= MaxRules,
           NEW newR, newR = Renumber(old, nextID.rule),
           rules' = [r \in RuleIDs |-> rules'[r]],
           \A r \in RuleIDs : IF \E o \in old : newR[o] = r THEN rules'[r] \in RuleRow ELSE rules'[r] = rules[r]
    PROVE  /\ Cardinality(old) \in Nat
           /\ rules' \in [RuleIDs -> RuleRow \cup {NoRow}]
           /\ \A r \in RuleIDs : rules'[r] # NoRow => r < nextID.rule + Cardinality(old)
           /\ \A r \in RuleIDs : rules[r] # NoRow => rules'[r] = rules[r]
           /\ \A r \in RuleIDs : r < nextID.rule => rules'[r] = rules[r]
<1> DEFINE n == nextID.rule
           K == Cardinality(old)
<1>1. old \subseteq 1 .. MaxRules /\ MaxRules \in Nat /\ n \in Nat
  BY AuthoringAssumption DEF TablesTyped, RuleIDs
<1> HIDE DEF n
<1>2. K \in Nat /\ \A x \in old : newR[x] \in n .. n + K - 1
  BY <1>1, RenumberOrder DEF n
<1> HIDE DEF K
<1>3. \A r \in RuleIDs : rules'[r] = rules[r] \/ (r >= n /\ r < n + K /\ rules'[r] \in RuleRow)
  BY <1>1, <1>2 DEF RuleIDs
<1>4. \A r \in RuleIDs : rules[r] # NoRow => r < n
  BY DEF Fresh, n
<1>5. ASSUME NEW r \in RuleIDs, rules'[r] # NoRow PROVE r < n + K
  BY <1>1, <1>2, <1>3, <1>4, <1>5 DEF RuleIDs
<1>6. ASSUME NEW r \in RuleIDs, r < n PROVE rules'[r] = rules[r]
  <2>1. r \in Nat /\ ~(r >= n)
    BY <1>1, <1>6 DEF RuleIDs
  <2> QED
    BY <2>1, <1>3
<1>7. rules' \in [RuleIDs -> RuleRow \cup {NoRow}]
  BY <1>3 DEF TablesTyped
<1> QED
  BY <1>2, <1>4, <1>5, <1>6, <1>7 DEF n, K

LEMMA ScenarioCopied ==
    ASSUME RowsInv, NEW c, CopyScenarioWrite(c), Knows(req[c])
    PROVE  RowsInv' /\ Kept /\ \A j \in IterationIDs : iterations[j] # NoRow => Spared(j)
<1>1. PICK q, its, s, n, m : q = req[c] /\ its = q.its /\ s = nextID.scn /\ n = nextID.iter /\ m = nextID.rule
  OBVIOUS
<1>2. PICK D, old, nI, nR : /\ D = DOMAIN its /\ old = {r \in RuleIDs : rules[r] # NoRow /\ rules[r].iter \in D}
                            /\ nI = Renumber(D, n) /\ nR = Renumber(old, m)
  OBVIOUS
<1>3. PICK live : live = IF q.row.live \in D THEN nI[q.row.live] ELSE NoID
  OBVIOUS
<1>4. DOMAIN nI = D
  BY <1>2 DEF Renumber
<1>5. /\ s <= MaxScenarios
      /\ n + Cardinality(D) - 1 <= MaxIterations
      /\ m + Cardinality(old) - 1 <= MaxRules
      /\ scenarios' = [scenarios EXCEPT ![s] = [type |-> q.row.type, live |-> live]]
      /\ nextID' = [scn |-> s + 1, iter |-> n + Cardinality(D), rule |-> m + Cardinality(old)]
      /\ iterations' = [i \in IterationIDs |->
            IF \E o \in DOMAIN nI : nI[o] = i
            THEN [its[CHOOSE o \in DOMAIN nI : nI[o] = i] EXCEPT !.scn = s]
            ELSE iterations[i]]
      /\ rules' = [r \in RuleIDs |-> rules'[r]]
      /\ \A r \in RuleIDs : (\E o \in old : nR[o] = r)
            => \E o \in old : rules'[r] = [rules[o] EXCEPT !.iter = nI[rules[o].iter], !.stable = r]
      /\ \A r \in RuleIDs : (\A o \in old : nR[o] # r) => rules'[r] = rules[r]
  <2> USE <1>1, <1>2, <1>3 DEF CopyScenarioWrite, ScenariosCreate
  <2>1. s <= MaxScenarios
    OBVIOUS
  <2>2. n + Cardinality(D) - 1 <= MaxIterations
    OBVIOUS
  <2>3. m + Cardinality(old) - 1 <= MaxRules
    OBVIOUS
  <2>4. scenarios' = [scenarios EXCEPT ![s] = [type |-> q.row.type, live |-> live]]
    OBVIOUS
  <2>5. nextID' = [scn |-> s + 1, iter |-> n + Cardinality(D), rule |-> m + Cardinality(old)]
    OBVIOUS
  <2>6. iterations' = [i \in IterationIDs |->
            IF \E o \in DOMAIN nI : nI[o] = i
            THEN [its[CHOOSE o \in DOMAIN nI : nI[o] = i] EXCEPT !.scn = s]
            ELSE iterations[i]]
    OBVIOUS
  <2>7. /\ rules' = [r \in RuleIDs |-> rules'[r]]
        /\ \A r \in RuleIDs : (\E o \in old : nR[o] = r)
              => \E o \in old : rules'[r] = [rules[o] EXCEPT !.iter = nI[rules[o].iter], !.stable = r]
        /\ \A r \in RuleIDs : (\A o \in old : nR[o] # r) => rules'[r] = rules[r]
    <3> DEFINE D0 == DOMAIN req[c].its
               nI0 == Renumber(D0, nextID.iter)
               old0 == {r \in RuleIDs : rules[r] # NoRow /\ rules[r].iter \in D0}
               nR0 == Renumber(old0, nextID.rule)
    <3>1. rules' = [r \in RuleIDs |->
            IF \E o \in old0 : nR0[o] = r
            THEN [rules[CHOOSE x \in old0 : nR0[x] = r] EXCEPT !.iter = nI0[rules[CHOOSE x \in old0 : nR0[x] = r].iter], !.stable = r]
            ELSE rules[r]]
      BY Zenon DEF CopyScenarioWrite
    <3>2. D0 = D /\ nI0 = nI /\ old0 = old /\ nR0 = nR
      BY <1>1, <1>2
    <3> HIDE DEF D0, nI0, old0, nR0
    <3>3. ASSUME NEW r \in RuleIDs, \E o \in old : nR[o] = r
          PROVE  \E o \in old : rules'[r] = [rules[o] EXCEPT !.iter = nI[rules[o].iter], !.stable = r]
      <4>1. PICK x : x = CHOOSE o \in old0 : nR0[o] = r
        OBVIOUS
      <4>2. x \in old
        BY <3>2, <3>3, <4>1
      <4>3. rules'[r] = [rules[x] EXCEPT !.iter = nI0[rules[x].iter], !.stable = r]
        <5>1. \E o \in old0 : nR0[o] = r
          BY <3>2, <3>3
        <5>2. rules'[r] = [rules[CHOOSE o \in old0 : nR0[o] = r] EXCEPT !.iter = nI0[rules[CHOOSE o \in old0 : nR0[o] = r].iter], !.stable = r]
          BY <3>1, <5>1
        <5> QED
          BY <4>1, <5>2
      <4> QED
        BY <3>2, <4>2, <4>3
    <3>4. ASSUME NEW r \in RuleIDs, \A o \in old : nR[o] # r PROVE rules'[r] = rules[r]
      BY <3>1, <3>2, <3>4
    <3> QED
      BY <3>1, <3>3, <3>4
  <2> QED
    BY <2>1, <2>2, <2>3, <2>4, <2>5, <2>6, <2>7
<1>6. /\ q.row \in ScenarioRow /\ Snapshot(its)
      /\ q.row.live \in D => its[q.row.live].status = "committed"
  BY <1>1, <1>2 DEF Knows, CopyScenarioWrite, Pending
<1>7. s \in ScenarioIDs /\ s \in Nat \ {0} /\ n \in Nat \ {0} /\ m \in Nat \ {0}
  <2>1. s <= MaxScenarios
    BY <1>5
  <2>2. s \in Nat \ {0} /\ n \in Nat \ {0} /\ m \in Nat \ {0}
    BY <1>1 DEF RowsInv, TablesTyped
  <2> QED
    BY <2>1, <2>2, AuthoringAssumption DEF ScenarioIDs
<1>8. ~ScenarioExists(s)
  BY <1>1, <1>7 DEF RowsInv, Fresh
<1>9. /\ Cardinality(D) \in Nat
      /\ iterations' \in [IterationIDs -> IterationRow \cup {NoRow}]
      /\ \A o \in D : /\ nI[o] \in IterationIDs /\ nI[o] >= n
                      /\ nI[o] < n + Cardinality(D)
                      /\ iterations'[nI[o]] = [its[o] EXCEPT !.scn = s]
                      /\ iterations'[nI[o]] \in IterationRow
                      /\ iterations'[nI[o]].scn = s /\ iterations'[nI[o]].ver = its[o].ver
                      /\ iterations'[nI[o]].status = its[o].status
      /\ \A o, p \in D : o < p <=> nI[o] < nI[p]
      /\ \A j \in IterationIDs : j < n => iterations'[j] = iterations[j]
      /\ IterationsOf(s)' = {nI[o] : o \in D}
      /\ \A t : t # s => IterationsOf(t)' = IterationsOf(t)
  <2>1. TablesTyped /\ Fresh
    BY DEF RowsInv
  <2>2. /\ Snapshot(its) /\ nextID.iter + Cardinality(DOMAIN its) - 1 <= MaxIterations
        /\ nI = Renumber(DOMAIN its, nextID.iter) /\ D = DOMAIN its /\ n = nextID.iter
    BY <1>1, <1>2, <1>5, <1>6
  <2>3. iterations' = [i \in IterationIDs |->
            IF \E o \in DOMAIN nI : nI[o] = i
            THEN [its[CHOOSE o \in DOMAIN nI : nI[o] = i] EXCEPT !.scn = s]
            ELSE iterations[i]]
    BY <1>5
  <2>4. iterations' = [i \in IterationIDs |-> iterations'[i]]
    BY <2>3
  <2>5. ASSUME NEW i \in IterationIDs
        PROVE  \/ \E o \in DOMAIN its : nI[o] = i /\ iterations'[i] = [its[o] EXCEPT !.scn = s]
               \/ (\A o \in DOMAIN its : nI[o] # i) /\ iterations'[i] = iterations[i]
    BY <1>2, <1>4, <2>3
  <2> QED
    BY ONLY <1>7, <1>8, <2>1, <2>2, <2>4, <2>5, IterationsCopied
<1>10. PICK K, L : K = Cardinality(D) /\ L = Cardinality(old)
  OBVIOUS
<1>11. /\ L \in Nat
       /\ rules' \in [RuleIDs -> RuleRow \cup {NoRow}]
       /\ \A r \in RuleIDs : rules'[r] # NoRow => r < m + L
       /\ \A r \in RuleIDs : rules[r] # NoRow => rules'[r] = rules[r]
  <2>1. \A r \in RuleIDs : IF \E o \in old : nR[o] = r THEN rules'[r] \in RuleRow ELSE rules'[r] = rules[r]
    <3> SUFFICES ASSUME NEW r \in RuleIDs, \E o \in old : nR[o] = r PROVE rules'[r] \in RuleRow
      BY <1>5
    <3>1. PICK x \in old : rules'[r] = [rules[x] EXCEPT !.iter = nI[rules[x].iter], !.stable = r]
      BY <1>5
    <3>3. rules[x] \in RuleRow /\ rules[x].iter \in D
      BY <1>2 DEF RowsInv, TablesTyped
    <3>4. nI[rules[x].iter] \in IterationIDs
      BY <1>9, <3>3
    <3>5. PICK y, i : y = rules[x] /\ i = nI[rules[x].iter]
      OBVIOUS
    <3>6. y \in RuleRow /\ i \in IterationIDs /\ rules'[r] = [y EXCEPT !.iter = i, !.stable = r]
      BY <3>1, <3>3, <3>4, <3>5
    <3>7. \A w \in RuleRow, a \in IterationIDs, b \in RuleIDs : [w EXCEPT !.iter = a, !.stable = b] \in RuleRow
      BY RuleMoved
    <3>8. [y EXCEPT !.iter = i, !.stable = r] \in RuleRow
      BY ONLY <3>6, <3>7, r \in RuleIDs
    <3> QED
      BY ONLY <3>6, <3>8
  <2>2. rules' = [r \in RuleIDs |-> rules'[r]]
    BY <1>5
  <2>3. TablesTyped /\ Fresh /\ old \subseteq RuleIDs
    BY <1>2 DEF RowsInv
  <2>4. nR = Renumber(old, nextID.rule) /\ nextID.rule + Cardinality(old) - 1 <= MaxRules
    BY <1>1, <1>2, <1>5
  <2> QED
    BY ONLY <1>1, <1>10, <2>1, <2>2, <2>3, <2>4, RulesCopied
<1>12. [type |-> q.row.type, live |-> live] \in ScenarioRow
  BY <1>3, <1>6, <1>9 DEF ScenarioRow
<1>13. nextID'.scn = s + 1 /\ nextID'.iter = n + K /\ nextID'.rule = m + L /\ K \in Nat /\ L \in Nat
  BY <1>5, <1>9, <1>10, <1>11
<1>14. TablesTyped'
  <2>1. s + 1 \in Nat \ {0} /\ n + K \in Nat \ {0} /\ m + L \in Nat \ {0}
    BY <1>7, <1>13
  <2>2. nextID' \in [scn : Nat \ {0}, iter : Nat \ {0}, rule : Nat \ {0}]
    BY <1>5, <1>10, <2>1
  <2>3. scenarios' \in [ScenarioIDs -> ScenarioRow \cup {NoRow}]
    BY <1>5, <1>12 DEF RowsInv, TablesTyped
  <2> QED
    BY <1>9, <1>11, <2>2, <2>3 DEF TablesTyped
<1>15. /\ scenarios'[s] = [type |-> q.row.type, live |-> live] /\ scenarios'[s] # NoRow
       /\ \A t \in ScenarioIDs \ {s} : scenarios'[t] = scenarios[t]
  BY <1>5, <1>7, <1>12, AuthoringAssumption DEF RowsInv, TablesTyped
<1>16. \A t \in ScenarioIDs : ScenarioExists(t)' <=> t = s \/ ScenarioExists(t)
  BY <1>7, <1>15 DEF ScenarioExists
<1>17. \A j \in IterationIDs : iterations[j] # NoRow => j < n /\ iterations'[j] = iterations[j] /\ ScenarioExists(iterations[j].scn)
  BY <1>1, <1>9 DEF RowsInv, Fresh
<1>18. \A t : IterationsOf(t) = {j \in IterationIDs : iterations[j] # NoRow /\ iterations[j].scn = t}
  BY DEF IterationsOf, IterationOf
<1>19. \A t : IterationsOf(t)' = {j \in IterationIDs : iterations'[j] # NoRow /\ iterations'[j].scn = t}
  BY DEF IterationsOf, IterationOf
<1>20. Fresh'
  <2>1. ASSUME NEW t \in ScenarioIDs, ScenarioExists(t)' PROVE t < s + 1
    BY <1>1, <1>7, <1>16, <2>1 DEF RowsInv, Fresh, ScenarioIDs
  <2>2. ASSUME NEW j \in IterationIDs, iterations'[j] # NoRow PROVE j < n + K /\ iterations'[j].scn \in ScenarioIDs /\ scenarios'[iterations'[j].scn] # NoRow
    <3>1. PICK t : t = iterations'[j].scn
      OBVIOUS
    <3>2. j \in IterationsOf(t)'
      BY <1>19, <2>2, <3>1
    <3>3. CASE t = s
      <4>1. PICK o \in D : j = nI[o]
        BY <1>9, <3>2, <3>3
      <4>2. j < n + K
        BY <1>9, <1>10, <4>1
      <4> QED
        BY <1>7, <1>15, <3>1, <3>3, <4>2
    <3>4. CASE t # s
      <4>1. iterations[j] # NoRow /\ iterations[j].scn = t
        BY <1>9, <1>18, <3>2, <3>4
      <4>2. j < n /\ ScenarioExists(t) /\ t \in ScenarioIDs
        BY <1>17, <4>1 DEF ScenarioExists
      <4>3. j < n + K /\ ScenarioExists(t)'
        BY <1>7, <1>13, <1>16, <4>2 DEF IterationIDs
      <4> QED
        BY <3>1, <4>3 DEF ScenarioExists
    <3> QED
      BY <3>3, <3>4
  <2> QED
    BY <1>11, <1>10, <1>13, <2>1, <2>2 DEF Fresh, ScenarioExists
<1>21. \A j \in D : its[j].ver \in Nat /\ its[j].ver >= 1 /\ \A u \in 1 .. its[j].ver - 1 : \E k \in D : its[k].ver = u
  BY <1>2, <1>6 DEF Snapshot, IterationRow
<1>22. VersionsFollowCreation'
  <2> SUFFICES ASSUME NEW t \in ScenarioIDs, NEW i \in IterationsOf(t)', NEW j \in IterationsOf(t)', i < j
               PROVE  iterations'[i].ver < iterations'[j].ver
    BY DEF VersionsFollowCreation
  <2>1. CASE t # s
    <3>1. i \in IterationsOf(t) /\ j \in IterationsOf(t)
      BY <1>9, <2>1
    <3>2. iterations'[i] = iterations[i] /\ iterations'[j] = iterations[j]
      BY <1>17, <1>18, <3>1
    <3> QED
      BY <3>1, <3>2 DEF RowsInv, VersionsFollowCreation
  <2>2. CASE t = s
    <3>1. PICK o \in D, p \in D : i = nI[o] /\ j = nI[p]
      BY <1>9, <2>2
    <3>2. o < p
      BY <1>9, <3>1
    <3>3. its[o].ver < its[p].ver
      BY <1>2, <1>6, <3>2 DEF Snapshot
    <3> QED
      BY <1>9, <3>1, <3>3
  <2> QED
    BY <2>1, <2>2
<1>23. VersionsDense'
  <2> SUFFICES ASSUME NEW t \in ScenarioIDs, NEW i \in IterationsOf(t)'
               PROVE  iterations'[i].ver >= 1 /\ \A u \in 1 .. iterations'[i].ver - 1 : \E j \in IterationsOf(t)' : iterations'[j].ver = u
    BY DEF VersionsDense, Taken
  <2>1. CASE t # s
    <3>1. i \in IterationsOf(t) /\ IterationsOf(t)' = IterationsOf(t)
      BY <1>9, <2>1
    <3>2. \A j \in IterationsOf(t) : iterations'[j] = iterations[j]
      BY <1>17, <1>18
    <3> QED
      BY <3>1, <3>2 DEF RowsInv, VersionsDense, Taken
  <2>2. CASE t = s
    <3>1. PICK o \in D : i = nI[o]
      BY <1>9, <2>2
    <3>2. iterations'[i].ver = its[o].ver
      BY <1>9, <3>1
    <3>3. \A k \in D : nI[k] \in IterationsOf(t)' /\ iterations'[nI[k]].ver = its[k].ver
      BY <1>9, <2>2
    <3> QED
      BY <1>21, <3>2, <3>3
  <2> QED
    BY <2>1, <2>2
<1>24. \A t, j : IterationOf(t, j) => IterationOf(t, j)' /\ iterations'[j] = iterations[j]
  BY <1>17 DEF IterationOf
<1>25. LiveIsCommitted'
  <2> SUFFICES ASSUME NEW t \in ScenarioIDs, ScenarioExists(t)', scenarios'[t].live # NoID
               PROVE  /\ scenarios'[t].live \in IterationIDs /\ iterations'[scenarios'[t].live] # NoRow
                      /\ iterations'[scenarios'[t].live].scn = t /\ iterations'[scenarios'[t].live].status = "committed"
    BY DEF LiveIsCommitted, IterationOf
  <2>1. CASE t # s
    <3>1. ScenarioExists(t) /\ scenarios'[t] = scenarios[t]
      BY <1>15, <1>16, <2>1
    <3>2. IterationOf(t, scenarios[t].live) /\ iterations[scenarios[t].live].status = "committed"
      BY <3>1 DEF RowsInv, LiveIsCommitted
    <3> QED
      BY <1>24, <3>1, <3>2 DEF IterationOf
  <2>2. CASE t = s
    <3>1. q.row.live \in D /\ scenarios'[t].live = nI[q.row.live]
      BY <1>3, <1>15, <2>2
    <3>2. nI[q.row.live] \in IterationsOf(s)' /\ iterations'[nI[q.row.live]].status = "committed"
      BY <1>6, <1>9, <3>1
    <3> QED
      BY <2>2, <3>1, <3>2 DEF IterationsOf, IterationOf
  <2> QED
    BY <2>1, <2>2
<1>26. Kept
  <2>1. nextID.scn <= nextID'.scn /\ \A t \in ScenarioIDs : t < nextID.scn /\ ScenarioExists(t)' => ScenarioExists(t)
    BY <1>1, <1>7, <1>13, <1>16
  <2> QED
    BY <1>24, <2>1 DEF Kept
<1>27. ASSUME NEW j \in IterationIDs, iterations[j] # NoRow PROVE Spared(j)
  <2>1. iterations'[j] = iterations[j] /\ j < n
    BY <1>17, <1>27
  <2>2. ASSUME NEW r \in RuleIDs, rules[r] = NoRow, rules'[r] # NoRow PROVE rules'[r].iter # j
    <3>1. PICK x \in old : rules'[r] = [rules[x] EXCEPT !.iter = nI[rules[x].iter], !.stable = r]
      BY <1>5, <2>2
    <3>2. rules[x] \in RuleRow /\ rules[x].iter \in D
      BY <1>2 DEF RowsInv, TablesTyped
    <3>3. PICK y, i : y = rules[x] /\ i = nI[rules[x].iter]
      OBVIOUS
    <3>4. y \in RuleRow /\ i >= n /\ i \in IterationIDs /\ rules'[r] = [y EXCEPT !.iter = i, !.stable = r]
      BY <1>9, <3>1, <3>2, <3>3
    <3>5. rules'[r].iter = i
      BY ONLY <3>4, RuleMovedTo
    <3> QED
      BY <1>7, <2>1, <3>4, <3>5 DEF IterationIDs
  <2> QED
    BY <1>11, <2>1, <2>2 DEF Spared, RuleOf
<1> QED
  BY <1>14, <1>20, <1>22, <1>23, <1>25, <1>26, <1>27 DEF RowsInv
-----------------------------------------------------------------------------
\* The requests on scenarios.
LEMMA RequestsStay ==
    ASSUME AuthoringInv, RowsInv', Kept, req' = req
    PROVE  AuthoringInv'
<1>1. ASSUME NEW d \in Clients PROVE Knows(req[d])'
  <2>1. PICK p : p = req[d]
    OBVIOUS
  <2>2. Knows(p)'
    BY <2>1, RequestKept DEF AuthoringInv, RequestsKnow, RowsInv
  <2> QED
    BY <2>1, <2>2 DEF Knows, Older, StaysLive, Snapshot, Taken
<1> QED
  BY <1>1 DEF AuthoringInv, RequestsKnow

LEMMA OtherTables ==
    ASSUME AuthoringInv, UNCHANGED <<scenarios, iterations, rules, nextID, req>>
    PROVE  AuthoringInv' /\ Kept
<1>1. RowsInv' /\ Kept
  BY DEF AuthoringInv, RowsInv, TablesTyped, Fresh, VersionsDense, LiveIsCommitted, VersionsFollowCreation,
         Kept, Taken, IterationsOf, IterationOf, ScenarioExists
<1> QED
  BY <1>1, RequestsStay

LEMMA CreateScenarioKeeps ==
    ASSUME AuthoringInv, NEW c \in Clients, NEW t, CreateScenario(c, t)
    PROVE  AuthoringInv' /\ Kept
<1>1. PICK n : n = nextID.scn
  OBVIOUS
<1>2. n \in ScenarioIDs /\ n \in Nat \ {0}
  BY <1>1, AuthoringAssumption DEF CreateScenario, AuthoringInv, RowsInv, TablesTyped, ScenarioIDs
<1>3. ~ScenarioExists(n)
  BY <1>1, <1>2 DEF AuthoringInv, RowsInv, Fresh
<1>4. PICK row : row = [type |-> t, live |-> NoID]
  OBVIOUS
<1>5. row \in ScenarioRow /\ row.live = NoID
  BY <1>4 DEF CreateScenario, ScenarioRow
<1>6. /\ scenarios' = [scenarios EXCEPT ![n] = row]
      /\ nextID' = [nextID EXCEPT !.scn = n + 1]
      /\ UNCHANGED <<iterations, rules, req>>
  BY <1>1, <1>4 DEF CreateScenario, ScenariosCreate
<1>7. TablesTyped' /\ nextID'.scn = n + 1 /\ nextID'.iter = nextID.iter /\ nextID'.rule = nextID.rule
  BY <1>2, <1>5, <1>6 DEF AuthoringInv, RowsInv, TablesTyped
<1>8. /\ scenarios'[n] = row /\ row # NoRow
      /\ \A u \in ScenarioIDs : ScenarioExists(u)' <=> u = n \/ ScenarioExists(u)
      /\ \A u \in ScenarioIDs \ {n} : scenarios'[u] = scenarios[u]
  BY <1>2, <1>5, <1>6, AuthoringAssumption DEF AuthoringInv, RowsInv, TablesTyped, ScenarioExists
<1>9. Fresh'
  <2>1. ASSUME NEW u \in ScenarioIDs, ScenarioExists(u)' PROVE u < n + 1
    BY <1>1, <1>2, <1>8, <2>1 DEF AuthoringInv, RowsInv, Fresh, ScenarioIDs
  <2>2. \A i \in IterationIDs : iterations[i] # NoRow => i < nextID.iter /\ iterations[i].scn \in ScenarioIDs /\ scenarios'[iterations[i].scn] # NoRow
    BY <1>8 DEF AuthoringInv, RowsInv, Fresh, ScenarioExists
  <2> QED
    BY <1>6, <1>7, <2>1, <2>2 DEF AuthoringInv, RowsInv, Fresh, ScenarioExists
<1>10. \A u : IterationsOf(u)' = IterationsOf(u)
  BY <1>6 DEF IterationsOf, IterationOf
<1>11. VersionsDense' /\ VersionsFollowCreation'
  BY <1>6, <1>10 DEF AuthoringInv, RowsInv, VersionsDense, VersionsFollowCreation, Taken
<1>12. LiveIsCommitted'
  <2> SUFFICES ASSUME NEW u \in ScenarioIDs, ScenarioExists(u)', scenarios'[u].live # NoID
               PROVE  /\ scenarios'[u].live \in IterationIDs /\ iterations'[scenarios'[u].live] # NoRow
                      /\ iterations'[scenarios'[u].live].scn = u /\ iterations'[scenarios'[u].live].status = "committed"
    BY DEF LiveIsCommitted, IterationOf
  <2>1. u # n /\ ScenarioExists(u) /\ scenarios'[u] = scenarios[u]
    BY <1>5, <1>8
  <2> QED
    BY <1>6, <2>1 DEF AuthoringInv, RowsInv, LiveIsCommitted, IterationOf
<1>13. Kept
  <2>1. \A u, j : IterationOf(u, j)' <=> IterationOf(u, j)
    BY <1>6 DEF IterationOf
  <2> QED
    BY <1>1, <1>2, <1>6, <1>7, <1>8, <2>1 DEF Kept
<1> QED
  BY <1>6, <1>7, <1>9, <1>11, <1>12, <1>13, RequestsStay DEF RowsInv

LEMMA UpdateScenarioKeeps ==
    ASSUME AuthoringInv, NEW c \in Clients,
           (\E s \in ScenarioIDs, t \in ObjectTypes : UpdateScenarioRead(c, s, t)) \/ UpdateScenarioWrite(c)
    PROVE  AuthoringInv' /\ Kept
<1>1. ASSUME NEW s \in ScenarioIDs, NEW t \in ObjectTypes, UpdateScenarioRead(c, s, t)
      PROVE  AuthoringInv' /\ Kept
  <2>1. PICK row, q : row = [scenarios[s] EXCEPT !.type = t] /\ q = [op |-> "update_scenario", s |-> s, row |-> row]
    OBVIOUS
  <2>2. scenarios[s] \in ScenarioRow /\ s < nextID.scn
    BY <1>1 DEF UpdateScenarioRead, ScenarioExists, AuthoringInv, RowsInv, TablesTyped, Fresh
  <2>3. row \in ScenarioRow /\ row.live = scenarios[s].live
    BY <2>1, <2>2 DEF ScenarioRow
  <2>4. StaysLive(s, row.live)
    BY <2>3 DEF StaysLive, AuthoringInv, RowsInv, LiveIsCommitted
  <2>5. Knows(q)
    BY <2>1, <2>2, <2>3, <2>4 DEF Knows, Older
  <2>6. UNCHANGED tables /\ req' = [req EXCEPT ![c] = q]
    BY <1>1, <2>1 DEF UpdateScenarioRead, Open
  <2> QED
    BY <2>5, <2>6, ReadStep
<1>2. ASSUME UpdateScenarioWrite(c), ScenarioExists(req[c].s) PROVE AuthoringInv' /\ Kept
  <2>1. PICK s, row : s = req[c].s /\ row = req[c].row
    OBVIOUS
  <2>2. s \in ScenarioIDs /\ ScenarioExists(s) /\ row \in ScenarioRow /\ StaysLive(s, row.live)
    BY <1>2, <2>1 DEF UpdateScenarioWrite, Pending, AuthoringInv, RequestsKnow, Knows, Older
  <2>3. scenarios' = [scenarios EXCEPT ![s] = row] /\ UNCHANGED <<iterations, rules, nextID>> /\ Close(c)
    BY <1>2, <2>1 DEF UpdateScenarioWrite, ScenariosUpdate
  <2>4. RowsInv' /\ Kept
    BY <2>2, <2>3, ScenarioWritten DEF AuthoringInv
  <2> QED
    BY <2>3, <2>4, WriteStepKnows
<1>3. ASSUME UpdateScenarioWrite(c), ~ScenarioExists(req[c].s) PROVE AuthoringInv' /\ Kept
  BY <1>3, RefuseStep DEF UpdateScenarioWrite
<1> QED
  BY <1>1, <1>2, <1>3
LEMMA CopyScenarioKeeps ==
    ASSUME AuthoringInv, NEW c \in Clients,
           (\E s \in ScenarioIDs : CopyScenarioRead(c, s)) \/ CopyScenarioWrite(c)
    PROVE  AuthoringInv' /\ Kept /\ \A j \in IterationIDs : iterations[j] # NoRow => Spared(j)
<1>1. ASSUME NEW s \in ScenarioIDs, CopyScenarioRead(c, s) PROVE AuthoringInv' /\ Kept /\ UNCHANGED <<iterations, rules>>
  <2>1. PICK its, row, q : /\ its = [i \in IterationsOf(s) |-> iterations[i]] /\ row = scenarios[s]
                           /\ q = [op |-> "copy", s |-> s, row |-> row, its |-> its]
    OBVIOUS
  <2>2. row \in ScenarioRow
    BY <1>1, <2>1 DEF CopyScenarioRead, ScenarioExists, AuthoringInv, RowsInv, TablesTyped
  <2>3. DOMAIN its = IterationsOf(s) /\ \A i \in IterationsOf(s) : its[i] = iterations[i]
    BY <2>1
  <2>4. Snapshot(its)
    <3>1. its \in [DOMAIN its -> IterationRow] /\ DOMAIN its \subseteq IterationIDs
      <4>1. \A i \in IterationsOf(s) : i \in IterationIDs /\ iterations[i] \in IterationRow
        BY VersionsTyped DEF AuthoringInv, RowsInv
      <4> QED
        BY <2>1, <4>1
    <3>2. \A i, j \in DOMAIN its : i < j => its[i].ver < its[j].ver
      BY <2>3 DEF AuthoringInv, RowsInv, VersionsFollowCreation
    <3>3. \A i \in DOMAIN its : its[i].ver >= 1 /\ \A u \in 1 .. its[i].ver - 1 : \E j \in DOMAIN its : its[j].ver = u
      BY <2>3 DEF AuthoringInv, RowsInv, VersionsDense, Taken
    <3> QED
      BY <3>1, <3>2, <3>3 DEF Snapshot
  <2>5. row.live \in DOMAIN its => its[row.live].status = "committed"
    <3> SUFFICES ASSUME row.live \in IterationsOf(s) PROVE iterations[row.live].status = "committed"
      BY <2>3
    <3>1. row.live # NoID
      BY AuthoringAssumption DEF IterationsOf
    <3> QED
      BY <1>1, <2>1, <3>1 DEF CopyScenarioRead, AuthoringInv, RowsInv, LiveIsCommitted
  <2>6. Knows(q)
    BY <2>1, <2>2, <2>4, <2>5 DEF Knows
  <2>7. UNCHANGED tables /\ req' = [req EXCEPT ![c] = q]
    BY <1>1, <2>1 DEF CopyScenarioRead, Open
  <2> QED
    BY <2>6, <2>7, ReadStep DEF tables
<1>2. ASSUME CopyScenarioWrite(c) PROVE AuthoringInv' /\ Kept /\ \A j \in IterationIDs : iterations[j] # NoRow => Spared(j)
  <2>1. RowsInv' /\ Kept /\ \A j \in IterationIDs : iterations[j] # NoRow => Spared(j)
    BY <1>2, ScenarioCopied DEF AuthoringInv, RequestsKnow
  <2>2. Close(c)
    BY <1>2 DEF CopyScenarioWrite
  <2> QED
    BY <2>1, <2>2, WriteStepKnows
<1> QED
  BY <1>1, <1>2, UnchangedSpares

LEMMA DeleteScenarioKeeps ==
    ASSUME AuthoringInv, NEW c, NEW s \in ScenarioIDs, DeleteScenario(c, s)
    PROVE  AuthoringInv' /\ Kept
<1>1. RowsInv' /\ Kept
  BY ScenarioDeleted DEF AuthoringInv
<1>2. req' = req
  BY DEF DeleteScenario
<1> QED
  BY <1>1, <1>2, RequestsStay

-----------------------------------------------------------------------------
\* The requests on iterations.
LEMMA NextIterationID ==
    ASSUME TablesTyped, NEW n, NEW m
    PROVE  /\ [nextID EXCEPT !.iter = n] = [scn |-> nextID.scn, iter |-> n, rule |-> nextID.rule]
           /\ [nextID EXCEPT !.iter = n, !.rule = m] = [scn |-> nextID.scn, iter |-> n, rule |-> m]
<1>1. PICK a, b, d : nextID = [scn |-> a, iter |-> b, rule |-> d]
  BY DEF TablesTyped
<1>2. [nextID EXCEPT !.iter = n] = [scn |-> a, iter |-> n, rule |-> d]
  BY <1>1
<1>3. [[nextID EXCEPT !.iter = n] EXCEPT !.rule = m] = [scn |-> a, iter |-> n, rule |-> m]
  <2>1. PICK x : x = [scn |-> a, iter |-> n, rule |-> d]
    OBVIOUS
  <2>2. [x EXCEPT !.rule = m] = [scn |-> a, iter |-> n, rule |-> m]
    BY ONLY <2>1
  <2>3. x = [nextID EXCEPT !.iter = n]
    BY ONLY <1>2, <2>1
  <2> QED
    BY ONLY <2>2, <2>3
<1>4. nextID.scn = a /\ nextID.rule = d
  BY <1>1
<1>5. [nextID EXCEPT !.iter = n, !.rule = m] = [[nextID EXCEPT !.iter = n] EXCEPT !.rule = m]
  OBVIOUS
<1> QED
  BY ONLY <1>2, <1>3, <1>4, <1>5

LEMMA CreateDraftKeeps ==
    ASSUME AuthoringInv, NEW c \in Clients,
           (\E s \in ScenarioIDs : CreateDraftRead(c, s)) \/ CreateDraftWrite(c)
    PROVE  AuthoringInv' /\ Kept
<1>1. ASSUME NEW s \in ScenarioIDs, CreateDraftRead(c, s) PROVE AuthoringInv' /\ Kept
  <2>1. PICK v, q : v = NextVersion(s) /\ q = [op |-> "create_draft", s |-> s, v |-> v]
    OBVIOUS
  <2>2. v \in Nat \ {0} /\ Taken(s, v)
    BY <2>1, NextVersionTakes DEF AuthoringInv
  <2>3. Older(s)
    BY <1>1 DEF CreateDraftRead, Older, AuthoringInv, RowsInv, Fresh
  <2>4. Knows(q)
    BY <2>1, <2>2, <2>3 DEF Knows
  <2>5. UNCHANGED tables /\ req' = [req EXCEPT ![c] = q]
    BY <1>1, <2>1 DEF CreateDraftRead, Open
  <2> QED
    BY <2>4, <2>5, ReadStep
<1>2. ASSUME CreateDraftWrite(c), ScenarioExists(req[c].s) /\ VersionFree(req[c].s, req[c].v)
      PROVE  AuthoringInv' /\ Kept
  <2>1. PICK s, v, row, m, n : s = req[c].s /\ v = req[c].v /\ row = DraftDefaults(s, v) /\ m = nextID.rule /\ n = nextID.iter + 1
    OBVIOUS
  <2>2. s \in ScenarioIDs /\ ScenarioExists(s) /\ v \in Nat \ {0} /\ Taken(s, v) /\ VersionFree(s, v)
    BY <1>2, <2>1 DEF CreateDraftWrite, Pending, AuthoringInv, RequestsKnow, Knows, Older
  <2>3. row \in IterationRow /\ row.scn = s /\ row.ver = v
    BY <2>1, <2>2, AuthoringAssumption DEF DraftDefaults, IterationRow
  <2>4. /\ nextID.iter <= MaxIterations /\ iterations' = [iterations EXCEPT ![nextID.iter] = row]
        /\ scenarios' = scenarios /\ rules' = rules /\ nextID' = [nextID EXCEPT !.iter = n] /\ Close(c)
    BY <1>2, <2>1 DEF CreateDraftWrite, IterationsCreate
  <2>5. m \in Nat /\ n \in Nat /\ TablesTyped /\ \A r \in RuleIDs : rules[r] # NoRow => r < m
    BY <2>1 DEF AuthoringInv, RowsInv, TablesTyped, Fresh
  <2>6. nextID' = [scn |-> nextID.scn, iter |-> nextID.iter + 1, rule |-> m] /\ nextID.rule <= m
    <3>1. [nextID EXCEPT !.iter = n] = [scn |-> nextID.scn, iter |-> n, rule |-> nextID.rule]
      BY <2>5, NextIterationID
    <3> QED
      BY ONLY <2>1, <2>4, <2>5, <3>1
  <2>7. rules' \in [RuleIDs -> RuleRow \cup {NoRow}] /\ \A r \in RuleIDs : rules'[r] # NoRow => r < m
    BY <2>4, <2>5 DEF TablesTyped
  <2>8. RowsInv' /\ Kept
    <3>1. RowsInv
      BY DEF AuthoringInv
    <3> QED
      BY ONLY <2>2, <2>3, <2>4, <2>5, <2>6, <2>7, <3>1, IterationInserted
  <2> QED
    BY <2>4, <2>8, WriteStepKnows
<1>3. ASSUME CreateDraftWrite(c), ~(ScenarioExists(req[c].s) /\ VersionFree(req[c].s, req[c].v))
      PROVE  AuthoringInv' /\ Kept
  BY <1>3, RefuseStep DEF CreateDraftWrite
<1> QED
  BY <1>1, <1>2, <1>3
LEMMA IterationCloned ==
    ASSUME NEW x \in IterationRow, NEW v \in Nat
    PROVE  \E y \in IterationRow : y = [x EXCEPT !.ver = v, !.status = "draft"] /\ y.scn = x.scn /\ y.ver = v
<1>1. PICK y : y = [x EXCEPT !.ver = v]
  OBVIOUS
<1>2. y \in IterationRow /\ y.scn = x.scn /\ y.ver = v
  BY <1>1 DEF IterationRow
<1>3. PICK z : z = [y EXCEPT !.status = "draft"]
  OBVIOUS
<1>4. z \in IterationRow /\ z.scn = x.scn /\ z.ver = v
  BY <1>2, <1>3 DEF IterationRow
<1>5. [x EXCEPT !.ver = v, !.status = "draft"] = [[x EXCEPT !.ver = v] EXCEPT !.status = "draft"]
  OBVIOUS
<1>6. z = [x EXCEPT !.ver = v, !.status = "draft"]
  BY <1>1, <1>3, <1>5
<1> QED
  BY ONLY <1>4, <1>6

LEMMA CloneDraftKeeps ==
    ASSUME AuthoringInv, NEW c \in Clients,
           (\E s \in ScenarioIDs, i \in IterationIDs : CloneDraftRead(c, s, i)) \/ CloneDraftWrite(c)
    PROVE  AuthoringInv' /\ Kept /\ \A j \in IterationIDs : iterations[j] # NoRow => Spared(j)
<1>1. ASSUME NEW s \in ScenarioIDs, NEW i \in IterationIDs, CloneDraftRead(c, s, i)
      PROVE  AuthoringInv' /\ Kept /\ UNCHANGED <<iterations, rules>>
  <2>1. PICK v, row, q : /\ v = NextVersion(s) /\ row = iterations[i]
                         /\ q = [op |-> "clone_draft", s |-> s, i |-> i, v |-> v, row |-> row]
    OBVIOUS
  <2>2. v \in Nat \ {0} /\ Taken(s, v)
    BY <2>1, NextVersionTakes DEF AuthoringInv
  <2>3. Older(s) /\ row \in IterationRow /\ row.scn = s
    BY <1>1, <2>1 DEF CloneDraftRead, IterationOf, Older, AuthoringInv, RowsInv, TablesTyped, Fresh
  <2>4. Knows(q)
    BY <2>1, <2>2, <2>3 DEF Knows
  <2>5. UNCHANGED tables /\ req' = [req EXCEPT ![c] = q]
    BY <1>1, <2>1 DEF CloneDraftRead, Open
  <2> QED
    BY <2>4, <2>5, ReadStep DEF tables
<1>2. ASSUME CloneDraftWrite(c), ScenarioExists(req[c].s) /\ VersionFree(req[c].s, req[c].v)
      PROVE  AuthoringInv' /\ Kept /\ \A j \in IterationIDs : iterations[j] # NoRow => Spared(j)
  <2>1. PICK q, s, v, old, nR, n, m : /\ q = req[c] /\ s = q.s /\ v = q.v /\ old = RulesOf(q.i)
                                      /\ nR = Renumber(old, nextID.rule) /\ n = nextID.iter /\ m = nextID.rule + Cardinality(old)
    OBVIOUS
  <2>2. /\ s \in ScenarioIDs /\ ScenarioExists(s) /\ v \in Nat \ {0} /\ Taken(s, v) /\ VersionFree(s, v)
        /\ q.row \in IterationRow /\ q.row.scn = s
    BY <1>2, <2>1 DEF CloneDraftWrite, Pending, AuthoringInv, RequestsKnow, Knows, Older
  <2>3. PICK row \in IterationRow : row = [q.row EXCEPT !.ver = v, !.status = "draft"] /\ row.scn = s /\ row.ver = v
    <3>1. PICK x : x = q.row
      OBVIOUS
    <3>2. x \in IterationRow /\ v \in Nat
      BY <2>2, <3>1
    <3>3. \E y \in IterationRow : y = [x EXCEPT !.ver = v, !.status = "draft"] /\ y.scn = x.scn /\ y.ver = v
      BY ONLY <3>2, IterationCloned
    <3>4. PICK y \in IterationRow : y = [x EXCEPT !.ver = v, !.status = "draft"] /\ y.scn = x.scn /\ y.ver = v
      BY ONLY <3>3
    <3>5. y = [q.row EXCEPT !.ver = v, !.status = "draft"] /\ y.scn = s
      BY ONLY <2>2, <3>1, <3>4
    <3> QED
      BY ONLY <3>4, <3>5
  <2>4. /\ n <= MaxIterations /\ nextID.rule + Cardinality(old) - 1 <= MaxRules
        /\ iterations' = [iterations EXCEPT ![n] = row]
        /\ scenarios' = scenarios /\ Close(c)
    BY <1>2, <2>1, <2>3 DEF CloneDraftWrite, IterationsCreate
  <2>5. /\ rules' = [r \in RuleIDs |->
                  IF \E o \in old : nR[o] = r
                  THEN [rules[CHOOSE o \in old : nR[o] = r] EXCEPT !.iter = n]
                  ELSE rules[r]]
    <3> DEFINE old0 == RulesOf(req[c].i)
               nR0  == Renumber(old0, nextID.rule)
    <3>1. rules' = [r \in RuleIDs |->
                  IF \E o \in old0 : nR0[o] = r
                  THEN [rules[CHOOSE o \in old0 : nR0[o] = r] EXCEPT !.iter = nextID.iter]
                  ELSE rules[r]]
      BY <1>2, Zenon DEF CloneDraftWrite
    <3>2. old0 = old /\ nR0 = nR /\ nextID.iter = n
      BY <2>1
    <3> HIDE DEF old0, nR0
    <3> QED
      BY ONLY <3>1, <3>2
  <2>6. nextID' = [nextID EXCEPT !.iter = n + 1, !.rule = m]
    <3>1. nextID' = [nextID EXCEPT !.iter = @ + 1, !.rule = @ + Cardinality(RulesOf(req[c].i))]
      BY <1>2 DEF CloneDraftWrite
    <3>2. PICK a, b, d : nextID = [scn |-> a, iter |-> b, rule |-> d]
      BY DEF AuthoringInv, RowsInv, TablesTyped
    <3>3. nextID' = [nextID EXCEPT !.iter = nextID.iter + 1, !.rule = nextID.rule + Cardinality(RulesOf(req[c].i))]
      BY ONLY <3>1, <3>2
    <3> QED
      BY ONLY <2>1, <3>3
  <2>7. TablesTyped /\ Fresh /\ old \subseteq RuleIDs /\ nextID.rule \in Nat /\ n \in IterationIDs
    BY <2>1, <2>4, AuthoringAssumption DEF AuthoringInv, RowsInv, TablesTyped, RulesOf, IterationIDs
  <2>8. /\ Cardinality(old) \in Nat
        /\ rules' \in [RuleIDs -> RuleRow \cup {NoRow}]
        /\ \A r \in RuleIDs : rules'[r] # NoRow => r < nextID.rule + Cardinality(old)
        /\ \A r \in RuleIDs : rules[r] # NoRow => rules'[r] = rules[r]
    <3>1. rules' = [r \in RuleIDs |-> rules'[r]]
      BY <2>5
    <3>2. ASSUME NEW r \in RuleIDs, \E o \in old : nR[o] = r PROVE rules'[r] \in RuleRow
      <4>1. PICK x \in old : rules'[r] = [rules[x] EXCEPT !.iter = n]
        BY <2>5, <3>2
      <4>2. rules[x] \in RuleRow
        BY <2>1, <2>7 DEF RulesOf, RuleOf, TablesTyped
      <4> QED
        BY <2>7, <4>1, <4>2 DEF RuleRow
    <3>3. ASSUME NEW r \in RuleIDs, ~(\E o \in old : nR[o] = r) PROVE rules'[r] = rules[r]
      BY <2>5, <3>3
    <3>4. nR = Renumber(old, nextID.rule)
      BY <2>1
    <3> QED
      BY ONLY <2>4, <2>7, <3>1, <3>2, <3>3, <3>4, RulesCopied
  <2>9. /\ nextID.iter <= MaxIterations /\ iterations' = [iterations EXCEPT ![nextID.iter] = row]
        /\ row.ver # 0 /\ Taken(s, row.ver) /\ VersionFree(s, row.ver)
    BY <2>1, <2>2, <2>3, <2>4
  <2>10. m \in Nat /\ nextID.rule <= m /\ \A r \in RuleIDs : rules'[r] # NoRow => r < m
    BY <2>1, <2>7, <2>8
  <2>11. nextID' = [scn |-> nextID.scn, iter |-> nextID.iter + 1, rule |-> m]
    <3>1. [nextID EXCEPT !.iter = n + 1, !.rule = m] = [scn |-> nextID.scn, iter |-> n + 1, rule |-> m]
      BY ONLY <2>7, NextIterationID
    <3> QED
      BY ONLY <2>1, <2>6, <3>1
  <2>12. RowsInv
    BY DEF AuthoringInv
  <2>13. RowsInv' /\ Kept
    BY ONLY <2>2, <2>3, <2>4, <2>8, <2>9, <2>10, <2>11, <2>12, IterationInserted
  <2>14. ASSUME NEW j \in IterationIDs, iterations[j] # NoRow PROVE Spared(j)
    <3>1. j # n
      BY <2>1, <2>7, <2>14 DEF Fresh, IterationIDs
    <3>2. iterations'[j] = iterations[j]
      BY <2>4, <2>7, <3>1 DEF TablesTyped
    <3>3. ASSUME NEW r \in RuleIDs, rules[r] = NoRow, rules'[r] # NoRow PROVE rules'[r].iter # j
      <4>1. PICK x \in old : rules'[r] = [rules[x] EXCEPT !.iter = n]
        BY <2>5, <3>3
      <4>2. rules[x] \in RuleRow
        BY <2>1, <2>7 DEF RulesOf, RuleOf, TablesTyped
      <4>3. rules'[r].iter = n
        BY <4>1, <4>2 DEF RuleRow
      <4> QED
        BY <3>1, <4>3
    <3> QED
      BY <2>8, <3>2, <3>3 DEF Spared, RuleOf
  <2> QED
    BY <2>4, <2>13, <2>14, WriteStepKnows
<1>3. ASSUME CloneDraftWrite(c), ~(ScenarioExists(req[c].s) /\ VersionFree(req[c].s, req[c].v))
      PROVE  AuthoringInv' /\ Kept /\ UNCHANGED <<iterations, rules>>
  BY <1>3, RefuseStep DEF CloneDraftWrite, Refuse, tables
<1> QED
  BY <1>1, <1>2, <1>3, UnchangedSpares
LEMMA IterationRestated ==
    ASSUME NEW x \in IterationRow, NEW f \in Formulas, NEW t \in Thresholds \cup {DefaultThresholds}
    PROVE  \E y \in IterationRow : /\ y = [x EXCEPT !.trigger = f, !.thr = t]
                                   /\ y.scn = x.scn /\ y.ver = x.ver /\ y.status = x.status
<1>1. PICK y : y = [x EXCEPT !.trigger = f]
  OBVIOUS
<1>2. y \in IterationRow /\ y.scn = x.scn /\ y.ver = x.ver /\ y.status = x.status
  BY <1>1 DEF IterationRow
<1>3. PICK z : z = [y EXCEPT !.thr = t]
  OBVIOUS
<1>4. z \in IterationRow /\ z.scn = x.scn /\ z.ver = x.ver /\ z.status = x.status
  BY <1>2, <1>3 DEF IterationRow
<1>5. [x EXCEPT !.trigger = f, !.thr = t] = [[x EXCEPT !.trigger = f] EXCEPT !.thr = t]
  OBVIOUS
<1>6. z = [x EXCEPT !.trigger = f, !.thr = t]
  BY <1>1, <1>3, <1>5
<1> QED
  BY ONLY <1>4, <1>6

LEMMA UpdateDraftKeeps ==
    ASSUME AuthoringInv, NEW c \in Clients,
           \/ \E s \in ScenarioIDs, i \in IterationIDs, f \in Formulas, t \in Thresholds : UpdateDraftRead(c, s, i, f, t)
           \/ UpdateDraftWrite(c)
    PROVE  AuthoringInv' /\ Kept
<1>1. ASSUME NEW s \in ScenarioIDs, NEW i \in IterationIDs, NEW f \in Formulas, NEW t \in Thresholds,
             UpdateDraftRead(c, s, i, f, t)
      PROVE  AuthoringInv' /\ Kept
  <2>1. PICK old : old = iterations[i]
    OBVIOUS
  <2>2. old \in IterationRow
    BY <1>1, <2>1 DEF UpdateDraftRead, IterationOf, AuthoringInv, RowsInv, TablesTyped
  <2>3. \E y \in IterationRow : y = [old EXCEPT !.trigger = f, !.thr = t]
    <3>1. f \in Formulas /\ t \in Thresholds \cup {DefaultThresholds}
      OBVIOUS
    <3>2. \E y \in IterationRow : /\ y = [old EXCEPT !.trigger = f, !.thr = t]
                                  /\ y.scn = old.scn /\ y.ver = old.ver /\ y.status = old.status
      BY ONLY <2>2, <3>1, IterationRestated
    <3> QED
      BY ONLY <3>2
  <2>4. PICK row \in IterationRow : row = [old EXCEPT !.trigger = f, !.thr = t]
    BY ONLY <2>3
  <2>5. PICK q : q = [op |-> "update_draft", s |-> s, i |-> i, row |-> row]
    OBVIOUS
  <2>6. Knows(q)
    BY <2>4, <2>5 DEF Knows
  <2>7. UNCHANGED tables /\ req' = [req EXCEPT ![c] = q]
    BY <1>1, <2>1, <2>4, <2>5 DEF UpdateDraftRead, Open
  <2> QED
    BY <2>6, <2>7, ReadStep
<1>2. ASSUME UpdateDraftWrite(c), IterationOf(req[c].s, req[c].i) PROVE AuthoringInv' /\ Kept
  <2>1. PICK i, q, old : i = req[c].i /\ q = req[c].row /\ old = iterations[i]
    OBVIOUS
  <2>2. i \in IterationIDs /\ iterations[i] # NoRow /\ old \in IterationRow /\ q \in IterationRow
    BY <1>2, <2>1 DEF UpdateDraftWrite, Pending, IterationOf, AuthoringInv, RequestsKnow, Knows, RowsInv, TablesTyped
  <2>3. PICK f, t : f = q.trigger /\ t = q.thr
    OBVIOUS
  <2>4. f \in Formulas /\ t \in Thresholds \cup {DefaultThresholds}
    BY <2>2, <2>3 DEF IterationRow
  <2>5. \E y \in IterationRow : /\ y = [old EXCEPT !.trigger = f, !.thr = t]
                                /\ y.scn = old.scn /\ y.ver = old.ver /\ y.status = old.status
    BY ONLY <2>2, <2>4, IterationRestated
  <2>6. PICK row \in IterationRow : /\ row = [old EXCEPT !.trigger = f, !.thr = t]
                                    /\ row.scn = old.scn /\ row.ver = old.ver /\ row.status = old.status
    BY ONLY <2>5
  <2>7. iterations' = [iterations EXCEPT ![i].trigger = f, ![i].thr = t]
    BY <1>2, <2>1, <2>3 DEF UpdateDraftWrite, IterationsUpdate
  <2>8. iterations' = [iterations EXCEPT ![i] = row]
    <3>1. PICK g : g = [iterations EXCEPT ![i].trigger = f]
      OBVIOUS
    <3>2. iterations' = [g EXCEPT ![i].thr = t]
      BY ONLY <2>7, <3>1
    <3>3. iterations = [j \in IterationIDs |-> iterations[j]]
      BY DEF AuthoringInv, RowsInv, TablesTyped
    <3>4. PICK y : y = [old EXCEPT !.trigger = f]
      OBVIOUS
    <3>5. g = [iterations EXCEPT ![i] = y]
      BY ONLY <2>1, <3>1, <3>4
    <3>6. g = [j \in IterationIDs |-> IF j = i THEN y ELSE iterations[j]]
      BY ONLY <3>3, <3>5
    <3>7. iterations' = [g EXCEPT ![i] = [y EXCEPT !.thr = t]]
      BY ONLY <2>2, <3>2, <3>6
    <3>8. row = [y EXCEPT !.thr = t]
      BY ONLY <2>6, <3>4
    <3> QED
      BY ONLY <2>2, <3>3, <3>6, <3>7, <3>8
  <2>9. row.scn = iterations[i].scn /\ row.ver = iterations[i].ver /\ row.status = iterations[i].status
    BY ONLY <2>1, <2>6
  <2>10. UNCHANGED <<scenarios, rules, nextID>> /\ Close(c)
    BY <1>2 DEF UpdateDraftWrite
  <2>11. RowsInv' /\ Kept
    BY <2>2, <2>8, <2>9, <2>10, IterationWritten DEF AuthoringInv
  <2> QED
    BY <2>10, <2>11, WriteStepKnows
<1>3. ASSUME UpdateDraftWrite(c), ~IterationOf(req[c].s, req[c].i) PROVE AuthoringInv' /\ Kept
  BY <1>3, RefuseStep DEF UpdateDraftWrite
<1> QED
  BY <1>1, <1>2, <1>3

LEMMA CommitKeeps ==
    ASSUME AuthoringInv, NEW c \in Clients,
           \/ \E s \in ScenarioIDs, i \in IterationIDs : CommitValidate(c, s, i)
           \/ CommitRead(c) \/ CommitWrite(c)
    PROVE  AuthoringInv' /\ Kept
<1>1. ASSUME NEW s \in ScenarioIDs, NEW i \in IterationIDs, CommitValidate(c, s, i) PROVE AuthoringInv' /\ Kept
  <2>1. PICK q : q = [op |-> "commit", s |-> s, i |-> i, phase |-> "validated"]
    OBVIOUS
  <2>2. Knows(q)
    BY <2>1 DEF Knows
  <2>3. UNCHANGED tables /\ req' = [req EXCEPT ![c] = q]
    BY <1>1, <2>1 DEF CommitValidate, Open
  <2> QED
    BY <2>2, <2>3, ReadStep
<1>2. ASSUME CommitRead(c) PROVE AuthoringInv' /\ Kept
  <2>1. CASE IterationOf(req[c].s, req[c].i) /\ iterations[req[c].i].status = "draft"
    <3>1. PICK p, q : p = req[c] /\ q = [p EXCEPT !.phase = "draft"]
      OBVIOUS
    <3>2. p \in [op : {"commit"}, s : ScenarioIDs, i : IterationIDs, phase : {"validated", "draft"}]
      BY <1>2, <3>1 DEF CommitRead, Pending, AuthoringInv, RequestsKnow, Knows
    <3>3. q \in [op : {"commit"}, s : ScenarioIDs, i : IterationIDs, phase : {"validated", "draft"}]
      BY <3>1, <3>2
    <3>4. Knows(q)
      BY <3>3 DEF Knows
    <3>5. UNCHANGED tables /\ req' = [req EXCEPT ![c] = q]
      BY <1>2, <2>1, <3>1 DEF CommitRead, Continue
    <3> QED
      BY <3>4, <3>5, ReadStep
  <2>2. CASE ~(IterationOf(req[c].s, req[c].i) /\ iterations[req[c].i].status = "draft")
    BY <1>2, <2>2, RefuseStep DEF CommitRead
  <2> QED
    BY <2>1, <2>2
<1>3. ASSUME CommitWrite(c), IterationOf(req[c].s, req[c].i) PROVE AuthoringInv' /\ Kept
  <2>1. PICK i, old, row : i = req[c].i /\ old = iterations[i] /\ row = [old EXCEPT !.status = "committed"]
    OBVIOUS
  <2>2. i \in IterationIDs /\ iterations[i] # NoRow /\ old \in IterationRow
    BY <1>3, <2>1 DEF IterationOf, AuthoringInv, RowsInv, TablesTyped
  <2>3. row \in IterationRow /\ row.scn = iterations[i].scn /\ row.ver = iterations[i].ver /\ row.status = "committed"
    BY <2>1, <2>2 DEF IterationRow
  <2>4. iterations' = [iterations EXCEPT ![i] = row] /\ UNCHANGED <<scenarios, rules, nextID>> /\ Close(c)
    BY <1>3, <2>1 DEF CommitWrite, IterationsCommit
  <2>5. RowsInv' /\ Kept
    BY <2>2, <2>3, <2>4, IterationWritten DEF AuthoringInv
  <2> QED
    BY <2>4, <2>5, WriteStepKnows
<1>4. ASSUME CommitWrite(c), ~IterationOf(req[c].s, req[c].i) PROVE AuthoringInv' /\ Kept
  BY <1>4, RefuseStep DEF CommitWrite
<1> QED
  BY <1>1, <1>2, <1>3, <1>4
-----------------------------------------------------------------------------
\* The requests on rules.
LEMMA RuleReadKeeps ==
    ASSUME AuthoringInv, NEW c \in Clients, NEW q, RuleRequestRead(c, q), Knows(q)
    PROVE  AuthoringInv' /\ Kept
BY ReadStep DEF RuleRequestRead, Open

LEMMA CreateRuleKeeps ==
    ASSUME AuthoringInv, NEW c \in Clients,
           \/ \E s \in ScenarioIDs, i \in IterationIDs, f \in Formulas, mod \in Mods, g \in Groups :
                CreateRuleRead(c, s, i, [iter |-> i, formula |-> f, mod |-> mod, group |-> g, stable |-> NoID])
           \/ CreateRuleWrite(c)
    PROVE  AuthoringInv' /\ Kept
<1>1. ASSUME NEW s \in ScenarioIDs, NEW i \in IterationIDs, NEW f \in Formulas, NEW mod \in Mods, NEW g \in Groups,
             CreateRuleRead(c, s, i, [iter |-> i, formula |-> f, mod |-> mod, group |-> g, stable |-> NoID])
      PROVE  AuthoringInv' /\ Kept
  <2>1. PICK row, q : /\ row = [iter |-> i, formula |-> f, mod |-> mod, group |-> g, stable |-> NoID]
                      /\ q = [op |-> "create_rule", s |-> s, i |-> i, row |-> row]
    OBVIOUS
  <2>2. row \in RuleRow /\ row.iter = i
    BY <2>1 DEF RuleRow
  <2>3. Knows(q)
    BY <2>1, <2>2 DEF Knows
  <2>4. RuleRequestRead(c, q)
    BY <1>1, <2>1 DEF CreateRuleRead
  <2> QED
    BY <2>3, <2>4, RuleReadKeeps
<1>2. ASSUME CreateRuleWrite(c), IterationOf(req[c].s, req[c].i) PROVE AuthoringInv' /\ Kept
  <2>1. PICK old, m, row, n : old = req[c].row /\ m = nextID.rule /\ row = [old EXCEPT !.stable = m] /\ n = m + 1
    OBVIOUS
  <2>2. old \in RuleRow /\ m \in RuleIDs /\ m \in Nat /\ n \in Nat
    BY <1>2, <2>1, AuthoringAssumption
       DEF CreateRuleWrite, Pending, AuthoringInv, RequestsKnow, Knows, RowsInv, TablesTyped, RuleIDs
  <2>3. row \in RuleRow
    BY <2>1, <2>2 DEF RuleRow
  <2>4. /\ rules' = [rules EXCEPT ![m] = row] /\ nextID' = [nextID EXCEPT !.rule = n]
        /\ UNCHANGED <<scenarios, iterations>> /\ Close(c)
    BY <1>2, <2>1 DEF CreateRuleWrite, RulesCreate
  <2>5. rules' \in [RuleIDs -> RuleRow \cup {NoRow}]
    BY <2>2, <2>3, <2>4 DEF AuthoringInv, RowsInv, TablesTyped
  <2>6. ASSUME NEW r \in RuleIDs, rules'[r] # NoRow PROVE r < n
    <3>1. r = m \/ rules[r] # NoRow
      BY <2>4, <2>6
    <3>2. r = m \/ r < m
      BY <2>1, <3>1 DEF AuthoringInv, RowsInv, Fresh
    <3> QED
      BY <2>1, <2>2, <3>2 DEF RuleIDs
  <2>7. nextID.rule <= n
    BY <2>1, <2>2
  <2>8. RowsInv' /\ Kept
    BY <2>2, <2>4, <2>5, <2>6, <2>7, RulesWritten DEF AuthoringInv
  <2> QED
    BY <2>4, <2>8, WriteStepKnows
<1>3. ASSUME CreateRuleWrite(c), ~IterationOf(req[c].s, req[c].i) PROVE AuthoringInv' /\ Kept
  BY <1>3, RefuseStep DEF CreateRuleWrite
<1> QED
  BY <1>1, <1>2, <1>3

\* An update or a deletion writes over a rule that is there.
LEMMA RuleRewritten ==
    ASSUME AuthoringInv, NEW c \in Clients, NEW r, rules[r] # NoRow, NEW row \in RuleRow \cup {NoRow},
           rules' = [rules EXCEPT ![r] = row], UNCHANGED <<scenarios, iterations, nextID>>, Close(c)
    PROVE  AuthoringInv' /\ Kept
<1>1. rules' \in [RuleIDs -> RuleRow \cup {NoRow}]
  BY DEF AuthoringInv, RowsInv, TablesTyped
<1>2. PICK n : n = nextID.rule
  OBVIOUS
<1>3. n \in Nat /\ nextID.rule <= n /\ nextID' = [nextID EXCEPT !.rule = n]
  BY <1>2 DEF AuthoringInv, RowsInv, TablesTyped
<1>4. \A x \in RuleIDs : rules'[x] # NoRow => x < n
  BY <1>2 DEF AuthoringInv, RowsInv, TablesTyped, Fresh
<1>5. RowsInv' /\ Kept
  BY <1>1, <1>3, <1>4, RulesWritten DEF AuthoringInv
<1> QED
  BY <1>5, WriteStepKnows

LEMMA UpdateRuleKeeps ==
    ASSUME AuthoringInv, NEW c \in Clients,
           \/ \E s \in ScenarioIDs, i \in IterationIDs, r \in RuleIDs, f \in Formulas, mod \in Mods : UpdateRuleRead(c, s, i, r, f, mod)
           \/ UpdateRuleWrite(c)
    PROVE  AuthoringInv' /\ Kept
<1>1. ASSUME NEW s \in ScenarioIDs, NEW i \in IterationIDs, NEW r \in RuleIDs, NEW f \in Formulas, NEW mod \in Mods,
             UpdateRuleRead(c, s, i, r, f, mod)
      PROVE  AuthoringInv' /\ Kept
  <2>1. PICK old, mid : old = rules[r] /\ mid = [old EXCEPT !.formula = f]
    OBVIOUS
  <2>2. old \in RuleRow /\ old.iter = i
    BY <1>1, <2>1 DEF UpdateRuleRead, RuleOf, AuthoringInv, RowsInv, TablesTyped
  <2>3. mid \in RuleRow /\ mid.iter = i
    BY <2>1, <2>2 DEF RuleRow
  <2>4. PICK row : row = [mid EXCEPT !.mod = mod]
    OBVIOUS
  <2>5. row \in RuleRow /\ row.iter = i
    BY <2>3, <2>4 DEF RuleRow
  <2>6. [rules[r] EXCEPT !.formula = f, !.mod = mod] = [[rules[r] EXCEPT !.formula = f] EXCEPT !.mod = mod]
    OBVIOUS
  <2>7. row = [rules[r] EXCEPT !.formula = f, !.mod = mod]
    BY ONLY <2>1, <2>4, <2>6
  <2>8. PICK q : q = [op |-> "update_rule", s |-> s, i |-> i, r |-> r, row |-> row]
    OBVIOUS
  <2>9. Knows(q)
    BY <2>5, <2>8 DEF Knows
  <2>10. RuleRequestRead(c, q)
    BY <1>1, <2>7, <2>8 DEF UpdateRuleRead
  <2> QED
    BY <2>9, <2>10, RuleReadKeeps
<1>2. ASSUME UpdateRuleWrite(c), RuleOf(req[c].i, req[c].r) PROVE AuthoringInv' /\ Kept
  <2>1. PICK r, row : r = req[c].r /\ row = req[c].row
    OBVIOUS
  <2>2. rules[r] # NoRow /\ row \in RuleRow
    BY <1>2, <2>1 DEF UpdateRuleWrite, Pending, RuleOf, AuthoringInv, RequestsKnow, Knows
  <2>3. rules' = [rules EXCEPT ![r] = row] /\ UNCHANGED <<scenarios, iterations, nextID>> /\ Close(c)
    BY <1>2, <2>1 DEF UpdateRuleWrite, RulesUpdate
  <2> QED
    BY <2>2, <2>3, RuleRewritten
<1>3. ASSUME UpdateRuleWrite(c), ~RuleOf(req[c].i, req[c].r) PROVE AuthoringInv' /\ Kept
  BY <1>3, RefuseStep DEF UpdateRuleWrite
<1> QED
  BY <1>1, <1>2, <1>3

LEMMA DeleteRuleKeeps ==
    ASSUME AuthoringInv, NEW c \in Clients,
           \/ \E s \in ScenarioIDs, i \in IterationIDs, r \in RuleIDs : DeleteRuleRead(c, s, i, r)
           \/ DeleteRuleWrite(c)
    PROVE  AuthoringInv' /\ Kept
<1>1. ASSUME NEW s \in ScenarioIDs, NEW i \in IterationIDs, NEW r \in RuleIDs, DeleteRuleRead(c, s, i, r)
      PROVE  AuthoringInv' /\ Kept
  <2>1. PICK q : q = [op |-> "delete_rule", s |-> s, i |-> i, r |-> r]
    OBVIOUS
  <2>2. Knows(q)
    BY <2>1 DEF Knows
  <2>3. RuleRequestRead(c, q)
    BY <1>1, <2>1 DEF DeleteRuleRead
  <2> QED
    BY <2>2, <2>3, RuleReadKeeps
<1>2. ASSUME DeleteRuleWrite(c), RuleOf(req[c].i, req[c].r), IterationOf(req[c].s, req[c].i) PROVE AuthoringInv' /\ Kept
  <2>1. PICK r : r = req[c].r
    OBVIOUS
  <2>2. rules[r] # NoRow /\ NoRow \in RuleRow \cup {NoRow}
    BY <1>2, <2>1 DEF RuleOf
  <2>3. rules' = [rules EXCEPT ![r] = NoRow] /\ UNCHANGED <<scenarios, iterations, nextID>> /\ Close(c)
    BY <1>2, <2>1 DEF DeleteRuleWrite, RulesDelete
  <2> QED
    BY <2>2, <2>3, RuleRewritten
<1>3. ASSUME DeleteRuleWrite(c), ~(RuleOf(req[c].i, req[c].r) /\ IterationOf(req[c].s, req[c].i)) PROVE AuthoringInv' /\ Kept
  BY <1>3, RefuseStep DEF DeleteRuleWrite
<1> QED
  BY <1>1, <1>2, <1>3
-----------------------------------------------------------------------------
\* Preparation and publication.
LEMMA PublicationKeeps ==
    ASSUME AuthoringInv, NEW c \in Clients,
           \/ \E s \in ScenarioIDs, i \in IterationIDs : StartPreparation(c, s, i) \/ PublishRead(c, s, i) \/ UnpublishRead(c, s, i)
           \/ PublishWrite(c) \/ UnpublishWrite(c)
    PROVE  AuthoringInv' /\ Kept
<1>1. ASSUME NEW s \in ScenarioIDs, NEW i \in IterationIDs, StartPreparation(c, s, i) PROVE AuthoringInv' /\ Kept
  BY <1>1, OtherTables DEF StartPreparation
<1>2. ASSUME NEW s \in ScenarioIDs, NEW i \in IterationIDs, PublishRead(c, s, i) PROVE AuthoringInv' /\ Kept
  <2>1. PICK q : q = [op |-> "publish", s |-> s, i |-> i, old |-> scenarios[s].live]
    OBVIOUS
  <2>2. Older(s) /\ StaysLive(s, i)
    BY <1>2 DEF PublishRead, Older, StaysLive, AuthoringInv, RowsInv, Fresh
  <2>3. Knows(q)
    BY <2>1, <2>2 DEF Knows
  <2>4. UNCHANGED tables /\ req' = [req EXCEPT ![c] = q]
    BY <1>2, <2>1 DEF PublishRead, Open
  <2> QED
    BY <2>3, <2>4, ReadStep
<1>3. ASSUME NEW s \in ScenarioIDs, NEW i \in IterationIDs, UnpublishRead(c, s, i) PROVE AuthoringInv' /\ Kept
  <2>1. PICK q : q = [op |-> "unpublish", s |-> s, i |-> i]
    OBVIOUS
  <2>2. Knows(q)
    BY <2>1 DEF Knows
  <2>3. UNCHANGED tables /\ req' = [req EXCEPT ![c] = q]
    BY <1>3, <2>1 DEF UnpublishRead, Open
  <2> QED
    BY <2>2, <2>3, ReadStep
<1>4. ASSUME NEW s, NEW i \in IterationIDs \cup {NoID}, ScenarioExists(s), StaysLive(s, i),
             scenarios' = SetLiveIterationID(s, i), UNCHANGED <<iterations, rules, nextID>>, Close(c)
      PROVE  AuthoringInv' /\ Kept
  <2>1. PICK old, row : old = scenarios[s] /\ row = [old EXCEPT !.live = i]
    OBVIOUS
  <2>2. s \in ScenarioIDs /\ old \in ScenarioRow
    BY <1>4, <2>1 DEF ScenarioExists, AuthoringInv, RowsInv, TablesTyped
  <2>3. row \in ScenarioRow /\ row.live = i
    BY <2>1, <2>2 DEF ScenarioRow
  <2>4. scenarios' = [scenarios EXCEPT ![s] = row]
    BY <1>4, <2>1 DEF SetLiveIterationID
  <2>5. RowsInv' /\ Kept
    BY <1>4, <2>2, <2>3, <2>4, ScenarioWritten DEF AuthoringInv
  <2> QED
    BY <1>4, <2>5, WriteStepKnows
<1>5. ASSUME PublishWrite(c), ScenarioExists(req[c].s) PROVE AuthoringInv' /\ Kept
  <2>1. PICK s, i : s = req[c].s /\ i = req[c].i
    OBVIOUS
  <2>2. i \in IterationIDs \cup {NoID} /\ StaysLive(s, i) /\ ScenarioExists(s)
    BY <1>5, <2>1 DEF PublishWrite, Pending, AuthoringInv, RequestsKnow, Knows
  <2>3. scenarios' = SetLiveIterationID(s, i) /\ UNCHANGED <<iterations, rules, nextID>> /\ Close(c)
    BY <1>5, <2>1 DEF PublishWrite
  <2> QED
    BY <1>4, <2>2, <2>3
<1>6. ASSUME UnpublishWrite(c), ScenarioExists(req[c].s) PROVE AuthoringInv' /\ Kept
  <2>1. PICK s : s = req[c].s
    OBVIOUS
  <2>2. StaysLive(s, NoID) /\ ScenarioExists(s)
    BY <1>6, <2>1 DEF StaysLive
  <2>3. scenarios' = SetLiveIterationID(s, NoID) /\ UNCHANGED <<iterations, rules, nextID>> /\ Close(c)
    BY <1>6, <2>1 DEF UnpublishWrite
  <2> QED
    BY <1>4, <2>2, <2>3
<1>7. ASSUME PublishWrite(c) \/ UnpublishWrite(c), ~ScenarioExists(req[c].s) PROVE AuthoringInv' /\ Kept
  BY <1>7, RefuseStep DEF PublishWrite, UnpublishWrite
<1> QED
  BY <1>1, <1>2, <1>3, <1>5, <1>6, <1>7

-----------------------------------------------------------------------------
\* The invariant.
LEMMA AuthoringStarts == Init => AuthoringInv
<1> SUFFICES ASSUME Init PROVE AuthoringInv
  OBVIOUS
<1>1. TablesTyped
  BY DEF Init, TablesTyped
<1>2. \A s : ~ScenarioExists(s)
  BY DEF Init, ScenarioExists
<1>3. \A s : IterationsOf(s) = {}
  BY DEF Init, IterationsOf, IterationOf
<1>4. Fresh
  BY <1>2 DEF Init, Fresh
<1>5. VersionsDense /\ LiveIsCommitted /\ VersionsFollowCreation
  BY <1>2, <1>3 DEF VersionsDense, LiveIsCommitted, VersionsFollowCreation
<1>6. RequestsKnow
  BY NobodyKnows DEF Init, RequestsKnow
<1> QED
  BY <1>1, <1>4, <1>5, <1>6 DEF AuthoringInv, RowsInv

LEMMA AuthoringKeeps == AuthoringInv /\ AuthoringNext => AuthoringInv' /\ Kept
<1> SUFFICES ASSUME AuthoringInv, AuthoringNext PROVE AuthoringInv' /\ Kept
  OBVIOUS
<1>1. ASSUME NEW x, IndexJobStep(x) PROVE AuthoringInv' /\ Kept
  BY <1>1, OtherTables DEF IndexJobStep
<1>2. ASSUME NEW c \in Clients, ScenarioStep(c) PROVE AuthoringInv' /\ Kept
  BY <1>2, CreateScenarioKeeps, UpdateScenarioKeeps, CopyScenarioKeeps, DeleteScenarioKeeps DEF ScenarioStep
<1>3. ASSUME NEW c \in Clients, IterationStep(c) PROVE AuthoringInv' /\ Kept
  BY <1>3, CreateDraftKeeps, CloneDraftKeeps, UpdateDraftKeeps, CommitKeeps DEF IterationStep
<1>4. ASSUME NEW c \in Clients, RuleStep(c) PROVE AuthoringInv' /\ Kept
  BY <1>4, CreateRuleKeeps, UpdateRuleKeeps, DeleteRuleKeeps DEF RuleStep
<1>5. ASSUME NEW c \in Clients, PublicationStep(c) PROVE AuthoringInv' /\ Kept
  BY <1>5, PublicationKeeps DEF PublicationStep
<1>6. ASSUME NEW c \in Clients, WriteStep(c) PROVE AuthoringInv' /\ Kept
  BY <1>6, UpdateScenarioKeeps, CopyScenarioKeeps, CreateDraftKeeps, CloneDraftKeeps, UpdateDraftKeeps, CommitKeeps,
     CreateRuleKeeps, UpdateRuleKeeps, DeleteRuleKeeps, PublicationKeeps DEF WriteStep
<1> QED
  BY <1>1, <1>2, <1>3, <1>4, <1>5, <1>6 DEF AuthoringNext
-----------------------------------------------------------------------------
\* A committed iteration that nobody writes to.
IsWriter(q, i) == q # NoRequest /\ q.op \in {"update_draft", "create_rule", "update_rule", "delete_rule"} /\ q.i = i
Asks(c, i) == \E q : req' = [req EXCEPT ![c] = q] /\ ~IsWriter(q, i)

\* The client goes on with a request that is no writer of i, and i is left alone.
Spares(c, i) == Spared(i) /\ (req' = req \/ Asks(c, i))

LEMMA QuietStays ==
    ASSUME AuthoringInv, NEW c \in Clients, NEW i \in IterationIDs, Quiet(i), Spares(c, i)
    PROVE  Quiet(i)' /\ iterations'[i] = iterations[i] /\ RuleRows(i)' = RuleRows(i)
<1>1. iterations'[i] = iterations[i]
  BY DEF Spares, Spared
<1>2. Writers(i)' = {}
  <2>1. \A d \in Clients : ~IsWriter(req[d], i)
    BY DEF Quiet, Writers, IsWriter
  <2>2. \A d \in Clients : ~IsWriter(req'[d], i)
    <3>1. CASE req' = req
      BY <2>1, <3>1
    <3>2. CASE Asks(c, i)
      <4>1. PICK q : req' = [req EXCEPT ![c] = q] /\ ~IsWriter(q, i)
        BY <3>2 DEF Asks
      <4>2. \A d \in Clients : req'[d] = q \/ req'[d] = req[d]
        BY <4>1 DEF AuthoringInv, RequestsKnow
      <4> QED
        BY <2>1, <4>1, <4>2
    <3> QED
      BY <3>1, <3>2 DEF Spares
  <2> QED
    BY <2>2 DEF Writers, IsWriter
<1>3. RuleRows(i)' = RuleRows(i)
  <2>1. RulesOf(i)' = RulesOf(i) /\ \A r \in RulesOf(i) : rules'[r] = rules[r]
    BY DEF Spares, Spared, RulesOf
  <2> QED
    BY <2>1 DEF RuleRows
<1> QED
  BY <1>1, <1>2, <1>3 DEF Quiet

LEMMA NobodyWrites == \A i : ~IsWriter(NoRequest, i)
BY DEF IsWriter

LEMMA ClosedSpares ==
    ASSUME NEW c, NEW i, Spared(i), Close(c)
    PROVE  Spares(c, i)
BY NobodyWrites DEF Spares, Asks, Close

LEMMA ReadSpares ==
    ASSUME UNCHANGED tables, NEW c, NEW i \in IterationIDs, NEW q, req' = [req EXCEPT ![c] = q], ~IsWriter(q, i)
    PROVE  Spares(c, i)
BY UnchangedSpares DEF tables, Spares, Asks

LEMMA RefuseSpares ==
    ASSUME NEW c, NEW i \in IterationIDs, Refuse(c)
    PROVE  Spares(c, i)
BY UnchangedSpares, ClosedSpares DEF Refuse, tables

\* A rule of another iteration is written.
LEMMA RuleSpares ==
    ASSUME AuthoringInv, NEW c, NEW i \in IterationIDs, NEW r, NEW row, rules[r] # NoRow => rules[r].iter # i,
           row # NoRow => row.iter # i, rules' = [rules EXCEPT ![r] = row], iterations' = iterations, Close(c)
    PROVE  Spares(c, i)
<1>1. ASSUME NEW x \in RuleIDs PROVE (RuleOf(i, x)' <=> RuleOf(i, x)) /\ (RuleOf(i, x) => rules'[x] = rules[x])
  <2>1. CASE x = r
    <3>1. rules'[x] = row
      BY <2>1 DEF AuthoringInv, RowsInv, TablesTyped
    <3> QED
      BY <2>1, <3>1 DEF RuleOf
  <2>2. CASE x # r
    <3>1. rules'[x] = rules[x]
      BY <2>2 DEF AuthoringInv, RowsInv, TablesTyped
    <3> QED
      BY <3>1 DEF RuleOf
  <2> QED
    BY <2>1, <2>2
<1> QED
  BY <1>1, ClosedSpares DEF Spared

\* Another iteration is written.
LEMMA IterationSpares ==
    ASSUME AuthoringInv, NEW c, NEW i \in IterationIDs, NEW j, j # i, NEW row,
           iterations' = [iterations EXCEPT ![j] = row], rules' = rules, Close(c)
    PROVE  Spares(c, i)
<1>1. iterations'[i] = iterations[i]
  BY DEF AuthoringInv, RowsInv, TablesTyped
<1>2. Spared(i)
  BY <1>1 DEF Spared, RuleOf
<1> QED
  BY <1>2, ClosedSpares

LEMMA ScenarioStepSpares ==
    ASSUME AuthoringInv, NEW c \in Clients, NEW i \in IterationIDs, Quiet(i), ScenarioStep(c)
    PROVE  Spares(c, i) \/ iterations'[i] = NoRow
<1>1. ASSUME NEW t, CreateScenario(c, t) PROVE Spares(c, i)
  BY <1>1, UnchangedSpares DEF CreateScenario, Spares
<1>2. ASSUME NEW s, NEW t, UpdateScenarioRead(c, s, t) PROVE Spares(c, i)
  <2>1. PICK q : q = [op |-> "update_scenario", s |-> s, row |-> [scenarios[s] EXCEPT !.type = t]]
    OBVIOUS
  <2>2. ~IsWriter(q, i)
    BY <2>1 DEF IsWriter
  <2> QED
    BY <1>2, <2>1, <2>2, ReadSpares DEF UpdateScenarioRead, Open
<1>3. ASSUME NEW s, CopyScenarioRead(c, s) PROVE Spares(c, i)
  <2>1. PICK q : q = [op |-> "copy", s |-> s, row |-> scenarios[s], its |-> [j \in IterationsOf(s) |-> iterations[j]]]
    OBVIOUS
  <2>2. ~IsWriter(q, i)
    BY <2>1 DEF IsWriter
  <2> QED
    BY <1>3, <2>1, <2>2, ReadSpares DEF CopyScenarioRead, Open
<1>4. ASSUME NEW s \in ScenarioIDs, DeleteScenario(c, s) PROVE Spares(c, i) \/ iterations'[i] = NoRow
  <2>1. CASE IterationOf(s, i)
    BY <1>4, <2>1 DEF DeleteScenario
  <2>2. CASE ~IterationOf(s, i)
    <3>1. iterations'[i] = iterations[i] /\ req' = req
      BY <1>4, <2>2 DEF DeleteScenario
    <3>2. ASSUME NEW r \in RuleIDs PROVE (RuleOf(i, r)' <=> RuleOf(i, r)) /\ (RuleOf(i, r) => rules'[r] = rules[r])
      <4>1. rules'[r] = IF rules[r] # NoRow /\ IterationOf(s, rules[r].iter) THEN NoRow ELSE rules[r]
        BY <1>4 DEF DeleteScenario
      <4>2. CASE RuleOf(i, r)
        BY <2>2, <4>1, <4>2 DEF RuleOf
      <4>3. CASE ~RuleOf(i, r)
        BY <4>1, <4>3 DEF RuleOf
      <4> QED
        BY <4>2, <4>3
    <3> QED
      BY <3>1, <3>2 DEF Spares, Spared
  <2> QED
    BY <2>1, <2>2
<1> QED
  BY <1>1, <1>2, <1>3, <1>4 DEF ScenarioStep

LEMMA IterationStepSpares ==
    ASSUME AuthoringInv, NEW c \in Clients, NEW i \in IterationIDs, Quiet(i), IterationStep(c)
    PROVE  Spares(c, i)
<1>1. ASSUME NEW s, CreateDraftRead(c, s) PROVE Spares(c, i)
  <2>1. PICK q : q = [op |-> "create_draft", s |-> s, v |-> NextVersion(s)]
    OBVIOUS
  <2>2. ~IsWriter(q, i)
    BY <2>1 DEF IsWriter
  <2> QED
    BY <1>1, <2>1, <2>2, ReadSpares DEF CreateDraftRead, Open
<1>2. ASSUME NEW s, NEW j, CloneDraftRead(c, s, j) PROVE Spares(c, i)
  <2>1. PICK q : q = [op |-> "clone_draft", s |-> s, i |-> j, v |-> NextVersion(s), row |-> iterations[j]]
    OBVIOUS
  <2>2. ~IsWriter(q, i)
    BY <2>1 DEF IsWriter
  <2> QED
    BY <1>2, <2>1, <2>2, ReadSpares DEF CloneDraftRead, Open
<1>3. ASSUME NEW s, NEW j, CommitValidate(c, s, j) PROVE Spares(c, i)
  <2>1. PICK q : q = [op |-> "commit", s |-> s, i |-> j, phase |-> "validated"]
    OBVIOUS
  <2>2. ~IsWriter(q, i)
    BY <2>1 DEF IsWriter
  <2> QED
    BY <1>3, <2>1, <2>2, ReadSpares DEF CommitValidate, Open
<1>4. ASSUME NEW s, NEW j, NEW f, NEW t, UpdateDraftRead(c, s, j, f, t) PROVE Spares(c, i)
  <2>1. PICK q : q = [op |-> "update_draft", s |-> s, i |-> j, row |-> [iterations[j] EXCEPT !.trigger = f, !.thr = t]]
    OBVIOUS
  <2>2. j # i
    BY <1>4 DEF UpdateDraftRead, Quiet
  <2>3. ~IsWriter(q, i)
    BY <2>1, <2>2 DEF IsWriter
  <2> QED
    BY <1>4, <2>1, <2>3, ReadSpares DEF UpdateDraftRead, Open
<1> QED
  BY <1>1, <1>2, <1>3, <1>4 DEF IterationStep

LEMMA RuleStepSpares ==
    ASSUME AuthoringInv, NEW c \in Clients, NEW i \in IterationIDs, Quiet(i), RuleStep(c)
    PROVE  Spares(c, i)
<1>1. ASSUME NEW q, RuleRequestRead(c, q) PROVE Spares(c, i)
  <2>1. q.i # i
    BY <1>1 DEF RuleRequestRead, Quiet
  <2>2. ~IsWriter(q, i)
    BY <2>1 DEF IsWriter
  <2> QED
    BY <1>1, <2>2, ReadSpares DEF RuleRequestRead, Open
<1> QED
  BY <1>1 DEF RuleStep, CreateRuleRead, UpdateRuleRead, DeleteRuleRead

LEMMA PublicationStepSpares ==
    ASSUME NEW c \in Clients, NEW i \in IterationIDs, PublicationStep(c)
    PROVE  Spares(c, i)
<1>1. ASSUME NEW s, NEW j, StartPreparation(c, s, j) PROVE Spares(c, i)
  BY <1>1, UnchangedSpares DEF StartPreparation, Spares
<1>2. ASSUME NEW s, NEW j, PublishRead(c, s, j) PROVE Spares(c, i)
  <2>1. PICK q : q = [op |-> "publish", s |-> s, i |-> j, old |-> scenarios[s].live]
    OBVIOUS
  <2>2. ~IsWriter(q, i)
    BY <2>1 DEF IsWriter
  <2> QED
    BY <1>2, <2>1, <2>2, ReadSpares DEF PublishRead, Open
<1>3. ASSUME NEW s, NEW j, UnpublishRead(c, s, j) PROVE Spares(c, i)
  <2>1. PICK q : q = [op |-> "unpublish", s |-> s, i |-> j]
    OBVIOUS
  <2>2. ~IsWriter(q, i)
    BY <2>1 DEF IsWriter
  <2> QED
    BY <1>3, <2>1, <2>2, ReadSpares DEF UnpublishRead, Open
<1> QED
  BY <1>1, <1>2, <1>3 DEF PublicationStep

LEMMA WriteStepSpares ==
    ASSUME AuthoringInv, NEW c \in Clients, NEW i \in IterationIDs, Quiet(i), WriteStep(c)
    PROVE  Spares(c, i)
<1> DEFINE q == req[c]
<1>1. iterations[i] # NoRow /\ iterations[i] \in IterationRow /\ iterations[i].status = "committed" /\ i < nextID.iter
  BY DEF Quiet, AuthoringInv, RowsInv, TablesTyped, Fresh
<1>2. ~IsWriter(q, i)
  BY DEF Quiet, Writers, IsWriter
<1>3. CASE UpdateScenarioWrite(c) \/ PublishWrite(c) \/ UnpublishWrite(c)
  BY <1>3, RefuseSpares, UnchangedSpares, ClosedSpares DEF UpdateScenarioWrite, PublishWrite, UnpublishWrite
<1>4. CASE CopyScenarioWrite(c)
  BY <1>1, <1>4, CopyScenarioKeeps, ClosedSpares DEF CopyScenarioWrite
<1>5. CASE CreateDraftWrite(c)
  <2>1. CASE Refuse(c)
    BY <2>1, RefuseSpares
  <2>2. CASE ~Refuse(c)
    <3>1. PICK n, row : n = nextID.iter /\ row = DraftDefaults(q.s, q.v)
      OBVIOUS
    <3>2. iterations' = [iterations EXCEPT ![n] = row] /\ rules' = rules /\ Close(c)
      BY <1>5, <2>2, <3>1 DEF CreateDraftWrite, IterationsCreate
    <3>3. n # i
      BY <1>1, <3>1 DEF AuthoringInv, RowsInv, TablesTyped
    <3> QED
      BY <3>2, <3>3, IterationSpares
  <2> QED
    BY <2>1, <2>2
<1>6. CASE CloneDraftWrite(c)
  BY <1>1, <1>6, CloneDraftKeeps, RefuseSpares, ClosedSpares DEF CloneDraftWrite, Refuse
<1>7. CASE UpdateDraftWrite(c)
  <2>1. q.i # i
    BY <1>2, <1>7 DEF UpdateDraftWrite, Pending, IsWriter
  <2>2. CASE Refuse(c)
    BY <2>2, RefuseSpares
  <2>3. CASE ~Refuse(c)
    <3>1. iterations' = IterationsUpdate(q.i, q.row) /\ rules' = rules /\ Close(c)
      BY <1>7, <2>3 DEF UpdateDraftWrite
    <3>2. PICK j, f, t : j = q.i /\ f = q.row.trigger /\ t = q.row.thr
      OBVIOUS
    <3>3. iterations' = [iterations EXCEPT ![j].trigger = f, ![j].thr = t]
      BY <3>1, <3>2 DEF IterationsUpdate
    <3>4. PICK g : g = [iterations EXCEPT ![j].trigger = f]
      OBVIOUS
    <3>5. iterations' = [g EXCEPT ![j].thr = t]
      BY ONLY <3>3, <3>4
    <3>6. iterations'[i] = iterations[i]
      <4>1. g[i] = iterations[i] /\ DOMAIN g = IterationIDs
        BY <2>1, <3>2, <3>4 DEF AuthoringInv, RowsInv, TablesTyped
      <4> QED
        BY <2>1, <3>2, <3>5, <4>1
    <3>7. Spared(i)
      BY <3>1, <3>6 DEF Spared, RuleOf
    <3> QED
      BY <3>1, <3>7, ClosedSpares
  <2> QED
    BY <2>2, <2>3
<1>8. CASE CommitRead(c)
  <2>1. CASE Refuse(c)
    BY <2>1, RefuseSpares
  <2>2. CASE ~Refuse(c)
    <3>1. PICK p, r : p = q /\ r = [p EXCEPT !.phase = "draft"]
      OBVIOUS
    <3>2. p \in [op : {"commit"}, s : ScenarioIDs, i : IterationIDs, phase : {"validated", "draft"}]
      BY <1>8, <3>1 DEF CommitRead, Pending, AuthoringInv, RequestsKnow, Knows
    <3>3. r.op = "commit"
      BY <3>1, <3>2
    <3>4. ~IsWriter(r, i)
      BY <3>3 DEF IsWriter
    <3>5. UNCHANGED tables /\ req' = [req EXCEPT ![c] = r]
      BY <1>8, <2>2, <3>1 DEF CommitRead, Continue
    <3> QED
      BY <3>4, <3>5, ReadSpares
  <2> QED
    BY <2>1, <2>2
<1>9. CASE CommitWrite(c)
  <2>1. CASE Refuse(c)
    BY <2>1, RefuseSpares
  <2>2. CASE ~Refuse(c)
    <3>1. PICK j : j = q.i
      OBVIOUS
    <3>2. iterations' = [iterations EXCEPT ![j].status = "committed"] /\ rules' = rules /\ Close(c)
      BY <1>9, <2>2, <3>1 DEF CommitWrite, IterationsCommit
    <3>3. iterations'[i] = iterations[i]
      <4>1. CASE j = i
        <5>1. iterations'[i] = [iterations[i] EXCEPT !.status = "committed"]
          BY <3>2, <4>1 DEF AuthoringInv, RowsInv, TablesTyped
        <5> QED
          BY <1>1, <5>1 DEF IterationRow
      <4>2. CASE j # i
        BY <3>2, <4>2 DEF AuthoringInv, RowsInv, TablesTyped
      <4> QED
        BY <4>1, <4>2
    <3>4. Spared(i)
      BY <3>2, <3>3 DEF Spared, RuleOf
    <3> QED
      BY <3>2, <3>4, ClosedSpares
  <2> QED
    BY <2>1, <2>2
<1>10. CASE CreateRuleWrite(c)
  <2>1. q.i # i
    BY <1>2, <1>10 DEF CreateRuleWrite, Pending, IsWriter
  <2>2. CASE Refuse(c)
    BY <2>2, RefuseSpares
  <2>3. CASE ~Refuse(c)
    <3>1. PICK old, m, row : old = q.row /\ m = nextID.rule /\ row = [old EXCEPT !.stable = m]
      OBVIOUS
    <3>2. old \in RuleRow /\ old.iter # i /\ m \in RuleIDs
      BY <1>10, <2>1, <2>3, <3>1, AuthoringAssumption
         DEF CreateRuleWrite, Pending, AuthoringInv, RequestsKnow, Knows, RowsInv, TablesTyped, RuleIDs
    <3>3. row.iter # i
      BY <3>1, <3>2 DEF RuleRow
    <3>4. rules[m] = NoRow
      BY <3>1, <3>2 DEF AuthoringInv, RowsInv, TablesTyped, Fresh
    <3>5. rules' = [rules EXCEPT ![m] = row] /\ iterations' = iterations /\ Close(c)
      BY <1>10, <2>3, <3>1 DEF CreateRuleWrite, RulesCreate
    <3> QED
      BY <3>3, <3>4, <3>5, RuleSpares
  <2> QED
    BY <2>2, <2>3
<1>11. CASE UpdateRuleWrite(c)
  <2>1. q.i # i
    BY <1>2, <1>11 DEF UpdateRuleWrite, Pending, IsWriter
  <2>2. CASE Refuse(c)
    BY <2>2, RefuseSpares
  <2>3. CASE ~Refuse(c)
    <3>1. PICK r, row : r = q.r /\ row = q.row
      OBVIOUS
    <3>2. row.iter # i /\ rules[r].iter # i
      BY <1>11, <2>1, <2>3, <3>1 DEF UpdateRuleWrite, RuleOf, Pending, AuthoringInv, RequestsKnow, Knows
    <3>3. rules' = [rules EXCEPT ![r] = row] /\ iterations' = iterations /\ Close(c)
      BY <1>11, <2>3, <3>1 DEF UpdateRuleWrite, RulesUpdate
    <3> QED
      BY <3>2, <3>3, RuleSpares
  <2> QED
    BY <2>2, <2>3
<1>12. CASE DeleteRuleWrite(c)
  <2>1. q.i # i
    BY <1>2, <1>12 DEF DeleteRuleWrite, Pending, IsWriter
  <2>2. CASE Refuse(c)
    BY <2>2, RefuseSpares
  <2>3. CASE ~Refuse(c)
    <3>1. PICK r : r = q.r
      OBVIOUS
    <3>2. rules[r].iter # i
      BY <1>12, <2>1, <2>3, <3>1 DEF DeleteRuleWrite, RuleOf
    <3>3. rules' = [rules EXCEPT ![r] = NoRow] /\ iterations' = iterations /\ Close(c)
      BY <1>12, <2>3, <3>1 DEF DeleteRuleWrite, RulesDelete
    <3> QED
      BY <3>2, <3>3, RuleSpares
  <2> QED
    BY <2>2, <2>3
<1> QED
  BY <1>3, <1>4, <1>5, <1>6, <1>7, <1>8, <1>9, <1>10, <1>11, <1>12 DEF WriteStep
-----------------------------------------------------------------------------
\* The steps of the composition.
LEMMA DecisionsLeaveTables == DecisionNext => UNCHANGED <<scenarios, iterations, rules, nextID, req>>
<1> SUFFICES ASSUME DecisionNext PROVE UNCHANGED <<scenarios, iterations, rules, nextID, req>>
  OBVIOUS
<1>1. ASSUME NEW e, NEW o, NEW S, StartEvaluation(e, o, S) PROVE UNCHANGED authoringVars
  BY <1>1 DEF StartEvaluation
<1>2. ASSUME NEW e, NEW s, EvaluationStep(e, s) \/ BranchFails(e, s) PROVE UNCHANGED authoringVars
  BY <1>2 DEF EvaluationStep, ReadScenario, ReadIteration, ReadRules, EvaluateRules, BuildOutputs, StoreDecision, BranchFails, Move
<1>3. CASE SnoozeStep
  BY <1>3 DEF SnoozeStep, CreateSnooze, SnoozeExpires, KeepAuthoring, authoringVars
<1>4. ASSUME NEW k, NEW kind, ConfigStep(k, kind) PROVE UNCHANGED <<scenarios, iterations, rules, nextID, req>>
  BY <1>4 DEF ConfigStep, DeleteConfig, UpdateConfig, CreateConfig, WriteConfig, KeepAuthoring
<1>5. ASSUME NEW t, TestRunStep(t) PROVE UNCHANGED authoringVars
  BY <1>5 DEF TestRunStep, CreateTestRun, CancelTestRun, EvaluateTestRun, EvaluatePhantomRules, StorePhantom, SetTestRun
<1> QED
  BY <1>1, <1>2, <1>3, <1>4, <1>5
     DEF DecisionNext, EvaluateAllLiveScenarios, EvaluateScenario, ScreeningConfigStep, ScoringConfigStep, authoringVars

LEMMA NextKeeps == AuthoringInv /\ [Next]_vars => AuthoringInv'
<1> SUFFICES ASSUME AuthoringInv, [Next]_vars PROVE AuthoringInv'
  OBVIOUS
<1>1. CASE AuthoringNext
  BY <1>1, AuthoringKeeps
<1>2. CASE DecisionNext
  BY <1>2, DecisionsLeaveTables, OtherTables
<1>3. CASE UNCHANGED vars
  BY <1>3, OtherTables DEF vars, authoringVars
<1> QED
  BY <1>1, <1>2, <1>3 DEF Next

LEMMA AuthoringAlways == DecisionSpec => []AuthoringInv
BY AuthoringStarts, NextKeeps, PTL DEF DecisionSpec

\* The live iteration of a scenario is one of its own and is committed, and the
\* versions of its iterations follow their creation, however the requests that
\* publish, unpublish, update, copy, clone, commit and delete overlap.
THEOREM PublicationSound == DecisionSpec => []PublicationIsSound
<1>1. AuthoringInv => PublicationIsSound
  BY DEF AuthoringInv, RowsInv, PublicationIsSound
<1> QED
  BY <1>1, AuthoringAlways, PTL

\* Once an iteration is committed and no request holds it as a draft, its row and
\* its rules stay what they are for as long as it exists.
THEOREM CommittedIsFrozen == DecisionSpec => FrozenOnceQuiet
<1>1. ASSUME AuthoringInv, [Next]_vars
      PROVE  [\A i \in IterationIDs :
                Quiet(i) =>
                  \/ iterations'[i] = NoRow
                  \/ Quiet(i)' /\ iterations'[i] = iterations[i] /\ RuleRows(i)' = RuleRows(i)]_authoringVars
  <2> SUFFICES ASSUME authoringVars' # authoringVars, NEW i \in IterationIDs, Quiet(i), iterations'[i] # NoRow
               PROVE  Quiet(i)' /\ iterations'[i] = iterations[i] /\ RuleRows(i)' = RuleRows(i)
    OBVIOUS
  <2>1. CASE UNCHANGED <<scenarios, iterations, rules, nextID, req>>
    BY <2>1 DEF Quiet, Writers, RuleRows, RulesOf, RuleOf
  <2>2. ASSUME NEW c \in Clients, ScenarioStep(c) \/ IterationStep(c) \/ RuleStep(c) \/ PublicationStep(c) \/ WriteStep(c)
        PROVE  Quiet(i)' /\ iterations'[i] = iterations[i] /\ RuleRows(i)' = RuleRows(i)
    <3>1. Spares(c, i)
      BY <1>1, <2>2, ScenarioStepSpares, IterationStepSpares, RuleStepSpares, PublicationStepSpares, WriteStepSpares
    <3> QED
      BY <1>1, <3>1, QuietStays
  <2>3. ASSUME NEW x, IndexJobStep(x) PROVE UNCHANGED <<scenarios, iterations, rules, nextID, req>>
    BY <2>3 DEF IndexJobStep
  <2>4. CASE AuthoringNext
    BY <2>1, <2>2, <2>3, <2>4 DEF AuthoringNext
  <2>5. CASE DecisionNext
    BY <2>1, <2>5, DecisionsLeaveTables
  <2> QED
    BY <1>1, <2>1, <2>4, <2>5 DEF Next, vars, authoringVars
<1> QED
  BY <1>1, AuthoringAlways, PTL DEF DecisionSpec, FrozenOnceQuiet
-----------------------------------------------------------------------------
\* What an evaluation has loaded is what the tables say, as long as the iteration
\* is not touched: only iterations that are live, and so committed, are loaded.
Committed(i) == i \in IterationIDs /\ iterations[i] # NoRow /\ iterations[i].status = "committed"
RowAs(i, it) == i \notin touched => Committed(i) /\ it = iterations[i]
RulesAs(i, rs) == i \notin touched => Committed(i) /\ rs = RuleRows(i)
Says(i, o, d) == i \notin touched => Committed(i) /\ AsCommitted(i, o, d)

SeenInv ==
    /\ DOMAIN seen.scn = ScenarioIDs /\ DOMAIN seen.iter = IterationIDs /\ DOMAIN seen.rule = IterationIDs
    /\ \A s \in ScenarioIDs : \A v \in seen.scn[s] :
          v.live # NoID => v.live \in IterationIDs /\ (v.live \in touched \/ Committed(v.live))
    /\ \A i \in IterationIDs : \A v \in seen.iter[i] : RowAs(i, v)
    /\ \A i \in IterationIDs : \A v \in seen.rule[i] : RulesAs(i, v)

Shape(d) == d = [execs |-> d.execs, score |-> d.score, outcome |-> d.outcome] /\ d.execs = [r \in DOMAIN d.execs |-> d.execs[r]]

\* A branch of an evaluation for object o.
BranchInv(o, b) ==
    /\ b.st = "iteration" => b.scn.live \in IterationIDs
    /\ b.st \in {"rules", "evaluate"} => /\ b.i \in IterationIDs /\ RowAs(b.i, b.it)
                                         /\ b.i \notin touched => Val(o, b.it.trigger) = "yes"
    /\ b.st = "evaluate" => RulesAs(b.i, b.rs)
    /\ b.st \in {"build", "store"} => b.i \in IterationIDs /\ Shape(b.d) /\ Says(b.i, o, b.d)

EvalsInv ==
    /\ evals = [e \in Evals |-> evals[e]]
    /\ \A e \in Evals : evals[e] # NoRequest =>
          /\ evals[e] = [obj |-> evals[e].obj, b |-> evals[e].b] /\ evals[e].obj \in Objects
          /\ evals[e].b = [s \in ScenarioIDs |-> evals[e].b[s]]
          /\ \A s \in ScenarioIDs : BranchInv(evals[e].obj, evals[e].b[s])

DecisionInv(s, r) ==
    r # NoRow => /\ r = [i |-> r.i, obj |-> r.obj, d |-> r.d, wf |-> r.wf, reqs |-> r.reqs, events |-> r.events]
                 /\ IterationOf(s, r.i) /\ Shape(r.d) /\ Says(r.i, r.obj, r.d)
DecisionsInv ==
    /\ decisions = [e \in Evals |-> [s \in ScenarioIDs |-> decisions[e][s]]]
    /\ \A e \in Evals, s \in ScenarioIDs : DecisionInv(s, decisions[e][s])

\* A test run evaluates the phantom iteration as it is, committed or not.
AtInv(ph, at) ==
    at # NoRequest =>
      /\ at.st = "rules" => /\ at.obj \in Objects
                            /\ at.it.status = "committed" => /\ RowAs(ph, at.it)
                                                             /\ ph \notin touched => Val(at.obj, at.it.trigger) = "yes"
      /\ at.st = "store" => Shape(at.d) /\ (at.was = "committed" => Says(ph, at.obj, at.d))
RunInv(tr) ==
    tr # NoRow => /\ tr = [scn |-> tr.scn, live |-> tr.live, ph |-> tr.ph, status |-> tr.status, at |-> tr.at]
                  /\ tr.ph \in IterationIDs /\ AtInv(tr.ph, tr.at)
RunsInv == testRuns = [t \in TestRunIDs |-> testRuns[t]] /\ \A t \in TestRunIDs : RunInv(testRuns[t])

PhantomInv(p) ==
    /\ p = [t |-> p.t, i |-> p.i, was |-> p.was, obj |-> p.obj, d |-> p.d]
    /\ p.i \in IterationIDs /\ Shape(p.d) /\ (p.was = "committed" => Says(p.i, p.obj, p.d))
PhantomsInv == \A p \in phantoms : PhantomInv(p)

DecidedInv == SeenInv /\ EvalsInv /\ DecisionsInv /\ RunsInv /\ PhantomsInv

\* Touched is what it says.
Touches == touched' = touched \cup TouchedNow

LEMMA CommittedStays ==
    ASSUME Touches, NEW i, i \notin touched', Committed(i)
    PROVE  /\ i \notin touched /\ Committed(i)' /\ iterations'[i] = iterations[i] /\ RuleRows(i)' = RuleRows(i)
           /\ RulesOf(i)' = RulesOf(i) /\ \A r \in RulesOf(i) : rules'[r] = rules[r]
<1>1. i \notin touched /\ i \notin TouchedNow
  BY DEF Touches
<1>2. iterations'[i] = iterations[i] /\ RuleRows(i)' = RuleRows(i)
  BY <1>1 DEF TouchedNow, Committed
<1>3. RulesOf(i)' = RulesOf(i) /\ \A r \in RulesOf(i) : rules'[r] = rules[r]
  <2>1. DOMAIN RuleRows(i)' = RulesOf(i)' /\ DOMAIN RuleRows(i) = RulesOf(i)
    BY DEF RuleRows
  <2>2. (\A r \in RulesOf(i) : RuleRows(i)[r] = rules[r]) /\ (\A r \in RulesOf(i)' : RuleRows(i)'[r] = rules'[r])
    BY DEF RuleRows
  <2> QED
    BY <1>2, <2>1, <2>2
<1> QED
  BY <1>1, <1>2, <1>3 DEF Committed

LEMMA AnswersStay ==
    ASSUME Touches
    PROVE  /\ \A i, it : RowAs(i, it) => RowAs(i, it)'
           /\ \A i, rs : RulesAs(i, rs) => RulesAs(i, rs)'
           /\ \A i, o, d : Says(i, o, d) => Says(i, o, d)'
<1>1. touched \subseteq touched'
  BY DEF Touches
<1>2. ASSUME NEW i, NEW it, RowAs(i, it) PROVE RowAs(i, it)'
  BY <1>1, <1>2, CommittedStays DEF RowAs
<1>3. ASSUME NEW i, NEW rs, RulesAs(i, rs) PROVE RulesAs(i, rs)'
  BY <1>1, <1>3, CommittedStays DEF RulesAs
<1>4. ASSUME NEW i, NEW o, NEW d, Says(i, o, d) PROVE Says(i, o, d)'
  <2> SUFFICES ASSUME i \notin touched' PROVE Committed(i)' /\ AsCommitted(i, o, d)'
    BY DEF Says
  <2>1. Committed(i) /\ AsCommitted(i, o, d)
    BY <1>1, <1>4 DEF Says
  <2>2. /\ Committed(i)' /\ iterations'[i] = iterations[i] /\ RulesOf(i)' = RulesOf(i)
        /\ \A r \in RulesOf(i) : rules'[r] = rules[r]
    BY <2>1, CommittedStays
  <2> QED
    BY <2>1, <2>2 DEF AsCommitted, Val
<1> QED
  BY <1>2, <1>3, <1>4

LEMMA MemoriesStay ==
    ASSUME Touches
    PROVE  /\ \A o, b : BranchInv(o, b) => BranchInv(o, b)'
           /\ \A ph, at : AtInv(ph, at) => AtInv(ph, at)'
           /\ \A tr : RunInv(tr) => RunInv(tr)'
           /\ \A p : PhantomInv(p) => PhantomInv(p)'
<1>1. touched \subseteq touched'
  BY DEF Touches
<1>2. ASSUME NEW o, NEW b, BranchInv(o, b) PROVE BranchInv(o, b)'
  BY <1>1, <1>2, AnswersStay DEF BranchInv, Val, Shape
<1>3. ASSUME NEW ph, NEW at, AtInv(ph, at) PROVE AtInv(ph, at)'
  BY <1>1, <1>3, AnswersStay DEF AtInv, Val, Shape
<1>4. ASSUME NEW tr, RunInv(tr) PROVE RunInv(tr)'
  BY <1>3, <1>4 DEF RunInv
<1>5. ASSUME NEW p, PhantomInv(p) PROVE PhantomInv(p)'
  BY <1>5, AnswersStay DEF PhantomInv, Shape
<1> QED
  BY <1>2, <1>3, <1>4, <1>5
LEMMA SeenKept ==
    ASSUME RowsInv', SeenInv, Touches, seen' = Loaded(seen, Current')
    PROVE  SeenInv'
<1> DEFINE used == {v.live : v \in UNION {seen'.scn[s] : s \in ScenarioIDs}}
<1>1. /\ seen'.scn = [s \in ScenarioIDs |-> seen.scn[s] \cup Current'.scn[s]]
      /\ \A s \in ScenarioIDs : Current'.scn[s] = IF scenarios'[s] # NoRow THEN {scenarios'[s]} ELSE {}
  BY DEF Loaded, SeenInv, Current, ScenarioExists
<1>2. /\ DOMAIN seen'.iter = IterationIDs
      /\ \A i \in IterationIDs : seen'.iter[i] = seen.iter[i] \cup (IF i \in used THEN Current'.iter[i] ELSE {})
  BY DEF Loaded, SeenInv
<1>3. /\ DOMAIN seen'.rule = IterationIDs
      /\ \A i \in IterationIDs : seen'.rule[i] = seen.rule[i] \cup (IF i \in used THEN Current'.rule[i] ELSE {})
  BY DEF Loaded, SeenInv
<1>4. \A i \in IterationIDs : /\ \A v \in Current'.iter[i] : v = iterations'[i]
                              /\ \A v \in Current'.rule[i] : v = RuleRows(i)'
  BY DEF Current
<1>5. ASSUME NEW s \in ScenarioIDs, NEW v \in seen'.scn[s], v.live # NoID
      PROVE  v.live \in IterationIDs /\ (v.live \in touched' \/ Committed(v.live)')
  <2>1. CASE v \in seen.scn[s]
    <3>1. v.live \in IterationIDs /\ (v.live \in touched \/ Committed(v.live))
      BY <1>5, <2>1 DEF SeenInv
    <3>2. touched \subseteq touched'
      BY DEF Touches
    <3> QED
      BY <3>1, <3>2, CommittedStays
  <2>2. CASE v \notin seen.scn[s]
    <3>1. v = scenarios'[s] /\ scenarios'[s] # NoRow
      BY <1>1, <2>2
    <3> QED
      BY <1>5, <3>1 DEF RowsInv, LiveIsCommitted, ScenarioExists, IterationOf, Committed
  <2> QED
    BY <2>1, <2>2
<1>6. ASSUME NEW i \in IterationIDs, i \in used, i \notin touched' PROVE Committed(i)'
  <2>1. PICK s, v : s \in ScenarioIDs /\ v \in seen'.scn[s] /\ v.live = i
    BY <1>6
  <2>2. v.live # NoID
    BY <2>1, AuthoringAssumption
  <2> QED
    BY <1>5, <1>6, <2>1, <2>2
<1> HIDE DEF used
<1>7. ASSUME NEW i \in IterationIDs, NEW v \in seen'.iter[i] PROVE RowAs(i, v)'
  <2>1. CASE v \in seen.iter[i]
    BY <2>1, AnswersStay DEF SeenInv
  <2>2. CASE v \notin seen.iter[i]
    <3>1. i \in used /\ v = iterations'[i]
      BY <1>2, <1>4, <2>2
    <3> QED
      BY <1>6, <3>1 DEF RowAs
  <2> QED
    BY <2>1, <2>2
<1>8. ASSUME NEW i \in IterationIDs, NEW v \in seen'.rule[i] PROVE RulesAs(i, v)'
  <2>1. CASE v \in seen.rule[i]
    BY <2>1, AnswersStay DEF SeenInv
  <2>2. CASE v \notin seen.rule[i]
    <3>1. i \in used /\ v = RuleRows(i)'
      BY <1>3, <1>4, <2>2
    <3> QED
      BY <1>6, <3>1 DEF RulesAs
  <2> QED
    BY <2>1, <2>2
<1>9. DOMAIN seen'.scn = ScenarioIDs
  BY <1>1
<1> QED
  BY <1>2, <1>3, <1>5, <1>7, <1>8, <1>9 DEF SeenInv

\* The answer to a formula, and what a branch makes of a row and its rules.
LEMMA AnswersTyped ==
    ASSUME NEW f \in Formulas, NEW o \in Objects
    PROVE  f \in DOMAIN Value /\ Val(o, f) \in {"yes", "no", "error"} /\ ValuesFor(o)[f] = Val(o, f)
BY ValueAssumption DEF Val, ValuesFor

LEMMA EvaluatedSays ==
    ASSUME TablesTyped, NEW i, NEW o \in Objects, NEW it, NEW rs, NEW sn, RowAs(i, it), RulesAs(i, rs),
           i \notin touched => Val(o, it.trigger) = "yes",
           ~RulesFail(evaluateRules(rs, sn, ValuesFor(o))),
           NEW d, d = Evaluated(it, rs, sn, ValuesFor(o))
    PROVE  Shape(d) /\ Says(i, o, d)
<1> DEFINE ev == evaluateRules(rs, sn, ValuesFor(o))
           ex == RuleExecutions(rs, ev)
<1>1. /\ d = [execs |-> ex, score |-> Score(ex), outcome |-> outcomeFromScore(Score(ex), it.thr)]
      /\ DOMAIN ex = DOMAIN rs
      /\ ex = [r \in DOMAIN ex |-> ex[r]]
      /\ \A r \in DOMAIN rs : ex[r] = newRuleExecution(rs[r], ev[r])
  BY DEF Evaluated, RuleExecutions
<1>2. \A r \in DOMAIN rs : /\ ev[r] # "error"
                           /\ ev[r] = IF rs[r].group # NoGroup /\ rs[r].group \in sn THEN "snoozed" ELSE ValuesFor(o)[rs[r].formula]
  BY DEF evaluateRules, RulesFail
<1>3. d.execs = ex /\ d.score = Score(ex) /\ d.outcome = outcomeFromScore(Score(ex), it.thr)
  BY <1>1
<1> HIDE DEF ev, ex
<1>4. Shape(d)
  BY <1>1, <1>3 DEF Shape
<1>5. ASSUME i \notin touched PROVE Committed(i) /\ AsCommitted(i, o, d)
  <2>1. /\ Committed(i) /\ it = iterations[i] /\ rs = RuleRows(i) /\ Val(o, it.trigger) = "yes"
    BY <1>5 DEF RowAs, RulesAs
  <2>2. DOMAIN rs = RulesOf(i) /\ \A r \in RulesOf(i) : rs[r] = rules[r]
    BY <2>1 DEF RuleRows
  <2>3. ASSUME NEW r \in RulesOf(i)
        PROVE  /\ ex[r].mod = rules[r].mod
               /\ \/ ex[r].outcome = "snoozed" /\ rules[r].group # NoGroup
                  \/ ex[r].outcome = "hit" /\ Val(o, rules[r].formula) = "yes"
                  \/ ex[r].outcome = "no_hit" /\ Val(o, rules[r].formula) = "no"
    <3>1. rules[r].formula \in Formulas
      BY DEF TablesTyped, RulesOf, RuleOf, RuleRow
    <3>2. Val(o, rules[r].formula) \in {"yes", "no", "error"} /\ ValuesFor(o)[rules[r].formula] = Val(o, rules[r].formula)
      BY <3>1, AnswersTyped
    <3>3. ex[r].mod = rules[r].mod /\ ex[r].outcome = IF ev[r] = "yes" THEN "hit" ELSE IF ev[r] = "snoozed" THEN "snoozed" ELSE "no_hit"
      BY <1>1, <2>2 DEF newRuleExecution
    <3>4. ev[r] # "error" /\ ev[r] = IF rules[r].group # NoGroup /\ rules[r].group \in sn THEN "snoozed" ELSE ValuesFor(o)[rules[r].formula]
      BY <1>2, <2>2
    <3> QED
      BY <3>2, <3>3, <3>4
  <2>4. AsCommitted(i, o, d)
    BY <1>1, <1>3, <2>1, <2>2, <2>3 DEF AsCommitted
  <2> QED
    BY <2>1, <2>4
<1> QED
  BY <1>4, <1>5 DEF Says
\* What a step leaves alone stays true.
LEMMA EvalsStay == ASSUME Touches, EvalsInv, evals' = evals PROVE EvalsInv'
<1>1. ASSUME NEW e \in Evals, evals[e] # NoRequest, NEW s \in ScenarioIDs
      PROVE  BranchInv(evals[e].obj, evals[e].b[s])'
  <2>1. PICK o, b : o = evals[e].obj /\ b = evals[e].b[s]
    OBVIOUS
  <2>2. BranchInv(o, b)'
    BY <1>1, <2>1, MemoriesStay DEF EvalsInv
  <2> QED
    BY <2>1, <2>2 DEF BranchInv
<1> QED
  BY <1>1 DEF EvalsInv
LEMMA DecisionStays ==
    ASSUME Touches, NEW s, NEW r, DecisionInv(s, r), IterationOf(s, r.i) => IterationOf(s, r.i)'
    PROVE  DecisionInv(s, r)'
BY AnswersStay DEF DecisionInv, Shape

LEMMA DecisionsStay ==
    ASSUME Touches, DecisionsInv, decisions' = decisions, \A s, i : IterationOf(s, i) => IterationOf(s, i)'
    PROVE  DecisionsInv'
<1>1. ASSUME NEW e \in Evals, NEW s \in ScenarioIDs PROVE DecisionInv(s, decisions[e][s])'
  <2>1. PICK r : r = decisions[e][s]
    OBVIOUS
  <2>2. DecisionInv(s, r)'
    BY <2>1, DecisionStays DEF DecisionsInv
  <2> QED
    BY <2>1, <2>2 DEF DecisionInv
<1> QED
  BY <1>1 DEF DecisionsInv

LEMMA RunsStay == ASSUME Touches, RunsInv, testRuns' = testRuns PROVE RunsInv'
<1>1. ASSUME NEW t \in TestRunIDs PROVE RunInv(testRuns[t])'
  <2>1. PICK tr : tr = testRuns[t]
    OBVIOUS
  <2>2. RunInv(tr)'
    BY <2>1, MemoriesStay DEF RunsInv
  <2> QED
    BY <2>1, <2>2 DEF RunInv
<1> QED
  BY <1>1 DEF RunsInv

LEMMA PhantomsStay == ASSUME Touches, PhantomsInv, phantoms' = phantoms PROVE PhantomsInv'
BY MemoriesStay DEF PhantomsInv

\* The steps of an evaluation.
LEMMA MoveKeeps ==
    ASSUME Touches, EvalsInv, NEW e \in Evals, NEW s \in ScenarioIDs, evals[e] # NoRequest, NEW b,
           BranchInv(evals[e].obj, b), evals' = [evals EXCEPT ![e].b[s] = b]
    PROVE  EvalsInv'
<1>1. PICK o, f, g : o = evals[e].obj /\ f = evals[e].b /\ g = [f EXCEPT ![s] = b]
  OBVIOUS
<1>2. evals[e] = [obj |-> o, b |-> f] /\ f = [t \in ScenarioIDs |-> f[t]] /\ o \in Objects
  BY <1>1 DEF EvalsInv
<1>3. g = [t \in ScenarioIDs |-> g[t]] /\ \A t \in ScenarioIDs : g[t] = IF t = s THEN b ELSE f[t]
  BY <1>1, <1>2
<1>4. evals' = [evals EXCEPT ![e] = [obj |-> o, b |-> g]]
  <2>1. PICK x, y : y = evals[e] /\ x = [y EXCEPT !.b[s] = b]
    OBVIOUS
  <2>2. evals' = [evals EXCEPT ![e] = x]
    BY <2>1
  <2>3. y = [obj |-> o, b |-> f] /\ g = [f EXCEPT ![s] = b]
    BY <1>1, <1>2, <2>1
  <2>4. x = [y EXCEPT !.b = g]
    BY ONLY <2>1, <2>3
  <2>5. x = [obj |-> o, b |-> g]
    BY ONLY <2>3, <2>4
  <2> QED
    BY ONLY <2>2, <2>5
<1>5. evals' = [d \in Evals |-> IF d = e THEN [obj |-> o, b |-> g] ELSE evals[d]]
  BY <1>4 DEF EvalsInv
<1>6. \A t \in ScenarioIDs : BranchInv(o, g[t])
  BY <1>1, <1>3 DEF EvalsInv
<1>7. \A t \in ScenarioIDs : BranchInv(o, g[t])'
  BY <1>6, MemoriesStay
<1>8. ASSUME NEW d \in Evals, evals'[d] # NoRequest
      PROVE  /\ evals'[d] = [obj |-> evals'[d].obj, b |-> evals'[d].b] /\ evals'[d].obj \in Objects
             /\ evals'[d].b = [t \in ScenarioIDs |-> evals'[d].b[t]]
             /\ \A t \in ScenarioIDs : BranchInv(evals[d].obj, evals[d].b[t])'
  <2>1. CASE d = e
    <3>1. evals'[d].obj = o /\ evals'[d].b = g /\ evals'[d] = [obj |-> o, b |-> g]
      BY <1>5, <2>1
    <3> QED
      BY <1>2, <1>3, <1>7, <3>1 DEF BranchInv
  <2>2. CASE d # e
    <3>1. PICK p, h : p = evals[d].obj /\ h = evals[d].b
      OBVIOUS
    <3>2. evals'[d] = evals[d] /\ evals[d] # NoRequest
      BY <1>5, <1>8, <2>2
    <3>3. evals[d] = [obj |-> p, b |-> h] /\ p \in Objects /\ h = [t \in ScenarioIDs |-> h[t]]
      BY <3>1, <3>2 DEF EvalsInv
    <3>4. \A t \in ScenarioIDs : BranchInv(p, h[t])'
      BY <3>1, <3>2, MemoriesStay DEF EvalsInv
    <3>5. evals'[d].obj = p /\ evals'[d].b = h
      BY <3>1, <3>2
    <3> QED
      BY <3>2, <3>3, <3>4, <3>5 DEF BranchInv
  <2> QED
    BY <2>1, <2>2
<1>9. evals' = [d \in Evals |-> evals'[d]]
  BY <1>5
<1> QED
  BY <1>8, <1>9 DEF EvalsInv
LEMMA StartKeeps ==
    ASSUME Touches, EvalsInv, NEW e \in Evals, NEW o \in Objects, NEW S, StartEvaluation(e, o, S)
    PROVE  EvalsInv'
<1>1. PICK g : g = [s \in ScenarioIDs |-> IF s \in S THEN [st |-> "scenario"] ELSE NoBranch]
  OBVIOUS
<1>2. g = [s \in ScenarioIDs |-> g[s]] /\ \A s \in ScenarioIDs : g[s].st \in {"scenario", "none"}
  BY <1>1 DEF NoBranch
<1>3. evals' = [d \in Evals |-> IF d = e THEN [obj |-> o, b |-> g] ELSE evals[d]]
  BY <1>1 DEF StartEvaluation, EvalsInv
<1>4. \A s \in ScenarioIDs : BranchInv(o, g[s])'
  BY <1>2 DEF BranchInv
<1>5. ASSUME NEW d \in Evals, evals'[d] # NoRequest
      PROVE  /\ evals'[d] = [obj |-> evals'[d].obj, b |-> evals'[d].b] /\ evals'[d].obj \in Objects
             /\ evals'[d].b = [t \in ScenarioIDs |-> evals'[d].b[t]]
             /\ \A t \in ScenarioIDs : BranchInv(evals[d].obj, evals[d].b[t])'
  <2>1. CASE d = e
    <3>1. evals'[d].obj = o /\ evals'[d].b = g /\ evals'[d] = [obj |-> o, b |-> g]
      BY <1>3, <2>1
    <3> QED
      BY <1>2, <1>4, <3>1 DEF BranchInv
  <2>2. CASE d # e
    <3>1. PICK p, h : p = evals[d].obj /\ h = evals[d].b
      OBVIOUS
    <3>2. evals'[d] = evals[d] /\ evals[d] # NoRequest
      BY <1>3, <1>5, <2>2
    <3>3. evals[d] = [obj |-> p, b |-> h] /\ p \in Objects /\ h = [t \in ScenarioIDs |-> h[t]]
      BY <3>1, <3>2 DEF EvalsInv
    <3>4. \A t \in ScenarioIDs : BranchInv(p, h[t])'
      BY <3>1, <3>2, MemoriesStay DEF EvalsInv
    <3>5. evals'[d].obj = p /\ evals'[d].b = h
      BY <3>1, <3>2
    <3> QED
      BY <3>2, <3>3, <3>4, <3>5 DEF BranchInv
  <2> QED
    BY <2>1, <2>2
<1>6. evals' = [d \in Evals |-> evals'[d]]
  BY <1>3
<1> QED
  BY <1>5, <1>6 DEF EvalsInv

\* A branch that ended knows nothing.
LEMMA EndedKnowsNothing == \A o, st : st \in {"failed", "quiet", "stored"} => BranchInv(o, [st |-> st])
BY DEF BranchInv

LEMMA ReadScenarioKeeps ==
    ASSUME Touches, SeenInv, EvalsInv, NEW e \in Evals, NEW s \in ScenarioIDs, ReadScenario(e, s)
    PROVE  EvalsInv'
<1>1. PICK o, scn, b : /\ o = evals[e].obj /\ scn \in seen.scn[s]
                       /\ b = IF scn.live = NoID THEN [st |-> "failed"] ELSE [st |-> "iteration", scn |-> scn]
                       /\ evals' = [evals EXCEPT ![e].b[s] = b] /\ evals[e] # NoRequest
  BY DEF ReadScenario, At, Move, getScenario
<1>2. BranchInv(o, b)
  <2>1. CASE scn.live = NoID
    BY <1>1, <2>1, EndedKnowsNothing
  <2>2. CASE scn.live # NoID
    <3>1. b.st = "iteration" /\ b.scn = scn
      BY <1>1, <2>2
    <3>2. scn.live \in IterationIDs
      BY <1>1, <2>2 DEF SeenInv
    <3> QED
      BY <3>1, <3>2 DEF BranchInv
  <2> QED
    BY <2>1, <2>2
<1> QED
  BY <1>1, <1>2, MoveKeeps

LEMMA ReadIterationKeeps ==
    ASSUME TablesTyped, Touches, SeenInv, EvalsInv, NEW e \in Evals, NEW s \in ScenarioIDs, ReadIteration(e, s)
    PROVE  EvalsInv'
<1>0. PICK o, c, scn : o = evals[e].obj /\ c = evals[e].b[s] /\ scn = c.scn
  OBVIOUS
<1>1. PICK it, b : /\ it \in seen.iter[scn.live]
                   /\ b = IF ObjectType[o] # scn.type \/ Val(o, it.trigger) = "error" THEN [st |-> "failed"]
                          ELSE IF Val(o, it.trigger) = "no" THEN [st |-> "quiet"]
                          ELSE [st |-> "rules", i |-> scn.live, it |-> it]
                   /\ evals' = [evals EXCEPT ![e].b[s] = b] /\ evals[e] # NoRequest /\ c.st = "iteration"
  <2>1. PICK it \in getIteration(s, scn.live) :
          Move(e, s, IF ObjectType[o] # scn.type \/ Val(o, it.trigger) = "error" THEN [st |-> "failed"]
                     ELSE IF Val(o, it.trigger) = "no" THEN [st |-> "quiet"]
                     ELSE [st |-> "rules", i |-> scn.live, it |-> it])
    BY <1>0 DEF ReadIteration
  <2>2. PICK b : b = IF ObjectType[o] # scn.type \/ Val(o, it.trigger) = "error" THEN [st |-> "failed"]
                     ELSE IF Val(o, it.trigger) = "no" THEN [st |-> "quiet"]
                     ELSE [st |-> "rules", i |-> scn.live, it |-> it]
    OBVIOUS
  <2>3. evals' = [evals EXCEPT ![e].b[s] = b]
    BY <2>1, <2>2 DEF Move
  <2>4. evals[e] # NoRequest /\ c.st = "iteration" /\ it \in seen.iter[scn.live]
    BY <1>0, <2>1 DEF ReadIteration, At, getIteration
  <2> QED
    BY <2>2, <2>3, <2>4
<1>2. BranchInv(o, c) /\ o \in Objects
  BY <1>0, <1>1 DEF EvalsInv
<1>3. scn.live \in IterationIDs
  BY <1>0, <1>1, <1>2 DEF BranchInv
<1>4. RowAs(scn.live, it)
  BY <1>1, <1>3 DEF SeenInv
<1>5. BranchInv(o, b)
  <2>1. CASE ObjectType[o] # scn.type \/ Val(o, it.trigger) = "error"
    BY <1>1, <2>1, EndedKnowsNothing
  <2>2. CASE ~(ObjectType[o] # scn.type \/ Val(o, it.trigger) = "error") /\ Val(o, it.trigger) = "no"
    BY <1>1, <2>2, EndedKnowsNothing
  <2>3. CASE Val(o, it.trigger) # "error" /\ Val(o, it.trigger) # "no" /\ ObjectType[o] = scn.type
    <3>1. b.st = "rules" /\ b.i = scn.live /\ b.it = it
      BY <1>1, <2>3
    <3>2. ASSUME scn.live \notin touched PROVE Val(o, it.trigger) = "yes"
      <4>1. it.trigger \in Formulas
        BY <1>3, <1>4, <3>2 DEF RowAs, Committed, TablesTyped, IterationRow
      <4> QED
        BY <1>2, <2>3, <4>1, AnswersTyped
    <3> QED
      BY <1>3, <1>4, <3>1, <3>2 DEF BranchInv
  <2> QED
    BY <2>1, <2>2, <2>3
<1> QED
  BY <1>0, <1>1, <1>5, MoveKeeps

LEMMA ReadRulesKeeps ==
    ASSUME Touches, SeenInv, EvalsInv, NEW e \in Evals, NEW s \in ScenarioIDs, ReadRules(e, s)
    PROVE  EvalsInv'
<1>1. PICK o, c, rs, b : /\ o = evals[e].obj /\ c = evals[e].b[s] /\ c.st = "rules" /\ rs \in seen.rule[c.i]
                         /\ b = [st |-> "evaluate", i |-> c.i, it |-> c.it, rs |-> rs]
                         /\ evals' = [evals EXCEPT ![e].b[s] = b] /\ evals[e] # NoRequest
  BY DEF ReadRules, At, Move, getRules
<1>2. BranchInv(o, c)
  BY <1>1 DEF EvalsInv
<1>3. c.i \in IterationIDs /\ RowAs(c.i, c.it) /\ (c.i \notin touched => Val(o, c.it.trigger) = "yes")
  BY <1>1, <1>2 DEF BranchInv
<1>4. RulesAs(c.i, rs)
  BY <1>1, <1>3 DEF SeenInv
<1>5. b.st = "evaluate" /\ b.i = c.i /\ b.it = c.it /\ b.rs = rs
  BY <1>1
<1>6. BranchInv(o, b)
  BY <1>3, <1>4, <1>5 DEF BranchInv
<1> QED
  BY <1>1, <1>6, MoveKeeps

LEMMA EvaluateRulesKeeps ==
    ASSUME TablesTyped, Touches, EvalsInv, NEW e \in Evals, NEW s \in ScenarioIDs, EvaluateRules(e, s)
    PROVE  EvalsInv'
<1>1. PICK o, c, sn, b : /\ o = evals[e].obj /\ c = evals[e].b[s] /\ c.st = "evaluate"
                         /\ b = IF RulesFail(evaluateRules(c.rs, sn, ValuesFor(o))) THEN [st |-> "failed"]
                                ELSE [st |-> "build", i |-> c.i, d |-> Evaluated(c.it, c.rs, sn, ValuesFor(o))]
                         /\ evals' = [evals EXCEPT ![e].b[s] = b] /\ evals[e] # NoRequest
  BY DEF EvaluateRules, At, Move
<1>2. BranchInv(o, c) /\ o \in Objects
  BY <1>1 DEF EvalsInv
<1>3. PICK i, it, rs : i = c.i /\ it = c.it /\ rs = c.rs
  OBVIOUS
<1>4. i \in IterationIDs /\ RowAs(i, it) /\ RulesAs(i, rs) /\ (i \notin touched => Val(o, it.trigger) = "yes")
  BY <1>1, <1>2, <1>3 DEF BranchInv
<1>5. BranchInv(o, b)
  <2>1. CASE RulesFail(evaluateRules(rs, sn, ValuesFor(o)))
    BY <1>1, <1>3, <2>1, EndedKnowsNothing
  <2>2. CASE ~RulesFail(evaluateRules(rs, sn, ValuesFor(o)))
    <3>1. PICK d : d = Evaluated(it, rs, sn, ValuesFor(o))
      OBVIOUS
    <3>2. Shape(d) /\ Says(i, o, d)
      BY ONLY TablesTyped, <1>2, <1>4, <2>2, <3>1, EvaluatedSays
    <3>3. b.st = "build" /\ b.i = i /\ b.d = d
      BY <1>1, <1>3, <2>2, <3>1
    <3> QED
      BY <1>4, <3>2, <3>3 DEF BranchInv
  <2> QED
    BY <2>1, <2>2
<1> QED
  BY <1>1, <1>5, MoveKeeps

LEMMA BuildOutputsKeeps ==
    ASSUME Touches, EvalsInv, NEW e \in Evals, NEW s \in ScenarioIDs, BuildOutputs(e, s)
    PROVE  EvalsInv'
<1>1. PICK w \in Structured, l \in Legacy, cs \in getActiveConfigs(s) :
        LET c  == evals[e].b[s]
            wf == buildWorkflowExecutions(w, l, c.d.outcome, c.d.execs, ValuesFor(evals[e].obj))
        IN Move(e, s, IF wf.failed THEN [st |-> "failed"]
                      ELSE [st |-> "store", i |-> c.i, d |-> c.d, wf |-> wf.actions,
                            reqs |-> buildRequests(cs, c.d.outcome)])
  BY DEF BuildOutputs
<1>2. PICK o, c, wf, reqs : /\ o = evals[e].obj /\ c = evals[e].b[s]
                            /\ wf = buildWorkflowExecutions(w, l, c.d.outcome, c.d.execs, ValuesFor(o))
                            /\ reqs = buildRequests(cs, c.d.outcome)
  OBVIOUS
<1>3. PICK b : b = IF wf.failed THEN [st |-> "failed"] ELSE [st |-> "store", i |-> c.i, d |-> c.d, wf |-> wf.actions, reqs |-> reqs]
  OBVIOUS
<1>4. evals' = [evals EXCEPT ![e].b[s] = b] /\ evals[e] # NoRequest /\ c.st = "build"
  BY <1>1, <1>2, <1>3 DEF Move, BuildOutputs, At
<1>5. BranchInv(o, c)
  BY <1>2, <1>4 DEF EvalsInv
<1>6. BranchInv(o, b)
  <2>1. CASE wf.failed
    BY <1>3, <2>1, EndedKnowsNothing
  <2>2. CASE ~wf.failed
    <3>1. b.st = "store" /\ b.i = c.i /\ b.d = c.d
      BY <1>3, <2>2
    <3>2. c.i \in IterationIDs /\ Shape(c.d) /\ Says(c.i, o, c.d)
      BY <1>4, <1>5 DEF BranchInv
    <3> QED
      BY <3>1, <3>2 DEF BranchInv
  <2> QED
    BY <2>1, <2>2
<1> QED
  BY <1>2, <1>4, <1>6, MoveKeeps

LEMMA BranchFailsKeeps ==
    ASSUME Touches, EvalsInv, NEW e \in Evals, NEW s \in ScenarioIDs, BranchFails(e, s)
    PROVE  EvalsInv'
<1>1. PICK o, b : o = evals[e].obj /\ b = [st |-> "failed"]
  OBVIOUS
<1>2. evals' = [evals EXCEPT ![e].b[s] = b] /\ evals[e] # NoRequest /\ BranchInv(o, b)
  BY <1>1, EndedKnowsNothing DEF BranchFails, Move
<1> QED
  BY <1>1, <1>2, MoveKeeps

\* The decision is what the branch knows.
LEMMA StoreDecisionKeeps ==
    ASSUME Touches, EvalsInv, DecisionsInv, NEW e \in Evals, NEW s \in ScenarioIDs, StoreDecision(e, s),
           \A t, i : IterationOf(t, i) => IterationOf(t, i)'
    PROVE  EvalsInv' /\ DecisionsInv'
<1>1. PICK o, c : o = evals[e].obj /\ c = evals[e].b[s]
  OBVIOUS
<1>2. evals[e] # NoRequest /\ c.st = "store"
  BY <1>1 DEF StoreDecision, At
<1>3. BranchInv(o, c)
  BY <1>1, <1>2 DEF EvalsInv
<1>4. c.i \in IterationIDs /\ Shape(c.d) /\ Says(c.i, o, c.d)
  BY <1>2, <1>3 DEF BranchInv
<1>5. EvalsInv'
  <2>1. PICK b : b \in {[st |-> "stored"], [st |-> "failed"]} /\ evals' = [evals EXCEPT ![e].b[s] = b]
    BY DEF StoreDecision, Move
  <2>2. BranchInv(o, b)
    BY <2>1, EndedKnowsNothing
  <2> QED
    BY <1>1, <1>2, <2>1, <2>2, MoveKeeps
<1>6. DecisionsInv'
  <2>1. CASE ~ReferencesHold(s, c)
    BY <1>1, <2>1, DecisionsStay DEF StoreDecision
  <2>2. CASE ReferencesHold(s, c)
    <3>1. PICK ev, row :
            /\ row = [i |-> c.i, obj |-> o, d |-> c.d, wf |-> c.wf, reqs |-> c.reqs, events |-> ev]
            /\ decisions' = [decisions EXCEPT ![e][s] = row]
      BY <1>1, <2>2 DEF StoreDecision
    <3>2. row.i = c.i /\ row.obj = o /\ row.d = c.d /\ row.wf = c.wf /\ row.reqs = c.reqs /\ row.events = ev
      BY <3>1
    <3>3. DecisionInv(s, row)
      BY <1>4, <2>2, <3>1, <3>2 DEF DecisionInv, ReferencesHold
    <3>4. decisions' = [d \in Evals |-> [t \in ScenarioIDs |-> IF d = e /\ t = s THEN row ELSE decisions[d][t]]]
      BY <3>1 DEF DecisionsInv
    <3>5. ASSUME NEW d \in Evals, NEW t \in ScenarioIDs PROVE DecisionInv(t, decisions[d][t])'
      <4>1. PICK r : r = IF d = e /\ t = s THEN row ELSE decisions[d][t]
        OBVIOUS
      <4>2. DecisionInv(t, r)
        BY <3>3, <4>1 DEF DecisionsInv
      <4>3. DecisionInv(t, r)'
        BY <4>2, DecisionStays
      <4>4. decisions'[d][t] = r
        BY <3>4, <4>1
      <4> QED
        BY <4>3, <4>4 DEF DecisionInv
    <3> QED
      BY <3>4, <3>5 DEF DecisionsInv
  <2> QED
    BY <2>1, <2>2
<1> QED
  BY <1>5, <1>6
\* Test runs.
LEMMA RunSet ==
    ASSUME Touches, RunsInv, NEW t \in TestRunIDs, NEW row, testRuns' = [testRuns EXCEPT ![t] = row], RunInv(row)
    PROVE  RunsInv'
<1>1. testRuns' = [u \in TestRunIDs |-> IF u = t THEN row ELSE testRuns[u]]
  BY DEF RunsInv
<1>2. ASSUME NEW u \in TestRunIDs PROVE RunInv(testRuns[u])'
  <2>1. PICK tr : tr = IF u = t THEN row ELSE testRuns[u]
    OBVIOUS
  <2>2. RunInv(tr)
    BY <2>1 DEF RunsInv
  <2>3. RunInv(tr)'
    BY <2>2, MemoriesStay
  <2>4. testRuns'[u] = tr
    BY <1>1, <2>1
  <2> QED
    BY <2>3, <2>4 DEF RunInv
<1> QED
  BY <1>1, <1>2 DEF RunsInv

LEMMA RunAt ==
    ASSUME NEW tr, RunInv(tr), tr # NoRow, NEW at, AtInv(tr.ph, at), NEW row, row = [tr EXCEPT !.at = at]
    PROVE  RunInv(row)
<1>1. tr = [scn |-> tr.scn, live |-> tr.live, ph |-> tr.ph, status |-> tr.status, at |-> tr.at] /\ tr.ph \in IterationIDs
  BY DEF RunInv
<1>2. PICK a, b, c, d : a = tr.scn /\ b = tr.live /\ c = tr.ph /\ d = tr.status
  OBVIOUS
<1>3. row = [scn |-> a, live |-> b, ph |-> c, status |-> d, at |-> at]
  <2>1. PICK x : x = tr.at
    OBVIOUS
  <2>2. tr = [scn |-> a, live |-> b, ph |-> c, status |-> d, at |-> x]
    BY <1>1, <1>2, <2>1
  <2> QED
    BY ONLY <2>2, row = [tr EXCEPT !.at = at]
<1>4. row.scn = a /\ row.live = b /\ row.ph = c /\ row.status = d /\ row.at = at
  BY <1>3
<1> QED
  BY <1>1, <1>2, <1>3, <1>4 DEF RunInv

LEMMA EvaluatedShaped == \A it, rs, sn, val : Shape(Evaluated(it, rs, sn, val))
<1> TAKE it, rs, sn, val
<1>1. PICK ex : ex = RuleExecutions(rs, evaluateRules(rs, sn, val))
  OBVIOUS
<1>2. ex = [r \in DOMAIN ex |-> ex[r]]
  BY <1>1 DEF RuleExecutions
<1>3. PICK d : d = Evaluated(it, rs, sn, val)
  OBVIOUS
<1>4. d = [execs |-> ex, score |-> Score(ex), outcome |-> outcomeFromScore(Score(ex), it.thr)]
  BY <1>1, <1>3 DEF Evaluated
<1>5. d.execs = ex /\ d.score = Score(ex) /\ d.outcome = outcomeFromScore(Score(ex), it.thr)
  BY <1>4
<1> QED
  BY <1>2, <1>3, <1>4, <1>5 DEF Shape

LEMMA TestRunStepKeeps ==
    ASSUME TablesTyped, Touches, RunsInv, PhantomsInv, NEW t \in TestRunIDs, TestRunStep(t)
    PROVE  RunsInv' /\ PhantomsInv'
<1>1. ASSUME NEW s \in ScenarioIDs, NEW i \in IterationIDs, CreateTestRun(t, s, i) PROVE RunsInv' /\ PhantomsInv'
  <2>1. PICK live, row : /\ row = [scn |-> s, live |-> live, ph |-> i, status |-> "up", at |-> NoRequest]
                         /\ testRuns' = [testRuns EXCEPT ![t] = row] /\ phantoms' = phantoms
    BY <1>1 DEF CreateTestRun
  <2>2. row.scn = s /\ row.live = live /\ row.ph = i /\ row.status = "up" /\ row.at = NoRequest
    BY <2>1
  <2>3. RunInv(row)
    BY <2>1, <2>2 DEF RunInv, AtInv
  <2> QED
    BY <2>1, <2>3, RunSet, PhantomsStay
<1>2. CASE CancelTestRun(t)
  <2>1. PICK tr, row : tr = testRuns[t] /\ row = [tr EXCEPT !.status = "down"]
    OBVIOUS
  <2>2. tr # NoRow /\ testRuns' = [testRuns EXCEPT ![t] = row] /\ phantoms' = phantoms
    BY <1>2, <2>1 DEF CancelTestRun, SetTestRun
  <2>3. RunInv(tr)
    BY <2>1 DEF RunsInv
  <2>4. PICK a, b, c, d, x : a = tr.scn /\ b = tr.live /\ c = tr.ph /\ d = tr.status /\ x = tr.at
    OBVIOUS
  <2>5. tr = [scn |-> a, live |-> b, ph |-> c, status |-> d, at |-> x] /\ c \in IterationIDs /\ AtInv(c, x)
    BY <2>2, <2>3, <2>4 DEF RunInv
  <2>6. row = [scn |-> a, live |-> b, ph |-> c, status |-> "down", at |-> x]
    BY ONLY <2>1, <2>5
  <2>7. row.scn = a /\ row.live = b /\ row.ph = c /\ row.status = "down" /\ row.at = x
    BY <2>6
  <2>8. RunInv(row)
    BY <2>5, <2>6, <2>7 DEF RunInv
  <2> QED
    BY <2>2, <2>8, RunSet, PhantomsStay
<1>3. ASSUME NEW o \in Objects, EvaluateTestRun(t, o) PROVE RunsInv' /\ PhantomsInv'
  <2>1. PICK tr, it, at, row : /\ tr = testRuns[t] /\ it = iterations[tr.ph] /\ at = [st |-> "rules", obj |-> o, it |-> it]
                               /\ row = [tr EXCEPT !.at = at]
    OBVIOUS
  <2>2. tr # NoRow /\ testRuns' = [testRuns EXCEPT ![t] = row] /\ phantoms' = phantoms
    BY <1>3, <2>1 DEF EvaluateTestRun, SetTestRun
  <2>3. IterationOf(tr.scn, tr.ph) /\ Val(o, it.trigger) = "yes" /\ RunInv(tr)
    BY <1>3, <2>1 DEF EvaluateTestRun, RunsInv
  <2>4. at.st = "rules" /\ at.obj = o /\ at.it = it
    BY <2>1
  <2>5. it.status = "committed" => RowAs(tr.ph, it)
    BY <2>1, <2>2, <2>3 DEF RowAs, Committed, IterationOf, RunInv
  <2>6. AtInv(tr.ph, at)
    BY <2>3, <2>4, <2>5 DEF AtInv
  <2> QED
    BY <2>1, <2>2, <2>3, <2>6, RunAt, RunSet, PhantomsStay
<1>4. CASE EvaluatePhantomRules(t)
  <2>1. PICK tr, ph, old, o, it : tr = testRuns[t] /\ ph = tr.ph /\ old = tr.at /\ o = old.obj /\ it = old.it
    OBVIOUS
  <2>2. PICK d, at, row :
          /\ d = Evaluated(it, RuleRows(ph), {}, ValuesFor(o))
          /\ at = IF RulesFail(evaluateRules(RuleRows(ph), {}, ValuesFor(o))) THEN NoRequest
                  ELSE [st |-> "store", obj |-> o, was |-> it.status, d |-> d]
          /\ row = [tr EXCEPT !.at = at]
    OBVIOUS
  <2>3. /\ tr # NoRow /\ old # NoRequest /\ old.st = "rules"
        /\ testRuns' = [testRuns EXCEPT ![t] = row] /\ phantoms' = phantoms
    BY <1>4, <2>1, <2>2 DEF EvaluatePhantomRules, SetTestRun
  <2>4. RunInv(tr)
    BY <2>1 DEF RunsInv
  <2>5. o \in Objects /\ (it.status = "committed" => RowAs(ph, it) /\ (ph \notin touched => Val(o, it.trigger) = "yes"))
    BY <2>1, <2>3, <2>4 DEF RunInv, AtInv
  <2>6. AtInv(ph, at)
    <3>1. CASE RulesFail(evaluateRules(RuleRows(ph), {}, ValuesFor(o)))
      BY <2>2, <3>1 DEF AtInv
    <3>2. CASE ~RulesFail(evaluateRules(RuleRows(ph), {}, ValuesFor(o)))
      <4>1. at.st = "store" /\ at.obj = o /\ at.was = it.status /\ at.d = d
        BY <2>2, <3>2
      <4>2. Shape(d)
        BY <2>2, EvaluatedShaped
      <4>3. ASSUME it.status = "committed" PROVE Says(ph, o, d)
        <5>1. PICK rs : rs = RuleRows(ph)
          OBVIOUS
        <5>2. RulesAs(ph, rs)
          BY <2>5, <4>3, <5>1 DEF RulesAs, RowAs
        <5>3. ~RulesFail(evaluateRules(rs, {}, ValuesFor(o))) /\ d = Evaluated(it, rs, {}, ValuesFor(o))
          BY <2>2, <3>2, <5>1
        <5> QED
          BY <2>5, <4>3, <5>2, <5>3, EvaluatedSays
      <4> QED
        BY <4>1, <4>2, <4>3 DEF AtInv
    <3> QED
      BY <3>1, <3>2
  <2> QED
    BY <2>1, <2>2, <2>3, <2>4, <2>6, RunAt, RunSet, PhantomsStay
<1>5. CASE StorePhantom(t)
  <2>1. PICK tr, row, at : tr = testRuns[t] /\ row = [tr EXCEPT !.at = NoRequest] /\ at = tr.at
    OBVIOUS
  <2>2. /\ tr # NoRow /\ at # NoRequest /\ at.st = "store" /\ testRuns' = [testRuns EXCEPT ![t] = row]
    BY <1>5, <2>1 DEF StorePhantom, SetTestRun
  <2>3. RunInv(tr)
    BY <2>1 DEF RunsInv
  <2>4. RunsInv'
    <3>1. AtInv(tr.ph, NoRequest)
      BY DEF AtInv
    <3>2. RunInv(row)
      BY <2>1, <2>2, <2>3, <3>1, RunAt
    <3> QED
      BY <2>2, <3>2, RunSet
  <2>5. PhantomsInv'
    <3>1. PICK p : p = [t |-> t, i |-> tr.ph, was |-> at.was, obj |-> at.obj, d |-> at.d]
      OBVIOUS
    <3>2. phantoms' \subseteq phantoms \cup {p}
      BY <1>5, <2>1, <3>1 DEF StorePhantom
    <3>3. p.t = t /\ p.i = tr.ph /\ p.was = at.was /\ p.obj = at.obj /\ p.d = at.d
      BY <3>1
    <3>4. tr.ph \in IterationIDs /\ Shape(at.d) /\ (at.was = "committed" => Says(tr.ph, at.obj, at.d))
      BY <2>1, <2>2, <2>3 DEF RunInv, AtInv
    <3>5. PhantomInv(p)
      BY <3>1, <3>3, <3>4 DEF PhantomInv
    <3> QED
      BY <3>2, <3>5, MemoriesStay DEF PhantomsInv
  <2> QED
    BY <2>4, <2>5
<1> QED
  BY <1>1, <1>2, <1>3, <1>4, <1>5 DEF TestRunStep
\* Decisions that lose a request, or the executions of a deleted rule.
LEMMA DecisionsBecome ==
    ASSUME Touches, decisions' = [e \in Evals |-> [s \in ScenarioIDs |-> decisions'[e][s]]],
           \A e \in Evals, s \in ScenarioIDs : \E r : decisions'[e][s] = r /\ DecisionInv(s, r)'
    PROVE  DecisionsInv'
<1>1. ASSUME NEW e \in Evals, NEW s \in ScenarioIDs PROVE DecisionInv(s, decisions[e][s])'
  <2>1. PICK r : decisions'[e][s] = r /\ DecisionInv(s, r)'
    OBVIOUS
  <2> QED
    BY <2>1 DEF DecisionInv
<1> QED
  BY <1>1 DEF DecisionsInv

LEMMA DeleteConfigKeeps ==
    ASSUME Touches, DecisionsInv, NEW k, DeleteConfig(k), \A s, i : IterationOf(s, i) => IterationOf(s, i)'
    PROVE  DecisionsInv'
<1>1. decisions' = [e \in Evals |-> [s \in ScenarioIDs |->
       IF decisions[e][s] = NoRow THEN NoRow
       ELSE [decisions[e][s] EXCEPT !.reqs = @ \ {k}]]]
  BY DEF DeleteConfig
<1>2. ASSUME NEW e \in Evals, NEW s \in ScenarioIDs PROVE \E r : decisions'[e][s] = r /\ DecisionInv(s, r)'
  <2>1. PICK old, r : old = decisions[e][s] /\ r = IF old = NoRow THEN NoRow ELSE [old EXCEPT !.reqs = @ \ {k}]
    OBVIOUS
  <2>2. decisions'[e][s] = r
    BY <1>1, <2>1
  <2>3. DecisionInv(s, r)
    <3>1. CASE old = NoRow
      BY <2>1, <3>1 DEF DecisionInv
    <3>2. CASE old # NoRow
      <4>1. DecisionInv(s, old)
        BY <2>1 DEF DecisionsInv
      <4>2. PICK i, o, d, wf, reqs, ev :
              i = old.i /\ o = old.obj /\ d = old.d /\ wf = old.wf /\ reqs = old.reqs /\ ev = old.events
        OBVIOUS
      <4>3. old = [i |-> i, obj |-> o, d |-> d, wf |-> wf, reqs |-> reqs, events |-> ev]
        BY <3>2, <4>1, <4>2 DEF DecisionInv
      <4>4. IterationOf(s, i) /\ Shape(d) /\ Says(i, o, d)
        BY <3>2, <4>1, <4>2 DEF DecisionInv
      <4>5. r = [i |-> i, obj |-> o, d |-> d, wf |-> wf, reqs |-> reqs \ {k}, events |-> ev]
        <5>1. r = [old EXCEPT !.reqs = @ \ {k}]
          BY <2>1, <3>2
        <5> QED
          BY ONLY <4>3, <5>1
      <4>6. r.i = i /\ r.obj = o /\ r.d = d /\ r.wf = wf /\ r.reqs = reqs \ {k} /\ r.events = ev
        BY <4>5
      <4> QED
        BY <4>4, <4>5, <4>6 DEF DecisionInv
    <3> QED
      BY <3>1, <3>2
  <2>4. DecisionInv(s, r)'
    BY <2>3, DecisionStays
  <2> QED
    BY <2>2, <2>4
<1>3. decisions' = [e \in Evals |-> [s \in ScenarioIDs |-> decisions'[e][s]]]
  BY <1>1
<1> QED
  BY <1>2, <1>3, DecisionsBecome

Lost == {r \in RuleIDs : rules[r] # NoRow /\ rules'[r] = NoRow}

LEMMA Trimmed ==
    ASSUME Touches, NEW i, NEW o, NEW d, Shape(d), NEW x, x = [r \in DOMAIN d.execs \ Lost |-> d.execs[r]],
           NEW e, e = [d EXCEPT !.execs = x]
    PROVE  Shape(e)' /\ (Says(i, o, d) => Says(i, o, e)')
<1>1. PICK f, g, h : f = d.execs /\ g = d.score /\ h = d.outcome
  OBVIOUS
<1>2. d = [execs |-> f, score |-> g, outcome |-> h] /\ f = [r \in DOMAIN f |-> f[r]]
  BY <1>1 DEF Shape
<1>3. x = [r \in DOMAIN f \ Lost |-> f[r]]
  BY <1>1
<1>4. e = [execs |-> x, score |-> g, outcome |-> h]
  BY ONLY <1>2, e = [d EXCEPT !.execs = x]
<1>5. e.execs = x /\ e.score = g /\ e.outcome = h
  BY <1>4
<1>6. x = [r \in DOMAIN x |-> x[r]]
  BY <1>3
<1>7. ASSUME Says(i, o, d), i \notin touched' PROVE e = d
  <2>1. Committed(i) /\ AsCommitted(i, o, d)
    BY <1>7 DEF Says, Touches
  <2>2. \A r \in RulesOf(i) : rules'[r] = rules[r]
    BY <1>7, <2>1, CommittedStays
  <2>3. DOMAIN f = RulesOf(i)
    BY <1>1, <2>1 DEF AsCommitted
  <2>4. \A r \in RulesOf(i) : r \notin Lost
    BY <2>2 DEF Lost
  <2>5. DOMAIN f \ Lost = DOMAIN f
    BY <2>3, <2>4
  <2>6. x = f
    BY ONLY <1>2, <1>3, <2>5
  <2> QED
    BY <1>2, <1>4, <2>6
<1>8. Shape(e)'
  BY <1>4, <1>5, <1>6 DEF Shape
<1>9. ASSUME Says(i, o, d) PROVE Says(i, o, e)'
  <2>1. CASE i \in touched'
    BY <2>1 DEF Says
  <2>2. CASE i \notin touched'
    BY <1>7, <1>9, <2>2, AnswersStay
  <2> QED
    BY <2>1, <2>2
<1> QED
  BY <1>8, <1>9

LEMMA CascadeKeeps ==
    ASSUME RowsInv, Kept, Touches, DecidedInv, Cascade
    PROVE  EvalsInv' /\ DecisionsInv' /\ RunsInv' /\ PhantomsInv'
<1> DEFINE gone(s) == scenarios[s] # NoRow /\ scenarios'[s] = NoRow
<1>1. EvalsInv'
  BY EvalsStay DEF DecidedInv, Cascade
<1>2. DecisionsInv'
  <2>1. decisions' = [e \in Evals |-> [s \in ScenarioIDs |->
          IF decisions[e][s] = NoRow \/ gone(s) THEN NoRow
          ELSE [decisions[e][s] EXCEPT !.d.execs = [r \in DOMAIN @ \ Lost |-> @[r]]]]]
    BY DEF Cascade, Lost
  <2>2. ASSUME NEW e \in Evals, NEW s \in ScenarioIDs PROVE \E r : decisions'[e][s] = r /\ DecisionInv(s, r)'
    <3>1. PICK old : old = decisions[e][s]
      OBVIOUS
    <3>2. CASE old = NoRow \/ gone(s)
      BY <2>1, <3>1, <3>2 DEF DecisionInv
    <3>3. CASE old # NoRow /\ ~gone(s)
      <4>1. PICK r : r = [old EXCEPT !.d.execs = [q \in DOMAIN @ \ Lost |-> @[q]]]
        OBVIOUS
      <4>2. decisions'[e][s] = r
        BY <2>1, <3>1, <3>3, <4>1
      <4>3. DecisionInv(s, old)
        BY <3>1 DEF DecisionsInv, DecidedInv
      <4>4. PICK i, o, d, wf, reqs, ev :
              i = old.i /\ o = old.obj /\ d = old.d /\ wf = old.wf /\ reqs = old.reqs /\ ev = old.events
        OBVIOUS
      <4>5. old = [i |-> i, obj |-> o, d |-> d, wf |-> wf, reqs |-> reqs, events |-> ev]
        BY <3>3, <4>3, <4>4 DEF DecisionInv
      <4>6. IterationOf(s, i) /\ Shape(d) /\ Says(i, o, d)
        BY <3>3, <4>3, <4>4 DEF DecisionInv
      <4>7. PICK x : x = [q \in DOMAIN d.execs \ Lost |-> d.execs[q]]
        OBVIOUS
      <4>8. PICK d2 : d2 = [d EXCEPT !.execs = x]
        OBVIOUS
      <4>9. r = [i |-> i, obj |-> o, d |-> d2, wf |-> wf, reqs |-> reqs, events |-> ev]
        <5>1. old.d = d
          BY <4>4
        <5>2. r = [old EXCEPT !.d = d2]
          BY ONLY <4>1, <4>7, <4>8, <5>1
        <5> QED
          BY ONLY <4>5, <5>2
      <4>10. r.i = i /\ r.obj = o /\ r.d = d2 /\ r.wf = wf /\ r.reqs = reqs /\ r.events = ev
        BY <4>9
      <4>11. Shape(d2)' /\ Says(i, o, d2)'
        BY <4>6, <4>7, <4>8, Trimmed
      <4>12. IterationOf(s, i)'
        <5>1. ScenarioExists(s)
          BY <4>6 DEF RowsInv, Fresh, IterationOf
        <5>2. ScenarioExists(s)' /\ i \in IterationIDs
          BY <3>3, <4>6, <5>1 DEF ScenarioExists, IterationOf
        <5> QED
          BY <4>6, <5>2 DEF Kept
      <4>13. DecisionInv(s, r)'
        BY <4>9, <4>10, <4>11, <4>12 DEF DecisionInv
      <4> QED
        BY <4>2, <4>13
    <3> QED
      BY <3>2, <3>3
  <2>3. decisions' = [e \in Evals |-> [s \in ScenarioIDs |-> decisions'[e][s]]]
    BY <2>1
  <2> QED
    BY <2>2, <2>3, DecisionsBecome
<1>3. RunsInv'
  <2>1. testRuns' = [t \in TestRunIDs |-> IF testRuns[t] # NoRow /\ gone(testRuns[t].scn) THEN NoRow ELSE testRuns[t]]
    BY DEF Cascade
  <2>2. ASSUME NEW t \in TestRunIDs PROVE RunInv(testRuns[t])'
    <3>1. PICK tr : tr = testRuns'[t]
      OBVIOUS
    <3>2. RunInv(tr)
      BY <2>1, <3>1 DEF RunInv, RunsInv, DecidedInv
    <3>3. RunInv(tr)'
      BY <3>2, MemoriesStay
    <3> QED
      BY <3>1, <3>3 DEF RunInv
  <2>3. testRuns' = [t \in TestRunIDs |-> testRuns'[t]]
    BY <2>1
  <2> QED
    BY <2>2, <2>3 DEF RunsInv
<1>4. PhantomsInv'
  <2>1. ASSUME NEW p \in phantoms' PROVE PhantomInv(p)'
    <3>1. PICK old \in phantoms : p = [old EXCEPT !.d.execs = [q \in DOMAIN @ \ Lost |-> @[q]]]
      BY <2>1 DEF Cascade, Lost
    <3>2. PhantomInv(old)
      BY DEF PhantomsInv, DecidedInv
    <3>3. PICK t, i, was, o, d : t = old.t /\ i = old.i /\ was = old.was /\ o = old.obj /\ d = old.d
      OBVIOUS
    <3>4. old = [t |-> t, i |-> i, was |-> was, obj |-> o, d |-> d]
      BY <3>2, <3>3 DEF PhantomInv
    <3>5. i \in IterationIDs /\ Shape(d) /\ (was = "committed" => Says(i, o, d))
      BY <3>2, <3>3 DEF PhantomInv
    <3>6. PICK x : x = [q \in DOMAIN d.execs \ Lost |-> d.execs[q]]
      OBVIOUS
    <3>7. PICK d2 : d2 = [d EXCEPT !.execs = x]
      OBVIOUS
    <3>8. p = [t |-> t, i |-> i, was |-> was, obj |-> o, d |-> d2]
      <4>1. old.d = d
        BY <3>3
      <4>2. p = [old EXCEPT !.d = d2]
        BY ONLY <3>1, <3>6, <3>7, <4>1
      <4> QED
        BY ONLY <3>4, <4>2
    <3>9. p.t = t /\ p.i = i /\ p.was = was /\ p.obj = o /\ p.d = d2
      BY <3>8
    <3>10. Shape(d2)' /\ (was = "committed" => Says(i, o, d2)')
      BY <3>5, <3>6, <3>7, Trimmed
    <3> QED
      BY <3>5, <3>8, <3>9, <3>10 DEF PhantomInv
  <2> QED
    BY <2>1 DEF PhantomsInv
<1> QED
  BY <1>1, <1>2, <1>3, <1>4
LEMMA DecisionNextKeeps ==
    ASSUME RowsInv, Touches, DecidedInv, DecisionNext
    PROVE  EvalsInv' /\ DecisionsInv' /\ RunsInv' /\ PhantomsInv'
<1>1. \A s, i : IterationOf(s, i) => IterationOf(s, i)'
  BY DecisionsLeaveTables DEF IterationOf
<1>2. TablesTyped /\ SeenInv /\ EvalsInv /\ DecisionsInv /\ RunsInv /\ PhantomsInv
  BY DEF RowsInv, DecidedInv
<1>3. ASSUME NEW e \in Evals, NEW o \in Objects, NEW S, StartEvaluation(e, o, S)
      PROVE  EvalsInv' /\ DecisionsInv' /\ RunsInv' /\ PhantomsInv'
  <2>1. UNCHANGED <<decisions, testRuns, phantoms>>
    BY <1>3 DEF StartEvaluation
  <2> QED
    BY <1>1, <1>2, <1>3, <2>1, StartKeeps, DecisionsStay, RunsStay, PhantomsStay
<1>4. ASSUME NEW e \in Evals, NEW s \in ScenarioIDs, EvaluationStep(e, s) \/ BranchFails(e, s)
      PROVE  EvalsInv' /\ DecisionsInv' /\ RunsInv' /\ PhantomsInv'
  <2>1. UNCHANGED <<testRuns, phantoms>>
    BY <1>4 DEF EvaluationStep, ReadScenario, ReadIteration, ReadRules, EvaluateRules, BuildOutputs, StoreDecision, BranchFails, Move
  <2>2. CASE StoreDecision(e, s)
    BY <1>1, <1>2, <2>1, <2>2, StoreDecisionKeeps, RunsStay, PhantomsStay
  <2>3. CASE ~StoreDecision(e, s)
    <3>1. decisions' = decisions
      BY <1>4, <2>3 DEF EvaluationStep, ReadScenario, ReadIteration, ReadRules, EvaluateRules, BuildOutputs, BranchFails
    <3>2. EvalsInv'
      BY <1>2, <1>4, <2>3, ReadScenarioKeeps, ReadIterationKeeps, ReadRulesKeeps, EvaluateRulesKeeps, BuildOutputsKeeps,
         BranchFailsKeeps DEF EvaluationStep
    <3> QED
      BY <1>1, <1>2, <2>1, <3>1, <3>2, DecisionsStay, RunsStay, PhantomsStay
  <2> QED
    BY <2>2, <2>3
<1>5. CASE SnoozeStep
  <2>1. UNCHANGED <<evals, decisions, testRuns, phantoms>>
    BY <1>5 DEF SnoozeStep, CreateSnooze, SnoozeExpires
  <2> QED
    BY <1>1, <1>2, <2>1, EvalsStay, DecisionsStay, RunsStay, PhantomsStay
<1>6. ASSUME NEW k, NEW kind, ConfigStep(k, kind) PROVE EvalsInv' /\ DecisionsInv' /\ RunsInv' /\ PhantomsInv'
  <2>1. UNCHANGED <<evals, testRuns, phantoms>>
    BY <1>6 DEF ConfigStep, DeleteConfig, UpdateConfig, CreateConfig, WriteConfig
  <2>2. DeleteConfig(k) \/ decisions' = decisions
    BY <1>6 DEF ConfigStep, UpdateConfig, CreateConfig
  <2>3. DecisionsInv'
    BY <1>1, <1>2, <2>2, DeleteConfigKeeps, DecisionsStay
  <2> QED
    BY <1>2, <2>1, <2>3, EvalsStay, RunsStay, PhantomsStay
<1>7. ASSUME NEW t \in TestRunIDs, TestRunStep(t) PROVE EvalsInv' /\ DecisionsInv' /\ RunsInv' /\ PhantomsInv'
  <2>1. UNCHANGED <<evals, decisions>>
    BY <1>7 DEF TestRunStep, CreateTestRun, CancelTestRun, EvaluateTestRun, EvaluatePhantomRules, StorePhantom, SetTestRun
  <2> QED
    BY <1>1, <1>2, <1>7, <2>1, TestRunStepKeeps, EvalsStay, DecisionsStay
<1> QED
  BY <1>3, <1>4, <1>5, <1>6, <1>7
     DEF DecisionNext, EvaluateAllLiveScenarios, EvaluateScenario, ScreeningConfigStep, ScoringConfigStep

LEMMA DecidedStarts == AuthoringInv /\ DecisionInit => DecidedInv
<1> SUFFICES ASSUME AuthoringInv, DecisionInit PROVE DecidedInv
  OBVIOUS
<1>1. EvalsInv /\ DecisionsInv /\ RunsInv /\ PhantomsInv
  <2>1. DecisionInit
    OBVIOUS
  <2> QED
    BY ONLY <2>1 DEF DecisionInit, EvalsInv, DecisionsInv, DecisionInv, RunsInv, RunInv, PhantomsInv
<1>2. SeenInv
  <2> DEFINE used == {v.live : v \in UNION {seen.scn[s] : s \in ScenarioIDs}}
  <2>1. /\ seen.scn = [s \in ScenarioIDs |-> {} \cup Current.scn[s]]
        /\ \A s \in ScenarioIDs : Current.scn[s] = IF scenarios[s] # NoRow THEN {scenarios[s]} ELSE {}
    BY DEF DecisionInit, Loaded, NothingSeen, Current, ScenarioExists
  <2>2. /\ DOMAIN seen.iter = IterationIDs /\ DOMAIN seen.rule = IterationIDs
        /\ \A i \in IterationIDs : /\ seen.iter[i] = {} \cup (IF i \in used THEN Current.iter[i] ELSE {})
                                   /\ seen.rule[i] = {} \cup (IF i \in used THEN Current.rule[i] ELSE {})
    BY DEF DecisionInit, Loaded, NothingSeen
  <2>3. \A i \in IterationIDs : /\ \A v \in Current.iter[i] : v = iterations[i]
                                /\ \A v \in Current.rule[i] : v = RuleRows(i)
    BY DEF Current
  <2>4. ASSUME NEW s \in ScenarioIDs, NEW v \in seen.scn[s], v.live # NoID
        PROVE  v.live \in IterationIDs /\ Committed(v.live)
    <3>1. v = scenarios[s] /\ scenarios[s] # NoRow
      BY <2>1, <2>4
    <3> QED
      BY <2>4, <3>1 DEF AuthoringInv, RowsInv, LiveIsCommitted, ScenarioExists, IterationOf, Committed
  <2>5. ASSUME NEW i \in IterationIDs, i \in used PROVE Committed(i)
    <3>1. PICK s, v : s \in ScenarioIDs /\ v \in seen.scn[s] /\ v.live = i
      BY <2>5
    <3>2. v.live # NoID
      BY <3>1, AuthoringAssumption
    <3> QED
      BY <2>4, <3>1, <3>2
  <2> HIDE DEF used
  <2>6. \A i \in IterationIDs : (\A v \in seen.iter[i] : RowAs(i, v)) /\ (\A v \in seen.rule[i] : RulesAs(i, v))
    BY <2>2, <2>3, <2>5 DEF RowAs, RulesAs
  <2>7. DOMAIN seen.scn = ScenarioIDs
    BY <2>1
  <2> QED
    BY <2>2, <2>4, <2>6, <2>7 DEF SeenInv
<1> QED
  BY <1>1, <1>2 DEF DecidedInv

LEMMA DecidedKept == AuthoringInv /\ DecidedInv /\ [Next]_vars => DecidedInv'
<1> SUFFICES ASSUME AuthoringInv, DecidedInv, [Next]_vars PROVE DecidedInv'
  OBVIOUS
<1>1. CASE Next
  <2>1. Touches /\ seen' = Loaded(seen, Current')
    BY <1>1 DEF Next, Touches
  <2>2. RowsInv /\ RowsInv'
    BY NextKeeps DEF AuthoringInv
  <2>3. SeenInv'
    BY <2>1, <2>2, SeenKept DEF DecidedInv
  <2>4. CASE AuthoringNext /\ Cascade
    BY <2>1, <2>2, <2>3, <2>4, AuthoringKeeps, CascadeKeeps DEF DecidedInv
  <2>5. CASE DecisionNext
    BY <2>1, <2>2, <2>3, <2>5, DecisionNextKeeps DEF DecidedInv
  <2> QED
    BY <1>1, <2>4, <2>5 DEF Next
<1>2. CASE UNCHANGED vars
  <2>1. Touches /\ UNCHANGED <<iterations, rules, touched, seen, evals, decisions, testRuns, phantoms>>
    BY <1>2 DEF Touches, TouchedNow, RuleRows, RulesOf, RuleOf, vars, authoringVars, decisionVars
  <2>2. EvalsInv' /\ DecisionsInv' /\ RunsInv' /\ PhantomsInv'
    <3>1. \A s, i : IterationOf(s, i) => IterationOf(s, i)'
      BY <2>1 DEF IterationOf
    <3> QED
      BY <2>1, <3>1, EvalsStay, DecisionsStay, RunsStay, PhantomsStay DEF DecidedInv
  <2>3. SeenInv'
    <3>1. \A i \in IterationIDs : Committed(i) => Committed(i)'
      BY <2>1 DEF Committed
    <3>2. \A i, v : (RowAs(i, v) => RowAs(i, v)') /\ (RulesAs(i, v) => RulesAs(i, v)')
      BY <2>1, AnswersStay
    <3>3. SeenInv
      BY DEF DecidedInv
    <3> QED
      BY <2>1, <3>1, <3>2, <3>3 DEF SeenInv
  <2> QED
    BY <2>2, <2>3 DEF DecidedInv
<1> QED
  BY <1>1, <1>2

\* A stored decision is what the trigger, the rules and the thresholds of its
\* iteration say, although an evaluation reads the scenario, the iteration and the
\* rules at different times through caches of any age, and other requests edit,
\* publish, copy and delete meanwhile; so is the phantom decision of a committed
\* iteration.
THEOREM DecisionsExact == DecisionSpec => []DecidedAsCommitted
<1>1. AuthoringInv /\ DecidedInv => DecidedAsCommitted
  <2> SUFFICES ASSUME DecidedInv PROVE DecidedAsCommitted
    OBVIOUS
  <2>1. \A e \in Evals, s \in ScenarioIDs : DecisionInv(s, decisions[e][s])
    BY DEF DecidedInv, DecisionsInv
  <2>2. \A p \in phantoms : PhantomInv(p)
    BY DEF DecidedInv, PhantomsInv
  <2> QED
    BY <2>1, <2>2 DEF DecidedAsCommitted, DecisionInv, PhantomInv, Says
<1>2. Init /\ DecisionInit => AuthoringInv /\ DecidedInv
  BY AuthoringStarts, DecidedStarts
<1>3. AuthoringInv /\ DecidedInv /\ [Next]_vars => (AuthoringInv /\ DecidedInv)'
  BY NextKeeps, DecidedKept
<1> QED
  BY <1>1, <1>2, <1>3, PTL DEF DecisionSpec
=============================================================================
