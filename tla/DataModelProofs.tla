-------------------------- MODULE DataModelProofs --------------------------
(***************************************************************************)
(* Proofs about the data model, for any tables, fields, links, pivots,     *)
(* navigation options and enum values, any clients, and any menu of        *)
(* requests that starts with a whole database: the catalogue describes the *)
(* physical schema, what the model says of a table can be read, and a save *)
(* of display settings replaces the settings its client saw.               *)
(*                                                                         *)
(* The inductive invariant has three parts.                                *)
(*   Intact         Sound(db) holds in every state: the foreign keys, the  *)
(*                  unique names, the columns every table has, options     *)
(*                  that a check let in, and contracts that triggers keep. *)
(*                  What only a check before the transaction protects (the *)
(*                  physical tables and indexes, the paths of pivots,      *)
(*                  captions, the flag of enum fields) holds as long as no *)
(*                  transaction of the operations that check it committed  *)
(*                  after another one had overtaken its reads.             *)
(*   RequestsStand  What a request in flight has read is still true if     *)
(*                  nothing has committed since; and if the version that a *)
(*                  save has read is still that of the table, so are the   *)
(*                  settings.                                              *)
(*   IdsNew         A table that is being created is not live, nor in the  *)
(*                  hands of another creation or save: without it a new    *)
(*                  table could have the version that a save of a deleted  *)
(*                  one had read.                                          *)
(*                                                                         *)
(* Keeps(d, e, over) is what a transaction from d to e preserves when the  *)
(* operations of over are those whose reads were overtaken. Every          *)
(* transaction has a lemma that says so; the steps of requests and of the  *)
(* index jobs then preserve the invariant.                                 *)
(***************************************************************************)
EXTENDS MCDataModel, TLAPS

\* The change from d to e leaves all but names alone.
SameBut(d, e, names) == DOMAIN e = Components /\ \A x \in Components \ names : e[x] = d[x]

\* Two changes, one after the other, change what either of them does.
LEMMA Then ==
  ASSUME NEW d, NEW e, NEW g, NEW A, NEW B, SameBut(d, e, A), SameBut(e, g, B)
  PROVE  SameBut(d, g, A \cup B)
BY DEF SameBut

\* The versions of the tables ts rise, and nothing else changes.
VersionsUp(d, e, ts) ==
  /\ SameBut(d, e, {"table"})
  /\ LiveTables(e) = LiveTables(d)
  /\ \A t \in LiveTables(d) : e.table[t] = IF t \in ts THEN [d.table[t] EXCEPT !.version = @ + 1] ELSE d.table[t]

\* touch_display_options adds one to the version of the tables it touches.
LEMMA TouchOptions ==
  ASSUME NEW d, DOMAIN d = Components, NEW ts PROVE VersionsUp(d, touch_display_options(d, ts), ts)
<1> DEFINE e == touch_display_options(d, ts)
<1>1. e = [d EXCEPT !.table = [t \in DOMAIN d.table |-> IF t \in ts THEN [d.table[t] EXCEPT !.version = @ + 1] ELSE d.table[t]]]
  BY DEF touch_display_options
<1>2. e.table = [t \in DOMAIN d.table |-> IF t \in ts THEN [d.table[t] EXCEPT !.version = @ + 1] ELSE d.table[t]]
  BY <1>1 DEF Components
<1>3. SameBut(d, e, {"table"})
  BY <1>1 DEF Components, SameBut
<1> QED
  BY <1>2, <1>3 DEF LiveTables, VersionsUp

\* The trigger on captions adds one to the version of a table whose caption changes.
LEMMA TouchCaption ==
  ASSUME NEW d, Shape(d), NEW t \in LiveTables(d), NEW caption, NEW e, e = touch_display_caption(d, t, caption)
  PROVE  /\ SameBut(d, e, {"table"})
         /\ LiveTables(e) = LiveTables(d)
         /\ \A u \in LiveTables(d) \ {t} : e.table[u] = d.table[u]
         /\ DOMAIN e.table[t] = {"caption", "version"} /\ e.table[t].caption = caption
         /\ e.table[t].version = IF d.table[t].caption # caption THEN d.table[t].version + 1 ELSE d.table[t].version
<1>1. SameBut(d, e, {"table"})
  BY DEF Components, SameBut, touch_display_caption, Shape
<1>2. e.table = [[d.table EXCEPT ![t].version = IF d.table[t].caption # caption THEN @ + 1 ELSE @] EXCEPT ![t].caption = caption]
  BY DEF touch_display_caption, Shape, Components
<1>3. DOMAIN d.table[t] = {"caption", "version"} /\ t \in DOMAIN d.table
  BY DEF Shape, LiveTables
<1> QED
  BY <1>1, <1>2, <1>3 DEF LiveTables

\* refresh_ingestion_contract writes the document of a live table, and only that.
LEMMA Publish ==
  ASSUME NEW d, DOMAIN d = Components, NEW t, NEW e, e = refresh_ingestion_contract(d, t)
  PROVE  /\ SameBut(d, e, {"contract"})
         /\ t \in LiveTables(d) => e.contract = With(d.contract, t, Document(d, t))
         /\ t \notin LiveTables(d) => e.contract = d.contract
BY DEF refresh_ingestion_contract, publish_ingestion_contract, SameBut, Components

\* What no property of this module reads.
Hidden == {"status", "revision", "index", "jobs", "river"}
Alike(d, e) == SameBut(d, e, Hidden)

\* Recording a migration of the tenant changes nothing that the model says.
LEMMA Migration ==
  ASSUME NEW d, DOMAIN d = Components PROVE Alike(d, recordTenantSchemaMigration(d))
BY DEF recordTenantSchemaMigration, Alike, SameBut, Components, Hidden

\* Nor does the queue of index jobs.
LEMMA Enqueue == ASSUME NEW d, DOMAIN d = Components, NEW k PROVE Alike(d, enqueue(d, k))
BY DEF enqueue, Alike, SameBut, Components, Hidden

\* Nor does a new index job.
LEMMA NewJobHidden == ASSUME NEW d, DOMAIN d = Components, NEW k PROVE Alike(d, NewJob(d, k))
<1> DEFINE e == [d EXCEPT !.jobs = With(@, k, [status |-> "pending", attempts |-> 0])]
<1>1. Alike(d, e) /\ DOMAIN e = Components
  BY DEF Alike, SameBut, Components, Hidden
<1>2. Alike(e, enqueue(e, k))
  BY <1>1, Enqueue
<1>3. Alike(d, enqueue(e, k))
  BY <1>1, <1>2, Then DEF Alike
<1> QED
  BY <1>3 DEF NewJob

\* Nor does the retry of an index job.
LEMMA RetryJobHidden == ASSUME NEW d, DOMAIN d = Components, NEW k PROVE Alike(d, RetryJob(d, k)) /\ Alike(d, enqueue(RetryJob(d, k), k))
<1>1. Alike(d, RetryJob(d, k)) /\ DOMAIN RetryJob(d, k) = Components
  BY DEF Alike, SameBut, Components, Hidden, RetryJob
<1>2. Alike(RetryJob(d, k), enqueue(RetryJob(d, k), k))
  BY <1>1, Enqueue
<1> QED
  BY <1>1, <1>2, Then DEF Alike

\* Nor does ensureManagedIndexJobTx, which does one or the other.
LEMMA EnsureHidden == ASSUME NEW d, DOMAIN d = Components, NEW k PROVE Alike(d, ensureManagedIndexJobTx(d, k))
<1>1. Alike(d, d)
  BY DEF Alike, SameBut
<1> QED
  BY <1>1, NewJobHidden, RetryJobHidden DEF ensureManagedIndexJobTx

\* The rows that are left when the fields fs and what refers to them are gone.
RowsLeft(d, e, fs) ==
  /\ e.field = Without(d.field, fs)
  /\ e.enum = Without(d.enum, {x \in DOMAIN d.enum : EnumField[x] \in fs})
  /\ e.links = d.links \ LinksOn(d, fs)
  /\ e.pivots \subseteq d.pivots /\ \A p \in e.pivots : PivotField[p] \notin fs
  /\ e.navs = {n \in d.navs : {NavSource[n], NavFilter[n], NavOrder[n]} \cap fs = {}}

\* The foreign keys delete what refers to the fields deleted.
LEMMA Cascade ==
  ASSUME NEW d, DOMAIN d = Components, NEW fs
  PROVE  SameBut(d, CascadeFields(d, fs), {"field", "enum", "links", "pivots", "navs"}) /\ RowsLeft(d, CascadeFields(d, fs), fs)
<1> DEFINE e == CascadeFields(d, fs)
<1>1. /\ SameBut(d, e, {"field", "enum", "links", "pivots", "navs"})
      /\ e.field = Without(d.field, fs)
      /\ e.enum = Without(d.enum, {x \in DOMAIN d.enum : EnumField[x] \in fs})
      /\ e.links = d.links \ LinksOn(d, fs)
      /\ e.pivots = {p \in d.pivots : PivotField[p] \notin fs}
      /\ e.navs = {n \in d.navs : {NavSource[n], NavFilter[n], NavOrder[n]} \cap fs = {}}
  BY DEF SameBut, Components, CascadeFields
<1> HIDE DEF e
<1>2. RowsLeft(d, e, fs)
  BY <1>1 DEF RowsLeft
<1> QED
  BY <1>1, <1>2 DEF e

\* What was left stays left when only pivots are deleted as well.
LEMMA RowsLeftSame ==
  ASSUME NEW d, NEW e, NEW g, NEW fs, RowsLeft(d, e, fs),
         g.field = e.field, g.enum = e.enum, g.links = e.links, g.pivots \subseteq e.pivots, g.navs = e.navs
  PROVE  RowsLeft(d, g, fs)
BY DEF RowsLeft

\* The options of a table change only together with its version.
OptionsMove(d, e) ==
  /\ SameBut(d, e, {"table", "options"})
  /\ LiveTables(e) = LiveTables(d) /\ DOMAIN e.options = DOMAIN d.options
  /\ \A t \in LiveTables(d) :
       /\ DOMAIN e.table[t] = DOMAIN d.table[t]
       /\ e.table[t].version \in Nat /\ e.table[t].version >= d.table[t].version
       /\ \/ t \in DOMAIN d.options /\ e.options[t] # d.options[t]
          \/ e.table[t].caption # d.table[t].caption
          => e.table[t].version > d.table[t].version

\* The form of the rows of tables and options.
Rows(d) ==
  /\ DOMAIN d = Components
  /\ \A t \in LiveTables(d) : DOMAIN d.table[t] = {"caption", "version"} /\ d.table[t].version \in Nat
  /\ \A t \in DOMAIN d.options : DOMAIN d.options[t] = {"shown", "linked", "columns"}

\* Options rewritten by a trigger, which touches the tables it rewrites.
LEMMA OptionsTouched ==
  ASSUME NEW d, Rows(d), NEW ts, NEW os, DOMAIN os = DOMAIN d.options, \A t \in DOMAIN os \ ts : os[t] = d.options[t],
         NEW e, e = touch_display_options([d EXCEPT !.options = os], ts)
  PROVE  /\ OptionsMove(d, e)
         /\ \A t \in LiveTables(d) : e.table[t].caption = d.table[t].caption
         /\ e.options = os
<1> DEFINE g == [d EXCEPT !.options = os]
<1>1. SameBut(d, g, {"options"}) /\ DOMAIN g = Components /\ g.options = os
  BY DEF Rows, SameBut, Components
<1>2. e = touch_display_options(g, ts)
  OBVIOUS
<1> HIDE DEF g
<1>0. VersionsUp(g, e, ts)
  BY <1>1, <1>2, TouchOptions
<1>3. SameBut(g, e, {"table"}) /\ LiveTables(e) = LiveTables(g)
      /\ \A t \in LiveTables(g) : e.table[t] = IF t \in ts THEN [g.table[t] EXCEPT !.version = @ + 1] ELSE g.table[t]
  BY <1>0 DEF VersionsUp
<1>4. g.table = d.table /\ e.options = g.options /\ LiveTables(g) = LiveTables(d)
  BY <1>1, <1>3 DEF SameBut, Components, LiveTables
<1>5. SameBut(d, e, {"table", "options"})
  BY <1>1, <1>3 DEF SameBut
<1>6. ASSUME NEW t \in LiveTables(d)
      PROVE  /\ DOMAIN e.table[t] = DOMAIN d.table[t] /\ e.table[t].caption = d.table[t].caption
             /\ e.table[t].version = IF t \in ts THEN d.table[t].version + 1 ELSE d.table[t].version
             /\ d.table[t].version \in Nat
  BY <1>3, <1>4 DEF Rows
<1>7. LiveTables(e) = LiveTables(d)
  BY <1>3, <1>4
<1>8. ASSUME NEW t \in LiveTables(d)
      PROVE  /\ e.table[t].version \in Nat /\ e.table[t].version >= d.table[t].version
             /\ t \in DOMAIN d.options /\ e.options[t] # d.options[t] => e.table[t].version > d.table[t].version
  <2>1. e.options = os
    BY <1>1, <1>4
  <2> QED
    BY <1>6, <2>1
<1>9. e.options = os /\ DOMAIN e.options = DOMAIN d.options
  BY <1>1, <1>4
<1> QED
  BY <1>5, <1>6, <1>7, <1>8, <1>9 DEF OptionsMove

\* A change of options keeps the form of the rows.
LEMMA RowsMove ==
  ASSUME NEW d, NEW e, Rows(d), OptionsMove(d, e),
         \A t \in DOMAIN e.options : DOMAIN e.options[t] = {"shown", "linked", "columns"}
  PROVE  Rows(e)
BY DEF Rows, OptionsMove, SameBut

\* Two changes of options in turn are one.
LEMMA MovesCompose == ASSUME NEW d, NEW e, NEW g, Rows(d), OptionsMove(d, e), OptionsMove(e, g) PROVE OptionsMove(d, g)
<1>1. SameBut(d, g, {"table", "options"})
  BY Then DEF OptionsMove
<1>2. LiveTables(g) = LiveTables(d) /\ DOMAIN g.options = DOMAIN d.options
  BY DEF OptionsMove
<1>3. ASSUME NEW t \in LiveTables(d)
      PROVE  /\ DOMAIN g.table[t] = DOMAIN d.table[t]
             /\ g.table[t].version \in Nat /\ g.table[t].version >= d.table[t].version
             /\ \/ t \in DOMAIN d.options /\ g.options[t] # d.options[t]
                \/ g.table[t].caption # d.table[t].caption
                => g.table[t].version > d.table[t].version
  BY DEF OptionsMove, Rows
<1> QED
  BY <1>1, <1>2, <1>3 DEF OptionsMove

\* The trigger takes deleted fields out of the options that use them.
LEMMA FieldsCleaned ==
  ASSUME NEW d, Rows(d), NEW fs, NEW e, e = OptionsWithoutFields(d, fs)
  PROVE  /\ OptionsMove(d, e) /\ Rows(e)
         /\ \A t \in LiveTables(d) : e.table[t].caption = d.table[t].caption
         /\ \A t \in DOMAIN d.options :
              e.options[t] = IF t \in TouchedByFields(d, fs) THEN WithoutFields(d.options[t], fs) ELSE d.options[t]
<1> DEFINE ts == TouchedByFields(d, fs)
           os == [t \in DOMAIN d.options |-> IF t \in ts THEN WithoutFields(d.options[t], fs) ELSE d.options[t]]
<1>1. e = touch_display_options([d EXCEPT !.options = os], ts)
  BY DEF OptionsWithoutFields
<1>2. DOMAIN os = DOMAIN d.options /\ \A t \in DOMAIN os \ ts : os[t] = d.options[t]
  OBVIOUS
<1>3. \A t \in DOMAIN os : DOMAIN os[t] = {"shown", "linked", "columns"}
  BY DEF Rows, WithoutFields
<1>4. \A t \in DOMAIN os : os[t] = IF t \in ts THEN WithoutFields(d.options[t], fs) ELSE d.options[t]
  OBVIOUS
<1> HIDE DEF os, ts
<1>5. OptionsMove(d, e) /\ e.options = os /\ \A t \in LiveTables(d) : e.table[t].caption = d.table[t].caption
  BY <1>1, <1>2, OptionsTouched
<1>6. Rows(e)
  BY <1>3, <1>5, RowsMove
<1> QED
  BY <1>2, <1>4, <1>5, <1>6 DEF ts

\* clean_field_display takes one field out, and off the caption of its table.
LEMMA FieldCleaned ==
  ASSUME NEW d, Rows(d), NEW f, FieldTable[f] \in LiveTables(d), NEW e, e = clean_field_display(d, f)
  PROVE  /\ OptionsMove(d, e) /\ Rows(e)
         /\ e.table[FieldTable[f]].caption # FieldName[f] \/ e.table[FieldTable[f]].caption = NoCaption
         /\ \A t \in LiveTables(d) :
              \/ e.table[t].caption = d.table[t].caption
              \/ e.table[t].caption = NoCaption
         /\ \A t \in DOMAIN d.options :
              e.options[t] = IF t \in TouchedByFields(d, {f}) THEN WithoutFields(d.options[t], {f}) ELSE d.options[t]
<1> DEFINE g == OptionsWithoutFields(d, {f})
           t == FieldTable[f]
           row == [[g.table[t] EXCEPT !.caption = IF @ = FieldName[f] THEN NoCaption ELSE @] EXCEPT !.version = @ + 1]
<1>1. /\ OptionsMove(d, g) /\ Rows(g)
      /\ \A u \in LiveTables(d) : g.table[u].caption = d.table[u].caption
      /\ \A u \in DOMAIN d.options :
              g.options[u] = IF u \in TouchedByFields(d, {f}) THEN WithoutFields(d.options[u], {f}) ELSE d.options[u]
  BY FieldsCleaned
<1>2. e = [[g EXCEPT !.table[t].caption = IF g.table[t].caption = FieldName[f] THEN NoCaption ELSE g.table[t].caption]
             EXCEPT !.table[t].version = @ + 1]
  BY DEF clean_field_display
<1>3. /\ DOMAIN g = Components /\ LiveTables(g) = LiveTables(d) /\ t \in DOMAIN g.table
      /\ DOMAIN g.table[t] = {"caption", "version"} /\ g.table[t].version \in Nat
  BY <1>1 DEF Rows, OptionsMove, LiveTables
<1> HIDE DEF g
<1> DEFINE caption == IF g.table[t].caption = FieldName[f] THEN NoCaption ELSE g.table[t].caption
           c == [g EXCEPT !.table[t].caption = caption]
<1>a. c.table = [g.table EXCEPT ![t].caption = caption] /\ SameBut(g, c, {"table"}) /\ DOMAIN c = Components
  BY <1>3 DEF SameBut, Components
<1>b. /\ DOMAIN c.table = DOMAIN g.table /\ \A u \in DOMAIN g.table \ {t} : c.table[u] = g.table[u]
      /\ DOMAIN c.table[t] = {"caption", "version"} /\ c.table[t].caption = caption /\ c.table[t].version = g.table[t].version
  BY <1>3, <1>a
<1>c. e = [c EXCEPT !.table[t].version = @ + 1]
  BY <1>2
<1> HIDE DEF c, caption
<1>d. e.table = [c.table EXCEPT ![t].version = @ + 1] /\ SameBut(c, e, {"table"})
  BY <1>a, <1>c DEF SameBut, Components
<1>e. SameBut(g, e, {"table"}) /\ e.options = g.options
  BY <1>a, <1>d DEF SameBut, Components
<1>4. /\ SameBut(g, e, {"table"}) /\ e.options = g.options
      /\ LiveTables(e) = LiveTables(g) /\ \A u \in LiveTables(g) \ {t} : e.table[u] = g.table[u]
      /\ DOMAIN e.table[t] = {"caption", "version"} /\ e.table[t].version = g.table[t].version + 1
      /\ e.table[t].caption = IF g.table[t].caption = FieldName[f] THEN NoCaption ELSE g.table[t].caption
  BY <1>3, <1>b, <1>d, <1>e DEF LiveTables, caption
<1>f. SameBut(g, e, {"table", "options"})
  BY <1>4 DEF SameBut
<1>g. ASSUME NEW u \in LiveTables(g)
      PROVE  /\ DOMAIN e.table[u] = DOMAIN g.table[u]
             /\ e.table[u].version \in Nat /\ e.table[u].version >= g.table[u].version
             /\ e.table[u].caption # g.table[u].caption => e.table[u].version > g.table[u].version
  <2>1. CASE u = t
    <3>1. DOMAIN e.table[t] = DOMAIN g.table[t] /\ g.table[t].version \in Nat /\ e.table[t].version = g.table[t].version + 1
      BY <1>3, <1>4
    <3>2. e.table[t].version \in Nat /\ e.table[t].version > g.table[t].version /\ e.table[t].version >= g.table[t].version
      BY <3>1
    <3> QED
      BY <2>1, <3>1, <3>2
  <2>2. CASE u # t
    <3>1. e.table[u] = g.table[u] /\ g.table[u].version \in Nat
      BY <1>1, <1>4, <2>2 DEF Rows
    <3> QED
      BY <3>1
  <2> QED
    BY <2>1, <2>2
<1>5. OptionsMove(g, e)
  BY <1>4, <1>f, <1>g DEF OptionsMove
<1>6. OptionsMove(d, e)
  BY <1>1, <1>5, MovesCompose
<1>7. Rows(e)
  BY <1>1, <1>4, <1>5, RowsMove DEF Rows
<1>8. DOMAIN g.options = DOMAIN d.options
  BY <1>1 DEF OptionsMove
<1> QED
  BY <1>1, <1>3, <1>4, <1>6, <1>7, <1>8

\* clean_link_display takes deleted links out of the options that use them.
LEMMA LinksCleaned ==
  ASSUME NEW d, Rows(d), NEW ls, NEW e, e = clean_link_display(d, ls)
  PROVE  /\ OptionsMove(d, e) /\ Rows(e)
         /\ \A t \in LiveTables(d) : e.table[t].caption = d.table[t].caption
         /\ \A t \in DOMAIN d.options :
              e.options[t] = IF t \in TouchedByLinks(d, ls) THEN WithoutLinks(d.options[t], ls) ELSE d.options[t]
<1> DEFINE ts == TouchedByLinks(d, ls)
           us == {ChildTable(l) : l \in ls} \cap LiveTables(d)
           os == [t \in DOMAIN d.options |-> IF t \in ts THEN WithoutLinks(d.options[t], ls) ELSE d.options[t]]
           g == touch_display_options([d EXCEPT !.options = os], ts)
           h == [g EXCEPT !.options = g.options]
<1>1. e = touch_display_options(g, us)
  BY DEF clean_link_display
<1>2. DOMAIN os = DOMAIN d.options /\ \A t \in DOMAIN os \ ts : os[t] = d.options[t]
  OBVIOUS
<1>3. \A t \in DOMAIN os : DOMAIN os[t] = {"shown", "linked", "columns"}
  BY DEF Rows, WithoutLinks
<1>4. \A t \in DOMAIN os : os[t] = IF t \in ts THEN WithoutLinks(d.options[t], ls) ELSE d.options[t]
  OBVIOUS
<1> HIDE DEF os, ts, us
<1>5. OptionsMove(d, g) /\ g.options = os /\ \A t \in LiveTables(d) : g.table[t].caption = d.table[t].caption
  BY <1>2, OptionsTouched
<1>6. Rows(g) /\ LiveTables(g) = LiveTables(d)
  BY <1>3, <1>5, RowsMove DEF OptionsMove
<1> HIDE DEF g
<1>7. VersionsUp(g, e, us)
  BY <1>1, <1>6, TouchOptions DEF Rows
<1>8. e.options = g.options /\ SameBut(g, e, {"table", "options"})
  BY <1>7 DEF VersionsUp, SameBut, Components
<1>9. ASSUME NEW t \in LiveTables(g)
      PROVE  /\ DOMAIN e.table[t] = DOMAIN g.table[t] /\ e.table[t].caption = g.table[t].caption
             /\ e.table[t].version \in Nat /\ e.table[t].version >= g.table[t].version
  <2>1. DOMAIN g.table[t] = {"caption", "version"} /\ g.table[t].version \in Nat
    BY <1>6 DEF Rows
  <2>2. CASE t \in us
    <3>1. e.table[t] = [g.table[t] EXCEPT !.version = @ + 1]
      BY <1>7, <2>2 DEF VersionsUp
    <3> QED
      BY <2>1, <3>1
  <2>3. CASE t \notin us
    <3>1. e.table[t] = g.table[t]
      BY <1>7, <2>3 DEF VersionsUp
    <3> QED
      BY <2>1, <3>1
  <2> QED
    BY <2>2, <2>3
<1>10. OptionsMove(g, e)
  BY <1>7, <1>8, <1>9 DEF OptionsMove, VersionsUp
<1>11. OptionsMove(d, e)
  BY <1>5, <1>10, MovesCompose
<1>12. Rows(e)
  BY <1>3, <1>5, <1>8, <1>11, RowsMove
<1> QED
  BY <1>2, <1>4, <1>5, <1>6, <1>8, <1>9, <1>11, <1>12 DEF ts

\* Versions never fall, and rise with every change of settings.
VersionsMove(d, e) ==
  \A t \in LiveTables(d) \cap LiveTables(e) :
    /\ e.table[t].version >= d.table[t].version
    /\ Settings(e, t) # Settings(d, t) => e.table[t].version > d.table[t].version

\* What a transaction from d to e preserves when the reads of over were overtaken.
Keeps(d, e, over) ==
  /\ Sound(e)
  /\ VersionsMove(d, e)
  /\ over \cap {"deleteTable", "deleteField"} = {} /\ TablesBuilt(d) => TablesBuilt(e)
  /\ over \cap {"deleteTable", "deleteField", "updateField"} = {} /\ IndexesBuilt(d) => IndexesBuilt(e)
  /\ over \cap {"createPivot", "deleteLink", "deleteField", "deleteTable"} = {} /\ PathsResolve(d) => PathsResolve(e)
  /\ over \cap {"updateTable"} = {} /\ CaptionsResolve(d) => CaptionsResolve(e)
  /\ over \cap {"createEnum", "updateField"} = {} /\ EnumsFlagged(d) => EnumsFlagged(e)

\* What is kept whatever was overtaken is kept.
LEMMA KeepsMore == ASSUME NEW d, NEW e, NEW over, Keeps(d, e, {}) PROVE Keeps(d, e, over)
BY DEF Keeps

\* What d says, e says too.
LEMMA FieldsSame ==
  ASSUME NEW d, NEW e, e.field = d.field
  PROVE  LiveFields(e) = LiveFields(d) /\ \A t : FieldsOf(e, t) = FieldsOf(d, t)
BY DEF LiveFields, FieldsOf

\* The document of a table depends on its fields and their enum values.
LEMMA DocumentSame ==
  ASSUME NEW d, NEW e, NEW t, FieldsOf(e, t) = FieldsOf(d, t), \A f \in FieldsOf(d, t) : e.field[f] = d.field[f],
         \A f \in FieldsOf(d, t) : \A x : EnumField[x] = f =>
            (x \in DOMAIN e.enum <=> x \in DOMAIN d.enum) /\ (x \in DOMAIN d.enum => e.enum[x] = d.enum[x])
  PROVE  Document(e, t) = Document(d, t)
<1>1. ASSUME NEW f \in FieldsOf(d, t)
      PROVE  {e.enum[x] : x \in {y \in DOMAIN e.enum : EnumField[y] = f}}
               = {d.enum[x] : x \in {y \in DOMAIN d.enum : EnumField[y] = f}}
  OBVIOUS
<1>2. \A f \in FieldsOf(d, t) :
        [enum |-> e.field[f].enum, unique |-> e.field[f].unique,
         values |-> IF e.field[f].enum THEN {e.enum[x] : x \in {y \in DOMAIN e.enum : EnumField[y] = f}} ELSE {}]
        = [enum |-> d.field[f].enum, unique |-> d.field[f].unique,
           values |-> IF d.field[f].enum THEN {d.enum[x] : x \in {y \in DOMAIN d.enum : EnumField[y] = f}} ELSE {}]
  BY <1>1
<1> QED
  BY <1>2 DEF Document

\* Contracts stay current while fields and enum values stay.
LEMMA ContractSame ==
  ASSUME NEW d, NEW e, ContractsCurrent(d), e.field = d.field, e.enum = d.enum, LiveTables(e) = LiveTables(d),
         e.contract = d.contract \/ \E t : e.contract = With(d.contract, t, Document(d, t)) /\ t \in LiveTables(d)
  PROVE  ContractsCurrent(e)
<1>1. \A t : Document(e, t) = Document(d, t)
  BY FieldsSame, DocumentSame
<1>2. DOMAIN e.contract = LiveTables(d) /\ \A t \in LiveTables(d) : e.contract[t] = Document(d, t)
  <2>1. CASE e.contract = d.contract
    BY <2>1 DEF ContractsCurrent
  <2>2. ASSUME NEW u, e.contract = With(d.contract, u, Document(d, u)), u \in LiveTables(d)
        PROVE  DOMAIN e.contract = LiveTables(d) /\ \A t \in LiveTables(d) : e.contract[t] = Document(d, t)
    <3>1. /\ DOMAIN e.contract = DOMAIN d.contract \cup {u} /\ e.contract[u] = Document(d, u)
          /\ \A t \in DOMAIN d.contract \ {u} : e.contract[t] = d.contract[t]
      BY <2>2 DEF With
    <3>2. DOMAIN d.contract = LiveTables(d) /\ \A t \in LiveTables(d) : d.contract[t] = Document(d, t)
      BY DEF ContractsCurrent
    <3>3. DOMAIN d.contract \cup {u} = DOMAIN d.contract
      BY <2>2, <3>2
    <3>4. ASSUME NEW t \in LiveTables(d) PROVE e.contract[t] = Document(d, t)
      <4>1. CASE t = u
        BY <3>1, <4>1
      <4>2. CASE t # u
        BY <3>1, <3>2, <4>2
      <4> QED
        BY <4>1, <4>2
    <3> QED
      BY <3>1, <3>2, <3>3, <3>4
  <2> QED
    BY <2>1, <2>2
<1> QED
  BY <1>1, <1>2 DEF ContractsCurrent

\* Columns and unique indexes depend on the fields alone.
LEMMA NamedSame ==
  ASSUME NEW d, NEW e, e.field = d.field
  PROVE  /\ \A t, name : StringFieldNamed(e, t, name) <=> StringFieldNamed(d, t, name)
         /\ \A t : Columns(e, t) = Columns(d, t)
         /\ UniqueColumns(e) = UniqueColumns(d)
BY FieldsSame DEF StringFieldNamed, findTableFieldByName, Columns, UniqueColumns

\* A change of relations, options or captions.
LEMMA SettingsStep ==
  ASSUME NEW d, Sound(d), NEW e, DOMAIN e = Components, e.field = d.field, e.enum = d.enum, e.phys = d.phys, e.uniq = d.uniq,
         LiveTables(e) = LiveTables(d), ContractsCurrent(e), RowsReferred(e), OptionsStand(e), Rows(e)
  PROVE  /\ Sound(e)
         /\ TablesBuilt(d) => TablesBuilt(e)
         /\ IndexesBuilt(d) => IndexesBuilt(e)
         /\ EnumsFlagged(d) => EnumsFlagged(e)
<1>1. LiveFields(e) = LiveFields(d) /\ \A t : FieldsOf(e, t) = FieldsOf(d, t)
  BY FieldsSame
<1>2. Shape(e)
  BY <1>1 DEF Sound, Shape, Rows
<1>3. NamesUnique(e) /\ DefaultsLive(e)
  BY <1>1 DEF Sound, NamesUnique, DefaultsLive
<1>4. TablesBuilt(d) => TablesBuilt(e)
  BY NamedSame DEF TablesBuilt
<1>5. IndexesBuilt(d) => IndexesBuilt(e)
  BY NamedSame DEF IndexesBuilt
<1>6. EnumsFlagged(d) => EnumsFlagged(e)
  BY DEF EnumsFlagged
<1> QED
  BY <1>2, <1>3, <1>4, <1>5, <1>6 DEF Sound

\* A sound database has rows of the right form.
LEMMA SoundRows == ASSUME NEW d, Sound(d) PROVE Rows(d)
BY DEF Sound, Shape, Rows

\* The rows that refer to fields, and the options.
LEMMA RelationsSame ==
  ASSUME NEW d, RowsReferred(d), NEW e, e.field = d.field, e.enum = d.enum, LiveTables(e) = LiveTables(d),
         DOMAIN e.options \subseteq LiveTables(e),
         \A l \in e.links \ d.links : {LinkParent[l], LinkChild[l]} \subseteq LiveFields(d),
         \A n \in e.navs \ d.navs : {NavSource[n], NavFilter[n], NavOrder[n]} \subseteq LiveFields(d),
         \A p \in e.pivots \ d.pivots : PivotBase[p] \in LiveTables(d) /\ PivotField[p] \in LiveFields(d) \cup {Unset}
  PROVE  RowsReferred(e)
BY FieldsSame DEF RowsReferred

\* Options stand as long as fields and links do.
LEMMA OptionsSame ==
  ASSUME NEW d, OptionsStand(d), NEW e, e.field = d.field, d.links \subseteq e.links, e.options = d.options
  PROVE  OptionsStand(e)
BY FieldsSame DEF OptionsStand, OptionStands, ColumnStands

\* Without new settings there need be no new version.
LEMMA SameVersions == ASSUME NEW d, Rows(d), NEW e, e.table = d.table, e.options = d.options PROVE VersionsMove(d, e)
BY DEF VersionsMove, Settings, OptionsOf, Rows, LiveTables

\* Captions resolve as long as fields and captions stay.
LEMMA CaptionsSame == ASSUME NEW d, NEW e, CaptionsResolve(d), e.field = d.field, e.table = d.table PROVE CaptionsResolve(e)
BY NamedSame DEF CaptionsResolve, LiveTables

\* What status, revision, indexes, jobs and the queue leave alone.
LEMMA AlikeIs ==
  ASSUME NEW d, NEW e, Alike(d, e)
  PROVE  /\ DOMAIN e = Components
         /\ e.table = d.table /\ e.field = d.field /\ e.enum = d.enum /\ e.links = d.links /\ e.pivots = d.pivots
         /\ e.navs = d.navs /\ e.options = d.options /\ e.contract = d.contract /\ e.phys = d.phys /\ e.uniq = d.uniq
BY DEF Alike, SameBut, Components, Hidden

\* A change of status, revision, indexes, jobs or the queue keeps everything.
LEMMA AlikeKeeps ==
  ASSUME NEW d, Sound(d), NEW e, Alike(d, e)
  PROVE  Keeps(d, e, {})
<1>0. Rows(d)
  BY SoundRows
<1>1. Rows(e) /\ LiveTables(e) = LiveTables(d)
  BY <1>0, AlikeIs DEF Rows, LiveTables
<1>2. ContractsCurrent(e)
  BY <1>1, AlikeIs, ContractSame DEF Sound
<1>3. RowsReferred(e)
  BY <1>1, AlikeIs, RelationsSame DEF Sound, RowsReferred
<1>4. OptionsStand(e)
  BY AlikeIs, OptionsSame DEF Sound
<1>5. /\ Sound(e)
      /\ TablesBuilt(d) => TablesBuilt(e)
      /\ IndexesBuilt(d) => IndexesBuilt(e)
      /\ EnumsFlagged(d) => EnumsFlagged(e)
  BY <1>1, <1>2, <1>3, <1>4, AlikeIs, SettingsStep
<1>6. PathsResolve(d) => PathsResolve(e)
  BY AlikeIs DEF PathsResolve
<1>7. CaptionsResolve(d) => CaptionsResolve(e)
  BY AlikeIs, CaptionsSame
<1>8. VersionsMove(d, e)
  BY <1>0, AlikeIs, SameVersions
<1> QED
  BY <1>5, <1>6, <1>7, <1>8 DEF Keeps

\* So does one that follows another change.
LEMMA KeepsThenAlike ==
  ASSUME NEW d, NEW e, NEW g, NEW over, Keeps(d, e, over), Alike(e, g)
  PROVE  Keeps(d, g, over)
<1>1. Keeps(e, g, {})
  BY AlikeKeeps DEF Keeps
<1>2. VersionsMove(d, g)
  <2>1. g.table = e.table /\ g.options = e.options
    BY AlikeIs
  <2> QED
    BY <2>1 DEF Keeps, VersionsMove, Settings, OptionsOf, LiveTables
<1> QED
  BY <1>1, <1>2 DEF Keeps

-----------------------------------------------------------------------------
(* Tenant, relations, navigation, jobs.                                    *)

\* Provision makes the tenant active, which the model does not read.
LEMMA ProvisionKeeps == ASSUME NEW d, Sound(d), NEW r PROVE Keeps(d, Provision(d, r), {})
<1> DEFINE e == [d EXCEPT !.status = "active"]
<1>1. Alike(d, e)
  BY DEF Sound, Shape, Alike, SameBut, Components, Hidden
<1>2. Keeps(d, e, {})
  BY <1>1, AlikeKeeps
<1>3. Alike(e, recordTenantSchemaMigration(e))
  BY <1>1, Migration, AlikeIs
<1> QED
  BY <1>2, <1>3, KeepsThenAlike DEF Provision

\* A row of links, pivots or navigation options comes or goes, and no options lose a link.
LEMMA RelationKeeps ==
  ASSUME NEW d, Sound(d), NEW e, SameBut(d, e, {"links", "pivots", "navs"}), RowsReferred(e), d.links \subseteq e.links,
         NEW over, over \cap {"createPivot"} = {} /\ PathsResolve(d) => PathsResolve(e)
  PROVE  Keeps(d, e, over)
<1>1. /\ DOMAIN e = Components /\ e.table = d.table /\ e.field = d.field /\ e.enum = d.enum /\ e.options = d.options
      /\ e.contract = d.contract /\ e.phys = d.phys /\ e.uniq = d.uniq
  BY DEF SameBut, Components
<1>2. Rows(d) /\ Rows(e) /\ LiveTables(e) = LiveTables(d)
  BY <1>1, SoundRows DEF Rows, LiveTables
<1>3. ContractsCurrent(e)
  BY <1>1, <1>2, ContractSame DEF Sound
<1>4. OptionsStand(e)
  BY <1>1, OptionsSame DEF Sound
<1>5. /\ Sound(e)
      /\ TablesBuilt(d) => TablesBuilt(e)
      /\ IndexesBuilt(d) => IndexesBuilt(e)
      /\ EnumsFlagged(d) => EnumsFlagged(e)
  BY <1>1, <1>2, <1>3, <1>4, SettingsStep
<1>6. VersionsMove(d, e)
  BY <1>1, <1>2, SameVersions
<1>7. CaptionsResolve(d) => CaptionsResolve(e)
  BY <1>1, CaptionsSame
<1> QED
  BY <1>5, <1>6, <1>7 DEF Keeps

\* CreateLink inserts a link between fields that its foreign keys find live.
LEMMA CreateLinkKeeps == ASSUME NEW d, Sound(d), NEW r, CanCreateLink(d, r) PROVE Keeps(d, CreateLink(d, r), {})
<1> DEFINE e == [d EXCEPT !.links = @ \cup {r.in.id}]
<1>1. SameBut(d, e, {"links", "pivots", "navs"}) /\ e.links = d.links \cup {r.in.id} /\ DOMAIN e = Components
      /\ e.pivots = d.pivots /\ e.navs = d.navs /\ e.field = d.field /\ e.enum = d.enum /\ LiveTables(e) = LiveTables(d)
      /\ e.options = d.options
  BY DEF Sound, Shape, SameBut, Components, LiveTables
<1> HIDE DEF e
<1>2. RowsReferred(e)
  BY <1>1, RelationsSame DEF CanCreateLink, Sound, RowsReferred
<1>3. PathsResolve(d) => PathsResolve(e)
  BY <1>1 DEF PathsResolve
<1>4. Keeps(d, e, {})
  BY <1>1, <1>2, <1>3, RelationKeeps
<1> QED
  BY <1>1, <1>4, Migration, KeepsThenAlike DEF CreateLink, e

\* CreatePivot: the path was read before the transaction; a link of it may be gone.
LEMMA CreatePivotKeeps ==
  ASSUME NEW d, Sound(d), NEW r, CanCreatePivot(d, r)
  PROVE  /\ Keeps(d, CreatePivot(d, r), {"createPivot"})
         /\ MayCreatePivot(d, r.in) => Keeps(d, CreatePivot(d, r), {})
<1> DEFINE e == [d EXCEPT !.pivots = @ \cup {r.in.id}]
<1>1. SameBut(d, e, {"links", "pivots", "navs"}) /\ e.pivots = d.pivots \cup {r.in.id} /\ DOMAIN e = Components
      /\ e.links = d.links /\ e.navs = d.navs /\ e.field = d.field /\ e.enum = d.enum /\ LiveTables(e) = LiveTables(d)
      /\ e.options = d.options
  BY DEF Sound, Shape, SameBut, Components, LiveTables
<1> HIDE DEF e
<1>2. RowsReferred(e)
  BY <1>1, RelationsSame DEF CanCreatePivot, Sound, RowsReferred
<1>3. Keeps(d, e, {"createPivot"})
  BY <1>1, <1>2, RelationKeeps
<1>4. ASSUME MayCreatePivot(d, r.in) PROVE Keeps(d, e, {})
  <2>1. Range(PivotPath[r.in.id]) \subseteq d.links
    <3>1. CASE PivotPath[r.in.id] = <<>>
      BY <3>1 DEF Range
    <3>2. CASE PivotPath[r.in.id] # <<>>
      BY <1>4, <3>2 DEF MayCreatePivot, PathChained
    <3> QED
      BY <3>1, <3>2
  <2>2. PathsResolve(d) => PathsResolve(e)
    BY <1>1, <2>1 DEF PathsResolve
  <2> QED
    BY <1>1, <1>2, <2>2, RelationKeeps
<1> QED
  BY <1>1, <1>3, <1>4, Migration, KeepsThenAlike DEF CreatePivot, e

\* DeletePivot deletes one row that nothing refers to.
LEMMA DeletePivotKeeps == ASSUME NEW d, Sound(d), NEW r PROVE Keeps(d, DeletePivot(d, r), {})
<1> DEFINE e == [d EXCEPT !.pivots = @ \ {r.in.id}]
<1>1. SameBut(d, e, {"links", "pivots", "navs"}) /\ e.pivots = d.pivots \ {r.in.id} /\ DOMAIN e = Components
      /\ e.links = d.links /\ e.navs = d.navs /\ e.field = d.field /\ e.enum = d.enum /\ LiveTables(e) = LiveTables(d)
      /\ e.options = d.options
  BY DEF Sound, Shape, SameBut, Components, LiveTables
<1> HIDE DEF e
<1>2. RowsReferred(e)
  BY <1>1, RelationsSame DEF Sound, RowsReferred
<1>3. PathsResolve(d) => PathsResolve(e)
  BY <1>1 DEF PathsResolve
<1>4. Keeps(d, e, {})
  BY <1>1, <1>2, <1>3, RelationKeeps
<1> QED
  BY <1>1, <1>4, Migration, KeepsThenAlike DEF DeletePivot, e

\* CreateNavigationOption inserts a row between live fields and asks for its index.
LEMMA CreateNavKeeps == ASSUME NEW d, Sound(d), NEW r, CanCreateNav(d, r) PROVE Keeps(d, CreateNav(d, r), {})
<1> DEFINE e == [d EXCEPT !.navs = @ \cup {r.in.id}]
<1>1. SameBut(d, e, {"links", "pivots", "navs"}) /\ e.navs = d.navs \cup {r.in.id} /\ DOMAIN e = Components
      /\ e.links = d.links /\ e.pivots = d.pivots /\ e.field = d.field /\ e.enum = d.enum /\ LiveTables(e) = LiveTables(d)
      /\ e.options = d.options
  BY DEF Sound, Shape, SameBut, Components, LiveTables
<1> HIDE DEF e
<1>2. RowsReferred(e)
  BY <1>1, RelationsSame DEF CanCreateNav, Sound, RowsReferred
<1>3. PathsResolve(d) => PathsResolve(e)
  BY <1>1 DEF PathsResolve
<1>4. Keeps(d, e, {})
  BY <1>1, <1>2, <1>3, RelationKeeps
<1> QED
  BY <1>1, <1>4, EnsureHidden, KeepsThenAlike DEF CreateNav, e

\* DeleteNavigationOption deletes one row that nothing refers to.
LEMMA DeleteNavKeeps == ASSUME NEW d, Sound(d), NEW r PROVE Keeps(d, DeleteNav(d, r), {})
<1> DEFINE e == [d EXCEPT !.navs = @ \ {r.in.id}]
<1>1. SameBut(d, e, {"links", "pivots", "navs"}) /\ e.navs = d.navs \ {r.in.id} /\ DOMAIN e = Components
      /\ e.links = d.links /\ e.pivots = d.pivots /\ e.field = d.field /\ e.enum = d.enum /\ LiveTables(e) = LiveTables(d)
      /\ e.options = d.options
  BY DEF Sound, Shape, SameBut, Components, LiveTables
<1> HIDE DEF e
<1>2. RowsReferred(e)
  BY <1>1, RelationsSame DEF Sound, RowsReferred
<1>3. PathsResolve(d) => PathsResolve(e)
  BY <1>1 DEF PathsResolve
<1>4. Keeps(d, e, {})
  BY <1>1, <1>2, <1>3, RelationKeeps
<1> QED
  BY <1>4 DEF DeleteNav, e

\* Index jobs asked for or retried by hand keep everything.
LEMMA JobsKeep ==
  ASSUME NEW d, Sound(d), NEW r
  PROVE  Keeps(d, CreateJob(d, r), {}) /\ Keeps(d, RetriedJob(d, r), {})
<1>1. Alike(d, CreateJob(d, r)) /\ Alike(d, RetriedJob(d, r))
  BY NewJobHidden, RetryJobHidden, Enqueue DEF CreateJob, RetriedJob, Sound, Shape
<1> QED
  BY <1>1, AlikeKeeps

\* Options that validate_display_options_v1 lets in use live fields and links.
LEMMA ValidStands ==
  ASSUME NEW d, NEW t, validate_display_options(d, t) PROVE OptionStands(d, t)
BY DEF validate_display_options, ColumnValid, OptionStands, ColumnStands

\* A change of options that touches its tables moves their versions.
LEMMA MoveVersions == ASSUME NEW d, Rows(d), NEW e, OptionsMove(d, e) PROVE VersionsMove(d, e)
<1>1. ASSUME NEW t \in LiveTables(d)
      PROVE  e.table[t].version >= d.table[t].version /\ (Settings(e, t) # Settings(d, t) => e.table[t].version > d.table[t].version)
  BY DEF OptionsMove, Settings, OptionsOf
<1> QED
  BY <1>1 DEF VersionsMove

\* What a change of options leaves alone.
LEMMA MoveIs ==
  ASSUME NEW d, NEW e, OptionsMove(d, e)
  PROVE  /\ DOMAIN e = Components
         /\ e.field = d.field /\ e.enum = d.enum /\ e.links = d.links /\ e.pivots = d.pivots
         /\ e.navs = d.navs /\ e.contract = d.contract /\ e.phys = d.phys /\ e.uniq = d.uniq
         /\ LiveTables(e) = LiveTables(d) /\ DOMAIN e.options = DOMAIN d.options
BY DEF OptionsMove, SameBut, Components

\* Two changes in turn keep what both keep.
LEMMA KeepsCompose ==
  ASSUME NEW d, NEW e, NEW g, Sound(d), NEW over, Keeps(d, e, over), Keeps(e, g, over), LiveTables(d) \subseteq LiveTables(e)
  PROVE  Keeps(d, g, over)
<1>1. ASSUME NEW t \in LiveTables(d) \cap LiveTables(g)
      PROVE  g.table[t].version >= d.table[t].version /\ (Settings(g, t) # Settings(d, t) => g.table[t].version > d.table[t].version)
  <2>1. t \in LiveTables(e)
    OBVIOUS
  <2>2. e.table[t].version >= d.table[t].version /\ (Settings(e, t) # Settings(d, t) => e.table[t].version > d.table[t].version)
    BY <2>1 DEF Keeps, VersionsMove
  <2>3. g.table[t].version >= e.table[t].version /\ (Settings(g, t) # Settings(e, t) => g.table[t].version > e.table[t].version)
    BY <2>1 DEF Keeps, VersionsMove
  <2>4. d.table[t].version \in Nat /\ e.table[t].version \in Nat /\ g.table[t].version \in Nat
    BY <2>1 DEF Keeps, Sound, Shape
  <2> QED
    BY <2>2, <2>3, <2>4
<1> QED
  BY <1>1 DEF Keeps, VersionsMove

\* DeleteLink: the pivots were read before the transaction; a new one may use the link.
LEMMA DeleteLinkKeeps ==
  ASSUME NEW d, Sound(d), NEW r, CanDeleteLink(d, r)
  PROVE  /\ Keeps(d, DeleteLink(d, r), {"deleteLink"})
         /\ MayDeleteLink(d, r.in) => Keeps(d, DeleteLink(d, r), {})
<1> DEFINE l == r.in.id
           g == [d EXCEPT !.links = @ \ {l}]
           e == clean_link_display(g, {l})
<1>1. CASE l \notin d.links
  <2>1. DeleteLink(d, r) = recordTenantSchemaMigration(d)
    BY <1>1 DEF DeleteLink
  <2>2. Keeps(d, DeleteLink(d, r), {})
    BY <2>1, Migration, AlikeKeeps DEF Sound, Shape
  <2> QED
    BY <2>2, KeepsMore
<1>2. CASE l \in d.links
  <2>1. SameBut(d, g, {"links"}) /\ g.links = d.links \ {l} /\ DOMAIN g = Components
    BY DEF Sound, Shape, SameBut, Components
  <2>2. DeleteLink(d, r) = recordTenantSchemaMigration(e)
    BY <1>2 DEF DeleteLink, DeleteLinkRow
  <2>3. \A t \in TouchedByLinks(d, {l}) : validate_display_options(e, t)
    BY <1>2 DEF CanDeleteLink, DeleteLinkRow
  <2> HIDE DEF g
  <2>4. /\ g.table = d.table /\ g.field = d.field /\ g.enum = d.enum /\ g.pivots = d.pivots /\ g.navs = d.navs
        /\ g.options = d.options /\ g.contract = d.contract /\ g.phys = d.phys /\ g.uniq = d.uniq
        /\ LiveTables(g) = LiveTables(d)
    BY <2>1 DEF SameBut, Components, LiveTables
  <2>0. Rows(d)
    BY SoundRows
  <2>5. Rows(d) /\ Rows(g)
    BY <2>0, <2>1, <2>4 DEF Rows
  <2>6. TouchedByLinks(g, {l}) = TouchedByLinks(d, {l})
    BY <2>4, Zenon DEF TouchedByLinks
  <2> HIDE DEF e
  <2>7. /\ OptionsMove(g, e) /\ Rows(e)
        /\ \A t \in LiveTables(d) : e.table[t].caption = d.table[t].caption
        /\ \A t \in DOMAIN d.options :
              e.options[t] = IF t \in TouchedByLinks(d, {l}) THEN WithoutLinks(d.options[t], {l}) ELSE d.options[t]
    <3>1. e = clean_link_display(g, {l})
      BY DEF e
    <3>2. /\ OptionsMove(g, e) /\ Rows(e)
          /\ \A t \in LiveTables(g) : e.table[t].caption = g.table[t].caption
          /\ \A t \in DOMAIN g.options :
              e.options[t] = IF t \in TouchedByLinks(g, {l}) THEN WithoutLinks(g.options[t], {l}) ELSE g.options[t]
      BY <2>5, <3>1, LinksCleaned
    <3> QED
      BY <2>4, <2>6, <3>2
  <2>8. /\ DOMAIN e = Components
        /\ e.field = d.field /\ e.enum = d.enum /\ e.links = d.links \ {l} /\ e.pivots = d.pivots
        /\ e.navs = d.navs /\ e.contract = d.contract /\ e.phys = d.phys /\ e.uniq = d.uniq
        /\ LiveTables(e) = LiveTables(d) /\ DOMAIN e.options = DOMAIN d.options
    BY <2>1, <2>4, <2>7, MoveIs
  <2>9. OptionsStand(e)
    <3> SUFFICES ASSUME NEW t \in DOMAIN d.options PROVE OptionStands(e, t)
      BY <2>8 DEF OptionsStand
    <3>1. CASE t \in TouchedByLinks(d, {l})
      BY <2>3, <3>1, ValidStands
    <3>2. CASE t \notin TouchedByLinks(d, {l})
      <4>1. e.options[t] = d.options[t] /\ WithoutLinks(d.options[t], {l}).columns = d.options[t].columns
        BY <2>7, <3>2 DEF TouchedByLinks
      <4>2. \A col \in d.options[t].columns : col.type = "direct" \/ col.link # l
        BY <4>1 DEF WithoutLinks
      <4>3. OptionStands(d, t)
        BY DEF Sound, OptionsStand
      <4>4. \A u : FieldsOf(e, u) = FieldsOf(d, u)
        BY <2>8, FieldsSame
      <4> QED
        BY <2>8, <4>1, <4>2, <4>3, <4>4 DEF OptionStands, ColumnStands
    <3> QED
      BY <3>1, <3>2
  <2>10. ContractsCurrent(e)
    BY <2>8, ContractSame DEF Sound
  <2>11. RowsReferred(e)
    BY <2>8, RelationsSame DEF Sound, RowsReferred
  <2>12. /\ Sound(e)
         /\ TablesBuilt(d) => TablesBuilt(e)
         /\ IndexesBuilt(d) => IndexesBuilt(e)
         /\ EnumsFlagged(d) => EnumsFlagged(e)
    BY <2>7, <2>8, <2>9, <2>10, <2>11, SettingsStep
  <2>13. VersionsMove(d, e)
    <3>1. VersionsMove(g, e)
      BY <2>5, <2>7, MoveVersions
    <3> QED
      BY <2>4, <3>1 DEF VersionsMove, Settings, OptionsOf
  <2>14. CaptionsResolve(d) => CaptionsResolve(e)
    BY <2>7, <2>8, NamedSame DEF CaptionsResolve
  <2>15. Keeps(d, e, {"deleteLink"})
    BY <2>12, <2>13, <2>14 DEF Keeps
  <2>16. MayDeleteLink(d, r.in) => (PathsResolve(d) => PathsResolve(e))
    BY <2>8 DEF MayDeleteLink, PathsResolve
  <2>17. MayDeleteLink(d, r.in) => Keeps(d, e, {})
    BY <2>12, <2>13, <2>14, <2>16 DEF Keeps
  <2>18. Alike(e, recordTenantSchemaMigration(e))
    BY <2>8, Migration
  <2> QED
    BY <2>2, <2>15, <2>17, <2>18, KeepsThenAlike
<1> QED
  BY <1>1, <1>2

-----------------------------------------------------------------------------
(* Display settings and captions.                                          *)

\* A change that is recorded as a migration keeps what the change keeps.
LEMMA KeepsThenMigration ==
  ASSUME NEW d, NEW e, NEW over, Keeps(d, e, over) PROVE Keeps(d, recordTenantSchemaMigration(e), over)
<1>1. DOMAIN e = Components
  BY DEF Keeps, Sound, Shape
<1>2. Alike(e, recordTenantSchemaMigration(e))
  BY <1>1, Migration
<1> QED
  BY <1>2, KeepsThenAlike

\* Options that the trigger has validated are saved with a new version.
LEMMA OptionsSaved ==
  ASSUME NEW d, Sound(d), NEW t \in LiveTables(d), NEW o, DOMAIN o = {"shown", "linked", "columns"},
         validate_display_options(OptionsUpserted(d, t, o), t)
  PROVE  Keeps(d, touch_display_options(OptionsUpserted(d, t, o), {t}), {})
<1> DEFINE g == OptionsUpserted(d, t, o)
           e == touch_display_options(g, {t})
<1>1. /\ SameBut(d, g, {"options"}) /\ DOMAIN g = Components
      /\ DOMAIN g.options = DOMAIN d.options \cup {t} /\ g.options[t] = o
      /\ \A u \in DOMAIN d.options \ {t} : g.options[u] = d.options[u]
  <2>1. SameBut(d, g, {"options"}) /\ DOMAIN g = Components /\ g.options = With(d.options, t, o)
    BY DEF Sound, Shape, SameBut, Components, OptionsUpserted
  <2> HIDE DEF g
  <2> QED
    BY <2>1 DEF With
<1>2. validate_display_options(g, t)
  OBVIOUS
<1> HIDE DEF g
<1>3. VersionsUp(g, e, {t})
  BY <1>1, TouchOptions
<1>4. SameBut(g, e, {"table"}) /\ LiveTables(e) = LiveTables(g)
      /\ \A u \in LiveTables(g) : e.table[u] = IF u = t THEN [g.table[u] EXCEPT !.version = @ + 1] ELSE g.table[u]
  BY <1>3 DEF VersionsUp
<1> HIDE DEF e
<1>5. /\ DOMAIN e = Components /\ g.table = d.table
      /\ e.field = d.field /\ e.enum = d.enum /\ e.links = d.links /\ e.pivots = d.pivots
      /\ e.navs = d.navs /\ e.contract = d.contract /\ e.phys = d.phys /\ e.uniq = d.uniq /\ e.options = g.options
      /\ g.field = d.field /\ g.links = d.links
      /\ LiveTables(e) = LiveTables(d)
  BY <1>1, <1>4 DEF SameBut, Components, LiveTables
<1>6. Rows(d) /\ DOMAIN d.options \subseteq LiveTables(d)
  BY SoundRows DEF Sound, RowsReferred
<1>7. ASSUME NEW u \in LiveTables(d)
      PROVE  /\ DOMAIN e.table[u] = {"caption", "version"} /\ e.table[u].caption = d.table[u].caption
             /\ e.table[u].version = IF u = t THEN d.table[u].version + 1 ELSE d.table[u].version
             /\ d.table[u].version \in Nat
  <2>1. DOMAIN d.table[u] = {"caption", "version"} /\ d.table[u].version \in Nat
    BY <1>6 DEF Rows
  <2>2. e.table[u] = IF u = t THEN [d.table[u] EXCEPT !.version = @ + 1] ELSE d.table[u]
    BY <1>4, <1>5
  <2> QED
    BY <2>1, <2>2
<1>8. Rows(e)
  BY <1>1, <1>5, <1>6, <1>7 DEF Rows
<1>9. OptionsStand(e)
  <2> SUFFICES ASSUME NEW u \in DOMAIN d.options \cup {t} PROVE OptionStands(e, u)
    BY <1>1, <1>5 DEF OptionsStand
  <2>1. \A x : FieldsOf(e, x) = FieldsOf(d, x) /\ FieldsOf(g, x) = FieldsOf(d, x)
    BY <1>5, FieldsSame
  <2>2. CASE u = t
    <3>1. OptionStands(g, t)
      BY <1>2, ValidStands
    <3> QED
      BY <1>5, <2>1, <2>2, <3>1 DEF OptionStands, ColumnStands
  <2>3. CASE u # t
    <3>1. OptionStands(d, u) /\ e.options[u] = d.options[u]
      BY <1>1, <1>5, <2>3 DEF Sound, OptionsStand
    <3> QED
      BY <1>5, <2>1, <3>1 DEF OptionStands, ColumnStands
  <2> QED
    BY <2>2, <2>3
<1>10. ContractsCurrent(e)
  BY <1>5, ContractSame DEF Sound
<1>11. RowsReferred(e)
  <2>1. DOMAIN e.options \subseteq LiveTables(e)
    BY <1>1, <1>5, <1>6
  <2> QED
    BY <1>5, <2>1, RelationsSame DEF Sound
<1>12. /\ Sound(e)
       /\ TablesBuilt(d) => TablesBuilt(e)
       /\ IndexesBuilt(d) => IndexesBuilt(e)
       /\ EnumsFlagged(d) => EnumsFlagged(e)
  BY <1>5, <1>8, <1>9, <1>10, <1>11, SettingsStep
<1>13. VersionsMove(d, e)
  <2> SUFFICES ASSUME NEW u \in LiveTables(d)
               PROVE  e.table[u].version >= d.table[u].version /\ (Settings(e, u) # Settings(d, u) => e.table[u].version > d.table[u].version)
    BY DEF VersionsMove
  <2>1. CASE u = t
    BY <1>7, <2>1
  <2>2. CASE u # t
    <3>1. OptionsOf(e, u) = OptionsOf(d, u)
      BY <1>1, <1>5, <2>2 DEF OptionsOf
    <3> QED
      BY <1>7, <2>2, <3>1 DEF Settings
  <2> QED
    BY <2>1, <2>2
<1>14. CaptionsResolve(d) => CaptionsResolve(e)
  BY <1>5, <1>7, NamedSame DEF CaptionsResolve
<1>15. PathsResolve(d) => PathsResolve(e)
  BY <1>5 DEF PathsResolve
<1> QED
  BY <1>12, <1>13, <1>14, <1>15 DEF Keeps, e, g

\* UpsertTableOptions saves validated options and keeps everything.
LEMMA UpsertOptionsKeeps ==
  ASSUME NEW d, Sound(d), NEW r, CanUpsertOptions(d, r) PROVE Keeps(d, UpsertOptions(d, r), {})
<1> DEFINE o == [OptionsOf(d, r.in.id) EXCEPT !.shown = r.in.shown]
<1>1. DOMAIN OptionsOf(d, r.in.id) = {"shown", "linked", "columns"}
  BY DEF OptionsOf, NoOptions, Sound, Shape
<1>2. DOMAIN o = {"shown", "linked", "columns"} /\ UpsertedOptions(d, r) = OptionsUpserted(d, r.in.id, o)
  BY <1>1 DEF UpsertedOptions
<1> HIDE DEF o
<1>3. Keeps(d, touch_display_options(UpsertedOptions(d, r), {r.in.id}), {})
  BY <1>2, OptionsSaved DEF CanUpsertOptions
<1> QED
  BY <1>3, KeepsThenMigration DEF UpsertOptions

\* A caption of a string field that is live in the transaction keeps everything.
LEMMA SetCaptionKeeps ==
  ASSUME NEW d, Sound(d), NEW t \in LiveTables(d), NEW caption
  PROVE  /\ Keeps(d, SetCaption(d, t, caption), {"updateTable"})
         /\ caption \in {NoCaption, d.table[t].caption} \/ StringFieldNamed(d, t, caption) => Keeps(d, SetCaption(d, t, caption), {})
         /\ LiveTables(SetCaption(d, t, caption)) = LiveTables(d)
<1> DEFINE g == touch_display_caption(d, t, caption)
           h == refresh_ingestion_contract(g, t)
<1>1. /\ SameBut(d, g, {"table"})
      /\ LiveTables(g) = LiveTables(d)
      /\ \A u \in LiveTables(d) \ {t} : g.table[u] = d.table[u]
      /\ DOMAIN g.table[t] = {"caption", "version"} /\ g.table[t].caption = caption
      /\ g.table[t].version = IF d.table[t].caption # caption THEN d.table[t].version + 1 ELSE d.table[t].version
  BY TouchCaption DEF Sound
<1> HIDE DEF g
<1>2. DOMAIN g = Components /\ g.field = d.field /\ g.enum = d.enum /\ g.contract = d.contract
  BY <1>1 DEF SameBut, Components
<1>3. SameBut(g, h, {"contract"}) /\ h.contract = With(g.contract, t, Document(g, t))
  BY <1>1, <1>2, Publish
<1> HIDE DEF h
<1>4. /\ DOMAIN h = Components
      /\ h.field = d.field /\ h.enum = d.enum /\ h.links = d.links /\ h.pivots = d.pivots
      /\ h.navs = d.navs /\ h.phys = d.phys /\ h.uniq = d.uniq /\ h.options = d.options
      /\ h.table = g.table /\ LiveTables(h) = LiveTables(d)
  BY <1>1, <1>3 DEF SameBut, Components, LiveTables
<1>5. h.contract = With(d.contract, t, Document(d, t))
  <2>1. Document(g, t) = Document(d, t)
    BY <1>2, FieldsSame, DocumentSame
  <2> QED
    BY <1>2, <1>3, <2>1
<1>6. ContractsCurrent(h)
  BY <1>4, <1>5, ContractSame DEF Sound
<1>7. Rows(d)
  BY SoundRows
<1>8. ASSUME NEW u \in LiveTables(d)
      PROVE  /\ DOMAIN h.table[u] = {"caption", "version"} /\ h.table[u].version \in Nat
             /\ h.table[u].version >= d.table[u].version
             /\ h.table[u].caption # d.table[u].caption => h.table[u].version > d.table[u].version
             /\ h.table[u].caption = IF u = t THEN caption ELSE d.table[u].caption
  <2>1. DOMAIN d.table[u] = {"caption", "version"} /\ d.table[u].version \in Nat
    BY <1>7 DEF Rows
  <2>2. CASE u = t
    BY <1>1, <1>4, <2>1, <2>2
  <2>3. CASE u # t
    BY <1>1, <1>4, <2>1, <2>3
  <2> QED
    BY <2>2, <2>3
<1>9. Rows(h)
  BY <1>4, <1>7, <1>8 DEF Rows
<1>10. OptionsStand(h)
  BY <1>4, OptionsSame DEF Sound
<1>11. RowsReferred(h)
  BY <1>4, RelationsSame DEF Sound, RowsReferred
<1>12. /\ Sound(h)
       /\ TablesBuilt(d) => TablesBuilt(h)
       /\ IndexesBuilt(d) => IndexesBuilt(h)
       /\ EnumsFlagged(d) => EnumsFlagged(h)
  BY <1>4, <1>6, <1>9, <1>10, <1>11, SettingsStep
<1>13. VersionsMove(d, h)
  BY <1>4, <1>8 DEF VersionsMove, Settings, OptionsOf
<1>14. PathsResolve(d) => PathsResolve(h)
  BY <1>4 DEF PathsResolve
<1>15. ASSUME caption \in {NoCaption, d.table[t].caption} \/ StringFieldNamed(d, t, caption), CaptionsResolve(d)
       PROVE  CaptionsResolve(h)
  <2> SUFFICES ASSUME NEW u \in LiveTables(d), h.table[u].caption # NoCaption PROVE StringFieldNamed(h, u, h.table[u].caption)
    BY <1>4 DEF CaptionsResolve
  <2>1. h.table[u].caption = d.table[u].caption \/ (u = t /\ StringFieldNamed(d, t, h.table[u].caption))
    BY <1>8, <1>15
  <2>2. StringFieldNamed(d, u, h.table[u].caption)
    BY <1>15, <2>1 DEF CaptionsResolve
  <2> QED
    BY <1>4, <2>2, NamedSame
<1>16. Keeps(d, h, {"updateTable"})
  BY <1>12, <1>13, <1>14 DEF Keeps
<1>17. caption \in {NoCaption, d.table[t].caption} \/ StringFieldNamed(d, t, caption) => Keeps(d, h, {})
  BY <1>12, <1>13, <1>14, <1>15 DEF Keeps
<1>18. SetCaption(d, t, caption) = IF caption = NoCaption THEN h ELSE ensureManagedIndexJobTx(h, SearchKey(t, caption))
  BY DEF SetCaption, h, g
<1>19. Alike(h, SetCaption(d, t, caption))
  <2>1. Alike(h, h)
    BY <1>4 DEF Alike, SameBut
  <2> QED
    BY <1>4, <1>18, <2>1, EnsureHidden
<1>20. LiveTables(SetCaption(d, t, caption)) = LiveTables(d)
  BY <1>4, <1>19, AlikeIs DEF LiveTables
<1> QED
  BY <1>16, <1>17, <1>19, <1>20, KeepsThenAlike

\* SaveDisplaySettings checks the caption and the options in its transaction.
LEMMA SaveDisplayKeeps ==
  ASSUME NEW d, Sound(d), NEW r, CanSaveDisplay(d, r) PROVE Keeps(d, SaveDisplay(d, r), {})
<1> DEFINE t == r.in.id
           e == SetCaption(d, t, r.in.caption)
           o == [shown |-> IF r.in.columns # {} /\ r.in.shown = {} THEN DirectFields(r.in.columns) ELSE r.in.shown,
                 linked |-> r.in.linked, columns |-> r.in.columns]
<1>1. t \in LiveTables(d) /\ validate_display_options(SavedDisplay(d, r), t)
  BY DEF CanSaveDisplay
<1>2. r.in.caption = NoCaption \/ StringFieldNamed(d, t, r.in.caption)
  BY DEF CanSaveDisplay, validate
<1>3. Keeps(d, e, {}) /\ LiveTables(e) = LiveTables(d)
  BY <1>1, <1>2, SetCaptionKeeps
<1>4. SavedDisplay(d, r) = OptionsUpserted(e, t, o)
  BY DEF SavedDisplay
<1>5. DOMAIN o = {"shown", "linked", "columns"}
  OBVIOUS
<1> HIDE DEF e, o
<1>6. Keeps(e, touch_display_options(OptionsUpserted(e, t, o), {t}), {})
  <2>1. Sound(e)
    BY <1>3 DEF Keeps
  <2> QED
    BY <1>1, <1>3, <1>4, <1>5, <2>1, OptionsSaved
<1>7. Keeps(d, touch_display_options(OptionsUpserted(e, t, o), {t}), {})
  BY <1>3, <1>6, KeepsCompose
<1> QED
  BY <1>4, <1>7 DEF SaveDisplay

\* UpdateTable: the caption was checked before the transaction; its field may be gone.
LEMMA UpdateTableKeeps ==
  ASSUME NEW d, Sound(d), NEW r
  PROVE  /\ Keeps(d, UpdateTable(d, r), {"updateTable"})
         /\ MayUpdateTable(d, r.in) /\ r.row = UpdatedTable(d, r.in) => Keeps(d, UpdateTable(d, r), {})
<1>1. CASE r.in.id \in LiveTables(d)
  <2>1. UpdateTable(d, r) = SetCaption(d, r.in.id, r.row)
    BY <1>1 DEF UpdateTable
  <2>2. ASSUME MayUpdateTable(d, r.in), r.row = UpdatedTable(d, r.in)
        PROVE  r.row \in {NoCaption, d.table[r.in.id].caption} \/ StringFieldNamed(d, r.in.id, r.row)
    BY <2>2 DEF MayUpdateTable, UpdatedTable
  <2> QED
    BY <1>1, <2>1, <2>2, SetCaptionKeeps
<1>2. CASE r.in.id \notin LiveTables(d)
  <2>1. UpdateTable(d, r) = d /\ Alike(d, d)
    BY <1>2 DEF UpdateTable, Alike, SameBut, Sound, Shape
  <2> QED
    BY <2>1, AlikeKeeps, KeepsMore
<1> QED
  BY <1>1, <1>2

-----------------------------------------------------------------------------
(* Fields and enum values.                                                 *)

\* A change that adds tables or fields, or edits fields, and publishes the contracts.
LEMMA SchemaStep ==
  ASSUME NEW d, Sound(d), NEW e, DOMAIN e = Components,
         LiveTables(d) \subseteq LiveTables(e), \A t \in LiveTables(d) : e.table[t] = d.table[t],
         LiveTables(e) \subseteq TableIds,
         \A t \in LiveTables(e) \ LiveTables(d) :
           DOMAIN e.table[t] = {"caption", "version"} /\ e.table[t].version \in Nat /\ e.table[t].caption = NoCaption,
         e.options = d.options, e.links = d.links, e.pivots = d.pivots, e.navs = d.navs,
         LiveFields(d) \subseteq LiveFields(e), LiveFields(e) \subseteq FieldIds,
         \A f \in LiveFields(e) : e.field[f] \in [enum : BOOLEAN, unique : BOOLEAN] /\ FieldTable[f] \in LiveTables(e),
         \A x \in DOMAIN e.enum : EnumField[x] \in LiveFields(e),
         NamesUnique(e), DefaultsLive(e), ContractsCurrent(e)
  PROVE  /\ Sound(e) /\ VersionsMove(d, e)
         /\ PathsResolve(d) => PathsResolve(e)
         /\ CaptionsResolve(d) => CaptionsResolve(e)
<1>1. Shape(e)
  <2>1. \A t \in LiveTables(e) : DOMAIN e.table[t] = {"caption", "version"} /\ e.table[t].version \in Nat
    BY DEF Sound, Shape
  <2>2. \A t \in DOMAIN e.options : DOMAIN e.options[t] = {"shown", "linked", "columns"}
    BY DEF Sound, Shape
  <2> QED
    BY <2>1, <2>2 DEF Shape
<1>2. RowsReferred(e)
  BY DEF Sound, RowsReferred
<1>3. \A t : FieldsOf(d, t) \subseteq FieldsOf(e, t)
  BY DEF FieldsOf
<1>4. OptionsStand(e)
  BY <1>3 DEF Sound, OptionsStand, OptionStands, ColumnStands
<1>5. Sound(e)
  BY <1>1, <1>2, <1>4 DEF Sound
<1>6. VersionsMove(d, e)
  <2>1. Rows(d)
    BY SoundRows
  <2> QED
    BY <2>1 DEF VersionsMove, Settings, OptionsOf, Rows
<1>7. PathsResolve(d) => PathsResolve(e)
  BY DEF PathsResolve
<1>8. \A t, name : StringFieldNamed(d, t, name) => StringFieldNamed(e, t, name)
  BY <1>3 DEF StringFieldNamed, findTableFieldByName
<1>9. CaptionsResolve(d) => CaptionsResolve(e)
  BY <1>8 DEF CaptionsResolve
<1> QED
  BY <1>5, <1>6, <1>7, <1>9

\* A change that concerns one table is published.
LEMMA Published ==
  ASSUME NEW d, ContractsCurrent(d), NEW e, DOMAIN e = Components, NEW t \in LiveTables(e),
         LiveTables(e) = LiveTables(d) \cup {t}, e.contract = d.contract,
         \A u \in LiveTables(d) \ {t} : Document(e, u) = Document(d, u)
  PROVE  ContractsCurrent(refresh_ingestion_contract(e, t)) /\ SameBut(e, refresh_ingestion_contract(e, t), {"contract"})
<1> DEFINE g == refresh_ingestion_contract(e, t)
<1>1. SameBut(e, g, {"contract"}) /\ g.contract = With(e.contract, t, Document(e, t))
  BY Publish
<1> HIDE DEF g
<1>2. g.field = e.field /\ g.enum = e.enum /\ LiveTables(g) = LiveTables(e)
  BY <1>1 DEF SameBut, Components, LiveTables
<1>3. \A u : Document(g, u) = Document(e, u)
  BY <1>2, FieldsSame, DocumentSame
<1>4. DOMAIN d.contract = LiveTables(d) /\ \A u \in LiveTables(d) : d.contract[u] = Document(d, u)
  BY DEF ContractsCurrent
<1>5. DOMAIN g.contract = DOMAIN d.contract \cup {t} /\ g.contract[t] = Document(e, t)
      /\ \A u \in DOMAIN d.contract \ {t} : g.contract[u] = d.contract[u]
  BY <1>1 DEF With
<1>6. ASSUME NEW u \in LiveTables(g) PROVE g.contract[u] = Document(g, u)
  <2>1. CASE u = t
    BY <1>3, <1>5, <2>1
  <2>2. CASE u # t
    <3>1. u \in LiveTables(d)
      BY <1>2, <2>2
    <3>2. g.contract[u] = d.contract[u] /\ d.contract[u] = Document(d, u) /\ Document(e, u) = Document(d, u)
      BY <1>4, <1>5, <2>2, <3>1
    <3> QED
      BY <1>3, <3>2
  <2> QED
    BY <2>1, <2>2
<1>7. DOMAIN g.contract = LiveTables(g)
  BY <1>2, <1>4, <1>5
<1> QED
  BY <1>1, <1>6, <1>7 DEF ContractsCurrent, g

\* A change of one enum value, published with the table of its field.
LEMMA EnumKeeps ==
  ASSUME NEW d, Sound(d), NEW x, NEW enums, NEW e, SameBut(d, e, {"enum"}), e.enum = enums,
         \A y : y # x => (y \in DOMAIN enums <=> y \in DOMAIN d.enum) /\ (y \in DOMAIN d.enum => enums[y] = d.enum[y]),
         x \in DOMAIN enums => EnumField[x] \in LiveFields(d),
         NEW over,
         over \cap {"createEnum", "updateField"} = {} /\ EnumsFlagged(d) /\ x \in DOMAIN enums => d.field[EnumField[x]].enum
  PROVE  Keeps(d, PublishEnum(e, x), over)
<1> DEFINE t == FieldTable[EnumField[x]]
           g == IF EnumField[x] \in LiveFields(e) THEN refresh_ingestion_contract(e, t) ELSE e
<1>1. SameBut(d, e, {"enum"}) /\ e.enum = enums /\ DOMAIN e = Components
  BY DEF SameBut
<1>2. /\ e.table = d.table /\ e.field = d.field /\ e.links = d.links /\ e.pivots = d.pivots /\ e.navs = d.navs
      /\ e.options = d.options /\ e.contract = d.contract /\ e.phys = d.phys /\ e.uniq = d.uniq
      /\ LiveTables(e) = LiveTables(d) /\ LiveFields(e) = LiveFields(d) /\ \A u : FieldsOf(e, u) = FieldsOf(d, u)
  BY <1>1 DEF SameBut, Components, LiveTables, LiveFields, FieldsOf
<1>3. ASSUME NEW u, EnumField[x] \notin FieldsOf(d, u) PROVE Document(e, u) = Document(d, u)
  <2>1. \A f \in FieldsOf(d, u) : \A y : EnumField[y] = f =>
            (y \in DOMAIN e.enum <=> y \in DOMAIN d.enum) /\ (y \in DOMAIN d.enum => e.enum[y] = d.enum[y])
    BY <1>1, <1>3
  <2> QED
    BY <1>2, <2>1, DocumentSame
<1>4. ContractsCurrent(g) /\ SameBut(e, g, {"contract"})
  <2>1. CASE EnumField[x] \in LiveFields(d)
    <3>1. t \in LiveTables(e)
      BY <1>2, <2>1 DEF Sound, RowsReferred
    <3>2. \A u \in LiveTables(d) \ {t} : Document(e, u) = Document(d, u)
      BY <1>3 DEF FieldsOf
    <3>3. g = refresh_ingestion_contract(e, t)
      BY <1>2, <2>1
    <3>4. LiveTables(e) = LiveTables(d) \cup {t}
      BY <1>2, <3>1
    <3> QED
      BY <1>1, <1>2, <3>1, <3>2, <3>3, <3>4, Published DEF Sound
  <2>2. CASE EnumField[x] \notin LiveFields(d)
    <3>1. g = e
      BY <1>2, <2>2
    <3>2. \A u : Document(e, u) = Document(d, u)
      BY <1>3, <2>2 DEF FieldsOf
    <3>3. ContractsCurrent(e)
      BY <1>2, <3>2 DEF ContractsCurrent, Sound
    <3> QED
      BY <1>1, <3>1, <3>3 DEF SameBut
  <2> QED
    BY <2>1, <2>2
<1> HIDE DEF g
<1>5. /\ DOMAIN g = Components
      /\ g.table = d.table /\ g.field = d.field /\ g.links = d.links /\ g.pivots = d.pivots /\ g.navs = d.navs
      /\ g.options = d.options /\ g.enum = enums /\ g.phys = d.phys /\ g.uniq = d.uniq
      /\ LiveTables(g) = LiveTables(d) /\ LiveFields(g) = LiveFields(d)
  BY <1>1, <1>2, <1>4 DEF SameBut, Components, LiveTables, LiveFields
<1>6. \A y \in DOMAIN g.enum : EnumField[y] \in LiveFields(g)
  BY <1>5 DEF Sound, RowsReferred
<1>7. NamesUnique(g) /\ DefaultsLive(g)
  BY <1>5 DEF Sound, NamesUnique, DefaultsLive
<1>8. /\ Sound(g) /\ VersionsMove(d, g)
      /\ PathsResolve(d) => PathsResolve(g)
      /\ CaptionsResolve(d) => CaptionsResolve(g)
  BY <1>4, <1>5, <1>6, <1>7, SchemaStep DEF Sound, Shape, RowsReferred
<1>9. (TablesBuilt(d) => TablesBuilt(g)) /\ (IndexesBuilt(d) => IndexesBuilt(g))
  BY <1>5, NamedSame DEF TablesBuilt, IndexesBuilt
<1>10. over \cap {"createEnum", "updateField"} = {} /\ EnumsFlagged(d) => EnumsFlagged(g)
  BY <1>5 DEF EnumsFlagged
<1>11. Keeps(d, g, over)
  BY <1>8, <1>9, <1>10 DEF Keeps
<1>12. PublishEnum(e, x) = recordTenantSchemaMigration(g)
  BY DEF PublishEnum, g
<1> QED
  BY <1>11, <1>12, KeepsThenMigration

\* A row of one enum value touches no other.
LEMMA EnumRow ==
  ASSUME NEW d, Sound(d), NEW enums
  PROVE  SameBut(d, [d EXCEPT !.enum = enums], {"enum"}) /\ [d EXCEPT !.enum = enums].enum = enums
BY DEF Sound, Shape, SameBut, Components

\* CreateEnumValue: the flag of the field was read before the transaction.
LEMMA CreateEnumKeeps ==
  ASSUME NEW d, Sound(d), NEW r, CanCreateEnum(d, r)
  PROVE  /\ Keeps(d, CreateEnum(d, r), {"createEnum"})
         /\ MayCreateEnum(d, r.in) => Keeps(d, CreateEnum(d, r), {})
<1> DEFINE x == r.in.id
           enums == With(d.enum, x, r.in.value)
           e == [d EXCEPT !.enum = enums]
<1>1. \A y : y # x => (y \in DOMAIN enums <=> y \in DOMAIN d.enum) /\ (y \in DOMAIN d.enum => enums[y] = d.enum[y])
  BY DEF With
<1>2. EnumField[x] \in LiveFields(d)
  BY DEF CanCreateEnum
<1>3. CreateEnum(d, r) = PublishEnum(e, x)
  BY DEF CreateEnum
<1>4. SameBut(d, e, {"enum"}) /\ e.enum = enums
  BY EnumRow
<1> HIDE DEF enums, e, x
<1>5. Keeps(d, PublishEnum(e, x), {"createEnum"})
  BY <1>1, <1>2, <1>4, EnumKeeps
<1>6. ASSUME MayCreateEnum(d, r.in) PROVE Keeps(d, PublishEnum(e, x), {})
  <2>1. d.field[EnumField[x]].enum
    BY <1>6 DEF MayCreateEnum, x
  <2> QED
    BY <1>1, <1>2, <1>4, <2>1, EnumKeeps
<1> QED
  BY <1>3, <1>5, <1>6

\* UpdateEnumValue changes a value and keeps the flag.
LEMMA UpdateEnumKeeps ==
  ASSUME NEW d, Sound(d), NEW r PROVE Keeps(d, UpdateEnum(d, r), {})
<1> DEFINE x == r.in.id
<1>1. CASE x \in DOMAIN d.enum
  <2> DEFINE enums == [d.enum EXCEPT ![x] = r.in.value]
             e == [d EXCEPT !.enum = enums]
  <2>1. \A y : y # x => (y \in DOMAIN enums <=> y \in DOMAIN d.enum) /\ (y \in DOMAIN d.enum => enums[y] = d.enum[y])
    OBVIOUS
  <2>2. UpdateEnum(d, r) = PublishEnum(e, x)
    BY <1>1 DEF UpdateEnum
  <2>3. EnumField[x] \in LiveFields(d) /\ (EnumsFlagged(d) => d.field[EnumField[x]].enum)
    BY <1>1 DEF Sound, RowsReferred, EnumsFlagged
  <2>4. SameBut(d, e, {"enum"}) /\ e.enum = enums
    BY EnumRow
  <2> HIDE DEF enums, e, x
  <2>5. Keeps(d, PublishEnum(e, x), {})
    BY <2>1, <2>3, <2>4, EnumKeeps
  <2> QED
    BY <2>2, <2>5
<1>2. CASE x \notin DOMAIN d.enum
  <2>1. UpdateEnum(d, r) = PublishEnum(d, x)
    BY <1>2 DEF UpdateEnum
  <2>2. SameBut(d, d, {"enum"})
    BY DEF Sound, Shape, SameBut
  <2> HIDE DEF x
  <2>3. Keeps(d, PublishEnum(d, x), {})
    <3> DEFINE enums == d.enum
    <3>1. \A y : y # x => (y \in DOMAIN enums <=> y \in DOMAIN d.enum) /\ (y \in DOMAIN d.enum => enums[y] = d.enum[y])
      OBVIOUS
    <3>2. x \notin DOMAIN enums /\ d.enum = enums
      BY <1>2
    <3> HIDE DEF enums
    <3> QED
      BY <2>2, <3>1, <3>2, EnumKeeps
  <2> QED
    BY <2>1, <2>3
<1> QED
  BY <1>1, <1>2

\* DeleteEnumValue deletes one value.
LEMMA DeleteEnumKeeps ==
  ASSUME NEW d, Sound(d), NEW r PROVE Keeps(d, DeleteEnum(d, r), {})
<1> DEFINE x == r.in.id
           enums == Without(d.enum, {x})
           e == [d EXCEPT !.enum = enums]
<1>1. \A y : y # x => (y \in DOMAIN enums <=> y \in DOMAIN d.enum) /\ (y \in DOMAIN d.enum => enums[y] = d.enum[y])
  BY DEF Without, Restrict
<1>2. x \notin DOMAIN enums
  BY DEF Without, Restrict
<1>3. DeleteEnum(d, r) = PublishEnum(e, x)
  BY DEF DeleteEnum
<1>4. SameBut(d, e, {"enum"}) /\ e.enum = enums
  BY EnumRow
<1> HIDE DEF enums, e, x
<1>5. Keeps(d, PublishEnum(e, x), {})
  BY <1>1, <1>2, <1>4, EnumKeeps
<1> QED
  BY <1>3, <1>5

\* The flags of a field, and the index of a unique one.
Flags == [enum : BOOLEAN, unique : BOOLEAN]
Index(f) == [table |-> NameOf(f), column |-> FieldName[f]]

\* The unique indexes there should be: one per live field flagged unique.
LEMMA IndexesAre ==
  ASSUME NEW d PROVE UniqueColumns(d) = {Index(f) : f \in {x \in LiveFields(d) : d.field[x].unique}}
BY DEF UniqueColumns, Index

\* Two live fields never share a column.
LEMMA IndexesDiffer ==
  ASSUME NEW d, Sound(d), NEW f \in LiveFields(d), NEW g \in LiveFields(d), Index(f) = Index(g) PROVE f = g
<1>1. TableName[FieldTable[f]] = TableName[FieldTable[g]] /\ FieldName[f] = FieldName[g]
  BY DEF Index, NameOf
<1>2. FieldTable[f] \in LiveTables(d) /\ FieldTable[g] \in LiveTables(d)
  BY DEF Sound, RowsReferred
<1> QED
  BY <1>1, <1>2 DEF Sound, NamesUnique

\* UpdateField: the row was read before the transaction, which writes both its flags
\* and creates or drops the index that the request changes.
LEMMA UpdateFieldKeeps ==
  ASSUME NEW d, Sound(d), NEW r, {r.row.enum, r.row.unique} \subseteq BOOLEAN
  PROVE  /\ Keeps(d, UpdateField(d, r), {"updateField"})
         /\ MayUpdateField(d, r.in) /\ r.row = UpdatedField(d, r.in) => Keeps(d, UpdateField(d, r), {})
<1> DEFINE f == r.in.id
           t == FieldTable[f]
           row == [enum |-> r.row.enum, unique |-> r.row.unique]
           d1 == IF f \in LiveFields(d) THEN [d EXCEPT !.field[f] = row] ELSE d
           d2 == IF r.row.unique = r.row.previousUnique THEN d1
                 ELSE IF r.row.unique THEN CreateUniqueIndex(d1, NameOf(f), FieldName[f])
                 ELSE DropUniqueIndex(d1, NameOf(f), FieldName[f])
           e == refresh_ingestion_contract(d2, t)
<1>1. DOMAIN d = Components
  BY DEF Sound, Shape
<1>2. /\ SameBut(d, d1, {"field"}) /\ LiveFields(d1) = LiveFields(d)
      /\ \A g \in LiveFields(d) : d1.field[g] = IF g = f THEN row ELSE d.field[g]
  <2>1. CASE f \in LiveFields(d)
    <3>1. SameBut(d, d1, {"field"}) /\ d1.field = [d.field EXCEPT ![f] = row]
      BY <1>1, <2>1 DEF SameBut, Components
    <3> HIDE DEF d1, row
    <3> QED
      BY <2>1, <3>1 DEF LiveFields
  <2>2. CASE f \notin LiveFields(d)
    BY <1>1, <2>2 DEF SameBut
  <2> QED
    BY <2>1, <2>2
<1> HIDE DEF d1
<1>3. /\ SameBut(d1, d2, {"uniq"})
      /\ d2.uniq = IF r.row.unique = r.row.previousUnique THEN d1.uniq
                   ELSE IF r.row.unique THEN d1.uniq \cup {Index(f)} ELSE d1.uniq \ {Index(f)}
  BY <1>1, <1>2 DEF SameBut, Components, CreateUniqueIndex, DropUniqueIndex, Index
<1> HIDE DEF d2
<1>4. /\ DOMAIN d2 = Components /\ d2.field = d1.field
      /\ d2.table = d.table /\ d2.enum = d.enum /\ d2.links = d.links /\ d2.pivots = d.pivots /\ d2.navs = d.navs
      /\ d2.options = d.options /\ d2.contract = d.contract /\ d2.phys = d.phys /\ d1.uniq = d.uniq
      /\ LiveTables(d2) = LiveTables(d) /\ LiveFields(d2) = LiveFields(d) /\ \A u : FieldsOf(d2, u) = FieldsOf(d, u)
  BY <1>2, <1>3 DEF SameBut, Components, LiveTables, LiveFields, FieldsOf
<1>5. ASSUME NEW u \in LiveTables(d), f \notin FieldsOf(d, u) PROVE Document(d2, u) = Document(d, u)
  <2>1. \A g \in FieldsOf(d, u) : d2.field[g] = d.field[g]
    BY <1>2, <1>4, <1>5 DEF FieldsOf
  <2> QED
    BY <1>4, <2>1, DocumentSame
<1>6. ContractsCurrent(e) /\ SameBut(d2, e, {"contract"})
  <2>1. CASE t \in LiveTables(d)
    <3>1. \A u \in LiveTables(d) \ {t} : Document(d2, u) = Document(d, u)
      BY <1>5 DEF FieldsOf
    <3>2. LiveTables(d2) = LiveTables(d) \cup {t}
      BY <1>4, <2>1
    <3> QED
      BY <1>4, <2>1, <3>1, <3>2, Published DEF Sound
  <2>2. CASE t \notin LiveTables(d)
    <3>1. SameBut(d2, e, {"contract"}) /\ e.contract = d2.contract
      BY <1>4, <2>2, Publish
    <3> HIDE DEF e
    <3>2. e.field = d2.field /\ e.enum = d2.enum /\ LiveTables(e) = LiveTables(d2)
      BY <3>1 DEF SameBut, Components, LiveTables
    <3>3. \A u : Document(e, u) = Document(d2, u)
      BY <3>2, FieldsSame, DocumentSame
    <3>4. \A u \in LiveTables(d) : Document(d2, u) = Document(d, u)
      BY <1>5, <2>2 DEF FieldsOf
    <3> QED
      BY <1>4, <3>1, <3>2, <3>3, <3>4 DEF ContractsCurrent, Sound
  <2> QED
    BY <2>1, <2>2
<1> HIDE DEF e
<1>7. /\ DOMAIN e = Components
      /\ e.table = d.table /\ e.field = d1.field /\ e.links = d.links /\ e.pivots = d.pivots /\ e.navs = d.navs
      /\ e.options = d.options /\ e.enum = d.enum /\ e.phys = d.phys /\ e.uniq = d2.uniq
      /\ LiveTables(e) = LiveTables(d) /\ LiveFields(e) = LiveFields(d)
  BY <1>4, <1>6 DEF SameBut, Components, LiveTables, LiveFields
<1>8. \A g \in LiveFields(e) : e.field[g] \in Flags
  <2>1. row \in Flags
    BY DEF Flags
  <2>2. \A g \in LiveFields(d) : d.field[g] \in Flags
    BY DEF Sound, Shape, Flags
  <2> HIDE DEF row
  <2> QED
    BY <1>2, <1>7, <2>1, <2>2
<1>9. NamesUnique(e) /\ DefaultsLive(e)
  BY <1>7 DEF Sound, NamesUnique, DefaultsLive
<1>10. /\ Sound(e) /\ VersionsMove(d, e)
       /\ PathsResolve(d) => PathsResolve(e)
       /\ CaptionsResolve(d) => CaptionsResolve(e)
  BY <1>6, <1>7, <1>8, <1>9, SchemaStep DEF Sound, Shape, RowsReferred, Flags
<1>11. TablesBuilt(d) => TablesBuilt(e)
  <2>1. \A u : Columns(e, u) = Columns(d, u)
    BY <1>7 DEF Columns, FieldsOf
  <2> QED
    BY <1>7, <2>1 DEF TablesBuilt
<1>12. Keeps(d, e, {"updateField"})
  BY <1>10, <1>11 DEF Keeps
<1>13. ASSUME MayUpdateField(d, r.in), r.row = UpdatedField(d, r.in)
       PROVE  Keeps(d, e, {})
  <2>1. f \in LiveFields(d) /\ r.row.previousUnique = d.field[f].unique /\ d.field[f].unique \in BOOLEAN
    BY <1>13 DEF MayUpdateField, UpdatedField, Sound, Shape
  <2>2. ASSUME IndexesBuilt(d) PROVE IndexesBuilt(e)
    <3>1. d.uniq = {Index(g) : g \in {x \in LiveFields(d) : d.field[x].unique}}
      BY <2>2, IndexesAre DEF IndexesBuilt
    <3>2. UniqueColumns(e) = {Index(g) : g \in {x \in LiveFields(d) : (IF x = f THEN r.row.unique ELSE d.field[x].unique)}}
      <4>1. \A x \in LiveFields(d) : e.field[x].unique = IF x = f THEN r.row.unique ELSE d.field[x].unique
        BY <1>2, <1>7
      <4> QED
        BY <1>7, <4>1, IndexesAre
    <3>3. CASE r.row.unique = r.row.previousUnique
      <4>1. {x \in LiveFields(d) : (IF x = f THEN r.row.unique ELSE d.field[x].unique)} = {x \in LiveFields(d) : d.field[x].unique}
        BY <2>1, <3>3
      <4> QED
        BY <1>3, <1>4, <1>7, <3>1, <3>2, <3>3, <4>1 DEF IndexesBuilt
    <3>4. CASE r.row.unique /\ r.row.unique # r.row.previousUnique
      <4>1. {x \in LiveFields(d) : (IF x = f THEN r.row.unique ELSE d.field[x].unique)} = {x \in LiveFields(d) : d.field[x].unique} \cup {f}
        BY <2>1, <3>4
      <4>2. e.uniq = d.uniq \cup {Index(f)}
        BY <1>3, <1>4, <1>7, <3>4
      <4> QED
        BY <3>1, <3>2, <4>1, <4>2 DEF IndexesBuilt
    <3>5. CASE ~r.row.unique /\ r.row.unique # r.row.previousUnique
      <4>1. {x \in LiveFields(d) : (IF x = f THEN r.row.unique ELSE d.field[x].unique)} = {x \in LiveFields(d) : d.field[x].unique} \ {f}
        BY <2>1, <3>5
      <4>2. e.uniq = d.uniq \ {Index(f)}
        BY <1>3, <1>4, <1>7, <3>5
      <4>3. \A g \in LiveFields(d) : Index(g) = Index(f) => g = f
        BY <2>1, IndexesDiffer
      <4> QED
        BY <3>1, <3>2, <4>1, <4>2, <4>3 DEF IndexesBuilt
    <3> QED
      BY <3>3, <3>4, <3>5
  <2>3. ASSUME EnumsFlagged(d) PROVE EnumsFlagged(e)
    <3> SUFFICES ASSUME NEW x \in DOMAIN d.enum PROVE e.field[EnumField[x]].enum
      BY <1>7 DEF EnumsFlagged
    <3>1. EnumField[x] \in LiveFields(d) /\ d.field[EnumField[x]].enum
      BY <2>3 DEF Sound, RowsReferred, EnumsFlagged
    <3>2. CASE EnumField[x] # f
      BY <1>2, <1>7, <3>1, <3>2
    <3>3. CASE EnumField[x] = f
      <4>1. r.row.enum
        <5>1. EnumRows(d, f) # {}
          BY <3>3 DEF EnumRows
        <5>2. ~(r.in.enum = FALSE)
          BY <1>13, <3>1, <3>3, <5>1 DEF MayUpdateField
        <5>3. r.row.enum \in BOOLEAN /\ r.row.enum = IF r.in.enum = Unset THEN d.field[f].enum ELSE r.in.enum
          BY <1>13 DEF UpdatedField, Choose
        <5> QED
          BY <3>1, <3>3, <5>2, <5>3
      <4> QED
        BY <1>2, <1>7, <3>1, <3>3, <4>1
    <3> QED
      BY <3>2, <3>3
  <2> QED
    BY <1>10, <1>11, <2>2, <2>3 DEF Keeps
<1>14. UpdateField(d, r) = recordTenantSchemaMigration(e)
  BY DEF UpdateField, e, d2, d1
<1> QED
  BY <1>12, <1>13, <1>14, KeepsThenMigration

\* CreateField adds the column, its index and its enum values in one transaction.
LEMMA CreateFieldKeeps ==
  ASSUME NEW d, Sound(d), NEW r, WellFormed(r.in), r.in.op = "createField",
         DOMAIN r.in.seeds # {} => r.in.enum,
         CanCreateField(d, r)
  PROVE  Keeps(d, CreateField(d, r), {})
<1> DEFINE f == r.in.id
           t == FieldTable[f]
           row == [enum |-> r.in.enum, unique |-> r.in.unique]
           d1 == [d EXCEPT !.field = With(@, f, row), !.phys[NameOf(f)] = @ \cup {FieldName[f]}, !.enum = Merge(r.in.seeds, @)]
           d2 == IF r.in.unique THEN CreateUniqueIndex(d1, NameOf(f), FieldName[f]) ELSE d1
           e == refresh_ingestion_contract(d2, t)
<1>1. DOMAIN d = Components
  BY DEF Sound, Shape
<1>2. /\ f \in FieldIds /\ {r.in.enum, r.in.unique} \subseteq BOOLEAN /\ \A x \in DOMAIN r.in.seeds : EnumField[x] = f
      /\ t \in LiveTables(d) /\ NameOf(f) \in DOMAIN d.phys
      /\ \A g \in LiveFields(d) : FieldTable[g] = t => FieldName[g] # FieldName[f]
  <2>1. f \in FieldIds /\ {r.in.enum, r.in.unique} \subseteq BOOLEAN /\ \A x \in DOMAIN r.in.seeds : EnumField[x] = f
    BY DEF WellFormed
  <2>2. t \in LiveTables(d) /\ NameOf(f) \in DOMAIN d.phys /\ findTableFieldByName(d, t, FieldName[f]) = {}
    BY DEF CanCreateField
  <2>3. \A g \in LiveFields(d) : FieldTable[g] = t => FieldName[g] # FieldName[f]
    BY <2>2 DEF findTableFieldByName, FieldsOf
  <2> QED
    BY <2>1, <2>2, <2>3
<1>3. f \notin LiveFields(d)
  BY <1>2
<1>4. /\ SameBut(d, d1, {"field", "phys", "enum"})
      /\ d1.field = With(d.field, f, row)
      /\ d1.phys = [d.phys EXCEPT ![NameOf(f)] = @ \cup {FieldName[f]}]
      /\ d1.enum = Merge(r.in.seeds, d.enum)
  BY <1>1 DEF SameBut, Components
<1> HIDE DEF d1
<1>5. /\ SameBut(d1, d2, {"uniq"})
      /\ d2.uniq = IF r.in.unique THEN d1.uniq \cup {Index(f)} ELSE d1.uniq
  BY <1>4 DEF SameBut, Components, CreateUniqueIndex, Index
<1> HIDE DEF d2
<1>6. /\ DOMAIN d2 = Components /\ d2.field = d1.field /\ d2.phys = d1.phys /\ d2.enum = d1.enum
      /\ d2.table = d.table /\ d2.links = d.links /\ d2.pivots = d.pivots /\ d2.navs = d.navs
      /\ d2.options = d.options /\ d2.contract = d.contract /\ d1.uniq = d.uniq
      /\ LiveTables(d2) = LiveTables(d)
  BY <1>4, <1>5 DEF SameBut, Components, LiveTables
<1>7. /\ LiveFields(d2) = LiveFields(d) \cup {f} /\ d2.field[f] = row
      /\ \A g \in LiveFields(d) : d2.field[g] = d.field[g]
  <2> HIDE DEF row
  <2> QED
    BY <1>3, <1>4, <1>6 DEF With, LiveFields
<1>8. /\ DOMAIN d2.enum = DOMAIN r.in.seeds \cup DOMAIN d.enum
      /\ \A x \in DOMAIN d.enum : EnumField[x] # f /\ d2.enum[x] = d.enum[x]
  <2>1. \A x \in DOMAIN d.enum : EnumField[x] # f
    BY <1>3 DEF Sound, RowsReferred
  <2> QED
    BY <1>2, <1>4, <1>6, <2>1 DEF Merge
<1>9. ASSUME NEW u, u # t PROVE Document(d2, u) = Document(d, u)
  <2>1. FieldsOf(d2, u) = FieldsOf(d, u)
    BY <1>7, <1>9 DEF FieldsOf
  <2>2. \A g \in FieldsOf(d, u) : d2.field[g] = d.field[g] /\ g # f
    BY <1>3, <1>7 DEF FieldsOf
  <2>3. \A g \in FieldsOf(d, u) : \A x : EnumField[x] = g =>
            (x \in DOMAIN d2.enum <=> x \in DOMAIN d.enum) /\ (x \in DOMAIN d.enum => d2.enum[x] = d.enum[x])
    BY <1>2, <1>8, <2>2
  <2> QED
    BY <2>1, <2>2, <2>3, DocumentSame
<1>10. ContractsCurrent(e) /\ SameBut(d2, e, {"contract"})
  <2>1. LiveTables(d2) = LiveTables(d) \cup {t}
    BY <1>2, <1>6
  <2> QED
    BY <1>2, <1>6, <1>9, <2>1, Published DEF Sound
<1> HIDE DEF e
<1>11. /\ DOMAIN e = Components
       /\ e.table = d.table /\ e.field = d2.field /\ e.links = d.links /\ e.pivots = d.pivots /\ e.navs = d.navs
       /\ e.options = d.options /\ e.enum = d2.enum /\ e.phys = d1.phys /\ e.uniq = d2.uniq
       /\ LiveTables(e) = LiveTables(d) /\ LiveFields(e) = LiveFields(d) \cup {f}
  BY <1>6, <1>7, <1>10 DEF SameBut, Components, LiveTables, LiveFields
<1>12. \A g \in LiveFields(e) : e.field[g] \in Flags /\ FieldTable[g] \in LiveTables(e) /\ g \in FieldIds
  <2>1. row \in Flags
    BY <1>2 DEF Flags
  <2>2. \A g \in LiveFields(d) : d.field[g] \in Flags /\ FieldTable[g] \in LiveTables(d) /\ g \in FieldIds
    BY DEF Sound, Shape, Flags, RowsReferred
  <2> HIDE DEF row
  <2> QED
    BY <1>2, <1>7, <1>11, <2>1, <2>2
<1>13. NamesUnique(e)
  BY <1>2, <1>11 DEF Sound, NamesUnique
<1>14. DefaultsLive(e)
  BY <1>11 DEF Sound, DefaultsLive
<1>15. \A x \in DOMAIN e.enum : EnumField[x] \in LiveFields(e)
  BY <1>2, <1>8, <1>11 DEF Sound, RowsReferred
<1>16. /\ Sound(e) /\ VersionsMove(d, e)
       /\ PathsResolve(d) => PathsResolve(e)
       /\ CaptionsResolve(d) => CaptionsResolve(e)
  <2>1. LiveFields(d) \subseteq LiveFields(e) /\ LiveFields(e) \subseteq FieldIds /\ LiveTables(d) \subseteq LiveTables(e)
        /\ LiveTables(e) \subseteq TableIds /\ LiveTables(e) \ LiveTables(d) = {}
    BY <1>11, <1>12 DEF Sound, Shape
  <2> QED
    BY <1>10, <1>11, <1>12, <1>13, <1>14, <1>15, <2>1, SchemaStep DEF Flags
<1>17. ASSUME TablesBuilt(d) PROVE TablesBuilt(e)
  <2>1. DOMAIN e.phys = {TableName[u] : u \in LiveTables(e)}
    BY <1>4, <1>11, <1>17 DEF TablesBuilt
  <2>2. ASSUME NEW u \in LiveTables(d) PROVE e.phys[TableName[u]] = Columns(e, u)
    <3>0. TableName[u] \in DOMAIN d.phys /\ d.phys[TableName[u]] = Columns(d, u)
      BY <1>17 DEF TablesBuilt
    <3>1. CASE u = t
      <4>1. e.phys[TableName[u]] = d.phys[TableName[u]] \cup {FieldName[f]}
        BY <1>2, <1>4, <1>11, <3>1 DEF NameOf
      <4>2. Columns(e, u) = Columns(d, u) \cup {FieldName[f]}
        BY <1>11, <3>1 DEF Columns, FieldsOf
      <4> QED
        BY <3>0, <4>1, <4>2
    <3>2. CASE u # t
      <4>1. TableName[u] # NameOf(f)
        BY <1>2, <3>2 DEF Sound, NamesUnique, NameOf
      <4>2. e.phys[TableName[u]] = d.phys[TableName[u]]
        BY <1>4, <1>11, <3>0, <4>1
      <4>3. Columns(e, u) = Columns(d, u)
        BY <1>11, <3>2 DEF Columns, FieldsOf
      <4> QED
        BY <3>0, <4>2, <4>3
    <3> QED
      BY <3>1, <3>2
  <2> QED
    BY <1>11, <2>1, <2>2 DEF TablesBuilt
<1>18. ASSUME IndexesBuilt(d) PROVE IndexesBuilt(e)
  <2>1. d.uniq = {Index(g) : g \in {x \in LiveFields(d) : d.field[x].unique}}
    BY <1>18, IndexesAre DEF IndexesBuilt
  <2>2. {x \in LiveFields(e) : e.field[x].unique}
          = IF r.in.unique THEN {x \in LiveFields(d) : d.field[x].unique} \cup {f} ELSE {x \in LiveFields(d) : d.field[x].unique}
    <3>1. e.field[f].unique = r.in.unique /\ \A g \in LiveFields(d) : e.field[g] = d.field[g]
      BY <1>7, <1>11
    <3> QED
      BY <1>3, <1>11, <3>1
  <2>3. e.uniq = IF r.in.unique THEN d.uniq \cup {Index(f)} ELSE d.uniq
    BY <1>5, <1>6, <1>11
  <2>4. CASE r.in.unique
    BY <2>1, <2>2, <2>3, <2>4, IndexesAre DEF IndexesBuilt
  <2>5. CASE ~r.in.unique
    BY <2>1, <2>2, <2>3, <2>5, IndexesAre DEF IndexesBuilt
  <2> QED
    BY <2>4, <2>5
<1>19. ASSUME EnumsFlagged(d) PROVE EnumsFlagged(e)
  <2> SUFFICES ASSUME NEW x \in DOMAIN e.enum PROVE e.field[EnumField[x]].enum
    BY DEF EnumsFlagged
  <2>1. CASE x \in DOMAIN d.enum
    <3>1. EnumField[x] \in LiveFields(d) /\ d.field[EnumField[x]].enum
      BY <1>19, <2>1 DEF EnumsFlagged, Sound, RowsReferred
    <3> QED
      BY <1>7, <1>11, <3>1
  <2>2. CASE x \in DOMAIN r.in.seeds
    <3>1. EnumField[x] = f /\ r.in.enum
      BY <1>2, <2>2
    <3> QED
      BY <1>7, <1>11, <3>1
  <2> QED
    BY <1>8, <1>11, <2>1, <2>2
<1>20. Keeps(d, e, {})
  BY <1>16, <1>17, <1>18, <1>19 DEF Keeps
<1>21. CreateField(d, r) = recordTenantSchemaMigration(e)
  BY DEF CreateField, e, d2, d1
<1> QED
  BY <1>20, <1>21, KeepsThenMigration

\* The flags of the default columns.
LEMMA FlagsOf ==
  ASSUME NEW a \in BOOLEAN, NEW b \in BOOLEAN
  PROVE  [enum |-> a, unique |-> b] \in Flags /\ ([enum |-> a, unique |-> b].unique <=> b)
BY DEF Flags

\* The default columns of a table are fields of that table alone.
LEMMA DefaultsAre ==
  ASSUME NEW t \in TableIds
  PROVE  /\ Defaults(t) \subseteq FieldIds /\ \A f \in Defaults(t) : FieldTable[f] = t /\ FieldName[f] \in DefaultColumns
         /\ \A f, g \in Defaults(t) : FieldName[f] = FieldName[g] => f = g
         /\ {FieldName[f] : f \in Defaults(t)} = DefaultColumns
         /\ \E f \in Defaults(t) : FieldName[f] = "object_id"
<1>1. \A name \in DefaultColumns : \E f \in FieldIds : \A g \in FieldIds : FieldTable[g] = t /\ FieldName[g] = name <=> g = f
  BY DataModelAssumption
<1>2. "object_id" \in DefaultColumns
  BY DEF DefaultColumns
<1>3. \A name \in DefaultColumns : \E f \in Defaults(t) : FieldName[f] = name
  BY <1>1 DEF Defaults
<1>4. \A f, g \in Defaults(t) : FieldName[f] = FieldName[g] => f = g
  BY <1>1 DEF Defaults
<1> QED
  BY <1>2, <1>3, <1>4 DEF Defaults

\* CreateTable adds the table, its default columns and the index of object_id.
LEMMA CreateTableKeeps ==
  ASSUME NEW d, Sound(d), NEW r, r.in.id \in TableIds, CanCreateTable(d, r)
  PROVE  Keeps(d, CreateTable(d, r), {}) /\ LiveTables(CreateTable(d, r)) = LiveTables(d) \cup {r.in.id}
<1> DEFINE t == r.in.id
           name == TableName[t]
           new == [caption |-> NoCaption, version |-> 0]
           built == [n \in {name} |-> DefaultColumns]
           rows == [f \in Defaults(t) |-> [enum |-> FALSE, unique |-> FieldName[f] = "object_id"]]
           d1 == [d EXCEPT !.table = With(@, t, new), !.phys = Merge(@, built), !.field = Merge(rows, @)]
           d2 == CreateUniqueIndex(d1, name, "object_id")
           e == refresh_ingestion_contract(d2, t)
<1>1. DOMAIN d = Components
  BY DEF Sound, Shape
<1>2. t \in TableIds /\ t \notin LiveTables(d) /\ \A u \in LiveTables(d) : TableName[u] # name
  BY DEF CanCreateTable
<1>3. \A f \in LiveFields(d) : FieldTable[f] # t /\ f \notin Defaults(t)
  BY <1>2 DEF Sound, RowsReferred, Defaults
<1>4. /\ SameBut(d, d1, {"table", "phys", "field"})
      /\ d1.table = With(d.table, t, new) /\ d1.phys = Merge(d.phys, built) /\ d1.field = Merge(rows, d.field)
  BY <1>1 DEF SameBut, Components
<1> HIDE DEF d1
<1>5. SameBut(d1, d2, {"uniq"}) /\ d2.uniq = d1.uniq \cup {[table |-> name, column |-> "object_id"]}
  BY <1>4 DEF SameBut, Components, CreateUniqueIndex
<1> HIDE DEF d2
<1>6. /\ DOMAIN d2 = Components /\ d2.field = d1.field /\ d2.phys = d1.phys /\ d2.table = d1.table
      /\ d2.enum = d.enum /\ d2.links = d.links /\ d2.pivots = d.pivots /\ d2.navs = d.navs
      /\ d2.options = d.options /\ d2.contract = d.contract /\ d1.uniq = d.uniq
  BY <1>4, <1>5 DEF SameBut, Components
<1>7. /\ LiveTables(d2) = LiveTables(d) \cup {t} /\ d2.table[t] = new
      /\ \A u \in LiveTables(d) : d2.table[u] = d.table[u]
  <2> HIDE DEF new
  <2> QED
    BY <1>2, <1>4, <1>6 DEF With, LiveTables
<1>8. /\ LiveFields(d2) = LiveFields(d) \cup Defaults(t)
      /\ \A f \in LiveFields(d) : d2.field[f] = d.field[f]
      /\ \A f \in Defaults(t) : d2.field[f] = [enum |-> FALSE, unique |-> FieldName[f] = "object_id"]
  <2>1. DOMAIN rows = Defaults(t) /\ \A f \in Defaults(t) : rows[f] = [enum |-> FALSE, unique |-> FieldName[f] = "object_id"]
    OBVIOUS
  <2> HIDE DEF rows
  <2> QED
    BY <1>3, <1>4, <1>6, <2>1 DEF Merge, LiveFields
<1>9. \A u \in LiveTables(d) : FieldsOf(d2, u) = FieldsOf(d, u)
  <2>1. \A f \in Defaults(t) : FieldTable[f] = t
    BY DEF Defaults
  <2> QED
    BY <1>2, <1>8, <2>1 DEF FieldsOf
<1>10. \A u \in LiveTables(d) \ {t} : Document(d2, u) = Document(d, u)
  <2> SUFFICES ASSUME NEW u \in LiveTables(d) PROVE Document(d2, u) = Document(d, u)
    OBVIOUS
  <2>1. \A f \in FieldsOf(d, u) : d2.field[f] = d.field[f]
    BY <1>8 DEF FieldsOf
  <2> QED
    BY <1>6, <1>9, <2>1, DocumentSame
<1>11. ContractsCurrent(e) /\ SameBut(d2, e, {"contract"})
  BY <1>6, <1>7, <1>10, Published DEF Sound
<1> HIDE DEF e
<1>12. /\ DOMAIN e = Components
       /\ e.table = d2.table /\ e.field = d2.field /\ e.links = d.links /\ e.pivots = d.pivots /\ e.navs = d.navs
       /\ e.options = d.options /\ e.enum = d.enum /\ e.phys = d1.phys /\ e.uniq = d2.uniq
       /\ LiveTables(e) = LiveTables(d) \cup {t} /\ LiveFields(e) = LiveFields(d) \cup Defaults(t)
  BY <1>6, <1>7, <1>8, <1>11 DEF SameBut, Components, LiveTables, LiveFields
<1>13. \A f \in LiveFields(e) : e.field[f] \in Flags /\ FieldTable[f] \in LiveTables(e) /\ f \in FieldIds
  <2>1. \A f \in LiveFields(d) : d.field[f] \in Flags /\ FieldTable[f] \in LiveTables(d) /\ f \in FieldIds
    BY DEF Sound, Shape, Flags, RowsReferred
  <2>2. ASSUME NEW f \in Defaults(t) PROVE e.field[f] \in Flags /\ FieldTable[f] = t /\ f \in FieldIds
    <3>1. FieldTable[f] = t /\ f \in FieldIds
      BY DEF Defaults
    <3>2. (FieldName[f] = "object_id") \in BOOLEAN /\ e.field[f] = [enum |-> FALSE, unique |-> FieldName[f] = "object_id"]
      BY <1>8, <1>12
    <3>3. e.field[f] \in Flags
      BY <3>2, FlagsOf
    <3> QED
      BY <3>1, <3>3
  <2> QED
    BY <1>8, <1>12, <2>1, <2>2
<1>14. NamesUnique(e)
  <2>1. \A u, v \in LiveTables(e) : TableName[u] = TableName[v] => u = v
    BY <1>2, <1>12 DEF Sound, NamesUnique
  <2>2. ASSUME NEW f \in LiveFields(e), NEW g \in LiveFields(e), FieldTable[f] = FieldTable[g], FieldName[f] = FieldName[g] PROVE f = g
    <3>1. CASE FieldTable[f] = t
      <4>1. f \in Defaults(t) /\ g \in Defaults(t)
        BY <1>3, <1>12, <2>2, <3>1
      <4> QED
        BY <1>2, <2>2, <4>1, DefaultsAre
    <3>2. CASE FieldTable[f] # t
      <4>1. f \in LiveFields(d) /\ g \in LiveFields(d)
        BY <1>12, <2>2, <3>2 DEF Defaults
      <4> QED
        BY <2>2, <4>1 DEF Sound, NamesUnique
    <3> QED
      BY <3>1, <3>2
  <2> QED
    BY <2>1, <2>2 DEF NamesUnique
<1>15. DefaultsLive(e)
  BY <1>12 DEF Sound, DefaultsLive
<1>16. \A x \in DOMAIN e.enum : EnumField[x] \in LiveFields(e)
  BY <1>12 DEF Sound, RowsReferred
<1>17. /\ Sound(e) /\ VersionsMove(d, e)
       /\ PathsResolve(d) => PathsResolve(e)
       /\ CaptionsResolve(d) => CaptionsResolve(e)
  <2>1. LiveFields(d) \subseteq LiveFields(e) /\ LiveFields(e) \subseteq FieldIds /\ LiveTables(d) \subseteq LiveTables(e)
        /\ LiveTables(e) \subseteq TableIds /\ LiveTables(e) \ LiveTables(d) = {t}
    BY <1>2, <1>12, <1>13 DEF Sound, Shape
  <2>2. DOMAIN e.table[t] = {"caption", "version"} /\ e.table[t].version \in Nat /\ e.table[t].caption = NoCaption
    BY <1>7, <1>12
  <2>3. \A u \in LiveTables(d) : e.table[u] = d.table[u]
    BY <1>7, <1>12
  <2> HIDE DEF t
  <2> QED
    BY <1>11, <1>12, <1>13, <1>14, <1>15, <1>16, <2>1, <2>2, <2>3, SchemaStep DEF Flags
<1>18. ASSUME TablesBuilt(d) PROVE TablesBuilt(e)
  <2>1. DOMAIN built = {name} /\ built[name] = DefaultColumns
    OBVIOUS
  <2>2. name \notin DOMAIN d.phys
    BY <1>2, <1>18 DEF TablesBuilt
  <2>3. DOMAIN e.phys = DOMAIN d.phys \cup {name} /\ e.phys[name] = DefaultColumns /\ \A n \in DOMAIN d.phys : e.phys[n] = d.phys[n]
    <3> HIDE DEF built
    <3> QED
      BY <1>4, <1>12, <2>1, <2>2 DEF Merge
  <2>4. Columns(e, t) = DefaultColumns
    <3>1. FieldsOf(e, t) = Defaults(t)
      BY <1>3, <1>12 DEF FieldsOf, Defaults
    <3> QED
      BY <1>2, <3>1, DefaultsAre DEF Columns
  <2>5. \A u \in LiveTables(d) : Columns(e, u) = Columns(d, u) /\ d.phys[TableName[u]] = Columns(d, u) /\ TableName[u] \in DOMAIN d.phys
    <3>1. \A u \in LiveTables(d) : FieldsOf(e, u) = FieldsOf(d, u)
      BY <1>9, <1>12 DEF FieldsOf, LiveFields
    <3> QED
      BY <1>18, <3>1 DEF Columns, TablesBuilt
  <2> QED
    BY <1>12, <1>18, <2>3, <2>4, <2>5 DEF TablesBuilt
<1>19. ASSUME IndexesBuilt(d) PROVE IndexesBuilt(e)
  <2>1. d.uniq = {Index(g) : g \in {x \in LiveFields(d) : d.field[x].unique}}
    BY <1>19, IndexesAre DEF IndexesBuilt
  <2>2. PICK f \in Defaults(t) : FieldName[f] = "object_id"
    BY <1>2, DefaultsAre
  <2>3. \A g \in Defaults(t) : e.field[g].unique <=> g = f
    <3>1. ASSUME NEW g \in Defaults(t) PROVE e.field[g].unique <=> FieldName[g] = "object_id"
      <4>1. e.field[g] = [enum |-> FALSE, unique |-> FieldName[g] = "object_id"]
        BY <1>8, <1>12
      <4> QED
        BY <4>1, FlagsOf
    <3> QED
      BY <1>2, <2>2, <3>1, DefaultsAre
  <2>4. {x \in LiveFields(e) : e.field[x].unique} = {x \in LiveFields(d) : d.field[x].unique} \cup {f}
    BY <1>8, <1>12, <2>2, <2>3
  <2>5. Index(f) = [table |-> name, column |-> "object_id"]
    BY <2>2 DEF Index, NameOf, Defaults
  <2>6. e.uniq = d.uniq \cup {Index(f)}
    BY <1>5, <1>6, <1>12, <2>5
  <2> QED
    BY <2>1, <2>4, <2>6, IndexesAre DEF IndexesBuilt
<1>20. EnumsFlagged(d) => EnumsFlagged(e)
  BY <1>8, <1>12 DEF EnumsFlagged, Sound, RowsReferred
<1>21. Keeps(d, e, {})
  BY <1>17, <1>18, <1>19, <1>20 DEF Keeps
<1>22. CreateTable(d, r) = recordTenantSchemaMigration(e)
  BY DEF CreateTable, e, d2, d1
<1>23. LiveTables(CreateTable(d, r)) = LiveTables(e)
  BY <1>12, <1>22, Migration, AlikeIs DEF LiveTables
<1> QED
  BY <1>12, <1>21, <1>22, <1>23, KeepsThenMigration

-----------------------------------------------------------------------------
(* Deletions of fields and tables.                                         *)

\* Options are validated against fields and links alone.
LEMMA ValidSame ==
  ASSUME NEW d, NEW e, NEW t, e.options[t] = d.options[t], e.field = d.field, e.links = d.links, validate_display_options(d, t)
  PROVE  validate_display_options(e, t)
<1>1. \A u : FieldsOf(e, u) = FieldsOf(d, u)
  BY FieldsSame
<1>2. \A col : ColumnValid(d, t, col) => ColumnValid(e, t, col)
  BY <1>1 DEF ColumnValid
<1> QED
  BY <1>1, <1>2 DEF validate_display_options

\* Options stand on fields and links alone.
LEMMA StandsSame ==
  ASSUME NEW d, NEW e, NEW t, e.options[t] = d.options[t], e.field = d.field, e.links = d.links, OptionStands(d, t)
  PROVE  OptionStands(e, t)
BY FieldsSame DEF OptionStands, ColumnStands

\* The schema changes before the rows do.
LEMMA SchemaOnly ==
  ASSUME NEW d, Sound(d), NEW e, SameBut(d, e, {"phys", "uniq", "index"})
  PROVE  /\ Sound(e)
         /\ e.table = d.table /\ e.field = d.field /\ e.enum = d.enum /\ e.links = d.links /\ e.pivots = d.pivots
         /\ e.navs = d.navs /\ e.options = d.options /\ e.contract = d.contract
         /\ LiveTables(e) = LiveTables(d) /\ LiveFields(e) = LiveFields(d)
<1>1. /\ DOMAIN e = Components
      /\ e.table = d.table /\ e.field = d.field /\ e.enum = d.enum /\ e.links = d.links /\ e.pivots = d.pivots
      /\ e.navs = d.navs /\ e.options = d.options /\ e.contract = d.contract
      /\ LiveTables(e) = LiveTables(d) /\ LiveFields(e) = LiveFields(d)
  BY DEF SameBut, Components, LiveTables, LiveFields
<1>2. ContractsCurrent(e)
  BY <1>1, ContractSame DEF Sound
<1>3. NamesUnique(e) /\ DefaultsLive(e) /\ RowsReferred(e) /\ Shape(e)
  BY <1>1 DEF Sound, NamesUnique, DefaultsLive, RowsReferred, Shape
<1>4. OptionsStand(e)
  BY <1>1, OptionsSame DEF Sound
<1> QED
  BY <1>1, <1>2, <1>3, <1>4 DEF Sound

\* What is left of options when deleted fields and links are taken out.
LEMMA OptionsLeft ==
  ASSUME NEW d, NEW u, OptionStands(d, u), NEW fs, NEW e, LiveFields(e) = LiveFields(d) \ fs, e.links = d.links \ LinksOn(d, fs),
         e.options[u].shown = d.options[u].shown, e.options[u].columns = d.options[u].columns,
         WithoutFields(d.options[u], fs).columns = d.options[u].columns,
         WithoutLinks(d.options[u], LinksOn(d, fs)).columns = d.options[u].columns,
         \A f \in fs : FieldTable[f] # u
  PROVE  OptionStands(e, u)
<1>1. \A col \in d.options[u].columns : IF col.type = "direct" THEN col.field \notin fs ELSE col.target \notin fs
  BY DEF WithoutFields
<1>2. \A col \in d.options[u].columns : col.type = "direct" \/ col.link \notin LinksOn(d, fs)
  BY DEF WithoutLinks
<1>3. FieldsOf(e, u) = FieldsOf(d, u) /\ \A v : \A f \in FieldsOf(d, v) \ fs : f \in FieldsOf(e, v)
  BY DEF FieldsOf
<1> QED
  BY <1>1, <1>2, <1>3 DEF OptionStands, ColumnStands

\* References and options stand when the rows that a deletion leaves are whole.
LEMMA RowsGone ==
  ASSUME NEW d, Sound(d), NEW fs, NEW ts, NEW e, Rows(e),
         LiveTables(e) = LiveTables(d) \ ts,
         \A f \in LiveFields(d) : FieldTable[f] \in ts => f \in fs,
         \A f \in fs : FieldTable[f] \in ts \/ FieldName[f] \notin DefaultColumns,
         RowsLeft(d, e, fs), \A p \in e.pivots : PivotBase[p] \notin ts,
         DOMAIN e.options = DOMAIN d.options \ ts, OptionsStand(e), ContractsCurrent(e)
  PROVE  /\ Sound(e)
         /\ EnumsFlagged(d) => EnumsFlagged(e)
         /\ LinksOn(d, fs) = {} /\ PathsResolve(d) => PathsResolve(e)
<1>1. LiveFields(e) = LiveFields(d) \ fs /\ \A f \in LiveFields(e) : e.field[f] = d.field[f]
  BY DEF RowsLeft, Without, Restrict, LiveFields
<1>2. \A x \in DOMAIN e.enum : x \in DOMAIN d.enum /\ EnumField[x] \notin fs
  BY DEF RowsLeft, Without, Restrict
<1>3. Shape(e)
  <2>1. LiveTables(e) \subseteq TableIds /\ LiveFields(e) \subseteq FieldIds
    BY <1>1 DEF Sound, Shape
  <2>2. \A f \in LiveFields(e) : e.field[f] \in [enum : BOOLEAN, unique : BOOLEAN]
    BY <1>1 DEF Sound, Shape
  <2> QED
    BY <2>1, <2>2 DEF Rows, Shape
<1>4. NamesUnique(e)
  BY <1>1 DEF Sound, NamesUnique
<1>5. DefaultsLive(e)
  <2>1. ASSUME NEW t \in LiveTables(e), NEW f \in Defaults(t) PROVE f \in LiveFields(e)
    BY <1>1 DEF Sound, DefaultsLive, Defaults
  <2> QED
    BY <2>1 DEF DefaultsLive
<1>6. RowsReferred(e)
  <2>1. \A f \in LiveFields(e) : FieldTable[f] \in LiveTables(e)
    BY <1>1 DEF Sound, RowsReferred
  <2>2. \A x \in DOMAIN e.enum : EnumField[x] \in LiveFields(e)
    BY <1>1, <1>2 DEF Sound, RowsReferred
  <2>3. \A l \in e.links : {LinkParent[l], LinkChild[l]} \subseteq LiveFields(e)
    BY <1>1 DEF Sound, RowsReferred, LinksOn, RowsLeft
  <2>4. \A n \in e.navs : {NavSource[n], NavFilter[n], NavOrder[n]} \subseteq LiveFields(e)
    BY <1>1 DEF Sound, RowsReferred, RowsLeft
  <2>5. \A p \in e.pivots : PivotBase[p] \in LiveTables(e) /\ PivotField[p] \in LiveFields(e) \cup {Unset}
    BY <1>1 DEF Sound, RowsReferred, RowsLeft
  <2>6. DOMAIN e.options \subseteq LiveTables(e)
    BY DEF Sound, RowsReferred
  <2> QED
    BY <2>1, <2>2, <2>3, <2>4, <2>5, <2>6 DEF RowsReferred
<1>7. Sound(e)
  BY <1>3, <1>4, <1>5, <1>6 DEF Sound
<1>8. EnumsFlagged(d) => EnumsFlagged(e)
  BY <1>1, <1>2 DEF EnumsFlagged, Sound, RowsReferred
<1>9. LinksOn(d, fs) = {} /\ PathsResolve(d) => PathsResolve(e)
  BY DEF PathsResolve, RowsLeft
<1> QED
  BY <1>7, <1>8, <1>9

\* The cascade keeps the form of the rows.
LEMMA CascadeRows ==
  ASSUME NEW d, Rows(d), NEW fs
  PROVE  /\ Rows(CascadeFields(d, fs))
         /\ LET c == CascadeFields(d, fs)
            IN /\ c.table = d.table /\ c.options = d.options /\ c.contract = d.contract /\ c.phys = d.phys /\ c.uniq = d.uniq
               /\ LiveTables(c) = LiveTables(d) /\ DOMAIN c = Components
<1> DEFINE c == CascadeFields(d, fs)
<1>1. SameBut(d, c, {"field", "enum", "links", "pivots", "navs"})
  BY Cascade DEF Rows
<1> HIDE DEF c
<1>2. /\ c.table = d.table /\ c.options = d.options /\ c.contract = d.contract /\ c.phys = d.phys /\ c.uniq = d.uniq
      /\ LiveTables(c) = LiveTables(d) /\ DOMAIN c = Components
  BY <1>1 DEF SameBut, Components, LiveTables
<1>3. Rows(c)
  BY <1>2 DEF Rows
<1> QED
  BY <1>2, <1>3 DEF c

\* The settings of a table are its caption and its options.
LEMMA SettingsSame ==
  ASSUME NEW c, NEW d, NEW e, VersionsMove(c, e), c.table = d.table, c.options = d.options PROVE VersionsMove(d, e)
BY DEF VersionsMove, Settings, OptionsOf, LiveTables

\* What the deletion of the row of field f leaves: k before the links are cleaned, m after.
FieldRowLeft(d, f, k, ls, m) ==
  /\ DOMAIN m = Components /\ Rows(m) /\ LiveTables(m) = LiveTables(d)
  /\ RowsLeft(d, m, {f}) /\ k.field = m.field /\ k.links = m.links
  /\ m.contract = d.contract /\ m.phys = d.phys /\ m.uniq = d.uniq
  /\ DOMAIN m.options = DOMAIN d.options /\ DOMAIN k.options = DOMAIN d.options
  /\ TouchedByFields(CascadeFields(d, {f}), {f}) = TouchedByFields(d, {f})
  /\ \A t \in DOMAIN d.options :
       /\ k.options[t] = IF t \in TouchedByFields(d, {f}) THEN WithoutFields(d.options[t], {f}) ELSE d.options[t]
       /\ m.options[t] = IF t \in TouchedByLinks(k, ls) THEN WithoutLinks(k.options[t], ls) ELSE k.options[t]
  /\ VersionsMove(d, m)
  /\ \A t \in LiveTables(d) : m.table[t].caption \in {d.table[t].caption, NoCaption}
  /\ m.table[FieldTable[f]].caption # FieldName[f] \/ m.table[FieldTable[f]].caption = NoCaption

\* That deletion, with the cleaning of the links ls.
FieldRowGoes(d, f, k, ls, m) == k = FieldGone(d, f) /\ ls = LinksOn(d, {f}) /\ m = clean_link_display(k, ls)

\* The deletion of a field row, its cascade and the cleaning triggers, step by step.
LEMMA FieldRowIs ==
  ASSUME NEW d, Sound(d), NEW f, f \in LiveFields(d), NEW k, NEW ls, NEW m, FieldRowGoes(d, f, k, ls, m)
  PROVE  FieldRowLeft(d, f, k, ls, m)
<1> DEFINE c == CascadeFields(d, {f})
<1>a. k = FieldGone(d, f) /\ ls = LinksOn(d, {f}) /\ m = clean_link_display(k, ls)
  BY DEF FieldRowGoes
<1>1. Rows(d) /\ FieldTable[f] \in LiveTables(d)
  BY SoundRows DEF Sound, RowsReferred
<1>2. /\ Rows(c) /\ DOMAIN c = Components
      /\ c.table = d.table /\ c.options = d.options /\ c.contract = d.contract /\ c.phys = d.phys /\ c.uniq = d.uniq
      /\ LiveTables(c) = LiveTables(d)
  BY <1>1, CascadeRows
<1>3. RowsLeft(d, c, {f})
  <2>1. DOMAIN d = Components
    BY DEF Sound, Shape
  <2> QED
    BY <2>1, Cascade
<1>4. k = clean_field_display(c, f)
  BY <1>a DEF FieldGone
<1> HIDE DEF c
<1>5. /\ OptionsMove(c, k) /\ Rows(k)
      /\ k.table[FieldTable[f]].caption # FieldName[f] \/ k.table[FieldTable[f]].caption = NoCaption
      /\ \A t \in LiveTables(c) : k.table[t].caption = c.table[t].caption \/ k.table[t].caption = NoCaption
      /\ \A t \in DOMAIN c.options :
              k.options[t] = IF t \in TouchedByFields(c, {f}) THEN WithoutFields(c.options[t], {f}) ELSE c.options[t]
  <2>1. /\ OptionsMove(c, k) /\ Rows(k)
        /\ k.table[FieldTable[f]].caption # FieldName[f] \/ k.table[FieldTable[f]].caption = NoCaption
        /\ \A t \in LiveTables(c) : k.table[t].caption = c.table[t].caption \/ k.table[t].caption = NoCaption
        /\ \A t \in DOMAIN c.options :
              k.options[t] = IF t \in TouchedByFields(c, {f}) THEN WithoutFields(c.options[t], {f}) ELSE c.options[t]
    BY <1>1, <1>2, <1>4, FieldCleaned
  <2> QED
    BY <1>4, <2>1
<1>6. /\ OptionsMove(k, m) /\ Rows(m)
      /\ \A t \in LiveTables(k) : m.table[t].caption = k.table[t].caption
      /\ \A t \in DOMAIN k.options :
              m.options[t] = IF t \in TouchedByLinks(k, ls) THEN WithoutLinks(k.options[t], ls) ELSE k.options[t]
  BY <1>5, <1>a, LinksCleaned
<1>7. /\ DOMAIN k = Components
      /\ k.field = c.field /\ k.enum = c.enum /\ k.links = c.links /\ k.pivots = c.pivots
      /\ k.navs = c.navs /\ k.contract = c.contract /\ k.phys = c.phys /\ k.uniq = c.uniq
      /\ LiveTables(k) = LiveTables(c) /\ DOMAIN k.options = DOMAIN c.options
  BY <1>5, MoveIs
<1>8. /\ DOMAIN m = Components
      /\ m.field = k.field /\ m.enum = k.enum /\ m.links = k.links /\ m.pivots = k.pivots
      /\ m.navs = k.navs /\ m.contract = k.contract /\ m.phys = k.phys /\ m.uniq = k.uniq
      /\ LiveTables(m) = LiveTables(k) /\ DOMAIN m.options = DOMAIN k.options
  BY <1>6, MoveIs
<1>b. RowsLeft(d, m, {f}) /\ k.field = m.field /\ k.links = m.links
  <2>1. m.field = c.field /\ m.enum = c.enum /\ m.links = c.links /\ m.pivots \subseteq c.pivots /\ m.navs = c.navs
    BY <1>7, <1>8
  <2> QED
    BY <1>3, <1>8, <2>1, RowsLeftSame
<1>9. TouchedByFields(c, {f}) = TouchedByFields(d, {f})
  BY <1>2 DEF TouchedByFields
<1>10. OptionsMove(c, m)
  BY <1>2, <1>5, <1>6, MovesCompose
<1>11. VersionsMove(c, m)
  BY <1>2, <1>10, MoveVersions
<1>12. VersionsMove(d, m)
  BY <1>2, <1>11, SettingsSame
<1>13. ASSUME NEW t \in LiveTables(d) PROVE m.table[t].caption \in {d.table[t].caption, NoCaption}
  <2>1. k.table[t].caption = d.table[t].caption \/ k.table[t].caption = NoCaption
    BY <1>2, <1>5
  <2>2. m.table[t].caption = k.table[t].caption
    BY <1>2, <1>6, <1>7
  <2> QED
    BY <2>1, <2>2
<1>14. m.table[FieldTable[f]].caption # FieldName[f] \/ m.table[FieldTable[f]].caption = NoCaption
  BY <1>1, <1>2, <1>5, <1>6, <1>7
<1>15. \A t \in DOMAIN d.options :
              /\ k.options[t] = IF t \in TouchedByFields(d, {f}) THEN WithoutFields(d.options[t], {f}) ELSE d.options[t]
              /\ m.options[t] = IF t \in TouchedByLinks(k, ls) THEN WithoutLinks(k.options[t], ls) ELSE k.options[t]
  BY <1>2, <1>5, <1>6, <1>7, <1>9
<1>16. TouchedByFields(CascadeFields(d, {f}), {f}) = TouchedByFields(d, {f})
  BY <1>9 DEF c
<1> QED
  BY <1>2, <1>6, <1>7, <1>8, <1>b, <1>12, <1>13, <1>14, <1>15, <1>16 DEF FieldRowLeft

\* The checks on the options say the same before the column is dropped and after.
LEMMA CanDeleteFieldSame ==
  ASSUME NEW d, Sound(d), NEW e, SameBut(d, e, {"phys", "uniq", "index"}), NEW f \in LiveFields(d), CanDeleteFieldRow(d, f)
  PROVE  CanDeleteFieldRow(e, f)
<1> DEFINE ls == LinksOn(d, {f})
           kd == FieldGone(d, f)
           ke == FieldGone(e, f)
           md == clean_link_display(kd, ls)
           me == clean_link_display(ke, ls)
<1>1. /\ Sound(e) /\ f \in LiveFields(e) /\ e.options = d.options /\ e.field = d.field /\ e.links = d.links
  BY SchemaOnly
<1>2. LinksOn(e, {f}) = ls /\ TouchedByFields(e, {f}) = TouchedByFields(d, {f})
  BY <1>1 DEF LinksOn, TouchedByFields
<1>3. /\ \A t \in TouchedByFields(CascadeFields(d, {f}), {f}) : validate_display_options(kd, t)
      /\ \A t \in TouchedByLinks(kd, ls) : validate_display_options(md, t)
  BY DEF CanDeleteFieldRow
<1>4. CanDeleteFieldRow(e, f) <=>
        /\ \A t \in TouchedByFields(CascadeFields(e, {f}), {f}) : validate_display_options(ke, t)
        /\ \A t \in TouchedByLinks(ke, ls) : validate_display_options(me, t)
  BY <1>1, <1>2 DEF CanDeleteFieldRow
<1>a. ls = LinksOn(d, {f}) /\ kd = FieldGone(d, f) /\ ke = FieldGone(e, f)
      /\ md = clean_link_display(kd, ls) /\ me = clean_link_display(ke, ls)
  OBVIOUS
<1> HIDE DEF ls, kd, ke, md, me
<1>5. /\ RowsLeft(d, md, {f}) /\ kd.field = md.field /\ kd.links = md.links
      /\ DOMAIN md.options = DOMAIN d.options /\ DOMAIN kd.options = DOMAIN d.options
      /\ TouchedByFields(CascadeFields(d, {f}), {f}) = TouchedByFields(d, {f})
      /\ \A t \in DOMAIN d.options :
              /\ kd.options[t] = IF t \in TouchedByFields(d, {f}) THEN WithoutFields(d.options[t], {f}) ELSE d.options[t]
              /\ md.options[t] = IF t \in TouchedByLinks(kd, ls) THEN WithoutLinks(kd.options[t], ls) ELSE kd.options[t]
  <2>1. FieldRowLeft(d, f, kd, ls, md)
    BY <1>a, FieldRowIs DEF FieldRowGoes
  <2> QED
    BY <2>1 DEF FieldRowLeft
<1>6. /\ me.field = md.field /\ ke.field = me.field
      /\ me.links = md.links /\ ke.links = me.links
      /\ DOMAIN me.options = DOMAIN d.options /\ DOMAIN ke.options = DOMAIN d.options
      /\ TouchedByFields(CascadeFields(e, {f}), {f}) = TouchedByFields(d, {f})
      /\ \A t \in DOMAIN d.options :
              /\ ke.options[t] = IF t \in TouchedByFields(d, {f}) THEN WithoutFields(d.options[t], {f}) ELSE d.options[t]
              /\ me.options[t] = IF t \in TouchedByLinks(ke, ls) THEN WithoutLinks(ke.options[t], ls) ELSE ke.options[t]
  <2>1. /\ RowsLeft(e, me, {f}) /\ ke.field = me.field /\ ke.links = me.links
        /\ DOMAIN me.options = DOMAIN e.options /\ DOMAIN ke.options = DOMAIN e.options
        /\ TouchedByFields(CascadeFields(e, {f}), {f}) = TouchedByFields(e, {f})
        /\ \A t \in DOMAIN e.options :
              /\ ke.options[t] = IF t \in TouchedByFields(e, {f}) THEN WithoutFields(e.options[t], {f}) ELSE e.options[t]
              /\ me.options[t] = IF t \in TouchedByLinks(ke, ls) THEN WithoutLinks(ke.options[t], ls) ELSE ke.options[t]
    <3>1. FieldRowLeft(e, f, ke, ls, me)
      <4>1. Sound(e) /\ f \in LiveFields(e)
        BY <1>1
      <4>2. ke = FieldGone(e, f) /\ ls = LinksOn(e, {f}) /\ me = clean_link_display(ke, ls)
        BY <1>2, <1>a
      <4>3. FieldRowGoes(e, f, ke, ls, me)
        BY <4>2 DEF FieldRowGoes
      <4> QED
        BY <4>1, <4>3, FieldRowIs
    <3> QED
      BY <3>1 DEF FieldRowLeft
  <2>2. me.field = md.field /\ me.links = md.links
    <3>1. me.field = Without(e.field, {f}) /\ me.links = e.links \ LinksOn(e, {f})
      BY <2>1 DEF RowsLeft
    <3>2. md.field = Without(d.field, {f}) /\ md.links = d.links \ LinksOn(d, {f})
      BY <1>5 DEF RowsLeft
    <3>3. LinksOn(e, {f}) = LinksOn(d, {f})
      BY <1>2, <1>a
    <3> QED
      BY <1>1, <3>1, <3>2, <3>3
  <2> QED
    BY <1>1, <1>2, <2>1, <2>2
<1>7. \A t \in DOMAIN d.options : ke.options[t] = kd.options[t]
  BY <1>5, <1>6
<1>8. TouchedByLinks(ke, ls) = TouchedByLinks(kd, ls)
  BY <1>5, <1>6, <1>7 DEF TouchedByLinks
<1>9. \A t \in DOMAIN d.options : me.options[t] = md.options[t]
  BY <1>5, <1>6, <1>7, <1>8
<1>10. ASSUME NEW t \in TouchedByFields(d, {f}) PROVE validate_display_options(ke, t)
  <2>1. t \in DOMAIN d.options /\ validate_display_options(kd, t)
    BY <1>3, <1>5 DEF TouchedByFields
  <2> QED
    BY <1>5, <1>6, <1>7, <2>1, ValidSame
<1>11. ASSUME NEW t \in TouchedByLinks(kd, ls) PROVE validate_display_options(me, t)
  <2>1. t \in DOMAIN d.options /\ validate_display_options(md, t)
    BY <1>3, <1>5 DEF TouchedByLinks
  <2> QED
    BY <1>5, <1>6, <1>9, <2>1, ValidSame
<1> QED
  BY <1>4, <1>6, <1>8, <1>10, <1>11

\* A field row that is deleted leaves a sound database.
LEMMA FieldRowDeleted ==
  ASSUME NEW d, Sound(d), NEW f \in LiveFields(d), FieldName[f] \notin DefaultColumns, CanDeleteFieldRow(d, f),
         NEW e, e = DeleteFieldRow(d, f)
  PROVE  /\ Sound(e) /\ VersionsMove(d, e)
         /\ CaptionsResolve(d) => CaptionsResolve(e)
         /\ EnumsFlagged(d) => EnumsFlagged(e)
         /\ LinksOn(d, {f}) = {} /\ PathsResolve(d) => PathsResolve(e)
         /\ LiveTables(e) = LiveTables(d) /\ LiveFields(e) = LiveFields(d) \ {f}
         /\ \A g \in LiveFields(e) : e.field[g] = d.field[g]
         /\ e.phys = d.phys /\ e.uniq = d.uniq
<1> DEFINE ls == LinksOn(d, {f})
           k == FieldGone(d, f)
           m == clean_link_display(k, ls)
           t == FieldTable[f]
<1>1. /\ \A u \in TouchedByFields(CascadeFields(d, {f}), {f}) : validate_display_options(k, u)
      /\ \A u \in TouchedByLinks(k, ls) : validate_display_options(m, u)
  BY DEF CanDeleteFieldRow
<1>2. e = refresh_ingestion_contract(m, t)
  BY DEF DeleteFieldRow
<1>a. ls = LinksOn(d, {f}) /\ k = FieldGone(d, f) /\ m = clean_link_display(k, ls)
  OBVIOUS
<1> HIDE DEF ls, k, m
<1>3. /\ DOMAIN m = Components /\ Rows(m) /\ LiveTables(m) = LiveTables(d)
      /\ RowsLeft(d, m, {f}) /\ k.field = m.field /\ k.links = m.links
      /\ m.contract = d.contract /\ m.phys = d.phys /\ m.uniq = d.uniq
      /\ DOMAIN m.options = DOMAIN d.options /\ DOMAIN k.options = DOMAIN d.options
      /\ TouchedByFields(CascadeFields(d, {f}), {f}) = TouchedByFields(d, {f})
      /\ \A u \in DOMAIN d.options :
              /\ k.options[u] = IF u \in TouchedByFields(d, {f}) THEN WithoutFields(d.options[u], {f}) ELSE d.options[u]
              /\ m.options[u] = IF u \in TouchedByLinks(k, ls) THEN WithoutLinks(k.options[u], ls) ELSE k.options[u]
      /\ VersionsMove(d, m)
      /\ \A u \in LiveTables(d) : m.table[u].caption \in {d.table[u].caption, NoCaption}
      /\ m.table[t].caption # FieldName[f] \/ m.table[t].caption = NoCaption
  <2>1. FieldRowLeft(d, f, k, ls, m)
    BY <1>a, FieldRowIs DEF FieldRowGoes
  <2> QED
    BY <2>1 DEF FieldRowLeft
<1>4. t \in LiveTables(d)
  BY DEF Sound, RowsReferred
<1>5. LiveFields(m) = LiveFields(d) \ {f} /\ \A g \in LiveFields(m) : m.field[g] = d.field[g]
  BY <1>3 DEF RowsLeft, Without, Restrict, LiveFields
<1>6. \A u \in LiveTables(d) \ {t} : Document(m, u) = Document(d, u)
  <2> SUFFICES ASSUME NEW u \in LiveTables(d), u # t PROVE Document(m, u) = Document(d, u)
    OBVIOUS
  <2>1. FieldsOf(m, u) = FieldsOf(d, u) /\ \A g \in FieldsOf(d, u) : m.field[g] = d.field[g] /\ g # f
    BY <1>5 DEF FieldsOf
  <2>2. \A g \in FieldsOf(d, u) : \A x : EnumField[x] = g =>
            (x \in DOMAIN m.enum <=> x \in DOMAIN d.enum) /\ (x \in DOMAIN d.enum => m.enum[x] = d.enum[x])
    BY <1>3, <2>1 DEF RowsLeft, Without, Restrict
  <2> QED
    BY <2>1, <2>2, DocumentSame
<1>7. ContractsCurrent(e) /\ SameBut(m, e, {"contract"})
  <2>1. LiveTables(m) = LiveTables(d) \cup {t}
    BY <1>3, <1>4
  <2> QED
    BY <1>2, <1>3, <1>4, <1>6, <2>1, Published DEF Sound
<1>8. /\ DOMAIN e = Components /\ e.table = m.table /\ e.field = m.field /\ e.enum = m.enum /\ e.links = m.links
      /\ e.pivots = m.pivots /\ e.navs = m.navs /\ e.options = m.options /\ e.phys = m.phys /\ e.uniq = m.uniq
      /\ LiveTables(e) = LiveTables(d) /\ LiveFields(e) = LiveFields(m)
  BY <1>3, <1>7 DEF SameBut, Components, LiveTables, LiveFields
<1>9. OptionsStand(e)
  <2> SUFFICES ASSUME NEW u \in DOMAIN d.options PROVE OptionStands(m, u)
    BY <1>3, <1>8, StandsSame DEF OptionsStand
  <2>1. CASE u \in TouchedByLinks(k, ls)
    BY <1>1, <2>1, ValidStands
  <2>2. CASE u \notin TouchedByLinks(k, ls) /\ u \in TouchedByFields(d, {f})
    <3>1. OptionStands(k, u)
      BY <1>1, <1>3, <2>2, ValidStands
    <3>2. m.options[u] = k.options[u]
      BY <1>3, <2>2
    <3> QED
      BY <1>3, <3>1, <3>2, StandsSame
  <2>3. CASE u \notin TouchedByLinks(k, ls) /\ u \notin TouchedByFields(d, {f})
    <3>1. m.options[u] = d.options[u] /\ k.options[u] = d.options[u]
      BY <1>3, <2>3
    <3>2. u # t /\ WithoutFields(d.options[u], {f}).columns = d.options[u].columns
      BY <2>3 DEF TouchedByFields
    <3>3. WithoutLinks(d.options[u], ls).columns = d.options[u].columns
      BY <1>3, <2>3, <3>1 DEF TouchedByLinks
    <3>4. OptionStands(d, u)
      BY DEF Sound, OptionsStand
    <3> DEFINE fs == {f}
    <3>5. LiveFields(m) = LiveFields(d) \ fs /\ m.links = d.links \ LinksOn(d, fs) /\ \A g \in fs : FieldTable[g] # u
      BY <1>3, <1>5, <3>2 DEF RowsLeft
    <3>6. m.options[u].shown = d.options[u].shown /\ m.options[u].columns = d.options[u].columns
      BY <3>1
    <3>7. WithoutFields(d.options[u], fs).columns = d.options[u].columns
      BY <3>2
    <3>8. WithoutLinks(d.options[u], LinksOn(d, fs)).columns = d.options[u].columns
      BY <1>a, <3>3
    <3> HIDE DEF fs
    <3> QED
      BY <3>4, <3>5, <3>6, <3>7, <3>8, OptionsLeft
  <2> QED
    BY <2>1, <2>2, <2>3
<1>10. Rows(e)
  BY <1>3, <1>8 DEF Rows
<1>11. /\ Sound(e)
       /\ EnumsFlagged(d) => EnumsFlagged(e)
       /\ LinksOn(d, {f}) = {} /\ PathsResolve(d) => PathsResolve(e)
  <2> DEFINE ts == {}
             fs == {f}
  <2>1. LiveTables(e) = LiveTables(d) \ ts /\ DOMAIN e.options = DOMAIN d.options \ ts
    BY <1>3, <1>8
  <2>2. \A p \in e.pivots : PivotBase[p] \notin ts
    OBVIOUS
  <2>3. \A g \in fs : FieldTable[g] \in ts \/ FieldName[g] \notin DefaultColumns
    OBVIOUS
  <2>4. \A g \in LiveFields(d) : FieldTable[g] \in ts => g \in fs
    OBVIOUS
  <2>5. RowsLeft(d, e, fs)
    BY <1>3, <1>8, RowsLeftSame
  <2>6. Sound(d) /\ ContractsCurrent(e)
    BY <1>7
  <2>7. LinksOn(d, {f}) = LinksOn(d, fs)
    OBVIOUS
  <2> HIDE DEF ts, fs
  <2>8. /\ Sound(e)
        /\ EnumsFlagged(d) => EnumsFlagged(e)
        /\ LinksOn(d, fs) = {} /\ PathsResolve(d) => PathsResolve(e)
    BY <1>9, <1>10, <2>1, <2>2, <2>3, <2>4, <2>5, <2>6, RowsGone
  <2> QED
    BY <2>7, <2>8
<1>12. VersionsMove(d, e)
  BY <1>3, <1>8 DEF VersionsMove, Settings, OptionsOf
<1>13. ASSUME CaptionsResolve(d) PROVE CaptionsResolve(e)
  <2> SUFFICES ASSUME NEW u \in LiveTables(d), e.table[u].caption # NoCaption PROVE StringFieldNamed(e, u, e.table[u].caption)
    BY <1>8 DEF CaptionsResolve
  <2>1. e.table[u].caption = d.table[u].caption /\ (u = t => e.table[u].caption # FieldName[f])
    BY <1>3, <1>8
  <2>2. PICK g \in FieldsOf(d, u) : FieldName[g] = e.table[u].caption /\ DataType[g] = "string"
    BY <1>13, <2>1 DEF CaptionsResolve, StringFieldNamed, findTableFieldByName
  <2>3. g \in FieldsOf(e, u)
    BY <1>5, <1>8, <2>1, <2>2 DEF FieldsOf
  <2> QED
    BY <2>2, <2>3 DEF StringFieldNamed, findTableFieldByName
<1> QED
  BY <1>3, <1>5, <1>8, <1>11, <1>12, <1>13

\* DeleteField: what uses the field was looked up before the transaction.
LEMMA DeleteFieldKeeps ==
  ASSUME NEW d, Sound(d), NEW r, CanDeleteField(d, r), FieldName[r.in.id] \notin DefaultColumns
  PROVE  /\ Keeps(d, DeleteField(d, r), {"deleteField"})
         /\ MayDeleteField(d, r.in) => Keeps(d, DeleteField(d, r), {})
         /\ LiveTables(DeleteField(d, r)) = LiveTables(d)
<1> DEFINE f == r.in.id
           d1 == DropField(d, NameOf(f), FieldName[f])
           e == DeleteFieldRow(d1, f)
<1>1. /\ SameBut(d, d1, {"phys", "uniq", "index"})
      /\ d1.phys = [d.phys EXCEPT ![NameOf(f)] = @ \ {FieldName[f]}]
      /\ d1.uniq = d.uniq \ {Index(f)}
  BY DEF SameBut, Components, DropField, Sound, Shape, Index
<1> HIDE DEF d1
<1>2. /\ Sound(d1)
      /\ d1.table = d.table /\ d1.field = d.field /\ d1.enum = d.enum /\ d1.links = d.links /\ d1.pivots = d.pivots
      /\ d1.navs = d.navs /\ d1.options = d.options /\ d1.contract = d.contract
      /\ LiveTables(d1) = LiveTables(d) /\ LiveFields(d1) = LiveFields(d)
  BY <1>1, SchemaOnly
<1>3. LinksOn(d1, {f}) = LinksOn(d, {f})
  BY <1>2 DEF LinksOn
<1>4. /\ Sound(e) /\ VersionsMove(d1, e)
      /\ CaptionsResolve(d1) => CaptionsResolve(e)
      /\ EnumsFlagged(d1) => EnumsFlagged(e)
      /\ f \in LiveFields(d) => /\ LinksOn(d1, {f}) = {} /\ PathsResolve(d1) => PathsResolve(e)
                                /\ LiveFields(e) = LiveFields(d) \ {f}
                                /\ \A g \in LiveFields(e) : e.field[g] = d.field[g]
                                /\ e.phys = d1.phys /\ e.uniq = d1.uniq
      /\ LiveTables(e) = LiveTables(d)
  <2>1. CASE f \in LiveFields(d)
    <3>1. CanDeleteFieldRow(d1, f)
      BY <1>1, <2>1, CanDeleteFieldSame DEF CanDeleteField
    <3> QED
      BY <1>2, <2>1, <3>1, FieldRowDeleted
  <2>2. CASE f \notin LiveFields(d)
    <3>1. e = d1
      BY <1>2, <2>2 DEF DeleteFieldRow
    <3>2. Rows(d1)
      BY <1>2, SoundRows
    <3> QED
      BY <1>2, <2>2, <3>1, <3>2, SameVersions
  <2> QED
    BY <2>1, <2>2
<1> HIDE DEF e
<1>5. VersionsMove(d, e)
  BY <1>2, <1>4 DEF VersionsMove, Settings, OptionsOf
<1>6. CaptionsResolve(d) => CaptionsResolve(e)
  BY <1>2, <1>4, CaptionsSame
<1>7. EnumsFlagged(d) => EnumsFlagged(e)
  BY <1>2, <1>4 DEF EnumsFlagged
<1>8. Keeps(d, e, {"deleteField"})
  BY <1>4, <1>5, <1>6, <1>7 DEF Keeps
<1>9. ASSUME MayDeleteField(d, r.in) PROVE Keeps(d, e, {})
  <2>1. f \in LiveFields(d) /\ LinksOn(d, {f}) = {}
    BY <1>9 DEF MayDeleteField, FieldConflicts
  <2>2. /\ LiveFields(e) = LiveFields(d) \ {f} /\ \A g \in LiveFields(e) : e.field[g] = d.field[g]
        /\ e.phys = [d.phys EXCEPT ![NameOf(f)] = @ \ {FieldName[f]}] /\ e.uniq = d.uniq \ {Index(f)}
    BY <1>1, <1>4, <2>1
  <2>3. PathsResolve(d) => PathsResolve(e)
    BY <1>2, <1>3, <1>4, <2>1 DEF PathsResolve
  <2>4. ASSUME TablesBuilt(d) PROVE TablesBuilt(e)
    <3>1. DOMAIN e.phys = {TableName[u] : u \in LiveTables(e)}
      BY <1>4, <2>2, <2>4 DEF TablesBuilt
    <3>2. ASSUME NEW u \in LiveTables(d) PROVE e.phys[TableName[u]] = Columns(e, u)
      <4>0. TableName[u] \in DOMAIN d.phys /\ d.phys[TableName[u]] = Columns(d, u)
        BY <2>4 DEF TablesBuilt
      <4>1. CASE u = FieldTable[f]
        <5>1. e.phys[TableName[u]] = d.phys[TableName[u]] \ {FieldName[f]}
          BY <2>2, <4>0, <4>1 DEF NameOf
        <5>2. \A g \in FieldsOf(d, u) : FieldName[g] = FieldName[f] => g = f
          BY <2>1, <4>1 DEF Sound, NamesUnique, FieldsOf
        <5>3. FieldsOf(e, u) = FieldsOf(d, u) \ {f} /\ f \in FieldsOf(d, u)
          BY <2>1, <2>2, <4>1 DEF FieldsOf
        <5>4. Columns(e, u) = Columns(d, u) \ {FieldName[f]}
          BY <5>2, <5>3 DEF Columns
        <5> QED
          BY <4>0, <5>1, <5>4
      <4>2. CASE u # FieldTable[f]
        <5>1. TableName[u] # NameOf(f)
          BY <2>1, <4>2 DEF Sound, NamesUnique, NameOf, RowsReferred
        <5>2. e.phys[TableName[u]] = d.phys[TableName[u]]
          BY <2>2, <4>0, <5>1
        <5>3. Columns(e, u) = Columns(d, u)
          BY <2>2, <4>2 DEF Columns, FieldsOf
        <5> QED
          BY <4>0, <5>2, <5>3
      <4> QED
        BY <4>1, <4>2
    <3> QED
      BY <1>4, <3>1, <3>2 DEF TablesBuilt
  <2>5. ASSUME IndexesBuilt(d) PROVE IndexesBuilt(e)
    <3>1. d.uniq = {Index(g) : g \in {x \in LiveFields(d) : d.field[x].unique}}
      BY <2>5, IndexesAre DEF IndexesBuilt
    <3>2. \A g \in LiveFields(d) : Index(g) = Index(f) => g = f
      BY <2>1, IndexesDiffer
    <3>3. {x \in LiveFields(e) : e.field[x].unique} = {x \in LiveFields(d) : d.field[x].unique} \ {f}
      BY <2>2
    <3> QED
      BY <2>2, <3>1, <3>2, <3>3, IndexesAre DEF IndexesBuilt
  <2> QED
    BY <1>4, <1>5, <1>6, <1>7, <2>3, <2>4, <2>5 DEF Keeps
<1>10. DeleteField(d, r) = recordTenantSchemaMigration(e)
  BY DEF DeleteField, e, d1
<1>11. LiveTables(DeleteField(d, r)) = LiveTables(d)
  <2>1. DOMAIN e = Components
    BY <1>4 DEF Sound, Shape
  <2> QED
    BY <1>4, <1>10, <2>1, Migration, AlikeIs DEF LiveTables
<1> QED
  BY <1>8, <1>9, <1>10, <1>11, KeepsThenMigration

\* The deletion of the row of table t: h before the links are cleaned, m after.
TableRowGoes(d, t, fs, h, ls, m) ==
  /\ fs = FieldsOf(d, t) /\ ls = LinksOn(d, fs)
  /\ h = OptionsWithoutFields(TableGone(d, t), fs) /\ m = clean_link_display(h, ls)

\* What the deletion of the row of table t leaves: h before the links are cleaned, m after.
TableRowLeft(d, t, fs, h, ls, m) ==
  /\ Rows(m) /\ LiveTables(m) = LiveTables(d) \ {t}
  /\ RowsLeft(d, m, fs) /\ \A p \in m.pivots : PivotBase[p] # t
  /\ h.field = m.field /\ h.links = m.links
  /\ m.contract = Without(d.contract, {t}) /\ m.phys = d.phys /\ m.uniq = d.uniq
  /\ DOMAIN m.options = DOMAIN d.options \ {t} /\ DOMAIN h.options = DOMAIN d.options \ {t}
  /\ \A u \in DOMAIN d.options \ {t} :
       /\ h.options[u] = IF u \in TouchedByFields(d, fs) THEN WithoutFields(d.options[u], fs) ELSE d.options[u]
       /\ m.options[u] = IF u \in TouchedByLinks(h, ls) THEN WithoutLinks(h.options[u], ls) ELSE h.options[u]
  /\ \A u \in LiveTables(m) : m.table[u].caption = d.table[u].caption
  /\ VersionsMove(d, m)

\* The rows that are left when table t and what refers to it are gone.
RowsGoneWith(d, t, fs, g) ==
  /\ Rows(g) /\ LiveTables(g) = LiveTables(d) \ {t}
  /\ \A u \in LiveTables(g) : g.table[u] = d.table[u]
  /\ RowsLeft(d, g, fs) /\ \A p \in g.pivots : PivotBase[p] # t
  /\ g.contract = Without(d.contract, {t}) /\ g.phys = d.phys /\ g.uniq = d.uniq
  /\ DOMAIN g.options = DOMAIN d.options \ {t}
  /\ \A u \in DOMAIN g.options : g.options[u] = d.options[u]

\* The deletion of a table row and of its fields, before options are cleaned.
LEMMA TableGoneIs ==
  ASSUME NEW d, Rows(d), NEW t, NEW fs, fs = FieldsOf(d, t), NEW g, g = TableGone(d, t)
  PROVE  RowsGoneWith(d, t, fs, g)
<1> DEFINE c == CascadeFields(d, fs)
<1>1. /\ Rows(c) /\ DOMAIN c = Components
      /\ c.table = d.table /\ c.options = d.options /\ c.contract = d.contract /\ c.phys = d.phys /\ c.uniq = d.uniq
  BY CascadeRows
<1>2. RowsLeft(d, c, fs)
  BY Cascade DEF Rows
<1>3. g = [c EXCEPT !.table = Without(@, {t}), !.contract = Without(@, {t}), !.options = Without(@, {t}),
                    !.jobs = Without(@, {k \in DOMAIN @ : k.table = t}), !.pivots = {p \in @ : PivotBase[p] # t}]
  BY DEF TableGone
<1> HIDE DEF c
<1>4. /\ DOMAIN g = Components /\ g.table = Without(c.table, {t}) /\ g.contract = Without(c.contract, {t})
      /\ g.options = Without(c.options, {t}) /\ g.pivots = {p \in c.pivots : PivotBase[p] # t}
      /\ g.field = c.field /\ g.enum = c.enum /\ g.links = c.links /\ g.navs = c.navs /\ g.phys = c.phys /\ g.uniq = c.uniq
  BY <1>1, <1>3 DEF Components
<1> HIDE DEF TableGone
<1>5. LiveTables(g) = LiveTables(d) \ {t} /\ \A u \in LiveTables(g) : g.table[u] = d.table[u]
  BY <1>1, <1>4 DEF LiveTables, Without, Restrict
<1>6. DOMAIN g.options = DOMAIN d.options \ {t} /\ \A u \in DOMAIN g.options : g.options[u] = d.options[u]
  BY <1>1, <1>4 DEF Without, Restrict
<1>7. Rows(g)
  BY <1>4, <1>5, <1>6 DEF Rows
<1>8. RowsLeft(d, g, fs)
  BY <1>2, <1>4, RowsLeftSame
<1>9. \A p \in g.pivots : PivotBase[p] # t
  BY <1>4
<1> QED
  BY <1>1, <1>4, <1>5, <1>6, <1>7, <1>8, <1>9 DEF RowsGoneWith

\* The deletion of a table row, its cascade and the cleaning triggers, step by step.
LEMMA TableRowIs ==
  ASSUME NEW d, Rows(d), NEW t, NEW fs, NEW h, NEW ls, NEW m, TableRowGoes(d, t, fs, h, ls, m)
  PROVE  TableRowLeft(d, t, fs, h, ls, m)
<1> DEFINE g == TableGone(d, t)
<1>a. fs = FieldsOf(d, t) /\ ls = LinksOn(d, fs) /\ h = OptionsWithoutFields(g, fs) /\ m = clean_link_display(h, ls)
  BY DEF TableRowGoes
<1>b. fs = FieldsOf(d, t) /\ g = TableGone(d, t)
  BY <1>a
<1> HIDE DEF g
<1>1. /\ Rows(g) /\ LiveTables(g) = LiveTables(d) \ {t}
      /\ \A u \in LiveTables(g) : g.table[u] = d.table[u]
      /\ RowsLeft(d, g, fs) /\ \A p \in g.pivots : PivotBase[p] # t
      /\ g.contract = Without(d.contract, {t}) /\ g.phys = d.phys /\ g.uniq = d.uniq
      /\ DOMAIN g.options = DOMAIN d.options \ {t}
      /\ \A u \in DOMAIN g.options : g.options[u] = d.options[u]
  <2>1. RowsGoneWith(d, t, fs, g)
    BY <1>b, TableGoneIs
  <2> QED
    BY <2>1 DEF RowsGoneWith
<1>2. /\ OptionsMove(g, h) /\ Rows(h)
      /\ \A u \in LiveTables(g) : h.table[u].caption = g.table[u].caption
      /\ \A u \in DOMAIN g.options :
           h.options[u] = IF u \in TouchedByFields(g, fs) THEN WithoutFields(g.options[u], fs) ELSE g.options[u]
  BY <1>1, <1>a, FieldsCleaned
<1>3. /\ OptionsMove(h, m) /\ Rows(m)
      /\ \A u \in LiveTables(h) : m.table[u].caption = h.table[u].caption
      /\ \A u \in DOMAIN h.options :
           m.options[u] = IF u \in TouchedByLinks(h, ls) THEN WithoutLinks(h.options[u], ls) ELSE h.options[u]
  BY <1>2, <1>a, LinksCleaned
<1>4. /\ h.field = g.field /\ h.enum = g.enum /\ h.links = g.links /\ h.pivots = g.pivots
      /\ h.navs = g.navs /\ h.contract = g.contract /\ h.phys = g.phys /\ h.uniq = g.uniq
      /\ LiveTables(h) = LiveTables(g) /\ DOMAIN h.options = DOMAIN g.options
  BY <1>2, MoveIs
<1>5. /\ m.field = h.field /\ m.enum = h.enum /\ m.links = h.links /\ m.pivots = h.pivots
      /\ m.navs = h.navs /\ m.contract = h.contract /\ m.phys = h.phys /\ m.uniq = h.uniq
      /\ LiveTables(m) = LiveTables(h) /\ DOMAIN m.options = DOMAIN h.options
  BY <1>3, MoveIs
<1>6. \A u \in DOMAIN g.options : u \in TouchedByFields(g, fs) <=> u \in TouchedByFields(d, fs)
  BY <1>1 DEF TouchedByFields
<1>7. \A u \in DOMAIN d.options \ {t} :
       /\ h.options[u] = IF u \in TouchedByFields(d, fs) THEN WithoutFields(d.options[u], fs) ELSE d.options[u]
       /\ m.options[u] = IF u \in TouchedByLinks(h, ls) THEN WithoutLinks(h.options[u], ls) ELSE h.options[u]
  <2> SUFFICES ASSUME NEW u \in DOMAIN d.options \ {t}
               PROVE  /\ h.options[u] = IF u \in TouchedByFields(d, fs) THEN WithoutFields(d.options[u], fs) ELSE d.options[u]
                      /\ m.options[u] = IF u \in TouchedByLinks(h, ls) THEN WithoutLinks(h.options[u], ls) ELSE h.options[u]
    OBVIOUS
  <2>1. u \in DOMAIN g.options /\ u \in DOMAIN h.options /\ g.options[u] = d.options[u]
    BY <1>1, <1>4
  <2>2. h.options[u] = IF u \in TouchedByFields(d, fs) THEN WithoutFields(d.options[u], fs) ELSE d.options[u]
    BY <1>2, <1>6, <2>1
  <2>3. m.options[u] = IF u \in TouchedByLinks(h, ls) THEN WithoutLinks(h.options[u], ls) ELSE h.options[u]
    BY <1>3, <2>1
  <2> QED
    BY <2>2, <2>3
<1>8. RowsLeft(d, m, fs)
  <2>1. m.field = g.field /\ m.enum = g.enum /\ m.links = g.links /\ m.pivots \subseteq g.pivots /\ m.navs = g.navs
    BY <1>4, <1>5
  <2> QED
    BY <1>1, <2>1, RowsLeftSame
<1>9. VersionsMove(g, m)
  <2>1. OptionsMove(g, m)
    BY <1>1, <1>2, <1>3, MovesCompose
  <2> QED
    BY <1>1, <2>1, MoveVersions
<1>10. VersionsMove(d, m)
  <2> SUFFICES ASSUME NEW u \in LiveTables(d) \cap LiveTables(m)
               PROVE  /\ m.table[u].version >= d.table[u].version
                      /\ Settings(m, u) # Settings(d, u) => m.table[u].version > d.table[u].version
    BY DEF VersionsMove
  <2>1. u \in LiveTables(g) /\ u # t /\ g.table[u] = d.table[u]
    BY <1>1, <1>4, <1>5
  <2>2. Settings(g, u) = Settings(d, u)
    BY <1>1, <2>1 DEF Settings, OptionsOf
  <2> QED
    BY <1>9, <2>1, <2>2 DEF VersionsMove
<1>11. \A u \in LiveTables(m) : m.table[u].caption = d.table[u].caption
  BY <1>1, <1>2, <1>3, <1>4, <1>5
<1>12. /\ LiveTables(m) = LiveTables(d) \ {t} /\ \A p \in m.pivots : PivotBase[p] # t
       /\ h.field = m.field /\ h.links = m.links
       /\ m.contract = Without(d.contract, {t}) /\ m.phys = d.phys /\ m.uniq = d.uniq
       /\ DOMAIN m.options = DOMAIN d.options \ {t} /\ DOMAIN h.options = DOMAIN d.options \ {t}
  BY <1>1, <1>4, <1>5
<1> QED
  BY <1>3, <1>7, <1>8, <1>10, <1>11, <1>12 DEF TableRowLeft

\* Options that the deletion leaves as they are do not use what is gone.
LEMMA UnchangedOptions ==
  ASSUME NEW d, NEW t, NEW fs, NEW h, NEW ls, NEW m, TableRowLeft(d, t, fs, h, ls, m),
         NEW u \in DOMAIN d.options \ {t}, m.options[u] = d.options[u]
  PROVE  /\ WithoutFields(d.options[u], fs).columns = d.options[u].columns
         /\ WithoutLinks(d.options[u], ls).columns = d.options[u].columns
<1>1. /\ h.options[u] = IF u \in TouchedByFields(d, fs) THEN WithoutFields(d.options[u], fs) ELSE d.options[u]
      /\ m.options[u] = IF u \in TouchedByLinks(h, ls) THEN WithoutLinks(h.options[u], ls) ELSE h.options[u]
      /\ u \in DOMAIN h.options
  BY DEF TableRowLeft
<1>2. \A o : WithoutFields(o, fs).columns \subseteq o.columns
  BY DEF WithoutFields
<1>3. \A o : WithoutLinks(o, ls).columns \subseteq o.columns
  BY DEF WithoutLinks
<1>4. u \notin TouchedByFields(d, fs) => WithoutFields(d.options[u], fs).columns = d.options[u].columns
  BY DEF TouchedByFields
<1>5. u \notin TouchedByLinks(h, ls) => WithoutLinks(h.options[u], ls).columns = h.options[u].columns
  BY <1>1 DEF TouchedByLinks
<1>6. h.options[u].columns = d.options[u].columns
  <2>1. h.options[u].columns \subseteq d.options[u].columns
    BY <1>1, <1>2
  <2>2. m.options[u].columns \subseteq h.options[u].columns
    BY <1>1, <1>3
  <2> QED
    BY <2>1, <2>2
<1>7. WithoutFields(d.options[u], fs).columns = d.options[u].columns
  BY <1>1, <1>4, <1>6
<1>8. WithoutLinks(h.options[u], ls).columns = d.options[u].columns
  BY <1>1, <1>5, <1>6
<1>9. WithoutLinks(d.options[u], ls).columns = WithoutLinks(h.options[u], ls).columns
  BY <1>6 DEF WithoutLinks
<1> QED
  BY <1>7, <1>8, <1>9

\* The checks on the options say the same before the physical table is dropped and after.
LEMMA SameRowLeft ==
  ASSUME NEW d, NEW e, NEW t, NEW fs, NEW ls, NEW kd, NEW md, NEW ke, NEW me,
         TableRowLeft(d, t, fs, kd, ls, md), TableRowLeft(e, t, fs, ke, ls, me), LinksOn(e, fs) = LinksOn(d, fs),
         e.options = d.options, e.field = d.field, e.links = d.links
  PROVE  me.field = md.field /\ me.links = md.links /\ \A u \in DOMAIN d.options \ {t} : me.options[u] = md.options[u]
<1>1. md.field = Without(d.field, fs) /\ md.links = d.links \ LinksOn(d, fs) /\ kd.field = md.field /\ kd.links = md.links
  BY DEF TableRowLeft, RowsLeft
<1>2. me.field = Without(e.field, fs) /\ me.links = e.links \ LinksOn(e, fs) /\ ke.field = me.field /\ ke.links = me.links
  BY DEF TableRowLeft, RowsLeft
<1>3. TouchedByFields(e, fs) = TouchedByFields(d, fs)
  BY DEF TouchedByFields
<1>4. /\ DOMAIN kd.options = DOMAIN d.options \ {t}
      /\ \A u \in DOMAIN d.options \ {t} :
           /\ kd.options[u] = IF u \in TouchedByFields(d, fs) THEN WithoutFields(d.options[u], fs) ELSE d.options[u]
           /\ md.options[u] = IF u \in TouchedByLinks(kd, ls) THEN WithoutLinks(kd.options[u], ls) ELSE kd.options[u]
  BY DEF TableRowLeft
<1>5. /\ DOMAIN ke.options = DOMAIN d.options \ {t}
      /\ \A u \in DOMAIN d.options \ {t} :
           /\ ke.options[u] = IF u \in TouchedByFields(d, fs) THEN WithoutFields(d.options[u], fs) ELSE d.options[u]
           /\ me.options[u] = IF u \in TouchedByLinks(ke, ls) THEN WithoutLinks(ke.options[u], ls) ELSE ke.options[u]
  BY <1>3 DEF TableRowLeft
<1>6. \A u \in DOMAIN d.options \ {t} : ke.options[u] = kd.options[u]
  BY <1>4, <1>5
<1>7. TouchedByLinks(ke, ls) = TouchedByLinks(kd, ls)
  BY <1>4, <1>5, <1>6 DEF TouchedByLinks
<1>8. \A u \in DOMAIN d.options \ {t} : me.options[u] = md.options[u]
  BY <1>4, <1>5, <1>6, <1>7
<1> QED
  BY <1>1, <1>2, <1>8

\* A table row that is deleted leaves a sound database.
LEMMA TableRowDeleted ==
  ASSUME NEW d, Sound(d), NEW t \in LiveTables(d), NEW fs, fs = FieldsOf(d, t), NEW ls, ls = LinksOn(d, fs), NEW h, NEW m,
         TableRowLeft(d, t, fs, h, ls, m),
         \A u \in DOMAIN d.options \ {t} : m.options[u] # d.options[u] => validate_display_options(m, u)
  PROVE  /\ Sound(m)
         /\ CaptionsResolve(d) => CaptionsResolve(m)
         /\ EnumsFlagged(d) => EnumsFlagged(m)
         /\ LinksOn(d, fs) = {} /\ PathsResolve(d) => PathsResolve(m)
         /\ LiveFields(m) = LiveFields(d) \ fs /\ \A g \in LiveFields(m) : m.field[g] = d.field[g]
<1>1. /\ Rows(m) /\ LiveTables(m) = LiveTables(d) \ {t}
      /\ RowsLeft(d, m, fs) /\ \A p \in m.pivots : PivotBase[p] # t
      /\ m.contract = Without(d.contract, {t})
      /\ DOMAIN m.options = DOMAIN d.options \ {t}
      /\ \A u \in LiveTables(m) : m.table[u].caption = d.table[u].caption
  BY DEF TableRowLeft
<1>2. LiveFields(m) = LiveFields(d) \ fs /\ \A g \in LiveFields(m) : m.field[g] = d.field[g]
  BY <1>1 DEF RowsLeft, Without, Restrict, LiveFields
<1>3. \A u \in LiveTables(m) : FieldsOf(m, u) = FieldsOf(d, u)
  BY <1>1, <1>2 DEF FieldsOf
<1>4. ContractsCurrent(m)
  <2>1. DOMAIN m.contract = LiveTables(m) /\ \A u \in LiveTables(m) : m.contract[u] = d.contract[u]
    BY <1>1 DEF Sound, ContractsCurrent, Without, Restrict
  <2>2. ASSUME NEW u \in LiveTables(m) PROVE Document(m, u) = Document(d, u)
    <3>1. FieldsOf(m, u) = FieldsOf(d, u) /\ \A g \in FieldsOf(d, u) : m.field[g] = d.field[g] /\ g \notin fs
      BY <1>1, <1>2, <1>3 DEF FieldsOf
    <3>2. \A g \in FieldsOf(d, u) : \A x : EnumField[x] = g =>
              (x \in DOMAIN m.enum <=> x \in DOMAIN d.enum) /\ (x \in DOMAIN d.enum => m.enum[x] = d.enum[x])
      <4>1. m.enum = Without(d.enum, {x \in DOMAIN d.enum : EnumField[x] \in fs})
        BY <1>1 DEF RowsLeft
      <4>2. /\ \A x \in DOMAIN d.enum : EnumField[x] \notin fs => x \in DOMAIN m.enum /\ m.enum[x] = d.enum[x]
            /\ DOMAIN m.enum \subseteq DOMAIN d.enum
        BY <4>1 DEF Without, Restrict
      <4> QED
        BY <3>1, <4>2
    <3>3. FieldsOf(m, u) = FieldsOf(d, u) /\ \A g \in FieldsOf(d, u) : m.field[g] = d.field[g]
      BY <3>1
    <3> QED
      BY <3>2, <3>3, DocumentSame
  <2>3. \A u \in LiveTables(m) : d.contract[u] = Document(d, u)
    BY <1>1 DEF Sound, ContractsCurrent
  <2> QED
    BY <2>1, <2>2, <2>3 DEF ContractsCurrent
<1>5. OptionsStand(m)
  <2> SUFFICES ASSUME NEW u \in DOMAIN d.options \ {t} PROVE OptionStands(m, u)
    BY <1>1 DEF OptionsStand
  <2>1. CASE m.options[u] # d.options[u]
    BY <2>1, ValidStands
  <2>2. CASE m.options[u] = d.options[u]
    <3>1. /\ WithoutFields(d.options[u], fs).columns = d.options[u].columns
          /\ WithoutLinks(d.options[u], ls).columns = d.options[u].columns
      BY <2>2, UnchangedOptions
    <3>2. LiveFields(m) = LiveFields(d) \ fs /\ m.links = d.links \ LinksOn(d, fs) /\ \A g \in fs : FieldTable[g] # u
      BY <1>1, <1>2 DEF RowsLeft, FieldsOf
    <3>3. m.options[u].shown = d.options[u].shown /\ m.options[u].columns = d.options[u].columns
      BY <2>2
    <3>4. WithoutLinks(d.options[u], LinksOn(d, fs)).columns = d.options[u].columns
      BY <3>1
    <3>5. OptionStands(d, u)
      BY DEF Sound, OptionsStand
    <3>6. WithoutFields(d.options[u], fs).columns = d.options[u].columns
      BY <3>1
    <3> QED
      BY <3>2, <3>3, <3>4, <3>5, <3>6, OptionsLeft
  <2> QED
    BY <2>1, <2>2
<1>6. /\ Sound(m)
      /\ EnumsFlagged(d) => EnumsFlagged(m)
      /\ LinksOn(d, fs) = {} /\ PathsResolve(d) => PathsResolve(m)
  <2> DEFINE ts == {t}
  <2>1. LiveTables(m) = LiveTables(d) \ ts /\ DOMAIN m.options = DOMAIN d.options \ ts
    BY <1>1
  <2>2. \A p \in m.pivots : PivotBase[p] \notin ts
    BY <1>1
  <2>3. \A g \in fs : FieldTable[g] \in ts \/ FieldName[g] \notin DefaultColumns
    BY DEF FieldsOf
  <2>4. \A g \in LiveFields(d) : FieldTable[g] \in ts => g \in fs
    BY DEF FieldsOf
  <2>5. RowsLeft(d, m, fs) /\ Rows(m)
    BY <1>1
  <2> HIDE DEF ts
  <2> QED
    BY <1>4, <1>5, <2>1, <2>2, <2>3, <2>4, <2>5, RowsGone
<1>7. ASSUME CaptionsResolve(d) PROVE CaptionsResolve(m)
  <2>1. \A u \in LiveTables(m) : \A name : StringFieldNamed(m, u, name) <=> StringFieldNamed(d, u, name)
    BY <1>3 DEF StringFieldNamed, findTableFieldByName
  <2> QED
    BY <1>1, <1>7, <2>1 DEF CaptionsResolve
<1> QED
  BY <1>2, <1>6, <1>7

\* DeleteTable: the links to its fields were looked up before the transaction.
LEMMA DeleteTableKeeps ==
  ASSUME NEW d, Sound(d), NEW r, CanDeleteTable(d, r)
  PROVE  /\ Keeps(d, DeleteTable(d, r), {"deleteTable"})
         /\ MayDeleteTable(d, r.in) => Keeps(d, DeleteTable(d, r), {})
         /\ LiveTables(DeleteTable(d, r)) \subseteq LiveTables(d)
<1> DEFINE t == r.in.id
           name == TableName[t]
           d1 == DropTable(d, name)
           e == DeleteTableRow(d1, t)
<1>1. /\ SameBut(d, d1, {"phys", "uniq", "index"})
      /\ d1.phys = Without(d.phys, {name})
      /\ d1.uniq = {x \in d.uniq : x.table # name}
  BY DEF SameBut, Components, DropTable, Sound, Shape
<1> HIDE DEF d1
<1>2. /\ Sound(d1)
      /\ d1.table = d.table /\ d1.field = d.field /\ d1.enum = d.enum /\ d1.links = d.links /\ d1.pivots = d.pivots
      /\ d1.navs = d.navs /\ d1.options = d.options /\ d1.contract = d.contract
      /\ LiveTables(d1) = LiveTables(d) /\ LiveFields(d1) = LiveFields(d)
  BY <1>1, SchemaOnly
<1>3. /\ Sound(e) /\ VersionsMove(d1, e)
      /\ CaptionsResolve(d1) => CaptionsResolve(e)
      /\ EnumsFlagged(d1) => EnumsFlagged(e)
      /\ LiveTables(e) = LiveTables(d) \ {t}
      /\ t \in LiveTables(d) => /\ LinksOn(d, FieldsOf(d, t)) = {} /\ PathsResolve(d1) => PathsResolve(e)
                                /\ LiveFields(e) = LiveFields(d) \ FieldsOf(d, t)
                                /\ \A g \in LiveFields(e) : e.field[g] = d.field[g]
                                /\ e.phys = d1.phys /\ e.uniq = d1.uniq
  <2>1. CASE t \in LiveTables(d)
    <3> DEFINE fs == FieldsOf(d, t)
               ls == LinksOn(d, fs)
               kd == OptionsWithoutFields(TableGone(d, t), fs)
               md == clean_link_display(kd, ls)
               ke == OptionsWithoutFields(TableGone(d1, t), fs)
    <3>1. FieldsOf(d1, t) = fs /\ LinksOn(d1, fs) = ls
      BY <1>2 DEF FieldsOf, LinksOn
    <3>2. DeleteTableRow(d, t) = md
      BY <2>1 DEF DeleteTableRow
    <3>3. e = clean_link_display(ke, ls)
      BY <1>2, <2>1, <3>1 DEF DeleteTableRow
    <3>4. \A u \in DOMAIN d.options \ {t} : md.options[u] # d.options[u] => validate_display_options(md, u)
      BY <2>1, <3>2 DEF CanDeleteTable, CanDeleteTableRow
    <3>5. TableRowGoes(d, t, fs, kd, ls, md)
      BY DEF TableRowGoes
    <3>6. TableRowGoes(d1, t, fs, ke, ls, e)
      BY <3>1, <3>3 DEF TableRowGoes
    <3>7. fs = FieldsOf(d, t) /\ ls = LinksOn(d, fs)
      OBVIOUS
    <3> HIDE DEF fs, ls, kd, md, ke, e
    <3>8. TableRowLeft(d, t, fs, kd, ls, md)
      BY <3>5, SoundRows, TableRowIs
    <3>9. TableRowLeft(d1, t, fs, ke, ls, e)
      BY <1>2, <3>6, SoundRows, TableRowIs
    <3>10. LinksOn(d1, fs) = LinksOn(d, fs)
      BY <1>2 DEF LinksOn
    <3>11. e.field = md.field /\ e.links = md.links /\ \A u \in DOMAIN d.options \ {t} : e.options[u] = md.options[u]
      BY <1>2, <3>8, <3>9, <3>10, SameRowLeft
    <3>12. \A u \in DOMAIN d1.options \ {t} : e.options[u] # d1.options[u] => validate_display_options(e, u)
      BY <1>2, <3>4, <3>11, ValidSame
    <3>13. fs = FieldsOf(d1, t) /\ ls = LinksOn(d1, fs) /\ t \in LiveTables(d1)
      BY <1>2, <2>1, <3>1
    <3>14. /\ Sound(e)
           /\ CaptionsResolve(d1) => CaptionsResolve(e)
           /\ EnumsFlagged(d1) => EnumsFlagged(e)
           /\ LinksOn(d1, fs) = {} /\ PathsResolve(d1) => PathsResolve(e)
           /\ LiveFields(e) = LiveFields(d1) \ fs /\ \A g \in LiveFields(e) : e.field[g] = d1.field[g]
      BY <1>2, <3>9, <3>12, <3>13, TableRowDeleted
    <3>15. VersionsMove(d1, e) /\ LiveTables(e) = LiveTables(d) \ {t} /\ e.phys = d1.phys /\ e.uniq = d1.uniq
      BY <1>2, <3>9 DEF TableRowLeft
    <3> QED
      BY <1>2, <3>7, <3>10, <3>14, <3>15
  <2>2. CASE t \notin LiveTables(d)
    <3>1. e = d1
      BY <1>2, <2>2 DEF DeleteTableRow
    <3>2. Rows(d1)
      BY <1>2, SoundRows
    <3> QED
      BY <1>2, <2>2, <3>1, <3>2, SameVersions
  <2> QED
    BY <2>1, <2>2
<1> HIDE DEF e
<1>5. VersionsMove(d, e)
  BY <1>2, <1>3 DEF VersionsMove, Settings, OptionsOf
<1>6. CaptionsResolve(d) => CaptionsResolve(e)
  BY <1>2, <1>3, CaptionsSame
<1>7. EnumsFlagged(d) => EnumsFlagged(e)
  BY <1>2, <1>3 DEF EnumsFlagged
<1>8. Keeps(d, e, {"deleteTable"})
  BY <1>3, <1>5, <1>6, <1>7 DEF Keeps
<1>9. ASSUME MayDeleteTable(d, r.in) PROVE Keeps(d, e, {})
  <2> DEFINE fs == FieldsOf(d, t)
  <2>1. t \in LiveTables(d) /\ LinksOn(d, fs) = {}
    BY <1>9 DEF MayDeleteTable, TableConflicts, LinksOn, FieldsOf, ParentTable, ChildTable
  <2>2. /\ LiveFields(e) = LiveFields(d) \ fs /\ \A g \in LiveFields(e) : e.field[g] = d.field[g]
        /\ e.phys = Without(d.phys, {name}) /\ e.uniq = {x \in d.uniq : x.table # name}
    BY <1>1, <1>3, <2>1
  <2>3. PathsResolve(d) => PathsResolve(e)
    BY <1>2, <1>3, <2>1 DEF PathsResolve
  <2>4. \A u \in LiveTables(d) : TableName[u] = name => u = t
    BY <2>1 DEF Sound, NamesUnique
  <2>5. ASSUME TablesBuilt(d) PROVE TablesBuilt(e)
    <3>1. DOMAIN e.phys = {TableName[u] : u \in LiveTables(e)}
      BY <1>3, <2>2, <2>4, <2>5 DEF TablesBuilt, Without, Restrict
    <3>2. ASSUME NEW u \in LiveTables(e) PROVE e.phys[TableName[u]] = Columns(e, u)
      <4>1. u \in LiveTables(d) /\ u # t /\ TableName[u] # name
        BY <1>3, <2>4
      <4>2. e.phys[TableName[u]] = Columns(d, u)
        BY <2>2, <2>5, <4>1 DEF TablesBuilt, Without, Restrict
      <4>3. FieldsOf(e, u) = FieldsOf(d, u)
        BY <2>2, <4>1 DEF FieldsOf
      <4> QED
        BY <4>2, <4>3 DEF Columns
    <3> QED
      BY <3>1, <3>2 DEF TablesBuilt
  <2>6. ASSUME IndexesBuilt(d) PROVE IndexesBuilt(e)
    <3>1. d.uniq = {Index(g) : g \in {x \in LiveFields(d) : d.field[x].unique}}
      BY <2>6, IndexesAre DEF IndexesBuilt
    <3>2. \A g \in LiveFields(d) : Index(g).table = name <=> g \in fs
      BY <2>4 DEF Index, NameOf, FieldsOf, Sound, RowsReferred
    <3>3. {x \in LiveFields(e) : e.field[x].unique} = {x \in LiveFields(d) : d.field[x].unique} \ fs
      BY <2>2
    <3>4. {x \in d.uniq : x.table # name} = {Index(g) : g \in {x \in LiveFields(d) : d.field[x].unique} \ fs}
      BY <3>1, <3>2
    <3> QED
      BY <2>2, <3>3, <3>4, IndexesAre DEF IndexesBuilt
  <2> QED
    BY <1>3, <1>5, <1>6, <1>7, <2>3, <2>5, <2>6 DEF Keeps
<1>10. DeleteTable(d, r) = recordTenantSchemaMigration(e)
  BY DEF DeleteTable, e, d1
<1>11. LiveTables(DeleteTable(d, r)) \subseteq LiveTables(d)
  <2>1. DOMAIN e = Components
    BY <1>3 DEF Sound, Shape
  <2> QED
    BY <1>3, <1>10, <2>1, Migration, AlikeIs DEF LiveTables
<1> QED
  BY <1>8, <1>9, <1>10, <1>11, KeepsThenMigration

-----------------------------------------------------------------------------
(* The tables of every transaction.                                        *)

\* No transaction but createTable makes a table live.
NoTable(d, e) == DOMAIN e = Components /\ LiveTables(e) = LiveTables(d)

\* A change of other rows makes no table live.
LEMMA SameTables == ASSUME NEW d, NEW e, DOMAIN e = Components, e.table = d.table PROVE NoTable(d, e)
BY DEF NoTable, LiveTables

\* Recording a migration makes no table live.
LEMMA MigrationTables == ASSUME NEW d, NEW e, NoTable(d, e) PROVE NoTable(d, recordTenantSchemaMigration(e))
BY Migration, AlikeIs DEF NoTable, LiveTables

\* Publishing a contract makes no table live.
LEMMA RefreshTables == ASSUME NEW d, NEW e, NoTable(d, e), NEW t PROVE NoTable(d, refresh_ingestion_contract(e, t))
<1>1. SameBut(e, refresh_ingestion_contract(e, t), {"contract"})
  BY Publish DEF NoTable
<1> QED
  BY <1>1 DEF SameBut, Components, NoTable, LiveTables

\* Provision, links, pivots and navigation options make no table live.
LEMMA SimpleTables ==
  ASSUME NEW d, DOMAIN d = Components, NEW r
  PROVE  /\ NoTable(d, Provision(d, r)) /\ NoTable(d, CreateLink(d, r))
         /\ NoTable(d, CreatePivot(d, r)) /\ NoTable(d, DeletePivot(d, r)) /\ NoTable(d, DeleteNav(d, r))
         /\ NoTable(d, CreateNav(d, r))
<1>1. NoTable(d, Provision(d, r))
  <2>1. NoTable(d, [d EXCEPT !.status = "active"])
    BY DEF NoTable, Components, LiveTables
  <2> QED
    BY <2>1, MigrationTables DEF Provision
<1>2. NoTable(d, CreateLink(d, r))
  <2>1. NoTable(d, [d EXCEPT !.links = @ \cup {r.in.id}])
    BY DEF NoTable, Components, LiveTables
  <2> QED
    BY <2>1, MigrationTables DEF CreateLink
<1>3. NoTable(d, CreatePivot(d, r))
  <2>1. NoTable(d, [d EXCEPT !.pivots = @ \cup {r.in.id}])
    BY DEF NoTable, Components, LiveTables
  <2> QED
    BY <2>1, MigrationTables DEF CreatePivot
<1>4. NoTable(d, DeletePivot(d, r))
  <2>1. NoTable(d, [d EXCEPT !.pivots = @ \ {r.in.id}])
    BY DEF NoTable, Components, LiveTables
  <2> QED
    BY <2>1, MigrationTables DEF DeletePivot
<1>5. NoTable(d, DeleteNav(d, r))
  BY DEF NoTable, Components, LiveTables, DeleteNav
<1>6. NoTable(d, CreateNav(d, r))
  <2> DEFINE e == [d EXCEPT !.navs = @ \cup {r.in.id}]
  <2>1. NoTable(d, e)
    BY DEF NoTable, Components, LiveTables
  <2>2. CreateNav(d, r) = ensureManagedIndexJobTx(e, NavigationKey(r.in.id))
    BY DEF CreateNav
  <2> HIDE DEF e
  <2>3. Alike(e, CreateNav(d, r))
    BY <2>1, <2>2, EnsureHidden DEF NoTable
  <2> QED
    BY <2>1, <2>3, AlikeIs DEF NoTable, LiveTables
<1> QED
  BY <1>1, <1>2, <1>3, <1>4, <1>5, <1>6

\* Index jobs make no table live.
LEMMA JobTables ==
  ASSUME NEW d, DOMAIN d = Components, NEW r PROVE NoTable(d, CreateJob(d, r)) /\ NoTable(d, RetriedJob(d, r))
<1>1. Alike(d, CreateJob(d, r)) /\ Alike(d, RetriedJob(d, r))
  BY NewJobHidden, RetryJobHidden, Enqueue DEF CreateJob, RetriedJob
<1> QED
  BY <1>1, AlikeIs DEF NoTable, LiveTables

\* Enum values make no table live.
LEMMA EnumTables ==
  ASSUME NEW d, DOMAIN d = Components, NEW r
  PROVE  NoTable(d, CreateEnum(d, r)) /\ NoTable(d, UpdateEnum(d, r)) /\ NoTable(d, DeleteEnum(d, r))
<1>1. ASSUME NEW e, NoTable(d, e), NEW x PROVE NoTable(d, PublishEnum(e, x))
  BY <1>1, MigrationTables, RefreshTables DEF PublishEnum
<1>2. \A enums : NoTable(d, [d EXCEPT !.enum = enums])
  BY DEF NoTable, Components, LiveTables
<1>3. NoTable(d, d)
  BY DEF NoTable
<1>4. NoTable(d, CreateEnum(d, r))
  BY <1>1, <1>2 DEF CreateEnum
<1>5. NoTable(d, UpdateEnum(d, r))
  <2>1. CASE r.in.id \in DOMAIN d.enum
    <3>1. UpdateEnum(d, r) = PublishEnum([d EXCEPT !.enum = [d.enum EXCEPT ![r.in.id] = r.in.value]], r.in.id)
      BY <2>1 DEF UpdateEnum
    <3> QED
      BY <1>1, <1>2, <3>1
  <2>2. CASE r.in.id \notin DOMAIN d.enum
    BY <1>1, <1>3, <2>2 DEF UpdateEnum
  <2> QED
    BY <2>1, <2>2
<1>6. NoTable(d, DeleteEnum(d, r))
  BY <1>1, <1>2 DEF DeleteEnum
<1> QED
  BY <1>4, <1>5, <1>6

\* CreateField and UpdateField make no table live.
LEMMA FieldTables ==
  ASSUME NEW d, DOMAIN d = Components, NEW r PROVE NoTable(d, CreateField(d, r)) /\ NoTable(d, UpdateField(d, r))
<1>1. \A e, name, column : NoTable(d, e) => NoTable(d, CreateUniqueIndex(e, name, column)) /\ NoTable(d, DropUniqueIndex(e, name, column))
  BY DEF NoTable, Components, LiveTables, CreateUniqueIndex, DropUniqueIndex
<1>2. NoTable(d, CreateField(d, r))
  <2> DEFINE f == r.in.id
             d1 == [d EXCEPT !.field = With(@, f, [enum |-> r.in.enum, unique |-> r.in.unique]),
                      !.phys[NameOf(f)] = @ \cup {FieldName[f]},
                      !.enum = Merge(r.in.seeds, @)]
             d2 == IF r.in.unique THEN CreateUniqueIndex(d1, NameOf(f), FieldName[f]) ELSE d1
  <2>1. NoTable(d, d1)
    BY DEF NoTable, Components, LiveTables
  <2>2. CreateField(d, r) = recordTenantSchemaMigration(refresh_ingestion_contract(d2, FieldTable[f]))
    BY DEF CreateField
  <2> HIDE DEF d1
  <2>3. NoTable(d, d2)
    BY <1>1, <2>1
  <2> HIDE DEF d2
  <2> QED
    BY <2>2, <2>3, MigrationTables, RefreshTables
<1>3. NoTable(d, UpdateField(d, r))
  <2> DEFINE f == r.in.id
             d1 == IF f \in LiveFields(d) THEN [d EXCEPT !.field[f] = [enum |-> r.row.enum, unique |-> r.row.unique]] ELSE d
             d2 == IF r.row.unique = r.row.previousUnique THEN d1
                   ELSE IF r.row.unique THEN CreateUniqueIndex(d1, NameOf(f), FieldName[f])
                   ELSE DropUniqueIndex(d1, NameOf(f), FieldName[f])
  <2>1. NoTable(d, d1)
    BY DEF NoTable, Components, LiveTables
  <2>2. UpdateField(d, r) = recordTenantSchemaMigration(refresh_ingestion_contract(d2, FieldTable[f]))
    BY DEF UpdateField
  <2> HIDE DEF d1
  <2>3. NoTable(d, d2)
    BY <1>1, <2>1
  <2> HIDE DEF d2
  <2> QED
    BY <2>2, <2>3, MigrationTables, RefreshTables
<1> QED
  BY <1>2, <1>3

\* Captions, options and the deletion of links make no table live.
LEMMA DisplayTables ==
  ASSUME NEW d, Sound(d), NEW r
  PROVE  /\ NoTable(d, UpdateTable(d, r)) /\ NoTable(d, UpsertOptions(d, r)) /\ NoTable(d, DeleteLink(d, r))
         /\ r.in.id \in LiveTables(d) => NoTable(d, SaveDisplay(d, r))
<1>1. DOMAIN d = Components
  BY DEF Sound, Shape
<1>2. ASSUME NEW t \in LiveTables(d), NEW caption PROVE NoTable(d, SetCaption(d, t, caption))
  BY SetCaptionKeeps DEF NoTable, Keeps, Sound, Shape
<1>3. NoTable(d, UpdateTable(d, r))
  BY <1>1, <1>2 DEF UpdateTable, NoTable
<1>4. \A e, ts : NoTable(d, e) => NoTable(d, touch_display_options(e, ts))
  BY TouchOptions DEF NoTable, VersionsUp, SameBut
<1>5. \A e, t, o : NoTable(d, e) => NoTable(d, OptionsUpserted(e, t, o))
  BY DEF NoTable, Components, LiveTables, OptionsUpserted
<1>6. NoTable(d, UpsertOptions(d, r))
  <2>1. NoTable(d, UpsertedOptions(d, r))
    BY <1>1, <1>5 DEF NoTable, UpsertedOptions
  <2>2. NoTable(d, touch_display_options(UpsertedOptions(d, r), {r.in.id}))
    BY <1>4, <2>1
  <2> QED
    BY <2>2, MigrationTables DEF UpsertOptions
<1>7. ASSUME r.in.id \in LiveTables(d) PROVE NoTable(d, SaveDisplay(d, r))
  <2>1. NoTable(d, SavedDisplay(d, r))
    BY <1>2, <1>5, <1>7 DEF SavedDisplay
  <2> QED
    BY <1>4, <2>1 DEF SaveDisplay
<1>8. NoTable(d, DeleteLink(d, r))
  <2> DEFINE g == [d EXCEPT !.links = @ \ {r.in.id}]
             e == clean_link_display(g, {r.in.id})
  <2>1. NoTable(d, g) /\ Rows(g)
    <3>1. DOMAIN g = Components /\ g.table = d.table /\ g.options = d.options
      BY <1>1 DEF Components
    <3>2. Rows(d)
      BY SoundRows
    <3> HIDE DEF g
    <3> QED
      BY <3>1, <3>2 DEF NoTable, LiveTables, Rows
  <2>2. DeleteLink(d, r) = recordTenantSchemaMigration(IF r.in.id \in d.links THEN e ELSE d)
    BY DEF DeleteLink, DeleteLinkRow
  <2> HIDE DEF g
  <2>3. OptionsMove(g, e)
    BY <2>1, LinksCleaned
  <2> HIDE DEF e
  <2>4. NoTable(d, e)
    BY <2>1, <2>3, MoveIs DEF NoTable
  <2>5. NoTable(d, d)
    BY <1>1 DEF NoTable
  <2> QED
    BY <2>2, <2>4, <2>5, MigrationTables
<1> QED
  BY <1>3, <1>6, <1>7, <1>8

-----------------------------------------------------------------------------
(* Requests.                                                               *)

\* What a request that has begun knows of itself, and what holds as long as no
\* transaction has overtaken its reads.
Known(r) ==
  /\ r.in.op = "updateField" => {r.row.enum, r.row.unique} \subseteq BOOLEAN
  /\ r.in.op = "deleteField" => FieldName[r.in.id] \notin DefaultColumns
  /\ r.in.op = "createField" => (DOMAIN r.in.seeds # {} => r.in.enum)

Fresh(d, r) ==
  /\ r.in.op = "deleteTable" => MayDeleteTable(d, r.in)
  /\ r.in.op = "updateTable" => MayUpdateTable(d, r.in) /\ r.row = UpdatedTable(d, r.in)
  /\ r.in.op = "deleteField" => MayDeleteField(d, r.in)
  /\ r.in.op = "updateField" => MayUpdateField(d, r.in) /\ r.row = UpdatedField(d, r.in)
  /\ r.in.op = "createEnum" => MayCreateEnum(d, r.in)
  /\ r.in.op = "deleteLink" => MayDeleteLink(d, r.in)
  /\ r.in.op = "createPivot" => MayCreatePivot(d, r.in)

\* The settings that a save has read are those of the table as long as the version is.
SaveStands(d, r) ==
  r.in.op = "saveDisplay" /\ r.in.id \in LiveTables(d) =>
    /\ r.row.version <= d.table[r.in.id].version /\ r.row.version \in Nat
    /\ r.row.version = d.table[r.in.id].version => Settings(d, r.in.id) = r.row.settings

\* A request in flight: what it knows, what it has read, and the version of a save.
RequestStands(r) ==
  /\ r.in \in menu.asks
  /\ r.at \in Nat /\ r.at <= commits
  /\ Known(r)
  /\ r.at = commits => Fresh(db, r)
  /\ SaveStands(db, r)

\* What a request has read depends on tables, fields, enum values, links and pivots.
LEMMA FreshSame ==
  ASSUME NEW d, NEW e, e.table = d.table, e.field = d.field, e.enum = d.enum, e.links = d.links, e.pivots = d.pivots,
         NEW r, Fresh(d, r)
  PROVE  Fresh(e, r)
<1>1. LiveTables(e) = LiveTables(d) /\ LiveFields(e) = LiveFields(d) /\ \A t : FieldsOf(e, t) = FieldsOf(d, t)
  BY FieldsSame DEF LiveTables
<1>2. \A t, name : StringFieldNamed(e, t, name) <=> StringFieldNamed(d, t, name)
  BY NamedSame
<1>3. r.in.op = "deleteTable" => MayDeleteTable(e, r.in)
  BY <1>1 DEF Fresh, MayDeleteTable, TableConflicts
<1>4. r.in.op = "updateTable" => MayUpdateTable(e, r.in) /\ r.row = UpdatedTable(e, r.in)
  BY <1>1, <1>2 DEF Fresh, MayUpdateTable, UpdatedTable
<1>5. r.in.op = "deleteField" => MayDeleteField(e, r.in)
  BY <1>1 DEF Fresh, MayDeleteField, FieldConflicts, LinksOn
<1>6. r.in.op = "updateField" => MayUpdateField(e, r.in) /\ r.row = UpdatedField(e, r.in)
  <2>1. UpdatedField(e, r.in) = UpdatedField(d, r.in)
    BY DEF UpdatedField
  <2>2. EnumRows(e, r.in.id) = EnumRows(d, r.in.id)
    BY DEF EnumRows
  <2> QED
    BY <1>1, <2>1, <2>2 DEF Fresh, MayUpdateField, ValidateFieldUpdate
<1>7. r.in.op = "createEnum" => MayCreateEnum(e, r.in)
  BY <1>1 DEF Fresh, MayCreateEnum
<1>8. r.in.op = "deleteLink" => MayDeleteLink(e, r.in)
  BY DEF Fresh, MayDeleteLink
<1>9. r.in.op = "createPivot" => MayCreatePivot(e, r.in)
  BY <1>1 DEF Fresh, MayCreatePivot, PathChained
<1> QED
  BY <1>3, <1>4, <1>5, <1>6, <1>7, <1>8, <1>9 DEF Fresh

\* A request has begun; that of a creation takes a new id.
Begun(c, r) ==
  /\ req' = [req EXCEPT ![c] = r]
  /\ r.in \in menu.asks /\ r.at = commits
  /\ Known(r) /\ Fresh(db, r) /\ SaveStands(db, r)
  /\ r.in.op = "saveDisplay" => r.in.id \in LiveTables(db)
  /\ r.in.op = "createTable" => r.in.id \notin used /\ r.in.id \in used'
  /\ used \subseteq used'
  /\ UNCHANGED <<db, menu, commits, late>>

\* Any read of a request that neither save nor a careful transaction relies on.
LEMMA PlainBegun ==
  ASSUME NEW c, NEW in \in menu.asks, NEW row, req' = [req EXCEPT ![c] = [in |-> in, row |-> row, at |-> commits]],
         in.op \notin {"deleteTable", "updateTable", "deleteField", "updateField", "createEnum", "deleteLink",
                       "createPivot", "saveDisplay", "createTable", "createField"},
         used \subseteq used', UNCHANGED <<db, menu, commits, late>>
  PROVE  Begun(c, [in |-> in, row |-> row, at |-> commits])
BY DEF Begun, Known, Fresh, SaveStands

\* A flag that a request leaves out is taken from the row it has read.
LEMMA FieldUpdateKnown ==
  ASSUME NEW d, Sound(d), NEW in, WellFormed(in), in.op = "updateField", in.id \in LiveFields(d)
  PROVE  {UpdatedField(d, in).enum, UpdatedField(d, in).unique} \subseteq BOOLEAN
<1>1. {in.enum, in.unique} \subseteq BOOLEAN \cup {Unset}
  BY DEF WellFormed
<1>2. d.field[in.id].enum \in BOOLEAN /\ d.field[in.id].unique \in BOOLEAN
  BY DEF Sound, Shape
<1>3. Choose(in.enum, d.field[in.id].enum) \in BOOLEAN /\ Choose(in.unique, d.field[in.id].unique) \in BOOLEAN
  BY <1>1, <1>2 DEF Choose
<1> QED
  BY <1>3 DEF UpdatedField

\* The requests a client may begin.
Starts(c) ==
  \/ Begin(c, "provision", Always, Nothing)
  \/ BeginNew(c, "createTable", IsActive) \/ Begin(c, "updateTable", MayUpdateTable, UpdatedTable)
  \/ Begin(c, "deleteTable", MayDeleteTable, Nothing)
  \/ BeginNew(c, "createField", MayCreateField) \/ Begin(c, "updateField", MayUpdateField, UpdatedField)
  \/ Begin(c, "deleteField", MayDeleteField, Nothing)
  \/ BeginNew(c, "createEnum", MayCreateEnum) \/ Begin(c, "updateEnum", MayUpdateEnum, Nothing)
  \/ Begin(c, "deleteEnum", MayDeleteEnum, Nothing)
  \/ BeginNew(c, "createLink", MayCreateLink) \/ Begin(c, "deleteLink", MayDeleteLink, Nothing)
  \/ BeginNew(c, "createPivot", MayCreatePivot) \/ Begin(c, "deletePivot", MayDeletePivot, Nothing)
  \/ BeginNew(c, "createNav", MayCreateNav) \/ Begin(c, "deleteNav", MayDeleteNav, Nothing)
  \/ Begin(c, "upsertOptions", MayUpsertOptions, Nothing) \/ Begin(c, "saveDisplay", IsTable, VersionSeen)
  \/ Begin(c, "createJob", MayCreateJob, Nothing) \/ Begin(c, "retryJob", MayRetryJob, Nothing)

\* Every request that begins knows what it has read.
LEMMA BeginIs ==
  ASSUME Sound(db), \A in \in menu.asks : WellFormed(in), NEW c, Starts(c)
  PROVE  req[c] = Idle /\ \E r : Begun(c, r)
<1> DEFINE R(in, row) == [in |-> in, row |-> row, at |-> commits]
<1>0. \A in, row : R(in, row).in = in /\ R(in, row).row = row /\ R(in, row).at = commits
  OBVIOUS
<1>1. CASE BeginNew(c, "createTable", IsActive)
  <2>1. PICK in \in menu.asks : /\ in.op = "createTable" /\ in.id \notin used
                                /\ req' = [req EXCEPT ![c] = R(in, NoRow)] /\ used' = used \cup {in.id}
    BY <1>1 DEF BeginNew
  <2>2. req[c] = Idle /\ UNCHANGED <<db, menu, commits, late>>
    BY <1>1 DEF BeginNew
  <2>3. Begun(c, R(in, NoRow))
    BY <2>1, <2>2 DEF Begun, Known, Fresh, SaveStands
  <2> QED
    BY <2>2, <2>3
<1>2. CASE BeginNew(c, "createField", MayCreateField)
  <2>1. PICK in \in menu.asks : /\ in.op = "createField" /\ MayCreateField(db, in)
                                /\ req' = [req EXCEPT ![c] = R(in, NoRow)] /\ used' = used \cup {in.id}
    BY <1>2 DEF BeginNew
  <2>2. req[c] = Idle /\ UNCHANGED <<db, menu, commits, late>>
    BY <1>2 DEF BeginNew
  <2>3. DOMAIN in.seeds # {} => in.enum
    BY <2>1 DEF MayCreateField
  <2>4. Begun(c, R(in, NoRow))
    BY <2>1, <2>2, <2>3 DEF Begun, Known, Fresh, SaveStands
  <2> QED
    BY <2>2, <2>4
<1>3. CASE BeginNew(c, "createEnum", MayCreateEnum)
  <2>1. PICK in \in menu.asks : /\ in.op = "createEnum" /\ MayCreateEnum(db, in)
                                /\ req' = [req EXCEPT ![c] = R(in, NoRow)] /\ used' = used \cup {in.id}
    BY <1>3 DEF BeginNew
  <2>2. req[c] = Idle /\ UNCHANGED <<db, menu, commits, late>>
    BY <1>3 DEF BeginNew
  <2>3. Begun(c, R(in, NoRow))
    BY <2>1, <2>2 DEF Begun, Known, Fresh, SaveStands
  <2> QED
    BY <2>2, <2>3
<1>4. CASE BeginNew(c, "createPivot", MayCreatePivot)
  <2>1. PICK in \in menu.asks : /\ in.op = "createPivot" /\ MayCreatePivot(db, in)
                                /\ req' = [req EXCEPT ![c] = R(in, NoRow)] /\ used' = used \cup {in.id}
    BY <1>4 DEF BeginNew
  <2>2. req[c] = Idle /\ UNCHANGED <<db, menu, commits, late>>
    BY <1>4 DEF BeginNew
  <2>3. Begun(c, R(in, NoRow))
    BY <2>1, <2>2 DEF Begun, Known, Fresh, SaveStands
  <2> QED
    BY <2>2, <2>3
<1>5. CASE BeginNew(c, "createLink", MayCreateLink) \/ BeginNew(c, "createNav", MayCreateNav)
  <2>1. PICK in \in menu.asks : /\ in.op \in {"createLink", "createNav"}
                                /\ req' = [req EXCEPT ![c] = R(in, NoRow)] /\ used' = used \cup {in.id}
    BY <1>5 DEF BeginNew
  <2>2. req[c] = Idle /\ UNCHANGED <<db, menu, commits, late>>
    BY <1>5 DEF BeginNew
  <2>3. Begun(c, R(in, NoRow))
    BY <2>1, <2>2, PlainBegun
  <2> QED
    BY <2>2, <2>3
<1>6. CASE \/ Begin(c, "provision", Always, Nothing) \/ Begin(c, "updateEnum", MayUpdateEnum, Nothing)
           \/ Begin(c, "deleteEnum", MayDeleteEnum, Nothing) \/ Begin(c, "deletePivot", MayDeletePivot, Nothing)
           \/ Begin(c, "deleteNav", MayDeleteNav, Nothing) \/ Begin(c, "upsertOptions", MayUpsertOptions, Nothing)
           \/ Begin(c, "createJob", MayCreateJob, Nothing) \/ Begin(c, "retryJob", MayRetryJob, Nothing)
  <2>1. PICK in \in menu.asks :
          /\ in.op \in {"provision", "updateEnum", "deleteEnum", "deletePivot", "deleteNav", "upsertOptions", "createJob", "retryJob"}
          /\ req' = [req EXCEPT ![c] = R(in, NoRow)]
    BY <1>6 DEF Begin, Nothing
  <2>2. req[c] = Idle /\ UNCHANGED <<db, menu, used, commits, late>>
    BY <1>6 DEF Begin
  <2>3. Begun(c, R(in, NoRow))
    BY <2>1, <2>2, PlainBegun
  <2> QED
    BY <2>2, <2>3
<1>7. CASE Begin(c, "updateTable", MayUpdateTable, UpdatedTable)
  <2>1. PICK in \in menu.asks : /\ in.op = "updateTable" /\ MayUpdateTable(db, in)
                                /\ req' = [req EXCEPT ![c] = R(in, UpdatedTable(db, in))]
    BY <1>7 DEF Begin
  <2>2. req[c] = Idle /\ UNCHANGED <<db, menu, used, commits, late>>
    BY <1>7 DEF Begin
  <2>3. Begun(c, R(in, UpdatedTable(db, in)))
    BY <2>1, <2>2 DEF Begun, Known, Fresh, SaveStands
  <2> QED
    BY <2>2, <2>3
<1>8. CASE Begin(c, "updateField", MayUpdateField, UpdatedField)
  <2>1. PICK in \in menu.asks : /\ in.op = "updateField" /\ MayUpdateField(db, in)
                                /\ req' = [req EXCEPT ![c] = R(in, UpdatedField(db, in))]
    BY <1>8 DEF Begin
  <2>2. req[c] = Idle /\ UNCHANGED <<db, menu, used, commits, late>>
    BY <1>8 DEF Begin
  <2>3. {UpdatedField(db, in).enum, UpdatedField(db, in).unique} \subseteq BOOLEAN
    BY <2>1, FieldUpdateKnown DEF MayUpdateField
  <2>4. Begun(c, R(in, UpdatedField(db, in)))
    BY <2>1, <2>2, <2>3 DEF Begun, Known, Fresh, SaveStands
  <2> QED
    BY <2>2, <2>4
<1>9. CASE \/ Begin(c, "deleteTable", MayDeleteTable, Nothing) \/ Begin(c, "deleteField", MayDeleteField, Nothing)
           \/ Begin(c, "deleteLink", MayDeleteLink, Nothing)
  <2>1. PICK in \in menu.asks : /\ \/ in.op = "deleteTable" /\ MayDeleteTable(db, in)
                                   \/ in.op = "deleteField" /\ MayDeleteField(db, in)
                                   \/ in.op = "deleteLink" /\ MayDeleteLink(db, in)
                                /\ req' = [req EXCEPT ![c] = R(in, NoRow)]
    BY <1>9 DEF Begin, Nothing
  <2>2. req[c] = Idle /\ UNCHANGED <<db, menu, used, commits, late>>
    BY <1>9 DEF Begin
  <2>3. in.op = "deleteField" => FieldName[in.id] \notin DefaultColumns
    BY <2>1 DEF MayDeleteField
  <2>4. Begun(c, R(in, NoRow))
    BY <2>1, <2>2, <2>3 DEF Begun, Known, Fresh, SaveStands
  <2> QED
    BY <2>2, <2>4
<1>10. CASE Begin(c, "saveDisplay", IsTable, VersionSeen)
  <2>1. PICK in \in menu.asks : /\ in.op = "saveDisplay" /\ in.id \in LiveTables(db)
                                /\ req' = [req EXCEPT ![c] = R(in, VersionSeen(db, in))]
    BY <1>10 DEF Begin, IsTable
  <2>2. req[c] = Idle /\ UNCHANGED <<db, menu, used, commits, late>>
    BY <1>10 DEF Begin
  <2>3. /\ VersionSeen(db, in).version = db.table[in.id].version /\ db.table[in.id].version \in Nat
        /\ VersionSeen(db, in).settings = Settings(db, in.id)
    BY <2>1 DEF VersionSeen, Sound, Shape
  <2>4. Begun(c, R(in, VersionSeen(db, in)))
    BY <2>1, <2>2, <2>3 DEF Begun, Known, Fresh, SaveStands
  <2> QED
    BY <2>2, <2>4
<1> QED
  BY <1>1, <1>2, <1>3, <1>4, <1>5, <1>6, <1>7, <1>8, <1>9, <1>10 DEF Starts

-----------------------------------------------------------------------------
(* Transactions.                                                           *)

\* The operation whose reads another transaction has overtaken.
Over(r) == IF r.at # commits THEN {r.in.op} ELSE {}

\* The tables that a transaction makes live.
NewTables(r) == IF r.in.op = "createTable" THEN {r.in.id} ELSE {}

\* What a transaction of request r from db to e preserves.
Preserves(r, e) == Keeps(db, e, Over(r)) /\ LiveTables(e) \subseteq LiveTables(db) \cup NewTables(r)

\* A request has ended: its transaction has committed, or nothing has changed.
Finished(c) ==
  /\ req[c] # Idle /\ req' = [req EXCEPT ![c] = Idle]
  /\ UNCHANGED <<menu, used>>
  /\ \/ UNCHANGED <<db, late, commits>>
     \/ /\ Preserves(req[c], db') /\ late' = late \cup Over(req[c]) /\ commits' = commits + 1
        /\ req[c].in.op = "saveDisplay" =>
             req[c].in.id \in LiveTables(db) /\ req[c].row.version = db.table[req[c].in.id].version

\* The end of a request of operation op, which may commit e if can.
Outcome(c, op, can, e) ==
  /\ req[c] # Idle /\ req[c].in.op = op /\ req' = [req EXCEPT ![c] = Idle]
  /\ UNCHANGED <<menu, used>>
  /\ \/ UNCHANGED <<db, late, commits>>
     \/ /\ can /\ db' = e /\ late' = late \cup Over(req[c]) /\ commits' = commits + 1

\* A transaction that preserves what it must, or has failed, ends its request.
LEMMA OutcomeFinished ==
  ASSUME NEW c, NEW op, NEW can, NEW e, Outcome(c, op, can, e), can => Preserves(req[c], e),
         can /\ op = "saveDisplay" => req[c].in.id \in LiveTables(db) /\ req[c].row.version = db.table[req[c].in.id].version
  PROVE  Finished(c)
BY DEF Outcome, Finished

\* Most transactions keep everything, whatever has overtaken their reads.
LEMMA KeepsPreserves ==
  ASSUME NEW r, NEW e, Keeps(db, e, {}), LiveTables(e) \subseteq LiveTables(db) PROVE Preserves(r, e)
BY KeepsMore DEF Preserves

\* A transaction whose reads still hold preserves everything.
LEMMA FreshPreserves ==
  ASSUME NEW r, NEW op, r.in.op = op, NEW e, Keeps(db, e, {op}), r.at = commits => Keeps(db, e, {}),
         LiveTables(e) \subseteq LiveTables(db)
  PROVE  Preserves(r, e)
BY DEF Preserves, Over

\* The transactions that end a request.
Finishes(c) ==
  \/ Finish(c, "provision", Always, Provision)
  \/ Finish(c, "createTable", CanCreateTable, CreateTable)
  \/ Finish(c, "updateTable", CanUpdateTable, UpdateTable)
  \/ Finish(c, "deleteTable", CanDeleteTable, DeleteTable)
  \/ Finish(c, "createField", CanCreateField, CreateField)
  \/ Finish(c, "updateField", CanUpdateField, UpdateField)
  \/ Finish(c, "deleteField", CanDeleteField, DeleteField)
  \/ Finish(c, "createEnum", CanCreateEnum, CreateEnum)
  \/ Finish(c, "updateEnum", CanUpdateEnum, UpdateEnum)
  \/ Finish(c, "deleteEnum", Always, DeleteEnum)
  \/ Finish(c, "createLink", CanCreateLink, CreateLink)
  \/ Finish(c, "deleteLink", CanDeleteLink, DeleteLink)
  \/ Finish(c, "createPivot", CanCreatePivot, CreatePivot)
  \/ Finish(c, "deletePivot", Always, DeletePivot)
  \/ Finish(c, "createNav", CanCreateNav, CreateNav)
  \/ Finish(c, "deleteNav", Always, DeleteNav)
  \/ Finish(c, "upsertOptions", CanUpsertOptions, UpsertOptions)
  \/ Finish(c, "saveDisplay", CanSaveDisplay, SaveDisplay)
  \/ Finish(c, "createJob", CanCreateJob, CreateJob)
  \/ Finish(c, "retryJob", Always, RetriedJob)

\* Every transaction that ends a request preserves what it must.
LEMMA FinishIs ==
  ASSUME NEW c, Sound(db), \A in \in menu.asks : WellFormed(in), Finishes(c), req[c] # Idle => RequestStands(req[c])
  PROVE  Finished(c)
<1> DEFINE r == req[c]
<1>0. DOMAIN db = Components
  BY DEF Sound, Shape
<1>a. r # Idle => WellFormed(r.in) /\ Known(r) /\ (r.at = commits => Fresh(db, r))
  BY DEF RequestStands
<1>1. CASE Finish(c, "provision", Always, Provision)
  <2> DEFINE e == Provision(db, r)
  <2>1. Outcome(c, "provision", TRUE, e)
    BY <1>1 DEF Finish, Outcome, Over, Always
  <2>2. r # Idle /\ r.in.op = "provision"
    BY <2>1 DEF Outcome
  <2>3. TRUE => Preserves(r, e)
    <3>1. TRUE => Keeps(db, e, {})
      BY ProvisionKeeps
    <3>2. TRUE => LiveTables(e) \subseteq LiveTables(db)
      BY <1>0, SimpleTables DEF NoTable
    <3> HIDE DEF e
    <3> QED
      BY <3>1, <3>2, KeepsPreserves
  <2> HIDE DEF e
  <2> QED
    BY <2>1, <2>3, OutcomeFinished
<1>2. CASE Finish(c, "createTable", CanCreateTable, CreateTable)
  <2> DEFINE e == CreateTable(db, r)
  <2>1. Outcome(c, "createTable", CanCreateTable(db, r), e)
    BY <1>2 DEF Finish, Outcome, Over
  <2>2. r # Idle /\ r.in.op = "createTable"
    BY <2>1 DEF Outcome
  <2>3. CanCreateTable(db, r) => Preserves(r, e)
    <3>1. r.in.id \in TableIds
      BY <1>a, <2>2 DEF WellFormed
    <3>2. CanCreateTable(db, r) => Keeps(db, e, {}) /\ LiveTables(e) = LiveTables(db) \cup {r.in.id}
      BY <3>1, CreateTableKeeps
    <3> QED
      BY <2>2, <3>2, KeepsMore DEF Preserves, NewTables
  <2> HIDE DEF e
  <2> QED
    BY <2>1, <2>3, OutcomeFinished
<1>3. CASE Finish(c, "updateTable", CanUpdateTable, UpdateTable)
  <2> DEFINE e == UpdateTable(db, r)
  <2>1. Outcome(c, "updateTable", CanUpdateTable(db, r), e)
    BY <1>3 DEF Finish, Outcome, Over
  <2>2. r # Idle /\ r.in.op = "updateTable"
    BY <2>1 DEF Outcome
  <2>3. CanUpdateTable(db, r) => Preserves(r, e)
    <3>1. r.at = commits => MayUpdateTable(db, r.in) /\ r.row = UpdatedTable(db, r.in)
      BY <1>a, <2>2 DEF Fresh
    <3>2. CanUpdateTable(db, r) => Keeps(db, e, {"updateTable"}) /\ (MayUpdateTable(db, r.in) /\ r.row = UpdatedTable(db, r.in) => Keeps(db, e, {}))
      BY UpdateTableKeeps
    <3>3. CanUpdateTable(db, r) => LiveTables(e) \subseteq LiveTables(db)
      BY <1>0, DisplayTables DEF NoTable
    <3> HIDE DEF e
    <3> QED
      BY <2>2, <3>1, <3>2, <3>3, FreshPreserves
  <2> HIDE DEF e
  <2> QED
    BY <2>1, <2>3, OutcomeFinished
<1>4. CASE Finish(c, "deleteTable", CanDeleteTable, DeleteTable)
  <2> DEFINE e == DeleteTable(db, r)
  <2>1. Outcome(c, "deleteTable", CanDeleteTable(db, r), e)
    BY <1>4 DEF Finish, Outcome, Over
  <2>2. r # Idle /\ r.in.op = "deleteTable"
    BY <2>1 DEF Outcome
  <2>3. CanDeleteTable(db, r) => Preserves(r, e)
    <3>1. r.at = commits => MayDeleteTable(db, r.in)
      BY <1>a, <2>2 DEF Fresh
    <3>2. CanDeleteTable(db, r) => Keeps(db, e, {"deleteTable"}) /\ (MayDeleteTable(db, r.in) => Keeps(db, e, {}))
      BY DeleteTableKeeps
    <3>3. CanDeleteTable(db, r) => LiveTables(e) \subseteq LiveTables(db)
      BY DeleteTableKeeps
    <3> HIDE DEF e
    <3> QED
      BY <2>2, <3>1, <3>2, <3>3, FreshPreserves
  <2> HIDE DEF e
  <2> QED
    BY <2>1, <2>3, OutcomeFinished
<1>5. CASE Finish(c, "createField", CanCreateField, CreateField)
  <2> DEFINE e == CreateField(db, r)
  <2>1. Outcome(c, "createField", CanCreateField(db, r), e)
    BY <1>5 DEF Finish, Outcome, Over
  <2>2. r # Idle /\ r.in.op = "createField"
    BY <2>1 DEF Outcome
  <2>3. CanCreateField(db, r) => Preserves(r, e)
    <3>1. CanCreateField(db, r) => Keeps(db, e, {})
      BY <1>a, <2>2, CreateFieldKeeps DEF Known
    <3>2. CanCreateField(db, r) => LiveTables(e) \subseteq LiveTables(db)
      BY <1>0, FieldTables DEF NoTable
    <3> HIDE DEF e
    <3> QED
      BY <3>1, <3>2, KeepsPreserves
  <2> HIDE DEF e
  <2> QED
    BY <2>1, <2>3, OutcomeFinished
<1>6. CASE Finish(c, "updateField", CanUpdateField, UpdateField)
  <2> DEFINE e == UpdateField(db, r)
  <2>1. Outcome(c, "updateField", CanUpdateField(db, r), e)
    BY <1>6 DEF Finish, Outcome, Over
  <2>2. r # Idle /\ r.in.op = "updateField"
    BY <2>1 DEF Outcome
  <2>3. CanUpdateField(db, r) => Preserves(r, e)
    <3>1. r.at = commits => MayUpdateField(db, r.in) /\ r.row = UpdatedField(db, r.in)
      BY <1>a, <2>2 DEF Fresh
    <3>2. CanUpdateField(db, r) => Keeps(db, e, {"updateField"}) /\ (MayUpdateField(db, r.in) /\ r.row = UpdatedField(db, r.in) => Keeps(db, e, {}))
      BY <1>a, <2>2, UpdateFieldKeeps DEF Known
    <3>3. CanUpdateField(db, r) => LiveTables(e) \subseteq LiveTables(db)
      BY <1>0, FieldTables DEF NoTable
    <3> HIDE DEF e
    <3> QED
      BY <2>2, <3>1, <3>2, <3>3, FreshPreserves
  <2> HIDE DEF e
  <2> QED
    BY <2>1, <2>3, OutcomeFinished
<1>7. CASE Finish(c, "deleteField", CanDeleteField, DeleteField)
  <2> DEFINE e == DeleteField(db, r)
  <2>1. Outcome(c, "deleteField", CanDeleteField(db, r), e)
    BY <1>7 DEF Finish, Outcome, Over
  <2>2. r # Idle /\ r.in.op = "deleteField"
    BY <2>1 DEF Outcome
  <2>3. CanDeleteField(db, r) => Preserves(r, e)
    <3>1. r.at = commits => MayDeleteField(db, r.in)
      BY <1>a, <2>2 DEF Fresh
    <3>2. CanDeleteField(db, r) => Keeps(db, e, {"deleteField"}) /\ (MayDeleteField(db, r.in) => Keeps(db, e, {}))
      BY <1>a, <2>2, DeleteFieldKeeps DEF Known
    <3>3. CanDeleteField(db, r) => LiveTables(e) \subseteq LiveTables(db)
      BY <1>a, <2>2, DeleteFieldKeeps DEF Known
    <3> HIDE DEF e
    <3> QED
      BY <2>2, <3>1, <3>2, <3>3, FreshPreserves
  <2> HIDE DEF e
  <2> QED
    BY <2>1, <2>3, OutcomeFinished
<1>8. CASE Finish(c, "createEnum", CanCreateEnum, CreateEnum)
  <2> DEFINE e == CreateEnum(db, r)
  <2>1. Outcome(c, "createEnum", CanCreateEnum(db, r), e)
    BY <1>8 DEF Finish, Outcome, Over
  <2>2. r # Idle /\ r.in.op = "createEnum"
    BY <2>1 DEF Outcome
  <2>3. CanCreateEnum(db, r) => Preserves(r, e)
    <3>1. r.at = commits => MayCreateEnum(db, r.in)
      BY <1>a, <2>2 DEF Fresh
    <3>2. CanCreateEnum(db, r) => Keeps(db, e, {"createEnum"}) /\ (MayCreateEnum(db, r.in) => Keeps(db, e, {}))
      BY CreateEnumKeeps
    <3>3. CanCreateEnum(db, r) => LiveTables(e) \subseteq LiveTables(db)
      BY <1>0, EnumTables DEF NoTable
    <3> HIDE DEF e
    <3> QED
      BY <2>2, <3>1, <3>2, <3>3, FreshPreserves
  <2> HIDE DEF e
  <2> QED
    BY <2>1, <2>3, OutcomeFinished
<1>9. CASE Finish(c, "updateEnum", CanUpdateEnum, UpdateEnum)
  <2> DEFINE e == UpdateEnum(db, r)
  <2>1. Outcome(c, "updateEnum", CanUpdateEnum(db, r), e)
    BY <1>9 DEF Finish, Outcome, Over
  <2>2. r # Idle /\ r.in.op = "updateEnum"
    BY <2>1 DEF Outcome
  <2>3. CanUpdateEnum(db, r) => Preserves(r, e)
    <3>1. CanUpdateEnum(db, r) => Keeps(db, e, {})
      BY UpdateEnumKeeps
    <3>2. CanUpdateEnum(db, r) => LiveTables(e) \subseteq LiveTables(db)
      BY <1>0, EnumTables DEF NoTable
    <3> HIDE DEF e
    <3> QED
      BY <3>1, <3>2, KeepsPreserves
  <2> HIDE DEF e
  <2> QED
    BY <2>1, <2>3, OutcomeFinished
<1>10. CASE Finish(c, "deleteEnum", Always, DeleteEnum)
  <2> DEFINE e == DeleteEnum(db, r)
  <2>1. Outcome(c, "deleteEnum", TRUE, e)
    BY <1>10 DEF Finish, Outcome, Over, Always
  <2>2. r # Idle /\ r.in.op = "deleteEnum"
    BY <2>1 DEF Outcome
  <2>3. TRUE => Preserves(r, e)
    <3>1. TRUE => Keeps(db, e, {})
      BY DeleteEnumKeeps
    <3>2. TRUE => LiveTables(e) \subseteq LiveTables(db)
      BY <1>0, EnumTables DEF NoTable
    <3> HIDE DEF e
    <3> QED
      BY <3>1, <3>2, KeepsPreserves
  <2> HIDE DEF e
  <2> QED
    BY <2>1, <2>3, OutcomeFinished
<1>11. CASE Finish(c, "createLink", CanCreateLink, CreateLink)
  <2> DEFINE e == CreateLink(db, r)
  <2>1. Outcome(c, "createLink", CanCreateLink(db, r), e)
    BY <1>11 DEF Finish, Outcome, Over
  <2>2. r # Idle /\ r.in.op = "createLink"
    BY <2>1 DEF Outcome
  <2>3. CanCreateLink(db, r) => Preserves(r, e)
    <3>1. CanCreateLink(db, r) => Keeps(db, e, {})
      BY CreateLinkKeeps
    <3>2. CanCreateLink(db, r) => LiveTables(e) \subseteq LiveTables(db)
      BY <1>0, SimpleTables DEF NoTable
    <3> HIDE DEF e
    <3> QED
      BY <3>1, <3>2, KeepsPreserves
  <2> HIDE DEF e
  <2> QED
    BY <2>1, <2>3, OutcomeFinished
<1>12. CASE Finish(c, "deleteLink", CanDeleteLink, DeleteLink)
  <2> DEFINE e == DeleteLink(db, r)
  <2>1. Outcome(c, "deleteLink", CanDeleteLink(db, r), e)
    BY <1>12 DEF Finish, Outcome, Over
  <2>2. r # Idle /\ r.in.op = "deleteLink"
    BY <2>1 DEF Outcome
  <2>3. CanDeleteLink(db, r) => Preserves(r, e)
    <3>1. r.at = commits => MayDeleteLink(db, r.in)
      BY <1>a, <2>2 DEF Fresh
    <3>2. CanDeleteLink(db, r) => Keeps(db, e, {"deleteLink"}) /\ (MayDeleteLink(db, r.in) => Keeps(db, e, {}))
      BY DeleteLinkKeeps
    <3>3. CanDeleteLink(db, r) => LiveTables(e) \subseteq LiveTables(db)
      BY <1>0, DisplayTables DEF NoTable
    <3> HIDE DEF e
    <3> QED
      BY <2>2, <3>1, <3>2, <3>3, FreshPreserves
  <2> HIDE DEF e
  <2> QED
    BY <2>1, <2>3, OutcomeFinished
<1>13. CASE Finish(c, "createPivot", CanCreatePivot, CreatePivot)
  <2> DEFINE e == CreatePivot(db, r)
  <2>1. Outcome(c, "createPivot", CanCreatePivot(db, r), e)
    BY <1>13 DEF Finish, Outcome, Over
  <2>2. r # Idle /\ r.in.op = "createPivot"
    BY <2>1 DEF Outcome
  <2>3. CanCreatePivot(db, r) => Preserves(r, e)
    <3>1. r.at = commits => MayCreatePivot(db, r.in)
      BY <1>a, <2>2 DEF Fresh
    <3>2. CanCreatePivot(db, r) => Keeps(db, e, {"createPivot"}) /\ (MayCreatePivot(db, r.in) => Keeps(db, e, {}))
      BY CreatePivotKeeps
    <3>3. CanCreatePivot(db, r) => LiveTables(e) \subseteq LiveTables(db)
      BY <1>0, SimpleTables DEF NoTable
    <3> HIDE DEF e
    <3> QED
      BY <2>2, <3>1, <3>2, <3>3, FreshPreserves
  <2> HIDE DEF e
  <2> QED
    BY <2>1, <2>3, OutcomeFinished
<1>14. CASE Finish(c, "deletePivot", Always, DeletePivot)
  <2> DEFINE e == DeletePivot(db, r)
  <2>1. Outcome(c, "deletePivot", TRUE, e)
    BY <1>14 DEF Finish, Outcome, Over, Always
  <2>2. r # Idle /\ r.in.op = "deletePivot"
    BY <2>1 DEF Outcome
  <2>3. TRUE => Preserves(r, e)
    <3>1. TRUE => Keeps(db, e, {})
      BY DeletePivotKeeps
    <3>2. TRUE => LiveTables(e) \subseteq LiveTables(db)
      BY <1>0, SimpleTables DEF NoTable
    <3> HIDE DEF e
    <3> QED
      BY <3>1, <3>2, KeepsPreserves
  <2> HIDE DEF e
  <2> QED
    BY <2>1, <2>3, OutcomeFinished
<1>15. CASE Finish(c, "createNav", CanCreateNav, CreateNav)
  <2> DEFINE e == CreateNav(db, r)
  <2>1. Outcome(c, "createNav", CanCreateNav(db, r), e)
    BY <1>15 DEF Finish, Outcome, Over
  <2>2. r # Idle /\ r.in.op = "createNav"
    BY <2>1 DEF Outcome
  <2>3. CanCreateNav(db, r) => Preserves(r, e)
    <3>1. CanCreateNav(db, r) => Keeps(db, e, {})
      BY CreateNavKeeps
    <3>2. CanCreateNav(db, r) => LiveTables(e) \subseteq LiveTables(db)
      BY <1>0, SimpleTables DEF NoTable
    <3> HIDE DEF e
    <3> QED
      BY <3>1, <3>2, KeepsPreserves
  <2> HIDE DEF e
  <2> QED
    BY <2>1, <2>3, OutcomeFinished
<1>16. CASE Finish(c, "deleteNav", Always, DeleteNav)
  <2> DEFINE e == DeleteNav(db, r)
  <2>1. Outcome(c, "deleteNav", TRUE, e)
    BY <1>16 DEF Finish, Outcome, Over, Always
  <2>2. r # Idle /\ r.in.op = "deleteNav"
    BY <2>1 DEF Outcome
  <2>3. TRUE => Preserves(r, e)
    <3>1. TRUE => Keeps(db, e, {})
      BY DeleteNavKeeps
    <3>2. TRUE => LiveTables(e) \subseteq LiveTables(db)
      BY <1>0, SimpleTables DEF NoTable
    <3> HIDE DEF e
    <3> QED
      BY <3>1, <3>2, KeepsPreserves
  <2> HIDE DEF e
  <2> QED
    BY <2>1, <2>3, OutcomeFinished
<1>17. CASE Finish(c, "upsertOptions", CanUpsertOptions, UpsertOptions)
  <2> DEFINE e == UpsertOptions(db, r)
  <2>1. Outcome(c, "upsertOptions", CanUpsertOptions(db, r), e)
    BY <1>17 DEF Finish, Outcome, Over
  <2>2. r # Idle /\ r.in.op = "upsertOptions"
    BY <2>1 DEF Outcome
  <2>3. CanUpsertOptions(db, r) => Preserves(r, e)
    <3>1. CanUpsertOptions(db, r) => Keeps(db, e, {})
      BY UpsertOptionsKeeps
    <3>2. CanUpsertOptions(db, r) => LiveTables(e) \subseteq LiveTables(db)
      BY <1>0, DisplayTables DEF NoTable
    <3> HIDE DEF e
    <3> QED
      BY <3>1, <3>2, KeepsPreserves
  <2> HIDE DEF e
  <2> QED
    BY <2>1, <2>3, OutcomeFinished
<1>18. CASE Finish(c, "saveDisplay", CanSaveDisplay, SaveDisplay)
  <2> DEFINE e == SaveDisplay(db, r)
  <2>1. Outcome(c, "saveDisplay", CanSaveDisplay(db, r), e)
    BY <1>18 DEF Finish, Outcome, Over
  <2>2. r # Idle /\ r.in.op = "saveDisplay"
    BY <2>1 DEF Outcome
  <2>3. CanSaveDisplay(db, r) => Preserves(r, e)
    <3>1. CanSaveDisplay(db, r) => Keeps(db, e, {})
      BY SaveDisplayKeeps
    <3>2. CanSaveDisplay(db, r) => LiveTables(e) \subseteq LiveTables(db)
      BY <1>0, DisplayTables DEF NoTable, CanSaveDisplay
    <3> HIDE DEF e
    <3> QED
      BY <3>1, <3>2, KeepsPreserves
  <2>4. CanSaveDisplay(db, r) => r.in.id \in LiveTables(db) /\ r.row.version = db.table[r.in.id].version
    BY DEF CanSaveDisplay, validate
  <2> HIDE DEF e
  <2> QED
    BY <2>1, <2>3, <2>4, OutcomeFinished
<1>19. CASE Finish(c, "createJob", CanCreateJob, CreateJob)
  <2> DEFINE e == CreateJob(db, r)
  <2>1. Outcome(c, "createJob", CanCreateJob(db, r), e)
    BY <1>19 DEF Finish, Outcome, Over
  <2>2. r # Idle /\ r.in.op = "createJob"
    BY <2>1 DEF Outcome
  <2>3. CanCreateJob(db, r) => Preserves(r, e)
    <3>1. CanCreateJob(db, r) => Keeps(db, e, {})
      BY JobsKeep
    <3>2. CanCreateJob(db, r) => LiveTables(e) \subseteq LiveTables(db)
      BY <1>0, JobTables DEF NoTable
    <3> HIDE DEF e
    <3> QED
      BY <3>1, <3>2, KeepsPreserves
  <2> HIDE DEF e
  <2> QED
    BY <2>1, <2>3, OutcomeFinished
<1>20. CASE Finish(c, "retryJob", Always, RetriedJob)
  <2> DEFINE e == RetriedJob(db, r)
  <2>1. Outcome(c, "retryJob", TRUE, e)
    BY <1>20 DEF Finish, Outcome, Over, Always
  <2>2. r # Idle /\ r.in.op = "retryJob"
    BY <2>1 DEF Outcome
  <2>3. TRUE => Preserves(r, e)
    <3>1. TRUE => Keeps(db, e, {})
      BY JobsKeep
    <3>2. TRUE => LiveTables(e) \subseteq LiveTables(db)
      BY <1>0, JobTables DEF NoTable
    <3> HIDE DEF e
    <3> QED
      BY <3>1, <3>2, KeepsPreserves
  <2> HIDE DEF e
  <2> QED
    BY <2>1, <2>3, OutcomeFinished
<1> QED
  BY <1>1, <1>2, <1>3, <1>4, <1>5, <1>6, <1>7, <1>8, <1>9, <1>10, <1>11, <1>12, <1>13, <1>14, <1>15, <1>16, <1>17, <1>18, <1>19, <1>20 DEF Finishes

-----------------------------------------------------------------------------
(* The query of the records of a table.                                    *)

\* A live field has a column.
LEMMA FieldHasColumn ==
  ASSUME NEW d, TablesBuilt(d), NEW t \in LiveTables(d), NEW f \in FieldsOf(d, t)
  PROVE  HasColumn(d, TableName[t], FieldName[f])
BY DEF TablesBuilt, HasColumn, Columns

\* A caption names a column.
LEMMA CaptionHasColumn ==
  ASSUME NEW d, TablesBuilt(d), CaptionsResolve(d), NEW t \in LiveTables(d), d.table[t].caption # NoCaption
  PROVE  HasColumn(d, TableName[t], d.table[t].caption)
<1>1. PICK f \in FieldsOf(d, t) : FieldName[f] = d.table[t].caption
  BY DEF CaptionsResolve, StringFieldNamed, findTableFieldByName
<1> QED
  BY <1>1, FieldHasColumn

\* The join through a link names columns of both tables.
LEMMA JoinHasColumns ==
  ASSUME NEW d, Sound(d), TablesBuilt(d), NEW l \in d.links, NEW name, HasColumn(d, TableName[ParentTable(l)], name)
  PROVE  \A x \in JoinNames(d, l, name) : HasColumn(d, x[1], x[2])
<1>1. LinkParent[l] \in LiveFields(d) /\ LinkChild[l] \in LiveFields(d)
  BY DEF Sound, RowsReferred
<1>2. /\ ParentTable(l) \in LiveTables(d) /\ LinkParent[l] \in FieldsOf(d, ParentTable(l))
      /\ ChildTable(l) \in LiveTables(d) /\ LinkChild[l] \in FieldsOf(d, ChildTable(l))
  BY <1>1 DEF Sound, RowsReferred, FieldsOf, ParentTable, ChildTable
<1>3. HasColumn(d, TableName[ParentTable(l)], FieldName[LinkParent[l]]) /\ HasColumn(d, TableName[ChildTable(l)], FieldName[LinkChild[l]])
  BY <1>2, FieldHasColumn
<1> QED
  BY <1>3 DEF JoinNames

\* Columns saved as display options name columns that exist.
LEMMA ColumnsReadable ==
  ASSUME NEW d, Sound(d), TablesBuilt(d), NEW t \in LiveTables(d), OptionsOf(d, t).columns # {}, NEW x \in ColumnNames(d, t)
  PROVE  HasColumn(d, x[1], x[2])
<1>1. t \in DOMAIN d.options /\ OptionsOf(d, t) = d.options[t]
  BY DEF OptionsOf, NoOptions
<1>2. \A col \in d.options[t].columns : ColumnStands(d, t, col)
  BY <1>1 DEF Sound, OptionsStand, OptionStands
<1>3. PICK col \in d.options[t].columns :
        x \in IF col.type = "direct" THEN {<<TableName[t], FieldName[f]>> : f \in {col.field} \cap FieldsOf(d, t)}
              ELSE IF col.link \in LoadedLinks(d, t) THEN JoinNames(d, col.link, TargetName(d, col.link, col.target))
              ELSE {}
  BY <1>1 DEF ColumnNames
<1>4. CASE col.type = "direct"
  BY <1>3, <1>4, FieldHasColumn
<1>5. CASE col.type # "direct"
  <2>1. col.link \in d.links /\ col.target \in FieldsOf(d, ParentTable(col.link))
    BY <1>2, <1>5 DEF ColumnStands
  <2>2. ParentTable(col.link) \in LiveTables(d)
    BY <2>1 DEF Sound, RowsReferred, FieldsOf
  <2>3. x \in JoinNames(d, col.link, FieldName[col.target])
    BY <1>3, <1>5, <2>1 DEF TargetName
  <2>4. HasColumn(d, TableName[ParentTable(col.link)], FieldName[col.target])
    BY <2>1, <2>2, FieldHasColumn
  <2> QED
    BY <2>1, <2>3, <2>4, JoinHasColumns
<1> QED
  BY <1>4, <1>5

\* So do the fields shown of options without columns.
LEMMA LegacyReadable ==
  ASSUME NEW d, Sound(d), TablesBuilt(d), CaptionsResolve(d), NEW t \in LiveTables(d),
         OptionsOf(d, t).columns = {}, ~CaptionLost(d, t), NEW x \in LegacyNames(d, t)
  PROVE  HasColumn(d, x[1], x[2])
<1>1. CASE x \in {<<TableName[t], FieldName[f]>> : f \in OptionsOf(d, t).shown \cap FieldsOf(d, t)}
  BY <1>1, FieldHasColumn
<1>2. CASE \E f \in LinkedFields(d, t) :
             x \in JoinNames(d, OptionsOf(d, t).linked[f], d.table[ParentTable(OptionsOf(d, t).linked[f])].caption)
  <2>1. PICK f \in LinkedFields(d, t) :
             x \in JoinNames(d, OptionsOf(d, t).linked[f], d.table[ParentTable(OptionsOf(d, t).linked[f])].caption)
    BY <1>2
  <2> DEFINE l == OptionsOf(d, t).linked[f]
  <2>2. l \in d.links /\ d.table[ParentTable(l)].caption # NoCaption
    BY DEF LinkedFields, LoadedLinks, CaptionLost
  <2>3. ParentTable(l) \in LiveTables(d)
    BY <2>2 DEF Sound, RowsReferred, ParentTable
  <2>4. x \in JoinNames(d, l, d.table[ParentTable(l)].caption)
    BY <2>1
  <2> HIDE DEF l
  <2>5. HasColumn(d, TableName[ParentTable(l)], d.table[ParentTable(l)].caption)
    BY <2>2, <2>3, CaptionHasColumn
  <2> QED
    BY <2>2, <2>4, <2>5, JoinHasColumns
<1> QED
  BY <1>1, <1>2 DEF LegacyNames

\* recordQuery names tables and columns that exist.
LEMMA QueryReadable ==
  ASSUME NEW d, Sound(d), TablesBuilt(d), CaptionsResolve(d), NEW t \in LiveTables(d), ~CaptionLost(d, t),
         NEW x \in recordQuery(d, t)
  PROVE  HasColumn(d, x[1], x[2])
<1>1. CASE x = <<TableName[t], "object_id">>
  <2>1. t \in TableIds /\ "object_id" \in DefaultColumns
    BY DEF Sound, Shape, DefaultColumns
  <2>2. PICK f \in FieldIds : FieldTable[f] = t /\ FieldName[f] = "object_id"
    BY <2>1, DataModelAssumption
  <2>3. f \in FieldsOf(d, t)
    BY <2>1, <2>2 DEF Sound, DefaultsLive, Defaults, FieldsOf
  <2> QED
    BY <1>1, <2>2, <2>3, FieldHasColumn
<1>2. CASE x \in {<<TableName[t], FieldName[f]>> : f \in findTableFieldByName(d, t, d.table[t].caption)}
  BY <1>2, FieldHasColumn DEF findTableFieldByName
<1>3. CASE OptionsOf(d, t).columns # {} /\ x \in ColumnNames(d, t)
  BY <1>3, ColumnsReadable
<1>4. CASE OptionsOf(d, t).columns = {} /\ x \in LegacyNames(d, t)
  BY <1>4, LegacyReadable
<1> QED
  BY <1>1, <1>2, <1>3, <1>4 DEF recordQuery

-----------------------------------------------------------------------------
(* The invariant.                                                          *)

\* The database is sound, and whole where nothing was overtaken.
Intact ==
  /\ Sound(db)
  /\ late \cap {"deleteTable", "deleteField"} = {} => TablesBuilt(db)
  /\ late \cap {"deleteTable", "deleteField", "updateField"} = {} => IndexesBuilt(db)
  /\ late \cap {"createPivot", "deleteLink", "deleteField", "deleteTable"} = {} => PathsResolve(db)
  /\ late \cap {"updateTable"} = {} => CaptionsResolve(db)
  /\ late \cap {"createEnum", "updateField"} = {} => EnumsFlagged(db)

\* The tables that a request in flight has in hand.
Holds(c, ops) == req[c] # Idle /\ req[c].in.op \in ops

\* No table gets an id that was live or in hand before.
IdsNew ==
  /\ LiveTables(db) \subseteq used
  /\ \A c \in Clients : Holds(c, {"saveDisplay", "createTable"}) => req[c].in.id \in used
  /\ \A c \in Clients : Holds(c, {"createTable"}) =>
       /\ req[c].in.id \notin LiveTables(db)
       /\ \A b \in Clients \ {c} : Holds(b, {"saveDisplay", "createTable"}) => req[b].in.id # req[c].in.id

\* Every request in flight stands.
RequestsStand ==
  /\ menu \in Menus /\ commits \in Nat /\ DOMAIN req = Clients
  /\ \A c \in Clients : req[c] # Idle => RequestStands(req[c])

IInv == Intact /\ RequestsStand /\ IdsNew

\* The initial state satisfies the invariant.
LEMMA InitIInv == SpecInit => IInv
<1> SUFFICES ASSUME SpecInit PROVE IInv
  OBVIOUS
<1>1. menu \in Menus /\ db = menu.start /\ req = [c \in Clients |-> Idle] /\ used = IdsOf(db) /\ commits = 0 /\ late = {}
  BY DEF SpecInit, Init
<1>2. Whole(db)
  BY <1>1, DataModelAssumption
<1>3. Intact
  BY <1>1, <1>2 DEF Intact, Whole
<1>4. RequestsStand
  BY <1>1 DEF RequestsStand
<1>5. IdsNew
  BY <1>1 DEF IdsNew, IdsOf, Holds
<1> QED
  BY <1>3, <1>4, <1>5 DEF IInv

\* The index jobs change what no property here reads.
JobStep == Alike(db, db') /\ UNCHANGED <<menu, req, used, commits, late>>

\* Every step of the index jobs is one.
LEMMA JobsNextIs == ASSUME Sound(db), JobsNext PROVE JobStep
<1>1. DOMAIN db = Components
  BY DEF Sound, Shape
<1>2. Alike(db, db)
  BY <1>1 DEF Alike, SameBut
<1>3. \A x : Alike(db, [db EXCEPT !.river = x]) /\ DOMAIN [db EXCEPT !.river = x] = Components
  BY <1>1 DEF Alike, SameBut, Components, Hidden
<1>4. \A x : Alike(db, [db EXCEPT !.jobs = x]) /\ DOMAIN [db EXCEPT !.jobs = x] = Components
  BY <1>1 DEF Alike, SameBut, Components, Hidden
<1>5. ASSUME NEW d, Alike(db, d), NEW e, Alike(d, e) PROVE Alike(db, e)
  BY <1>5, Then DEF Alike
<1>6. ASSUME NEW d, DOMAIN d = Components, NEW k, NEW s
      PROVE  Alike(d, Stop(d, k, s)) /\ Alike(d, Error(d, k)) /\ Alike(d, SetStatus(d, k, s))
             /\ Alike(d, failJob(d, k)) /\ Alike(d, markApplied(d, k))
  <2>1. \A v : Alike(d, Stop(d, k, v)) /\ Alike(d, SetStatus(d, k, v))
    BY <1>6 DEF Alike, SameBut, Components, Hidden, Stop, SetStatus
  <2> QED
    BY <2>1 DEF Error, failJob, markApplied
<1>7. ASSUME NEW d, Alike(db, d), NEW k, NEW s PROVE Alike(db, Stop(d, k, s)) /\ Alike(db, Error(d, k))
  <2>1. DOMAIN d = Components
    BY <1>7 DEF Alike, SameBut
  <2> QED
    BY <1>5, <1>6, <1>7, <2>1
<1>8. ASSUME NEW k \in Keys, WorkerStep(k) \/ Die(k) \/ Clean(k) PROVE JobStep
  <2>1. CASE Take(k)
    <3>1. Alike(db, db')
      BY <1>1, <2>1 DEF Take, Alike, SameBut, Components, Hidden
    <3> QED
      BY <2>1, <3>1 DEF Take, Quiet, JobStep
  <2>2. CASE StartAttempt(k)
    <3>1. Alike(db, [db EXCEPT !.jobs[k] = [status |-> "running", attempts |-> @.attempts + 1]]) /\ Alike(db, Error(db, k))
      BY <1>1, <1>6 DEF Alike, SameBut, Components, Hidden
    <3> QED
      BY <2>2, <3>1 DEF StartAttempt, Step, Done, Quiet, JobStep
  <2>3. CASE Look(k)
    <3>1. Alike(db, Stop(failJob(db, k), k, "completed")) /\ Alike(db, Stop(markApplied(db, k), k, "completed"))
      BY <1>1, <1>6, <1>7
    <3> QED
      BY <1>2, <2>3, <3>1 DEF Look, Step, Done, Quiet, JobStep
  <2>4. CASE CreateManagedIndex(k)
    <3>1. Alike(db, [db EXCEPT !.index = @ \cup {IndexOf(k)}])
      BY <1>1 DEF Alike, SameBut, Components, Hidden
    <3>2. Alike(db, Error(retryOrFail(db, k, work[k].attempts), k))
      BY <1>1, <1>6, <1>7 DEF retryOrFail
    <3> QED
      BY <2>4, <3>1, <3>2 DEF CreateManagedIndex, Step, Done, Quiet, JobStep
  <2>5. CASE MarkApplied(k) \/ Die(k)
    <3>1. Alike(db, Stop(markApplied(db, k), k, "completed")) /\ Alike(db, Error(db, k))
      BY <1>1, <1>6, <1>7
    <3> QED
      BY <2>5, <3>1 DEF MarkApplied, Die, LoseAttempt, Done, Quiet, JobStep
  <2>6. CASE Clean(k)
    <3>1. Alike(db, db')
      BY <1>1, <2>6 DEF Clean, Alike, SameBut, Components, Hidden
    <3> QED
      BY <2>6, <3>1 DEF Clean, Quiet, JobStep
  <2> QED
    BY <1>8, <2>1, <2>2, <2>3, <2>4, <2>5, <2>6 DEF WorkerStep
<1>9. CASE ReconcileStep
  <2>1. CASE reconcileTenant \/ ReconcileEnds
    BY <1>2, <2>1 DEF reconcileTenant, ReconcileEnds, dataVars, JobStep
  <2>2. CASE RepairRow
    <3>1. PICK k : db' \in {db, SetStatus(db, k, "pending"), [db EXCEPT !.jobs = With(@, k, [status |-> "pending", attempts |-> 0])]}
      BY <2>2 DEF RepairRow
    <3>2. Alike(db, db')
      BY <1>1, <1>2, <1>4, <1>6, <3>1
    <3> QED
      BY <2>2, <3>2 DEF RepairRow, Reconciling, JobStep
  <2>3. CASE RepairEnqueue
    <3>1. Alike(db, db')
      BY <1>1, <2>3, Enqueue DEF RepairEnqueue
    <3> QED
      BY <2>3, <3>1 DEF RepairEnqueue, Reconciling, JobStep
  <2> QED
    BY <1>9, <2>1, <2>2, <2>3 DEF ReconcileStep
<1> QED
  BY <1>8, <1>9 DEF JobsNext

\* The index jobs preserve the invariant.
LEMMA JobStepKeeps == ASSUME IInv, JobStep PROVE IInv'
<1>1. /\ db'.table = db.table /\ db'.field = db.field /\ db'.enum = db.enum /\ db'.links = db.links /\ db'.pivots = db.pivots
      /\ db'.options = db.options /\ LiveTables(db') = LiveTables(db)
      /\ UNCHANGED <<menu, req, used, commits, late>>
  BY AlikeIs DEF JobStep, LiveTables
<1>2. Intact'
  <2>1. Keeps(db, db', {})
    BY AlikeKeeps DEF JobStep, IInv, Intact
  <2> QED
    BY <1>1, <2>1 DEF IInv, Intact, Keeps
<1>3. RequestsStand'
  <2>1. ASSUME NEW c \in Clients, req[c] # Idle PROVE RequestStands(req[c])'
    <3>1. RequestStands(req[c])
      BY <2>1 DEF IInv, RequestsStand
    <3>2. Fresh(db, req[c]) => Fresh(db', req[c])
      BY <1>1, FreshSame
    <3>3. SaveStands(db', req[c])
      BY <1>1, <3>1 DEF RequestStands, SaveStands, Settings, OptionsOf
    <3> QED
      BY <1>1, <3>1, <3>2, <3>3 DEF RequestStands
  <2> QED
    BY <1>1, <2>1 DEF IInv, RequestsStand, RequestStands
<1>4. IdsNew'
  BY <1>1 DEF IInv, IdsNew, Holds
<1> QED
  BY <1>2, <1>3, <1>4 DEF IInv

\* A request that begins preserves the invariant.
LEMMA BegunKeeps == ASSUME IInv, NEW c \in Clients, NEW r, Begun(c, r) PROVE IInv'
<1>1. /\ req' = [req EXCEPT ![c] = r] /\ UNCHANGED <<db, menu, commits, late>> /\ used \subseteq used'
      /\ DOMAIN req = Clients
  BY DEF Begun, IInv, RequestsStand
<1>2. DOMAIN req' = Clients /\ req'[c] = r /\ \A b \in Clients \ {c} : req'[b] = req[b]
  BY <1>1
<1>3. Intact'
  BY <1>1 DEF IInv, Intact
<1>4. RequestsStand'
  <2>1. RequestStands(r)'
    BY <1>1 DEF Begun, RequestStands, IInv, RequestsStand
  <2>2. ASSUME NEW b \in Clients \ {c}, req[b] # Idle PROVE RequestStands(req[b])'
    BY <1>1, <2>2 DEF RequestStands, IInv, RequestsStand
  <2> QED
    BY <1>1, <1>2, <2>1, <2>2 DEF IInv, RequestsStand, RequestStands
<1>5. IdsNew'
  <2>1. LiveTables(db') \subseteq used'
    BY <1>1 DEF IInv, IdsNew
  <2>2. r.in.op \in {"saveDisplay", "createTable"} => r.in.id \in used'
    BY <1>1 DEF Begun, IInv, IdsNew
  <2>3. r.in.op = "saveDisplay" => r.in.id \in LiveTables(db)
    BY DEF Begun
  <2>4. r.in.op = "createTable" => r.in.id \notin used
    BY DEF Begun
  <2>5. ASSUME NEW b \in Clients, Holds(b, {"saveDisplay", "createTable"})' PROVE req'[b].in.id \in used'
    BY <1>1, <1>2, <2>2, <2>5 DEF Holds, IInv, IdsNew
  <2>6. ASSUME NEW b \in Clients, Holds(b, {"createTable"})' PROVE req'[b].in.id \notin LiveTables(db)
    BY <1>1, <1>2, <2>4, <2>6 DEF Holds, IInv, IdsNew
  <2>7. ASSUME NEW a \in Clients, NEW b \in Clients \ {a}, Holds(a, {"createTable"})', Holds(b, {"saveDisplay", "createTable"})'
        PROVE  req'[b].in.id # req'[a].in.id
    <3>1. CASE a = c
      <4>1. req'[a].in.id \notin used /\ Holds(b, {"saveDisplay", "createTable"}) /\ req'[b] = req[b]
        BY <1>2, <2>4, <2>7, <3>1 DEF Holds
      <4> QED
        BY <4>1 DEF IInv, IdsNew
    <3>2. CASE b = c
      <4>1. Holds(a, {"createTable"}) /\ req'[a] = req[a] /\ req'[b] = r
        BY <1>2, <2>7, <3>2 DEF Holds
      <4>2. req[a].in.id \in used /\ req[a].in.id \notin LiveTables(db)
        BY <4>1 DEF IInv, IdsNew, Holds
      <4>3. r.in.op \in {"saveDisplay", "createTable"}
        BY <2>7, <4>1 DEF Holds
      <4> QED
        BY <2>3, <2>4, <4>1, <4>2, <4>3
    <3>3. CASE a # c /\ b # c
      <4>1. req'[a] = req[a] /\ req'[b] = req[b] /\ Holds(a, {"createTable"}) /\ Holds(b, {"saveDisplay", "createTable"})
        BY <1>2, <2>7, <3>3 DEF Holds
      <4> QED
        BY <4>1 DEF IInv, IdsNew
    <3> QED
      BY <3>1, <3>2, <3>3
  <2> QED
    BY <1>1, <2>1, <2>5, <2>6, <2>7 DEF IdsNew, Holds
<1> QED
  BY <1>3, <1>4, <1>5 DEF IInv

\* A request that ends preserves the invariant.
LEMMA FinishedKeeps == ASSUME IInv, NEW c \in Clients, Finished(c) PROVE IInv'
<1>1. /\ req[c] # Idle /\ req' = [req EXCEPT ![c] = Idle] /\ menu' = menu /\ used' = used /\ DOMAIN req = Clients
  BY DEF Finished, IInv, RequestsStand
<1>2. DOMAIN req' = Clients /\ req'[c] = Idle /\ \A b \in Clients \ {c} : req'[b] = req[b]
  BY <1>1
<1>3. ASSUME NEW b \in Clients, NEW ops, Holds(b, ops)' PROVE b # c /\ Holds(b, ops) /\ req'[b] = req[b]
  BY <1>2, <1>3 DEF Holds
<1>4. CASE UNCHANGED <<db, late, commits>>
  <2>1. Intact'
    BY <1>4 DEF IInv, Intact
  <2>2. \A b \in Clients : req'[b] # Idle => RequestStands(req[b]) /\ req'[b] = req[b]
    BY <1>2 DEF IInv, RequestsStand
  <2>3. RequestsStand'
    BY <1>1, <1>2, <1>4, <2>2 DEF IInv, RequestsStand, RequestStands
  <2>4. IdsNew'
    BY <1>1, <1>3, <1>4 DEF IInv, IdsNew
  <2> QED
    BY <2>1, <2>3, <2>4 DEF IInv
<1>5. CASE /\ Preserves(req[c], db') /\ late' = late \cup Over(req[c]) /\ commits' = commits + 1
  <2>1. Keeps(db, db', Over(req[c])) /\ LiveTables(db') \subseteq LiveTables(db) \cup NewTables(req[c])
    BY <1>5 DEF Preserves
  <2>2. Intact'
    <3>1. \A ops : late' \cap ops = {} => late \cap ops = {} /\ Over(req[c]) \cap ops = {}
      BY <1>5
    <3> QED
      BY <2>1, <3>1 DEF IInv, Intact, Keeps
  <2>3. IdsNew'
    <3>1. \A x \in NewTables(req[c]) : x = req[c].in.id /\ Holds(c, {"createTable"}) /\ Holds(c, {"saveDisplay", "createTable"})
      BY <1>1 DEF NewTables, Holds
    <3>2. LiveTables(db') \subseteq used
      BY <2>1, <3>1 DEF IInv, IdsNew
    <3>3. ASSUME NEW b \in Clients, Holds(b, {"createTable"})' PROVE req'[b].in.id \notin LiveTables(db')
      <4>1. b # c /\ Holds(b, {"createTable"}) /\ req'[b] = req[b]
        BY <1>3, <3>3
      <4>2. req[b].in.id \notin LiveTables(db) /\ req[b].in.id \notin NewTables(req[c])
        BY <3>1, <4>1 DEF IInv, IdsNew
      <4> QED
        BY <2>1, <4>1, <4>2
    <3>4. \A b \in Clients : Holds(b, {"saveDisplay", "createTable"})' => req'[b].in.id \in used
      BY <1>3 DEF IInv, IdsNew
    <3>5. \A a \in Clients : Holds(a, {"createTable"})' =>
            \A b \in Clients \ {a} : Holds(b, {"saveDisplay", "createTable"})' => req'[b].in.id # req'[a].in.id
      BY <1>3 DEF IInv, IdsNew
    <3> QED
      BY <1>1, <3>2, <3>3, <3>4, <3>5 DEF IdsNew
  <2>4. RequestsStand'
    <3>1. ASSUME NEW b \in Clients \ {c}, req[b] # Idle PROVE RequestStands(req[b])'
      <4> DEFINE r == req[b]
                 t == r.in.id
      <4>1. r.in \in menu.asks /\ r.at \in Nat /\ r.at <= commits /\ Known(r) /\ SaveStands(db, r) /\ commits \in Nat
        BY <3>1 DEF IInv, RequestsStand, RequestStands
      <4>2. SaveStands(db', r)
        <5> SUFFICES ASSUME r.in.op = "saveDisplay", t \in LiveTables(db')
                     PROVE  /\ r.row.version <= db'.table[t].version /\ r.row.version \in Nat
                            /\ r.row.version = db'.table[t].version => Settings(db', t) = r.row.settings
          BY DEF SaveStands
        <5>1. Holds(b, {"saveDisplay", "createTable"})
          BY <3>1 DEF Holds
        <5>2. t \notin NewTables(req[c])
          BY <1>1, <5>1 DEF IInv, IdsNew, NewTables, Holds
        <5>3. t \in LiveTables(db)
          BY <2>1, <5>2
        <5>4. /\ db'.table[t].version >= db.table[t].version
              /\ Settings(db', t) # Settings(db, t) => db'.table[t].version > db.table[t].version
          BY <2>1, <5>3 DEF Keeps, VersionsMove
        <5>5. db'.table[t].version \in Nat /\ db.table[t].version \in Nat
          BY <2>1, <5>3 DEF Keeps, Sound, Shape, IInv, Intact
        <5>6. /\ r.row.version <= db.table[t].version /\ r.row.version \in Nat
              /\ r.row.version = db.table[t].version => Settings(db, t) = r.row.settings
          BY <4>1, <5>3 DEF SaveStands
        <5> HIDE DEF r, t
        <5>7. r.row.version <= db'.table[t].version
          BY <5>4, <5>5, <5>6
        <5>8. ASSUME r.row.version = db'.table[t].version PROVE Settings(db', t) = r.row.settings
          <6>1. db'.table[t].version = db.table[t].version /\ r.row.version = db.table[t].version
            BY <5>4, <5>5, <5>6, <5>8
          <6>2. Settings(db', t) = Settings(db, t)
            BY <5>4, <5>5, <6>1
          <6> QED
            BY <5>6, <6>1, <6>2
        <5> QED
          BY <5>6, <5>7, <5>8
      <4> QED
        BY <1>1, <1>5, <4>1, <4>2 DEF RequestStands
    <3>2. commits' \in Nat /\ menu' \in Menus
      BY <1>1, <1>5 DEF IInv, RequestsStand
    <3> QED
      BY <1>2, <3>1, <3>2 DEF RequestsStand, RequestStands
  <2> QED
    BY <2>2, <2>3, <2>4 DEF IInv
<1> QED
  BY <1>4, <1>5 DEF Finished

\* Every step of the clients begins a request or ends one.
LEMMA DataNextIs == ASSUME IInv, DataNext PROVE \E c \in Clients : Finished(c) \/ (req[c] = Idle /\ \E r : Begun(c, r))
<1>1. PICK c \in Clients : Starts(c) \/ Finishes(c) \/ Fail(c)
  BY DEF DataNext, TenantRequests, TableRequests, FieldRequests, EnumRequests, RelationRequests, NavigationRequests,
         OptionRequests, DisplayRequests, JobRequests, Starts, Finishes
<1>2. Sound(db) /\ \A in \in menu.asks : WellFormed(in)
  BY DataModelAssumption DEF IInv, Intact, RequestsStand
<1>3. CASE Starts(c)
  BY <1>2, <1>3, BeginIs
<1>4. CASE Finishes(c)
  BY <1>2, <1>4, FinishIs DEF IInv, RequestsStand
<1>5. CASE Fail(c)
  BY <1>5 DEF Fail, Finished
<1> QED
  BY <1>1, <1>3, <1>4, <1>5

\* Every step preserves the invariant.
LEMMA StepIInv == IInv /\ [Next]_vars => IInv'
<1> SUFFICES ASSUME IInv, [Next]_vars PROVE IInv'
  OBVIOUS
<1>1. CASE DataNext
  BY <1>1, DataNextIs, BegunKeeps, FinishedKeeps
<1>2. CASE JobsNext
  <2>1. Sound(db)
    BY DEF IInv, Intact
  <2> QED
    BY <1>2, <2>1, JobsNextIs, JobStepKeeps
<1>3. CASE UNCHANGED vars
  <2>1. Alike(db, db)
    BY DEF IInv, Intact, Sound, Shape, Alike, SameBut
  <2>2. JobStep
    BY <1>3, <2>1 DEF vars, dataVars, JobStep
  <2> QED
    BY <2>2, JobStepKeeps
<1> QED
  BY <1>1, <1>2, <1>3 DEF Next

\* The invariant holds in every state, whatever requests and index jobs interleave.
THEOREM Invariance == Spec => []IInv
BY InitIInv, StepIInv, PTL DEF Spec

\* The physical tables, columns and indexes of a tenant are those its catalogue says,
\* unless a deletion or a field update committed on reads that were overtaken.
THEOREM SchemaDescribed == Spec => []SchemaIsDescribed
<1>1. IInv => SchemaIsDescribed
  BY DEF IInv, Intact, Sound, SchemaIsDescribed, SchemaMatchesMetadata, SchemaAgrees, ContractCurrent
<1> QED
  BY <1>1, Invariance, PTL

\* Every reference of the model resolves, and the query of the records of a table names
\* columns that exist, as far as checks inside transactions promise it.
THEOREM ModelReadable == Spec => []ModelIsReadable
<1>1. ASSUME IInv PROVE ModelIsReadable
  <2>1. ReferencesResolve
    BY <1>1 DEF IInv, Intact, Sound, ReferencesResolve
  <2>2. DisplaysReadable
    <3> SUFFICES ASSUME late \cap {"deleteTable", "deleteField", "updateTable"} = {},
                        NEW t \in LiveTables(db), ~CaptionLost(db, t), NEW name \in recordQuery(db, t)
                 PROVE  HasColumn(db, name[1], name[2])
      BY DEF DisplaysReadable
    <3>1. Sound(db) /\ TablesBuilt(db) /\ CaptionsResolve(db)
      BY <1>1 DEF IInv, Intact
    <3> QED
      BY <3>1, QueryReadable
  <2> QED
    BY <2>1, <2>2 DEF ModelIsReadable
<1> QED
  BY <1>1, Invariance, PTL

\* SaveDisplaySettings never overwrites settings that its client has not seen: the
\* version it compares rises with every change of caption or options.
THEOREM SavesLatest == Spec => SavesSeeLatest
<1> DEFINE A == \A c \in Clients :
       req[c] # Idle /\ req'[c] = Idle /\ db' # db =>
         (req[c].in.op = "saveDisplay" => Settings(db, req[c].in.id) = req[c].row.settings)
<1>1. ASSUME IInv, [Next]_vars PROVE [A]_dataVars
  <2> SUFFICES ASSUME NEW c \in Clients, req[c] # Idle, req'[c] = Idle, db' # db, req[c].in.op = "saveDisplay"
               PROVE  Settings(db, req[c].in.id) = req[c].row.settings
    OBVIOUS
  <2>1. CASE DataNext
    <3>1. PICK b \in Clients : Finished(b) \/ (req[b] = Idle /\ \E r : Begun(b, r))
      BY <1>1, <2>1, DataNextIs
    <3>2. Finished(b)
      BY <3>1 DEF Begun
    <3>3. b = c
      BY <1>1, <3>2 DEF Finished, IInv, RequestsStand
    <3>4. req[c].in.id \in LiveTables(db) /\ req[c].row.version = db.table[req[c].in.id].version
      BY <3>2, <3>3 DEF Finished
    <3>5. SaveStands(db, req[c])
      BY <1>1 DEF IInv, RequestsStand, RequestStands
    <3> QED
      BY <3>4, <3>5 DEF SaveStands
  <2>2. CASE JobsNext
    BY <1>1, <2>2, JobsNextIs DEF IInv, Intact, JobStep
  <2>3. CASE UNCHANGED vars
    BY <2>3 DEF vars, dataVars
  <2> QED
    BY <1>1, <2>1, <2>2, <2>3 DEF Next
<1>2. IInv /\ [Next]_vars => [A]_dataVars
  BY <1>1
<1> QED
  BY <1>2, Invariance, PTL DEF Spec, SavesSeeLatest
=============================================================================
