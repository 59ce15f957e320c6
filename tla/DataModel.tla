------------------------------ MODULE DataModel ------------------------------
(***************************************************************************)
(* The data-model service: the metadata of one tenant (tables, fields,     *)
(* links, pivots, enum values, display options, navigation options), the   *)
(* physical schema the metadata describes, the ingestion contracts that    *)
(* triggers publish from it, and the index jobs that some changes request. *)
(*                                                                         *)
(* All of it is in one PostgreSQL database, the record db.  A request      *)
(* reads and checks outside any transaction and then runs one transaction: *)
(* Begin is the first half and keeps what the request carries over, Finish *)
(* the second half.  A transaction is a function from database to database *)
(* with the condition under which no statement of it fails; when one does, *)
(* or when the connection is lost, the database is as it was.              *)
(*                                                                         *)
(* Ids are never reused, and what an id is created with never changes, so  *)
(* that the names, tables and types of ids are constants.  The value       *)
(* "shown" stands for displayed_fields and field_order, which are always   *)
(* checked and cleaned together.                                           *)
(***************************************************************************)
EXTENDS Naturals, Sequences, FiniteSets, Functions, River, TLC

CONSTANTS Users, Services,                    \* clients with and without a grant
          TableIds, TableName,
          FieldIds, FieldTable, FieldName, DataType,
          LinkIds, LinkParent, LinkChild, LinkName,
          PivotIds, PivotBase, PivotField, PivotPath,
          NavIds, NavSource, NavFilter, NavOrder,
          EnumIds, EnumField,
          Menus,                              \* a behaviour has one: its first database,
                                              \* the requests made, how many, and who else runs
          MaxColumns,
          Unset, Idle

VARIABLES db, menu, req, used, asked, commits, late

dataVars == <<db, menu, req, used, asked, commits, late>>

Clients == Users \cup Services
NoCaption == ""
DefaultColumns == {"object_id", "updated_at"}
reservedFieldNames == DefaultColumns \cup {"id", "valid_from", "valid_until"}

Without(f, S) == Restrict(f, DOMAIN f \ S)
With(f, x, v) == [y \in DOMAIN f \cup {x} |-> IF y = x THEN v ELSE f[y]]
Merge(f, g) == [x \in DOMAIN f \cup DOMAIN g |-> IF x \in DOMAIN f THEN f[x] ELSE g[x]]

LiveTables(d) == DOMAIN d.table
LiveFields(d) == DOMAIN d.field
FieldsOf(d, t) == {f \in LiveFields(d) : FieldTable[f] = t}
NameOf(f) == TableName[FieldTable[f]]
Defaults(t) == {f \in FieldIds : FieldTable[f] = t /\ FieldName[f] \in DefaultColumns}
ParentTable(l) == FieldTable[LinkParent[l]]
ChildTable(l) == FieldTable[LinkChild[l]]
findTableFieldByName(d, t, name) == {f \in FieldsOf(d, t) : FieldName[f] = name}
StringFieldNamed(d, t, name) == \E f \in findTableFieldByName(d, t, name) : DataType[f] = "string"
supportsUnique(f) == DataType[f] \in {"string", "int", "float"}
-----------------------------------------------------------------------------
(* What the triggers of the metadata tables do.                            *)

\* publish_ingestion_contract: the document readers of the contract see.
Document(d, t) ==
  [f \in FieldsOf(d, t) |->
     [enum |-> d.field[f].enum, unique |-> d.field[f].unique,
      values |-> IF d.field[f].enum THEN {d.enum[e] : e \in {x \in DOMAIN d.enum : EnumField[x] = f}} ELSE {}]]

publish_ingestion_contract(d, t) ==
  IF t \in LiveTables(d) THEN [d EXCEPT !.contract = With(@, t, Document(d, t))] ELSE d

\* (Mutant: the contract is not refreshed when rows are deleted.)
refresh_inserts_only(d, t) ==
  IF t \in DOMAIN d.contract /\ DOMAIN d.contract[t] \ FieldsOf(d, t) # {} THEN d ELSE publish_ingestion_contract(d, t)

refresh_ingestion_contract(d, t) == publish_ingestion_contract(d, t)

\* validate_display_options_v1: when there are columns only they are checked.
ColumnValid(d, t, col) ==
  IF col.type = "direct" THEN col.field \in FieldsOf(d, t)
  ELSE /\ col.link \in d.links
       /\ ChildTable(col.link) = t
       /\ d.field[LinkParent[col.link]].unique
       /\ col.target \in FieldsOf(d, ParentTable(col.link))

validate_display_options(d, t) ==
  LET o == d.options[t]
  IN IF o.columns # {} THEN /\ Cardinality(o.columns) <= MaxColumns
                            /\ \A col \in o.columns : ColumnValid(d, t, col)
     ELSE /\ Cardinality(o.shown) <= MaxColumns
          /\ o.shown \subseteq FieldsOf(d, t)

\* touch_display_options_v1
touch_display_options(d, ts) ==
  LET touched(row) == [row EXCEPT !.version = @ + 1]
  IN [d EXCEPT !.table = [t \in DOMAIN @ |-> IF t \in ts THEN touched(@[t]) ELSE @[t]]]

\* touch_display_caption_v1: BEFORE UPDATE OF caption_field.
touch_display_caption(d, t, caption) ==
  [d EXCEPT !.table[t].version = IF d.table[t].caption # caption THEN @ + 1 ELSE @,
            !.table[t].caption = caption]

\* (Mutant: columns that show the deleted field of a related table stay.)
WithoutOwnFields(o, fs) ==
  [o EXCEPT !.shown = @ \ fs, !.linked = Without(@, fs), !.columns = {col \in @ : col.type # "direct" \/ col.field \notin fs}]

\* The part of clean_field_display_v1 that updates table_options, for the
\* fields one statement deletes.
WithoutFields(o, fs) ==
  [shown |-> o.shown \ fs,
   linked |-> Without(o.linked, fs),
   columns |-> {col \in o.columns : IF col.type = "direct" THEN col.field \notin fs ELSE col.target \notin fs}]
TouchedByFields(d, fs) ==
  {t \in DOMAIN d.options : t \in {FieldTable[f] : f \in fs}
                              \/ WithoutFields(d.options[t], fs).columns # d.options[t].columns}
OptionsWithoutFields(d, fs) ==
  LET ts == TouchedByFields(d, fs)
  IN touch_display_options(
       [d EXCEPT !.options = [t \in DOMAIN @ |-> IF t \in ts THEN WithoutFields(@[t], fs) ELSE @[t]]], ts)

\* clean_field_display_v1; display_version=display_version+1 is what the
\* caption trigger would set too.
clean_field_display(d, f) ==
  LET t == FieldTable[f]
  IN [OptionsWithoutFields(d, {f}) EXCEPT
        !.table[t].caption = IF @ = FieldName[f] THEN NoCaption ELSE @,
        !.table[t].version = @ + 1]

\* clean_link_display_v1 for a set of links deleted by one statement.
WithoutLinks(o, ls) ==
  [shown |-> o.shown,
   linked |-> Restrict(o.linked, {f \in DOMAIN o.linked : o.linked[f] \notin ls}),
   columns |-> {col \in o.columns : col.type = "direct" \/ col.link \notin ls}]
TouchedByLinks(d, ls) ==
  {t \in DOMAIN d.options : t \in {ChildTable(l) : l \in ls} \/ WithoutLinks(d.options[t], ls).columns # d.options[t].columns}

clean_link_display(d, ls) ==
  touch_display_options(
    touch_display_options(
      [d EXCEPT !.options = [t \in DOMAIN @ |-> IF t \in TouchedByLinks(d, ls) THEN WithoutLinks(@[t], ls) ELSE @[t]]],
      TouchedByLinks(d, ls)),
    {ChildTable(l) : l \in ls} \cap LiveTables(d))
-----------------------------------------------------------------------------
(* The pieces transactions are made of.                                    *)

\* A row of tenant_schema_migrations; the revision id is a hash of them all.
recordTenantSchemaMigration(d) == [d EXCEPT !.revision = @ + 1]

\* RiverIndexJobEnqueuer.enqueue: unique by arguments.
RiverState(d, k) == IF k \in DOMAIN d.river THEN d.river[k].state ELSE "none"
enqueue(d, k) ==
  IF RiverState(d, k) \in UniqueStates THEN d
  ELSE [d EXCEPT !.river = With(@, k, [state |-> "available", attempt |-> 0])]

JobKey(t, type, columns) == [table |-> t, type |-> type, columns |-> columns]
NewJob(d, k) == enqueue([d EXCEPT !.jobs = With(@, k, [status |-> "pending", attempts |-> 0])], k)
RetryJob(d, k) == [d EXCEPT !.jobs[k].status = "pending"]

ensureManagedIndexJobTx(d, k) ==
  IF k \notin DOMAIN d.jobs THEN NewJob(d, k)
  ELSE IF d.jobs[k].status = "failed" THEN enqueue(RetryJob(d, k), k)
  ELSE d

\* IndexJobRepository and DDL on the tenant's schema.  Dropping a table or a
\* column drops the indexes on it.
DropTable(d, name) ==
  [d EXCEPT !.phys = Without(@, {name}),
            !.uniq = {x \in @ : x.table # name}, !.index = {x \in @ : x.table # name}]
DropField(d, name, column) ==
  [d EXCEPT !.phys[name] = @ \ {column},
            !.uniq = @ \ {[table |-> name, column |-> column]},
            !.index = {x \in @ : x.table # name \/ column \notin Range(x.columns)}]
HasColumn(d, name, column) == name \in DOMAIN d.phys /\ column \in d.phys[name]
CreateUniqueIndex(d, name, column) == [d EXCEPT !.uniq = @ \cup {[table |-> name, column |-> column]}]
DropUniqueIndex(d, name, column) == [d EXCEPT !.uniq = @ \ {[table |-> name, column |-> column]}]

\* The rows ON DELETE CASCADE takes along with a set of fields.
LinksOn(d, fs) == {l \in d.links : LinkParent[l] \in fs \/ LinkChild[l] \in fs}
CascadeFields(d, fs) ==
  [d EXCEPT !.field = Without(@, fs),
            !.enum = Without(@, {e \in DOMAIN @ : EnumField[e] \in fs}),
            !.links = @ \ LinksOn(d, fs),
            !.pivots = {p \in @ : PivotField[p] \notin fs},
            !.navs = {n \in @ : {NavSource[n], NavFilter[n], NavOrder[n]} \cap fs = {}}]

\* DELETE FROM core.model_fields: the cascades first, then the triggers.
FieldGone(d, f) == clean_field_display(CascadeFields(d, {f}), f)
CanDeleteFieldRow(d, f) ==
  LET d1 == FieldGone(d, f)  ls == LinksOn(d, {f})
  IN f \in LiveFields(d) =>
       /\ \A t \in TouchedByFields(CascadeFields(d, {f}), {f}) : validate_display_options(d1, t)
       /\ \A t \in TouchedByLinks(d1, ls) : validate_display_options(clean_link_display(d1, ls), t)
DeleteFieldRow(d, f) ==
  IF f \notin LiveFields(d) THEN d
  ELSE refresh_ingestion_contract(clean_link_display(FieldGone(d, f), LinksOn(d, {f})), FieldTable[f])

\* DELETE FROM core.model_tables: every row that refers to the table goes
\* before the triggers of the rows that went; these clean the options of other
\* tables, one deleted field after the other.
TableGone(d, t) ==
  [CascadeFields(d, FieldsOf(d, t)) EXCEPT
     !.table = Without(@, {t}), !.contract = Without(@, {t}), !.options = Without(@, {t}),
     !.jobs = Without(@, {k \in DOMAIN @ : k.table = t}), !.pivots = {p \in @ : PivotBase[p] # t}]
DeleteTableRow(d, t) ==
  IF t \notin LiveTables(d) THEN d
  ELSE clean_link_display(OptionsWithoutFields(TableGone(d, t), FieldsOf(d, t)), LinksOn(d, FieldsOf(d, t)))
CanDeleteTableRow(d, t) ==
  t \in LiveTables(d) =>
    \A u \in DOMAIN d.options \ {t} :
      /\ Cardinality({col.target : col \in {x \in d.options[u].columns :
           x.type = "relation" /\ x.link \in LinksOn(d, FieldsOf(d, t))}}) <= 1
      /\ DeleteTableRow(d, t).options[u] # d.options[u] => validate_display_options(DeleteTableRow(d, t), u)
-----------------------------------------------------------------------------
(* Requests.  r.in is what the client asked for, r.row what the service    *)
(* read and carries into the transaction.                                  *)

\* access.Check, at the start of the transaction of a client with a grant:
\* the row that the path of the request names must still exist.
Owned(d, in) ==
  CASE in.op \in {"updateTable", "deleteTable", "upsertOptions", "saveDisplay"} -> in.id \in LiveTables(d)
    [] in.op \in {"updateField", "deleteField"} -> in.id \in LiveFields(d)
    [] in.op = "createField" -> FieldTable[in.id] \in LiveTables(d)
    [] in.op = "createEnum" -> EnumField[in.id] \in LiveFields(d)
    [] in.op \in {"updateEnum", "deleteEnum"} -> in.id \in DOMAIN d.enum
    [] in.op = "deleteLink" -> in.id \in d.links
    [] in.op = "deletePivot" -> in.id \in d.pivots
    [] in.op = "createNav" -> FieldTable[NavSource[in.id]] \in LiveTables(d)
    [] in.op = "deleteNav" -> in.id \in d.navs
    [] in.op = "retryJob" -> in.id \in DOMAIN d.jobs
    [] OTHER -> TRUE

Provision(d, r) == recordTenantSchemaMigration([d EXCEPT !.status = "active"])

\* TableService
CanCreateTable(d, r) == TableName[r.in.id] \notin {TableName[t] : t \in LiveTables(d)}
CreateTable(d, r) ==
  LET t == r.in.id
      d1 == [d EXCEPT !.table = With(@, t, [caption |-> NoCaption, version |-> 0]),
                      !.phys = Merge(@, [n \in {TableName[t]} |-> DefaultColumns]),
                      !.field = Merge([f \in Defaults(t) |-> [enum |-> FALSE, unique |-> FieldName[f] = "object_id"]], @)]
  IN recordTenantSchemaMigration(refresh_ingestion_contract(CreateUniqueIndex(d1, TableName[t], "object_id"), t))

MayUpdateTable(d, in) ==
  /\ in.id \in LiveTables(d)
  /\ in.caption \in {Unset, NoCaption} \/ StringFieldNamed(d, in.id, in.caption)
UpdatedTable(d, in) == IF in.caption = Unset THEN d.table[in.id].caption ELSE in.caption
SearchKey(t, caption) == JobKey(t, "search", <<caption>>)
SetCaption(d, t, caption) ==
  LET d1 == refresh_ingestion_contract(touch_display_caption(d, t, caption), t)
  IN IF caption = NoCaption THEN d1 ELSE ensureManagedIndexJobTx(d1, SearchKey(t, caption))
CanUpdateTable(d, r) == r.row = NoCaption \/ r.in.id \in LiveTables(d)
UpdateTable(d, r) == IF r.in.id \in LiveTables(d) THEN SetCaption(d, r.in.id, r.row) ELSE d

TableConflicts(d, t) == {l \in d.links : t \in {ParentTable(l), ChildTable(l)}} \cup {p \in d.pivots : PivotBase[p] = t}
MayDeleteTable(d, in) == in.id \in LiveTables(d) /\ TableConflicts(d, in.id) = {}
CanDeleteTable(d, r) == CanDeleteTableRow(d, r.in.id)

\* (Mutant: the physical table stays.)
DeleteTableMetadata(d, r) == recordTenantSchemaMigration(DeleteTableRow(d, r.in.id))

DeleteTable(d, r) == recordTenantSchemaMigration(DeleteTableRow(DropTable(d, TableName[r.in.id]), r.in.id))

\* FieldService
ValidateFieldCreate(in) ==
  /\ FieldName[in.id] \notin reservedFieldNames
  /\ (in.enum \/ in.unique) => supportsUnique(in.id)
  /\ ~(in.enum /\ in.unique)
MayCreateField(d, in) ==
  /\ ValidateFieldCreate(in)
  /\ DOMAIN in.seeds # {} => in.enum
  /\ FieldTable[in.id] \in LiveTables(d)
CanCreateField(d, r) ==
  LET f == r.in.id
  IN /\ FieldTable[f] \in LiveTables(d)
     /\ findTableFieldByName(d, FieldTable[f], FieldName[f]) = {}
     /\ NameOf(f) \in DOMAIN d.phys
     /\ Cardinality(Range(r.in.seeds)) = Cardinality(DOMAIN r.in.seeds)
CreateField(d, r) ==
  LET f == r.in.id
      d1 == [d EXCEPT !.field = With(@, f, [enum |-> r.in.enum, unique |-> r.in.unique]),
                      !.phys[NameOf(f)] = @ \cup {FieldName[f]},
                      !.enum = Merge(r.in.seeds, @)]
      d2 == IF r.in.unique THEN CreateUniqueIndex(d1, NameOf(f), FieldName[f]) ELSE d1
  IN recordTenantSchemaMigration(refresh_ingestion_contract(d2, FieldTable[f]))

Choose(choice, current) == IF choice = Unset THEN current ELSE choice
EnumRows(d, f) == {e \in DOMAIN d.enum : EnumField[e] = f}
UpdatedField(d, in) ==
  [enum |-> Choose(in.enum, d.field[in.id].enum), unique |-> Choose(in.unique, d.field[in.id].unique),
   previousUnique |-> d.field[in.id].unique]
ValidateFieldUpdate(d, in) ==
  LET row == UpdatedField(d, in)
  IN /\ (in.enum = TRUE \/ in.unique = TRUE) => supportsUnique(in.id)
     /\ ~(row.enum /\ row.unique)
     /\ FieldName[in.id] \in DefaultColumns => in.enum = Unset /\ in.unique = Unset
MayUpdateField(d, in) ==
  /\ in.id \in LiveFields(d)
  /\ ValidateFieldUpdate(d, in)
  /\ in.enum = FALSE /\ d.field[in.id].enum => EnumRows(d, in.id) = {}
CanUpdateField(d, r) == ~r.row.previousUnique /\ r.row.unique => HasColumn(d, NameOf(r.in.id), FieldName[r.in.id])

UpdateField(d, r) ==
  LET f == r.in.id
      d1 == IF f \in LiveFields(d) THEN [d EXCEPT !.field[f] = [enum |-> r.row.enum, unique |-> r.row.unique]] ELSE d
      d2 == IF r.row.unique = r.row.previousUnique THEN d1
            ELSE IF r.row.unique THEN CreateUniqueIndex(d1, NameOf(f), FieldName[f])
            ELSE DropUniqueIndex(d1, NameOf(f), FieldName[f])
  IN recordTenantSchemaMigration(refresh_ingestion_contract(d2, FieldTable[f]))

FieldConflicts(d, f) == LinksOn(d, {f}) \cup {p \in d.pivots : PivotField[p] = f}
MayDeleteField(d, in) ==
  /\ in.id \in LiveFields(d)
  /\ FieldName[in.id] \notin DefaultColumns
  /\ FieldConflicts(d, in.id) = {}
CanDeleteField(d, r) == NameOf(r.in.id) \in DOMAIN d.phys /\ CanDeleteFieldRow(d, r.in.id)
DeleteField(d, r) ==
  LET f == r.in.id  d1 == DropField(d, NameOf(f), FieldName[f])
  IN recordTenantSchemaMigration(DeleteFieldRow(d1, f))

\* FieldEnumValueService
MayCreateEnum(d, in) == EnumField[in.id] \in LiveFields(d) /\ d.field[EnumField[in.id]].enum
ValueFree(d, e, v) == \A x \in EnumRows(d, EnumField[e]) \ {e} : d.enum[x] # v
CanCreateEnum(d, r) == EnumField[r.in.id] \in LiveFields(d) /\ ValueFree(d, r.in.id, r.in.value)
PublishEnum(d, e) ==
  recordTenantSchemaMigration(
    IF EnumField[e] \in LiveFields(d) THEN refresh_ingestion_contract(d, FieldTable[EnumField[e]]) ELSE d)
CreateEnum(d, r) == PublishEnum([d EXCEPT !.enum = With(@, r.in.id, r.in.value)], r.in.id)
MayUpdateEnum(d, in) == in.id \in DOMAIN d.enum /\ d.field[EnumField[in.id]].enum
CanUpdateEnum(d, r) == r.in.id \in DOMAIN d.enum => ValueFree(d, r.in.id, r.in.value)
UpdateEnum(d, r) ==
  PublishEnum(IF r.in.id \in DOMAIN d.enum THEN [d EXCEPT !.enum[r.in.id] = r.in.value] ELSE d, r.in.id)
MayDeleteEnum(d, in) == in.id \in DOMAIN d.enum
DeleteEnum(d, r) == PublishEnum([d EXCEPT !.enum = Without(@, {r.in.id})], r.in.id)

\* LinkService
MayCreateLink(d, in) ==
  /\ {LinkParent[in.id], LinkChild[in.id]} \subseteq LiveFields(d)
  /\ d.field[LinkParent[in.id]].unique
  /\ DataType[LinkParent[in.id]] = "string" /\ DataType[LinkChild[in.id]] = "string"
CanCreateLink(d, r) ==
  /\ {LinkParent[r.in.id], LinkChild[r.in.id]} \subseteq LiveFields(d)
  /\ \A l \in d.links : <<ChildTable(l), LinkName[l]>> # <<ChildTable(r.in.id), LinkName[r.in.id]>>
CreateLink(d, r) == recordTenantSchemaMigration([d EXCEPT !.links = @ \cup {r.in.id}])

\* (Mutant: the paths of pivots are not searched for the link.)
MayDeleteUsedLink(d, in) == in.id \in d.links

MayDeleteLink(d, in) == in.id \in d.links /\ \A p \in d.pivots : in.id \notin Range(PivotPath[p])
DeleteLinkRow(d, l) == clean_link_display([d EXCEPT !.links = @ \ {l}], {l})
CanDeleteLink(d, r) ==
  r.in.id \in d.links => LET d1 == DeleteLinkRow(d, r.in.id)
                         IN \A t \in TouchedByLinks(d, {r.in.id}) : validate_display_options(d1, t)
DeleteLink(d, r) == recordTenantSchemaMigration(IF r.in.id \in d.links THEN DeleteLinkRow(d, r.in.id) ELSE d)

\* PivotService
PathChained(d, t, path) ==
  /\ Range(path) \subseteq d.links
  /\ ChildTable(path[1]) = t
  /\ \A i \in 2..Len(path) : ParentTable(path[i - 1]) = ChildTable(path[i])
MayCreatePivot(d, in) ==
  LET p == in.id
  IN /\ (PivotField[p] = Unset) # (PivotPath[p] = <<>>)
     /\ PivotBase[p] \in LiveTables(d)
     /\ PivotField[p] # Unset => PivotField[p] \in FieldsOf(d, PivotBase[p]) /\ DataType[PivotField[p]] = "string"
     /\ PivotPath[p] # <<>> => /\ PathChained(d, PivotBase[p], PivotPath[p])
                               /\ DataType[LinkParent[PivotPath[p][Len(PivotPath[p])]]] = "string"
CanCreatePivot(d, r) ==
  PivotBase[r.in.id] \in LiveTables(d) /\ (PivotField[r.in.id] # Unset => PivotField[r.in.id] \in LiveFields(d))
CreatePivot(d, r) == recordTenantSchemaMigration([d EXCEPT !.pivots = @ \cup {r.in.id}])
MayDeletePivot(d, in) == in.id \in d.pivots
DeletePivot(d, r) == recordTenantSchemaMigration([d EXCEPT !.pivots = @ \ {r.in.id}])

\* NavigationOptionService
NavTarget(n) == FieldTable[NavFilter[n]]
NavBacked(d, n) ==
  \/ \E l \in d.links : LinkParent[l] = NavSource[n] /\ LinkChild[l] = NavFilter[n]
  \/ /\ FieldTable[NavSource[n]] = NavTarget(n)
     /\ \E p \in d.pivots : PivotField[p] = NavSource[n]
NavShape(n) ==
  /\ FieldTable[NavOrder[n]] = NavTarget(n)
  /\ DataType[NavSource[n]] = "string"
  /\ NavFilter[n] # NavOrder[n]
  /\ FieldTable[NavSource[n]] = NavTarget(n) => NavSource[n] = NavFilter[n]
MayCreateNav(d, in) ==
  /\ {NavSource[in.id], NavFilter[in.id], NavOrder[in.id]} \subseteq LiveFields(d)
  /\ NavShape(in.id)
  /\ NavBacked(d, in.id)
CanCreateNav(d, r) == {NavSource[r.in.id], NavFilter[r.in.id], NavOrder[r.in.id]} \subseteq LiveFields(d)
NavigationKey(n) == JobKey(NavTarget(n), "navigation", <<FieldName[NavFilter[n]], FieldName[NavOrder[n]]>>)
CreateNav(d, r) == ensureManagedIndexJobTx([d EXCEPT !.navs = @ \cup {r.in.id}], NavigationKey(r.in.id))
MayDeleteNav(d, in) == in.id \in d.navs
DeleteNav(d, r) == [d EXCEPT !.navs = @ \ {r.in.id}]
-----------------------------------------------------------------------------
(* Display settings.                                                       *)

NoOptions == [shown |-> {}, linked |-> <<>>, columns |-> {}]
OptionsOf(d, t) == IF t \in DOMAIN d.options THEN d.options[t] ELSE NoOptions

\* What load() reads of a table: its links are those it can join.
LoadedLinks(d, t) == {l \in d.links : ChildTable(l) = t /\ d.field[LinkParent[l]].unique}
Settings(d, t) == [caption |-> d.table[t].caption, options |-> OptionsOf(d, t)]

\* OptionsService.Upsert leaves field_display and display_columns alone.
MayUpsertOptions(d, in) ==
  in.id \in LiveTables(d) /\ Cardinality(in.shown) <= MaxColumns /\ in.shown \subseteq FieldsOf(d, in.id)
OptionsUpserted(d, t, o) == [d EXCEPT !.options = With(@, t, o)]
UpsertedOptions(d, r) == OptionsUpserted(d, r.in.id, [OptionsOf(d, r.in.id) EXCEPT !.shown = r.in.shown])
CanUpsertOptions(d, r) ==
  r.in.id \in LiveTables(d) /\ validate_display_options(UpsertedOptions(d, r), r.in.id)
UpsertOptions(d, r) == recordTenantSchemaMigration(touch_display_options(UpsertedOptions(d, r), {r.in.id}))

\* validate() of display/model.go, on the settings loaded in the transaction.
SavableColumn(d, t, col) ==
  IF col.type = "direct" THEN col.field \in FieldsOf(d, t)
  ELSE /\ col.link \in LoadedLinks(d, t)
       /\ col.target \in FieldsOf(d, ParentTable(col.link)) \/ d.table[ParentTable(col.link)].caption # NoCaption
SavableLegacy(d, t, in) ==
  /\ Cardinality(in.shown) <= MaxColumns
  /\ in.shown \cup DOMAIN in.linked \subseteq FieldsOf(d, t)
  /\ \A f \in DOMAIN in.linked : /\ in.linked[f] \in LoadedLinks(d, t)
                                 /\ LinkChild[in.linked[f]] = f
                                 /\ d.table[ParentTable(in.linked[f])].caption # NoCaption
\* (Mutant: the version of the settings is not compared.)
validate_unversioned(d, r) ==
  LET in == r.in  t == in.id
  IN /\ in.caption = NoCaption \/ StringFieldNamed(d, t, in.caption)
     /\ IF in.columns # {} THEN \A col \in in.columns : SavableColumn(d, t, col) ELSE SavableLegacy(d, t, in)

validate(d, r) ==
  LET in == r.in  t == in.id
  IN /\ r.row.version = d.table[t].version
     /\ in.caption = NoCaption \/ StringFieldNamed(d, t, in.caption)
     /\ IF in.columns # {}
        THEN Cardinality(in.columns) <= MaxColumns /\ \A col \in in.columns : SavableColumn(d, t, col)
        ELSE SavableLegacy(d, t, in)

DirectFields(columns) == {col.field : col \in {x \in columns : x.type = "direct"}}
SavedDisplay(d, r) ==
  LET in == r.in
      shown == IF in.columns # {} /\ in.shown = {} THEN DirectFields(in.columns) ELSE in.shown
  IN OptionsUpserted(SetCaption(d, in.id, in.caption), in.id,
       [shown |-> shown, linked |-> in.linked, columns |-> in.columns])
CanSaveDisplay(d, r) ==
  /\ r.in.id \in LiveTables(d)
  /\ d.status = "active"
  /\ validate(d, r)
  /\ validate_display_options(SavedDisplay(d, r), r.in.id)
SaveDisplay(d, r) == touch_display_options(SavedDisplay(d, r), {r.in.id})

\* recordQueryWithColumns: the columns of physical tables that the query for
\* the records of table t names.
TargetName(d, l, target) ==
  IF target \in FieldsOf(d, ParentTable(l)) THEN FieldName[target] ELSE d.table[ParentTable(l)].caption
JoinNames(d, l, name) ==
  {<<TableName[ParentTable(l)], name>>, <<TableName[ParentTable(l)], FieldName[LinkParent[l]]>>,
   <<TableName[ChildTable(l)], FieldName[LinkChild[l]]>>}
ColumnNames(d, t) ==
  UNION {IF col.type = "direct" THEN {<<TableName[t], FieldName[f]>> : f \in {col.field} \cap FieldsOf(d, t)}
         ELSE IF col.link \in LoadedLinks(d, t) THEN JoinNames(d, col.link, TargetName(d, col.link, col.target))
         ELSE {} : col \in OptionsOf(d, t).columns}
LinkedFields(d, t) ==
  LET o == OptionsOf(d, t)
  IN {f \in o.shown \cap FieldsOf(d, t) \cap DOMAIN o.linked :
        o.linked[f] \in LoadedLinks(d, t) /\ LinkChild[o.linked[f]] = f}
LegacyNames(d, t) ==
  {<<TableName[t], FieldName[f]>> : f \in OptionsOf(d, t).shown \cap FieldsOf(d, t)}
    \cup UNION {LET l == OptionsOf(d, t).linked[f] IN JoinNames(d, l, d.table[ParentTable(l)].caption) : f \in LinkedFields(d, t)}
recordQuery(d, t) ==
  {<<TableName[t], "object_id">>}
    \cup {<<TableName[t], FieldName[f]>> : f \in findTableFieldByName(d, t, d.table[t].caption)}
    \cup (IF OptionsOf(d, t).columns # {} THEN ColumnNames(d, t) ELSE LegacyNames(d, t))
-----------------------------------------------------------------------------
(* Index jobs asked for through the API.                                   *)

MayCreateJob(d, in) ==
  /\ d.status = "active"
  /\ in.id.table \in LiveTables(d)
  /\ in.id.columns # <<>>
  /\ Range(in.id.columns) \subseteq {FieldName[f] : f \in FieldsOf(d, in.id.table)}
CanCreateJob(d, r) == r.in.id.table \in LiveTables(d) /\ r.in.id \notin DOMAIN d.jobs
CreateJob(d, r) == NewJob(d, r.in.id)
MayRetryJob(d, in) == in.id \in DOMAIN d.jobs /\ d.jobs[in.id].status = "failed"
RetriedJob(d, r) == IF r.in.id \in DOMAIN d.jobs THEN enqueue(RetryJob(d, r.in.id), r.in.id) ELSE enqueue(d, r.in.id)
-----------------------------------------------------------------------------
NoRow == [none |-> TRUE]

IdsOf(d) == LiveTables(d) \cup LiveFields(d) \cup DOMAIN d.enum \cup d.links \cup d.pivots \cup d.navs

Init ==
  /\ menu \in Menus
  /\ db = menu.start
  /\ req = [c \in Clients |-> Idle]
  /\ used = IdsOf(db)
  /\ asked = 0
  /\ commits = 0
  /\ late = {}

\* The reads and checks of a request; one that they refuse changes nothing.
Begin(c, op, May(_, _), Row(_, _)) ==
  /\ req[c] = Idle
  /\ asked < menu.requests
  /\ asked' = asked + 1
  /\ \E in \in menu.asks :
       /\ in.op = op
       /\ May(db, in)
       /\ req' = [req EXCEPT ![c] = [in |-> in, row |-> Row(db, in), at |-> commits]]
  /\ UNCHANGED <<db, menu, used, commits, late>>

\* The ids of creations are new.
BeginNew(c, op, May(_, _)) ==
  /\ req[c] = Idle
  /\ asked < menu.requests
  /\ asked' = asked + 1
  /\ \E in \in menu.asks :
       /\ in.op = op
       /\ in.id \notin used
       /\ May(db, in)
       /\ req' = [req EXCEPT ![c] = [in |-> in, row |-> NoRow, at |-> commits]]
       /\ used' = used \cup {in.id}
  /\ UNCHANGED <<db, menu, commits, late>>

\* The transaction of a request.  late collects the operations whose reads
\* were overtaken by another transaction.
Finish(c, op, Can(_, _), After(_, _)) ==
  /\ req[c] # Idle
  /\ req[c].in.op = op
  /\ IF (c \in Users => Owned(db, req[c].in)) /\ Can(db, req[c])
     THEN /\ db' = After(db, req[c])
          /\ late' = IF req[c].at # commits THEN late \cup {op} ELSE late
          /\ commits' = commits + 1
     ELSE UNCHANGED <<db, late, commits>>
  /\ req' = [req EXCEPT ![c] = Idle]
  /\ UNCHANGED <<menu, used, asked>>

\* The connection is lost before the commit.
Fail(c) ==
  /\ req[c] # Idle
  /\ req' = [req EXCEPT ![c] = Idle]
  /\ UNCHANGED <<db, menu, used, asked, commits, late>>

Always(d, x) == TRUE
Nothing(d, in) == NoRow
IsActive(d, in) == d.status = "active"
VersionSeen(d, in) == [version |-> d.table[in.id].version, settings |-> Settings(d, in.id)]
IsTable(d, in) == in.id \in LiveTables(d)

TenantRequests(c) ==
  \/ Begin(c, "provision", Always, Nothing) \/ Finish(c, "provision", Always, Provision)
TableRequests(c) ==
  \/ BeginNew(c, "createTable", IsActive) \/ Finish(c, "createTable", CanCreateTable, CreateTable)
  \/ Begin(c, "updateTable", MayUpdateTable, UpdatedTable) \/ Finish(c, "updateTable", CanUpdateTable, UpdateTable)
  \/ Begin(c, "deleteTable", MayDeleteTable, Nothing) \/ Finish(c, "deleteTable", CanDeleteTable, DeleteTable)
FieldRequests(c) ==
  \/ BeginNew(c, "createField", MayCreateField) \/ Finish(c, "createField", CanCreateField, CreateField)
  \/ Begin(c, "updateField", MayUpdateField, UpdatedField) \/ Finish(c, "updateField", CanUpdateField, UpdateField)
  \/ Begin(c, "deleteField", MayDeleteField, Nothing) \/ Finish(c, "deleteField", CanDeleteField, DeleteField)
EnumRequests(c) ==
  \/ BeginNew(c, "createEnum", MayCreateEnum) \/ Finish(c, "createEnum", CanCreateEnum, CreateEnum)
  \/ Begin(c, "updateEnum", MayUpdateEnum, Nothing) \/ Finish(c, "updateEnum", CanUpdateEnum, UpdateEnum)
  \/ Begin(c, "deleteEnum", MayDeleteEnum, Nothing) \/ Finish(c, "deleteEnum", Always, DeleteEnum)
RelationRequests(c) ==
  \/ BeginNew(c, "createLink", MayCreateLink) \/ Finish(c, "createLink", CanCreateLink, CreateLink)
  \/ Begin(c, "deleteLink", MayDeleteLink, Nothing) \/ Finish(c, "deleteLink", CanDeleteLink, DeleteLink)
  \/ BeginNew(c, "createPivot", MayCreatePivot) \/ Finish(c, "createPivot", CanCreatePivot, CreatePivot)
  \/ Begin(c, "deletePivot", MayDeletePivot, Nothing) \/ Finish(c, "deletePivot", Always, DeletePivot)
NavigationRequests(c) ==
  \/ BeginNew(c, "createNav", MayCreateNav) \/ Finish(c, "createNav", CanCreateNav, CreateNav)
  \/ Begin(c, "deleteNav", MayDeleteNav, Nothing) \/ Finish(c, "deleteNav", Always, DeleteNav)
OptionRequests(c) ==
  \/ Begin(c, "upsertOptions", MayUpsertOptions, Nothing) \/ Finish(c, "upsertOptions", CanUpsertOptions, UpsertOptions)
DisplayRequests(c) ==
  \/ Begin(c, "saveDisplay", IsTable, VersionSeen) \/ Finish(c, "saveDisplay", CanSaveDisplay, SaveDisplay)
JobRequests(c) ==
  \/ Begin(c, "createJob", MayCreateJob, Nothing) \/ Finish(c, "createJob", CanCreateJob, CreateJob)
  \/ Begin(c, "retryJob", MayRetryJob, Nothing) \/ Finish(c, "retryJob", Always, RetriedJob)

DataNext ==
  \E c \in Clients :
    \/ TenantRequests(c) \/ TableRequests(c) \/ FieldRequests(c) \/ EnumRequests(c) \/ RelationRequests(c)
    \/ NavigationRequests(c) \/ OptionRequests(c) \/ DisplayRequests(c) \/ JobRequests(c)
    \/ Fail(c)
-----------------------------------------------------------------------------
(* What every database keeps: the parts of the inductive invariant.        *)

Components ==
  {"status", "table", "field", "enum", "links", "pivots", "navs", "options", "contract", "revision", "phys", "uniq",
   "index", "jobs", "river"}

Shape(d) ==
  /\ DOMAIN d = Components
  /\ LiveTables(d) \subseteq TableIds /\ LiveFields(d) \subseteq FieldIds
  /\ \A t \in LiveTables(d) : DOMAIN d.table[t] = {"caption", "version"} /\ d.table[t].version \in Nat
  /\ \A f \in LiveFields(d) : d.field[f] \in [enum : BOOLEAN, unique : BOOLEAN]
  /\ \A t \in DOMAIN d.options : DOMAIN d.options[t] = {"shown", "linked", "columns"}

\* The unique constraints, and the columns that every table has.
NamesUnique(d) ==
  /\ \A t, u \in LiveTables(d) : TableName[t] = TableName[u] => t = u
  /\ \A f, g \in LiveFields(d) : FieldTable[f] = FieldTable[g] /\ FieldName[f] = FieldName[g] => f = g
DefaultsLive(d) == \A t \in LiveTables(d) : Defaults(t) \subseteq LiveFields(d)

\* The foreign keys.
RowsReferred(d) ==
  /\ \A f \in LiveFields(d) : FieldTable[f] \in LiveTables(d)
  /\ \A e \in DOMAIN d.enum : EnumField[e] \in LiveFields(d)
  /\ \A l \in d.links : {LinkParent[l], LinkChild[l]} \subseteq LiveFields(d)
  /\ \A n \in d.navs : {NavSource[n], NavFilter[n], NavOrder[n]} \subseteq LiveFields(d)
  /\ \A p \in d.pivots : PivotBase[p] \in LiveTables(d) /\ PivotField[p] \in LiveFields(d) \cup {Unset}
  /\ DOMAIN d.options \subseteq LiveTables(d)

\* The options that validate_display_options_v1 has let in.
ColumnStands(d, t, col) ==
  IF col.type = "direct" THEN col.field \in FieldsOf(d, t)
  ELSE col.link \in d.links /\ col.target \in FieldsOf(d, ParentTable(col.link))
OptionStands(d, t) ==
  LET o == d.options[t]
  IN IF o.columns = {} THEN o.shown \subseteq FieldsOf(d, t) ELSE \A col \in o.columns : ColumnStands(d, t, col)
OptionsStand(d) == \A t \in DOMAIN d.options : OptionStands(d, t)

\* The triggers.
ContractsCurrent(d) ==
  /\ DOMAIN d.contract = LiveTables(d)
  /\ \A t \in LiveTables(d) : d.contract[t] = Document(d, t)

Sound(d) ==
  Shape(d) /\ NamesUnique(d) /\ DefaultsLive(d) /\ RowsReferred(d) /\ OptionsStand(d) /\ ContractsCurrent(d)
-----------------------------------------------------------------------------
(* Properties.                                                             *)

Columns(d, t) == {FieldName[f] : f \in FieldsOf(d, t)}
UniqueColumns(d) ==
  {[table |-> NameOf(f), column |-> FieldName[f]] : f \in {x \in LiveFields(d) : d.field[x].unique}}

TablesBuilt(d) ==
  /\ DOMAIN d.phys = {TableName[t] : t \in LiveTables(d)}
  /\ \A t \in LiveTables(d) : d.phys[TableName[t]] = Columns(d, t)
IndexesBuilt(d) == d.uniq = UniqueColumns(d)

\* The tenant's schema has exactly the tables, columns and unique indexes that
\* the metadata describes: the promise of the service, whatever the requests.
SchemaAgrees == TablesBuilt(db) /\ IndexesBuilt(db)

\* Schema and metadata agree under every interleaving, as long as no delete
\* and no field update commits on reads that another commit has overtaken:
\* only these carry a row, or act on a name, that they read outside their
\* transaction (Delete and Update of table_service.go and field_service.go).
SchemaMatchesMetadata == late \cap {"deleteTable", "deleteField", "updateField"} = {} => SchemaAgrees

PathsResolve(d) == \A p \in d.pivots : Range(PivotPath[p]) \subseteq d.links
CaptionsResolve(d) ==
  \A t \in LiveTables(d) : d.table[t].caption # NoCaption => StringFieldNamed(d, t, d.table[t].caption)
EnumsFlagged(d) == \A e \in DOMAIN d.enum : d.field[EnumField[e]].enum

\* Whatever refers to a table, field or link refers to one that exists: always
\* where a foreign key or a trigger keeps it (fields shown beside columns are
\* stored unchecked and not used), and for the paths of pivots, the captions and
\* the flag of enum fields as long as the checks made outside the transaction
\* were not overtaken.
ReferencesResolve ==
  /\ RowsReferred(db)
  /\ OptionsStand(db)
  /\ late \cap {"createPivot", "deleteLink", "deleteField", "deleteTable"} = {} => PathsResolve(db)
  /\ late \cap {"updateTable"} = {} => CaptionsResolve(db)
  /\ late \cap {"createEnum", "updateField"} = {} => EnumsFlagged(db)

\* The contract that ingestion reads is the document of the current fields,
\* flags and enum values, after every change, cascades and stale writes
\* included (publish_ingestion_contract and its triggers).
ContractCurrent == ContractsCurrent(db)

\* Display settings are saved over the settings that the editor read: no save
\* replaces a caption, columns or fields that anything changed in between,
\* another editor, the options API or the triggers of a deletion (Save and
\* validate of the display package, and display_version).
SavesSeeLatest ==
  [][\A c \in Clients :
       req[c] # Idle /\ req'[c] = Idle /\ db' # db =>
         (req[c].in.op = "saveDisplay" => Settings(db, req[c].in.id) = req[c].row.settings)]_dataVars

\* A parent without a caption that a legacy setting still joins.
CaptionLost(d, t) ==
  /\ OptionsOf(d, t).columns = {}
  /\ \E f \in LinkedFields(d, t) : d.table[ParentTable(OptionsOf(d, t).linked[f])].caption = NoCaption

\* The query that shows the records of a table names only columns that exist,
\* after any sequence of schema changes and settings, unless a legacy setting
\* shows the caption of a parent that has lost it (recordQueryWithColumns).
DisplaysReadable ==
  late \cap {"deleteTable", "deleteField", "updateTable"} = {} =>
    \A t \in LiveTables(db) :
      CaptionLost(db, t) \/ \A name \in recordQuery(db, t) : HasColumn(db, name[1], name[2])
-----------------------------------------------------------------------------
(* What a menu may be: it starts with a database that an earlier life of    *)
(* the service has left, and asks for what the handlers accept.             *)

Whole(d) ==
  Sound(d) /\ TablesBuilt(d) /\ IndexesBuilt(d) /\ PathsResolve(d) /\ CaptionsResolve(d) /\ EnumsFlagged(d)

WellFormed(in) ==
  /\ in.op = "createTable" => in.id \in TableIds
  /\ in.op = "createField" => /\ in.id \in FieldIds /\ {in.enum, in.unique} \subseteq BOOLEAN
                              /\ \A e \in DOMAIN in.seeds : EnumField[e] = in.id
  /\ in.op = "updateField" => {in.enum, in.unique} \subseteq BOOLEAN \cup {Unset}

ASSUME DataModelAssumption ==
  /\ \A t \in TableIds, name \in DefaultColumns :
       \E f \in FieldIds : \A g \in FieldIds : FieldTable[g] = t /\ FieldName[g] = name <=> g = f
  /\ \A m \in Menus : Whole(m.start) /\ \A in \in m.asks : WellFormed(in)
=============================================================================
