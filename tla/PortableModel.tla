---------------------------- MODULE PortableModel ----------------------------
(***************************************************************************)
(* Portable data models: the document Export makes of a tenant, which      *)
(* names everything by name, and Import, which makes a model of it in a    *)
(* tenant that has none, one service call after the other.                 *)
(*                                                                         *)
(* Import gets new ids.  Here they are any ids with the document's names:  *)
(* a model is the same whichever ids it has.                               *)
(***************************************************************************)
EXTENDS IndexJobs, FiniteSetsExt

CONSTANTS Blank              \* the database of a tenant just provisioned

\* (Mutant: only the object's id is left out.)
isObjectID(name) == name = "object_id"

isManagedPortableField(name) == name \in reservedFieldNames

fieldNamesForIDs(d, t, fs) == {FieldName[f] : f \in fs \cap FieldsOf(d, t)}

ExportField(d, f) ==
  [name |-> FieldName[f], type |-> DataType[f], enum |-> d.field[f].enum, unique |-> d.field[f].unique,
   values |-> IF d.field[f].enum THEN {d.enum[e] : e \in EnumRows(d, f)} ELSE {}]
ExportOptions(d, t) == IF t \in DOMAIN d.options THEN {fieldNamesForIDs(d, t, d.options[t].shown)} ELSE {}
ExportNavs(d, t) ==
  {[source |-> FieldName[NavSource[n]], target |-> TableName[NavTarget(n)], filter |-> FieldName[NavFilter[n]],
    order |-> FieldName[NavOrder[n]]] : n \in {x \in d.navs : FieldTable[NavSource[x]] = t}}
ExportTable(d, t) ==
  [name |-> TableName[t], caption |-> d.table[t].caption,
   fields |-> {ExportField(d, f) : f \in {x \in FieldsOf(d, t) : ~isManagedPortableField(FieldName[x])}},
   options |-> ExportOptions(d, t), navs |-> ExportNavs(d, t)]
Ref(f) == [table |-> NameOf(f), field |-> FieldName[f]]
ExportLink(l) == [name |-> LinkName[l], parent |-> Ref(LinkParent[l]), child |-> Ref(LinkChild[l])]
ExportPivot(d, p) ==
  [base |-> TableName[PivotBase[p]],
   field |-> IF PivotPath[p] # <<>> \/ PivotField[p] = Unset THEN "" ELSE FieldName[PivotField[p]],
   path |-> [i \in DOMAIN PivotPath[p] |-> LinkName[PivotPath[p][i]]]]

\* Display columns, labels and linked captions are not exported.
Export(d) ==
  [tables |-> {ExportTable(d, t) : t \in LiveTables(d)},
   links |-> {ExportLink(l) : l \in d.links},
   pivots |-> {ExportPivot(d, p) : p \in d.pivots}]
-----------------------------------------------------------------------------
(* The checks of a document.                                               *)

DocTable(doc, name) == CHOOSE t \in doc.tables : t.name = name
DocFields(doc, name) == {f.name : f \in DocTable(doc, name).fields} \cup DefaultColumns
requirePortableFieldReference(doc, table, field) ==
  /\ table \in {t.name : t \in doc.tables}
  /\ field \in DocFields(doc, table)

ValidLinks(doc) ==
  /\ \A l, k \in doc.links : l.name = k.name => l = k
  /\ \A l \in doc.links : /\ requirePortableFieldReference(doc, l.parent.table, l.parent.field)
                          /\ requirePortableFieldReference(doc, l.child.table, l.child.field)
ValidPivots(doc) ==
  \A p \in doc.pivots :
    /\ p.base \in {t.name : t \in doc.tables}
    /\ p.field # "" => p.path = <<>> /\ requirePortableFieldReference(doc, p.base, p.field)
    /\ Range(p.path) \subseteq {l.name : l \in doc.links}
ValidTable(doc, t) ==
  /\ \A f \in t.fields : f.name \notin DefaultColumns
  /\ \A n \in t.navs : /\ requirePortableFieldReference(doc, t.name, n.source)
                       /\ requirePortableFieldReference(doc, n.target, n.filter)
                       /\ requirePortableFieldReference(doc, n.target, n.order)
  /\ UNION t.options \subseteq DocFields(doc, t.name)
validatePortableDocument(doc) ==
  /\ \A t, u \in doc.tables : t.name = u.name => t = u
  /\ \A t \in doc.tables : ValidTable(doc, t)
  /\ ValidLinks(doc)
  /\ ValidPivots(doc)
-----------------------------------------------------------------------------
(* The calls of Import.  s.ok says that none has failed so far; what those  *)
(* before a failure have written stays.                                    *)

Call(s, in, May(_, _), Row(_, _), Can(_, _), After(_, _)) ==
  LET r == [in |-> in, row |-> Row(s.db, in)]
  IN IF s.ok /\ May(s.db, in) /\ Can(s.db, r) THEN [s EXCEPT !.db = After(s.db, r)] ELSE [s EXCEPT !.ok = FALSE]

tableID(name) == CHOOSE t \in TableIds : TableName[t] = name
fieldID(table, field) == CHOOSE f \in FieldIds : FieldTable[f] = tableID(table) /\ FieldName[f] = field
linkID(name) == CHOOSE l \in LinkIds : LinkName[l] = name
seedIDs(f, values) ==
  CHOOSE g \in UNION {[S -> values] : S \in SUBSET {e \in EnumIds : EnumField[e] = f}} :
    Range(g) = values /\ Cardinality(DOMAIN g) = Cardinality(values)

ImportField(s, name, f) ==
  LET id == fieldID(name, f.name)
  IN Call(s, [op |-> "createField", id |-> id, enum |-> f.enum, unique |-> f.unique, seeds |-> seedIDs(id, f.values)],
          MayCreateField, Nothing, CanCreateField, CreateField)
ImportTable(s, t) ==
  FoldSet(LAMBDA f, x : ImportField(x, t.name, f),
          Call(s, [op |-> "createTable", id |-> tableID(t.name)], IsActive, Nothing, CanCreateTable, CreateTable),
          t.fields)
ImportCaption(s, t) ==
  IF t.caption = NoCaption THEN s
  ELSE Call(s, [op |-> "updateTable", id |-> tableID(t.name), caption |-> t.caption],
            MayUpdateTable, UpdatedTable, CanUpdateTable, UpdateTable)
ImportLink(s, l) ==
  Call(s, [op |-> "createLink", id |-> linkID(l.name)], MayCreateLink, Nothing, CanCreateLink, CreateLink)
ImportPivot(s, p) ==
  LET id == CHOOSE x \in PivotIds :
              /\ PivotBase[x] = tableID(p.base)
              /\ PivotField[x] = IF p.field = "" THEN Unset ELSE fieldID(p.base, p.field)
              /\ PivotPath[x] = [i \in DOMAIN p.path |-> linkID(p.path[i])]
  IN Call(s, [op |-> "createPivot", id |-> id], MayCreatePivot, Nothing, CanCreatePivot, CreatePivot)
ImportNav(s, t, n) ==
  LET id == CHOOSE x \in NavIds :
              /\ NavSource[x] = fieldID(t.name, n.source)
              /\ NavFilter[x] = fieldID(n.target, n.filter)
              /\ NavOrder[x] = fieldID(n.target, n.order)
  IN Call(s, [op |-> "createNav", id |-> id], MayCreateNav, Nothing, CanCreateNav, CreateNav)
ImportOptions(s, t) ==
  LET x == IF t.options = {} THEN s
           ELSE Call(s, [op |-> "upsertOptions", id |-> tableID(t.name),
                         shown |-> {fieldID(t.name, name) : name \in UNION t.options}],
                     MayUpsertOptions, Nothing, CanUpsertOptions, UpsertOptions)
  IN FoldSet(LAMBDA n, y : ImportNav(y, t, n), x, t.navs)

Import(doc) ==
  LET s1 == FoldSet(LAMBDA t, s : ImportTable(s, t), [db |-> Blank, ok |-> TRUE], doc.tables)
      s2 == FoldSet(LAMBDA t, s : ImportCaption(s, t), s1, doc.tables)
      s3 == FoldSet(LAMBDA l, s : ImportLink(s, l), s2, doc.links)
      s4 == FoldSet(LAMBDA p, s : ImportPivot(s, p), s3, doc.pivots)
  IN FoldSet(LAMBDA t, s : ImportOptions(s, t), s4, doc.tables)
-----------------------------------------------------------------------------
(* What a document can say and Import refuses: relations that their        *)
(* services checked when they were made, and whose conditions have gone.   *)

DocumentStands(d) ==
  /\ \A l, k \in d.links : LinkName[l] = LinkName[k] => l = k
  /\ \A l \in d.links : d.field[LinkParent[l]].unique
  /\ \A n \in d.navs : NavBacked(d, n)
  /\ \A t \in DOMAIN d.options : Cardinality(d.options[t].shown \cap FieldsOf(d, t)) <= MaxColumns

Checked == late \cap {"updateTable", "updateField", "createPivot", "createEnum", "deleteLink", "deleteField", "deleteTable"} = {}

\* A model exported from one tenant can be imported into another and is the
\* same model there, names, types, flags, enum values, captions, options,
\* links, pivots and navigation options, whatever changes led to it: unless a
\* relation no longer meets the conditions it was made under (Export and
\* Import of portable_data_model_service.go).
PortableRoundTrip ==
  Checked /\ DocumentStands(db) =>
    /\ validatePortableDocument(Export(db))
    /\ Import(Export(db)).ok
    /\ Export(Import(Export(db)).db) = Export(db)
=============================================================================
