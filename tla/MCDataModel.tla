----------------------------- MODULE MCDataModel -----------------------------
(* A tenant with the tables acct and own, where acct.fk links to own.key.   *)
(* Each menu is a group of requests that meet: changes of the schema, of    *)
(* fields that relations use, of display settings, and of index jobs.       *)
EXTENDS PortableModel

MCTableName == [a |-> "acct", a2 |-> "acct", o |-> "own"]
F(t, n, ty) == [t |-> t, n |-> n, ty |-> ty]
MCField ==
  [aid |-> F("a", "object_id", "string"), aup |-> F("a", "updated_at", "timestamp"),
   afk |-> F("a", "fk", "string"), anm |-> F("a", "nm", "string"), anm2 |-> F("a", "nm", "string"),
   bid |-> F("a2", "object_id", "string"), bup |-> F("a2", "updated_at", "timestamp"),
   oid |-> F("o", "object_id", "string"), oup |-> F("o", "updated_at", "timestamp"),
   okey |-> F("o", "key", "string"), onm |-> F("o", "nm", "string")]
MCFieldTable == [f \in DOMAIN MCField |-> MCField[f].t]
MCFieldName == [f \in DOMAIN MCField |-> MCField[f].n]
MCDataType == [f \in DOMAIN MCField |-> MCField[f].ty]
MCLinkParent == [l |-> "okey", m |-> "okey"]
MCLinkChild == [l |-> "afk", m |-> "anm"]
MCLinkName == [l |-> "owner", m |-> "other"]
MCPivotBase == [p |-> "a", q |-> "a"]
MCPivotField == [p |-> Unset, q |-> "afk"]
MCPivotPath == [p |-> <<"l">>, q |-> <<>>]
MCNavSource == [n |-> "okey"]
MCNavFilter == [n |-> "afk"]
MCNavOrder == [n |-> "aup"]
MCEnumField == [e |-> "anm", g |-> "anm", h |-> "anm2", i |-> "anm2"]

Row(enum, unique) == [enum |-> enum, unique |-> unique]
StartFields ==
  [f \in {"aid", "aup", "afk", "anm", "oid", "oup", "okey", "onm"} |->
     Row(FALSE, MCFieldName[f] \in {"object_id", "key"})]
Key(t, type, cols) == [table |-> t, type |-> type, columns |-> cols]
ByName == Key("a", "search", <<"nm">>)

Empty ==
  [status |-> "pending", table |-> <<>>, field |-> <<>>, enum |-> <<>>, links |-> {}, pivots |-> {}, navs |-> {},
   options |-> <<>>, contract |-> <<>>, revision |-> 0, phys |-> <<>>, uniq |-> {}, index |-> {}, jobs |-> <<>>,
   river |-> <<>>]
Provisioned == [Empty EXCEPT !.status = "active"]
Filled ==
  LET d == [Empty EXCEPT !.status = "active",
              !.table = [t \in {"a", "o"} |-> [caption |-> NoCaption, version |-> 0]],
              !.field = StartFields,
              !.phys = [n \in {"acct", "own"} |->
                 {MCFieldName[f] : f \in {x \in DOMAIN StartFields : MCTableName[MCFieldTable[x]] = n}}],
              !.uniq = {[table |-> "acct", column |-> "object_id"], [table |-> "own", column |-> "object_id"],
                        [table |-> "own", column |-> "key"]}]
  IN [d EXCEPT !.contract = [t \in {"a", "o"} |-> Document(d, t)]]
Linked ==
  LET d == [Filled EXCEPT !.links = {"l"}, !.table["o"].caption = "nm",
              !.options = "a" :> [shown |-> {"afk"}, linked |-> "afk" :> "l", columns |-> {}]]
  IN d

Direct(f) == [type |-> "direct", field |-> f]
Relation(l, f) == [type |-> "relation", link |-> l, target |-> f]
Just(op, id) == [op |-> op, id |-> id]
NewField(f, enum, unique, seeds) == [op |-> "createField", id |-> f, enum |-> enum, unique |-> unique, seeds |-> seeds]
SetField(f, enum, unique) == [op |-> "updateField", id |-> f, enum |-> enum, unique |-> unique]
Caption(t, c) == [op |-> "updateTable", id |-> t, caption |-> c]
Save(t, caption, shown, linked, columns) ==
  [op |-> "saveDisplay", id |-> t, caption |-> caption, shown |-> shown, linked |-> linked, columns |-> columns]
EnumValue(op, e, v) == [op |-> op, id |-> e, value |-> v]
Options(t, shown) == [op |-> "upsertOptions", id |-> t, shown |-> shown]

SchemaMenu ==
  {Just("provision", "x"), Just("createTable", "a"), Just("createTable", "a2"), Just("deleteTable", "a"),
   NewField("anm", FALSE, TRUE, <<>>), NewField("anm2", TRUE, FALSE, "h" :> "v"), Just("deleteField", "anm"),
   SetField("anm", Unset, TRUE), SetField("anm", Unset, FALSE), SetField("anm", Unset, Unset)}
EnumMenu ==
  {SetField("anm", TRUE, Unset), SetField("anm", FALSE, Unset), EnumValue("createEnum", "e", "v"),
   EnumValue("createEnum", "g", "w"), EnumValue("updateEnum", "e", "w"), Just("deleteEnum", "e"), Just("deleteField", "anm")}
RelationMenu ==
  {Just("createLink", "l"), Just("createLink", "m"), Just("deleteLink", "l"), Just("createPivot", "p"),
   Just("createPivot", "q"), Just("deletePivot", "p"), Just("createNav", "n"), Just("deleteNav", "n"),
   SetField("okey", Unset, FALSE), Just("deleteField", "okey"), Just("deleteTable", "o")}
DisplayMenu ==
  {Caption("o", "nm"), Caption("o", Unset), Options("a", {"anm"}), Save("a", "nm", {}, <<>>, {Direct("anm"), Relation("l", "onm")}),
   Save("a", NoCaption, {"onm"}, "onm" :> "l", {Direct("anm")}), Save("a", NoCaption, {"afk"}, "afk" :> "l", {}), Just("deleteField", "onm"), Just("deleteField", "anm"),
   Just("deleteLink", "l"), Just("createLink", "m"), SetField("okey", Unset, FALSE)}
JobMenu ==
  {Caption("a", "nm"), Just("createJob", ByName), Just("retryJob", ByName), Just("deleteField", "anm"),
   NewField("anm2", FALSE, FALSE, <<>>), Just("deleteTable", "a")}
RepairMenu == {Just("deleteTable", "a"), Just("deleteField", "anm")}
Dropped ==
  [Filled EXCEPT !.table["a"].caption = "nm", !.jobs = ByName :> [status |-> "applied", attempts |-> 1]]

Menu(start, asks, requests, worked, times) ==
  [start |-> start, asks |-> asks, requests |-> requests, worked |-> worked, runs |-> times]
Repair == Key("a", "repair", <<"nm">>)
MCKeys == {ByName, Repair}
MCMenus ==
  {Menu(Empty, SchemaMenu, 4, {}, 0), Menu(Filled, SchemaMenu, 4, {}, 0), Menu(Filled, EnumMenu, 4, {}, 0),
   Menu(Linked, RelationMenu, 4, {}, 0), Menu(Filled, RelationMenu, 4, {}, 0), Menu(Linked, DisplayMenu, 4, {}, 0),
   Menu(Filled, JobMenu, 3, {ByName}, 0), Menu(Dropped, RepairMenu, 1, {Repair}, 2)}

\* Two updates of one field, of which one sets it unique.
MCStaleField == {Menu(Filled, {SetField("anm", Unset, TRUE), SetField("anm", Unset, Unset)}, 3, {}, 0)}

\* THE SCHEMA IS WHAT THE METADATA SAYS: tables, columns and unique indexes exist
\* as the rows describe them, and the published ingestion contracts are those of
\* the rows, after every transaction, cascade and failed statement.
SchemaIsDescribed == SchemaMatchesMetadata /\ ContractCurrent

\* THE MODEL CAN BE READ: whatever refers to a table, field or link refers to one
\* that exists, and the queries that show records name existing columns only.
ModelIsReadable == ReferencesResolve /\ DisplaysReadable
=============================================================================
