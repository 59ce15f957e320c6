SPECIFICATION Spec
CONSTANTS
  Users = {"u"}  Services = {"s"}
  TableIds = {"a", "a2", "o"}
  TableName <- MCTableName
  FieldIds = {"aid", "aup", "afk", "anm", "anm2", "bid", "bup", "oid", "oup", "okey", "onm"}
  FieldTable <- MCFieldTable  FieldName <- MCFieldName  DataType <- MCDataType
  LinkIds = {"l", "m"}
  LinkParent <- MCLinkParent  LinkChild <- MCLinkChild  LinkName <- MCLinkName
  PivotIds = {"p", "q"}
  PivotBase <- MCPivotBase  PivotField <- MCPivotField  PivotPath <- MCPivotPath
  NavIds = {"n"}
  NavSource <- MCNavSource  NavFilter <- MCNavFilter  NavOrder <- MCNavOrder
  EnumIds = {"e", "g", "h", "i"}
  EnumField <- MCEnumField
  Menus <- MCStaleField
  MaxColumns = 2
  Unset = Unset  Idle = Idle
  Keys <- MCKeys
  RunnerAttempts = 2
  RepairAttempts = 3
  Blank <- Provisioned
CHECK_DEADLOCK FALSE
INVARIANTS SchemaAgrees
