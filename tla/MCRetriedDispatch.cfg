SPECIFICATION RetrySpec
CONSTANTS
  Items = {"e", "s", "w", "o"}
  Kind <- MCKind
  MaxEdits = 1
  Exec = "e"
  Ids = {"d", "k"}
  Dispatched = "d"
  Entities = {"x", "y"}
  Ops = {"o"}
  Origins = {"keyless", "continuous", "manual"}
  MaxAttempts = 2
  MaxRetries = 1
  MaxFaults = 2
  MaxReviews = 2
  MaxEnrichments = 1
  NoSource = NoSource  NoToken = NoToken
  Objects = {"o"}
  IntakeAttempts = 2
  RescreenLimit = 1
  Catalogs <- MCCatalogs
  NoVersion = ""
  MaxRequests = 2  MaxConfigEdits = 1  MaxMonitorFaults = 1  MaxRecord = 1  MaxDatasetRetries = 1
  Blank = " "  NoText = ""  NilText = "<nil>"  Null = Null  Absent = Absent
  FieldName = "f"
  FieldValues = {"ann", " ", "", Null, Absent}
  Configs <- MCConfigs
  Answers <- MCAnswers
  Routes <- MCRoutes
CHECK_DEADLOCK FALSE
PROPERTIES RetriedIsPosted
