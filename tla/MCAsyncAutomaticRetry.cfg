SPECIFICATION MCSpec
CONSTANTS
  e1 = e1
  e2 = e2
  k1 = k1
  o1 = o1
  o2 = o2
  j1 = j1
  j2 = j2
  j3 = j3
  j4 = j4
  NoOne = NoOne
  Executions = {e1}
  Keys = {k1}
  KeyOf <- MCKeyOf
  WithCallback = {e1}
  Operators = {o1}
  Jobs = {j1, j2}
  ExecOf <- MCExecOf
  MaxAttempts = 2
  CallbackMaxAttempts = 2
  MaxRetries = 0
  ScheduledIds = {"x"}
  ScheduledKey <- MCScheduledKey
  ObjectCount = 2
  Slots = {1, 2}
  Retriers = {"c", "d"}
  ScheduledMaxAttempts = 2
  MaxResets = 1
  Hour = 2
  Day = 4
  MonthDays <- MCMonthDays
  Moments <- MCMoments
  Requests <- MCRequests
  Catchup = 2
  Rows = {"upload", "deferred"}
  Uploads = {"upload"}
  Keyed = {"deferred"}
  IngestMaxAttempts = 2
  MaxCrashes = 2
  Foci = {"async"}
CHECK_DEADLOCK FALSE
PROPERTIES AutomaticRetryHappens
