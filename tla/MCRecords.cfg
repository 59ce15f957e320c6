SPECIFICATION MCSpec
CONSTANTS
  w1 = w1
  w2 = w2
  Events = {"e"}
  Workers = {w1, w2}
  NoEvent = NoEvent
  MaxAttempts = 2
  MaxLost = 3
  MaxReplays = 1
  ScreeningWorkers = {"s1", "s2", "s3"}
  r1 = r1
  r2 = r2
  r3 = r3
  r4 = r4
  a = a
  b = b
  k = k
  NoRequest = NoRequest
  NoKey = NoKey
  Requests = {r1, r2, r3, r4}
  Objects = {a, b}
  IngestKeys = {k}
  Slots = 3
  KeyOf <- MCKeyOf
  BodyOf <- MCBodyOf
  KindOf <- MCKindOf
  ModeOf <- MCModeOf
  Records <- MCRecordsOf
  Keys = {"k"}
  Callers = {"c1", "c2"}
  TTL = 1
  MaxTime = 3
  MaxVersion = 1
  None = None
  Rows <- MCRows
  Filters <- MCFilters
  Limits = {1, 9, Unset}
  DefaultLimit = 2
  MaxLimit = 3
  Walkers = {"w"}
  Unset = Unset
  NoCursor = NoCursor
  NoWalk = NoWalk
  CastSize = 3
  MaxFaults = 1
  MaxRepeats = 1
  Nil = Nil
  IntakeSetting <- MCIntakeSetting
  Casts <- IdentityCasts
  Req <- IdentityReq
  FirstMembers <- IdentityMembers
  FirstSessions <- IdentitySessions
  FirstInvite <- IdentityInvite
  EmailOf <- IdentityEmails
  Mailers = {"m1"}
  MailAttempts = 2
  InviteLimit = 2
  Foci = {"outbox", "screening", "intake", "identity", "ingest", "cache", "pages"}
CHECK_DEADLOCK FALSE
INVARIANTS SingleHolder DeliveredOnce EvidenceIsCurrent AccessIsCurrent RecordsAreExact AnswersAreRecent PagesComplete
PROPERTIES GrantsAreCurrent ReusesOpenCases ImplementsDelivery EverythingSettles
