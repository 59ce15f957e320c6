SPECIFICATION MCSpec
CONSTANTS
    MaxCases = 2
    i1 = i1
    i2 = i2
    Foci = {"work", "history"}
    Inboxes = {i1, i2}
    Users = {u1}
    Admins = {u1}
    Service = Service
    Nobody = Nobody
    NoInbox = NoInbox
    Operations = {o1}
    Grants <- MCGrants
    Settings <- MCSettings
    Patches <- MCPatches
    Workers = {w1, w2}
INVARIANTS AssigneeIsMember AuditReplays BulkOnce
PROPERTIES CapacityRespected
SYMMETRY WorkerSymmetry
CHECK_DEADLOCK FALSE
