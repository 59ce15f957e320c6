SPECIFICATION MCFairSpec
CONSTANTS
    MaxCases = 2
    i1 = i1
    i2 = i2
    Foci = {"snoozes"}
    Inboxes = {i1, i2}
    Users = {u1}
    Admins = {u1}
    Service = Service
    Nobody = Nobody
    NoInbox = NoInbox
    Operations = {}
    Grants <- MCGrants
    Settings <- MCSettings
    Patches <- NoPatches
    Workers = {w1, w2}
PROPERTIES MaintenanceCatchesUp
CHECK_DEADLOCK FALSE
