SPECIFICATION RequestSpec
CONSTANTS
    Users = {}
    Admins = {}
    Handlers = {h1, h2}
    h1 = h1
    h2 = h2
    MaxOverlaps = 1
    Tasks = {t1, t2}
    FirstTask = t1
    t1 = t1
    t2 = t2
    Additions = {a1, a2}
    a1 = a1
    a2 = a2
    EditStatuses = {"CANCELLED"}
    MaxClock = 2
INVARIANT RequestTypeOK
PROPERTIES SavesOwnColumns CompletedIsNotCancelled OwnerEditsBeforeWork
CHECK_DEADLOCK FALSE
SYMMETRY MCSymmetry
