SPECIFICATION RequestSpec
CONSTANTS
    Users = {}
    Admins = {}
    Handlers = {h1}
    h1 = h1
    MaxOverlaps = 0
    Tasks = {t1}
    FirstTask = t1
    t1 = t1
    Additions = {a1}
    a1 = a1
    EditStatuses = {}
    MaxClock = 2
CHECK_DEADLOCK FALSE
PROPERTY LateCancellationIsFinal
