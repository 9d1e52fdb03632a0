SPECIFICATION FairSpec
CONSTANTS
    Users = {author, vol1}
    Author = author
    Admins = {author}
    Coordinators = {}
    Cleared = {vol1}
    Tasks = {task1, task2}
    AutoTask = task1
    Handlers = {h1, h2}
    Operations <- LockingMethods
    TrustCap = 0
    MaxChats = 1
    MaxOverlaps = 2
    author = author
    vol1 = vol1
    task1 = task1
    task2 = task2
    h1 = h1
    h2 = h2
PROPERTIES
    EveryCallReturns
CHECK_DEADLOCK FALSE
