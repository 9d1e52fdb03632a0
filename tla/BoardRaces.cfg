SPECIFICATION Spec
CONSTANTS
    Users = {author, vol1, vol2}
    Author = author
    Admins = {author}
    Coordinators = {}
    Cleared = {vol1, vol2}
    Tasks = {task1}
    AutoTask = task1
    Handlers = {h1, h2}
    Operations <- RacingMethods
    TrustCap = 0
    MaxChats = 2
    MaxOverlaps = 1
    author = author
    vol1 = vol1
    vol2 = vol2
    task1 = task1
    h1 = h1
    h2 = h2
SYMMETRY Symmetric
INVARIANTS
    BoardInv
    ParticipantsWereAssigned
PROPERTIES
    ChatOpensWithWork
    ClosedTaskTakesNobody
CHECK_DEADLOCK FALSE
