SPECIFICATION Spec
CONSTANTS
    Users = {author, vol1, vol2, admin}
    Author = author
    Admins = {admin}
    Coordinators = {}
    Cleared = {vol1, vol2}
    Tasks = {task1}
    AutoTask = task1
    Handlers = {h1}
    Operations <- Methods
    TrustCap = 2
    MaxChats = 2
    MaxOverlaps = 0
    author = author
    vol1 = vol1
    vol2 = vol2
    admin = admin
    task1 = task1
    h1 = h1
INVARIANTS
    TypeOK
    ActiveInChat
    SerialInv
PROPERTIES
    OneRewardPerReview
CHECK_DEADLOCK FALSE
