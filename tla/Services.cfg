SPECIFICATION ServicesSpec
CONSTANTS
    u1 = u1
    u2 = u2
    h1 = h1
    h2 = h2
    Users = {u1, u2}
    Admins = {u2}
    Handlers = {h1, h2}
    MaxOverlaps = 1
    MaxJoins = 2
    MaxSeconds = 3
    MaxLetters = 4
    Nobody = Nobody
    MaxSockets = 2
    MaxChats = 2
    MaxMessages = 3
    PageSize = 2
    MaxTexts = 4
    MaxRequests = 3
    PageLimit = 1
    Ranks = {0, 2}
SYMMETRY HandlerSymmetry
CHECK_DEADLOCK FALSE
INVARIANTS
    ServicesTypeOK
    EntriesAreLive
    HeardByParticipants
    PagingMissesFew
    VerdictCarriedOut
    LogNamesVisitors
PROPERTIES
    EditKeepsTheRest
    LeaveKeepsALeader
    OnePendingEach
    DeleteSparesSubgroups
    ReplacedTokenYieldsNothing
    LoggedOutStaysOut
    ResetLettersUsedOnce
    VerifiedAsksNoMore
    OneDirectChat
    FollowerMissesFew
    VerifiedTextWasSeen
    VerifiedReportIsKept
