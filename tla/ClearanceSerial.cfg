SPECIFICATION Spec
CONSTANTS
    admin = admin
    voucher = voucher
    other = other
    Users = {admin, voucher, other}
    Admins = {admin}
    Presentable = {admin, voucher}
    Created = {voucher}
    Workers = {other}
    Tasks = {task1}
    task1 = task1
    FrontlineVouches = 2
    Handlers = {h1}
    h1 = h1
INVARIANTS
    ClearanceInv
    SerialInv
PROPERTIES
    CallSettlesClearance
    LostFrontlineEndsWork
    GrantKept
CHECK_DEADLOCK FALSE
