SPECIFICATION FairSpec
CONSTANTS
    k1 = k1
    k2 = k2
    k3 = k3
    c1 = c1
    c2 = c2
    u1 = u1
    u2 = u2
    Requests = {k1, k2, k3}
    Cells = {c1, c2}
    Users = {u1, u2}
    Rows <- MCRows
    NoRequest = NoRequest
    NoCell = NoCell
    NoUser = NoUser
    maxConcurrentDownloads = 1
INVARIANTS
    SupersededLoadsShowNothing
    WrongPictureNeedsOvertaking
    OnlyCancelledLoadsAreCancelled
    ForgottenLoadsJoinedLate
PROPERTIES
    LoadsEnd
CHECK_DEADLOCK FALSE
