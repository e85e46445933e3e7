\* One login, then the same token twice at once.
CONSTANTS
    Requests = {r1, r2, r3}
    Users = {u1}
    NoUser = NoUser
    Garbage = Garbage
    JwtTTL = 1
    RefreshTTL = 1
    ClockSkew = 0
    MaxClock = 0
    SessionFKChecked = FALSE
    RevokeRouted = TRUE
SPECIFICATION Spec
INVARIANT SingleUse
