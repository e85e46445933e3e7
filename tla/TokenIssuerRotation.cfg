\* Two logins of one user, then a refresh of one of them.
CONSTANTS
    Requests = {r1, r2, r3}
    Users = {u1}
    NoUser = NoUser
    Garbage = Garbage
    JwtTTL = 1
    RefreshTTL = 1
    ClockSkew = 0
    MaxClock = 0
    SessionFKChecked = FALSE
    RevokeRouted = TRUE
SPECIFICATION Spec
INVARIANT RotationTakesOldToken
