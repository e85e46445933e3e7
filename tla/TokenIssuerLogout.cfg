\* A logout while a refresh is in flight.
CONSTANTS
    Requests = {r1, r2, r3}
    Users = {u1}
    NoUser = NoUser
    Garbage = Garbage
    JwtTTL = 1
    RefreshTTL = 1
    ClockSkew = 0
    MaxClock = 0
    SessionFKChecked = FALSE
    RevokeRouted = TRUE
SPECIFICATION Spec
INVARIANT LogoutEndsSessions
