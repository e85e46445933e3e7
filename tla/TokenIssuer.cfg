\* Three requests of any kind, two users.
CONSTANTS
    Requests = {r1, r2, r3}
    Users = {u1, u2}
    NoUser = NoUser
    Garbage = Garbage
    JwtTTL = 1
    RefreshTTL = 0
    ClockSkew = 0
    MaxClock = 1
    SessionFKChecked = FALSE
    RevokeRouted = TRUE
SPECIFICATION Spec
INVARIANTS TypeOK SpentTokenNeverExchanged SessionStaysWithUser RoleClaimIsFresh
PROPERTIES ImplementsLedger LogoutIsFinal
