\* Three commands; a JWT may come to need a refresh, or expire.
CONSTANTS
    p1 = p1 p2 = p2 p3 = p3
    Procs = {p1, p2, p3}
    NoToken = NoToken
    Size <- TwoSizes
    User = User
    NoUser = NoUser
    JwtTTL = 1
    Window = 1
    MaxClock = 2
SPECIFICATION Spec
INVARIANTS TypeOK SequentialUseIsSound EmptyOnlyByCrash
PROPERTY SaveRepairs
