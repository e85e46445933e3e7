\* Two newcomers race for an empty database.
CONSTANTS
    Requests = {r1, r2}
    Identities = {i1, i2, i3, i4, i5}
    Emails = {e1, e2}
    i1 = i1 i2 = i2 i3 = i3 i4 = i4 i5 = i5 e1 = e1 e2 = e2 u1 = u1
    NoEmail = NoEmail
    NilUUID = NilUUID
    SeedTokens = SeedTokens
    Profiles <- TwoNewcomers
    SeedUsers = {}
    SeedRow <- EmptyTable
    SeedLinks <- EmptyTable
    AdminEmail = NoEmail
    Production = FALSE
    NilOnMiss = TRUE
SPECIFICATION Spec
INVARIANT OneFirstAdmin
