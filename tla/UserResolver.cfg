\* A member who is to be upgraded, e1, and a newcomer, e2, three logins at once.
CONSTANTS
    Requests = {r1, r2, r3}
    Identities = {i1, i2, i3, i4, i5}
    Emails = {e1, e2}
    i1 = i1 i2 = i2 i3 = i3 i4 = i4 i5 = i5 e1 = e1 e2 = e2 u1 = u1
    NoEmail = NoEmail
    NilUUID = NilUUID
    SeedTokens = SeedTokens
    Profiles <- Everybody
    SeedUsers = {u1}
    SeedRow <- MemberRows
    SeedLinks <- MemberLinks
    AdminEmail = e1
    Production = TRUE
    NilOnMiss = TRUE
SPECIFICATION Spec
INVARIANTS TypeOK ResolvedUserIsLinked NoOrphanUsers ResolvedRoleIsCurrent DesignatedAdminIsAdmin AdminsAreBootstrapped
PROPERTIES LoginsReturn HistoryKept
