------------------------------ MODULE TokenIssuer ------------------------------
(***************************************************************************)
(* Session tokens: IssueSessionToken, RefreshSession, RevokeAllSessions    *)
(* (api/internal/auth/token.go), the handlers that call them               *)
(* (api/internal/handler/token_handler.go) and the JWT check in front of   *)
(* the revoke handler (api/internal/middleware/auth.go).                   *)
(*                                                                         *)
(* A request runs one of them, one SQL statement per step, with no         *)
(* transaction around the statements.  The refresh token a request mints   *)
(* is named after the request; its hash is not distinguished from it.  A   *)
(* JWT is what a login or refresh that answered with success handed out:   *)
(* subject, role claim and the time of issue, all kept per request.        *)
(***************************************************************************)
EXTENDS Naturals, FiniteSets

CONSTANTS
    Requests,       \* HTTP requests, of any of the three kinds
    Users,          \* ids of existing users; users are never removed
    NoUser,         \* no user id yet
    Garbage,        \* a refresh token nobody ever issued
    JwtTTL,         \* jwtTTL
    RefreshTTL,     \* refreshTokenTTL
    ClockSkew,      \* clockSkew of AuthRequired
    MaxClock,       \* bound on the clock
    SessionFKChecked, \* whether the store enforces the foreign key of
                    \* refresh_tokens.session_id, as the migrated schema does
    RevokeRouted    \* whether DELETE /v1/auth/token reaches its handler: in
                    \* router.go it is registered under /v1, and the
                    \* sub-router mounted on /v1/auth answers 404 first

ASSUME NamesAssumption == NoUser \notin Users /\ Garbage \notin Requests
ASSUME TimesAssumption ==
    JwtTTL \in Nat /\ RefreshTTL \in Nat /\ ClockSkew \in Nat /\ MaxClock \in Nat
ASSUME WiringAssumption == SessionFKChecked \in BOOLEAN /\ RevokeRouted \in BOOLEAN

VARIABLES
    clock,      \* time.Now()
    role,       \* users.role
    tokens,     \* refresh_tokens: token -> [user, expiresAt]
    pc,         \* the step a request executes next
    kind,       \* which handler the request runs
    presented,  \* the refresh token, or for a revoke the JWT, it carries
    subject,    \* the user id it works for
    claim,      \* the role that goes into the JWT
    issuedAt,   \* now := time.Now() in IssueSessionToken
    outcome,    \* what the handler answered
    minted,     \* history: the user each token was inserted for
    foundAt,    \* history: when the presented token was validated
    late,       \* history: the presented token was dead when the request began
    startRole,  \* history: the subject's role when the request began
    loggedOut   \* history: users who revoked and have not begun to log in since

locals == <<kind, presented, subject, claim, issuedAt>>
vars == <<clock, role, tokens, pc, locals, outcome,
          minted, foundAt, late, startRole, loggedOut>>

Roles == {"platform_admin", "platform_member"}
Times == 0 .. MaxClock
Steps == {"find", "findUser", "rotate", "sign", "create", "revoke"}
Outcomes == {"none", "ok", "unauthorized", "notFound", "fkViolation", "dbError"}

TypeOK ==
    /\ clock \in Times
    /\ role \in [Users -> Roles]
    /\ DOMAIN tokens \subseteq Requests
    /\ \A t \in DOMAIN tokens : tokens[t] \in [user : Users, expiresAt : Nat]
    /\ pc \in [Requests -> Steps \cup {"idle", "done"}]
    /\ kind \in [Requests -> {"none", "login", "refresh", "revoke"}]
    /\ presented \in [Requests -> Requests \cup {Garbage}]
    /\ subject \in [Requests -> Users \cup {NoUser}]
    /\ claim \in [Requests -> Roles]
    /\ issuedAt \in [Requests -> Times]
    /\ outcome \in [Requests -> Outcomes]
    /\ minted \in [Requests -> Users \cup {NoUser}]
    /\ foundAt \in [Requests -> Times]
    /\ late \in [Requests -> BOOLEAN]
    /\ startRole \in [Requests -> Roles]
    /\ loggedOut \subseteq Users

Init ==
    /\ clock = 0
    /\ role = [u \in Users |-> "platform_member"]
    /\ tokens = [t \in {} |-> 0]
    /\ pc = [r \in Requests |-> "idle"]
    /\ kind = [r \in Requests |-> "none"]
    /\ presented = [r \in Requests |-> Garbage]
    /\ subject = [r \in Requests |-> NoUser]
    /\ claim = [r \in Requests |-> "platform_member"]
    /\ issuedAt = [r \in Requests |-> 0]
    /\ outcome = [r \in Requests |-> "none"]
    /\ minted = [r \in Requests |-> NoUser]
    /\ foundAt = [r \in Requests |-> 0]
    /\ late = [r \in Requests |-> FALSE]
    /\ startRole = [r \in Requests |-> "platform_member"]
    /\ loggedOut = {}

-------------------------------------------------------------------------------
(* Control.                                                                *)

Advance(r, next) ==
    /\ pc' = [pc EXCEPT ![r] = next]
    /\ UNCHANGED outcome

Return(r, o) ==
    /\ pc' = [pc EXCEPT ![r] = "done"]
    /\ outcome' = [outcome EXCEPT ![r] = o]

(* The reply to a write that took effect may be lost with the connection. *)
AfterWrite(r, next) == Advance(r, next) \/ Return(r, "dbError")
ReturnAfterWrite(r) == Return(r, "ok") \/ Return(r, "dbError")

(* The answers that carry a JWT and a refresh token. *)
Issued(r) == outcome[r] = "ok" /\ kind[r] \in {"login", "refresh"}

(* A token that was inserted once and is in the table no more. *)
Dead(t) == t \in Requests /\ minted[t] # NoUser /\ t \notin DOMAIN tokens

Begin(r, k, credential, u) ==
    /\ pc[r] = "idle"
    /\ kind' = [kind EXCEPT ![r] = k]
    /\ presented' = [presented EXCEPT ![r] = credential]
    /\ subject' = [subject EXCEPT ![r] = u]
    /\ UNCHANGED <<clock, role, tokens, issuedAt, minted, foundAt>>

-------------------------------------------------------------------------------
(* The repositories.                                                       *)

(* Mutated form of WithoutUser: the WHERE clause is lost. *)
WithoutAnybody(u) == [t \in {} |-> tokens[t]]

(* RefreshTokenRepo.DeleteByUserID *)
WithoutUser(u) == [t \in {x \in DOMAIN tokens : tokens[x].user # u} |-> tokens[t]]

(* Mutated form of Inserted: a rotation re-inserts the old token value too. *)
InsertedKeepingOld(r) ==
    [t \in DOMAIN tokens \cup ({r, presented[r]} \cap Requests) |->
        IF t \in DOMAIN tokens THEN tokens[t]
        ELSE [user |-> subject[r], expiresAt |-> issuedAt[r] + RefreshTTL]]

(* Mutated form of Inserted: the user id is left at its zero value. *)
InsertedForNobody(r) ==
    [t \in DOMAIN tokens \cup {r} |->
        IF t = r THEN [user |-> NoUser, expiresAt |-> issuedAt[r] + RefreshTTL]
                 ELSE tokens[t]]

(* RefreshTokenRepo.Create of the row IssueSessionToken builds. *)
Inserted(r) ==
    [t \in DOMAIN tokens \cup {r} |->
        IF t = r THEN [user |-> subject[r], expiresAt |-> issuedAt[r] + RefreshTTL]
                 ELSE tokens[t]]

-------------------------------------------------------------------------------
(* An OAuth callback has resolved its user and calls IssueSessionToken with  *)
(* the id and role it read.                                                  *)
BeginLogin(r, u) ==
    /\ Begin(r, "login", Garbage, u)
    /\ claim' = [claim EXCEPT ![r] = role[u]]
    /\ startRole' = [startRole EXCEPT ![r] = role[u]]
    /\ loggedOut' = loggedOut \ {u}
    /\ Advance(r, "sign")
    /\ UNCHANGED late

(* TokenHandler.Refresh: the body carries a token an earlier answer handed   *)
(* out, possibly for the second time, or garbage.                            *)
BeginRefresh(r, t) ==
    /\ t # Garbage => Issued(t)
    /\ Begin(r, "refresh", t, NoUser)
    /\ late' = [late EXCEPT ![r] = Dead(t)]
    /\ startRole' = [startRole EXCEPT ![r] =
                        IF t = Garbage THEN "platform_member" ELSE role[minted[t]]]
    /\ Advance(r, "find")
    /\ UNCHANGED <<claim, loggedOut>>

(* Mutated form of Valid: the expiry is compared the wrong way round. *)
ValidWhenExpired(t) == t \in DOMAIN tokens /\ clock >= tokens[t].expiresAt

(* FindByTokenHash succeeds and time.Now() is not After the expiry.  The     *)
(* column used_at is tested as well, but no code sets it.                    *)
Valid(t) == t \in DOMAIN tokens /\ clock =< tokens[t].expiresAt

(* Mutated form of FindToken: the user is read from an arbitrary row. *)
FindTokenUnfiltered(r) ==
    /\ pc[r] = "find"
    /\ IF Valid(presented[r])
         THEN /\ \E t \in DOMAIN tokens : subject' = [subject EXCEPT ![r] = tokens[t].user]
              /\ foundAt' = [foundAt EXCEPT ![r] = clock]
              /\ Advance(r, "findUser")
         ELSE Return(r, "unauthorized") /\ UNCHANGED <<subject, foundAt>>
    /\ UNCHANGED <<clock, role, tokens, kind, presented, claim, issuedAt,
                   minted, late, startRole, loggedOut>>

(* The checks of RefreshSession, all answered with the same error. *)
FindToken(r) ==
    /\ pc[r] = "find"
    /\ IF Valid(presented[r])
         THEN /\ subject' = [subject EXCEPT ![r] = tokens[presented[r]].user]
              /\ foundAt' = [foundAt EXCEPT ![r] = clock]
              /\ Advance(r, "findUser")
         ELSE Return(r, "unauthorized") /\ UNCHANGED <<subject, foundAt>>
    /\ UNCHANGED <<clock, role, tokens, kind, presented, claim, issuedAt,
                   minted, late, startRole, loggedOut>>

(* Mutated form of CurrentRole: the role of the token's first JWT is kept. *)
RoleOfOldToken(r) == claim[presented[r]]

(* The role FindByID reads. *)
CurrentRole(r) == role[subject[r]]

FindUser(r) ==
    /\ pc[r] = "findUser"
    /\ claim' = [claim EXCEPT ![r] = CurrentRole(r)]
    /\ Advance(r, "rotate")
    /\ UNCHANGED <<clock, role, tokens, kind, presented, subject, issuedAt,
                   minted, foundAt, late, startRole, loggedOut>>

(* The rotation deletes every token of the user. *)
Rotate(r) ==
    /\ pc[r] = "rotate"
    /\ tokens' = WithoutUser(subject[r])
    /\ AfterWrite(r, "sign")
    /\ UNCHANGED <<clock, role, locals, minted, foundAt, late, startRole, loggedOut>>

(* IssueSessionToken up to the insert: the clock is read, the JWT signed. *)
Sign(r) ==
    /\ pc[r] = "sign"
    /\ issuedAt' = [issuedAt EXCEPT ![r] = clock]
    /\ Advance(r, "create")
    /\ UNCHANGED <<clock, role, tokens, kind, presented, subject, claim,
                   minted, foundAt, late, startRole, loggedOut>>

(* The row is inserted with SessionID left at its zero value, which names no *)
(* sessions row.                                                             *)
CreateToken(r) ==
    /\ pc[r] = "create"
    /\ IF SessionFKChecked
         THEN Return(r, "fkViolation") /\ UNCHANGED <<tokens, minted>>
         ELSE /\ tokens' = Inserted(r)
              /\ minted' = [minted EXCEPT ![r] = subject[r]]
              /\ ReturnAfterWrite(r)
    /\ UNCHANGED <<clock, role, locals, foundAt, late, startRole, loggedOut>>

(* AuthRequired accepts the JWT that request j was answered with. *)
AuthRequired(j) == clock < issuedAt[j] + JwtTTL + ClockSkew

(* What the router or AuthRequired answers to a revocation it stops. *)
Refusal == IF RevokeRouted THEN "unauthorized" ELSE "notFound"

(* TokenHandler.Revoke behind the router and AuthRequired. *)
BeginRevoke(r, j) ==
    /\ Issued(j)
    /\ Begin(r, "revoke", j, subject[j])
    /\ IF RevokeRouted /\ AuthRequired(j)
         THEN Advance(r, "revoke")
         ELSE Return(r, Refusal)
    /\ UNCHANGED <<claim, late, startRole, loggedOut>>

(* Mutated form of RevokeAll: only the token issued with the JWT is deleted. *)
RevokeOne(r) ==
    /\ pc[r] = "revoke"
    /\ tokens' = [t \in DOMAIN tokens \ {presented[r]} |-> tokens[t]]
    /\ loggedOut' = loggedOut \cup {subject[r]}
    /\ ReturnAfterWrite(r)
    /\ UNCHANGED <<clock, role, locals, minted, foundAt, late, startRole>>

(* RevokeAllSessions *)
RevokeAll(r) ==
    /\ pc[r] = "revoke"
    /\ tokens' = WithoutUser(subject[r])
    /\ loggedOut' = loggedOut \cup {subject[r]}
    /\ ReturnAfterWrite(r)
    /\ UNCHANGED <<clock, role, locals, minted, foundAt, late, startRole>>

(* A statement fails before it takes effect; at "sign", rand.Read does. *)
DbError(r) ==
    /\ pc[r] \in Steps
    /\ Return(r, "dbError")
    /\ UNCHANGED <<clock, role, tokens, locals, minted, foundAt, late, startRole,
                   loggedOut>>

(* applyBootstrapUpgrade in some concurrent login (module UserResolver). *)
UpgradeRole(u) ==
    /\ role[u] = "platform_member"
    /\ role' = [role EXCEPT ![u] = "platform_admin"]
    /\ UNCHANGED <<clock, tokens, pc, locals, outcome, minted, foundAt, late,
                   startRole, loggedOut>>

Tick ==
    /\ clock < MaxClock
    /\ clock' = clock + 1
    /\ UNCHANGED <<role, tokens, pc, locals, outcome, minted, foundAt, late,
                   startRole, loggedOut>>

Step(r) ==
    \/ FindToken(r) \/ FindUser(r) \/ Rotate(r) \/ Sign(r) \/ CreateToken(r)
    \/ RevokeAll(r)

AllReturned == (\A r \in Requests : pc[r] = "done") /\ UNCHANGED vars

Next ==
    \/ \E r \in Requests :
          \/ \E u \in Users : BeginLogin(r, u)
          \/ \E t \in Requests \cup {Garbage} : BeginRefresh(r, t)
          \/ \E j \in Requests : BeginRevoke(r, j)
          \/ Step(r)
          \/ DbError(r)
    \/ \E u \in Users : UpgradeRole(u)
    \/ Tick
    \/ AllReturned

Spec == Init /\ [][Next]_vars

-------------------------------------------------------------------------------
(* Properties.                                                             *)

(* A refresh token that was rotated away or revoked before a request began,  *)
(* or had outlived RefreshTTL when it was looked up, never buys that request *)
(* a session, whatever runs beside it; at the instant of its expiry a token  *)
(* is still accepted.  A token that has bought a session is dead from then   *)
(* on: no login, refresh or lost reply brings its row back.                  *)
SpentTokenNeverExchanged ==
    \A r \in Requests : outcome[r] = "ok" /\ kind[r] = "refresh" =>
        /\ ~late[r]
        /\ issuedAt[presented[r]] =< foundAt[r]
        /\ foundAt[r] =< issuedAt[presented[r]] + RefreshTTL
        /\ Dead(presented[r])

(* A refreshed session belongs to the user of the token that was presented,  *)
(* and a revocation acts for the user the JWT was issued to, although the    *)
(* row that said so may be gone by the time it is used.                      *)
SessionStaysWithUser ==
    \A r \in Requests : outcome[r] = "ok" /\ kind[r] # "login" =>
        /\ presented[r] \in Requests
        /\ subject[r] = minted[presented[r]]
        /\ kind[r] = "refresh" => minted[r] = subject[r]

(* us-03-08: "Role changes require a new login or token refresh to take      *)
(* effect".  The role in a JWT is one its user had during the request it     *)
(* answers: a promotion that happened before a refresh began is in it, and   *)
(* no JWT claims a role its subject has not got.  A promotion between the    *)
(* lookup and the signature may be missed, until the next refresh.           *)
RoleClaimIsFresh ==
    \A r \in Requests : Issued(r) =>
        /\ startRole[r] = "platform_admin" => claim[r] = "platform_admin"
        /\ claim[r] = "platform_admin" => role[subject[r]] = "platform_admin"

(* A request that can still insert a token for the user. *)
Inserts(r, u) == pc[r] \in {"findUser", "rotate", "sign", "create"} /\ subject[r] = u

(* Nothing of the user's sessions is left. *)
Ended(u) ==
    /\ \A t \in DOMAIN tokens : tokens[t].user # u
    /\ \A r \in Requests : ~Inserts(r, u)

LogoutStep ==
    /\ \A r \in Requests :
           RevokeAll(r) /\ (\A q \in Requests : ~Inserts(q, subject[r])) => Ended(subject[r])'
    /\ \A u \in Users :
           Ended(u) /\ ~(\E r \in Requests : BeginLogin(r, u)) => Ended(u)'

(* A revocation with no login or refresh of its user past the lookup ends    *)
(* all sessions of the user, and they stay ended until the user logs in: no  *)
(* refresh, with whatever token, brings one back (token.go:114-122).         *)
LogoutIsFinal == [][LogoutStep]_vars

(* The table implements the abstract ledger of one-life tokens. *)
TokenState(t) ==
    IF t \in DOMAIN tokens THEN "live"
    ELSE IF minted[t] # NoUser THEN "dead" ELSE "unborn"

Ledger == INSTANCE TokenLedger WITH
    Tokens <- Requests,
    state  <- [t \in Requests |-> TokenState(t)],
    holder <- minted

(* Every behaviour of the issuer, seen through that mapping, is one of the   *)
(* ledger: no statement revives a token, re-assigns one, or retires tokens   *)
(* of two users.                                                             *)
ImplementsLedger == Ledger!Spec

-------------------------------------------------------------------------------
(* What the documents say of the code and the code does not do.            *)

(* us-03-11: "a used refresh token is rejected on second use".               *)
SingleUse ==
    \A t \in Requests :
        Cardinality({r \in Requests : kind[r] = "refresh" /\ presented[r] = t
                                       /\ outcome[r] = "ok"}) =< 1

(* us-03-06: a refresh shall "delete old refresh token record (rotation)".   *)
(* A token dies because it was presented itself, or because its user logged  *)
(* out: a refresh on one device leaves the other devices' tokens alone.      *)
RotationTakesOldToken ==
    \A t \in Requests : Dead(t) =>
        \E r \in Requests :
            \/ kind[r] = "refresh" /\ presented[r] = t
            \/ kind[r] = "revoke" /\ subject[r] = minted[t]

(* us-03-09: logout "deletes all refresh tokens": until the user logs in     *)
(* again, no refreshed session of that user is alive.                        *)
LogoutEndsSessions ==
    \A t \in DOMAIN tokens :
        tokens[t].user \in loggedOut => kind[t] # "refresh"
===============================================================================
