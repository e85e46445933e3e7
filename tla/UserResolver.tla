----------------------------- MODULE UserResolver -----------------------------
(***************************************************************************)
(* ResolveOrCreateUser (api/internal/auth/resolve_user.go) run by          *)
(* concurrent OAuth callbacks over one PostgreSQL database.                *)
(*                                                                         *)
(* A request is a state machine whose steps are the SQL statements of the  *)
(* repositories (api/internal/repository/postgres): between two of them    *)
(* any other request may run.  The statements of case 3 form a transaction *)
(* opened with pgx.TxOptions{}, that is, READ COMMITTED: its inserts are   *)
(* invisible until Commit, and hold off conflicting inserts of others.     *)
(*                                                                         *)
(* A users row is [email, role]; an oauth_accounts row, keyed by the       *)
(* provider identity, is [user, tokens], where tokens names the request    *)
(* whose provider tokens it stores.  The row a request inserts gets the    *)
(* request's own name as its fresh UUID.                                   *)
(***************************************************************************)
EXTENDS Naturals, FiniteSets

CONSTANTS
    Requests,       \* OAuth callbacks that reach the resolver
    Identities,     \* (provider, provider_uid) pairs
    Emails,         \* non-empty email addresses
    NoEmail,        \* the empty string
    Profiles,       \* the <<identity, email>> pairs providers may report
    SeedUsers,      \* users rows before the first request ...
    SeedRow,        \* ... with their contents
    SeedLinks,      \* oauth_accounts rows before the first request: identity -> user
    SeedTokens,     \* stands for the tokens those rows hold
    NilUUID,        \* uuid.Nil
    AdminEmail,     \* POSTULATE_BOOTSTRAP_ADMIN_EMAIL, NoEmail when unset
    Production,     \* POSTULATE_ENV = production
    NilOnMiss       \* what a Find of a missing row returns besides ErrNotFound:
                    \* a nil pointer (TRUE), or a pointer to a zero struct, as the
                    \* postgres repositories do (FALSE)

Roles   == {"platform_admin", "platform_member"}
UserIds == Requests \cup SeedUsers

ASSUME ProfilesAssumption == Profiles \subseteq Identities \X (Emails \cup {NoEmail})
ASSUME NamesAssumption ==
    /\ NilUUID \notin UserIds
    /\ NoEmail \notin Emails
    /\ Requests \cap SeedUsers = {}
    /\ SeedTokens \notin Requests
ASSUME ConfigAssumption ==
    /\ AdminEmail \in Emails \cup {NoEmail}
    /\ Production \in BOOLEAN
    /\ NilOnMiss \in BOOLEAN
(* The database satisfies its own constraints: users_email_unique and the    *)
(* foreign key of oauth_accounts.                                            *)
ASSUME SeedAssumption ==
    /\ SeedRow \in [SeedUsers -> [email : Emails, role : Roles]]
    /\ \A u, v \in SeedUsers : SeedRow[u].email = SeedRow[v].email => u = v
    /\ DOMAIN SeedLinks \subseteq Identities
    /\ \A i \in DOMAIN SeedLinks : SeedLinks[i] \in SeedUsers

VARIABLES
    users,      \* committed users rows: id -> [email, role]
    accounts,   \* committed oauth_accounts rows: identity -> [user, tokens]
    pc,         \* the statement a request executes next
    pu,         \* the ProviderUser of a request: <<identity, email>>
    owner,      \* local variable account: the UserID of the row it points to
    user,       \* local variable user (newUser in case 3)
    outcome     \* what the request returned

vars == <<users, accounts, pc, pu, owner, user, outcome>>

ZeroUser == [id |-> NilUUID, email |-> NoEmail, role |-> "none"]
SomeUser == [id : UserIds, email : Emails, role : Roles]

Steps == {"findByProvider", "findByID", "upsertTokens", "upgradeLinked",
          "findByEmail", "upgradeByEmail", "upsertLink",
          "resolveRole", "create", "upsertTx", "commit"}

Outcomes == {"none", "ok", "noEmail", "userNotFound", "conflict",
             "fkViolation", "dbError"}

Failures == Outcomes \ {"none", "ok"}

TypeOK ==
    /\ DOMAIN users \subseteq UserIds
    /\ \A u \in DOMAIN users : users[u] \in [email : Emails, role : Roles]
    /\ DOMAIN accounts \subseteq Identities
    /\ \A i \in DOMAIN accounts :
           accounts[i] \in [user : UserIds, tokens : Requests \cup {SeedTokens}]
    /\ pc \in [Requests -> Steps \cup {"idle", "done"}]
    /\ pu \in [Requests -> Identities \X (Emails \cup {NoEmail})]
    /\ owner \in [Requests -> UserIds \cup {NilUUID}]
    /\ user \in [Requests -> SomeUser \cup {ZeroUser}]
    /\ outcome \in [Requests -> Outcomes]

Identity(r) == pu[r][1]
Email(r)    == pu[r][2]

(* cmd/api/main.go: the fallback is disabled only in production without an   *)
(* admin email.                                                              *)
DevFallbackEnabled == ~Production \/ AdminEmail # NoEmail

Init ==
    /\ users = SeedRow
    /\ accounts = [i \in DOMAIN SeedLinks |->
                      [user |-> SeedLinks[i], tokens |-> SeedTokens]]
    /\ pc = [r \in Requests |-> "idle"]
    /\ pu \in [Requests -> Profiles]
    /\ owner = [r \in Requests |-> NilUUID]
    /\ user = [r \in Requests |-> ZeroUser]
    /\ outcome = [r \in Requests |-> "none"]

-------------------------------------------------------------------------------
(* Control.                                                                *)

Advance(r, next) ==
    /\ pc' = [pc EXCEPT ![r] = next]
    /\ UNCHANGED outcome

Return(r, o) ==
    /\ pc' = [pc EXCEPT ![r] = "done"]
    /\ outcome' = [outcome EXCEPT ![r] = o]

(* A write has been executed; its reply may be lost with the connection, in  *)
(* which case the caller sees an error although the write took effect.       *)
AfterWrite(r, next) == Advance(r, next) \/ Return(r, "dbError")
ReturnAfterWrite(r) == Return(r, "ok") \/ Return(r, "dbError")

(* Mutated form of HoldsEmail: no Rollback after an error. *)
HoldsEmailAfterError(r) == pc[r] \in {"upsertTx", "commit"} \/ outcome[r] = "dbError"

(* Locks a transaction holds: on the email it inserted, from Create on, and  *)
(* on the provider identity it upserted, until Commit or Rollback.           *)
HoldsEmail(r)    == pc[r] \in {"upsertTx", "commit"}
HoldsIdentity(r) == pc[r] = "commit"

EmailLocked(r)    == \E q \in Requests \ {r} : HoldsEmail(q) /\ Email(q) = Email(r)
IdentityLocked(r) == \E q \in Requests \ {r} :
                         HoldsIdentity(q) /\ Identity(q) = Identity(r)

-------------------------------------------------------------------------------
(* The repositories.                                                       *)

UserWithEmail(e) == {u \in DOMAIN users : users[u].email = e}

(* OAuthAccountRepo.Upsert: insert a row for identity i, or, on conflict,    *)
(* update its tokens; user_id is not among the columns the update sets.      *)
Upserted(i, u, r) ==
    [j \in DOMAIN accounts \cup {i} |->
        IF j # i                   THEN accounts[j]
        ELSE IF i \in DOMAIN accounts THEN [accounts[i] EXCEPT !.tokens = r]
        ELSE [user |-> u, tokens |-> r]]

(* UserRepo.Update: the whole row is written from the caller's copy. *)
Updated(u) ==
    [v \in DOMAIN users |->
        IF v = u.id THEN [email |-> u.email, role |-> u.role] ELSE users[v]]

-------------------------------------------------------------------------------
(* ResolveOrCreateUser, up to its first statement. *)
Start(r) ==
    /\ pc[r] = "idle"
    /\ IF Email(r) = NoEmail THEN Return(r, "noEmail")
                             ELSE Advance(r, "findByProvider")
    /\ UNCHANGED <<users, accounts, pu, owner, user>>

(* Case 1: look up by OAuth account.  The resolver branches on account # nil,*)
(* not on the error.                                                         *)
FindByProvider(r) ==
    LET hit == Identity(r) \in DOMAIN accounts
    IN  /\ pc[r] = "findByProvider"
        /\ owner' = [owner EXCEPT ![r] = IF hit THEN accounts[Identity(r)].user
                                                ELSE NilUUID]
        /\ Advance(r, IF hit \/ ~NilOnMiss THEN "findByID" ELSE "findByEmail")
        /\ UNCHANGED <<users, accounts, pu, user>>

FindByID(r) ==
    /\ pc[r] = "findByID"
    /\ IF owner[r] \in DOMAIN users
         THEN /\ user' = [user EXCEPT ![r] =
                            [id |-> owner[r], email |-> users[owner[r]].email,
                             role |-> users[owner[r]].role]]
              /\ Advance(r, "upsertTokens")
         ELSE UNCHANGED user /\ Return(r, "userNotFound")
    /\ UNCHANGED <<users, accounts, pu, owner>>

UpsertTokens(r) ==
    /\ pc[r] = "upsertTokens"
    /\ ~IdentityLocked(r)
    /\ accounts' = Upserted(Identity(r), owner[r], r)
    /\ AfterWrite(r, "upgradeLinked")
    /\ UNCHANGED <<users, pu, owner, user>>

(* Mutated form of NeedsUpgrade: the early return tests the wrong role. *)
NeedsUpgradeWrongRole(u) ==
    /\ AdminEmail # NoEmail
    /\ u.email = AdminEmail
    /\ u.role # "platform_member"

(* The condition under which applyBootstrapUpgrade writes. *)
NeedsUpgrade(u) ==
    /\ AdminEmail # NoEmail
    /\ u.email = AdminEmail
    /\ u.role # "platform_admin"

(* Mutated form of Upgrade: the caller's copy is changed, the row is not. *)
UpgradeInMemory(r) ==
    IF NeedsUpgrade(user[r])
      THEN /\ user' = [user EXCEPT ![r].role = "platform_admin"]
           /\ UNCHANGED users
      ELSE UNCHANGED <<users, user>>

(* Mutated form of Upgrade: the test on the email is inverted. *)
UpgradeOthers(r) ==
    IF AdminEmail # NoEmail /\ user[r].email # AdminEmail
      THEN LET upgraded == [user[r] EXCEPT !.role = "platform_admin"]
           IN  users' = Updated(upgraded) /\ user' = [user EXCEPT ![r] = upgraded]
      ELSE UNCHANGED <<users, user>>

(* Mutated form of Upgrade: every login rewrites the role. *)
UpgradeResets(r) ==
    LET upgraded == [user[r] EXCEPT !.role =
                        IF NeedsUpgrade(user[r]) THEN "platform_admin"
                                                 ELSE "platform_member"]
    IN  users' = Updated(upgraded) /\ user' = [user EXCEPT ![r] = upgraded]

(* applyBootstrapUpgrade, on the caller's copy and on the row. *)
Upgrade(r) ==
    IF NeedsUpgrade(user[r])
      THEN LET upgraded == [user[r] EXCEPT !.role = "platform_admin"]
           IN  users' = Updated(upgraded) /\ user' = [user EXCEPT ![r] = upgraded]
      ELSE UNCHANGED <<users, user>>

(* Its only statement is the Update, so only then can it fail. *)
UpgradeFails(r) == NeedsUpgrade(user[r]) /\ Return(r, "dbError")

(* The last step of case 1. *)
UpgradeLinked(r) ==
    /\ pc[r] = "upgradeLinked"
    /\ Upgrade(r)
    /\ Return(r, "ok") \/ UpgradeFails(r)
    /\ UNCHANGED <<accounts, pu, owner>>

(* Case 2: look up by email; the email is unique. *)
FindByEmail(r) ==
    /\ pc[r] = "findByEmail"
    /\ \/ \E u \in UserWithEmail(Email(r)) :
             /\ user' = [user EXCEPT ![r] = [id |-> u, email |-> users[u].email,
                                            role |-> users[u].role]]
             /\ Advance(r, "upgradeByEmail")
       \/ /\ UserWithEmail(Email(r)) = {}
          /\ Advance(r, IF NilOnMiss THEN "resolveRole" ELSE "upgradeByEmail")
          /\ UNCHANGED user
    /\ UNCHANGED <<users, accounts, pu, owner>>

UpgradeByEmail(r) ==
    /\ pc[r] = "upgradeByEmail"
    /\ Upgrade(r)
    /\ Advance(r, "upsertLink") \/ UpgradeFails(r)
    /\ UNCHANGED <<accounts, pu, owner>>

(* The link is inserted, or its tokens updated if another login has inserted *)
(* it meanwhile; inserting a zero user id violates the foreign key.          *)
UpsertLink(r) ==
    /\ pc[r] = "upsertLink"
    /\ ~IdentityLocked(r)
    /\ IF user[r].id \in DOMAIN users \/ Identity(r) \in DOMAIN accounts
         THEN accounts' = Upserted(Identity(r), user[r].id, r) /\ ReturnAfterWrite(r)
         ELSE UNCHANGED accounts /\ Return(r, "fkViolation")
    /\ UNCHANGED <<users, pu, owner, user>>

(* Mutated form of RoleForNewUser: the legacy default role. *)
RoleLegacy(e) == "member"

(* Case 3, inside the transaction.  resolveRoleForNewUser: CountAll sees the *)
(* committed rows.                                                           *)
RoleForNewUser(e) ==
    IF \/ AdminEmail # NoEmail /\ e = AdminEmail
       \/ DevFallbackEnabled /\ DOMAIN users = {}
      THEN "platform_admin" ELSE "platform_member"

ResolveRole(r) ==
    /\ pc[r] = "resolveRole"
    /\ user' = [user EXCEPT ![r] = [id |-> r, email |-> Email(r),
                                    role |-> RoleForNewUser(Email(r))]]
    /\ Advance(r, "create")
    /\ UNCHANGED <<users, accounts, pu, owner>>

(* Mutated form of Create: no unique constraint on the email. *)
CreateUnchecked(r) ==
    /\ pc[r] = "create"
    /\ Advance(r, "upsertTx")
    /\ UNCHANGED <<users, accounts, pu, owner, user>>

(* UserRepo.Create: waits for a transaction that inserted the same email,    *)
(* fails on a committed one (users_email_unique) and is rolled back.         *)
Create(r) ==
    /\ pc[r] = "create"
    /\ ~EmailLocked(r)
    /\ IF UserWithEmail(Email(r)) # {} THEN Return(r, "conflict")
                                       ELSE Advance(r, "upsertTx")
    /\ UNCHANGED <<users, accounts, pu, owner, user>>

UpsertTx(r) ==
    /\ pc[r] = "upsertTx"
    /\ ~IdentityLocked(r)
    /\ Advance(r, "commit")
    /\ UNCHANGED <<users, accounts, pu, owner, user>>

(* Mutated form of Commit: the link was not part of the transaction. *)
CommitUserOnly(r) ==
    /\ pc[r] = "commit"
    /\ users' = [u \in DOMAIN users \cup {r} |->
                    IF u = r THEN [email |-> user[r].email, role |-> user[r].role]
                             ELSE users[u]]
    /\ ReturnAfterWrite(r)
    /\ UNCHANGED <<accounts, pu, owner, user>>

(* Both inserts become visible in one step. *)
Commit(r) ==
    /\ pc[r] = "commit"
    /\ users' = [u \in DOMAIN users \cup {r} |->
                    IF u = r THEN [email |-> user[r].email, role |-> user[r].role]
                             ELSE users[u]]
    /\ accounts' = Upserted(Identity(r), r, r)
    /\ ReturnAfterWrite(r)
    /\ UNCHANGED <<pu, owner, user>>

(* Any statement may fail before it takes effect (lost connection, cancelled *)
(* request context); inside the transaction it is rolled back.  A crash of   *)
(* the API process is this step for every request in flight.                 *)
DbError(r) ==
    /\ pc[r] \in Steps
    /\ pc[r] \in {"upgradeLinked", "upgradeByEmail"} => NeedsUpgrade(user[r])
    /\ Return(r, "dbError")
    /\ UNCHANGED <<users, accounts, pu, owner, user>>

Step(r) ==
    \/ FindByProvider(r) \/ FindByID(r) \/ UpsertTokens(r) \/ UpgradeLinked(r)
    \/ FindByEmail(r) \/ UpgradeByEmail(r) \/ UpsertLink(r)
    \/ ResolveRole(r) \/ Create(r) \/ UpsertTx(r) \/ Commit(r)

(* Nothing is left to do: not a deadlock. *)
AllReturned == (\A r \in Requests : pc[r] = "done") /\ UNCHANGED vars

Next ==
    \/ \E r \in Requests : Start(r) \/ Step(r) \/ DbError(r)
    \/ AllReturned

(* A request that has begun is carried on by its goroutine and by the        *)
(* database until it returns; failures are never forced.                     *)
Spec == Init /\ [][Next]_vars /\ \A r \in Requests : WF_vars(Step(r))

-------------------------------------------------------------------------------
(* Properties.                                                             *)

(* Every provider identity always reports the same email address. *)
StableEmails == \A p, q \in Profiles : p[1] = q[1] => p[2] = q[2]

(* A login that succeeds returns the user its own provider identity is       *)
(* linked to, however the lookups and upserts of concurrent logins with the  *)
(* same identity or the same email interleave (for providers that report one *)
(* email per identity).                                                      *)
ResolvedUserIsLinked ==
    \A r \in Requests : outcome[r] = "ok" =>
        /\ Identity(r) \in DOMAIN accounts
        /\ accounts[Identity(r)].user = user[r].id

(* Case 3 never leaves a users row behind that no oauth_accounts row points  *)
(* to: not when the transaction fails half way, not when it loses a race.    *)
NoOrphanUsers ==
    \A u \in DOMAIN users \ SeedUsers :
        \E i \in DOMAIN accounts : accounts[i].user = u

(* The role a successful login returns, which becomes the role claim of the  *)
(* JWT, is the role in the users table, although it was read some statements *)
(* before.                                                                   *)
ResolvedRoleIsCurrent ==
    \A r \in Requests : outcome[r] = "ok" =>
        /\ user[r].id \in DOMAIN users
        /\ users[user[r].id].role = user[r].role

(* Whichever of the three cases a login of the designated admin takes, the   *)
(* users row it ends with is platform_admin.                                 *)
DesignatedAdminIsAdmin ==
    \A r \in Requests :
        outcome[r] = "ok" /\ AdminEmail # NoEmail /\ user[r].email = AdminEmail
            => users[user[r].id].role = "platform_admin"

(* Nobody becomes platform_admin by logging in except the designated email,  *)
(* or, with the fallback enabled, on a database that was empty; in           *)
(* production without an admin email nobody does.                            *)
AdminsAreBootstrapped ==
    \A u \in DOMAIN users : users[u].role = "platform_admin" =>
        \/ u \in SeedUsers /\ SeedRow[u].role = "platform_admin"
        \/ AdminEmail # NoEmail /\ users[u].email = AdminEmail
        \/ DevFallbackEnabled /\ SeedUsers = {}

(* A login never takes an identity away from the user it is linked to, never *)
(* removes or renames a user and never demotes one, although Update writes   *)
(* whole rows from copies read earlier.                                      *)
HistoryKept ==
    [][/\ \A i \in DOMAIN accounts : i \in DOMAIN accounts'
                                     /\ accounts'[i].user = accounts[i].user
       /\ \A u \in DOMAIN users :
              /\ u \in DOMAIN users'
              /\ users'[u].email = users[u].email
              /\ users[u].role = "platform_admin" => users'[u].role = "platform_admin"
      ]_vars

(* The lookups never end in a missing user or a dangling link: a login with  *)
(* an email address fails only on a database error or a lost race.           *)
LookupsSucceed ==
    \A r \in Requests : outcome[r] \notin {"userNotFound", "fkViolation"}

(* Every login returns, although inserts wait for other transactions.        *)
LoginsReturn == \A r \in Requests : pc[r] \in Steps ~> pc[r] = "done"

(* resolve_user.go, 57: the zero-row check and the INSERT "are atomic to     *)
(* prevent two concurrent first-logins both receiving platform_admin".       *)
OneFirstAdmin ==
    Cardinality({u \in DOMAIN users : users[u].role = "platform_admin"}) =< 1
===============================================================================
