# Postulate: a verification project in TLA+

Postulate is a platform API (Go, `api/`) with a command-line client (`cli/`).
Users log in with Google or GitHub through OAuth; the API finds or creates a
user row, assigns a role, and issues an eight-hour JWT with a thirty-day refresh
token. The CLI receives those tokens on a short-lived local listener.

The modules here model the parts of the program whose correctness depends on the
order in which concurrent requests, goroutines, SQL statements and clocks act.
They are checked with TLC on small instances, and the main safety properties are
proved with TLAPS for every instance.

## 1. Inventory

| Component | Source | State | Operations | What is hard |
|---|---|---|---|---|
| OAuth state store | `api/internal/auth/state_store.go` | map from state value to expiry, under a mutex | `Generate`, `Validate` | replayed callbacks, the expiry instant, restarts, growth |
| User resolver | `api/internal/auth/resolve_user.go`, `api/internal/repository/postgres/` | tables `users`, `oauth_accounts` | `ResolveOrCreateUser`: seven to eight SQL statements, some in a transaction | concurrent logins of one person, first-admin bootstrap, stale copies written back, lost replies |
| Token issuer | `api/internal/auth/token.go`, `api/internal/handler/token_handler.go` | table `refresh_tokens`; JWTs held by clients | `IssueSessionToken`, `RefreshSession`, `RevokeAllSessions` | concurrent refreshes of one token, refresh against logout, no transaction around find, delete and insert |
| JWT middleware | `api/internal/middleware/auth.go` | none | `AuthRequired`, `RequireRole` | expiry with leeway |
| OAuth handlers | `api/internal/handler/oauth_handler.go` | none of their own | begin and callback per provider | they chain the three components above: replayed callbacks, one call of several failing, a restart in between, where the tokens are sent |
| CLI callback listener | `cli/internal/callback/callback.go` | result channel of capacity one, `http.Server`, context | `Start`, `handleCallback` | callback against timeout, two shutdown paths, duplicate callbacks |
| Process lifecycle | `api/cmd/api/main.go`, `server`, `startup`, `health_handler.go` | readiness flag, listener, pool, telemetry | start-up sequence, drain, close | signal against server error, requests that outlive the drain |
| Database pool | `api/internal/database` | connections | `New`, `Close` | its limit; closing under load |
| Migrations | `api/internal/migrate` | schema version, dirty flag | `Run` | partial failure; down migrations over newer rows |
| Health aggregator | `api/internal/health` | registered contributors | `Check` | a ping that needs a connection of an exhausted pool |
| Configuration | `api/internal/config` | none after start | `Load`, `Validate` | precedence of file and environment |
| Middleware chain | `api/internal/router`, `api/internal/middleware` | active-request gauge | per request | panics, ordering |
| CLI credentials | `cli/internal/credentials`, `cli/internal/apiclient` | `auth.json` | `Load`, `Save`, `Delete`, `NeedsRefresh`, `Refresh`, `Logout` | several CLI processes at once, a crash between truncation and write |
| Telemetry, logging, problem responses | remaining packages | exporters | - | nothing the properties depend on |

How they interact: an OAuth handler calls `StateStore.Generate`, and, when the
browser comes back, `StateStore.Validate`, `ResolveOrCreateUser` and
`IssueSessionToken`, one after the other with no transaction around them. The
token handlers call the issuer only. Resolver and issuer share the users table
(the issuer reads the role). The CLI listener receives what the handler puts in
the redirect.

The hazards the code is exposed to, each at its line and with the properties
that cover it, are listed in `PROJECT.json` under `hazards`.

## 2. Structure

```
StateStore <- OAuthLogin            (EXTENDS: the handlers call the store)
TokenLedger <= TokenIssuer          (TokenIssuer implements the ledger)
TokenLedger <- Credentials          (INSTANCE: the API as the CLI sees it)
Config <- Lifecycle                 (EXTENDS: what a process is started with)
UserResolver, CallbackServer        (on their own)
```

The resolver and the issuer are modelled statement by statement in modules of
their own; `OAuthLogin` uses only what their calls may leave behind (success, an
error before or after the rows were written), so that handlers, replays and
restarts can be explored together. `Credentials` likewise uses the ledger in
place of the issuer, which `TokenIssuer_proofs` shows to be sound.

## 3. The modules

### StateStore
`entries` is the map; `clock` stands for `time.Now()`. `Generate` and `Validate`
are one action each because both hold the mutex for everything they do to the
map. `Validate` is offered every value: never issued, outstanding, expired, used.
`Restart` is the API process being restarted, which empties the map while the
values are still in browsers. `issuedAt`, `accepted`, `acceptedAt` and
`outstanding` are history variables the properties are stated with.

### OAuthLogin
`BeginGitHub` and `BeginGoogle` draw a state value; a callback is a request with
any state value, with or without an `error` and a `redirect_uri` parameter, so
that the genuine redirect, the same URL loaded again and any other request are
all among them. Its handler goes through the steps `CheckState`, `CheckError`,
`CompleteUserAuth`, `ResolveOrCreateUser`, `IssueSessionToken`, `Respond`; every
early return is an `Answer`. The handlers of the two providers have the same
statements, and `CallbackGoogle` is `CallbackGitHub`. `Die` ends the process with
its store and its handlers. `resolved` and `stored` record which callbacks made
rows. The library's exchange with the provider (`gothic`) is a choice of its
outcomes, and is taken to know which provider is meant.

### UserResolver
Each OAuth callback is a request whose program counter `pc` names the SQL
statement it executes next; any other request may run between two statements.
`users` and `accounts` hold the committed rows. The statements of case 3 run in
a transaction that PostgreSQL executes at READ COMMITTED (the code passes
`pgx.TxOptions{}`): its inserts become visible in one step at `Commit`, and until
then a conflicting insert of another request waits (`EmailLocked`,
`IdentityLocked`). `owner` and `user` are the resolver's local variables
`account` and `user`. Every statement may fail before it takes effect
(`DbError`), and the reply to a write may be lost after it took effect
(`AfterWrite`, `ReturnAfterWrite`); a crash of the process is `DbError` for the
requests in flight.

Two constants select between programs. `Production` and `AdminEmail` are the
deployment's configuration, from which `DevFallbackEnabled` is computed as in
`main.go`. `NilOnMiss` says what a lookup returns besides `ErrNotFound` when
there is no row: the resolver was written, and is unit-tested, against
repositories that return nil; the PostgreSQL repositories return a pointer to a
zero struct. With `NilOnMiss = FALSE` (the program as wired in `main`) case 1 is
the only one ever taken, so the runs about cases 2 and 3 use `TRUE`;
`resolver_unknown_identity` uses `FALSE` and shows what that does to a first
login.

### TokenIssuer and TokenLedger
A request is a login (from the moment the resolver has returned), a refresh or a
revocation; its steps are the SQL statements, which no transaction encloses. The
refresh token a request mints is named after the request, which stands for 256
fresh random bits. A refresh may present any token that was handed out, again
and again, or garbage. `UpgradeRole` is the one write to `users.role` that other
requests make (`applyBootstrapUpgrade`). `SessionFKChecked` says whether the
store enforces the foreign key of `refresh_tokens.session_id`: the migrated
schema does, and then no refresh token can be inserted at all (theorem
`NobodyGetsASession`); the runs use a store that accepts the row, as the
unit tests' stubs do, to examine the protocol itself. `RevokeRouted` says whether
`DELETE /v1/auth/token` reaches its handler: as `router.go` is written it does not,
because the sub-router mounted on `/v1/auth` (lines 49-61) takes the path before the
route registered under `/v1` (lines 64-74) and answers 404. The runs let it through,
as the handler's own tests do; the theorems hold for both values.

`TokenLedger` is the abstract promise: a token is minted once, for one user; a
request retires tokens of one user only, one or several of them; retired tokens
stay retired. A rotation that deletes only the presented token, as the user story
asks, would satisfy it as well as the code's, which deletes all of the user's.
`TokenIssuer` implements it under the mapping "in the table" = live, "inserted
once and gone" = dead.

### CallbackServer
The serve loop, the context watcher, one handler per connection and the shutdown
goroutine each handler starts. Of `net/http` it keeps what the code relies on:
`Shutdown` closes the listener at once and returns when no connection is active;
a connection accepted before may still deliver its request; a silent one is
dropped after a while.

### Credentials
Three commands of CLI processes: log in and save; load, refresh if `NeedsRefresh`
says so, and save; load, log out and delete. The commands are not in the
repository yet, only the two packages they are to be made of; their order is
therefore marked external, the packages' operations are translated. `os.WriteFile`
is its two system calls, an open with `O_TRUNC` and a write at offset 0, and a
file is the data written last with the length of the file: two writers of
different lengths leave a file that does not parse. `Delete` unlinks the file
under a writer. A process may crash at the file, and may stop waiting for the
API, which carries the request out all the same. A refresh token is named after
the process that obtained it. A logout may be refused at any time: the JWT has
expired beyond `AuthRequired`'s leeway, or the route is not reached (`RevokeRouted`
above). What the command does with the file then is not in the repository, so it
may leave it or delete it. The thirty-day expiry of refresh tokens is left to
`TokenIssuer`. `solo` and `undisturbed` are history variables: the commands that
have had no other beside them, and those whose
token no other request has retired and whose opened file no other command has
written or removed.

### Config
`Load`, `applyEnvOverrides`, `Validate` and the pool size as operators on records.
Strings that only have to be there are a set of names, the secret is its length.

### Lifecycle
`main` is the statement `main()` has reached, `serve` the goroutine it starts the
HTTP server in, `req` the requests that server handles; `pool`, `telemetry`,
`ready` and the channel `serverErr` are what they share. Start-up steps may fail
and then exit with status 1. A signal is delivered to the context between
`NotifyContext` and `stop`, and kills the process before and after that. Both
exits of `main` are modelled statement by statement: after a server error
`pool.Close` without a timeout; after a signal not-ready, drain, flush and pool
close, each bounded by a timeout, which is a nondeterministic step. A process
that ended is started again on the schema it left, which `migrate.Run` marks
dirty while a migration runs (between two migrations it is clean and still
pending), and with any of the configurations in `Sources`;
`given` is the one it got and `conf` what `Config` makes of it. A request waits
for a connection when the pool is at its limit, is let in, refused when the pool
is closed, or cancelled by its client. A probe of `/health` competes for the same
connections with its ping, which a timer ends after two seconds wherever it is.

### Proof modules
Every module named `*_proofs` holds the inductive invariants and theorems of the
module it extends (`StateStore`, `OAuthLogin`, `UserResolver`, `TokenIssuer`,
`CallbackServer`, `Lifecycle`, `Credentials`). The `MC*` modules only add the databases, provider
profiles, file sizes and configurations of the instances.

Definitions introduced by the words "Mutated form of" are faulty variants of the
definition that follows; the specification does not use them. Each property is
known to fail when its variant replaces the original (`PROJECT.json`,
`mutants`).

## 4. The runs

| Run | Instance | What it shows |
|---|---|---|
| `oauth_login` | 2 logins, 2 callbacks, TTL 1, clock 0..2, restarts | a state value is accepted at most once and only before its expiry instant, and is redeemable for its whole TTL; one session per login; one answer per callback, and one that tells what was stored; rows only behind an accepted state; every callback is answered |
| `resolver` | 3 logins, 2 persons with two identities each, one a member to be upgraded, and a profile without email | every successful login returns the user its identity is linked to; no user without a link; returned roles are current, the designated admin is admin, nobody is demoted, renamed or re-linked; every login returns |
| `token_issuer` | 3 requests, 2 users, clock 0..1 | dead or expired tokens buy nothing, a token that bought a session is dead from then on, sessions stay with their user, a role claim is one the user had during the request; a logout that nothing overlaps is final until the next login; refinement of `TokenLedger` |
| `lifecycle` | 2 requests, 2 lives of the process, 8 configurations | queries meet a migrated schema only, also after a migration was cut short; the process runs on the configuration it was given and within its pool; a completed drain leaves no request; the program's own exits close the pool, or begin to; readiness is not claimed during a drain; a signal ends the process although requests hang, a server error unless a query hangs; a health probe is answered although the pool is exhausted |
| `credentials` | 3 commands, files of two lengths, JWTs that expire | commands one after the other leave a file with a live token or none; an empty file comes from a crash only; a save that no other command disturbs, whatever else overlaps, leaves a usable file whatever it finds |
| `callback` | 3 connections, one without a token | the timeout never hides a handled callback and is the last thing reported, the receiver is answered, a callback stops the server without the context |

Runs that are expected to find a violation state what a document, comment or
test of the repository says, and show a behaviour of the code that contradicts
it (`PROJECT.json`, `findings`):

| Run | Behaviour found |
|---|---|
| `oauth_login_redirect` | a login the CLI began with its `redirect_uri` ends in a JSON body: the callback handler looks for the parameter in a request that comes from the provider |
| `resolver_unknown_identity` | with the PostgreSQL repositories, the first login of a new identity looks up the nil UUID and fails |
| `resolver_first_admin` | two concurrent first logins both become `platform_admin` |
| `token_issuer_single_use` | one refresh token used twice at once yields two sessions |
| `token_issuer_rotation` | a refresh on one device ends the same user's session on another |
| `token_issuer_logout` | a refresh in flight survives a logout |

Further disagreements met while modelling, for which there is no run because
they follow from a single statement of the code:

* `IssueSessionToken` leaves the session id of a refresh token at the zero UUID
  (`token.go:65`), which the foreign key to `sessions` refuses, while
  `000007_refresh_tokens_session_nullable.up.sql:1` makes the column nullable "so
  refresh tokens can be issued without a session row"; `NobodyGetsASession` is the
  consequence;
* `DELETE /v1/auth/token` is registered behind the sub-router of `/v1/auth`, which
  answers 404 (`router.go:49-74`), while `us-03-09-session-revocation.md:17` describes
  a protected endpoint;
* a state value that never comes back stays in the map until the process ends
  (`state_store.go:35`), while `us-03-04-google-oauth-flow.md:33` asks for a
  five-minute TTL;
* the bootstrap fallback stays enabled when an admin email is configured
  (`main.go:119`), while `us-03-08-bootstrap-role-enforcement.md:26` has it only
  when the email is not set;
* when the context ends after the result was received, the listener delivers a
  timeout error as a second result (`callback.go:82`), while the comment at line
  92 says "the single Result"; `TimeoutIsLast` shows that nothing can follow it;
* after a signal the process may take the drain period, five seconds for the
  flush and ten for the pool (`main.go:172-204`), while
  `us-01-08-graceful-shutdown.md:40` allows two seconds beyond the drain period;
* the database settings have no environment variable, and a variable that is no
  number is ignored (`loader.go:65-97`), while
  `us-01-03-configuration-loading.md` (criterion 2) says "Any configuration value
  in the YAML file can be overridden";
* the active-request gauge is incremented under two attributes and decremented
  under three (`metrics.go:46-64`), so it never comes back to zero, while
  `us-01-09-opentelemetry-wiring.md:39` calls it a "gauge of currently active
  requests".

Bounds. Three logins are enough for every pair of them to race while a third has
created what they find; two emails with two identities each give every
combination of shared email and shared identity. Three token requests allow a login and
two refreshes of its token, or a refresh and a revocation, or two logins and a
refresh. `RefreshTTL = 0` with
a clock of 0..1 puts the boundary instant (still valid) and the instant after it
(expired) inside the bound; `JwtTTL = 1` and `ClockSkew = 0` leave the JWT valid
at 0 and expired at 1. With two callbacks and two state values the callbacks of
one login race each other and those of another; a clock of 0..2 and a TTL of 1
let a value be issued before or after the other, be presented at its expiry
instant and after it. `MaxClock` bounds the clocks. Two requests and a pool of one
connection let one request exhaust the pool for the other, and a pool of two or
25 never be exhausted; `MaxRuns = 2` lets one process be killed during its
migration, or serve, and another find what it left. Three CLI commands let two
overlap and a third find the outcome; two file lengths let a shorter AuthFile
be written over a longer one. No run uses symmetry.

Fairness. Only steps that a goroutine, the database or the kernel carries on by
itself are fair: the next statement of a request that has begun, the goroutines
of the listener, a `Shutdown` that gives up on a silent connection, the receiver
that waits on the channel, the steps and timers of `main`, and the timer of a
health ping. In `TokenIssuer` nothing is fair, as no property needs it. In
`Credentials` nothing is fair either: the CLI's HTTP client waits for the
API without a timeout. In `Lifecycle` requests are not fair: a
query may hang for ever, and `ServerErrorEndsProcess` says which of them may not. No request
need arrive, no statement need fail, no context need end.

## 5. The proofs

All theorems hold for arbitrary sets of requests, users, identities and values
and arbitrary lifetimes, under the named assumptions of the modules (names are
distinct; the initial database satisfies its own constraints).

* **StateStore** (`TypeCorrect`, `StateIsSingleUse`). The properties are
  not inductive by themselves: `HistoryInv` adds that an accepted value is no
  longer outstanding, and `OutstandingIsRedeemable` that only outstanding values
  are in the map; so a second `Validate` finds nothing.
* **OAuthLogin**. `HandlersUseStore` shows that every step of the handlers is one of
  the store's or leaves it alone, so the store's invariant carries over.
  `CallbackInv` says what a callback has seen and written when its handler is at a
  step, and `OneOwner` that no two callbacks of one login are past the state
  check: a second one would need an acceptance of a value that is no longer
  outstanding. `OneSessionPerLogin` is not inductive without it, since two
  callbacks past the check could both go on to store a token.
* **UserResolver**. `TypeInv` adds to the types what the local variables hold at
  each statement. `RoleInv` adds that a copy of a row agrees with the row except
  that the row may meanwhile have been promoted to what the copy is about to be
  promoted to, that ids of rows not yet committed are free, and what role a row
  about to be inserted has; it yields `AdminsBootstrapped`, `RolesCurrent`,
  `AdminIsAdmin`, `LookupsFind` (for lookups that return nil on a miss) and, through
  `TablesKept`, the action property of `NothingForgotten`. `LinkInv` adds, for
  providers that report one email per identity, that emails are unique, that
  links made by logins point to the user with the identity's email, and that
  the holder of an email lock excludes every other insert of it; so an upsert
  never meets a link of another user, which gives `LoginsLinked` and `UsersLinked`. The assumption is
  needed: if the email of an identity changes between two concurrent first
  logins, both reach case 3, the second `Upsert` only updates the first one's
  link (`oauth_account_repository.go:24`), and a user without a link is
  committed. `EmailInv` is the part of `LinkInv` that does without this assumption:
  emails are unique, and whoever is about to insert one holds its lock. Together with
  `AdminsAreBootstrapped` it gives `AtMostOneNewAdmin`, the counterpart of the run
  `resolver_first_admin`: two administrators need the fallback and an empty
  database. For the repositories as wired (`~NilOnMiss`) `CaseOneInv` says that no
  request leaves case 1, and `OnlyLinkedIdentities` that therefore nobody who was
  not linked before ever logs in. `LoginsNeverDeadlock` is the safety half of
  `LoginsReturn`: a transaction locks its email before its identity, so the locks
  form no cycle and some login can always go on (`SomebodyCanGo`); and every step
  raises the rank of the statement its login is at (`MovesForward`).
* **TokenIssuer**. The invariant says, per request, where its subject comes from
  (`OriginInv`), that a token dead at the start is still dead (`LateInv`), that the
  role seen is no less than the one at the start and no more than the present one
  (`ClaimInv`) and what step the handler is at
  (`ControlInv`); `Stable` collects what every step preserves of the rows other
  requests refer to. From it follow `SpentTokensRefused`, `SessionsStay`
  and `ClaimsFresh`; for the first, `OriginInv` also holds that the token a refresh
  has rotated is dead from then on. The runs `token_issuer_single_use` and
  `token_issuer_logout` fail, and the theorems say how far: only requests that read
  the token before it was dead can share it, and `LogoutsEndSessions` shows that a
  revocation with no login or refresh of its user past its lookup ends every session
  of the user, until the next login (`LogoutIsFinal`). `NobodyGetsASession` is the program with its migrated
  schema: nothing is ever issued.
  `TokenSteps` classifies every step by its effect on the table, which gives
  the refinement theorem `RefinesLedger`.
* **Lifecycle**. `PointInv` says what `main` has done when it is at a point, and
  `ServerInv` what the server goroutine may have done by then: above all that
  `ErrServerClosed` is only ever reported after `Shutdown`, so that the branch of
  `main` for server errors never exits with status 0. From them follow
  `SchemaIsCurrent`, `DrainIsClean`, `ExitIsOrderly` and, with `RequestMoves` (a request changes by its own steps
  or is lost with the process), the action properties of `PoolClosesLate` and
  `ReadyIsTruthful`. `ConfInv` adds that what was accepted is `Load` of what was
  given for as long as the process has a pool, and `PoolInv` that the connections
  in use never outnumber it; together they are `ConfigurationHolds`. `FileIsNeeded` uses the lemma that no
  environment makes `Validate` accept a configuration without its file.
* **Credentials**. A command stays in `solo` as long as no other has been at work
  beside it, so it is then the only one (`SoloInv`); nobody touches the file
  between its truncation and its write, and nobody retires the token it has
  obtained (`SaveInv`), which gives `LoginRepairs` from any file whatever. `SaveInv`
  is stated for the commands in `undisturbed`, which may have others beside them,
  as long as none has retired its token since or written to or removed the file it
  has opened; `QuietInv` says that a solo
  command is one of them while it saves.
  `OneAfterTheOther` is not inductive, since a command passes through states in
  which the file's token is spent: `SequentialInv` states it outside those calls
  (`Midway`), with `AbandonInv` excluding requests that the API carries out late.
  `EmptyFileMeansCrash` needs no such restriction: whatever overlaps, an open
  truncates only for a process that then writes. `CallsFollowLedger` shows that the
  API the commands meet behaves as `TokenLedger`, which `TokenIssuer` implements.
* **CallbackServer**. The watcher offers its timeout only after `Shutdown` has
  returned, when no handler runs and none can start (`WatcherInv`), and every
  handler that got so far has put something into the channel (`Delivered`); so a
  timeout that is, or will be, received first means that no callback was handled
  (`TimeoutFirst`), and one that is in the channel or received has nothing behind it
  (`TimeoutLast`), which is `CallbackBeatsTimeout`.

Every inductive invariant was also checked by TLC on the instances above.

Only model-checked: the liveness properties (`CallbacksAnswered`, `LoginsReturn`,
`ReceiverAnswered`, `CallbackStopsServer`, `SignalEndsProcess`,
`ServerErrorEndsProcess`, `HealthAnswered`), which need fairness and
`ENABLED` and are beyond the prover.

## 6. Not modelled

Signatures, hashing and random numbers (assumed to work: a fresh value is new, a
JWT cannot be forged); the contents of profiles and provider tokens; idle
connections and their lifetimes; log output, traces and metrics, on which no
other part depends. The middleware chain keeps no state but the active-request
gauge, whose faults (section 4, and a panic that skips the decrement,
`accesslog.go:54`) follow from single statements; `RequireRole` is mounted on no
route. Down migrations are run by no code of the program. Pool sizes beyond 32
bits (`pool.go:63`), the search for a free port and the opening of a browser in
the CLI are left out. Repository methods
without a caller (`SoftDelete`, `MarkUsed`, `DeleteBySessionID`, `DeleteExpired`,
`FindByUserID`, the sessions repository) are left out: nothing removes users, and
no sessions row is ever written.
