------------------------------- MODULE Lifecycle -------------------------------
(***************************************************************************)
(* The API process from start-up to exit (api/cmd/api/main.go), with the   *)
(* HTTP server it starts, the requests that server handles, the database   *)
(* pool, the telemetry providers and the migrated schema.                  *)
(*                                                                         *)
(* The schema outlives the process: a process that exits is started again, *)
(* up to MaxRuns times, and finds what its predecessor left.  A signal is  *)
(* handled by the context of signal.NotifyContext between the call of      *)
(* NotifyContext and that of stop, and kills the process at other times.   *)
(*                                                                         *)
(* Of net/http, pgxpool and golang-migrate the module keeps what main      *)
(* relies on: Shutdown closes the listener at once and returns when no     *)
(* connection is active; Close refuses new queries at once and returns     *)
(* when those that hold a connection have returned it; Up marks the schema *)
(* dirty while a migration runs and refuses a dirty schema.                *)
(***************************************************************************)
EXTENDS Config, FiniteSets

CONSTANTS
    Requests,   \* HTTP requests, each sent at most once
    Sources,    \* the configurations a process may be started with
    MaxRuns     \* bound: how often the process is started

ASSUME RunsAssumption == MaxRuns \in Nat \ {0}
ASSUME SourcesAssumption == Sources \subseteq Source
ASSUME RequestsAssumption == IsFiniteSet(Requests)

VARIABLES
    main,       \* where main is
    exit,       \* how the process ended: "none", "0", "1" or "killed"
    run,        \* number of this process
    given,      \* the configuration it was started with ...
    conf,       \* ... and what Load made of it
    schema,     \* of the database: "pending", "dirty" or "current"
    pool,       \* "none", "open", "closing" or "closed"
    telemetry,  \* "none", "sdk", "noop" or "down"
    ready,      \* ReadyHandler.ready
    handling,   \* signals go to sigCtx
    sigDone,    \* sigCtx is done
    serve,      \* the goroutine of Start: "none", "started", "listening", "returned"
    serverErr,  \* content of the channel: "none", "closed" or "error"
    inShutdown, \* http.Server.Shutdown has been called
    drain,      \* outcome of Shutdown: "none", "complete" or "timeout"
    req         \* where each request is

process == <<run, given, conf>>
sig == <<handling, sigDone>>
server == <<serve, serverErr, inShutdown>>
vars == <<main, exit, process, schema, pool, telemetry, ready, sig, server, drain, req>>

TypeOK ==
    /\ main \in {"load", "connect", "check", "migrate", "migrating", "wire", "start",
                 "select", "closeOnError", "notReady", "shutdown", "draining",
                 "flush", "closePool", "waitPool", "exited"}
    /\ exit \in {"none", "0", "1", "killed"}
    /\ run \in 1..MaxRuns
    /\ given \in Sources /\ conf \in Settings
    /\ schema \in {"pending", "dirty", "current"}
    /\ pool \in {"none", "open", "closing", "closed"}
    /\ telemetry \in {"none", "sdk", "noop", "down"}
    /\ ready \in BOOLEAN /\ handling \in BOOLEAN /\ sigDone \in BOOLEAN
    /\ serve \in {"none", "started", "listening", "returned"}
    /\ serverErr \in {"none", "closed", "error"}
    /\ inShutdown \in BOOLEAN
    /\ drain \in {"none", "complete", "timeout"}
    /\ req \in [Requests -> {"idle", "open", "serving", "waiting", "querying",
                             "pingWait", "pinging", "served", "ready", "notReady",
                             "healthy", "unhealthy", "refused", "lost"}]

(* What a process begins with; requests and the schema are outside of it. *)
Init ==
    /\ main = "load" /\ exit = "none" /\ run = 1
    /\ given \in Sources /\ conf = Zero
    /\ schema \in {"pending", "current"}
    /\ pool = "none" /\ telemetry = "none" /\ ready = FALSE
    /\ handling = FALSE /\ sigDone = FALSE
    /\ serve = "none" /\ serverErr = "none" /\ inShutdown = FALSE
    /\ drain = "none"
    /\ req = [r \in Requests |-> "idle"]

-------------------------------------------------------------------------------
(* Requests that a handler has in hand, and connections Shutdown waits for.  *)
InFlight(r) == req[r] \in {"serving", "waiting", "querying", "pingWait", "pinging"}
Active(r) == req[r] = "open" \/ InFlight(r)

(* Requests that hold a connection of the pool; each holds at most one,      *)
(* because queries of a transaction run on the transaction's connection.     *)
Holding == {r \in Requests : req[r] \in {"querying", "pinging"}}

(* The process ends, and its connections with it. *)
Exit(code) ==
    /\ main' = "exited"
    /\ exit' = code
    /\ req' = [r \in Requests |-> IF Active(r) THEN "lost" ELSE req[r]]

(* main goes on to its next statement. *)
Go(point) == main' = point /\ UNCHANGED exit

-------------------------------------------------------------------------------
(* Start-up.  Nothing but a signal acts concurrently, so a failed step and   *)
(* the os.Exit that follows are one action.                                  *)

(* Mutated form of LoadConfig: a configuration that is not there is used. *)
LoadConfigPanics ==
    /\ main = "load"
    /\ conf' = Load(given)
    /\ IF Validate(conf') THEN Go("connect") /\ UNCHANGED req ELSE Exit("2")
    /\ UNCHANGED <<run, given, schema, pool, telemetry, ready, sig, server, drain>>

(* config.Load and config.Validate. *)
LoadConfig ==
    /\ main = "load"
    /\ \/ /\ FileAccepted(given)
          /\ conf' = Load(given)
          /\ IF Validate(conf') THEN Go("connect") /\ UNCHANGED req ELSE Exit("1")
       \/ ~FileAccepted(given) /\ UNCHANGED conf /\ Exit("1")
    /\ UNCHANGED <<run, given, schema, pool, telemetry, ready, sig, server, drain>>

(* database.New: NewWithConfig refuses a pool without room, and a pool that  *)
(* cannot be pinged is closed before New returns.                            *)
NewPool ==
    /\ main = "connect"
    /\ \/ PoolSize(conf) >= 1 /\ pool' = "open" /\ Go("check") /\ UNCHANGED req
       \/ UNCHANGED pool /\ Exit("1")
    /\ UNCHANGED <<process, schema, telemetry, ready, sig, server, drain>>

(* Mutated form of CloseAndExit: exits without closing the pool. *)
ExitOnly == UNCHANGED pool /\ Exit("1")

(* A start-up step fails after the pool was opened: no query holds a         *)
(* connection yet, so pool.Close returns at once.                            *)
CloseAndExit == pool' = "closed" /\ Exit("1")

(* startup.CheckDatabase. *)
CheckDatabase ==
    /\ main = "check"
    /\ \/ UNCHANGED pool /\ Go("migrate") /\ UNCHANGED req
       \/ CloseAndExit
    /\ UNCHANGED <<process, schema, telemetry, ready, sig, server, drain>>

(* migrate.Run as far as the next pending migration: Up finds nothing to do *)
(* (ErrNoChange), refuses a dirty schema, or marks the schema dirty and      *)
(* begins; the database may fail before any of it.                           *)
Migrate ==
    /\ main = "migrate"
    /\ \/ schema = "current" /\ Go("wire") /\ UNCHANGED <<schema, pool, req>>
       \/ schema = "pending" /\ schema' = "dirty" /\ Go("migrating")
          /\ UNCHANGED <<pool, req>>
       \/ CloseAndExit /\ UNCHANGED schema
    /\ UNCHANGED <<process, telemetry, ready, sig, server, drain>>

(* Mutated form of MigrationFails: the error of Up is only logged. *)
MigrationIgnored == Go("wire") /\ UNCHANGED <<schema, pool, req>>

(* A migration fails half way: the schema stays dirty. *)
MigrationFails == CloseAndExit /\ UNCHANGED schema

(* A pending migration, the last one or one before it, or its failure.       *)
(* Between two of them the schema is clean and still pending.                *)
ApplyMigrations ==
    /\ main = "migrating"
    /\ \/ schema' = "current" /\ Go("wire") /\ UNCHANGED <<pool, req>>
       \/ schema' = "pending" /\ Go("migrate") /\ UNCHANGED <<pool, req>>
       \/ MigrationFails
    /\ UNCHANGED <<process, telemetry, ready, sig, server, drain>>

(* telemetry.Setup installs the SDK's providers; if it fails, no-op ones stay. *)
SetupTelemetry == telemetry' \in {"sdk", "noop"}

(* SetReady(true), telemetry.Setup and the construction of the handlers. *)
Wire ==
    /\ main = "wire"
    /\ ready' = TRUE
    /\ SetupTelemetry
    /\ Go("start")
    /\ UNCHANGED <<process, schema, pool, sig, server, drain, req>>

(* signal.NotifyContext, and the goroutine that runs the server. *)
Start ==
    /\ main = "start"
    /\ handling' = TRUE
    /\ serve' = "started"
    /\ Go("select")
    /\ UNCHANGED <<process, schema, pool, telemetry, ready, sigDone, serverErr,
                   inShutdown, drain, req>>

-------------------------------------------------------------------------------
(* The goroutine of Start; serverErr has a buffer, so it never blocks. *)
ListenAndServe ==
    /\ serve = "started"
    /\ \/ ~inShutdown /\ serve' = "listening" /\ UNCHANGED serverErr
       \/ ~inShutdown /\ serve' = "returned" /\ serverErr' = "error"
       \/ inShutdown /\ serve' = "returned" /\ serverErr' = "closed"
    /\ UNCHANGED <<main, exit, process, schema, pool, telemetry, ready, sig, inShutdown,
                   drain, req>>

(* Serve returns: because of Shutdown, or because Accept failed for good. *)
ServeReturns ==
    /\ serve = "listening"
    /\ serve' = "returned"
    /\ serverErr' = IF inShutdown THEN "closed" ELSE "error"
    /\ UNCHANGED <<main, exit, process, schema, pool, telemetry, ready, sig, inShutdown,
                   drain, req>>

-------------------------------------------------------------------------------
(* The exit of main after a server error. *)

(* pool.Close in this goroutine, without a timeout; ready stays as it is. *)
TakeServerErr ==
    /\ main = "select" /\ serverErr # "none"
    /\ handling' = FALSE
    /\ IF serverErr = "error"
       THEN pool' = "closing" /\ Go("closeOnError") /\ UNCHANGED req
       ELSE UNCHANGED pool /\ Exit("0")
    /\ UNCHANGED <<process, schema, telemetry, ready, sigDone, server, drain>>

ExitOnError ==
    /\ main = "closeOnError" /\ pool = "closed"
    /\ Exit("1")
    /\ UNCHANGED <<process, schema, pool, telemetry, ready, sig, server, drain>>

-------------------------------------------------------------------------------
(* The exit of main after a signal. *)

(* stop(): from here on a second signal kills the process. *)
TakeSignal ==
    /\ main = "select" /\ sigDone
    /\ handling' = FALSE
    /\ Go("notReady")
    /\ UNCHANGED <<process, schema, pool, telemetry, ready, sigDone, server, drain, req>>

(* Mutated form of SetNotReady: the readiness flag is left alone. *)
StayReady ==
    /\ main = "notReady"
    /\ Go("shutdown")
    /\ UNCHANGED <<process, schema, pool, telemetry, ready, sig, server, drain, req>>

(* Mutated form of SetNotReady: the pool is closed before the drain. *)
SetNotReadyAndClose ==
    /\ main = "notReady"
    /\ ready' = FALSE
    /\ pool' = "closing"
    /\ Go("shutdown")
    /\ UNCHANGED <<process, schema, telemetry, sig, server, drain, req>>

SetNotReady ==
    /\ main = "notReady"
    /\ ready' = FALSE
    /\ Go("shutdown")
    /\ UNCHANGED <<process, schema, pool, telemetry, sig, server, drain, req>>

(* srv.Shutdown closes the listener ... *)
Shutdown ==
    /\ main = "shutdown"
    /\ inShutdown' = TRUE
    /\ Go("draining")
    /\ UNCHANGED <<process, schema, pool, telemetry, ready, sig, serve, serverErr, drain, req>>

(* Mutated form of ShutdownReturns: does not wait (http.Server.Close). *)
CloseReturns ==
    /\ main = "draining"
    /\ drain' = "complete"
    /\ Go("flush")
    /\ UNCHANGED <<process, schema, pool, telemetry, ready, sig, server, req>>

(* ... returns when no connection is active ... *)
ShutdownReturns ==
    /\ main = "draining"
    /\ \A r \in Requests : ~Active(r)
    /\ drain' = "complete"
    /\ Go("flush")
    /\ UNCHANGED <<process, schema, pool, telemetry, ready, sig, server, req>>

(* Mutated form of DrainTimesOut: the context has no deadline. *)
DrainWithoutDeadline == FALSE /\ UNCHANGED vars

(* ... or when shutdown_timeout_seconds have passed. *)
DrainTimesOut ==
    /\ main = "draining"
    /\ drain' = "timeout"
    /\ Go("flush")
    /\ UNCHANGED <<process, schema, pool, telemetry, ready, sig, server, req>>

(* otelShutdown, bounded by five seconds; its error is only logged. *)
Flush ==
    /\ main = "flush"
    /\ telemetry' = "down"
    /\ Go("closePool")
    /\ UNCHANGED <<process, schema, pool, ready, sig, server, drain, req>>

(* The goroutine that closes the pool is started. *)
ClosePool ==
    /\ main = "closePool"
    /\ pool' = "closing"
    /\ Go("waitPool")
    /\ UNCHANGED <<process, schema, telemetry, ready, sig, server, drain, req>>

(* poolClosed, or the ten-second timeout, ends main. *)
MainReturns ==
    /\ main = "waitPool"
    /\ Exit("0")
    /\ UNCHANGED <<process, schema, pool, telemetry, ready, sig, server, drain>>

(* Mutated form of PoolCloses: calls that queue for a connection count too. *)
PoolClosesWhenUnused ==
    /\ pool = "closing" /\ main # "exited"
    /\ \A r \in Requests : ~InFlight(r) \/ req[r] = "serving"
    /\ pool' = "closed"
    /\ UNCHANGED <<main, exit, process, schema, telemetry, ready, sig, server, drain, req>>

(* pool.Close returns when every connection has been given back. *)
PoolCloses ==
    /\ pool = "closing" /\ main # "exited"
    /\ Holding = {}
    /\ pool' = "closed"
    /\ UNCHANGED <<main, exit, process, schema, telemetry, ready, sig, server, drain, req>>

-------------------------------------------------------------------------------
(* Requests.  None of these steps need ever happen. *)
Becomes(r, state) ==
    /\ req' = [req EXCEPT ![r] = state]
    /\ UNCHANGED <<main, exit, process, schema, pool, telemetry, ready, sig, server, drain>>

Alive == main # "exited"

Accept(r) ==
    Alive /\ serve = "listening" /\ ~inShutdown /\ req[r] = "idle" /\ Becomes(r, "open")

(* The request has been read; this may also happen during the shutdown. *)
Serve(r) == Alive /\ req[r] = "open" /\ Becomes(r, "serving")

(* No request came on the connection: ReadHeaderTimeout, or Shutdown. *)
Drop(r) == Alive /\ req[r] = "open" /\ Becomes(r, "lost")

(* A query asks the pool for a connection. *)
Acquire(r) == Alive /\ req[r] = "serving" /\ Becomes(r, "waiting")

(* The pool has room for one more.  Callers queue for room, also on a closed *)
(* pool, which fails them when their turn comes.                             *)
RoomInPool == Cardinality(Holding) < PoolSize(conf)

Admit(r) ==
    Alive /\ req[r] = "waiting" /\ RoomInPool /\ pool = "open" /\ Becomes(r, "querying")

(* A query on a closed pool fails, and the handler answers with an error. *)
Refuse(r) ==
    /\ Alive /\ req[r] = "waiting" /\ RoomInPool
    /\ pool \in {"closing", "closed"}
    /\ Becomes(r, "refused")

Release(r) == Alive /\ req[r] = "querying" /\ Becomes(r, "serving")

(* The client goes away: the context of its request is cancelled, and with   *)
(* it what the handler waits for.                                            *)
Cancel(r) ==
    /\ Alive /\ req[r] \in {"waiting", "querying", "pingWait", "pinging"}
    /\ Becomes(r, "lost")

Answer(r) == Alive /\ req[r] = "serving" /\ Becomes(r, "served")

(* ReadyHandler.ServeHTTP. *)
ProbeReady(r) ==
    Alive /\ req[r] = "serving" /\ Becomes(r, IF ready THEN "ready" ELSE "notReady")

(* HealthHandler.ServeHTTP: the aggregator asks the server's contributor,    *)
(* which is always healthy, and then the database's, which pings the pool.   *)
ProbeHealth(r) == Alive /\ req[r] = "serving" /\ Becomes(r, "pingWait")

PingAcquires(r) ==
    /\ Alive /\ req[r] = "pingWait" /\ RoomInPool
    /\ Becomes(r, IF pool = "open" THEN "pinging" ELSE "unhealthy")

PingReturns(r) ==
    /\ Alive /\ req[r] = "pinging"
    /\ \E status \in {"healthy", "unhealthy"} : Becomes(r, status)

(* Mutated form of PingTimesOut: only the ping itself is bounded by pingCtx. *)
PingTimesOutOnceAcquired(r) ==
    Alive /\ req[r] = "pinging" /\ Becomes(r, "unhealthy")

(* pingTimeout bounds the wait for a connection and the ping. *)
PingTimesOut(r) ==
    Alive /\ req[r] \in {"pingWait", "pinging"} /\ Becomes(r, "unhealthy")

RequestStep(r) ==
    \/ Accept(r) \/ Serve(r) \/ Drop(r) \/ Cancel(r)
    \/ Acquire(r) \/ Admit(r) \/ Refuse(r) \/ Release(r) \/ Answer(r)
    \/ ProbeReady(r) \/ ProbeHealth(r)
    \/ PingAcquires(r) \/ PingReturns(r) \/ PingTimesOut(r)

-------------------------------------------------------------------------------
(* SIGTERM or SIGINT. *)
Signal ==
    /\ Alive
    /\ IF handling
       THEN sigDone' = TRUE /\ UNCHANGED <<main, exit, req>>
       ELSE UNCHANGED sigDone /\ Exit("killed")
    /\ UNCHANGED <<process, schema, pool, telemetry, ready, handling, server, drain>>

(* The platform starts the process again. *)
Restart ==
    /\ main = "exited" /\ run < MaxRuns
    /\ run' = run + 1
    /\ given' \in Sources /\ conf' = Zero
    /\ main' = "load" /\ exit' = "none"
    /\ pool' = "none" /\ telemetry' = "none" /\ ready' = FALSE
    /\ handling' = FALSE /\ sigDone' = FALSE
    /\ serve' = "none" /\ serverErr' = "none" /\ inShutdown' = FALSE
    /\ drain' = "none"
    /\ UNCHANGED <<schema, req>>

(* The last process has ended. *)
Over == main = "exited" /\ run = MaxRuns /\ UNCHANGED vars

StartUp ==
    LoadConfig \/ NewPool \/ CheckDatabase \/ Migrate \/ ApplyMigrations \/ Wire \/ Start
Terminate ==
    \/ TakeServerErr \/ ExitOnError
    \/ TakeSignal \/ SetNotReady \/ Shutdown \/ ShutdownReturns \/ DrainTimesOut
    \/ Flush \/ ClosePool \/ MainReturns
MainStep == StartUp \/ Terminate
ServerStep == Alive /\ (ListenAndServe \/ ServeReturns)

Next ==
    \/ MainStep \/ ServerStep \/ PoolCloses \/ Signal \/ Restart \/ Over
    \/ \E r \in Requests : RequestStep(r)

(* main's goroutine runs, its timers and those of the pings fire, and        *)
(* pool.Close returns when it can.  Requests and queries may hang for ever,  *)
(* and no signal need come.                                                  *)
Fairness ==
    /\ WF_vars(MainStep) /\ WF_vars(PoolCloses)
    /\ \A r \in Requests : WF_vars(PingTimesOut(r))

Spec == Init /\ [][Next]_vars /\ Fairness

-------------------------------------------------------------------------------
(* Queries run only against a fully migrated schema, also when an earlier    *)
(* process was killed or failed in the middle of a migration (main.go:79).   *)
QueriesOnCurrentSchema ==
    \A r \in Requests : InFlight(r) => schema = "current"

(* A process that opens its pool runs on what it was given: a number in the  *)
(* environment wins over the file, anything else there leaves the file's     *)
(* value; whatever the two say, it has a drain period and a secret that is   *)
(* long enough, and its requests never hold more connections than the file   *)
(* allows (loader.go:65-97, validation.go:33-108, pool.go:50-63).            *)
RunsAsConfigured ==
    pool \in {"open", "closing"} =>
        /\ conf.timeout = IF given.env.timeout.kind = "number"
                          THEN given.env.timeout.n ELSE given.file.settings.timeout
        /\ conf.timeout >= 1 /\ conf.secret >= 32
        /\ LET allowed == given.file.settings.maxOpen
           IN  allowed # 0 => Cardinality(Holding) <= allowed

(* A drain that reports completion leaves no request behind, and none gets   *)
(* in later although the listener may not even have been opened when the     *)
(* signal came: telemetry and pool are taken down under nobody's feet        *)
(* (main.go:175-204).                                                        *)
CleanDrain == drain = "complete" => \A r \in Requests : ~Active(r)

(* Where the program itself exits with a failure the pool is closed or was   *)
(* never opened; success is reported only after a drain and a flush, with    *)
(* the pool closed or, after ten seconds, closing (main.go:66-82, 155-205).  *)
ExitReleases ==
    /\ exit = "1" => pool \in {"none", "closed"}
    /\ exit = "0" => drain # "none" /\ telemetry = "down" /\ pool \in {"closing", "closed"}

(* A request finds the pool closed only if it outlived the drain period, or  *)
(* if the server itself has failed.                                          *)
RefusedOnlyAfterTimeout ==
    [][\A r \in Requests : req'[r] = "refused" /\ req[r] # "refused" =>
            drain = "timeout" \/ main = "closeOnError"]_vars

(* A readiness probe is answered with 200 only while the schema is current   *)
(* and the pool is open, and never once the drain has begun; the exit after  *)
(* a server error is the exception, where main does not touch the flag.      *)
ReadyIsTrue ==
    [][\A r \in Requests : req'[r] = "ready" /\ req[r] # "ready" =>
            /\ schema = "current" /\ ~inShutdown
            /\ pool = "open" \/ main = "closeOnError"]_vars

(* A signal that the process handles ends it, however long requests and      *)
(* queries hang, unless the server fails at the same moment and main takes   *)
(* that branch of its select.                                                *)
SignalEndsProcess == sigDone ~> (main = "exited" \/ main = "closeOnError")

(* After a server error the process ends if no query hangs for ever: calls   *)
(* that queue for the pool do not keep pool.Close, which has no timeout      *)
(* there, from returning (main.go:156-161).                                  *)
ServerErrorEndsProcess ==
    (\A r \in Requests : []<>(req[r] # "querying"))
        => (main = "closeOnError" ~> main = "exited")

(* A health probe is answered, or lost with its client or the process, also  *)
(* when hanging queries hold every connection and during a shutdown          *)
(* (database_contributor.go:44-54).                                          *)
HealthAnswered ==
    \A r \in Requests :
        req[r] \in {"pingWait", "pinging"} ~> req[r] \in {"healthy", "unhealthy", "lost"}
===============================================================================
