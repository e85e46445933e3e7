--------------------------- MODULE Lifecycle_proofs ---------------------------
(***************************************************************************)
(* Safety of the process lifecycle, for any set of requests and any number *)
(* of restarts.  The properties follow from what holds at each point of    *)
(* main (PointInv) and from what the server goroutine may have done by     *)
(* then (ServerInv); that the process runs as configured, from what was    *)
(* accepted before the pool was opened (ConfInv) and from the connections  *)
(* in use (PoolInv).                                                       *)
(***************************************************************************)
EXTENDS Lifecycle, FiniteSetTheorems, TLAPS

(* Points before the server goroutine exists. *)
StartingUp == {"load", "connect", "check", "migrate", "migrating", "wire", "start"}

(* Points at which the schema may not be current. *)
Unmigrated == {"load", "connect", "check", "migrate", "migrating", "exited"}

(* Points of the signal branch, by what has been done before them. *)
AfterShutdown == {"draining", "flush", "closePool", "waitPool"}
AfterDrain == {"flush", "closePool", "waitPool"}
AfterFlush == {"closePool", "waitPool"}

(* What main has done when it is at a point. *)
PointInv ==
    /\ main \notin Unmigrated => schema = "current"
    /\ main \in {"load", "connect"} => pool = "none"
    /\ main \in {"closeOnError", "waitPool"} => pool \in {"closing", "closed"}
    /\ main \notin {"load", "connect", "closeOnError", "waitPool", "exited"} => pool = "open"
    /\ main \in AfterShutdown \cup {"shutdown"} => ~ready
    /\ inShutdown => main \in AfterShutdown \cup {"exited"}
    /\ main \in AfterShutdown => inShutdown
    /\ main \in AfterDrain => drain # "none"
    /\ drain # "none" => main \in AfterDrain \cup {"exited"}
    /\ drain # "none" => inShutdown
    /\ main \in AfterFlush => telemetry = "down"
    /\ main # "exited" <=> exit = "none"

(* The server goroutine, and the requests it let in. *)
ServerInv ==
    /\ main \in StartingUp => serve = "none" /\ serverErr = "none"
    /\ serverErr = "closed" => inShutdown
    /\ main \in StartingUp \cup {"exited"} => \A r \in Requests : ~Active(r)

Inv == TypeOK /\ PointInv /\ ServerInv /\ CleanDrain /\ ExitReleases

(* A pool is opened only on a configuration that was loaded and accepted. *)
ConfInv ==
    main = "connect" \/ pool # "none" =>
        FileAccepted(given) /\ conf = Load(given) /\ Validate(conf)

(* Requests hold connections of an existing pool, and no more than it has. *)
PoolInv == IF pool = "none" THEN Holding = {}
           ELSE PoolSize(conf) >= 1 /\ Cardinality(Holding) <= PoolSize(conf)

USE RunsAssumption

LEMMA ZeroType == Zero \in Settings
  BY DEF Zero, Settings, Environments, SSLModes

(* Load yields settings of the right types, whatever a process is given. *)
LEMMA LoadType == \A src \in Sources : Load(src) \in Settings
<1> SUFFICES ASSUME NEW src \in Source PROVE Load(src) \in Settings
  BY SourcesAssumption
<1>2. FromFile(src) \in Settings
  BY ZeroType DEF FromFile, Source
<1>3. src.env.port \in Text /\ src.env.timeout \in Text /\ src.env.secret \in Nat
        /\ src.env.environment \in Environments /\ src.env.strings \in SUBSET Required
  BY DEF Source
<1>4. ASSUME NEW c \in Settings PROVE applyEnvOverrides(c, src.env) \in Settings
  BY <1>3 DEF applyEnvOverrides, setInt, Text, Settings
<1> QED
  BY <1>2, <1>4 DEF Load

(* Without a file that parses, the environment alone is never accepted: the  *)
(* database settings have no variable.                                       *)
LEMMA FileNeeded ==
  ASSUME NEW src \in Source, Validate(Load(src)) PROVE src.file.state = "parsed"
<1> SUFFICES ASSUME src.file.state # "parsed" PROVE FALSE
  OBVIOUS
<1>1. Load(src) = applyEnvOverrides(Zero, src.env)
  BY DEF Load, FromFile
<1>2. "host" \notin applyEnvOverrides(Zero, src.env).strings
  BY DEF applyEnvOverrides, Zero, Overridable, Source
<1>3. Required \subseteq Load(src).strings
  BY DEF Validate
<1>4. "host" \in Required
  BY DEF Required, DatabaseStrings
<1> QED
  BY <1>1, <1>2, <1>3, <1>4, Zenon

LEMMA InvInit == Init => Inv
<1> SUFFICES ASSUME Init PROVE Inv
  OBVIOUS
<1>1. TypeOK
  <2>1. run \in 1..MaxRuns  BY DEF Init
  <2>2. ready \in BOOLEAN /\ handling \in BOOLEAN /\ sigDone \in BOOLEAN
          /\ inShutdown \in BOOLEAN
    BY Zenon DEF Init
  <2> QED  BY <2>1, <2>2, ZeroType DEF Init, TypeOK
<1>2. PointInv
  BY DEF Init, PointInv, Unmigrated, AfterShutdown, AfterDrain, AfterFlush
<1>3. ServerInv /\ CleanDrain /\ ExitReleases
  BY DEF Init, ServerInv, CleanDrain, ExitReleases, Active, InFlight
<1> QED
  BY <1>1, <1>2, <1>3 DEF Inv

LEMMA InvNext == Inv /\ [Next]_vars => Inv'
<1> SUFFICES ASSUME Inv, [Next]_vars PROVE Inv'
  OBVIOUS
<1> USE DEF Inv, TypeOK, PointInv, ServerInv, CleanDrain, ExitReleases, Active, InFlight,
       StartingUp, Unmigrated, AfterShutdown, AfterDrain, AfterFlush,
       Go, Exit, process, sig, server, Alive
<1>1. CASE LoadConfig
  <2>1. conf' \in Settings  BY <1>1, LoadType DEF LoadConfig
  <2> QED  BY <1>1, <2>1 DEF LoadConfig
<1>2. CASE NewPool  BY <1>2 DEF NewPool
<1>3. CASE CheckDatabase  BY <1>3 DEF CheckDatabase, CloseAndExit
<1>4. CASE Migrate  BY <1>4 DEF Migrate, CloseAndExit
<1>5. CASE ApplyMigrations  BY <1>5 DEF ApplyMigrations, MigrationFails, CloseAndExit
<1>6. CASE Wire  BY <1>6 DEF Wire, SetupTelemetry
<1>7. CASE Start  BY <1>7 DEF Start
<1>8. CASE TakeServerErr
  <2>1. TypeOK'  BY <1>8 DEF TakeServerErr
  <2>2. PointInv'  BY <1>8 DEF TakeServerErr
  <2>3. ServerInv'  BY <1>8 DEF TakeServerErr
  <2>4. CleanDrain' /\ ExitReleases'  BY <1>8 DEF TakeServerErr
  <2> QED  BY <2>1, <2>2, <2>3, <2>4
<1>9. CASE ExitOnError  BY <1>9 DEF ExitOnError
<1>10. CASE TakeSignal
  <2>1. TypeOK'  BY <1>10 DEF TakeSignal
  <2>2. PointInv'  BY <1>10 DEF TakeSignal
  <2>3. ServerInv' /\ CleanDrain' /\ ExitReleases'  BY <1>10 DEF TakeSignal
  <2> QED  BY <2>1, <2>2, <2>3
<1>11. CASE SetNotReady
  <2>1. TypeOK'  BY <1>11 DEF SetNotReady
  <2>2. PointInv'  BY <1>11 DEF SetNotReady
  <2>3. ServerInv' /\ CleanDrain' /\ ExitReleases'  BY <1>11 DEF SetNotReady
  <2> QED  BY <2>1, <2>2, <2>3
<1>12. CASE Shutdown
  <2>1. TypeOK'  BY <1>12 DEF Shutdown
  <2>2. PointInv'  BY <1>12 DEF Shutdown
  <2>3. ServerInv' /\ CleanDrain' /\ ExitReleases'  BY <1>12 DEF Shutdown
  <2> QED  BY <2>1, <2>2, <2>3
<1>13. CASE ShutdownReturns
  <2>1. TypeOK'  BY <1>13 DEF ShutdownReturns
  <2>2. PointInv'  BY <1>13 DEF ShutdownReturns
  <2>3. ServerInv'  BY <1>13 DEF ShutdownReturns
  <2>4. CleanDrain' /\ ExitReleases'  BY <1>13 DEF ShutdownReturns
  <2> QED  BY <2>1, <2>2, <2>3, <2>4
<1>14. CASE DrainTimesOut
  <2>1. TypeOK'  BY <1>14 DEF DrainTimesOut
  <2>2. PointInv'  BY <1>14 DEF DrainTimesOut
  <2>3. ServerInv'  BY <1>14 DEF DrainTimesOut
  <2>4. CleanDrain' /\ ExitReleases'  BY <1>14 DEF DrainTimesOut
  <2> QED  BY <2>1, <2>2, <2>3, <2>4
<1>15. CASE Flush  BY <1>15 DEF Flush
<1>16. CASE ClosePool  BY <1>16 DEF ClosePool
<1>17. CASE MainReturns  BY <1>17 DEF MainReturns
<1>18. CASE ServerStep  BY <1>18 DEF ServerStep, ListenAndServe, ServeReturns
<1>19. CASE PoolCloses  BY <1>19 DEF PoolCloses
<1>20. CASE Signal
  <2>1. TypeOK'
    <3>1. sigDone' \in BOOLEAN  BY <1>20, Zenon DEF Signal
    <3> QED  BY <1>20, <3>1 DEF Signal
  <2>2. PointInv'  BY <1>20 DEF Signal
  <2>3. ServerInv'  BY <1>20 DEF Signal
  <2>4. CleanDrain' /\ ExitReleases'  BY <1>20 DEF Signal
  <2> QED  BY <2>1, <2>2, <2>3, <2>4
<1>21. CASE Restart
  <2>1. TypeOK'
    <3>1. run' \in 1..MaxRuns  BY <1>21 DEF Restart
    <3>2. ready' \in BOOLEAN /\ handling' \in BOOLEAN /\ sigDone' \in BOOLEAN
            /\ inShutdown' \in BOOLEAN
      BY <1>21, Zenon DEF Restart
    <3> QED  BY <1>21, <3>1, <3>2, ZeroType DEF Restart
  <2>2. PointInv'  BY <1>21 DEF Restart
  <2>3. ServerInv'  BY <1>21 DEF Restart
  <2>4. CleanDrain' /\ ExitReleases'  BY <1>21 DEF Restart
  <2> QED  BY <2>1, <2>2, <2>3, <2>4
<1>22. CASE Over \/ UNCHANGED vars  BY <1>22 DEF Over, vars
<1>23. ASSUME NEW r \in Requests, RequestStep(r) PROVE Inv'
  <2> USE <1>23 DEF RequestStep, Accept, Serve, Drop, Cancel, Acquire, Admit, Refuse,
        Release, Answer, ProbeReady, ProbeHealth, PingAcquires, PingReturns, PingTimesOut,
        Becomes
  <2>1. TypeOK'  OBVIOUS
  <2>2. PointInv'  OBVIOUS
  <2>3. ServerInv'  OBVIOUS
  <2>4. CleanDrain' /\ ExitReleases'  OBVIOUS
  <2> QED  BY <2>1, <2>2, <2>3, <2>4
<1> QED
  BY <1>1, <1>2, <1>3, <1>4, <1>5, <1>6, <1>7, <1>8, <1>9, <1>10, <1>11, <1>12, <1>13,
     <1>14, <1>15, <1>16, <1>17, <1>18, <1>19, <1>20, <1>21, <1>22, <1>23
     DEF Next, MainStep, StartUp, Terminate

(* The process keeps its types. *)
THEOREM TypeCorrect == Spec => []TypeOK
<1>1. Inv => TypeOK
  BY DEF Inv
<1> QED
  BY <1>1, InvInit, InvNext, PTL DEF Spec

(* Requests only ever meet a migrated schema, whatever earlier processes     *)
(* left.                                                                     *)
THEOREM SchemaIsCurrent == Spec => []QueriesOnCurrentSchema
<1>1. Inv => QueriesOnCurrentSchema
  BY DEF Inv, PointInv, ServerInv, QueriesOnCurrentSchema, Active, InFlight, Unmigrated,
     StartingUp
<1> QED
  BY <1>1, InvInit, InvNext, PTL DEF Spec

(* A drain that completes leaves no request behind. *)
THEOREM DrainIsClean == Spec => []CleanDrain
<1>1. Inv => CleanDrain
  BY DEF Inv
<1> QED
  BY <1>1, InvInit, InvNext, PTL DEF Spec

(* Every exit gives the pool back, and success is reported only after a      *)
(* drain and a flush.                                                        *)
THEOREM ExitIsOrderly == Spec => []ExitReleases
<1>1. Inv => ExitReleases
  BY DEF Inv
<1> QED
  BY <1>1, InvInit, InvNext, PTL DEF Spec

(* The set of requests that hold a connection is finite. *)
LEMMA HoldingFinite == IsFiniteSet(Holding) /\ Cardinality(Holding) \in Nat
<1>1. Holding \subseteq Requests
  BY DEF Holding
<1> QED
  BY <1>1, RequestsAssumption, FS_Subset, FS_CardinalityType

(* A step that lets nobody in leaves no more connections in use. *)
LEMMA FewerHold ==
    ASSUME Holding' \subseteq Holding
    PROVE  Cardinality(Holding') <= Cardinality(Holding) /\ Cardinality(Holding') \in Nat
  BY HoldingFinite, FS_Subset, FS_CardinalityType

(* What was accepted stays accepted while the process keeps it. *)
LEMMA ConfStays ==
    ASSUME ConfInv, conf' = conf, given' = given,
           main' = "connect" \/ pool' # "none" => main = "connect" \/ pool # "none"
    PROVE  ConfInv'
  BY DEF ConfInv

(* The bound on connections survives a step that lets nobody in and keeps    *)
(* the pool, open or not.                                                    *)
LEMMA PoolStays ==
    ASSUME Inv, PoolInv, Holding' \subseteq Holding, conf' = conf,
           pool = "none" <=> pool' = "none"
    PROVE  PoolInv'
<1>1. PoolSize(conf) \in Int /\ PoolSize(conf') = PoolSize(conf)
  BY DEF Inv, TypeOK, Settings, PoolSize
<1>2. CASE pool = "none"
  BY <1>2 DEF PoolInv
<1>3. CASE pool # "none"
  <2>1. PoolSize(conf) >= 1 /\ Cardinality(Holding) <= PoolSize(conf)
    BY <1>3 DEF PoolInv
  <2>2. PoolSize(conf') >= 1 /\ Cardinality(Holding') <= PoolSize(conf')
    BY <1>1, <2>1, FewerHold, HoldingFinite
  <2> QED
    BY <1>3, <2>2 DEF PoolInv
<1> QED
  BY <1>2, <1>3

LEMMA ConfInit == Init => ConfInv /\ PoolInv
  BY DEF Init, ConfInv, PoolInv, Holding

LEMMA ConfNext == Inv /\ ConfInv /\ PoolInv /\ [Next]_vars => ConfInv' /\ PoolInv'
<1> SUFFICES ASSUME Inv, ConfInv, PoolInv, [Next]_vars PROVE ConfInv' /\ PoolInv'
  OBVIOUS
<1>1. CASE LoadConfig
  <2>1. pool = "none" /\ pool' = "none" /\ Holding' \subseteq Holding /\ main' # "check"
    BY <1>1 DEF LoadConfig, Inv, PointInv, Exit, Go, Holding
  <2>2. main' = "connect" => FileAccepted(given') /\ conf' = Load(given') /\ Validate(conf')
    BY <1>1 DEF LoadConfig, Exit, Go
  <2> QED
    BY <2>1, <2>2 DEF ConfInv, PoolInv
<1>2. CASE NewPool
  <2>1. pool = "none" /\ main = "connect" /\ Holding' \subseteq Holding /\ UNCHANGED process
    BY <1>2 DEF NewPool, Inv, PointInv, Exit, Go, Holding
  <2>2. conf' = conf /\ given' = given /\ Holding' = {}
    BY <2>1 DEF process, PoolInv
  <2>3. main' # "connect" /\ (pool' = "none" \/ (pool' = "open" /\ PoolSize(conf) >= 1))
    BY <1>2, <2>1 DEF NewPool, Exit, Go
  <2>4. Cardinality(Holding') = 0
    BY <2>2, FS_EmptySet
  <2>5. PoolSize(conf') = PoolSize(conf) /\ PoolSize(conf) \in Int
    BY <2>2 DEF PoolSize, Inv, TypeOK, Settings
  <2>6. ConfInv'
    BY <2>1, <2>2, ConfStays
  <2>7. PoolInv'
    BY <2>2, <2>3, <2>4, <2>5 DEF PoolInv
  <2> QED
    BY <2>6, <2>7
<1>3. CASE Restart
  <2>1. pool' = "none" /\ main' = "load" /\ Holding' = {}
    BY <1>3 DEF Restart, Inv, ServerInv, Active, InFlight, Holding
  <2> QED
    BY <2>1 DEF ConfInv, PoolInv
<1>4. ASSUME NEW r \in Requests, RequestStep(r) PROVE ConfInv' /\ PoolInv'
  <2>1. UNCHANGED <<main, process, pool>> /\ req' = [req EXCEPT ![r] = req'[r]]
    BY <1>4 DEF RequestStep, Accept, Serve, Drop, Cancel, Acquire, Admit, Refuse, Release,
       Answer, ProbeReady, ProbeHealth, PingAcquires, PingReturns, PingTimesOut, Becomes,
       Inv, TypeOK
  <2>2. conf' = conf /\ given' = given /\ main' = main /\ pool' = pool
    BY <2>1 DEF process
  <2>3. ConfInv'
    BY <2>2, ConfStays
  <2>4. CASE Holding' \subseteq Holding
    BY <2>2, <2>3, <2>4, PoolStays
  <2>5. CASE ~(Holding' \subseteq Holding)
    <3>1. Admit(r) \/ PingAcquires(r)
      BY <1>4, <2>5 DEF RequestStep, Accept, Serve, Drop, Cancel, Acquire, Refuse, Release,
         Answer, ProbeReady, ProbeHealth, PingReturns, PingTimesOut, Becomes, Holding,
         Inv, TypeOK
    <3>2. RoomInPool /\ pool = "open"
      <4>1. CASE Admit(r)  BY <4>1 DEF Admit
      <4>2. CASE PingAcquires(r)
        BY <4>2, <2>5 DEF PingAcquires, Becomes, Holding, Inv, TypeOK
      <4> QED  BY <3>1, <4>1, <4>2
    <3>3. Holding' = Holding \cup {r} /\ r \notin Holding
      BY <2>1, <2>5 DEF Holding, Inv, TypeOK
    <3>4. Cardinality(Holding') = Cardinality(Holding) + 1
      BY <3>3, HoldingFinite, FS_AddElement
    <3>5. PoolSize(conf) \in Int /\ PoolSize(conf') = PoolSize(conf)
      BY <2>2 DEF Inv, TypeOK, Settings, PoolSize
    <3>6. PoolSize(conf) >= 1 /\ Cardinality(Holding) < PoolSize(conf)
      BY <3>2 DEF PoolInv, RoomInPool
    <3>7. PoolSize(conf') >= 1 /\ Cardinality(Holding') <= PoolSize(conf')
      BY <3>4, <3>5, <3>6, HoldingFinite
    <3> QED
      BY <3>2, <3>7, <2>2, <2>3 DEF PoolInv
  <2> QED
    BY <2>3, <2>4, <2>5
<1>5. CASE CheckDatabase \/ Migrate \/ ApplyMigrations \/ Wire \/ Start \/ Terminate
           \/ ServerStep \/ PoolCloses \/ Signal \/ Over \/ UNCHANGED vars
  <2> USE DEF Go, Exit, CloseAndExit, MigrationFails
  <2>1. (UNCHANGED process /\ main' # "connect") \/ UNCHANGED <<process, main>>
    BY <1>5 DEF CheckDatabase, Migrate, ApplyMigrations, Wire, Start, Terminate,
       TakeServerErr, ExitOnError, TakeSignal, SetNotReady, Shutdown, ShutdownReturns,
       DrainTimesOut, Flush, ClosePool, MainReturns, ServerStep, ListenAndServe,
       ServeReturns, PoolCloses, Signal, Over, vars, process
  <2>2. pool' = pool \/ (pool # "none" /\ pool' # "none")
    BY <1>5 DEF CheckDatabase, Migrate, ApplyMigrations, Wire, Start, Terminate,
       TakeServerErr, ExitOnError, TakeSignal, SetNotReady, Shutdown, ShutdownReturns,
       DrainTimesOut, Flush, ClosePool, MainReturns, ServerStep, ListenAndServe,
       ServeReturns, PoolCloses, Signal, Over, vars, Inv, PointInv
  <2>3. Holding' \subseteq Holding
    BY <1>5 DEF CheckDatabase, Migrate, ApplyMigrations, Wire, Start, Terminate,
       TakeServerErr, ExitOnError, TakeSignal, SetNotReady, Shutdown, ShutdownReturns,
       DrainTimesOut, Flush, ClosePool, MainReturns, ServerStep, ListenAndServe,
       ServeReturns, PoolCloses, Signal, Over, vars, Holding, Inv, TypeOK
  <2>4. conf' = conf /\ given' = given
    BY <2>1 DEF process
  <2>5. ConfInv'
    BY <2>1, <2>2, <2>4, ConfStays
  <2>6. PoolInv'
    BY <2>2, <2>3, <2>4, PoolStays
  <2> QED
    BY <2>5, <2>6
<1> QED
  BY <1>1, <1>2, <1>3, <1>4, <1>5 DEF Next, MainStep, StartUp

(* A process whose pool is open runs on what it was given, has a drain       *)
(* period and a secret that is long enough, and lends no more connections    *)
(* than the file allows, for any requests and any configurations.            *)
THEOREM ConfigurationHolds == Spec => []RunsAsConfigured
<1>1. Inv /\ ConfInv /\ PoolInv => RunsAsConfigured
  <2> SUFFICES ASSUME Inv, ConfInv, PoolInv, pool \in {"open", "closing"}
               PROVE  /\ conf.timeout = IF given.env.timeout.kind = "number"
                                        THEN given.env.timeout.n
                                        ELSE given.file.settings.timeout
                      /\ conf.timeout >= 1 /\ conf.secret >= 32
                      /\ given.file.settings.maxOpen # 0 =>
                            Cardinality(Holding) <= given.file.settings.maxOpen
    BY DEF RunsAsConfigured
  <2>1. conf = Load(given) /\ Validate(conf) /\ Cardinality(Holding) <= PoolSize(conf)
    BY DEF ConfInv, PoolInv
  <2>v. Validate(conf)
    BY <2>1
  <2>2. given \in Source
    BY SourcesAssumption DEF Inv, TypeOK
  <2>3. given.file.state = "parsed"
    BY <2>1, <2>2, FileNeeded
  <2>4. /\ conf.timeout = setInt(given.file.settings.timeout, given.env.timeout)
        /\ conf.maxOpen = given.file.settings.maxOpen
    BY <2>1, <2>2, <2>3 DEF Load, FromFile, applyEnvOverrides, Source, Settings
  <2>5. conf.timeout >= 1 /\ conf.secret >= 32
    BY <2>v DEF Validate
  <2>6. given.file.settings.maxOpen # 0 => PoolSize(conf) = given.file.settings.maxOpen
    BY <2>4 DEF PoolSize
  <2>7. conf.timeout = IF given.env.timeout.kind = "number"
                       THEN given.env.timeout.n ELSE given.file.settings.timeout
    BY <2>4 DEF setInt
  <2> QED
    BY <2>1, <2>5, <2>6, <2>7
<1> QED
  BY <1>1, InvInit, InvNext, ConfInit, ConfNext, PTL DEF Spec

(* A process without a configuration file that parses gets nowhere: it opens *)
(* no pool and has no request in hand.                                       *)
NothingWithoutFile ==
    given.file.state # "parsed" =>
        main \in {"load", "exited"} /\ pool = "none" /\ \A r \in Requests : ~Active(r)

(* The environment cannot replace config.yaml, whatever it holds: without    *)
(* the file the process ends before it has opened the pool, although Load    *)
(* accepts a missing file at the default path (loader.go:23-97).             *)
THEOREM FileIsNeeded == Spec => []NothingWithoutFile
<1>1. Inv /\ ConfInv => NothingWithoutFile
  <2> SUFFICES ASSUME Inv, ConfInv, given.file.state # "parsed"
               PROVE  main \in {"load", "exited"} /\ pool = "none"
                      /\ \A r \in Requests : ~Active(r)
    BY DEF NothingWithoutFile
  <2>1. given \in Source
    BY SourcesAssumption DEF Inv, TypeOK
  <2>2. main # "connect" /\ pool = "none"
    <3>1. CASE main = "connect" \/ pool # "none"
      <4>1. Validate(Load(given))
        BY <3>1 DEF ConfInv
      <4> QED
        BY <2>1, <4>1, FileNeeded
    <3> QED  BY <3>1
  <2>3. main \in {"load", "exited"}
    BY <2>2 DEF Inv, PointInv
  <2> QED
    BY <2>2, <2>3 DEF Inv, ServerInv, StartingUp
<1> QED
  BY <1>1, InvInit, InvNext, ConfInit, ConfNext, PTL DEF Spec

(* A request changes by a step of its own, or is lost when the process ends. *)
LEMMA RequestMoves ==
    ASSUME Inv, [Next]_vars, NEW r \in Requests, req'[r] # req[r], req'[r] # "lost"
    PROVE  RequestStep(r)
<1> USE DEF Exit, Go
<1>1. CASE MainStep
  BY <1>1 DEF MainStep, StartUp, Terminate, LoadConfig, NewPool, CheckDatabase,
     CloseAndExit, Migrate, ApplyMigrations, MigrationFails, Wire, Start,
     TakeServerErr, ExitOnError, TakeSignal, SetNotReady, Shutdown, ShutdownReturns,
     DrainTimesOut, Flush, ClosePool, MainReturns
<1>2. CASE ServerStep \/ PoolCloses \/ Signal \/ Restart \/ Over \/ UNCHANGED vars
  BY <1>2 DEF ServerStep, ListenAndServe, ServeReturns, PoolCloses, Signal, Restart,
     Over, vars
<1>3. ASSUME NEW q \in Requests, RequestStep(q) PROVE q = r
  BY <1>3 DEF Inv, TypeOK, RequestStep, Accept, Serve, Drop, Cancel, Acquire, Admit, Refuse,
     Release, Answer, ProbeReady, ProbeHealth, PingAcquires, PingReturns, PingTimesOut,
     Becomes
<1> QED
  BY <1>1, <1>2, <1>3 DEF Next

(* A request finds the pool closed only if it outlived the drain period, or  *)
(* if the server itself has failed.                                          *)
THEOREM PoolClosesLate == Spec => RefusedOnlyAfterTimeout
<1>1. Inv /\ [Next]_vars =>
        [\A r \in Requests : req'[r] = "refused" /\ req[r] # "refused" =>
            drain = "timeout" \/ main = "closeOnError"]_vars
  <2> SUFFICES ASSUME Inv, [Next]_vars, NEW r \in Requests,
                      req'[r] = "refused", req[r] # "refused"
               PROVE  drain = "timeout" \/ main = "closeOnError"
    OBVIOUS
  <2>1. RequestStep(r)
    BY RequestMoves
  <2>2. Refuse(r)
    BY <2>1 DEF Inv, TypeOK, RequestStep, Accept, Serve, Drop, Cancel, Acquire, Admit,
       Release, Answer, ProbeReady, ProbeHealth, PingAcquires, PingReturns, PingTimesOut,
       Becomes
  <2> QED
    BY <2>2 DEF Inv, TypeOK, PointInv, CleanDrain, Refuse, Alive, Active, InFlight, AfterDrain
<1> QED
  BY <1>1, InvInit, InvNext, PTL DEF Spec, RefusedOnlyAfterTimeout

(* A readiness probe is answered with 200 only on a current schema, before   *)
(* the drain, and, unless the server has failed, with an open pool.          *)
THEOREM ReadyIsTruthful == Spec => ReadyIsTrue
<1>1. Inv /\ [Next]_vars =>
        [\A r \in Requests : req'[r] = "ready" /\ req[r] # "ready" =>
            /\ schema = "current" /\ ~inShutdown
            /\ pool = "open" \/ main = "closeOnError"]_vars
  <2> SUFFICES ASSUME Inv, [Next]_vars, NEW r \in Requests,
                      req'[r] = "ready", req[r] # "ready"
               PROVE  /\ schema = "current" /\ ~inShutdown
                      /\ pool = "open" \/ main = "closeOnError"
    OBVIOUS
  <2>1. RequestStep(r)
    BY RequestMoves
  <2>2. ready /\ req[r] = "serving" /\ main # "exited"
    BY <2>1 DEF Inv, TypeOK, RequestStep, Accept, Serve, Drop, Cancel, Acquire, Admit,
       Refuse, Release, Answer, ProbeReady, ProbeHealth, PingAcquires, PingReturns,
       PingTimesOut, Becomes, Alive
  <2> QED
    BY <2>2 DEF Inv, TypeOK, PointInv, ServerInv, Active, InFlight, AfterShutdown, StartingUp,
       Unmigrated
<1> QED
  BY <1>1, InvInit, InvNext, PTL DEF Spec, ReadyIsTrue
===============================================================================
