\* Two requests, and a process that is started twice, each time with any of
\* the configurations.
CONSTANTS
    Requests = {q1, q2}
    Sources <- MCSources
    MaxRuns = 2
SPECIFICATION Spec
INVARIANTS TypeOK QueriesOnCurrentSchema RunsAsConfigured CleanDrain ExitReleases
PROPERTIES
    RefusedOnlyAfterTimeout ReadyIsTrue
    SignalEndsProcess ServerErrorEndsProcess HealthAnswered
