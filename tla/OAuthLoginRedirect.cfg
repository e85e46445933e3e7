\* One login, begun by the CLI.
CONSTANTS
    States = {s1}
    StateTTL = 1
    MaxClock = 0
    Callbacks = {c1}
    CliLogins = {s1}
SPECIFICATION LoginSpec
INVARIANT CliIsRedirected
