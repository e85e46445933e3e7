\* Two logins, two callbacks, and time for a state value to expire.
CONSTANTS
    States = {s1, s2}
    StateTTL = 1
    MaxClock = 2
    Callbacks = {c1, c2}
    CliLogins = {s1}
SPECIFICATION LoginSpec
INVARIANTS LoginTypeOK RedeemedOnceInTime OutstandingIsRedeemable
    OneSessionPerLogin AnsweredOnce RowsAreVouchedFor StatusTellsEffect
PROPERTY CallbacksAnswered
