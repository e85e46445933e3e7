\* Three browser requests, one of them without a token.
CONSTANTS
    Conns = {c1, c2, c3}
    WithToken = {c1, c2}
SPECIFICATION Spec
INVARIANTS TypeOK TimeoutIsLast
PROPERTIES ReceiverAnswered CallbackStopsServer
