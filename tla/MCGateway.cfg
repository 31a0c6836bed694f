SPECIFICATION GatewaySpec
CONSTANTS
    Conns = {c1, c2, c3}
    Tls = TRUE
INVARIANTS
    TypeOK
    AcceptedIsWatched
    StoppedMeansDrained
    FinishedOrLeft
    ExchangeIsServed
    NoLineLost
PROPERTIES
    ShutdownCompletes
CHECK_DEADLOCK FALSE
