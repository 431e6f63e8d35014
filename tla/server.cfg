\* Two requests and a pool of one connection, under fairness; liveness is checked without symmetry.
SPECIFICATION FairSpec
CONSTANTS
    r1 = r1
    r2 = r2
    Reqs = {r1, r2}
    Paths = {"health", "write", "google", "register"}
    PoolSize = 1
    MaxAttempts = 2
\* The process may end.
CHECK_DEADLOCK FALSE
INVARIANTS
    TypeOK
    ConnectionsOwned
    SuccessIsTrue
    LogMatchesAnswer
    SmtpFailureDeliversNothing
PROPERTIES
    ImplementsMailer
    ConnectionsReturn
    EveryRequestEnds
    StopsOnSignal
