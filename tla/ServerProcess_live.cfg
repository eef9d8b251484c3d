SPECIFICATION FairSpec

CONSTANTS
    POOL_SIZE = 1
    EXCEPTION_RETRY_MAX_TRIALS = 2
    Connections = {c1, c2}
    NoFd = NoFd
    Datagrams = {d1}

INVARIANT StateOutlivesThreads

PROPERTIES
    ImplementsPool
    ConnectionsSettled
    ServingIsFinished
    DatagramsHandled
    StopsAltogether
