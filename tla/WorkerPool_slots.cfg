SPECIFICATION Spec

CONSTANTS
    POOL_SIZE = 2
    EXCEPTION_RETRY_MAX_TRIALS = 2
    Connections = {c1, c2, c3}
    NoFd = NoFd

INVARIANTS
    TypeOK
    LockOrdersDoNotMeet
    GivenToOneWorker
    BusyWhileNeeded

PROPERTIES
    ImplementsSlots
