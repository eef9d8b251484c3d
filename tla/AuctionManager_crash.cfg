CONSTANTS
    o = o
    b1 = b1
    b2 = b2
    n = n
    pw = pw
    bad = bad
    w1 = w1
    w2 = w2
    Users <- MCUsers
    Passwords <- MCPasswords
    Workers <- MCOneWorker
    Udp = Udp
    TcpRequests <- MCEveryTcp
    UdpRequests <- MCCrashUdp
    NoFile = NoFile
    EmptyFile = EmptyFile
    Crashes = TRUE
    NumAuctions = 1
    Values <- MCValues
    StartFile <- MCStartFile
    InitialPass <- MCInitialPass
    InitialLogin <- MCInitialLogin
    TopBids = 1
    InitialTime = 0
    MaxTime = 1
SPECIFICATION FairSpec
INVARIANTS
    TypeOK
    RecordIsCurrent
PROPERTIES
    ImplementsAuctions
    OnlyOwnerEndsEarly
    RequestsAnswered
