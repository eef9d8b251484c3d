CONSTANTS
    o = o
    b1 = b1
    b2 = b2
    n = n
    pw = pw
    bad = bad
    w1 = w1
    w2 = w2
    Users <- MCUsers
    Passwords <- MCPasswords
    Workers <- MCWorkers
    Udp = Udp
    TcpRequests <- MCBidsAndClose
    UdpRequests <- MCNoRequests
    NoFile = NoFile
    EmptyFile = EmptyFile
    Crashes = FALSE
    NumAuctions = 1
    Values <- MCValues
    StartFile <- MCStartFile
    InitialPass <- MCInitialPass
    InitialLogin <- MCInitialLogin
    TopBids = 1
    InitialTime = 0
    MaxTime = 0
SPECIFICATION Spec
PROPERTY NoBidAfterEnd
