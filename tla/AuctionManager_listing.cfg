CONSTANTS
    o = o
    b1 = b1
    b2 = b2
    n = n
    pw = pw
    bad = bad
    w1 = w1
    w2 = w2
    Users <- MCUsers
    Passwords <- MCPasswords
    Workers <- MCWorkers
    Udp = Udp
    TcpRequests <- MCEqualBids
    UdpRequests <- MCMyBids
    NoFile = NoFile
    EmptyFile = EmptyFile
    Crashes = FALSE
    NumAuctions = 2
    Values <- MCValues
    StartFile <- MCStartFile
    InitialPass <- MCInitialPass
    InitialLogin <- MCInitialLogin
    TopBids = 1
    InitialTime = 0
    MaxTime = 0
SPECIFICATION Spec
SYMMETRY MCSymmetry
INVARIANT ListingIsCurrent
