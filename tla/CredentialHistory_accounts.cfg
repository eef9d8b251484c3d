\* Two users, two passwords, one worker, kills at any moment.
CONSTANTS
    u1 = u1
    u2 = u2
    p1 = p1
    p2 = p2
    w1 = w1
    Users <- MCUsers
    Passwords <- MCPasswords
    Workers <- MCOneWorker
    Udp = Udp
    UdpRequests <- MCUdpRequests
    TcpRequests <- MCTcpRequests
    NoFile = NoFile
    EmptyFile = EmptyFile
    Crashes = TRUE
SPECIFICATION HFairSpec
INVARIANTS
    TypeOK
    LoginNeedsAccount
    CredentialsWereRight
PROPERTIES
    PasswordRemovedByHolder
    ImplementsAccounts
