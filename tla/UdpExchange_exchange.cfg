SPECIFICATION FairSpec

CONSTANTS
    Clients = {c1}
    Users = {u1, u2}
    Passwords = {p1, p2}
    UDP_RESEND_TRIES = 2
    MaxCommands = 2
    None = None

CHECK_DEADLOCK FALSE

INVARIANT SessionWasGranted

PROPERTIES
    RetriesAreHarmless
    CommandsEnd
