SPECIFICATION Spec

CONSTANTS
    Clients = {c1}
    Auctions = {a1, a2}
    Lists = {"LST"}
    UDP_RESEND_TRIES = 2
    MaxCommands = 2
    MaxVersion = 1
    None = None

CHECK_DEADLOCK FALSE

INVARIANTS
    MixedOnlyWithLeftovers
    ReadingsAreFresh
