SPECIFICATION FairSpec

CONSTANTS
    Clients = {c1}
    MaxCommands = 2
    AssetParts = 2
    None = None

CHECK_DEADLOCK FALSE

INVARIANTS
    AnswersAreTrue
    OnlyCompleteRequests
    DownloadIsWhole

PROPERTIES
    OvertakenOnlyIfGivenUp
    BothEndsEnd
