SPECIFICATION FairSpec
CONSTANTS
    e1 = e1
    e2 = e2
    Endpoint = {e1, e2}
    LocalPort = {1, 2}
    MaxLinks = 2
INVARIANTS
    TypeOK
    OneLinkPerEndpoint
    OwnLocalPort
PROPERTIES
    DeletesOwnEntry
    CloseHangs
    IdleCloses
CHECK_DEADLOCK FALSE
