SPECIFICATION FairSpec
CONSTANTS
    MaxClients = 4
    MaxTokens = 2
    MaxDrops = 2
    NoToken = NoToken
    NoClient = NoClient
INVARIANTS
    NoStraySocket
    LastOneCloses
    SharedUnlessStale
PROPERTIES
    Connects
CHECK_DEADLOCK FALSE
