CONSTANTS
    Clients = {c1, c2}
    NoClient = NoClient
    MaxLines = 2
    PartialLines = TRUE
SPECIFICATION FairSpec
PROPERTIES WaitersServed ShutdownCompletes
