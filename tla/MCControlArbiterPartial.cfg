CONSTANTS
    Clients = {c1}
    NoClient = NoClient
    MaxLines = 1
    PartialLines = TRUE
SPECIFICATION FairSpec
PROPERTY ProcessDataReturns
