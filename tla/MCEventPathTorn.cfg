SPECIFICATION FairSpec
CONSTANTS
    c1 = c1
    c2 = c2
    Clients = {c1, c2}
    NoClient = NoClient
    SCP_CHANNEL_BITMAP_SIZE = 2
    LenSpace = 5000
    Behind = 0
    BufSize = 5
    TextSpace = 4
    ShortText = 2
    LongText = 5
    ClientLines <- MCCommands
    Commands <- MCCommands
    AsyncReports <- MCAsyncReports
    Answers <- MCAnswers
    MaxReports = 2
    MaxCommands = 1
INVARIANT StreamIntact
CHECK_DEADLOCK FALSE
