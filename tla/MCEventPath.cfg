SPECIFICATION FairSpec
CONSTANTS
    c1 = c1
    c2 = c2
    Clients = {c1, c2}
    NoClient = NoClient
    SCP_CHANNEL_BITMAP_SIZE = 2
    LenSpace = 5000
    Behind = 0
    BufSize = 3
    TextSpace = 3
    ShortText = 2
    LongText = 4
    ClientLines <- MCClientLines
    Commands <- MCCommands
    AsyncReports <- MCAsyncReports
    Answers <- MCAnswers
    MaxReports = 2
    MaxCommands = 1
INVARIANTS TypeOK IntactUnlessRaced AnnouncedIsCached EventsAsReported TokensMakeTheLine SetIsReported
PROPERTY EventsGoOut
CHECK_DEADLOCK FALSE
