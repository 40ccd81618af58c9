CONSTANTS
    Callers = {"server"}
    MaxFrames = 3
    SeqSpace = 2
    MaxRetries = 1
    MaxLinkFailures = 1
    BusyDelay = 1
    BusyWrap = 4
    WireCap = 1
    ReplyCap = 1
SPECIFICATION FairSpec
PROPERTY NobodyLeftWaiting
CHECK_DEADLOCK FALSE
