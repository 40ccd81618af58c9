CONSTANTS
    Callers = {"server", "radio"}
    MaxFrames = 3
    SeqSpace = 2
    MaxRetries = 2
    MaxLinkFailures = 0
    BusyDelay = 1
    BusyWrap = 2
    WireCap = 1
    ReplyCap = 1
SPECIFICATION FairSpec
INVARIANTS TypeOK OkUnlessRaced StopAndWait
PROPERTIES ImplementsService EventuallyResolved
CHECK_DEADLOCK FALSE
