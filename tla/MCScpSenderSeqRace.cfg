CONSTANTS
    Callers = {"server", "radio"}
    MaxFrames = 2
    SeqSpace = 2
    MaxRetries = 2
    MaxLinkFailures = 1
    BusyDelay = 1
    BusyWrap = 4
    WireCap = 1
    ReplyCap = 1
SPECIFICATION Spec
INVARIANT OkMeansReceived
CHECK_DEADLOCK FALSE
