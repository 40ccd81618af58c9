CONSTANTS
    ExternalSignals = {"HUP", "TERM"}
    Writers = {"server", "radio", "timer"}
    MaxLines = 1
    MAX_AUTH_ATTEMPTS = 2
    BufLen = 5
    VersionLen = 2
    NoiseCap = 1
    AnyValue = {"P"}
SPECIFICATION FairSpec
INVARIANTS TypeOK NoCircularWait ServedOnlyWhenUp PrintsToOpenFile OpenWhenAuthenticated
PROPERTIES StartupResolves ShutdownCompletes
CHECK_DEADLOCK FALSE
