CONSTANTS
    ExternalSignals = {"TERM"}
    Writers = {"server", "radio", "timer"}
    MaxLines = 0
    MAX_AUTH_ATTEMPTS = 1
    BufLen = 3
    VersionLen = 2
    NoiseCap = 0
    AnyValue = {"P"}
SPECIFICATION Spec
INVARIANT ReadHasPort
CHECK_DEADLOCK FALSE
