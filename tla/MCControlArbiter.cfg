CONSTANTS
    Clients = {c1, c2, c3}
    NoClient = NoClient
    MaxLines = 2
    PartialLines = TRUE
SPECIFICATION Spec
SYMMETRY ClientSymmetry
INVARIANTS TypeOK QueueOK HoldersAttached ClientViewAccurate ExclusiveWrites DroppedReleased
PROPERTY ImplementsLock
