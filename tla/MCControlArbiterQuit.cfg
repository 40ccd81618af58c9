CONSTANTS
    Clients = {c1, c2}
    NoClient = NoClient
    MaxLines = 2
    PartialLines = FALSE
SPECIFICATION Spec
INVARIANT DroppedHoldsNothing
