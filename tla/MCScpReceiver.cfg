CONSTANTS
    ByteSpace = 4
    PKT_SENTINEL = 3
    ASCII_ESC = 2
    SENTINEL_ESC = 1
    StageSize = 7
    m_size = 7
    SeqSpace = 3
    Payloads <- MCPayloads
    MaxSends = 4
    MaxDamage = 1
    LineCap = 11
SPECIFICATION Spec
INVARIANTS TypeOK StageIsFifo RoomToRead NoFrameSkipped AlteredOctetRefused IntactIsAccepted InOrderOnce AckedIsDispatched
CHECK_DEADLOCK FALSE
