CONSTANTS
    MAX_BUFFER_LEN = 9
    HeaderLengths = {4, 7, 10}
    ContentLengths <- Bodies
    MaxMore = 3
    MaxPacket = 6
    DWONLOAD_TIMEOUT = 2
    ReadSize = 3
    MaxPieces = 2
    MaxTime = 5
SPECIFICATION RequestSpec
INVARIANTS
    RequestTypeOK
    StartedWithLastByte
    BodySent
    GivenUpWhenStalled
