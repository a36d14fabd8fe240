CONSTANTS
    Loggers = {l1, l2}
    Nobody = Nobody
    MemSizes = {0, 1, 2, 3}
    MaxFileLength = 2
    FirstLengths <- AnyLengths
    MaxMessages = 4
SPECIFICATION FairSpec
INVARIANTS
    TypeOK
    OnlyReopeningLoses
    WrittenOnceInOrder
PROPERTY
    AllWritten
