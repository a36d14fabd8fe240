CONSTANTS
    Fds = {f1, f2}
    Requests = {r1, r2}
    Receiver = Receiver
    Nobody = Nobody
    NoCommand = NoCommand
    BrowserPool = 2
    VNCPool = 1
    DownRoom = 1
    UpRoom = 2
    Deaf = {1}
    MaxBrowsers = 2
    MaxPackets = 2
    MaxLeaves = 2
    MaxPieces = 2
    MaxLinks = 1
SPECIFICATION Spec
CONSTRAINTS NoRaceYet BothLeave
SYMMETRY Symmetry
INVARIANTS
    TypeOK
    StopsOnlyInCircle
    AnswersEnd
PROPERTY
    ImplementsTunnel
CHECK_DEADLOCK FALSE
