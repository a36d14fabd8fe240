CONSTANTS
    Fds = {f1}
    Requests = {r1, r2}
    Nobody = Nobody
    NoFd = NoFd
    MaxConnects = 2
    MaxBrowsers = 2
    MaxPieces = 1
SPECIFICATION Spec
SYMMETRY Symmetry
INVARIANTS
    TypeOK
    SocketKept
    AnswersOwnBrowser
