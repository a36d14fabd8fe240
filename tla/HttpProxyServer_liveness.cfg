CONSTANTS
    Fds = {f1}
    Requests = {r1, r2}
    Nobody = Nobody
    NoFd = NoFd
    MaxConnects = 2
    MaxBrowsers = 1
    MaxPieces = 0
SPECIFICATION FairSpec
PROPERTIES
    RequestsEnd
    Recovers
