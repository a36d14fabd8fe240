\* No symmetry (liveness).  QuietSpec stops where the only step left is a race,
\* hence no deadlock check here: TcpServer_safety checks it under Spec.
CONSTANTS
    Fds = {f1, f2}
    Msgs = {m1, m2}
    Handlers = {h1}
    HandleSize = 1
    MaxWatchers = 1
    NoMsg = NoMsg
    NoFd = NoFd
    MaxConns = 2
    MaxSeq = 1
SPECIFICATION QuietSpec
CHECK_DEADLOCK FALSE
INVARIANT InductiveInv
PROPERTIES
    DisconnectedIsClosed
    ImplementsService
