CONSTANTS
    Fds = {f1}
    Handlers = {h1, h2}
    VNCHandlers = {v1, v2}
    Nobody = Nobody
    MaxConns = 2
    MaxVNC = 1
    MaxCommands = 2
    MaxPending = 2
SPECIFICATION Spec
CONSTRAINT NoRaceYet
SYMMETRY Symmetry
INVARIANTS
    TypeOK
    ClientOutlivesUsers
    CommandsAnswerable
    ConnectionsFollowEachOther
    NoCircularWait
