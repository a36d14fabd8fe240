CONSTANTS
    Fds = {f1}
    Handlers = {h1}
    VNCHandlers = {v1}
    Nobody = Nobody
    MaxConns = 2
    MaxVNC = 1
    MaxCommands = 1
    MaxPending = 1
SPECIFICATION QuietSpec
CHECK_DEADLOCK FALSE
PROPERTIES
    PeerForgotten
    BrowserLeaves
