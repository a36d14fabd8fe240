CONSTANTS
    Fds = {f1}
    Handlers = {h1}
    VNCHandlers = {v1}
    Nobody = Nobody
    MaxConns = 2
    MaxVNC = 2
    MaxCommands = 2
    MaxPending = 1
SPECIFICATION Spec
CONSTRAINT NoRaceYet
INVARIANTS
    ParserAlive
    AnswersReachAsker
    NobodyWaitsForGonePeer
