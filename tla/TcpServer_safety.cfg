\* Two descriptors that are reused, two handlers, a handle queue whose limit is
\* reached, one watcher so that a second connection finds none.
CONSTANTS
    Fds = {f1, f2}
    Msgs = {m1, m2, m3}
    Handlers = {h1, h2}
    HandleSize = 1
    MaxWatchers = 1
    NoMsg = NoMsg
    NoFd = NoFd
    MaxConns = 2
    MaxSeq = 2
SPECIFICATION Spec
CONSTRAINT NoRaceYet
SYMMETRY Symmetry
INVARIANTS
    TypeOK
    MessagesKeepConnection
    ClosedOnce
    PacketsNumberedInOrder
    MessagesConserved
    WatchersConserved
