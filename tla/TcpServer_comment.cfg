\* One descriptor: the read of m->fd after the message was recycled cannot
\* matter, so the violation comes from a reply that enters the close window.
CONSTANTS
    Fds = {f1}
    Msgs = {m1, m2, m3}
    Handlers = {h1}
    HandleSize = 0
    MaxWatchers = 1
    NoMsg = NoMsg
    NoFd = NoFd
    MaxConns = 2
    MaxSeq = 1
SPECIFICATION Spec
INVARIANT PacketKeepsClient
SYMMETRY Symmetry
