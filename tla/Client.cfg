\* Three handlers, a pool that can run dry, packets that split headers and
\* parameters anywhere and overfill mBuffer; the connection is replaced twice.
CONSTANTS
    Lens <- MCLens
    HeaderLen = 2
    BufferLen = 5
    Handlers = {h1, h2, h3}
    PoolSize = 2
    HandleSize = 2
    MaxPacket = 5
    MaxConns = 3
    None = None
SPECIFICATION Spec
INVARIANTS
    TypeOK
    CommandsInOrder
    NothingStranded
    PoolAccounted
