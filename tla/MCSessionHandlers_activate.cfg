CONSTANTS
    Reader = reader
    Swappers = {sw1}
    Closer = closer
    Handlers = {h0, h1, h2}
    First = h0
    None = none
    PlayHandlers = {h1}
    PeerStates = {TRUE}
    MaxReads = 2
SPECIFICATION Spec
PROPERTY HandlerSwapCompletes
CHECK_DEADLOCK FALSE
