CONSTANTS
    Reader = reader
    Swappers = {sw1, sw2}
    Closer = closer
    Handlers = {h0, h1, h2}
    First = h0
    None = none
    PlayHandlers = {h1}
    PeerStates = {FALSE}
    MaxReads = 2
SPECIFICATION Spec
INVARIANT TypeOK
INVARIANT OneActiveHandler
