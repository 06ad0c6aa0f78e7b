CONSTANTS
    Reader = reader
    Callers = {c1, c2}
    Packets = {p1}
    MaxOps = 2
    MaxReads = 1
SPECIFICATION Spec
INVARIANT DisconnectedOnce
PROPERTY CloseCompletes
