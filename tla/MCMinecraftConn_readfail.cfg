CONSTANTS
    Reader = reader
    Callers = {c1}
    Packets = {p1}
    MaxOps = 1
    MaxReads = 1
SPECIFICATION Spec
PROPERTY ReadFailureCloses
