CONSTANTS
    Servers = {s1, s2}
    None = none
    Protocols = {735}
    Dims <- MCDims
    KnownChannels = {ch1}
    MaxJoins = 2
    MaxMsgs = 1
    MaxChats = 0
    MaxDestFailures = 0
SPECIFICATION Spec
INVARIANT QueueDrainedByJoin
