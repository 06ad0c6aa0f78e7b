CONSTANTS
    Servers = {s1, s2}
    None = none
    Protocols = {5, 578, 735}
    Dims <- MCDims
    KnownChannels = {ch1}
    MaxJoins = 2
    MaxMsgs = 1
    MaxChats = 1
    MaxDestFailures = 1
SPECIFICATION Spec
INVARIANT CeremonyWellFormed
