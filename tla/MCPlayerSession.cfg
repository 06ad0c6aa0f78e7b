CONSTANTS
    a = a
    b = b
    c = c
    None = none
    Servers <- MCServers
    Registered <- MCRegistered
    ForcedHostChoices <- MCForcedHostChoices
    AttemptOrders <- MCAttemptOrders
    MaxDrops = 2
SPECIFICATION Spec
INVARIANT TypeOK
INVARIANT NextServerToTryMatchesReference
PROPERTY FailoverEnds
PROPERTY TeardownClosesBackends
