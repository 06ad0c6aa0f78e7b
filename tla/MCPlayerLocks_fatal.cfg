CONSTANTS
    Client = client
    Backend = backend
    Api = api
    Channels = {ch1}
    MaxOps = 2
SPECIFICATION Spec
INVARIANT NoFatalUnlock
