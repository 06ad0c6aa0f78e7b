CONSTANTS
    Client = client
    Backend = backend
    Api = api
    Channels = {ch1}
    MaxOps = 2
SPECIFICATION Spec
PROPERTY SettingsUpdateCompletes
CHECK_DEADLOCK FALSE
