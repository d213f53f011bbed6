CONSTANTS
    o1 = o1
    o2 = o2
    wrapped = wrapped
    slow = slow
    native = native
    Requests = {o1}
    PluginIds = {wrapped, slow, native}
    MaxPlugins = 1
    LimitChoices <- MCOneLimit
    Attempts <- MCAttempts
    Delayed = {slow}
    Irreversible = {native}
    WithDeadline = {}
    Native = {native}
    Chunks = 1
    TasksPerChunk = 1
    WithSink = TRUE
SPECIFICATION LiveSpec
PROPERTIES
    ClosedSinkFails
