CONSTANTS
    o1 = o1
    o2 = o2
    wrapped = wrapped
    native = native
    Requests = {o1, o2}
    PluginIds = {wrapped, native}
    MaxPlugins = 1
    LimitChoices <- MCLimits
    Attempts <- MCAttempts
    Delayed = {}
    Irreversible = {native}
    WithDeadline = {o1}
    Native = {native}
    Chunks = 1
    TasksPerChunk = 1
    WithSink = FALSE
SPECIFICATION EndpointSpec
INVARIANTS
    CapacityAccounted
    FinishMeansDone
    FailureReachesCaller
PROPERTIES
    FinalAnsweredOnce
    EndpointSettles
