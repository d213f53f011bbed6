CONSTANTS
    o1 = o1
    o2 = o2
    wrapped = wrapped
    slow = slow
    native = native
    Requests = {o1}
    PluginIds = {wrapped, slow, native}
    MaxPlugins = 2
    LimitChoices <- MCLimits
    Attempts <- MCAttempts
    Delayed = {slow}
    Irreversible = {native}
    WithDeadline = {o1}
    Native = {native}
    Chunks = 2
    TasksPerChunk = 2
    WithSink = TRUE
SPECIFICATION LiveSpec
INVARIANTS
    TypeOK
    OnePromisePerStage
    DivertedNeverSucceeds
PROPERTIES
    StageNoOverlap
    DeadlineAnswers
