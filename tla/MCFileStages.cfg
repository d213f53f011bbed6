CONSTANTS
    o1 = o1
    o2 = o2
    old = old
    wrapped = wrapped
    native = native
    Requests = {o1}
    PluginIds = {wrapped, native}
    MaxPlugins = 2
    LimitChoices <- MCLimits
    Attempts <- MCAttempts
    Delayed = {}
    Irreversible = {}
    WithDeadline = {o1}
    Native = {native}
    Size = 2
    Old = old
SPECIFICATION LiveSpec
INVARIANTS
    CapacityAccounted
PROPERTIES
    DeadlineAnswers
CHECK_DEADLOCK FALSE
