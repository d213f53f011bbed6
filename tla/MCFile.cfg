CONSTANTS
    o1 = o1
    o2 = o2
    old = old
    wrapped = wrapped
    native = native
    Requests = {o1, o2}
    PluginIds = {wrapped, native}
    MaxPlugins = 0
    LimitChoices <- MCLimits
    Attempts <- MCAttempts
    Delayed = {}
    Irreversible = {}
    WithDeadline = {o1}
    Native = {native}
    Size = 2
    Old = old
SPECIFICATION Spec
INVARIANTS
    TypeOK
    OutputIsWhole
    NoCallAfterClose
    NothingLeftBehind
    SuccessIsCommitted
PROPERTIES
    ReplaceContract
CHECK_DEADLOCK FALSE
