CONSTANTS
    o1 = o1
    o2 = o2
    retried = retried
    delayed = delayed
    Requests = {o1, o2}
    PluginIds = {retried, delayed}
    MaxPlugins = 2
    LimitChoices <- MCLimits
    Attempts <- MCAttempts
    Delayed = {delayed}
    Irreversible = {delayed}
    WithDeadline = {o1}
SPECIFICATION LiveSpec
INVARIANTS
    TypeOK
    CapacityBound
    WorkHoldsCapacity
    CapacityAccounted
    NoOverlap
    AuditIsExecution
    SuccessIsClean
PROPERTIES
    CapacityContract
    DeadlineAnswers
    CapacityReturns
