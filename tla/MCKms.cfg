CONSTANTS
    c1 = c1
    c2 = c2
    Calls = {c1, c2}
    DataSizes = {0, 1, 2, 3}
    KeySizes = {0, 1, 2, 3}
    Limits <- MCLimits
    KeyIdBytes = 1
    Timed = {c1}
    WithSignal = {c1, c2}
    Supported <- MCSupported
    AllowLegacy = TRUE
SPECIFICATION Spec
INVARIANTS
    AnsweredIsClean
    EnvelopeReadable
PROPERTY CallAnswered
CHECK_DEADLOCK FALSE
