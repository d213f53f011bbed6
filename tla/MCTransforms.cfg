CONSTANT Cases <- MCCases
SPECIFICATION Spec
INVARIANTS
    FragmentationInvisible
    ReleasedIsAuthentic
    RoundTrip
    SecretsErased
PROPERTY NothingAfterDestroy
CHECK_DEADLOCK FALSE
