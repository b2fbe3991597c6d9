CONSTANTS
    MaxMutations <- MCMaxMutations
SPECIFICATION Spec
INVARIANT ReturnsLastFailure
CHECK_DEADLOCK FALSE
