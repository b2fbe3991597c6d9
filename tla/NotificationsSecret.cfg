CONSTANTS
    MaxFaults <- MCMaxFaults
    MaxEnvEvents <- MCMaxEnvEvents
SPECIFICATION Spec
INVARIANTS
    TypeOK
    QuiescentSecretPresent
PROPERTIES
    EventuallyQuiescent
    AtomicSpec
CHECK_DEADLOCK FALSE
