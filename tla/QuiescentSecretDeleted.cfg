CONSTANTS
    MaxFaults <- MCMaxFaults
    MaxEnvEvents <- MCMaxEnvEvents
SPECIFICATION Spec
INVARIANT QuiescentSecretDeleted
CHECK_DEADLOCK FALSE
