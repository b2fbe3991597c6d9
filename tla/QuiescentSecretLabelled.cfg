CONSTANTS
    MaxFaults <- MCMaxFaults
    MaxEnvEvents <- MCMaxEnvEvents
SPECIFICATION Spec
INVARIANT QuiescentSecretLabelled
CHECK_DEADLOCK FALSE
