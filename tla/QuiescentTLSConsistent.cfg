CONSTANTS
    Templates <- MCTemplates
    MaxFaults <- MCMaxFaults
    MaxEnvEvents <- MCMaxEnvEvents
SPECIFICATION Spec
INVARIANT QuiescentTLSConsistent
CHECK_DEADLOCK FALSE
