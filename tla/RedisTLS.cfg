CONSTANTS
    Templates <- MCTemplates
    MaxFaults <- MCMaxFaults
    MaxEnvEvents <- MCMaxEnvEvents
SPECIFICATION Spec
INVARIANTS TypeOK QuiescentTLSBacked
PROPERTIES EventuallyQuiescent 
CHECK_DEADLOCK FALSE
