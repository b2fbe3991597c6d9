CONSTANTS
    MaxEnvWrites <- MCMaxEnvWrites
    MaxStamps <- MCMaxStamps
    MaxFaults <- MCMaxFaults
SPECIFICATION Spec
INVARIANTS
    TypeOK
    NoLostUpdate
