CONSTANTS
    MaxEnvWrites <- MCMaxEnvWrites
    MaxStamps <- MCMaxStamps
    MaxFaults <- MCMaxFaults
SPECIFICATION Spec
PROPERTY TriggerRollsOut
