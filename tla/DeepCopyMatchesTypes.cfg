CONSTANTS
    MaxChains <- MCMaxChains
    MaxWrites <- MCMaxWrites
SPECIFICATION Spec
INVARIANT
    DeepCopyMatchesTypes
CHECK_DEADLOCK FALSE
