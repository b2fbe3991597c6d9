CONSTANTS
    MaxChains <- MCMaxChains
    MaxWrites <- MCMaxWrites
SPECIFICATION Spec
INVARIANTS
    DeepCopyIsDeep
    
CHECK_DEADLOCK FALSE
