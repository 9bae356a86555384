SPECIFICATION SetupSpec
CONSTANTS
    first = first
    second = second
    third = third
    MaxI64 = 1000000000
    MaxU64 = 2000000001
    Runs <- MCRuns
    Config <- MCConfig
    Mints <- MCMints
    ValidFor = 2
    MinBalance = 3
    Rent = 2
    Fee = 1
    MaxBalance = 4
INVARIANTS
    ReportsAreTrue
    MintDeliversInFull
PROPERTIES
    NeverRedeployed
    EveryRunEnds
CHECK_DEADLOCK FALSE
