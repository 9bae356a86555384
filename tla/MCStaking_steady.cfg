CONSTANTS
    alice = alice
    council = council
    MaxI64 = 9
    MaxU64 = 19
    Keys <- TwoKeys
    Configs <- SteadyConfigs
    GenesisConfig <- Genesis
    LegacyLockups <- SomeLegacy
    InitialWallet <- Wallets
    Amounts <- AmountArgs
    EndTimes <- EndArgs
    GenesisTime = 1
    MaxTime = 6
CHECK_DEADLOCK FALSE
SPECIFICATION Spec
INVARIANTS
    TypeOK
    LockupAccounting
    NoOwnerLockedOut
    LockBounded
    WeightedStartInPast
PROPERTIES
    RunningLockOnlyGrows
    PercentagesStick
