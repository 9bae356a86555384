CONSTANTS
    alice = alice
    council = council
    MaxI64 = 9
    MaxU64 = 19
    Keys <- TwoKeys
    Configs <- ShrinkingConfigs
    GenesisConfig <- Genesis
    LegacyLockups <- NoLegacy
    InitialWallet <- Wallets
    Amounts <- AmountArgs
    EndTimes <- EndArgs
    GenesisTime = 1
    MaxTime = 6
CHECK_DEADLOCK FALSE
SPECIFICATION Spec
PROPERTIES
    EndNeverShortens
