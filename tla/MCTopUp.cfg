CONSTANTS
    alice = alice
    MaxI64 = 100000
    MaxU64 = 200001
    Keys <- OneKey
    Configs <- None
    GenesisConfig <- Genesis
    LegacyLockups <- None
    InitialWallet <- Wallets
    Amounts <- AmountArgs
    EndTimes <- EndArgs
    GenesisTime = 1
    MaxTime = 12
CHECK_DEADLOCK FALSE
SPECIFICATION SpecTopUp
PROPERTIES
    TopUpNeverInflates
    TopUpKeepsPower
