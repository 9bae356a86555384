CONSTANTS
    alice = alice
    council = council
    MaxI64 = 9
    MaxU64 = 19
    Keys <- TwoKeys
    Configs <- SteadyConfigs
    GenesisConfig <- Genesis
    LegacyLockups <- NoLegacy
    InitialWallet <- Wallets
    Amounts <- AmountArgs
    EndTimes <- EndArgs
    GenesisTime = 1
    MaxTime = 5
    MaxProposals = 2
    ProposalTimes <- TimeArgs
    ChoiceArgs <- SomeChoices
CHECK_DEADLOCK FALSE
SPECIFICATION VotingSpec
INVARIANTS
    VotingTypeOK
    TallyMatchesRecords
    VotedStakeStaysLocked
    NoTokenVotesTwice
    NoVoterCrowdedOut
    NextNonceFree
PROPERTIES
    VotedProposalIsFinal
    OutcomeSettled
