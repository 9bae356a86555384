SPECIFICATION TxSpec
CONSTANTS
    alice = alice
    bob = bob
    carol = carol
    dave = dave
    judy = judy
    kate = kate
    note = note
    uuid = uuid
    mint = mint
    Users <- MCUsers
    Councils <- MCCouncils
    Deployers <- MCCouncils
    Mint = mint
    MintProgram <- MCTokenProgram
    Cosigners <- MCPair
    Uuid = uuid
    Messages = {note}
    Genesis <- MCGenesis
    Instructions <- MCAll
    MaxTxs = 2
INVARIANTS
    KeysBindAsMeant
    FreshTxAccepted
    NonceNamesProposal
    VotedTextIsFinal
PROPERTIES
    ActsAreSigned
    AccountsKeepTheirIdentity
CHECK_DEADLOCK FALSE
