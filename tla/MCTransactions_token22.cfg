SPECIFICATION TxSpec
CONSTANTS
    alice = alice
    bob = bob
    carol = carol
    dave = dave
    judy = judy
    kate = kate
    note = note
    uuid = uuid
    mint = mint
    Users <- MCUsers
    Councils <- MCCouncils
    Deployers <- MCCouncils
    Mint = mint
    MintProgram <- MCToken2022Program
    Cosigners <- MCPair
    Uuid = uuid
    Messages = {note}
    Genesis <- MCGenesisNew
    Instructions <- MCAll
    MaxTxs = 2
INVARIANT FreshTxAccepted
CHECK_DEADLOCK FALSE
