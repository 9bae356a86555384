--------------------------- MODULE MCTransactions ----------------------------
(* The ledgers the clients may find, made by the handlers themselves.        *)
EXTENDS Transactions

CONSTANTS alice, bob, carol, dave, judy, kate, note, uuid, mint

MCCouncils == {carol, dave}
MCUsers == {alice, bob}
MCPair == {<<judy, kate>>}
MCAll == DOMAIN ProgramAccounts
MCTokenProgram == TokenProgram
MCToken2022Program == Token2022Program

Wallet(s, key) ==
    WithToken(s, AssociatedTokenAddress(key, MintProgram, Mint), key,
              [tokenProgram |-> MintProgram], Mint)

Apply(s, tx) == CHOOSE r \in Results(s, tx.ix, tx.accounts, tx.args) : TRUE

Deployed(s, sdk) == Apply(s, TxInitNamespace(sdk))

\* A holder has staked, a proposal and a distribution are open.
Lived(s, sdk) ==
    LET staked == Apply(s, TxStake(sdk, alice))
        asked == Apply(staked, TxInitProposal(sdk, sdk.reviewCouncil, 0, [uri |-> 0]))
    IN  Wallet(Apply(asked, TxInitDistribution(sdk, alice, Uuid, judy, kate)),
               PdaDistribution(sdk, judy, kate, Uuid))

MCEmpty == Wallet(Wallet(<<>>, alice), carol)
MCOne == Deployed(MCEmpty, Sdk(carol, carol, dave))

\* Two namespaces of one mint, each with the other's councils exchanged.
MCBoth == Deployed(MCOne, Sdk(dave, dave, carol))
MCGenesis == {MCEmpty,
              Lived(Lived(MCBoth, Sdk(carol, carol, dave)), Sdk(dave, dave, carol))}
MCGenesisNew == {MCEmpty}
=============================================================================
