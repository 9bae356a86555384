--------------------------------- MODULE Sdk ---------------------------------
(***************************************************************************)
(* VeTokenSDK: the addresses it derives and the transactions it builds.    *)
(* An SDK is constructed once, with the deployer, the councils, the mint   *)
(* and its token program, and never looks at the ledger.  An address is a  *)
(* tuple: a kind and what it is derived from, so that addresses are equal  *)
(* exactly when they are derived alike.                                    *)
(***************************************************************************)

SystemProgram == <<"program", "system">>
AssociatedTokenProgram == <<"program", "associated token">>
TokenProgram == <<"program", "token">>
Token2022Program == <<"program", "token 2022">>

Construct(deployer, securityCouncil, reviewCouncil, tokenMint, tokenProgram) ==
    [deployer |-> deployer, securityCouncil |-> securityCouncil,
     reviewCouncil |-> reviewCouncil, tokenMint |-> tokenMint,
     tokenProgram |-> tokenProgram]

----------------------------------------------------------------------------
\* The associated token account of the SPL library, and its client's default
\* program.
AssociatedTokenAddress(owner, program, mint) == <<"ata", owner, program, mint>>
DefaultAssociatedTokenAddress(mint, owner) ==
    AssociatedTokenAddress(owner, TokenProgram, mint)

SdkAta(sdk, owner) == AssociatedTokenAddress(owner, sdk.tokenProgram, sdk.tokenMint)

PdaNamespace(sdk) == <<"namespace", sdk.tokenMint, sdk.deployer>>
PdaLockup(sdk, owner) == <<"lockup", PdaNamespace(sdk), owner>>

\* Mutated form: the proposal before the owner.
PdaVoteRecordProposalFirst(sdk, owner, proposal) ==
    <<"vote_record", PdaNamespace(sdk), proposal, owner>>

PdaVoteRecord(sdk, owner, proposal) ==
    <<"vote_record", PdaNamespace(sdk), owner, proposal>>

PdaProposal(sdk, nonce) == <<"proposal", PdaNamespace(sdk), nonce>>
PdaDistribution(sdk, cosigner1, cosigner2, uuid) ==
    <<"distribution", PdaNamespace(sdk), cosigner1, cosigner2, uuid>>

\* The claimant does not enter the address.
Sha256(message) == <<"sha256", message>>
PdaDistributionClaim(sdk, claimant, message) ==
    <<"claim", PdaNamespace(sdk), Sha256(message)>>

----------------------------------------------------------------------------
(***************************************************************************)
(* The transactions: the instruction, its accounts by name, and the        *)
(* arguments.  The two compute-budget instructions in front are left out.  *)
(***************************************************************************)
NoArgs == [none |-> TRUE]
NewTx(ix, accounts, args) == [ix |-> ix, accounts |-> accounts, args |-> args]

TxInitNamespace(sdk) ==
    NewTx("initNamespace",
          [deployer |-> sdk.deployer, securityCouncil |-> sdk.securityCouncil,
           reviewCouncil |-> sdk.reviewCouncil, ns |-> PdaNamespace(sdk),
           systemProgram |-> SystemProgram, tokenMint |-> sdk.tokenMint],
          NoArgs)

TxUpdateNamespace(sdk, args) ==
    NewTx("updateNamespace",
          [securityCouncil |-> sdk.securityCouncil, ns |-> PdaNamespace(sdk)], args)

\* What stake and unstake share: the owner's wallet and lockup.
LockupAccounts(sdk, owner) ==
    [owner |-> owner, tokenMint |-> sdk.tokenMint,
     tokenAccount |-> SdkAta(sdk, owner), lockup |-> PdaLockup(sdk, owner),
     lockupTokenAccount |-> SdkAta(sdk, PdaLockup(sdk, owner)),
     ns |-> PdaNamespace(sdk), tokenProgram |-> sdk.tokenProgram,
     systemProgram |-> SystemProgram,
     associatedTokenProgram |-> AssociatedTokenProgram]

TxStake(sdk, owner) == NewTx("stake", LockupAccounts(sdk, owner), NoArgs)

\* Rewards are always disabled.
TxStakeTo(sdk, owner) ==
    NewTx("stakeTo",
          [securityCouncil |-> sdk.securityCouncil, owner |-> owner,
           tokenMint |-> sdk.tokenMint,
           tokenAccount |-> SdkAta(sdk, sdk.securityCouncil),
           lockup |-> PdaLockup(sdk, owner),
           lockupTokenAccount |-> SdkAta(sdk, PdaLockup(sdk, owner)),
           ns |-> PdaNamespace(sdk), tokenProgram |-> sdk.tokenProgram,
           systemProgram |-> SystemProgram,
           associatedTokenProgram |-> AssociatedTokenProgram],
          [disableRewards |-> TRUE])

TxUnstake(sdk, owner) == NewTx("unstake", LockupAccounts(sdk, owner), NoArgs)

TxInitProposal(sdk, reviewCouncil, nonce, args) ==
    NewTx("initProposal",
          [reviewCouncil |-> reviewCouncil, ns |-> PdaNamespace(sdk),
           proposal |-> PdaProposal(sdk, nonce), systemProgram |-> SystemProgram],
          args)

TxUpdateProposal(sdk, reviewCouncil, proposal, args) ==
    NewTx("updateProposal",
          [ns |-> PdaNamespace(sdk), proposal |-> proposal,
           reviewCouncil |-> reviewCouncil],
          args)

TxVote(sdk, owner, proposal, args) ==
    NewTx("vote",
          [ns |-> PdaNamespace(sdk), owner |-> owner, proposal |-> proposal,
           lockup |-> PdaLockup(sdk, owner),
           voteRecord |-> PdaVoteRecord(sdk, owner, proposal),
           systemProgram |-> SystemProgram],
          args)

TxInitDistribution(sdk, payer, uuid, cosigner1, cosigner2) ==
    NewTx("initDistribution",
          [ns |-> PdaNamespace(sdk), payer |-> payer,
           distribution |-> PdaDistribution(sdk, cosigner1, cosigner2, uuid),
           distributionTokenMint |-> sdk.tokenMint,
           systemProgram |-> SystemProgram, uuid |-> uuid],
          [cosigner1 |-> cosigner1, cosigner2 |-> cosigner2])

TxUpdateDistribution(sdk, distribution, args) ==
    NewTx("updateDistribution",
          [ns |-> PdaNamespace(sdk), distribution |-> distribution,
           securityCouncil |-> sdk.securityCouncil],
          args)

TxWithdrawFromDistribution(sdk, distribution, tokenAccount) ==
    NewTx("withdrawFromDistribution",
          [ns |-> PdaNamespace(sdk), distribution |-> distribution,
           securityCouncil |-> sdk.securityCouncil,
           distributionTokenMint |-> sdk.tokenMint,
           distributionTokenAccount |-> tokenAccount,
           securityCouncilTokenAccount |-> SdkAta(sdk, sdk.securityCouncil),
           tokenProgram |-> sdk.tokenProgram, systemProgram |-> SystemProgram,
           associatedTokenProgram |-> AssociatedTokenProgram],
          NoArgs)

\* [from] is the distribution, [shard] one of its accounts, [pair] the two
\* cosigners.  The claimant's account is derived with the library's default
\* program.
TxClaimFromDistribution(sdk, payer, from, shard, pair, claimant, message) ==
    NewTx("claimFromDistribution",
          [ns |-> PdaNamespace(sdk), payer |-> payer, distribution |-> from,
           distributionTokenMint |-> sdk.tokenMint, claimant |-> claimant,
           cosigner1 |-> pair[1], cosigner2 |-> pair[2],
           distributionClaim |-> PdaDistributionClaim(sdk, claimant, message),
           distributionTokenAccount |-> shard,
           claimantTokenAccount |->
               DefaultAssociatedTokenAddress(sdk.tokenMint, claimant),
           tokenProgram |-> sdk.tokenProgram, systemProgram |-> SystemProgram,
           associatedTokenProgram |-> AssociatedTokenProgram],
          [cosignedMsg |-> Sha256(message)])

=============================================================================
