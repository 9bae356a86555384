------------------------------ MODULE Interface ------------------------------
(***************************************************************************)
(* The accounts each instruction takes, in order, as the three             *)
(* descriptions in the repository have it: the Accounts structs of ins_v1, *)
(* the generated client (generated/instructions) and the published IDL.    *)
(* A transaction names accounts by position only.                          *)
(***************************************************************************)

Meta(name, isSigner, isWritable) ==
    [name |-> name, isSigner |-> isSigner, isWritable |-> isWritable]
R(name) == Meta(name, FALSE, FALSE)
W(name) == Meta(name, FALSE, TRUE)
S(name) == Meta(name, TRUE, FALSE)
WS(name) == Meta(name, TRUE, TRUE)

----------------------------------------------------------------------------
(***************************************************************************)
(* The program: the Accounts struct of each handler                        *)
(***************************************************************************)
ProgramInitNamespace ==
    <<WS("deployer"), R("securityCouncil"), R("reviewCouncil"),
      R("tokenMint"), W("ns"), R("systemProgram")>>

ProgramUpdateNamespace ==
    <<S("securityCouncil"), W("ns")>>

ProgramStake ==
    <<WS("owner"), R("tokenMint"), W("tokenAccount"), W("lockup"),
      W("lockupTokenAccount"), W("ns"), R("tokenProgram"), R("systemProgram"),
      R("associatedTokenProgram")>>

ProgramStakeTo ==
    <<WS("securityCouncil"), R("owner"), R("tokenMint"), W("tokenAccount"),
      W("lockup"), W("lockupTokenAccount"), W("ns"), R("tokenProgram"),
      R("systemProgram"), R("associatedTokenProgram")>>

ProgramUnstake ==
    <<WS("owner"), R("tokenMint"), W("tokenAccount"), W("lockup"),
      W("lockupTokenAccount"), W("ns"), R("tokenProgram"), R("systemProgram"),
      R("associatedTokenProgram")>>

ProgramInitProposal ==
    <<WS("reviewCouncil"), W("proposal"), W("ns"), R("systemProgram")>>

ProgramUpdateProposal ==
    <<WS("reviewCouncil"), W("proposal"), R("ns")>>

ProgramVote ==
    <<WS("owner"), W("proposal"), R("lockup"), W("voteRecord"), R("ns"),
      R("systemProgram")>>

ProgramInitDistribution ==
    <<WS("payer"), S("uuid"), W("distribution"), R("distributionTokenMint"),
      R("ns"), R("systemProgram")>>

ProgramUpdateDistribution ==
    <<WS("securityCouncil"), W("distribution"), R("ns")>>

ProgramClaimFromDistribution ==
    <<WS("payer"), R("claimant"), S("cosigner1"), S("cosigner2"),
      W("distributionClaim"), R("distribution"), R("distributionTokenMint"),
      W("distributionTokenAccount"), W("claimantTokenAccount"), R("ns"),
      R("tokenProgram"), R("systemProgram"), R("associatedTokenProgram")>>

ProgramWithdrawFromDistribution ==
    <<WS("securityCouncil"), R("distribution"), R("distributionTokenMint"),
      W("distributionTokenAccount"), W("securityCouncilTokenAccount"),
      R("ns"), R("tokenProgram"), R("systemProgram"),
      R("associatedTokenProgram")>>

ProgramAccounts ==
    [initNamespace |-> ProgramInitNamespace,
     updateNamespace |-> ProgramUpdateNamespace,
     stake |-> ProgramStake,
     stakeTo |-> ProgramStakeTo,
     unstake |-> ProgramUnstake,
     initProposal |-> ProgramInitProposal,
     updateProposal |-> ProgramUpdateProposal,
     vote |-> ProgramVote,
     initDistribution |-> ProgramInitDistribution,
     updateDistribution |-> ProgramUpdateDistribution,
     claimFromDistribution |-> ProgramClaimFromDistribution,
     withdrawFromDistribution |-> ProgramWithdrawFromDistribution]

----------------------------------------------------------------------------
(***************************************************************************)
(* The generated client: the keys each builder lists                       *)
(***************************************************************************)
ClientInitNamespace ==
    <<WS("deployer"), R("securityCouncil"), R("reviewCouncil"),
      R("tokenMint"), W("ns"), R("systemProgram")>>

ClientUpdateNamespace ==
    <<S("securityCouncil"), W("ns")>>

ClientStake ==
    <<WS("owner"), R("tokenMint"), W("tokenAccount"), W("lockup"),
      W("lockupTokenAccount"), W("ns"), R("tokenProgram"), R("systemProgram"),
      R("associatedTokenProgram")>>

ClientStakeTo ==
    <<WS("securityCouncil"), R("owner"), R("tokenMint"), W("tokenAccount"),
      W("lockup"), W("lockupTokenAccount"), W("ns"), R("tokenProgram"),
      R("systemProgram"), R("associatedTokenProgram")>>

ClientUnstake ==
    <<WS("owner"), R("tokenMint"), W("tokenAccount"), W("lockup"),
      W("lockupTokenAccount"), W("ns"), R("tokenProgram"), R("systemProgram"),
      R("associatedTokenProgram")>>

ClientInitProposal ==
    <<WS("reviewCouncil"), W("proposal"), W("ns"), R("systemProgram")>>

ClientUpdateProposal ==
    <<WS("reviewCouncil"), W("proposal"), R("ns")>>

\* Mutated form: the lockup and the proposal in the other order.
ClientVoteSwapped ==
    <<WS("owner"), R("lockup"), W("proposal"), W("voteRecord"), R("ns"),
      R("systemProgram")>>

ClientVote ==
    <<WS("owner"), W("proposal"), R("lockup"), W("voteRecord"), R("ns"),
      R("systemProgram")>>

ClientInitDistribution ==
    <<WS("payer"), S("uuid"), W("distribution"), R("distributionTokenMint"),
      R("ns"), R("systemProgram")>>

ClientUpdateDistribution ==
    <<WS("securityCouncil"), W("distribution"), R("ns")>>

ClientClaimFromDistribution ==
    <<WS("payer"), R("claimant"), S("cosigner1"), S("cosigner2"),
      W("distributionClaim"), R("distribution"), R("distributionTokenMint"),
      W("distributionTokenAccount"), W("claimantTokenAccount"), R("ns"),
      R("tokenProgram"), R("systemProgram"), R("associatedTokenProgram")>>

ClientWithdrawFromDistribution ==
    <<WS("securityCouncil"), R("distribution"), R("distributionTokenMint"),
      W("distributionTokenAccount"), W("securityCouncilTokenAccount"),
      R("ns"), R("tokenProgram"), R("systemProgram"),
      R("associatedTokenProgram")>>

ClientAccounts ==
    [initNamespace |-> ClientInitNamespace,
     updateNamespace |-> ClientUpdateNamespace,
     stake |-> ClientStake,
     stakeTo |-> ClientStakeTo,
     unstake |-> ClientUnstake,
     initProposal |-> ClientInitProposal,
     updateProposal |-> ClientUpdateProposal,
     vote |-> ClientVote,
     initDistribution |-> ClientInitDistribution,
     updateDistribution |-> ClientUpdateDistribution,
     claimFromDistribution |-> ClientClaimFromDistribution,
     withdrawFromDistribution |-> ClientWithdrawFromDistribution]

----------------------------------------------------------------------------
(***************************************************************************)
(* The published IDL: the accounts of each instruction                     *)
(***************************************************************************)
IdlInitNamespace ==
    <<WS("deployer"), R("securityCouncil"), R("reviewCouncil"),
      R("tokenMint"), W("ns"), R("systemProgram")>>

IdlUpdateNamespace ==
    <<S("securityCouncil"), W("ns")>>

IdlStake ==
    <<WS("owner"), R("tokenMint"), W("tokenAccount"), W("lockup"),
      W("lockupTokenAccount"), W("ns"), R("tokenProgram"), R("systemProgram"),
      R("associatedTokenProgram")>>

IdlStakeTo ==
    <<WS("securityCouncil"), R("owner"), R("tokenMint"), W("tokenAccount"),
      W("lockup"), W("lockupTokenAccount"), W("ns"), R("tokenProgram"),
      R("systemProgram"), R("associatedTokenProgram")>>

IdlUnstake ==
    <<WS("owner"), R("tokenMint"), W("tokenAccount"), W("lockup"),
      W("lockupTokenAccount"), W("ns"), R("tokenProgram"), R("systemProgram"),
      R("associatedTokenProgram")>>

IdlInitProposal ==
    <<WS("reviewCouncil"), W("proposal"), W("ns"), R("systemProgram")>>

IdlUpdateProposal ==
    <<WS("reviewCouncil"), W("proposal"), R("ns")>>

IdlVote ==
    <<WS("owner"), W("proposal"), R("lockup"), W("voteRecord"), R("ns"),
      R("systemProgram")>>

IdlInitDistribution ==
    <<WS("payer"), S("uuid"), W("distribution"), R("distributionTokenMint"),
      R("ns"), R("systemProgram")>>

IdlUpdateDistribution ==
    <<WS("securityCouncil"), W("distribution"), R("ns")>>

IdlClaimFromDistribution ==
    <<WS("payer"), R("claimant"), S("cosigner1"), S("cosigner2"),
      W("distributionClaim"), R("distribution"), R("distributionTokenMint"),
      W("distributionTokenAccount"), W("claimantTokenAccount"), R("ns"),
      R("tokenProgram"), R("systemProgram"), R("associatedTokenProgram")>>

IdlWithdrawFromDistribution ==
    <<WS("securityCouncil"), R("distribution"), R("distributionTokenMint"),
      W("distributionTokenAccount"), W("securityCouncilTokenAccount"),
      R("ns"), R("tokenProgram"), R("systemProgram"),
      R("associatedTokenProgram")>>

IdlAccounts ==
    [initNamespace |-> IdlInitNamespace,
     updateNamespace |-> IdlUpdateNamespace,
     stake |-> IdlStake,
     stakeTo |-> IdlStakeTo,
     unstake |-> IdlUnstake,
     initProposal |-> IdlInitProposal,
     updateProposal |-> IdlUpdateProposal,
     vote |-> IdlVote,
     initDistribution |-> IdlInitDistribution,
     updateDistribution |-> IdlUpdateDistribution,
     claimFromDistribution |-> IdlClaimFromDistribution,
     withdrawFromDistribution |-> IdlWithdrawFromDistribution]

==============================================================================
