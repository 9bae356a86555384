------------------------------- MODULE Layouts -------------------------------
(***************************************************************************)
(* How the program's accounts and arguments lie in bytes, as the three     *)
(* descriptions in the repository have it: the Rust structs (states.rs and *)
(* the Args of ins_v1), the generated TypeScript client (generated/        *)
(* accounts, generated/types) and the published IDL (types/vetoken.ts).    *)
(* Every one of them is a list of fields in order, each a name and a type; *)
(* names are written the way the client writes them.                       *)
(***************************************************************************)
EXTENDS Sequences

Of(type, names) == [i \in DOMAIN names |-> <<names[i], type>>]

Classes == {"namespace", "lockup", "proposal", "voteRecord", "distribution",
            "distributionClaim"}

----------------------------------------------------------------------------
(***************************************************************************)
(* The program: the structs of states.rs and the Args of ins_v1            *)
(***************************************************************************)
ProgramNamespace ==
    Of("publicKey", <<"tokenMint", "deployer", "securityCouncil",
             "reviewCouncil">>) \o Of("i64", <<"overrideNow">>)
    \o Of("u16", <<"lockupDefaultTargetRewardsPct",
             "lockupDefaultTargetVotingPct">>)
    \o Of("i64", <<"lockupMinDuration">>)
    \o Of("u64", <<"lockupMinAmount", "lockupMaxSaturation",
             "proposalMinVotingPowerForQuorum">>)
    \o Of("u16", <<"proposalMinPassPct">>)
    \o Of("bool", <<"proposalCanUpdateAfterVotes">>)
    \o Of("u64", <<"lockupAmount">>) \o Of("u32", <<"proposalNonce">>)
    \o Of("[u8; 240]", <<"padding">>)

ProgramLockup ==
    Of("publicKey", <<"ns", "owner">>) \o Of("u64", <<"amount">>)
    \o Of("i64", <<"startTs", "endTs">>)
    \o Of("u16", <<"targetRewardsPct", "targetVotingPct">>)
    \o Of("i64", <<"weightedStartTs">>) \o Of("[u8; 232]", <<"padding">>)

ProgramProposal ==
    Of("publicKey", <<"ns">>) \o Of("u32", <<"nonce">>)
    \o Of("publicKey", <<"owner">>) \o Of("i64", <<"startTs", "endTs">>)
    \o Of("u8", <<"status">>) \o Of("[u64; 6]", <<"votingPowerChoices">>)
    \o Of("str", <<"uri">>) \o Of("[u8; 240]", <<"padding">>)

ProgramVoteRecord ==
    Of("publicKey", <<"ns", "owner", "proposal", "lockup">>)
    \o Of("u8", <<"choice">>) \o Of("u64", <<"votingPower">>)
    \o Of("[u8; 32]", <<"padding">>)

ProgramDistribution ==
    Of("publicKey", <<"ns", "uuid", "cosigner1", "cosigner2">>)
    \o Of("i64", <<"startTs">>)
    \o Of("publicKey", <<"distributionTokenMint">>)
    \o Of("[u8; 240]", <<"padding">>)

ProgramDistributionClaim ==
    Of("publicKey", <<"ns", "distribution", "claimant",
             "distributionTokenMint">>) \o Of("u64", <<"amount">>)
    \o Of("[u8; 32]", <<"cosignedMsg">>) \o Of("[u8; 240]", <<"padding">>)

ProgramLayout ==
    [namespace |-> ProgramNamespace,
     lockup |-> ProgramLockup,
     proposal |-> ProgramProposal,
     voteRecord |-> ProgramVoteRecord,
     distribution |-> ProgramDistribution,
     distributionClaim |-> ProgramDistributionClaim]

ProgramUpdateNamespaceArgs ==
    Of("publicKey", <<"securityCouncil", "reviewCouncil">>)
    \o Of("u16", <<"lockupDefaultTargetRewardsPct",
             "lockupDefaultTargetVotingPct">>)
    \o Of("i64", <<"lockupMinDuration">>)
    \o Of("u64", <<"lockupMinAmount", "lockupMaxSaturation",
             "proposalMinVotingPowerForQuorum">>)
    \o Of("u16", <<"proposalMinPassPct">>)
    \o Of("bool", <<"proposalCanUpdateAfterVotes">>)

ProgramStakeArgs ==
    Of("u64", <<"amount">>) \o Of("i64", <<"endTs">>)

ProgramStakeToArgs ==
    Of("u64", <<"amount">>) \o Of("i64", <<"endTs">>)
    \o Of("bool", <<"disableRewards">>)

ProgramInitProposalArgs ==
    Of("i64", <<"startTs", "endTs">>) \o Of("str", <<"uri">>)

ProgramUpdateProposalArgs ==
    Of("i64", <<"startTs", "endTs">>) \o Of("str", <<"uri">>)

ProgramVoteArgs ==
    Of("u8", <<"choice">>)

ProgramInitDistributionArgs ==
    Of("publicKey", <<"cosigner1", "cosigner2">>) \o Of("i64", <<"startTs">>)

ProgramUpdateDistributionArgs ==
    Of("i64", <<"startTs">>)

ProgramClaimFromDistributionArgs ==
    Of("u64", <<"amount">>) \o Of("[u8; 32]", <<"cosignedMsg">>)

ProgramArgs ==
    [initNamespace |-> <<>>,
     updateNamespace |-> ProgramUpdateNamespaceArgs,
     stake |-> ProgramStakeArgs,
     stakeTo |-> ProgramStakeToArgs,
     unstake |-> <<>>,
     initProposal |-> ProgramInitProposalArgs,
     updateProposal |-> ProgramUpdateProposalArgs,
     vote |-> ProgramVoteArgs,
     initDistribution |-> ProgramInitDistributionArgs,
     updateDistribution |-> ProgramUpdateDistributionArgs,
     claimFromDistribution |-> ProgramClaimFromDistributionArgs,
     withdrawFromDistribution |-> <<>>]

\* Accounts written before weighted_start_ts took eight bytes of a lockup's
\* padding, and before a vote record's padding was cut from 240 bytes to 32
\* (the "Old 240-byte padding" of the integration test on vote records).
FormerLayout ==
    [lockup |-> SubSeq(ProgramLockup, 1, 7) \o Of("[u8; 240]", <<"padding">>),
     voteRecord |-> SubSeq(ProgramVoteRecord, 1, 6) \o Of("[u8; 240]", <<"padding">>)]

----------------------------------------------------------------------------
(***************************************************************************)
(* The generated client: the layout of each class                          *)
(***************************************************************************)
ClientNamespace ==
    Of("publicKey", <<"tokenMint", "deployer", "securityCouncil",
             "reviewCouncil">>) \o Of("i64", <<"overrideNow">>)
    \o Of("u16", <<"lockupDefaultTargetRewardsPct",
             "lockupDefaultTargetVotingPct">>)
    \o Of("i64", <<"lockupMinDuration">>)
    \o Of("u64", <<"lockupMinAmount", "lockupMaxSaturation",
             "proposalMinVotingPowerForQuorum">>)
    \o Of("u16", <<"proposalMinPassPct">>)
    \o Of("bool", <<"proposalCanUpdateAfterVotes">>)
    \o Of("u64", <<"lockupAmount">>) \o Of("u32", <<"proposalNonce">>)
    \o Of("[u8; 240]", <<"padding">>)

\* Mutated form: the end before the start.
ClientLockupEndFirst ==
    Of("publicKey", <<"ns", "owner">>) \o Of("u64", <<"amount">>)
    \o Of("i64", <<"endTs", "startTs">>)
    \o Of("u16", <<"targetRewardsPct", "targetVotingPct">>)
    \o Of("i64", <<"weightedStartTs">>) \o Of("[u8; 232]", <<"padding">>)

ClientLockup ==
    Of("publicKey", <<"ns", "owner">>) \o Of("u64", <<"amount">>)
    \o Of("i64", <<"startTs", "endTs">>)
    \o Of("u16", <<"targetRewardsPct", "targetVotingPct">>)
    \o Of("i64", <<"weightedStartTs">>) \o Of("[u8; 232]", <<"padding">>)

ClientProposal ==
    Of("publicKey", <<"ns">>) \o Of("u32", <<"nonce">>)
    \o Of("publicKey", <<"owner">>) \o Of("i64", <<"startTs", "endTs">>)
    \o Of("u8", <<"status">>) \o Of("[u64; 6]", <<"votingPowerChoices">>)
    \o Of("str", <<"uri">>) \o Of("[u8; 240]", <<"padding">>)

ClientVoteRecord ==
    Of("publicKey", <<"ns", "owner", "proposal", "lockup">>)
    \o Of("u8", <<"choice">>) \o Of("u64", <<"votingPower">>)
    \o Of("[u8; 32]", <<"padding">>)

ClientDistribution ==
    Of("publicKey", <<"ns", "uuid", "cosigner1", "cosigner2">>)
    \o Of("i64", <<"startTs">>)
    \o Of("publicKey", <<"distributionTokenMint">>)
    \o Of("[u8; 240]", <<"padding">>)

ClientDistributionClaim ==
    Of("publicKey", <<"ns", "distribution", "claimant",
             "distributionTokenMint">>) \o Of("u64", <<"amount">>)
    \o Of("[u8; 32]", <<"cosignedMsg">>) \o Of("[u8; 240]", <<"padding">>)

ClientLayout ==
    [namespace |-> ClientNamespace,
     lockup |-> ClientLockup,
     proposal |-> ClientProposal,
     voteRecord |-> ClientVoteRecord,
     distribution |-> ClientDistribution,
     distributionClaim |-> ClientDistributionClaim]

ClientUpdateNamespaceArgs ==
    Of("publicKey", <<"securityCouncil", "reviewCouncil">>)
    \o Of("u16", <<"lockupDefaultTargetRewardsPct",
             "lockupDefaultTargetVotingPct">>)
    \o Of("i64", <<"lockupMinDuration">>)
    \o Of("u64", <<"lockupMinAmount", "lockupMaxSaturation",
             "proposalMinVotingPowerForQuorum">>)
    \o Of("u16", <<"proposalMinPassPct">>)
    \o Of("bool", <<"proposalCanUpdateAfterVotes">>)

ClientStakeArgs ==
    Of("u64", <<"amount">>) \o Of("i64", <<"endTs">>)

ClientStakeToArgs ==
    Of("u64", <<"amount">>) \o Of("i64", <<"endTs">>)
    \o Of("bool", <<"disableRewards">>)

ClientInitProposalArgs ==
    Of("i64", <<"startTs", "endTs">>) \o Of("str", <<"uri">>)

ClientUpdateProposalArgs ==
    Of("i64", <<"startTs", "endTs">>) \o Of("str", <<"uri">>)

ClientVoteArgs ==
    Of("u8", <<"choice">>)

ClientInitDistributionArgs ==
    Of("publicKey", <<"cosigner1", "cosigner2">>) \o Of("i64", <<"startTs">>)

ClientUpdateDistributionArgs ==
    Of("i64", <<"startTs">>)

ClientClaimFromDistributionArgs ==
    Of("u64", <<"amount">>) \o Of("[u8; 32]", <<"cosignedMsg">>)

ClientArgs ==
    [initNamespace |-> <<>>,
     updateNamespace |-> ClientUpdateNamespaceArgs,
     stake |-> ClientStakeArgs,
     stakeTo |-> ClientStakeToArgs,
     unstake |-> <<>>,
     initProposal |-> ClientInitProposalArgs,
     updateProposal |-> ClientUpdateProposalArgs,
     vote |-> ClientVoteArgs,
     initDistribution |-> ClientInitDistributionArgs,
     updateDistribution |-> ClientUpdateDistributionArgs,
     claimFromDistribution |-> ClientClaimFromDistributionArgs,
     withdrawFromDistribution |-> <<>>]

----------------------------------------------------------------------------
(***************************************************************************)
(* The published IDL: the accounts and types of the constant IDL           *)
(***************************************************************************)
IdlNamespace ==
    Of("publicKey", <<"tokenMint", "deployer", "securityCouncil",
             "reviewCouncil">>) \o Of("i64", <<"overrideNow">>)
    \o Of("u16", <<"lockupDefaultTargetRewardsPct",
             "lockupDefaultTargetVotingPct">>)
    \o Of("i64", <<"lockupMinDuration">>)
    \o Of("u64", <<"lockupMinAmount", "lockupMaxSaturation",
             "proposalMinVotingPowerForQuorum">>)
    \o Of("u16", <<"proposalMinPassPct">>)
    \o Of("bool", <<"proposalCanUpdateAfterVotes">>)
    \o Of("u64", <<"lockupAmount">>) \o Of("u32", <<"proposalNonce">>)
    \o Of("[u8; 240]", <<"padding">>)

IdlLockup ==
    Of("publicKey", <<"ns", "owner">>) \o Of("u64", <<"amount">>)
    \o Of("i64", <<"startTs", "endTs">>)
    \o Of("u16", <<"targetRewardsPct", "targetVotingPct">>)
    \o Of("[u8; 232]", <<"padding">>) \o Of("i64", <<"weightedStartTs">>)

IdlProposal ==
    Of("publicKey", <<"ns">>) \o Of("u32", <<"nonce">>)
    \o Of("publicKey", <<"owner">>) \o Of("i64", <<"startTs", "endTs">>)
    \o Of("u8", <<"status">>) \o Of("[u64; 6]", <<"votingPowerChoices">>)
    \o Of("str", <<"uri">>) \o Of("[u8; 240]", <<"padding">>)

IdlVoteRecord ==
    Of("publicKey", <<"ns", "owner", "proposal", "lockup">>)
    \o Of("u8", <<"choice">>) \o Of("u64", <<"votingPower">>)
    \o Of("[u8; 32]", <<"padding">>)

IdlDistribution ==
    Of("publicKey", <<"ns", "uuid", "cosigner1", "cosigner2">>)
    \o Of("i64", <<"startTs">>)
    \o Of("publicKey", <<"distributionTokenMint">>)
    \o Of("[u8; 240]", <<"padding">>)

IdlDistributionClaim ==
    Of("publicKey", <<"ns", "distribution", "claimant",
             "distributionTokenMint">>) \o Of("u64", <<"amount">>)
    \o Of("[u8; 32]", <<"cosignedMsg">>) \o Of("[u8; 240]", <<"padding">>)

IdlLayout ==
    [namespace |-> IdlNamespace,
     lockup |-> IdlLockup,
     proposal |-> IdlProposal,
     voteRecord |-> IdlVoteRecord,
     distribution |-> IdlDistribution,
     distributionClaim |-> IdlDistributionClaim]

IdlUpdateNamespaceArgs ==
    Of("publicKey", <<"securityCouncil", "reviewCouncil">>)
    \o Of("u16", <<"lockupDefaultTargetRewardsPct",
             "lockupDefaultTargetVotingPct">>)
    \o Of("i64", <<"lockupMinDuration">>)
    \o Of("u64", <<"lockupMinAmount", "lockupMaxSaturation",
             "proposalMinVotingPowerForQuorum">>)
    \o Of("u16", <<"proposalMinPassPct">>)
    \o Of("bool", <<"proposalCanUpdateAfterVotes">>)

IdlStakeArgs ==
    Of("u64", <<"amount">>) \o Of("i64", <<"endTs">>)

IdlStakeToArgs ==
    Of("u64", <<"amount">>) \o Of("i64", <<"endTs">>)
    \o Of("bool", <<"disableRewards">>)

IdlInitProposalArgs ==
    Of("i64", <<"startTs", "endTs">>) \o Of("str", <<"uri">>)

IdlUpdateProposalArgs ==
    Of("i64", <<"startTs", "endTs">>) \o Of("str", <<"uri">>)

IdlVoteArgs ==
    Of("u8", <<"choice">>)

IdlInitDistributionArgs ==
    Of("publicKey", <<"cosigner1", "cosigner2">>) \o Of("i64", <<"startTs">>)

IdlUpdateDistributionArgs ==
    Of("i64", <<"startTs">>)

IdlClaimFromDistributionArgs ==
    Of("u64", <<"amount">>) \o Of("[u8; 32]", <<"cosignedMsg">>)

IdlArgs ==
    [initNamespace |-> <<>>,
     updateNamespace |-> IdlUpdateNamespaceArgs,
     stake |-> IdlStakeArgs,
     stakeTo |-> IdlStakeToArgs,
     unstake |-> <<>>,
     initProposal |-> IdlInitProposalArgs,
     updateProposal |-> IdlUpdateProposalArgs,
     vote |-> IdlVoteArgs,
     initDistribution |-> IdlInitDistributionArgs,
     updateDistribution |-> IdlUpdateDistributionArgs,
     claimFromDistribution |-> IdlClaimFromDistributionArgs,
     withdrawFromDistribution |-> <<>>]

=============================================================================
