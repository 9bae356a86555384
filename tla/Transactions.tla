---------------------------- MODULE Transactions -----------------------------
(***************************************************************************)
(* Clients and the program over one ledger.  Clients build transactions    *)
(* with an SDK constructed some time ago and a nonce read some time ago,   *)
(* list the accounts by position with the generated client's tables or the *)
(* IDL's, sign and send; a transaction lands at most once, in any order,   *)
(* or never.  The program finds its accounts by its own order, checks      *)
(* signers, addresses and owners as its Accounts structs say, and writes.  *)
(* Amounts, times and balances are in Staking, Voting and Distribution:    *)
(* here they are reasons for which any transaction may fail.               *)
(***************************************************************************)
EXTENDS Interface, Sdk, Integers, FiniteSets, Sequences

CONSTANTS
    Users,          \* keys of holders, payers and claimants
    Councils,       \* keys that serve as councils
    Deployers,      \* each deploys a namespace for the mint
    Mint,
    MintProgram,    \* the token program that owns the mint
    Cosigners,      \* ordered pairs of keys
    Uuid,
    Messages,       \* messages that cosigners sign
    Genesis,        \* the ledgers the clients may find
    Instructions,   \* the instructions that clients send
    MaxTxs          \* bound on the transactions

VARIABLES
    store,          \* the accounts that exist, by address
    inflight,       \* signed transactions that have not landed
    sent            \* the number of transactions ever sent

txVars == <<store, inflight, sent>>

Exists(s, address, class) == address \in DOMAIN s /\ s[address].class = class
Put(s, address, record) ==
    [x \in DOMAIN s \cup {address} |-> IF x = address THEN record ELSE s[x]]
Drop(s, addresses) == [x \in DOMAIN s \ addresses |-> s[x]]

----------------------------------------------------------------------------
(***************************************************************************)
(* The program's addresses, from the seeds of its Accounts structs.        *)
(***************************************************************************)
NamespaceSeeds(mint, deployer) == <<"namespace", mint, deployer>>
LockupSeeds(ns, owner) == <<"lockup", ns, owner>>
ProposalSeeds(ns, nonce) == <<"proposal", ns, nonce>>
VoteRecordSeeds(ns, owner, proposal) == <<"vote_record", ns, owner, proposal>>
DistributionSeeds(ns, cosigner1, cosigner2, uuid) ==
    <<"distribution", ns, cosigner1, cosigner2, uuid>>
ClaimSeeds(ns, digest) == <<"claim", ns, digest>>

----------------------------------------------------------------------------
(***************************************************************************)
(* The ledgers that the program leaves behind: what a client may find.     *)
(***************************************************************************)
\* An account is at the address of its seeds and has its struct's fields.
AccountOk(x, r) ==
    \/ /\ r.class = "namespace"
       /\ r = [class |-> "namespace", tokenMint |-> r.tokenMint,
                deployer |-> r.deployer, securityCouncil |-> r.securityCouncil,
                reviewCouncil |-> r.reviewCouncil, proposalNonce |-> r.proposalNonce]
       /\ r.proposalNonce \in Nat
       /\ x = NamespaceSeeds(r.tokenMint, r.deployer)
    \/ /\ r.class = "lockup"
       /\ r = [class |-> "lockup", ns |-> r.ns, owner |-> r.owner]
       /\ x = LockupSeeds(r.ns, r.owner)
    \/ /\ r.class = "proposal"
       /\ r = [class |-> "proposal", ns |-> r.ns, nonce |-> r.nonce,
                owner |-> r.owner, uri |-> r.uri, votes |-> r.votes]
       /\ r.nonce \in Nat /\ r.votes \in Nat
       /\ x = ProposalSeeds(r.ns, r.nonce)
    \/ /\ r.class = "voteRecord"
       /\ r = [class |-> "voteRecord", ns |-> r.ns, owner |-> r.owner,
                proposal |-> r.proposal, uri |-> r.uri]
       /\ x = VoteRecordSeeds(r.ns, r.owner, r.proposal)
    \/ /\ r.class = "distribution"
       /\ r = [class |-> "distribution", ns |-> r.ns, uuid |-> r.uuid,
                cosigner1 |-> r.cosigner1, cosigner2 |-> r.cosigner2,
                distributionTokenMint |-> r.distributionTokenMint,
                startTs |-> r.startTs]
       /\ x = DistributionSeeds(r.ns, r.cosigner1, r.cosigner2, r.uuid)
    \/ /\ r.class = "distributionClaim"
       /\ r = [class |-> "distributionClaim", ns |-> r.ns,
                distribution |-> r.distribution, claimant |-> r.claimant,
                cosignedMsg |-> r.cosignedMsg]
       /\ x = ClaimSeeds(r.ns, r.cosignedMsg)
    \/ /\ r.class = "token"
       /\ r = [class |-> "token", authority |-> r.authority, mint |-> r.mint,
                program |-> r.program]
       /\ x = AssociatedTokenAddress(r.authority, r.program, r.mint)

\* A namespace has its proposals up to its nonce, and no other ones.
ProposalsOk(s) ==
    \A x \in DOMAIN s :
       /\ s[x].class = "namespace" =>
             \A n \in 0 .. s[x].proposalNonce - 1 : ProposalSeeds(x, n) \in DOMAIN s
       /\ s[x].class = "proposal" =>
             /\ Exists(s, s[x].ns, "namespace")
             /\ s[x].nonce < s[s[x].ns].proposalNonce

\* A vote counts for a proposal that exists, which has its text.
VotesOk(s) ==
    \A x \in DOMAIN s :
       s[x].class = "voteRecord" =>
          /\ Exists(s, s[x].proposal, "proposal")
          /\ s[s[x].proposal].votes # 0
          /\ s[s[x].proposal].uri = s[x].uri

LedgerOk(s) == (\A x \in DOMAIN s : AccountOk(x, s[x])) /\ ProposalsOk(s) /\ VotesOk(s)

\* There is one mint, and its token program makes the token accounts.
Minted(r) ==
    /\ r.class = "namespace" => r.tokenMint = Mint
    /\ r.class = "distribution" => r.distributionTokenMint = Mint
    /\ r.class = "token" => r.program = MintProgram

ASSUME TxAssumption ==
    /\ \A s \in Genesis : LedgerOk(s) /\ \A x \in DOMAIN s : Minted(s[x])
    /\ Instructions \subseteq DOMAIN ProgramAccounts
    /\ \A c \in Cosigners : c = <<c[1], c[2]>>

----------------------------------------------------------------------------
(***************************************************************************)
(* The accounts of a transaction, found by position, with the flags that   *)
(* the program asks for.                                                   *)
(***************************************************************************)
Positions(table) == [name \in {table[i].name : i \in DOMAIN table} |->
                        CHOOSE i \in DOMAIN table : table[i].name = name]

Bound(ix, keys) ==
    LET table == ProgramAccounts[ix]
    IN  [name \in DOMAIN Positions(table) |-> keys[Positions(table)[name]].address]

FlagsOk(ix, keys) ==
    LET table == ProgramAccounts[ix]
    IN  /\ DOMAIN table \subseteq DOMAIN keys
        /\ \A i \in DOMAIN table : /\ table[i].isSigner => keys[i].isSigner
                                   /\ table[i].isWritable => keys[i].isWritable

ProgramsOk(a) ==
    /\ "systemProgram" \in DOMAIN a => a.systemProgram = SystemProgram
    /\ "associatedTokenProgram" \in DOMAIN a =>
           a.associatedTokenProgram = AssociatedTokenProgram
    /\ "tokenProgram" \in DOMAIN a =>
           a.tokenProgram \in {TokenProgram, Token2022Program}

\* An associated token account that exists.
AtaOk(s, address, owner, a, mint) ==
    /\ address = AssociatedTokenAddress(owner, a.tokenProgram, mint)
    /\ Exists(s, address, "token")

\* init_if_needed: one that exists, or that its token program can create.
AtaOrNewOk(s, address, owner, a, mint) ==
    /\ address = AssociatedTokenAddress(owner, a.tokenProgram, mint)
    /\ Exists(s, address, "token") \/ MintProgram = a.tokenProgram

\* token::mint, token::authority and token::token_program.
TokenAccountOk(s, address, authority, a, mint) ==
    /\ Exists(s, address, "token")
    /\ s[address].authority = authority
    /\ s[address].mint = mint
    /\ s[address].program = a.tokenProgram

\* Mutated form: an account is made over one that exists.
FreeOrTaken(s, address) == TRUE

\* init: the address has no account yet.
Free(s, address) == address \notin DOMAIN s

\* has_one, the namespace's mint and councils.
NsOfMint(s, a) == Exists(s, a.ns, "namespace") /\ s[a.ns].tokenMint = a.tokenMint

HasSecurityCouncil(s, a) ==
    Exists(s, a.ns, "namespace") /\ s[a.ns].securityCouncil = a.securityCouncil

HasReviewCouncil(s, a) ==
    Exists(s, a.ns, "namespace") /\ s[a.ns].reviewCouncil = a.reviewCouncil

OwnersLockup(s, a) ==
    /\ a.lockup = LockupSeeds(a.ns, a.owner)
    /\ Exists(s, a.lockup, "lockup")
    /\ s[a.lockup].ns = a.ns /\ s[a.lockup].owner = a.owner

\* Mutated form: has_one = ns is forgotten.
OfAnyNs(s, address, class, a) == Exists(s, address, class)

OfNs(s, address, class, a) == Exists(s, address, class) /\ s[address].ns = a.ns

DistributionTokensOk(s, a) ==
    /\ s[a.distribution].distributionTokenMint = a.distributionTokenMint
    /\ TokenAccountOk(s, a.distributionTokenAccount, a.distribution, a,
                      a.distributionTokenMint)

\* init_if_needed of an associated token account.
WithToken(s, address, authority, a, mint) ==
    IF address \in DOMAIN s THEN s
    ELSE Put(s, address, [class |-> "token", authority |-> authority,
                          mint |-> mint, program |-> a.tokenProgram])

----------------------------------------------------------------------------
(***************************************************************************)
(* The handlers: what each Accounts struct asks of the accounts a, and the *)
(* ledger that the handler leaves.                                         *)
(***************************************************************************)
InitNamespaceOk(s, a) ==
    /\ a.tokenMint = Mint
    /\ a.ns = NamespaceSeeds(a.tokenMint, a.deployer)
    /\ Free(s, a.ns)

InitNamespace(s, a) ==
    Put(s, a.ns, [class |-> "namespace", tokenMint |-> a.tokenMint,
                  deployer |-> a.deployer,
                  securityCouncil |-> a.securityCouncil,
                  reviewCouncil |-> a.reviewCouncil,
                  proposalNonce |-> 0])

\* The numbers of an update, which come with the councils, are left out.
UpdateNamespace(s, a, args) ==
    [s EXCEPT ![a.ns] = [@ EXCEPT !.securityCouncil = args.securityCouncil,
                                  !.reviewCouncil = args.reviewCouncil]]

StakeOk(s, a) ==
    /\ AtaOk(s, a.tokenAccount, a.owner, a, a.tokenMint)
    /\ a.lockup = LockupSeeds(a.ns, a.owner)
    /\ AtaOrNewOk(s, a.lockupTokenAccount, a.lockup, a, a.tokenMint)
    /\ NsOfMint(s, a)

StakeToOk(s, a) ==
    /\ AtaOk(s, a.tokenAccount, a.securityCouncil, a, a.tokenMint)
    /\ a.lockup = LockupSeeds(a.ns, a.owner)
    /\ Free(s, a.lockup)
    /\ AtaOrNewOk(s, a.lockupTokenAccount, a.lockup, a, a.tokenMint)
    /\ NsOfMint(s, a)
    /\ HasSecurityCouncil(s, a)

\* What stake and stake_to leave.
Stake(s, a) ==
    WithToken(Put(s, a.lockup, [class |-> "lockup", ns |-> a.ns, owner |-> a.owner]),
              a.lockupTokenAccount, a.lockup, a, a.tokenMint)

UnstakeOk(s, a) ==
    /\ AtaOrNewOk(s, a.tokenAccount, a.owner, a, a.tokenMint)
    /\ OwnersLockup(s, a)
    /\ AtaOk(s, a.lockupTokenAccount, a.lockup, a, a.tokenMint)
    /\ NsOfMint(s, a)

\* The lockup's token account is closed if the lockup held all of it.
Unstake(s, a, emptied) ==
    Drop(WithToken(s, a.tokenAccount, a.owner, a, a.tokenMint),
         {a.lockup} \cup (IF emptied THEN {a.lockupTokenAccount} ELSE {}))

InitProposalOk(s, a) ==
    /\ HasReviewCouncil(s, a)
    /\ a.proposal = ProposalSeeds(a.ns, s[a.ns].proposalNonce)
    /\ Free(s, a.proposal)

InitProposal(s, a, args) ==
    Put([s EXCEPT ![a.ns].proposalNonce = @ + 1], a.proposal,
        [class |-> "proposal", ns |-> a.ns, nonce |-> s[a.ns].proposalNonce,
         owner |-> a.reviewCouncil, uri |-> args.uri, votes |-> 0])

\* Mutated form: a proposal may change under its votes.
AlwaysUpdatable(p) == TRUE

\* Proposal::can_update.
CanUpdateProposal(p) == p.votes = 0

UpdateProposalOk(s, a) ==
    /\ OfNs(s, a.proposal, "proposal", a)
    /\ CanUpdateProposal(s[a.proposal])
    /\ HasReviewCouncil(s, a)

UpdateProposal(s, a, args) == [s EXCEPT ![a.proposal].uri = args.uri]

VoteOk(s, a) ==
    /\ OfNs(s, a.proposal, "proposal", a)
    /\ OwnersLockup(s, a)
    /\ a.voteRecord = VoteRecordSeeds(a.ns, a.owner, a.proposal)
    /\ Free(s, a.voteRecord)
    /\ Exists(s, a.ns, "namespace")

\* [uri] is the text the vote counted for; the program does not record it.
Vote(s, a) ==
    Put([s EXCEPT ![a.proposal].votes = @ + 1], a.voteRecord,
        [class |-> "voteRecord", ns |-> a.ns, owner |-> a.owner,
         proposal |-> a.proposal, uri |-> s[a.proposal].uri])

InitDistributionOk(s, a, args) ==
    /\ a.distribution =
          DistributionSeeds(a.ns, args.cosigner1, args.cosigner2, a.uuid)
    /\ Free(s, a.distribution)
    /\ a.distributionTokenMint = Mint
    /\ Exists(s, a.ns, "namespace")

InitDistribution(s, a, args) ==
    Put(s, a.distribution,
        [class |-> "distribution", ns |-> a.ns, uuid |-> a.uuid,
         cosigner1 |-> args.cosigner1, cosigner2 |-> args.cosigner2,
         distributionTokenMint |-> a.distributionTokenMint, startTs |-> 0])

UpdateDistributionOk(s, a) ==
    OfNs(s, a.distribution, "distribution", a) /\ HasSecurityCouncil(s, a)

UpdateDistribution(s, a, args) ==
    [s EXCEPT ![a.distribution].startTs = args.startTs]

ClaimOk(s, a, args) ==
    /\ a.distributionClaim = ClaimSeeds(a.ns, args.cosignedMsg)
    /\ Free(s, a.distributionClaim)
    /\ OfNs(s, a.distribution, "distribution", a)
    /\ a.distribution = DistributionSeeds(a.ns, a.cosigner1, a.cosigner2,
                                          s[a.distribution].uuid)
    /\ s[a.distribution].cosigner1 = a.cosigner1
    /\ s[a.distribution].cosigner2 = a.cosigner2
    /\ DistributionTokensOk(s, a)
    /\ AtaOrNewOk(s, a.claimantTokenAccount, a.claimant, a, a.distributionTokenMint)
    /\ Exists(s, a.ns, "namespace")

Claim(s, a, args) ==
    WithToken(Put(s, a.distributionClaim,
                  [class |-> "distributionClaim", ns |-> a.ns,
                   distribution |-> a.distribution, claimant |-> a.claimant,
                   cosignedMsg |-> args.cosignedMsg]),
              a.claimantTokenAccount, a.claimant, a, a.distributionTokenMint)

WithdrawOk(s, a) ==
    /\ OfNs(s, a.distribution, "distribution", a)
    /\ a.distribution = DistributionSeeds(a.ns, s[a.distribution].cosigner1,
                                          s[a.distribution].cosigner2,
                                          s[a.distribution].uuid)
    /\ DistributionTokensOk(s, a)
    /\ AtaOrNewOk(s, a.securityCouncilTokenAccount, a.securityCouncil, a,
                  a.distributionTokenMint)
    /\ HasSecurityCouncil(s, a)

Withdraw(s, a) ==
    Drop(WithToken(s, a.securityCouncilTokenAccount, a.securityCouncil, a,
                   a.distributionTokenMint),
         {a.distributionTokenAccount})

----------------------------------------------------------------------------
(***************************************************************************)
(* A signed transaction lists its keys in an order and carries arguments;  *)
(* [accounts] is what its client meant the keys to be.                     *)
(***************************************************************************)
AddressesOk(s, ix, a, args) ==
    CASE ix = "initNamespace" -> InitNamespaceOk(s, a)
      [] ix = "updateNamespace" -> HasSecurityCouncil(s, a)
      [] ix = "stake" -> StakeOk(s, a)
      [] ix = "stakeTo" -> StakeToOk(s, a)
      [] ix = "unstake" -> UnstakeOk(s, a)
      [] ix = "initProposal" -> InitProposalOk(s, a)
      [] ix = "updateProposal" -> UpdateProposalOk(s, a)
      [] ix = "vote" -> VoteOk(s, a)
      [] ix = "initDistribution" -> InitDistributionOk(s, a, args)
      [] ix = "updateDistribution" -> UpdateDistributionOk(s, a)
      [] ix = "claimFromDistribution" -> ClaimOk(s, a, args)
      [] ix = "withdrawFromDistribution" -> WithdrawOk(s, a)

\* The ledgers that an accepted instruction may leave.
Results(s, ix, a, args) ==
    CASE ix = "initNamespace" -> {InitNamespace(s, a)}
      [] ix = "updateNamespace" -> {UpdateNamespace(s, a, args)}
      [] ix \in {"stake", "stakeTo"} -> {Stake(s, a)}
      [] ix = "unstake" -> {Unstake(s, a, emptied) : emptied \in BOOLEAN}
      [] ix = "initProposal" -> {InitProposal(s, a, args)}
      [] ix = "updateProposal" -> {UpdateProposal(s, a, args)}
      [] ix = "vote" -> {Vote(s, a)}
      [] ix = "initDistribution" -> {InitDistribution(s, a, args)}
      [] ix = "updateDistribution" -> {UpdateDistribution(s, a, args)}
      [] ix = "claimFromDistribution" -> {Claim(s, a, args)}
      [] ix = "withdrawFromDistribution" -> {Withdraw(s, a)}

Accepted(s, tx) ==
    /\ FlagsOk(tx.ix, tx.keys)
    /\ LET a == Bound(tx.ix, tx.keys)
       IN  ProgramsOk(a) /\ AddressesOk(s, tx.ix, a, tx.args)

Tables == {ClientAccounts, IdlAccounts}

\* The keys in the order of a client's table, signed by those it marks.
Signed(tables, tx, id) ==
    LET table == tables[tx.ix]
    IN  [id |-> id, ix |-> tx.ix, args |-> tx.args, accounts |-> tx.accounts,
         keys |-> [i \in DOMAIN table |->
                      [address |-> tx.accounts[table[i].name],
                       isSigner |-> table[i].isSigner,
                       isWritable |-> table[i].isWritable]]]

SignedBy(tx, key) ==
    \E i \in DOMAIN tx.keys : tx.keys[i].isSigner /\ tx.keys[i].address = key

----------------------------------------------------------------------------
(***************************************************************************)
(* The clients: an SDK constructed with some deployer and any councils,    *)
(* those in force or not.                                                  *)
(***************************************************************************)
Sdk(deployer, securityCouncil, reviewCouncil) ==
    Construct(deployer, securityCouncil, reviewCouncil, Mint, MintProgram)

Sdks == {Sdk(x, c, d) : x \in Deployers, c, d \in Councils}

OfClass(s, class) == {x \in DOMAIN s : s[x].class = class}

\* Nonces read at any time, or counted on from one.
Nonces(s, sdk) ==
    IF PdaNamespace(sdk) \in DOMAIN s
    THEN 0 .. s[PdaNamespace(sdk)].proposalNonce + 1 ELSE {}

\* Proposals a client knows of, in any namespace, and one it expects.
Proposals(s, sdk) ==
    OfClass(s, "proposal") \cup {PdaProposal(sdk, n) : n \in Nonces(s, sdk)}

Distributions(s, sdk) ==
    OfClass(s, "distribution")
        \cup {PdaDistribution(sdk, c[1], c[2], Uuid) : c \in Cosigners}

NewCouncils(security, review) ==
    [securityCouncil |-> security, reviewCouncil |-> review]

\* The transactions a client may build; id tells apart what they write.
Buildable(s, sdk, id) ==
    {TxInitNamespace(sdk)}
    \cup {TxUpdateNamespace(sdk, NewCouncils(c, d)) : c, d \in Councils}
    \cup {TxStake(sdk, u) : u \in Users}
    \cup {TxStakeTo(sdk, u) : u \in Users}
    \cup {TxUnstake(sdk, u) : u \in Users}
    \cup {TxInitProposal(sdk, sdk.reviewCouncil, n, [uri |-> id]) :
              n \in Nonces(s, sdk)}
    \cup {TxUpdateProposal(sdk, sdk.reviewCouncil, p, [uri |-> id]) :
              p \in Proposals(s, sdk)}
    \cup {TxVote(sdk, u, p, NoArgs) : u \in Users, p \in Proposals(s, sdk)}
    \cup {TxInitDistribution(sdk, u, Uuid, c[1], c[2]) :
              u \in Users, c \in Cosigners}
    \cup {TxUpdateDistribution(sdk, x, [startTs |-> id]) :
              x \in Distributions(s, sdk)}
    \cup {TxWithdrawFromDistribution(sdk, x, SdkAta(sdk, x)) :
              x \in Distributions(s, sdk)}
    \cup {TxClaimFromDistribution(sdk, u, x, SdkAta(sdk, x), c, v, m) :
              u, v \in Users, x \in Distributions(s, sdk), c \in Cosigners,
              m \in Messages}

Send(tx, tables) ==
    /\ sent < MaxTxs
    /\ sent' = sent + 1
    /\ inflight' = inflight \cup {Signed(tables, tx, sent + 1)}
    /\ UNCHANGED store

Land(tx) ==
    /\ Accepted(store, tx)
    /\ store' \in Results(store, tx.ix, Bound(tx.ix, tx.keys), tx.args)
    /\ inflight' = inflight \ {tx}
    /\ UNCHANGED sent

\* A token account is opened for a distribution, outside this program.
OpenTokenAccount(distribution) ==
    /\ Exists(store, distribution, "distribution")
    /\ LET address == AssociatedTokenAddress(distribution, MintProgram, Mint)
       IN  /\ address \notin DOMAIN store
           /\ store' = Put(store, address,
                           [class |-> "token", authority |-> distribution,
                            mint |-> Mint, program |-> MintProgram])
    /\ UNCHANGED <<inflight, sent>>

TxInit ==
    /\ store \in Genesis
    /\ inflight = {}
    /\ sent = 0

TxNext ==
    \/ \E sdk \in Sdks, tables \in Tables :
          \E tx \in Buildable(store, sdk, sent + 1) :
             tx.ix \in Instructions /\ Send(tx, tables)
    \/ \E tx \in inflight : Land(tx)
    \/ \E x \in DOMAIN store : OpenTokenAccount(x)

TxSpec == TxInit /\ [][TxNext]_txVars

----------------------------------------------------------------------------
(***************************************************************************)
(* Properties                                                              *)
(***************************************************************************)
\* Whichever description a client lists keys by, the program finds every
\* account it names under the client's own name for it, with the signature
\* and the write access it asks for.
KeysBindAsMeant ==
    \A tx \in inflight : FlagsOk(tx.ix, tx.keys) /\ Bound(tx.ix, tx.keys) = tx.accounts

\* What can be done now, judged by what the accounts say and not by where
\* they are.
Current(s, ns) == Sdk(s[ns].deployer, s[ns].securityCouncil, s[ns].reviewCouncil)
HasWallet(s, key) ==
    \E x \in OfClass(s, "token") : s[x].authority = key /\ s[x].mint = Mint
Lockups(s, ns, u) == {x \in OfClass(s, "lockup") : s[x].ns = ns /\ s[x].owner = u}
In(s, class, ns) == {x \in OfClass(s, class) : s[x].ns = ns}

MayStake(s, sdk) == {TxStake(sdk, u) : u \in {v \in Users : HasWallet(s, v)}}

MayUnstake(s, sdk, ns) ==
    {TxUnstake(sdk, u) :
        u \in {v \in Users : \E x \in Lockups(s, ns, v) : HasWallet(s, x)}}

MayVote(s, sdk, ns) ==
    UNION {{TxVote(sdk, u, p, NoArgs) :
               p \in {q \in In(s, "proposal", ns) :
                         \A x \in OfClass(s, "voteRecord") :
                            ~(s[x].owner = u /\ s[x].proposal = q)}} :
           u \in {v \in Users : Lockups(s, ns, v) # {}}}

MayDistribute(s, sdk, ns) ==
    {TxInitDistribution(sdk, u, Uuid, c[1], c[2]) : u \in Users,
        c \in {d \in Cosigners : \A x \in In(s, "distribution", ns) :
                                  <<s[x].cosigner1, s[x].cosigner2>> # d}}

MayClaim(s, sdk, ns) ==
    {TxClaimFromDistribution(sdk, u, x, SdkAta(sdk, x),
                             <<s[x].cosigner1, s[x].cosigner2>>, v, m) :
        u, v \in Users,
        x \in {y \in In(s, "distribution", ns) : HasWallet(s, y)},
        m \in {n \in Messages : \A y \in In(s, "distributionClaim", ns) :
                                  s[y].cosignedMsg # Sha256(n)}}

Ready(s, sdk, ns) ==
    MayStake(s, sdk) \cup MayUnstake(s, sdk, ns) \cup MayVote(s, sdk, ns)
        \cup MayDistribute(s, sdk, ns) \cup MayClaim(s, sdk, ns)

ReadyForCouncils(s, sdk, ns) ==
    {TxUpdateNamespace(sdk, NewCouncils(c, c)) : c \in Councils}
    \cup {TxStakeTo(sdk, u) : u \in {v \in Users : /\ HasWallet(s, sdk.securityCouncil)
                                                   /\ Lockups(s, ns, v) = {}}}
    \cup {TxInitProposal(sdk, sdk.reviewCouncil, s[ns].proposalNonce, [uri |-> 0])}
    \cup {TxUpdateProposal(sdk, sdk.reviewCouncil, p, [uri |-> 0]) :
              p \in {q \in In(s, "proposal", ns) : s[q].votes = 0}}
    \cup {TxUpdateDistribution(sdk, x, [startTs |-> 0]) : x \in In(s, "distribution", ns)}
    \cup {TxWithdrawFromDistribution(sdk, x, SdkAta(sdk, x)) :
              x \in {y \in In(s, "distribution", ns) : HasWallet(s, y)}}

\* A transaction built on the ledger as it stands passes every check of
\* signers, addresses and owners, whatever happened before: addresses and
\* tables of the SDK, the generated client and the IDL agree with the
\* program's.  A holder's SDK may know former councils.
FreshTxAccepted ==
    \A ns \in OfClass(store, "namespace"), tables \in Tables :
       /\ \A c, d \in Councils :
             \A tx \in Ready(store, Sdk(store[ns].deployer, c, d), ns) :
                Accepted(store, Signed(tables, tx, 0))
       /\ \A tx \in ReadyForCouncils(store, Current(store, ns), ns) :
             Accepted(store, Signed(tables, tx, 0))

\* The proposals of a namespace are numbered from zero without a gap, each
\* at the address of its number: an address made from a nonce that was read
\* too early is never a second proposal's.
NonceNamesProposal ==
    \A ns \in OfClass(store, "namespace") :
       /\ {store[x].nonce : x \in In(store, "proposal", ns)}
              = 0 .. store[ns].proposalNonce - 1
       /\ \A x \in In(store, "proposal", ns) : x = ProposalSeeds(ns, store[x].nonce)

\* A vote counts for the text it was cast on for ever: no proposal changes
\* under its votes, however late an update lands.
VotedTextIsFinal ==
    \A x \in OfClass(store, "voteRecord") : store[x].uri = store[store[x].proposal].uri

\* What an account is does not change while it lives, and only lockups and
\* token accounts are ever closed: a transaction sent twice, or late, makes
\* nothing over again.
Identity(r) ==
    [f \in DOMAIN r \ {"securityCouncil", "reviewCouncil",
                       "proposalNonce", "uri", "votes", "startTs"} |-> r[f]]

AccountsKeepTheirIdentity ==
    [][\A x \in DOMAIN store :
          IF x \in DOMAIN store' THEN Identity(store'[x]) = Identity(store[x])
                                     /\ (store[x].class = "proposal"
                                            => store'[x].votes >= store[x].votes)
          ELSE store[x].class \in {"lockup", "token"}]_txVars

\* Who signed what lands in a step, and what that permits.
Landed(key) == \E tx \in inflight \ inflight' : SignedBy(tx, key)

StepIsSigned ==
    /\ \A x \in DOMAIN store \cap DOMAIN store' : store'[x] # store[x] =>
          CASE store[x].class = "namespace" ->
                  \/ Landed(store[x].securityCouncil)
                  \/ /\ Landed(store[x].reviewCouncil)
                     /\ store'[x] = [store[x] EXCEPT !.proposalNonce = @ + 1]
            [] store[x].class = "proposal" ->
                  \/ Landed(store[store[x].ns].reviewCouncil)
                  \/ store'[x].votes = store[x].votes + 1
                     /\ store'[x].uri = store[x].uri
            [] store[x].class = "distribution" ->
                  Landed(store[store[x].ns].securityCouncil)
            [] OTHER -> FALSE
    /\ \A x \in DOMAIN store \ DOMAIN store' :
          IF store[x].class = "lockup" THEN Landed(store[x].owner)
          ELSE /\ store[x].class = "token"
               /\ store[x].authority \in DOMAIN store
               /\ LET r == store[store[x].authority]
                  IN  IF r.class = "lockup" THEN Landed(r.owner)
                      ELSE Landed(store[r.ns].securityCouncil)
    /\ \A x \in DOMAIN store' \ DOMAIN store :
          /\ store'[x].class = "voteRecord" => Landed(store'[x].owner)
          /\ store'[x].class = "lockup" =>
                \/ Landed(store'[x].owner)
                \/ Landed(store[store'[x].ns].securityCouncil)
          /\ store'[x].class = "distributionClaim" =>
                LET d == store[store'[x].distribution]
                IN  Landed(d.cosigner1) /\ Landed(d.cosigner2)

\* What belongs to a council changes only by a transaction that the council
\* in force of the account's own namespace signed, and what belongs to a
\* holder only by one the holder signed; stake_to alone acts for a holder.
ActsAreSigned == [][StepIsSigned]_txVars

=============================================================================
