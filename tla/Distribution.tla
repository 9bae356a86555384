---------------------------- MODULE Distribution ----------------------------
(***************************************************************************)
(* Token distributions of one namespace: init_distribution,                *)
(* update_distribution, claim_from_distribution, withdraw_from_distribution*)
(* and the council rotation of update_namespace.  Both cosigners sign a    *)
(* claim off chain; the signed claim may be sent late, again, on another   *)
(* shard, or never, and lands in any order with everything else.           *)
(*                                                                         *)
(* One token mint is modelled; each instruction is atomic.                 *)
(***************************************************************************)
EXTENDS Integers, FiniteSets, Functions

CONSTANTS
    Uuids,          \* the fresh keys that name distributions
    Cosigners,
    Claimants,
    Councils,       \* keys that may be the security council
    Shards,         \* token accounts that a distribution may own
    Digests,        \* values of args.cosigned_msg
    Requests,       \* claims that may be prepared and signed
    Addresses,      \* distribution addresses that may be used
    StartTimes,     \* values of args.start_ts
    Supply,         \* tokens the funders hold
    MaxTime         \* bound on the clock

VARIABLES
    now,
    security_council,
    distribution,   \* Distribution account at each address
    shard,          \* token accounts with a distribution as authority
    claim,          \* DistributionClaim account of each digest
    claimed,        \* balance of each claimant's token account
    council_wallet, \* balance of each council's token account
    funds,          \* tokens the funders still hold
    signatures      \* cosigners that have signed each request

vars == <<now, security_council, distribution, shard, claim, claimed,
          council_wallet, funds, signatures>>

\* A distribution's address is derived from its uuid and both cosigners.
AddressType == [uuid : Uuids, cosigner_1 : Cosigners, cosigner_2 : Cosigners]

\* The arguments and accounts of a claim transaction.
RequestType ==
    [distribution : Addresses, claimant : Claimants, shard : Shards,
     amount : Nat, cosigned_msg : Digests]

ASSUME DistributionAssumption ==
    /\ IsFiniteSet(Shards) /\ IsFiniteSet(Digests)
    /\ IsFiniteSet(Claimants) /\ IsFiniteSet(Councils)
    /\ Addresses \subseteq AddressType
    /\ Requests \subseteq RequestType
    /\ StartTimes \subseteq Int
    /\ Supply \in Nat
    /\ MaxTime \in Nat

NoDistribution == [open |-> FALSE, start_ts |-> 0]

NoClaim == [open |-> FALSE]

ClaimType ==
    [open : {TRUE}, distribution : Addresses, claimant : Claimants, amount : Nat]

NoShard == [open |-> FALSE, balance |-> 0]

ShardType == [open : {TRUE}, authority : Addresses, balance : Nat]

----------------------------------------------------------------------------
\* Anyone may create a distribution; the uuid's key signs.
InitDistribution(d, start_ts) ==
    /\ ~distribution[d].open
    /\ distribution' = [distribution EXCEPT ![d] = [open |-> TRUE, start_ts |-> start_ts]]
    /\ UNCHANGED <<now, security_council, shard, claim, claimed,
                   council_wallet, funds, signatures>>

UpdateDistribution(signer, d, start_ts) ==
    /\ signer = security_council
    /\ distribution[d].open
    /\ distribution' = [distribution EXCEPT ![d].start_ts = start_ts]
    /\ UNCHANGED <<now, security_council, shard, claim, claimed,
                   council_wallet, funds, signatures>>

\* Mutated form: the second cosigner is not compared.
CosignedOnce(d, signers) == d.cosigner_1 \in signers

\* has_one on both cosigners, both of which must have signed.
Cosigned(d, signers) == d.cosigner_1 \in signers /\ d.cosigner_2 \in signers

\* Mutated form: any token account of the program will do.
AnyShard(s, d) == shard[s].open

\* The token account must be one of this distribution's.
ShardOf(s, d) == shard[s].open /\ shard[s].authority = d

\* Mutated form: init_if_needed instead of init.
ClaimReused(digest) == TRUE

\* init: the claim's address is derived from the digest alone.
ClaimFree(digest) == ~claim[digest].open

\* Mutated form: the balance constraint is missing.
ShardUnchecked(s, amount) == TRUE

ShardCovers(s, amount) == shard[s].balance >= amount

CanClaim(r) ==
    /\ distribution[r.distribution].open
    /\ Cosigned(r.distribution, signatures[r])
    /\ ClaimFree(r.cosigned_msg)
    /\ distribution[r.distribution].start_ts <= now
    /\ ShardOf(r.shard, r.distribution)
    /\ ShardCovers(r.shard, r.amount)

ClaimFromDistribution(r) ==
    /\ CanClaim(r)
    /\ claim' = [claim EXCEPT ![r.cosigned_msg] =
                     [open |-> TRUE, distribution |-> r.distribution,
                      claimant |-> r.claimant, amount |-> r.amount]]
    /\ shard' = [shard EXCEPT ![r.shard].balance = @ - r.amount]
    /\ claimed' = [claimed EXCEPT ![r.claimant] = @ + r.amount]
    /\ UNCHANGED <<now, security_council, distribution, council_wallet, funds,
                   signatures>>

\* Mutated form: the account is closed without the transfer.
WithdrawOnlyCloses(signer, d, s) ==
    /\ signer = security_council
    /\ distribution[d].open
    /\ ShardOf(s, d)
    /\ shard' = [shard EXCEPT ![s] = NoShard]
    /\ UNCHANGED <<now, security_council, distribution, claim, claimed,
                   council_wallet, funds, signatures>>

\* The whole balance goes to the council and the account is closed.
WithdrawFromDistribution(signer, d, s) ==
    /\ signer = security_council
    /\ distribution[d].open
    /\ ShardOf(s, d)
    /\ council_wallet' = [council_wallet EXCEPT ![signer] = @ + shard[s].balance]
    /\ shard' = [shard EXCEPT ![s] = NoShard]
    /\ UNCHANGED <<now, security_council, distribution, claim, claimed, funds,
                   signatures>>

----------------------------------------------------------------------------
\* The environment: update_namespace hands the council over, funders open
\* and fill shards, cosigners sign, time passes.
RotateCouncil(signer, next) ==
    /\ signer = security_council
    /\ security_council' = next
    /\ UNCHANGED <<now, distribution, shard, claim, claimed, council_wallet,
                   funds, signatures>>

OpenShard(s, d) ==
    /\ ~shard[s].open
    /\ shard' = [shard EXCEPT ![s] = [open |-> TRUE, authority |-> d, balance |-> 0]]
    /\ UNCHANGED <<now, security_council, distribution, claim, claimed,
                   council_wallet, funds, signatures>>

FundShard(s) ==
    /\ shard[s].open
    /\ funds >= 1
    /\ funds' = funds - 1
    /\ shard' = [shard EXCEPT ![s].balance = @ + 1]
    /\ UNCHANGED <<now, security_council, distribution, claim, claimed,
                   council_wallet, signatures>>

Sign(cosigner, r) ==
    /\ signatures' = [signatures EXCEPT ![r] = @ \cup {cosigner}]
    /\ UNCHANGED <<now, security_council, distribution, shard, claim, claimed,
                   council_wallet, funds>>

Tick ==
    /\ now < MaxTime
    /\ now' = now + 1
    /\ UNCHANGED <<security_council, distribution, shard, claim, claimed,
                   council_wallet, funds, signatures>>

----------------------------------------------------------------------------
Init ==
    /\ now = 0
    /\ security_council \in Councils
    /\ distribution = [d \in Addresses |-> NoDistribution]
    /\ shard = [s \in Shards |-> NoShard]
    /\ claim = [m \in Digests |-> NoClaim]
    /\ claimed = [k \in Claimants |-> 0]
    /\ council_wallet = [k \in Councils |-> 0]
    /\ funds = Supply
    /\ signatures = [r \in Requests |-> {}]

DistributionNext ==
    \/ \E d \in Addresses, start_ts \in StartTimes : InitDistribution(d, start_ts)
    \/ \E signer \in Councils, d \in Addresses, start_ts \in StartTimes :
          UpdateDistribution(signer, d, start_ts)
    \/ \E r \in Requests : ClaimFromDistribution(r)
    \/ \E signer \in Councils, d \in Addresses, s \in Shards :
          WithdrawFromDistribution(signer, d, s)

Environment ==
    \/ \E signer, next \in Councils : RotateCouncil(signer, next)
    \/ \E s \in Shards, d \in Addresses : OpenShard(s, d)
    \/ \E s \in Shards : FundShard(s)
    \/ \E cosigner \in Cosigners, r \in Requests : Sign(cosigner, r)
    \/ Tick

Next == DistributionNext \/ Environment

Spec == Init /\ [][Next]_vars

----------------------------------------------------------------------------
(***************************************************************************)
(* Properties                                                              *)
(***************************************************************************)

TypeOK ==
    /\ now \in 0 .. MaxTime
    /\ security_council \in Councils
    /\ distribution \in [Addresses -> [open : BOOLEAN, start_ts : Int]]
    /\ shard \in [Shards -> ShardType \cup {NoShard}]
    /\ claim \in [Digests -> ClaimType \cup {NoClaim}]
    /\ claimed \in [Claimants -> Nat]
    /\ council_wallet \in [Councils -> Nat]
    /\ funds \in Nat
    /\ signatures \in [Requests -> SUBSET Cosigners]

\* Every token a claimant received is accounted for by exactly one claim
\* account: however often a signed claim is sent again, on whichever shard,
\* a digest pays once.
PaidOnce ==
    \A k \in Claimants :
        claimed[k] = SumFunction([m \in Digests |->
            IF claim[m].open /\ claim[m].claimant = k THEN claim[m].amount ELSE 0])

\* "The cosigned_msg should be independently signed by both 2FA cosigners":
\* what was paid is what both cosigners of that distribution had signed.
ClaimsAreCosigned ==
    \A m \in Digests : claim[m].open =>
        \E r \in Requests :
            /\ r.cosigned_msg = m
            /\ r.distribution = claim[m].distribution
            /\ r.claimant = claim[m].claimant
            /\ r.amount = claim[m].amount
            /\ {r.distribution.cosigner_1, r.distribution.cosigner_2} \subseteq signatures[r]

\* No token is lost or made: not by a claim, not by closing a shard.
TokensConserved ==
    Supply = funds + SumFunction([s \in Shards |-> shard[s].balance])
                   + SumFunction(claimed) + SumFunction(council_wallet)

\* Shards and claims implement Payouts: a distribution's pot is what its
\* shards hold together, so no distribution pays with another's tokens, and
\* a withdrawal racing a claim takes back only what is there.
Pot(d) == SumFunction([s \in Shards |-> IF ShardOf(s, d) THEN shard[s].balance ELSE 0])

Abstract == INSTANCE Payouts WITH
    Distributions <- Addresses,
    Vouchers <- Digests,
    pot <- [d \in Addresses |-> Pot(d)],
    settled <- claim

ImplementsPayouts == Abstract!Spec

=============================================================================
