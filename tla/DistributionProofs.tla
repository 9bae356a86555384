------------------------- MODULE DistributionProofs -------------------------
(***************************************************************************)
(* Theorems about Distribution, for every set of distributions, shards,    *)
(* digests, requests and councils, and for any supply.                     *)
(***************************************************************************)
EXTENDS Distribution, SumProofs

\* The fields of a request.
LEMMA RequestFields ==
    ASSUME NEW r \in Requests
    PROVE  /\ r.distribution \in Addresses /\ r.claimant \in Claimants
           /\ r.shard \in Shards /\ r.amount \in Nat /\ r.cosigned_msg \in Digests
BY DistributionAssumption DEF RequestType

\* A distribution's address names its cosigners.
LEMMA CosignersOfAddress ==
    ASSUME NEW d \in Addresses
    PROVE  d.cosigner_1 \in Cosigners /\ d.cosigner_2 \in Cosigners
BY DistributionAssumption DEF AddressType

\* What is known of an open shard, and of a closed one.
LEMMA ShardFields ==
    ASSUME TypeOK, NEW s \in Shards
    PROVE  /\ shard[s].balance \in Nat
           /\ shard[s].open => shard[s] \in ShardType /\ shard[s].authority \in Addresses
           /\ ~shard[s].open => shard[s] = NoShard
<1>1. shard[s] \in ShardType \cup {NoShard}
  BY DEF TypeOK
<1>2. CASE shard[s] \in ShardType
  BY <1>2 DEF ShardType
<1>3. CASE shard[s] = NoShard
  BY <1>3 DEF NoShard
<1> QED
  BY <1>1, <1>2, <1>3

\* The same for claims.
LEMMA ClaimFields ==
    ASSUME TypeOK, NEW m \in Digests
    PROVE  /\ claim[m].open => claim[m] \in ClaimType
           /\ ~claim[m].open => claim[m] = NoClaim
<1>1. claim[m] \in ClaimType \cup {NoClaim}
  BY DEF TypeOK
<1>2. CASE claim[m] \in ClaimType
  BY <1>2 DEF ClaimType
<1>3. CASE claim[m] = NoClaim
  BY <1>3 DEF NoClaim
<1> QED
  BY <1>1, <1>2, <1>3

\* What a claim writes: the digest's account, one shard less by the amount,
\* one claimant richer by it.
LEMMA ClaimEffect ==
    ASSUME TypeOK, NEW r \in Requests, ClaimFromDistribution(r)
    PROVE  LET paid == [open |-> TRUE, distribution |-> r.distribution,
                        claimant |-> r.claimant, amount |-> r.amount]
               left == [shard[r.shard] EXCEPT !.balance = @ - r.amount]
           IN  /\ claim[r.cosigned_msg] = NoClaim /\ paid \in ClaimType
               /\ \A m \in Digests : claim'[m] = IF m = r.cosigned_msg THEN paid ELSE claim[m]
               /\ shard[r.shard].open /\ shard[r.shard].authority = r.distribution
               /\ r.amount <= shard[r.shard].balance
               /\ left \in ShardType /\ left.authority = r.distribution
               /\ left.balance = shard[r.shard].balance - r.amount
               /\ \A s \in Shards : shard'[s] = IF s = r.shard THEN left ELSE shard[s]
               /\ \A k \in Claimants :
                     claimed'[k] = IF k = r.claimant THEN claimed[k] + r.amount ELSE claimed[k]
<1> DEFINE paid == [open |-> TRUE, distribution |-> r.distribution,
                    claimant |-> r.claimant, amount |-> r.amount]
           left == [shard[r.shard] EXCEPT !.balance = @ - r.amount]
<1>1. /\ r.distribution \in Addresses /\ r.claimant \in Claimants
      /\ r.shard \in Shards /\ r.amount \in Nat /\ r.cosigned_msg \in Digests
  BY RequestFields
<1>2. /\ claim' = [claim EXCEPT ![r.cosigned_msg] = paid]
      /\ shard' = [shard EXCEPT ![r.shard].balance = @ - r.amount]
      /\ claimed' = [claimed EXCEPT ![r.claimant] = @ + r.amount]
      /\ ~claim[r.cosigned_msg].open
      /\ shard[r.shard].open /\ shard[r.shard].authority = r.distribution
      /\ shard[r.shard].balance >= r.amount
  BY DEF ClaimFromDistribution, CanClaim, ClaimFree, ShardOf, ShardCovers
<1>3. /\ claim \in [Digests -> ClaimType \cup {NoClaim}]
      /\ shard \in [Shards -> ShardType \cup {NoShard}]
      /\ claimed \in [Claimants -> Nat]
  BY DEF TypeOK
<1>4. claim[r.cosigned_msg] = NoClaim /\ paid \in ClaimType
  BY <1>1, <1>2, ClaimFields DEF ClaimType
<1>5. shard[r.shard] \in ShardType /\ shard[r.shard].balance \in Nat
  BY <1>1, <1>2, ShardFields
<1>6. left \in ShardType /\ left.authority = r.distribution
      /\ left.balance = shard[r.shard].balance - r.amount
  <2>1. shard[r.shard].balance - r.amount \in Nat
    BY <1>1, <1>2, <1>5
  <2> QED
    BY <1>2, <1>5, <2>1 DEF ShardType
<1>7. \A m \in Digests : claim'[m] = IF m = r.cosigned_msg THEN paid ELSE claim[m]
  BY <1>2, <1>3
<1>8. \A s \in Shards : shard'[s] = IF s = r.shard THEN left ELSE shard[s]
  BY <1>2, <1>3
<1>9. \A k \in Claimants :
         claimed'[k] = IF k = r.claimant THEN claimed[k] + r.amount ELSE claimed[k]
  BY <1>2, <1>3
<1> QED
  BY <1>2, <1>4, <1>6, <1>7, <1>8, <1>9

\* What a withdrawal writes.
LEMMA WithdrawEffect ==
    ASSUME TypeOK, NEW signer \in Councils, NEW d \in Addresses, NEW t \in Shards,
           WithdrawFromDistribution(signer, d, t)
    PROVE  /\ shard[t].open /\ shard[t].authority = d
           /\ \A s \in Shards : shard'[s] = IF s = t THEN NoShard ELSE shard[s]
           /\ \A k \in Councils : council_wallet'[k] =
                 IF k = signer THEN council_wallet[k] + shard[t].balance ELSE council_wallet[k]
BY DEF WithdrawFromDistribution, ShardOf, TypeOK

\* What funders write.
LEMMA OpenShardEffect ==
    ASSUME TypeOK, NEW t \in Shards, NEW d \in Addresses, OpenShard(t, d)
    PROVE  LET new == [open |-> TRUE, authority |-> d, balance |-> 0]
           IN  /\ shard[t] = NoShard /\ new \in ShardType
               /\ \A s \in Shards : shard'[s] = IF s = t THEN new ELSE shard[s]
BY ShardFields DEF OpenShard, ShardType, TypeOK

\* One token moves from the funders to a shard.
LEMMA FundShardEffect ==
    ASSUME TypeOK, NEW t \in Shards, FundShard(t)
    PROVE  LET more == [shard[t] EXCEPT !.balance = @ + 1]
           IN  /\ shard[t].open /\ shard[t].authority \in Addresses
               /\ more \in ShardType /\ more.open /\ more.authority = shard[t].authority
               /\ more.balance = shard[t].balance + 1
               /\ \A s \in Shards : shard'[s] = IF s = t THEN more ELSE shard[s]
               /\ funds' = funds - 1 /\ funds >= 1
<1> DEFINE more == [shard[t] EXCEPT !.balance = @ + 1]
<1>1. /\ shard' = [shard EXCEPT ![t].balance = @ + 1]
      /\ shard[t].open /\ funds' = funds - 1 /\ funds >= 1
      /\ shard \in [Shards -> ShardType \cup {NoShard}]
  BY DEF FundShard, TypeOK
<1>2. shard[t] \in ShardType /\ shard[t].balance \in Nat /\ shard[t].authority \in Addresses
  BY <1>1, ShardFields
<1>3. /\ more \in ShardType /\ more.open /\ more.authority = shard[t].authority
      /\ more.balance = shard[t].balance + 1
  <2>1. shard[t].balance + 1 \in Nat
    BY <1>2
  <2> QED
    BY <1>2, <2>1 DEF ShardType
<1>4. \A s \in Shards : shard'[s] = IF s = t THEN more ELSE shard[s]
  BY <1>1
<1> QED
  BY <1>1, <1>2, <1>3, <1>4

----------------------------------------------------------------------------
(***************************************************************************)
(* Types.                                                                  *)
(***************************************************************************)

\* Nothing is open at the start.
LEMMA InitTypes == Init => TypeOK
<1> SUFFICES ASSUME Init PROVE TypeOK
  OBVIOUS
<1>1. 0 \in 0 .. MaxTime /\ Supply \in Nat
  BY DistributionAssumption
<1>2. NoDistribution \in [open : BOOLEAN, start_ts : Int]
  BY DEF NoDistribution
<1> QED
  BY <1>1, <1>2 DEF Init, TypeOK

\* A claim moves naturals, the shard's balance having been compared.
LEMMA ClaimTypes ==
    ASSUME TypeOK, NEW r \in Requests, ClaimFromDistribution(r)
    PROVE  TypeOK'
<1>1. /\ r.claimant \in Claimants /\ r.shard \in Shards /\ r.amount \in Nat
      /\ r.cosigned_msg \in Digests
  BY RequestFields
<1> DEFINE paid == [open |-> TRUE, distribution |-> r.distribution,
                    claimant |-> r.claimant, amount |-> r.amount]
           left == [shard[r.shard] EXCEPT !.balance = @ - r.amount]
<1>2. /\ claim' = [claim EXCEPT ![r.cosigned_msg] = paid]
      /\ shard' = [shard EXCEPT ![r.shard] = left]
      /\ claimed' = [claimed EXCEPT ![r.claimant] = @ + r.amount]
      /\ UNCHANGED <<now, security_council, distribution, council_wallet, funds,
                     signatures>>
  BY DEF ClaimFromDistribution
<1>3. paid \in ClaimType /\ left \in ShardType
  BY ClaimEffect
<1> HIDE DEF paid, left
<1>4. claim' \in [Digests -> ClaimType \cup {NoClaim}]
  BY <1>2, <1>3 DEF TypeOK
<1>5. shard' \in [Shards -> ShardType \cup {NoShard}]
  BY <1>2, <1>3 DEF TypeOK
<1>6. claimed' \in [Claimants -> Nat]
  <2>1. claimed[r.claimant] + r.amount \in Nat
    BY <1>1 DEF TypeOK
  <2> QED
    BY <1>2, <2>1 DEF TypeOK
<1> QED
  BY <1>2, <1>4, <1>5, <1>6 DEF TypeOK

\* Every step keeps the types.
LEMMA NextTypes == TypeOK /\ [Next]_vars => TypeOK'
<1> SUFFICES ASSUME TypeOK, [Next]_vars PROVE TypeOK'
  OBVIOUS
<1> USE DistributionAssumption
<1>1. ASSUME NEW d \in Addresses, NEW start_ts \in StartTimes,
             InitDistribution(d, start_ts)
      PROVE  TypeOK'
  <2>1. [open |-> TRUE, start_ts |-> start_ts] \in [open : BOOLEAN, start_ts : Int]
    OBVIOUS
  <2>2. distribution' \in [Addresses -> [open : BOOLEAN, start_ts : Int]]
    BY <1>1, <2>1 DEF InitDistribution, TypeOK
  <2> QED
    BY <1>1, <2>2 DEF InitDistribution, TypeOK
<1>2. ASSUME NEW signer \in Councils, NEW d \in Addresses, NEW start_ts \in StartTimes,
             UpdateDistribution(signer, d, start_ts)
      PROVE  TypeOK'
  <2>1. [distribution[d] EXCEPT !.start_ts = start_ts] \in [open : BOOLEAN, start_ts : Int]
    BY DEF TypeOK
  <2>2. distribution' \in [Addresses -> [open : BOOLEAN, start_ts : Int]]
    BY <1>2, <2>1 DEF UpdateDistribution, TypeOK
  <2> QED
    BY <1>2, <2>2 DEF UpdateDistribution, TypeOK
<1>3. ASSUME NEW r \in Requests, ClaimFromDistribution(r)
      PROVE  TypeOK'
  BY <1>3, ClaimTypes
<1>4. ASSUME NEW signer \in Councils, NEW d \in Addresses, NEW t \in Shards,
             WithdrawFromDistribution(signer, d, t)
      PROVE  TypeOK'
  <2>1. council_wallet[signer] + shard[t].balance \in Nat
    BY ShardFields DEF TypeOK
  <2>2. council_wallet' \in [Councils -> Nat]
    BY <1>4, <2>1 DEF WithdrawFromDistribution, TypeOK
  <2>3. shard' \in [Shards -> ShardType \cup {NoShard}]
    BY <1>4 DEF WithdrawFromDistribution, TypeOK
  <2> QED
    BY <1>4, <2>2, <2>3 DEF WithdrawFromDistribution, TypeOK
<1>5. ASSUME NEW signer \in Councils, NEW next \in Councils, RotateCouncil(signer, next)
      PROVE  TypeOK'
  BY <1>5 DEF RotateCouncil, TypeOK
<1>6. ASSUME NEW t \in Shards, NEW d \in Addresses, OpenShard(t, d)
      PROVE  TypeOK'
  <2>1. shard' \in [Shards -> ShardType \cup {NoShard}]
    BY <1>6, OpenShardEffect DEF OpenShard, TypeOK
  <2> QED
    BY <1>6, <2>1 DEF OpenShard, TypeOK
<1>7. ASSUME NEW t \in Shards, FundShard(t)
      PROVE  TypeOK'
  <2>1. shard' \in [Shards -> ShardType \cup {NoShard}]
    BY <1>7, FundShardEffect DEF FundShard, TypeOK
  <2>2. funds' \in Nat
    BY <1>7 DEF FundShard, TypeOK
  <2> QED
    BY <1>7, <2>1, <2>2 DEF FundShard, TypeOK
<1>8. ASSUME NEW cosigner \in Cosigners, NEW r \in Requests, Sign(cosigner, r)
      PROVE  TypeOK'
  <2>1. signatures[r] \cup {cosigner} \in SUBSET Cosigners
    BY DEF TypeOK
  <2>2. signatures' \in [Requests -> SUBSET Cosigners]
    BY <1>8, <2>1 DEF Sign, TypeOK
  <2> QED
    BY <1>8, <2>2 DEF Sign, TypeOK
<1>9. CASE Tick
  BY <1>9 DEF Tick, TypeOK
<1>10. CASE UNCHANGED vars
  BY <1>10 DEF vars, TypeOK
<1> QED
  BY <1>1, <1>2, <1>3, <1>4, <1>5, <1>6, <1>7, <1>8, <1>9, <1>10
  DEF Next, DistributionNext, Environment

\* The variables of Distribution always have their types.
THEOREM TypeCorrect == Spec => []TypeOK
BY InitTypes, NextTypes, PTL DEF Spec

----------------------------------------------------------------------------
(***************************************************************************)
(* Each digest pays once.                                                  *)
(***************************************************************************)

\* What the claim accounts say each digest paid to k.
PaidTable(k) ==
    [m \in Digests |->
        IF claim[m].open /\ claim[m].claimant = k THEN claim[m].amount ELSE 0]

\* Its values are naturals.
LEMMA PaidTableType ==
    ASSUME TypeOK, NEW k \in Claimants
    PROVE  PaidTable(k) \in [Digests -> Nat]
<1>1. \A m \in Digests : claim[m].open => claim[m].amount \in Nat
  BY ClaimFields DEF ClaimType
<1> QED
  BY <1>1 DEF PaidTable

\* Nobody has been paid at the start.
LEMMA InitPaid == Init => PaidOnce
<1> SUFFICES ASSUME Init, NEW k \in Claimants
             PROVE  claimed[k] = SumFunction(PaidTable(k))
  BY DEF PaidOnce, PaidTable
<1>1. PaidTable(k) = [m \in Digests |-> 0]
  BY DEF Init, NoClaim, PaidTable
<1>2. SumFunction([m \in Digests |-> 0]) = 0
  BY ZeroSum, DistributionAssumption
<1> QED
  BY <1>1, <1>2 DEF Init

\* A claim adds the amount to one claimant's balance and to one entry of that
\* claimant's table, which was zero because the digest's account was free.
LEMMA ClaimPaysOnce ==
    ASSUME TypeOK, TypeOK', PaidOnce, NEW r \in Requests, ClaimFromDistribution(r)
    PROVE  PaidOnce'
<1> SUFFICES ASSUME NEW k \in Claimants
             PROVE  claimed'[k] = SumFunction(PaidTable(k)')
  BY DEF PaidOnce, PaidTable
<1> DEFINE m0 == r.cosigned_msg
           f == PaidTable(k)
           h == PaidTable(k)'
<1>1. m0 \in Digests /\ r.amount \in Nat
  BY RequestFields
<1>2. f \in [Digests -> Nat] /\ h \in [Digests -> Nat]
  <2>1. f \in [Digests -> Nat]
    BY PaidTableType
  <2>2. ASSUME NEW m \in Digests, claim'[m].open
        PROVE  claim'[m].amount \in Nat
    <3>1. claim'[m] \in ClaimType \/ claim'[m] = NoClaim
      BY DEF TypeOK
    <3>2. claim'[m] # NoClaim
      BY <2>2 DEF NoClaim
    <3> QED
      BY <3>1, <3>2 DEF ClaimType
  <2> QED
    BY <2>1, <2>2 DEF PaidTable
<1>3. claimed[k] = SumFunction(f) /\ SumFunction(f) \in Nat
  BY <1>2, SumBounds, DistributionAssumption DEF PaidOnce, PaidTable
<1>4. /\ claim[m0] = NoClaim
      /\ \A m \in Digests \ {m0} : claim'[m] = claim[m]
      /\ claim'[m0] = [open |-> TRUE, distribution |-> r.distribution,
                       claimant |-> r.claimant, amount |-> r.amount]
      /\ claimed'[k] = IF k = r.claimant THEN claimed[k] + r.amount ELSE claimed[k]
  BY <1>1, ClaimEffect
<1>5. \A m \in Digests \ {m0} : h[m] = f[m]
  BY <1>4 DEF PaidTable
<1>6. f[m0] = 0 /\ h[m0] = IF k = r.claimant THEN r.amount ELSE 0
  BY <1>1, <1>4 DEF PaidTable, NoClaim
<1> HIDE DEF f, h, m0
<1>7. SumFunction(h) = SumFunction(f) - f[m0] + h[m0]
  BY <1>1, <1>2, <1>5, SumChange, DistributionAssumption
<1>8. claimed'[k] = SumFunction(h)
  BY <1>1, <1>3, <1>4, <1>6, <1>7
<1> QED
  BY <1>8 DEF h

\* Only a claim touches claim accounts and claimants.
LEMMA OnlyClaimsPay ==
    ASSUME [Next]_vars
    PROVE  \/ \E r \in Requests : ClaimFromDistribution(r)
           \/ UNCHANGED <<claim, claimed>>
BY DEF Next, DistributionNext, Environment, InitDistribution, UpdateDistribution,
       WithdrawFromDistribution, RotateCouncil, OpenShard, FundShard, Sign, Tick, vars

\* Every step keeps the payments those of the claim accounts.
LEMMA NextPaid == TypeOK /\ PaidOnce /\ [Next]_vars => PaidOnce'
<1> SUFFICES ASSUME TypeOK, PaidOnce, [Next]_vars PROVE PaidOnce'
  OBVIOUS
<1>1. TypeOK'
  BY NextTypes
<1>2. CASE \E r \in Requests : ClaimFromDistribution(r)
  BY <1>1, <1>2, ClaimPaysOnce
<1>3. CASE UNCHANGED <<claim, claimed>>
  BY <1>3 DEF PaidOnce
<1> QED
  BY <1>2, <1>3, OnlyClaimsPay

\* However often a signed claim is sent again, on whichever shard, its digest
\* pays once: what claimants hold is always what the claim accounts say.
THEOREM DigestsPayOnce == Spec => []PaidOnce
BY InitPaid, NextPaid, TypeCorrect, PTL DEF Spec

----------------------------------------------------------------------------
(***************************************************************************)
(* Both cosigners signed what was paid.                                    *)
(***************************************************************************)

\* Signatures are never taken back.
LEMMA SignaturesGrow ==
    ASSUME TypeOK, [Next]_vars, NEW r \in Requests
    PROVE  signatures[r] \subseteq signatures'[r]
<1>1. ASSUME NEW cosigner \in Cosigners, NEW q \in Requests, Sign(cosigner, q)
      PROVE  signatures[r] \subseteq signatures'[r]
  BY <1>1 DEF Sign, TypeOK
<1>2. CASE UNCHANGED signatures
  BY <1>2
<1> QED
  BY <1>1, <1>2 DEF Next, DistributionNext, Environment, InitDistribution,
       UpdateDistribution, ClaimFromDistribution, WithdrawFromDistribution,
       RotateCouncil, OpenShard, FundShard, Tick, vars

\* Every step keeps each claim backed by a request that both have signed.
LEMMA NextCosigned == TypeOK /\ ClaimsAreCosigned /\ [Next]_vars => ClaimsAreCosigned'
<1> SUFFICES ASSUME TypeOK, ClaimsAreCosigned, [Next]_vars,
                    NEW m \in Digests, claim'[m].open
             PROVE  \E r \in Requests :
                       /\ r.cosigned_msg = m
                       /\ r.distribution = claim'[m].distribution
                       /\ r.claimant = claim'[m].claimant
                       /\ r.amount = claim'[m].amount
                       /\ {r.distribution.cosigner_1, r.distribution.cosigner_2}
                             \subseteq signatures'[r]
  BY DEF ClaimsAreCosigned
<1>1. CASE claim'[m] = claim[m]
  <2>1. PICK r \in Requests :
               /\ r.cosigned_msg = m
               /\ r.distribution = claim[m].distribution
               /\ r.claimant = claim[m].claimant
               /\ r.amount = claim[m].amount
               /\ {r.distribution.cosigner_1, r.distribution.cosigner_2} \subseteq signatures[r]
    BY <1>1 DEF ClaimsAreCosigned
  <2>2. {r.distribution.cosigner_1, r.distribution.cosigner_2} \subseteq signatures'[r]
    BY <2>1, SignaturesGrow
  <2> QED
    BY <1>1, <2>1, <2>2
<1>2. CASE claim'[m] # claim[m]
  <2>1. PICK r \in Requests : ClaimFromDistribution(r)
    BY <1>2, OnlyClaimsPay
  <2>2. /\ m = r.cosigned_msg
        /\ claim'[m] = [open |-> TRUE, distribution |-> r.distribution,
                        claimant |-> r.claimant, amount |-> r.amount]
    BY <1>2, <2>1, ClaimEffect
  <2>3. {r.distribution.cosigner_1, r.distribution.cosigner_2} \subseteq signatures'[r]
    BY <2>1 DEF ClaimFromDistribution, CanClaim, Cosigned
  <2> QED
    BY <2>2, <2>3
<1> QED
  BY <1>1, <1>2

\* Nothing has been claimed at the start.
LEMMA InitCosigned == Init => ClaimsAreCosigned
BY DEF Init, ClaimsAreCosigned, NoClaim

\* What was paid is what both cosigners of that distribution had signed.
THEOREM PaymentsAreCosigned == Spec => []ClaimsAreCosigned
BY InitCosigned, NextCosigned, TypeCorrect, PTL DEF Spec

----------------------------------------------------------------------------
(***************************************************************************)
(* No token is lost or made.                                               *)
(***************************************************************************)

Balances == [s \in Shards |-> shard[s].balance]

\* The three tables of tokens have naturals in them.
LEMMA BalancesType ==
    ASSUME TypeOK
    PROVE  /\ Balances \in [Shards -> Nat]
           /\ claimed \in [Claimants -> Nat]
           /\ council_wallet \in [Councils -> Nat]
           /\ SumFunction(Balances) \in Nat
           /\ SumFunction(claimed) \in Nat
           /\ SumFunction(council_wallet) \in Nat
           /\ funds \in Nat
<1>1. Balances \in [Shards -> Nat]
  BY ShardFields DEF Balances
<1>2. claimed \in [Claimants -> Nat] /\ council_wallet \in [Councils -> Nat] /\ funds \in Nat
  BY DEF TypeOK
<1>3. /\ IsFiniteSet(Shards) /\ IsFiniteSet(Claimants) /\ IsFiniteSet(Councils)
  BY DistributionAssumption
<1> QED
  BY <1>1, <1>2, <1>3, SumBounds

\* Changing one shard's balance changes the shards' total by the difference.
LEMMA BalancesChange ==
    ASSUME TypeOK, TypeOK', NEW t \in Shards, NEW n \in Nat,
           shard'[t].balance = n, \A s \in Shards \ {t} : shard'[s] = shard[s]
    PROVE  SumFunction(Balances') = SumFunction(Balances) - shard[t].balance + n
<1> DEFINE f == Balances
           h == Balances'
<1>1. f \in [Shards -> Nat]
  BY BalancesType
<1>2. \A s \in Shards : h[s] = IF s = t THEN n ELSE f[s]
  BY DEF Balances
<1>3. h \in [Shards -> Nat]
  <2>1. h = [s \in Shards |-> shard'[s].balance]
    BY DEF Balances
  <2> HIDE DEF h, f
  <2> QED
    BY <1>1, <1>2, <2>1
<1>4. f[t] = shard[t].balance
  BY DEF Balances
<1> HIDE DEF f, h
<1>5. SumFunction(h) = SumFunction(f) - f[t] + h[t]
  BY <1>1, <1>2, <1>3, SumChange, DistributionAssumption
<1> QED
  BY <1>2, <1>4, <1>5 DEF f, h

\* The whole supply is with the funders at the start.
LEMMA InitConserved == Init => TokensConserved
<1> SUFFICES ASSUME Init PROVE TokensConserved
  OBVIOUS
<1>1. Balances = [s \in Shards |-> 0]
  BY DEF Init, NoShard, Balances
<1>2. /\ SumFunction([s \in Shards |-> 0]) = 0
      /\ SumFunction([k \in Claimants |-> 0]) = 0
      /\ SumFunction([k \in Councils |-> 0]) = 0
  BY ZeroSum, DistributionAssumption
<1>3. Supply = Supply + 0 + 0 + 0
  BY DistributionAssumption
<1> QED
  BY <1>1, <1>2, <1>3 DEF Init, TokensConserved, Balances

\* A claim moves its amount from a shard to a claimant.
LEMMA ClaimConserves ==
    ASSUME TypeOK, TypeOK', TokensConserved, NEW r \in Requests, ClaimFromDistribution(r)
    PROVE  TokensConserved'
<1> DEFINE b == SumFunction(Balances)
           c == SumFunction(claimed)
           w == SumFunction(council_wallet)
           t == r.shard
<1>1. t \in Shards /\ r.claimant \in Claimants /\ r.amount \in Nat
  BY RequestFields
<1>2. /\ shard'[t].balance = shard[t].balance - r.amount
      /\ r.amount <= shard[t].balance
      /\ \A s \in Shards \ {t} : shard'[s] = shard[s]
      /\ \A k \in Claimants \ {r.claimant} : claimed'[k] = claimed[k]
      /\ claimed'[r.claimant] = claimed[r.claimant] + r.amount
  BY <1>1, ClaimEffect
<1>3. council_wallet' = council_wallet /\ funds' = funds
  BY DEF ClaimFromDistribution
<1>4. shard[t].balance \in Nat /\ shard[t].balance - r.amount \in Nat
  BY <1>1, <1>2, ShardFields
<1>5. SumFunction(Balances') = b - shard[t].balance + (shard[t].balance - r.amount)
  BY <1>1, <1>2, <1>4, BalancesChange
<1>6. claimed \in [Claimants -> Nat] /\ claimed' \in [Claimants -> Nat]
  BY DEF TypeOK
<1>7. SumFunction(claimed') = c - claimed[r.claimant] + claimed'[r.claimant]
  BY <1>1, <1>2, <1>6, SumChange, DistributionAssumption
<1>8. Supply = funds + b + c + w
  BY DEF TokensConserved, Balances
<1>9. b \in Nat /\ c \in Nat /\ w \in Nat /\ funds \in Nat
  BY BalancesType
<1>10. claimed[r.claimant] \in Nat
  BY <1>1, <1>6
<1> HIDE DEF b, c, w
<1>11. Supply = funds' + SumFunction(Balances') + SumFunction(claimed') + w
  BY <1>1, <1>2, <1>3, <1>4, <1>5, <1>7, <1>8, <1>9, <1>10
<1> QED
  BY <1>3, <1>11 DEF TokensConserved, Balances, w

\* A withdrawal moves a shard's whole balance to the council's account.
LEMMA WithdrawConserves ==
    ASSUME TypeOK, TypeOK', TokensConserved, NEW signer \in Councils, NEW d \in Addresses,
           NEW t \in Shards, WithdrawFromDistribution(signer, d, t)
    PROVE  TokensConserved'
<1> DEFINE b == SumFunction(Balances)
           c == SumFunction(claimed)
           w == SumFunction(council_wallet)
<1>1. /\ shard'[t].balance = 0
      /\ \A s \in Shards \ {t} : shard'[s] = shard[s]
      /\ \A k \in Councils \ {signer} : council_wallet'[k] = council_wallet[k]
      /\ council_wallet'[signer] = council_wallet[signer] + shard[t].balance
  BY WithdrawEffect DEF NoShard
<1>2. claimed' = claimed /\ funds' = funds
  BY DEF WithdrawFromDistribution
<1>3. shard[t].balance \in Nat
  BY ShardFields
<1>4. SumFunction(Balances') = b - shard[t].balance + 0
  BY <1>1, BalancesChange
<1>5. council_wallet \in [Councils -> Nat] /\ council_wallet' \in [Councils -> Nat]
  BY DEF TypeOK
<1>6. SumFunction(council_wallet') = w - council_wallet[signer] + council_wallet'[signer]
  BY <1>1, <1>5, SumChange, DistributionAssumption
<1>7. Supply = funds + b + c + w
  BY DEF TokensConserved, Balances
<1>8. b \in Nat /\ c \in Nat /\ w \in Nat /\ funds \in Nat
  BY BalancesType
<1>9. council_wallet[signer] \in Nat
  BY <1>5
<1> HIDE DEF b, c, w
<1>10. Supply = funds' + SumFunction(Balances') + c + SumFunction(council_wallet')
  BY <1>1, <1>2, <1>3, <1>4, <1>6, <1>7, <1>8, <1>9
<1> QED
  BY <1>2, <1>10 DEF TokensConserved, Balances, c

\* Every step keeps the supply.
LEMMA NextConserved == TypeOK /\ TokensConserved /\ [Next]_vars => TokensConserved'
<1> SUFFICES ASSUME TypeOK, TokensConserved, [Next]_vars PROVE TokensConserved'
  OBVIOUS
<1>1. TypeOK'
  BY NextTypes
<1>2. ASSUME NEW r \in Requests, ClaimFromDistribution(r)
      PROVE  TokensConserved'
  BY <1>1, <1>2, ClaimConserves
<1>3. ASSUME NEW signer \in Councils, NEW d \in Addresses, NEW t \in Shards,
             WithdrawFromDistribution(signer, d, t)
      PROVE  TokensConserved'
  BY <1>1, <1>3, WithdrawConserves
<1>4. Supply = funds + SumFunction(Balances) + SumFunction(claimed) + SumFunction(council_wallet)
  BY DEF TokensConserved, Balances
<1>5. /\ SumFunction(Balances) \in Nat /\ SumFunction(claimed) \in Nat
      /\ SumFunction(council_wallet) \in Nat /\ funds \in Nat
  BY BalancesType
<1>6. ASSUME NEW t \in Shards, NEW d \in Addresses, OpenShard(t, d)
      PROVE  TokensConserved'
  <2>1. /\ shard[t].balance = 0 /\ shard'[t].balance = 0
        /\ \A s \in Shards \ {t} : shard'[s] = shard[s]
    <3> DEFINE new == [open |-> TRUE, authority |-> d, balance |-> 0]
    <3>1. shard[t] = NoShard /\ \A s \in Shards : shard'[s] = IF s = t THEN new ELSE shard[s]
      BY <1>6, OpenShardEffect
    <3> QED
      BY <3>1 DEF NoShard
  <2>2. SumFunction(Balances') = SumFunction(Balances) - 0 + 0
    BY <1>1, <2>1, BalancesChange
  <2>3. funds' = funds /\ claimed' = claimed /\ council_wallet' = council_wallet
    BY <1>6 DEF OpenShard
  <2>4. SumFunction(Balances') = SumFunction(Balances)
    BY <1>5, <2>2
  <2> QED
    BY <1>4, <2>3, <2>4 DEF TokensConserved, Balances
<1>7. ASSUME NEW t \in Shards, FundShard(t)
      PROVE  TokensConserved'
  <2>1. /\ shard'[t].balance = shard[t].balance + 1
        /\ \A s \in Shards \ {t} : shard'[s] = shard[s]
        /\ funds' = funds - 1
    BY <1>7, FundShardEffect
  <2>2. shard[t].balance \in Nat /\ shard[t].balance + 1 \in Nat
    BY ShardFields
  <2>3. SumFunction(Balances') = SumFunction(Balances) - shard[t].balance + (shard[t].balance + 1)
    BY <1>1, <2>1, <2>2, BalancesChange
  <2>4. claimed' = claimed /\ council_wallet' = council_wallet
    BY <1>7 DEF FundShard
  <2>5. Supply = funds' + SumFunction(Balances') + SumFunction(claimed) + SumFunction(council_wallet)
    BY <1>4, <1>5, <2>1, <2>2, <2>3
  <2> QED
    BY <2>4, <2>5 DEF TokensConserved, Balances
<1>8. CASE UNCHANGED <<shard, claimed, council_wallet, funds>>
  BY <1>8 DEF TokensConserved
<1> QED
  BY <1>2, <1>3, <1>6, <1>7, <1>8 DEF Next, DistributionNext, Environment,
     InitDistribution, UpdateDistribution, RotateCouncil, Sign, Tick, vars

\* No claim, withdrawal or closed account loses a token or makes one.
THEOREM SupplyConserved == Spec => []TokensConserved
BY InitConserved, NextConserved, TypeCorrect, PTL DEF Spec

----------------------------------------------------------------------------
(***************************************************************************)
(* Distribution implements Payouts: the pot of a distribution is what its  *)
(* shards hold together, and a voucher is settled when its claim account   *)
(* exists.                                                                 *)
(***************************************************************************)

Pots == [d \in Addresses |-> Pot(d)]

\* What shard s adds to the pot of d.
Share(s, d) == IF ShardOf(s, d) THEN shard[s].balance ELSE 0

\* A pot is a natural, and holds what any of its shards holds.
LEMMA PotType ==
    ASSUME TypeOK, NEW d \in Addresses
    PROVE  /\ Pot(d) \in Nat
           /\ \A s \in Shards : Share(s, d) \in Nat /\ Share(s, d) <= Pot(d)
<1> DEFINE f == [s \in Shards |-> Share(s, d)]
<1>1. \A s \in Shards : Share(s, d) \in Nat
  BY ShardFields DEF Share
<1>2. f \in [Shards -> Nat]
  BY <1>1
<1>3. Pot(d) = SumFunction(f)
  BY DEF Pot, Share
<1>4. \A s \in Shards : f[s] = Share(s, d)
  OBVIOUS
<1> HIDE DEF f
<1>5. SumFunction(f) \in Nat /\ \A s \in Shards : f[s] <= SumFunction(f)
  BY <1>2, SumBounds, DistributionAssumption
<1> QED
  BY <1>1, <1>3, <1>4, <1>5

\* If one shard changes, a pot changes by what that shard adds to it.
LEMMA PotChange ==
    ASSUME TypeOK, TypeOK', NEW t \in Shards, NEW d \in Addresses,
           \A s \in Shards \ {t} : shard'[s] = shard[s]
    PROVE  Pot(d)' = Pot(d) - Share(t, d) + Share(t, d)'
<1> DEFINE f == [s \in Shards |-> Share(s, d)]
           h == [s \in Shards |-> Share(s, d)']
<1>1. f \in [Shards -> Nat]
  BY PotType
<1>2. h \in [Shards -> Nat]
  <2>1. ASSUME NEW s \in Shards PROVE Share(s, d)' \in Nat
    <3>1. shard'[s] \in ShardType \/ shard'[s] = NoShard
      BY DEF TypeOK
    <3>2. CASE shard'[s] \in ShardType
      BY <3>2 DEF ShardType, Share
    <3>3. CASE shard'[s] = NoShard
      BY <3>3 DEF NoShard, Share, ShardOf
    <3> QED
      BY <3>1, <3>2, <3>3
  <2> QED
    BY <2>1
<1>3. Pot(d) = SumFunction(f) /\ Pot(d)' = SumFunction(h)
  BY DEF Pot, Share
<1>4. \A s \in Shards \ {t} : h[s] = f[s]
  BY DEF Share, ShardOf
<1>5. f[t] = Share(t, d) /\ h[t] = Share(t, d)'
  OBVIOUS
<1> HIDE DEF f, h
<1>6. SumFunction(h) = SumFunction(f) - f[t] + h[t]
  BY <1>1, <1>2, <1>4, SumChange, DistributionAssumption
<1> QED
  BY <1>3, <1>5, <1>6

\* If all a step changes is one shard, which is distribution d's before and
\* after or closed, then only the pot of d changes.
LEMMA OnlyOnePotChanges ==
    ASSUME TypeOK, TypeOK', NEW t \in Shards, NEW d \in Addresses,
           \A s \in Shards \ {t} : shard'[s] = shard[s],
           shard[t].open => shard[t].authority = d,
           shard'[t].open => shard'[t].authority = d
    PROVE  Pots' = [Pots EXCEPT ![d] = Pot(d)']
<1>1. ASSUME NEW e \in Addresses \ {d} PROVE Pot(e)' = Pot(e)
  <2>1. Share(t, e) = 0 /\ Share(t, e)' = 0
    BY <1>1 DEF Share, ShardOf
  <2>2. Pot(e)' = Pot(e) - 0 + 0
    BY <2>1, PotChange
  <2> QED
    BY <2>2, PotType
<1>2. Pots' = [e \in Addresses |-> Pot(e)']
  BY DEF Pots
<1> QED
  BY <1>1, <1>2 DEF Pots

\* Pots start empty, and vouchers unsettled.
LEMMA InitMaps == Init => Abstract!Init
<1> SUFFICES ASSUME Init PROVE Abstract!Init
  OBVIOUS
<1>1. ASSUME NEW d \in Addresses PROVE Pot(d) = 0
  <2>1. [s \in Shards |-> IF ShardOf(s, d) THEN shard[s].balance ELSE 0] = [s \in Shards |-> 0]
    BY DEF Init, NoShard, ShardOf
  <2>2. SumFunction([s \in Shards |-> 0]) = 0
    BY ZeroSum, DistributionAssumption
  <2> QED
    BY <2>1, <2>2 DEF Pot
<1>2. claim = [m \in Digests |-> Abstract!Unsettled]
  BY DEF Init, NoClaim, Abstract!Unsettled
<1> QED
  BY <1>1, <1>2 DEF Abstract!Init

\* A claim settles its digest from its own distribution's pot.
LEMMA ClaimSettles ==
    ASSUME TypeOK, TypeOK', NEW r \in Requests, ClaimFromDistribution(r)
    PROVE  /\ r.amount \in 0 .. Pots[r.distribution]
           /\ Abstract!Settle(r.cosigned_msg, r.distribution, r.claimant, r.amount)
<1> DEFINE d == r.distribution
           t == r.shard
<1>1. d \in Addresses /\ t \in Shards /\ r.amount \in Nat /\ r.cosigned_msg \in Digests
  BY RequestFields
<1> DEFINE left == [shard[t] EXCEPT !.balance = @ - r.amount]
<1>2. /\ claim[r.cosigned_msg] = NoClaim
      /\ shard[t].open /\ shard[t].authority = d /\ r.amount <= shard[t].balance
      /\ left \in ShardType /\ left.authority = d
      /\ left.balance = shard[t].balance - r.amount
      /\ \A s \in Shards : shard'[s] = IF s = t THEN left ELSE shard[s]
  BY ClaimEffect
<1>3. /\ shard'[t].open /\ shard'[t].authority = d
      /\ shard'[t].balance = shard[t].balance - r.amount
      /\ \A s \in Shards \ {t} : shard'[s] = shard[s]
  BY <1>1, <1>2 DEF ShardType
<1>4. Share(t, d) = shard[t].balance /\ Share(t, d)' = shard[t].balance - r.amount
  BY <1>2, <1>3 DEF Share, ShardOf
<1>5. Pot(d) \in Nat /\ Share(t, d) \in Nat /\ Share(t, d) <= Pot(d)
  BY <1>1, PotType
<1>6. Pot(d)' = Pot(d) - r.amount
  <2>1. Pot(d)' = Pot(d) - Share(t, d) + Share(t, d)'
    BY <1>1, <1>3, PotChange
  <2> QED
    BY <1>1, <1>4, <1>5, <2>1
<1>7. r.amount <= Pot(d)
  BY <1>1, <1>2, <1>4, <1>5
<1>8. Pots' = [Pots EXCEPT ![d] = Pot(d)']
  BY <1>1, <1>2, <1>3, OnlyOnePotChanges
<1>9. Pots[d] = Pot(d)
  BY <1>1 DEF Pots
<1>10. claim' = [claim EXCEPT ![r.cosigned_msg] =
                   [open |-> TRUE, distribution |-> d, claimant |-> r.claimant,
                    amount |-> r.amount]]
  BY DEF ClaimFromDistribution
<1>11. Pots' = [Pots EXCEPT ![d] = @ - r.amount]
  BY <1>6, <1>8, <1>9
<1>12. r.amount \in 0 .. Pots[d]
  BY <1>1, <1>5, <1>7, <1>9
<1> QED
  BY <1>2, <1>7, <1>9, <1>10, <1>11, <1>12
  DEF Abstract!Settle, Abstract!Settlement, Abstract!Unsettled, NoClaim, Pots

\* A withdrawal takes one shard's balance back from the pot.
LEMMA WithdrawTakesBack ==
    ASSUME TypeOK, TypeOK', NEW signer \in Councils, NEW d \in Addresses, NEW t \in Shards,
           WithdrawFromDistribution(signer, d, t)
    PROVE  Abstract!TakeBack(d)
<1>1. /\ shard[t].open /\ shard[t].authority = d /\ ~shard'[t].open
      /\ \A s \in Shards \ {t} : shard'[s] = shard[s]
  BY WithdrawEffect DEF NoShard
<1>2. Share(t, d) = shard[t].balance /\ Share(t, d)' = 0
  BY <1>1 DEF Share, ShardOf
<1>3. Pot(d) \in Nat /\ Share(t, d) \in Nat /\ Share(t, d) <= Pot(d)
  BY PotType
<1>4. Pot(d)' = Pot(d) - shard[t].balance
  <2>1. Pot(d)' = Pot(d) - Share(t, d) + Share(t, d)'
    BY <1>1, PotChange
  <2> QED
    BY <1>2, <1>3, <2>1
<1>5. Pots' = [Pots EXCEPT ![d] = Pot(d)']
  BY <1>1, OnlyOnePotChanges
<1>6. Pots[d] = Pot(d)
  BY DEF Pots
<1>7. shard[t].balance \in 0 .. Pots[d]
  BY <1>2, <1>3, <1>6
<1>8. Pots' = [Pots EXCEPT ![d] = @ - shard[t].balance]
  BY <1>4, <1>5, <1>6
<1>9. claim' = claim
  BY DEF WithdrawFromDistribution
<1> QED
  BY <1>7, <1>8, <1>9 DEF Abstract!TakeBack, Pots

\* A token given to a shard is a deposit into the pot of its distribution.
LEMMA FundDeposits ==
    ASSUME TypeOK, TypeOK', NEW t \in Shards, FundShard(t)
    PROVE  \E d \in Addresses : Abstract!Deposit(d)
<1> DEFINE d == shard[t].authority
           more == [shard[t] EXCEPT !.balance = @ + 1]
<1>1. /\ shard[t].open /\ d \in Addresses
      /\ more.open /\ more.authority = d /\ more.balance = shard[t].balance + 1
      /\ \A s \in Shards : shard'[s] = IF s = t THEN more ELSE shard[s]
  BY FundShardEffect
<1>2. /\ shard'[t].open /\ shard'[t].authority = d
      /\ shard'[t].balance = shard[t].balance + 1
      /\ \A s \in Shards \ {t} : shard'[s] = shard[s]
  BY <1>1
<1>3. Share(t, d) = shard[t].balance /\ Share(t, d)' = shard[t].balance + 1
  BY <1>1, <1>2 DEF Share, ShardOf
<1>4. Pot(d) \in Nat /\ Share(t, d) \in Nat
  BY <1>1, PotType
<1>5. Pot(d)' = Pot(d) + 1
  <2>1. Pot(d)' = Pot(d) - Share(t, d) + Share(t, d)'
    BY <1>1, <1>2, PotChange
  <2> QED
    BY <1>3, <1>4, <2>1
<1>6. Pots' = [Pots EXCEPT ![d] = Pot(d)']
  BY <1>1, <1>2, OnlyOnePotChanges
<1>7. Pots \in [Addresses -> Nat] /\ Pots[d] = Pot(d)
  BY <1>1, PotType DEF Pots
<1> HIDE DEF d
<1>8. /\ Pots' \in [Addresses -> Nat] /\ Pots'[d] > Pots[d]
      /\ \A e \in Addresses \ {d} : Pots'[e] = Pots[e]
  BY <1>1, <1>4, <1>5, <1>6, <1>7
<1>9. claim' = claim
  BY DEF FundShard
<1> QED
  BY <1>1, <1>8, <1>9 DEF Abstract!Deposit, Pots

\* An account opened with nothing in it changes no pot.
LEMMA OpeningStutters ==
    ASSUME TypeOK, TypeOK', NEW t \in Shards, NEW d \in Addresses, OpenShard(t, d)
    PROVE  UNCHANGED Abstract!vars
<1> DEFINE new == [open |-> TRUE, authority |-> d, balance |-> 0]
<1>1. shard[t] = NoShard /\ \A s \in Shards : shard'[s] = IF s = t THEN new ELSE shard[s]
  BY OpenShardEffect
<1>2. ASSUME NEW e \in Addresses PROVE Pot(e)' = Pot(e)
  <2>1. Share(t, e) = 0 /\ Share(t, e)' = 0
    BY <1>1 DEF Share, ShardOf, NoShard
  <2>2. Pot(e)' = Pot(e) - 0 + 0
    BY <1>1, <2>1, PotChange
  <2> QED
    BY <2>2, PotType
<1>3. claim' = claim
  BY DEF OpenShard
<1> QED
  BY <1>2, <1>3 DEF Abstract!vars

\* Every step maps to a step of Payouts or to a stutter.
LEMMA NextMaps == TypeOK /\ [Next]_vars => [Abstract!Next]_(Abstract!vars)
<1> SUFFICES ASSUME TypeOK, [Next]_vars PROVE [Abstract!Next]_(Abstract!vars)
  OBVIOUS
<1>1. TypeOK'
  BY NextTypes
<1>2. ASSUME NEW r \in Requests, ClaimFromDistribution(r)
      PROVE  Abstract!Next
  <2>1. /\ r.distribution \in Addresses /\ r.claimant \in Claimants
        /\ r.cosigned_msg \in Digests
    BY RequestFields
  <2>2. /\ r.amount \in 0 .. Pots[r.distribution]
        /\ Abstract!Settle(r.cosigned_msg, r.distribution, r.claimant, r.amount)
    BY <1>1, <1>2, ClaimSettles
  <2> QED
    BY <2>1, <2>2 DEF Abstract!Next, Pots
<1>3. ASSUME NEW signer \in Councils, NEW d \in Addresses, NEW t \in Shards,
             WithdrawFromDistribution(signer, d, t)
      PROVE  Abstract!Next
  BY <1>1, <1>3, WithdrawTakesBack DEF Abstract!Next
<1>4. ASSUME NEW t \in Shards, FundShard(t)
      PROVE  Abstract!Next
  BY <1>1, <1>4, FundDeposits DEF Abstract!Next
<1>5. ASSUME NEW t \in Shards, NEW d \in Addresses, OpenShard(t, d)
      PROVE  UNCHANGED Abstract!vars
  BY <1>1, <1>5, OpeningStutters
<1>6. CASE UNCHANGED <<shard, claim>>
  <2>1. UNCHANGED Abstract!vars
    BY <1>6 DEF Abstract!vars, Pot, ShardOf
  <2> QED
    BY <2>1
<1> QED
  BY <1>2, <1>3, <1>4, <1>5, <1>6 DEF Next, DistributionNext, Environment,
     InitDistribution, UpdateDistribution, RotateCouncil, Sign, Tick, vars

\* Distributions keep the promise of Payouts: each voucher is settled once,
\* from the pot of the distribution it was signed for, within what is there.
THEOREM DistributionImplementsPayouts == Spec => ImplementsPayouts
<1>1. Spec => Abstract!Spec
  BY InitMaps, NextMaps, TypeCorrect, PTL DEF Spec, Abstract!Spec
<1> QED
  BY <1>1 DEF ImplementsPayouts

=============================================================================
