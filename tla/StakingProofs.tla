--------------------------- MODULE StakingProofs ---------------------------
(***************************************************************************)
(* Theorems about Staking, for every set of keys, configurations, legacy   *)
(* lockups, amounts and times that StakingAssumption allows.               *)
(***************************************************************************)
EXTENDS Staking, SumProofs

\* A percentage is a u16.
LEMMA PctNumbers ==
    0 \in Pct /\ \A pct \in Pct : pct \in Nat
BY SMTT(60) DEF Pct

\* The arguments and bounds are numbers.
LEMMA ArgumentTypes ==
    /\ Amounts \subseteq Nat
    /\ EndTimes \subseteq Int
    /\ GenesisTime \in Nat /\ MaxTime \in Nat
    /\ MaxI64 \in Nat /\ MaxU64 \in Nat
BY StakingAssumption, WidthAssumption

\* The configuration in force, as the handlers read it: no field is negative
\* and the cast of the saturation to i64 changes nothing.
LEMMA ConfigFields ==
    ASSUME TypeOK
    PROVE  /\ now \in Nat
           /\ ns.lockup_default_target_rewards_pct \in Pct
           /\ ns.lockup_default_target_voting_pct \in Pct
           /\ ns.lockup_min_duration \in Nat \ {0}
           /\ ns.lockup_min_amount \in Nat \ {0}
           /\ ns.lockup_max_saturation \in Nat
           /\ AsI64(ns.lockup_max_saturation) = ns.lockup_max_saturation
BY ArgumentTypes DEF TypeOK, ConfigType, NsValid, AsI64

\* The cap on end_ts yields a time.
LEMMA CappedEndType ==
    ASSUME TypeOK, NEW start_ts \in Int, NEW end_ts \in Int
    PROVE  CappedEnd(start_ts, end_ts) \in Int
BY ConfigFields DEF CappedEnd, LatestEnd

\* What a first stake writes is a lockup.
LEMMA FirstStakeType ==
    ASSUME TypeOK, NEW k \in Keys, NEW amount \in Nat, NEW end_ts \in Int
    PROVE  FirstStake(lockup[k], amount, end_ts) \in LockupType
<1>1. CappedEnd(now, end_ts) \in Int
  BY ConfigFields, CappedEndType
<1> QED
  BY <1>1, ConfigFields DEF FirstStake, LockupType

\* So is what stake_to writes.
LEMMA CouncilLockupType ==
    ASSUME TypeOK, NEW amount \in Nat, NEW end_ts \in Int,
           NEW disable_rewards \in BOOLEAN
    PROVE  CouncilLockup(amount, end_ts, disable_rewards) \in LockupType
<1> DEFINE new == CouncilLockup(amount, end_ts, disable_rewards)
<1>1. AsI64(LatestEnd(now)) \in Int
  BY ConfigFields, ArgumentTypes DEF LatestEnd, AsI64
<1> QED
  BY <1>1, PctNumbers, ConfigFields DEF CouncilLockup, LockupType

\* Lockup::normalize_weighted_start_ts touches one field only.
LEMMA NormalizeType ==
    ASSUME NEW l \in LockupType
    PROVE  /\ Normalize(l) \in LockupType
           /\ Normalize(l).open = l.open
           /\ Normalize(l).amount = l.amount
           /\ Normalize(l).start_ts = l.start_ts
           /\ Normalize(l).end_ts = l.end_ts
           /\ Normalize(l).weighted_start_ts = EffectiveStartTs(l)
           /\ Normalize(l).target_rewards_pct = l.target_rewards_pct
           /\ Normalize(l).target_voting_pct = l.target_voting_pct
BY DEF Normalize, LockupType, EffectiveStartTs

\* The quotient of the weighted start.
LEMMA NewWeightedStartType ==
    ASSUME TypeOK, NEW l \in LockupType, l.amount # 0,
           NEW amount \in Nat, NEW capped_end \in Int
    PROVE  NewWeightedStart(l, amount, capped_end) \in Int
<1>1. NewArea(l, amount, capped_end) \in Int
  <2>1. l.amount \in Int /\ l.end_ts - EffectiveStartTs(l) \in Int /\ capped_end - l.end_ts \in Int
    BY DEF LockupType, EffectiveStartTs
  <2>2. now \in Int
    BY DEF TypeOK
  <2> QED
    BY <2>1, <2>2 DEF NewArea
<1>2. l.amount + amount \in Nat \ {0}
  BY DEF LockupType
<1>3. NewArea(l, amount, capped_end) \div (l.amount + amount) \in Int
  BY <1>1, <1>2
<1> QED
  BY <1>3 DEF NewWeightedStart

\* Every later stake keeps the account, its start and its percentages, and
\* adds to the amount modulo the width of a u64.
LEMMA RestakeType ==
    ASSUME TypeOK, NEW l \in LockupType, l.amount # 0,
           NEW amount \in Nat, NEW end_ts \in Int
    PROVE  /\ Restake(l, amount, end_ts) \in LockupType
           /\ Restake(l, amount, end_ts).open = l.open
           /\ Restake(l, amount, end_ts).amount = AsU64(l.amount + amount)
           /\ Restake(l, amount, end_ts).start_ts = l.start_ts
           /\ Restake(l, amount, end_ts).end_ts = CappedEnd(l.start_ts, end_ts)
           /\ Restake(l, amount, end_ts).target_rewards_pct = l.target_rewards_pct
           /\ Restake(l, amount, end_ts).target_voting_pct = l.target_voting_pct
<1> DEFINE capped_end == CappedEnd(l.start_ts, end_ts)
<1>1. capped_end \in Int
  BY CappedEndType DEF LockupType
<1>2. NewWeightedStart(l, amount, capped_end) \in Int
  BY <1>1, NewWeightedStartType
<1>3. AsU64(l.amount + amount) \in Nat
  BY ArgumentTypes DEF AsU64, LockupType
<1>4. now \in Int
  BY DEF TypeOK
<1> HIDE DEF capped_end
<1>5. CASE l.end_ts = 0
  <2>1. Restake(l, amount, end_ts) =
          [l EXCEPT !.amount = AsU64(l.amount + amount), !.end_ts = capped_end,
                    !.weighted_start_ts = now]
    BY <1>5 DEF Restake, SetUnsetEnd, capped_end, LockupType
  <2> QED
    BY <2>1, <1>1, <1>3, <1>4 DEF LockupType, capped_end
<1>6. CASE l.end_ts # 0
  <2>1. Restake(l, amount, end_ts) =
          [l EXCEPT !.amount = AsU64(l.amount + amount), !.end_ts = capped_end,
                    !.weighted_start_ts = NewWeightedStart(l, amount, capped_end)]
    BY <1>6 DEF Restake, TopUp, capped_end, LockupType
  <2> QED
    BY <2>1, <1>1, <1>2, <1>3 DEF LockupType, capped_end
<1> QED
  BY <1>5, <1>6

----------------------------------------------------------------------------
(***************************************************************************)
(* The inductive invariant behind LockupAccounting and NoOwnerLockedOut.   *)
(* The sum alone is not inductive: a top-up truncates the new amount to a  *)
(* u64, which loses nothing only because the amount is part of the sum and *)
(* the sum with the deposit has just passed its checked_add; and unstake   *)
(* pays from the escrow, which must hold at least the amount.              *)
(***************************************************************************)
Backing ==
    \A k \in Keys :
        /\ lockup[k].open => lockup[k].amount > 0
        /\ ~lockup[k].open => lockup[k] = NoLockup
        /\ escrow[k] >= lockup[k].amount

AccountingInv == TypeOK /\ Backing /\ LockupAccounting

\* An account that does not exist locks nothing.
LEMMA NoLockupType ==
    /\ NoLockup \in LockupType
    /\ ~NoLockup.open
    /\ NoLockup.amount = 0
BY PctNumbers DEF NoLockup, LockupType

\* The sum bounds every lockup.
LEMMA LockedBound ==
    ASSUME TypeOK, LockupAccounting, NEW k \in Keys
    PROVE  lockup[k].amount <= lockup_amount
<1> DEFINE f == [j \in Keys |-> lockup[j].amount]
<1>1. f \in [Keys -> Nat]
  BY DEF TypeOK, LockupType
<1>2. f[k] <= SumFunction(f)
  BY <1>1, SumBounds, StakingAssumption
<1> QED
  BY <1>2 DEF LockupAccounting, TotalLocked

\* And it moves with any one of them.
LEMMA LockedChange ==
    ASSUME TypeOK, TypeOK', NEW k \in Keys,
           \A j \in Keys \ {k} : lockup'[j] = lockup[j]
    PROVE  TotalLocked' = TotalLocked - lockup[k].amount + lockup'[k].amount
<1> DEFINE f == [j \in Keys |-> lockup[j].amount]
           h == [j \in Keys |-> lockup'[j].amount]
<1>1. f \in [Keys -> Nat] /\ h \in [Keys -> Nat]
  BY DEF TypeOK, LockupType
<1>2. \A j \in Keys \ {k} : h[j] = f[j]
  OBVIOUS
<1>3. f[k] = lockup[k].amount /\ h[k] = lockup'[k].amount
  OBVIOUS
<1>4. TotalLocked = SumFunction(f) /\ TotalLocked' = SumFunction(h)
  BY DEF TotalLocked
<1> HIDE DEF f, h
<1>5. SumFunction(h) = SumFunction(f) - f[k] + h[k]
  BY <1>1, <1>2, SumChange, StakingAssumption
<1> QED
  BY <1>3, <1>4, <1>5

\* What a stake that succeeds leaves behind.
LEMMA StakeResult ==
    ASSUME AccountingInv, NEW k \in Keys, NEW amount \in Amounts, NEW end_ts \in EndTimes,
           Stake(k, amount, end_ts)
    PROVE  LET new == Staked(lockup[k], amount, end_ts)
           IN  /\ new \in LockupType
               /\ new.open
               /\ new.amount = lockup[k].amount + amount
               /\ new.amount > 0
               /\ lockup[k].open =>
                    /\ new.start_ts = lockup[k].start_ts
                    /\ new.target_rewards_pct = lockup[k].target_rewards_pct
                    /\ new.target_voting_pct = lockup[k].target_voting_pct
<1> DEFINE new == Staked(lockup[k], amount, end_ts)
<1>1. amount \in Nat /\ end_ts \in Int /\ lockup[k] \in LockupType
  BY ArgumentTypes DEF AccountingInv, TypeOK
<1>2. new.amount >= ns.lockup_min_amount /\ ns.lockup_min_amount \in Nat \ {0}
  <2>1. LockupValid(new, ns, now)
    BY DEF Stake
  <2> HIDE DEF new
  <2>2. new.amount >= ns.lockup_min_amount
    BY <2>1 DEF LockupValid
  <2>3. ns.lockup_min_amount \in Nat \ {0}
    BY ConfigFields DEF AccountingInv
  <2> QED
    BY <2>2, <2>3
<1>3. CASE IsFirstStake(lockup[k])
  <2>1. new = FirstStake(lockup[k], amount, end_ts)
    BY <1>3 DEF Staked
  <2>2. new \in LockupType /\ new.open /\ new.amount = amount
    BY <2>1, <1>1, FirstStakeType DEF FirstStake, AccountingInv
  <2>3. ~lockup[k].open /\ lockup[k].amount = 0
    BY <1>3 DEF IsFirstStake, AccountingInv, Backing
  <2> QED
    BY <1>1, <1>2, <2>2, <2>3
<1>4. CASE ~IsFirstStake(lockup[k])
  <2> DEFINE l == Normalize(lockup[k])
  <2>1. /\ l \in LockupType /\ l.open = lockup[k].open /\ l.amount = lockup[k].amount
        /\ l.start_ts = lockup[k].start_ts
        /\ l.target_rewards_pct = lockup[k].target_rewards_pct
        /\ l.target_voting_pct = lockup[k].target_voting_pct
    BY <1>1, NormalizeType
  <2>2. l.amount # 0
    BY <1>4, <2>1 DEF IsFirstStake
  <2>3. new = Restake(l, amount, end_ts)
    BY <1>4 DEF Staked
  <2> HIDE DEF l, new
  <2>4. /\ new \in LockupType /\ new.open = l.open
        /\ new.amount = AsU64(l.amount + amount)
        /\ new.start_ts = l.start_ts
        /\ new.target_rewards_pct = l.target_rewards_pct
        /\ new.target_voting_pct = l.target_voting_pct
    BY <1>1, <2>1, <2>2, <2>3, RestakeType DEF AccountingInv
  <2>5. lockup[k].open
    BY <2>1, <2>2, NoLockupType DEF AccountingInv, Backing
  <2>6. lockup[k].amount + amount <= MaxU64
    <3>1. lockup[k].amount <= lockup_amount
      BY LockedBound DEF AccountingInv
    <3>2. lockup_amount + amount <= MaxU64
      BY DEF Stake, AddLockupAmount, FitsU64
    <3>3. lockup_amount \in Nat /\ lockup[k].amount \in Nat
      BY <1>1, ArgumentTypes DEF AccountingInv, TypeOK, LockupType
    <3> QED
      BY <1>1, <3>1, <3>2, <3>3, ArgumentTypes
  <2>7. new.amount = lockup[k].amount + amount
    BY <1>1, <2>1, <2>4, <2>6, ArgumentTypes DEF AsU64, LockupType
  <2>8. new.amount > 0
    BY <1>1, <2>1, <2>2, <2>7 DEF LockupType
  <2> QED
    BY <2>1, <2>4, <2>5, <2>7, <2>8 DEF new
<1> QED
  BY <1>3, <1>4

\* A deposit the balance covers leaves balances, and moves one escrow only.
LEMMA DepositResult ==
    ASSUME TypeOK, NEW from \in Keys, NEW owner \in Keys, NEW amount \in Nat,
           FundsOk(from, amount), Deposit(from, owner, amount)
    PROVE  /\ wallet' \in [Keys -> Nat]
           /\ escrow' \in [Keys -> Nat]
           /\ escrow'[owner] = escrow[owner] + amount
           /\ \A j \in Keys \ {owner} : escrow'[j] = escrow[j]
BY DEF TypeOK, FundsOk, Deposit

\* A step that replaces one owner's lockup and pays the difference in.
LEMMA GrowthKeepsAccounting ==
    ASSUME AccountingInv, NEW k \in Keys, NEW from \in Keys, NEW amount \in Nat,
           NEW new \in LockupType, new.open, new.amount > 0,
           new.amount = lockup[k].amount + amount,
           lockup' = [lockup EXCEPT ![k] = new],
           FundsOk(from, amount), Deposit(from, k, amount), AddLockupAmount(amount),
           UNCHANGED <<now, ns>>
    PROVE  AccountingInv'
<1>1. lockup' \in [Keys -> LockupType] /\ lockup'[k] = new
      /\ \A j \in Keys \ {k} : lockup'[j] = lockup[j]
  BY DEF AccountingInv, TypeOK
<1>2. /\ wallet' \in [Keys -> Nat] /\ escrow' \in [Keys -> Nat]
      /\ escrow'[k] = escrow[k] + amount
      /\ \A j \in Keys \ {k} : escrow'[j] = escrow[j]
  BY DepositResult DEF AccountingInv
<1>3. lockup_amount' = lockup_amount + amount /\ lockup_amount' \in 0 .. MaxU64
  BY ArgumentTypes DEF AddLockupAmount, FitsU64, AccountingInv, TypeOK
<1>4. TypeOK'
  BY <1>1, <1>2, <1>3 DEF AccountingInv, TypeOK
<1>5. Backing'
  <2> SUFFICES ASSUME NEW j \in Keys
               PROVE  /\ lockup'[j].open => lockup'[j].amount > 0
                      /\ ~lockup'[j].open => lockup'[j] = NoLockup
                      /\ escrow'[j] >= lockup'[j].amount
    BY DEF Backing
  <2>1. CASE j = k
    <3>1. escrow[k] >= lockup[k].amount /\ escrow[k] \in Nat /\ lockup[k].amount \in Nat
      BY DEF AccountingInv, Backing, TypeOK, LockupType
    <3> QED
      BY <2>1, <3>1, <1>1, <1>2
  <2>2. CASE j # k
    BY <2>2, <1>1, <1>2 DEF AccountingInv, Backing
  <2> QED
    BY <2>1, <2>2
<1>6. LockupAccounting'
  <2>1. TotalLocked' = TotalLocked - lockup[k].amount + new.amount
    BY <1>1, <1>4, LockedChange DEF AccountingInv
  <2>2. TotalLocked = lockup_amount /\ lockup_amount \in Int /\ lockup[k].amount \in Int
    BY DEF AccountingInv, LockupAccounting, TypeOK, LockupType
  <2> QED
    BY <1>3, <2>1, <2>2 DEF LockupAccounting
<1> QED
  BY <1>4, <1>5, <1>6 DEF AccountingInv

\* stake is such a step.
LEMMA StakeKeepsAccounting ==
    ASSUME AccountingInv, NEW k \in Keys, NEW amount \in Amounts, NEW end_ts \in EndTimes,
           Stake(k, amount, end_ts)
    PROVE  AccountingInv'
<1> DEFINE new == Staked(lockup[k], amount, end_ts)
<1>1. /\ new \in LockupType /\ new.open /\ new.amount > 0
      /\ new.amount = lockup[k].amount + amount
  BY StakeResult
<1>2. /\ lockup' = [lockup EXCEPT ![k] = new]
      /\ FundsOk(k, amount) /\ Deposit(k, k, amount) /\ AddLockupAmount(amount)
      /\ UNCHANGED <<now, ns>>
  BY DEF Stake, StakeAccountsOk
<1> HIDE DEF new
<1> QED
  BY <1>1, <1>2, GrowthKeepsAccounting, ArgumentTypes

\* stake_to is such a step: the owner had no lockup before.
LEMMA StakeToKeepsAccounting ==
    ASSUME AccountingInv, NEW signer \in Keys, NEW k \in Keys, NEW amount \in Amounts,
           NEW end_ts \in EndTimes, NEW disable_rewards \in BOOLEAN,
           StakeTo(signer, k, amount, end_ts, disable_rewards)
    PROVE  AccountingInv'
<1> DEFINE new == CouncilLockup(amount, end_ts, disable_rewards)
<1>1. amount \in Nat /\ end_ts \in Int
  BY ArgumentTypes
<1>2. new \in LockupType
  BY <1>1, CouncilLockupType DEF AccountingInv
<1>3. new.open /\ new.amount = amount
  BY DEF CouncilLockup
<1>4. amount > 0
  BY <1>1, ConfigFields DEF StakeTo, StakeToAccountsOk, AccountingInv
<1>5. lockup[k].amount = 0
  BY NoLockupType DEF StakeTo, StakeToAccountsOk, AccountingInv, Backing
<1>6. /\ lockup' = [lockup EXCEPT ![k] = new]
      /\ FundsOk(signer, amount) /\ Deposit(signer, k, amount) /\ AddLockupAmount(amount)
      /\ UNCHANGED <<now, ns>>
  BY DEF StakeTo, StakeToAccountsOk
<1> HIDE DEF new
<1>7. new.amount = lockup[k].amount + amount
  BY <1>1, <1>3, <1>5
<1> QED
  BY <1>1, <1>2, <1>3, <1>4, <1>6, <1>7, GrowthKeepsAccounting

\* unstake takes an owner's amount out of both sides of the sum.
LEMMA UnstakeKeepsAccounting ==
    ASSUME AccountingInv, NEW k \in Keys, Unstake(k)
    PROVE  AccountingInv'
<1>1. lockup' = [lockup EXCEPT ![k] = NoLockup]
  BY DEF Unstake
<1>2. lockup' \in [Keys -> LockupType] /\ lockup'[k] = NoLockup
      /\ \A j \in Keys \ {k} : lockup'[j] = lockup[j]
  BY <1>1, NoLockupType DEF AccountingInv, TypeOK
<1>3. lockup[k].amount \in Nat /\ escrow[k] >= lockup[k].amount /\ lockup_amount >= lockup[k].amount
  BY DEF Unstake, CanUnstake, AccountingInv, TypeOK, LockupType
<1>4. escrow' \in [Keys -> Nat] /\ wallet' \in [Keys -> Nat] /\ escrow'[k] \in Nat
      /\ \A j \in Keys \ {k} : escrow'[j] = escrow[j]
  BY <1>3 DEF Unstake, AccountingInv, TypeOK
<1>5. lockup_amount' = lockup_amount - lockup[k].amount /\ lockup_amount' \in 0 .. MaxU64
  BY <1>3, ArgumentTypes DEF Unstake, AccountingInv, TypeOK
<1>6. TypeOK'
  BY <1>2, <1>4, <1>5 DEF Unstake, AccountingInv, TypeOK
<1>7. Backing'
  <2> SUFFICES ASSUME NEW j \in Keys
               PROVE  /\ lockup'[j].open => lockup'[j].amount > 0
                      /\ ~lockup'[j].open => lockup'[j] = NoLockup
                      /\ escrow'[j] >= lockup'[j].amount
    BY DEF Backing
  <2>1. CASE j = k
    BY <2>1, <1>2, <1>4, NoLockupType
  <2>2. CASE j # k
    BY <2>2, <1>2, <1>4 DEF AccountingInv, Backing
  <2> QED
    BY <2>1, <2>2
<1>8. LockupAccounting'
  <2>1. TotalLocked' = TotalLocked - lockup[k].amount + lockup'[k].amount
    BY <1>2, <1>6, LockedChange DEF AccountingInv
  <2>2. TotalLocked = lockup_amount /\ lockup_amount \in Int /\ lockup'[k].amount = 0
    BY <1>2, NoLockupType DEF AccountingInv, LockupAccounting, TypeOK
  <2> QED
    BY <1>3, <1>5, <2>1, <2>2 DEF LockupAccounting
<1> QED
  BY <1>6, <1>7, <1>8 DEF AccountingInv

\* Steps that leave the lockups and their sum alone.
LEMMA OthersKeepAccounting ==
    ASSUME AccountingInv, TypeOK', UNCHANGED <<lockup, lockup_amount>>,
           \A j \in Keys : escrow'[j] >= escrow[j]
    PROVE  AccountingInv'
<1>1. Backing'
  <2> SUFFICES ASSUME NEW j \in Keys
               PROVE  escrow'[j] >= lockup[j].amount
    BY DEF AccountingInv, Backing
  <2>1. escrow[j] >= lockup[j].amount /\ escrow[j] \in Nat /\ lockup[j].amount \in Nat
    BY DEF AccountingInv, Backing, TypeOK, LockupType
  <2>2. escrow'[j] \in Nat /\ escrow'[j] >= escrow[j]
    BY DEF TypeOK
  <2> QED
    BY <2>1, <2>2
<1>2. TotalLocked' = TotalLocked
  BY DEF TotalLocked
<1> QED
  BY <1>1, <1>2 DEF AccountingInv, LockupAccounting

\* The steps that change a configuration, a balance or the clock only.
LEMMA ConfigStepKeepsAccounting ==
    ASSUME AccountingInv, NEW signer \in Keys, NEW config \in Configs,
           UpdateNamespace(signer, config)
    PROVE  AccountingInv'
<1>1. config \in ConfigType /\ config.lockup_max_saturation <= MaxI64
  BY StakingAssumption
<1>2. TypeOK'
  BY <1>1 DEF UpdateNamespace, AccountingInv, TypeOK
<1>3. \A j \in Keys : escrow'[j] >= escrow[j]
  BY DEF UpdateNamespace, AccountingInv, TypeOK
<1> QED
  BY <1>2, <1>3, OthersKeepAccounting DEF UpdateNamespace

\* Time and other people's transfers take nothing from an escrow.
LEMMA EnvironmentKeepsAccounting ==
    ASSUME AccountingInv, Environment
    PROVE  AccountingInv'
<1>1. CASE Tick
  <2>1. now' \in GenesisTime .. MaxTime
    BY <1>1, ArgumentTypes DEF Tick, AccountingInv, TypeOK
  <2>2. TypeOK'
    BY <1>1, <2>1 DEF Tick, AccountingInv, TypeOK
  <2>3. \A j \in Keys : escrow'[j] >= escrow[j]
    BY <1>1 DEF Tick, AccountingInv, TypeOK
  <2> QED
    BY <1>1, <2>2, <2>3, OthersKeepAccounting DEF Tick
<1>2. ASSUME NEW from \in Keys, NEW to \in Keys, Transfer(from, to)
      PROVE  AccountingInv'
  <2>1. wallet' \in [Keys -> Nat]
    BY <1>2 DEF Transfer, AccountingInv, TypeOK
  <2>2. TypeOK'
    BY <1>2, <2>1 DEF Transfer, AccountingInv, TypeOK
  <2>3. \A j \in Keys : escrow'[j] >= escrow[j]
    BY <1>2 DEF Transfer, AccountingInv, TypeOK
  <2> QED
    BY <1>2, <2>2, <2>3, OthersKeepAccounting DEF Transfer
<1>3. ASSUME NEW from \in Keys, NEW owner \in Keys, Donate(from, owner)
      PROVE  AccountingInv'
  <2>1. /\ wallet' \in [Keys -> Nat] /\ escrow' \in [Keys -> Nat]
        /\ escrow'[owner] = escrow[owner] + 1
        /\ \A j \in Keys \ {owner} : escrow'[j] = escrow[j]
    BY <1>3, DepositResult DEF Donate, FundsOk, AccountingInv
  <2>2. TypeOK'
    BY <1>3, <2>1 DEF Donate, AccountingInv, TypeOK
  <2>3. \A j \in Keys : escrow'[j] >= escrow[j]
    BY <2>1 DEF AccountingInv, TypeOK
  <2> QED
    BY <1>3, <2>2, <2>3, OthersKeepAccounting DEF Donate
<1> QED
  BY <1>1, <1>2, <1>3 DEF Environment

----------------------------------------------------------------------------
\* The accounts found at GenesisTime satisfy the invariant.
LEMMA InitAccounting == Init => AccountingInv
<1> SUFFICES ASSUME Init PROVE AccountingInv
  OBVIOUS
<1>1. \A l \in LegacyLockups : l \in LockupType /\ l.open /\ l.amount > 0
  BY StakingAssumption DEF LegacyLockup
<1>2. lockup \in [Keys -> LockupType]
  BY <1>1, NoLockupType DEF Init
<1>3. \A k \in Keys : lockup[k] = NoLockup \/ lockup[k] \in LegacyLockups
  BY DEF Init
<1>4. escrow \in [Keys -> Nat] /\ \A k \in Keys : escrow[k] = lockup[k].amount
  BY <1>2 DEF Init, LockupType
<1>5. wallet \in [Keys -> Nat]
  BY StakingAssumption DEF Init
<1>6. TotalLocked \in Nat /\ SumFunction(wallet) \in Nat
  <2> DEFINE f == [k \in Keys |-> lockup[k].amount]
  <2>1. f \in [Keys -> Nat]
    BY <1>2 DEF LockupType
  <2> HIDE DEF f
  <2>2. SumFunction(f) \in Nat
    BY <2>1, SumBounds, StakingAssumption
  <2>3. SumFunction(wallet) \in Nat
    BY <1>5, SumBounds, StakingAssumption
  <2> QED
    BY <2>2, <2>3 DEF f, TotalLocked
<1>7. lockup_amount = TotalLocked /\ lockup_amount \in 0 .. MaxU64
  BY <1>6, ArgumentTypes DEF Init, FitsU64
<1>8. now \in GenesisTime .. MaxTime
  BY StakingAssumption DEF Init
<1>9. TypeOK
  BY <1>2, <1>4, <1>5, <1>7, <1>8, StakingAssumption DEF TypeOK, Init
<1>10. Backing
  <2> SUFFICES ASSUME NEW k \in Keys
               PROVE  /\ lockup[k].open => lockup[k].amount > 0
                      /\ ~lockup[k].open => lockup[k] = NoLockup
                      /\ escrow[k] >= lockup[k].amount
    BY DEF Backing
  <2>1. escrow[k] >= lockup[k].amount
    BY <1>2, <1>4 DEF LockupType
  <2> QED
    BY <1>1, <1>3, <2>1, NoLockupType
<1> QED
  BY <1>7, <1>9, <1>10 DEF AccountingInv, LockupAccounting

\* Every step keeps it.
LEMMA NextAccounting == AccountingInv /\ [Next]_stakingVars => AccountingInv'
<1> SUFFICES ASSUME AccountingInv, [Next]_stakingVars PROVE AccountingInv'
  OBVIOUS
<1>1. ASSUME NEW k \in Keys, NEW amount \in Amounts, NEW end_ts \in EndTimes,
             Stake(k, amount, end_ts)
      PROVE  AccountingInv'
  BY <1>1, StakeKeepsAccounting
<1>2. ASSUME NEW signer \in Keys, NEW k \in Keys, NEW amount \in Amounts,
             NEW end_ts \in EndTimes, NEW disable_rewards \in BOOLEAN,
             StakeTo(signer, k, amount, end_ts, disable_rewards)
      PROVE  AccountingInv'
  BY <1>2, StakeToKeepsAccounting
<1>3. ASSUME NEW k \in Keys, Unstake(k) PROVE AccountingInv'
  BY <1>3, UnstakeKeepsAccounting
<1>4. ASSUME NEW signer \in Keys, NEW config \in Configs,
             UpdateNamespace(signer, config)
      PROVE  AccountingInv'
  BY <1>4, ConfigStepKeepsAccounting
<1>5. CASE Environment
  BY <1>5, EnvironmentKeepsAccounting
<1>6. CASE UNCHANGED stakingVars
  BY <1>6 DEF stakingVars, AccountingInv, TypeOK, Backing, LockupAccounting, TotalLocked
<1> QED
  BY <1>1, <1>2, <1>3, <1>4, <1>5, <1>6 DEF Next, StakingNext

\* The inductive invariant holds of every reachable state.
THEOREM AccountingInvariant == Spec => []AccountingInv
BY InitAccounting, NextAccounting, PTL DEF Spec

\* Every variable has its type and the configuration in force is valid,
\* whatever the instructions' arguments.
THEOREM TypeCorrect == Spec => []TypeOK
<1>1. AccountingInv => TypeOK
  BY DEF AccountingInv
<1> QED
  BY <1>1, AccountingInvariant, PTL

\* Namespace.lockup_amount is always the sum of the lockups: stake, stake_to
\* and unstake keep it in step, and no cast truncates.
THEOREM Accounting == Spec => []LockupAccounting
<1>1. AccountingInv => LockupAccounting
  BY DEF AccountingInv
<1> QED
  BY <1>1, AccountingInvariant, PTL

\* Once a lock has ended, every constraint of unstake holds for its owner,
\* whatever others have staked, donated or configured.
THEOREM OwnerNeverLockedOut == Spec => []NoOwnerLockedOut
<1>1. AccountingInv => NoOwnerLockedOut
  <2> SUFFICES ASSUME AccountingInv, NEW k \in Keys, lockup[k].open, Expired(lockup[k])
               PROVE  CanUnstake(k)
    BY DEF NoOwnerLockedOut
  <2>1. lockup[k].amount \in Nat /\ escrow[k] \in Nat /\ escrow[k] >= lockup[k].amount
    BY DEF AccountingInv, TypeOK, Backing, LockupType
  <2>2. lockup_amount >= lockup[k].amount
    BY <2>1, LockedBound DEF AccountingInv, TypeOK
  <2>3. ClosesEscrow(escrow[k], lockup[k].amount)
          => TokenCloseOk(escrow[k] - lockup[k].amount)
    BY <2>1 DEF ClosesEscrow, TokenCloseOk
  <2> QED
    BY <2>1, <2>2, <2>3 DEF CanUnstake
<1> QED
  BY <1>1, AccountingInvariant, PTL

----------------------------------------------------------------------------
\* No step of an open lockup touches the percentages it was opened with.
LEMMA StepKeepsPercentages ==
    ASSUME AccountingInv, [Next]_stakingVars, NEW k \in Keys,
           lockup[k].open, lockup'[k].open
    PROVE  /\ lockup'[k].target_rewards_pct = lockup[k].target_rewards_pct
           /\ lockup'[k].target_voting_pct = lockup[k].target_voting_pct
<1> DEFINE Kept == /\ lockup'[k].target_rewards_pct = lockup[k].target_rewards_pct
                   /\ lockup'[k].target_voting_pct = lockup[k].target_voting_pct
<1>0. lockup \in [Keys -> LockupType]
  BY DEF AccountingInv, TypeOK
<1>1. ASSUME NEW j \in Keys, NEW amount \in Amounts, NEW end_ts \in EndTimes,
             Stake(j, amount, end_ts)
      PROVE  Kept
  <2> DEFINE new == Staked(lockup[j], amount, end_ts)
  <2>1. lockup' = [lockup EXCEPT ![j] = new]
    BY <1>1 DEF Stake
  <2>2. CASE j = k
    <3>1. lockup'[k] = new
      BY <1>0, <2>1, <2>2
    <3>2. /\ new.target_rewards_pct = lockup[k].target_rewards_pct
          /\ new.target_voting_pct = lockup[k].target_voting_pct
      BY <1>1, <2>2, StakeResult
    <3> QED
      BY <3>1, <3>2
  <2>3. CASE j # k
    BY <1>0, <2>1, <2>3
  <2> QED
    BY <2>2, <2>3
<1>2. ASSUME NEW signer \in Keys, NEW j \in Keys, NEW amount \in Amounts,
             NEW end_ts \in EndTimes, NEW disable_rewards \in BOOLEAN,
             StakeTo(signer, j, amount, end_ts, disable_rewards)
      PROVE  Kept
  <2>1. j # k
    BY <1>2 DEF StakeTo, StakeToAccountsOk
  <2>2. lockup'[k] = lockup[k]
    BY <1>0, <1>2, <2>1 DEF StakeTo
  <2> QED
    BY <2>2
<1>3. ASSUME NEW j \in Keys, Unstake(j) PROVE Kept
  <2>1. j # k
    BY <1>0, <1>3, NoLockupType DEF Unstake
  <2>2. lockup'[k] = lockup[k]
    BY <1>0, <1>3, <2>1 DEF Unstake
  <2> QED
    BY <2>2
<1>4. ASSUME UNCHANGED lockup PROVE Kept
  BY <1>4
<1> QED
  BY <1>1, <1>2, <1>3, <1>4
     DEF Next, StakingNext, Environment, UpdateNamespace, Tick, Transfer, Donate, stakingVars

\* The percentages of a first stake or a council's lock outlive every later
\* stake and every change of the defaults.
THEOREM PercentagesNeverChange == Spec => PercentagesStick
<1>1. AccountingInv /\ [Next]_stakingVars =>
        [\A k \in Keys : lockup[k].open /\ lockup'[k].open =>
           /\ lockup'[k].target_rewards_pct = lockup[k].target_rewards_pct
           /\ lockup'[k].target_voting_pct = lockup[k].target_voting_pct]_stakingVars
  BY StepKeepsPercentages
<1> QED
  BY <1>1, AccountingInvariant, PTL DEF Spec, PercentagesStick

----------------------------------------------------------------------------
(***************************************************************************)
(* The times of a lockup: its end, and the weighted start that its voting  *)
(* power is computed from.                                                 *)
(***************************************************************************)

\* The longest saturation exists: all of them are below i64::MAX.
LEMMA LongestExists ==
    /\ LongestSaturation \in Nat
    /\ \A c \in Configs \cup {GenesisConfig} : c.lockup_max_saturation <= LongestSaturation
<1> DEFINE sats == {c.lockup_max_saturation : c \in Configs \cup {GenesisConfig}}
           gaps == {MaxI64 - s : s \in sats}
<1>1. \A s \in sats : s \in Nat /\ s <= MaxI64
  BY StakingAssumption DEF ConfigType
<1>2. GenesisConfig.lockup_max_saturation \in sats
  OBVIOUS
<1>3. MaxI64 - GenesisConfig.lockup_max_saturation \in gaps
  BY <1>2
<1>4. gaps \subseteq Nat
  <2> SUFFICES ASSUME NEW s \in sats PROVE MaxI64 - s \in Nat
    OBVIOUS
  <2> QED
    BY <1>1, ArgumentTypes
<1>5. PICK m \in gaps : \A n \in gaps : ~(n < m)
  BY <1>3, <1>4, LeastNatural
<1>6. PICK s \in sats : m = MaxI64 - s
  BY <1>5
<1>7. ASSUME NEW t \in sats PROVE t <= s
  <2>1. MaxI64 - t \in gaps
    OBVIOUS
  <2>2. ~(MaxI64 - t < MaxI64 - s)
    BY <1>5, <1>6, <2>1
  <2>3. t \in Int /\ s \in Int /\ MaxI64 \in Int
    BY <1>1, ArgumentTypes
  <2> HIDE DEF sats, gaps
  <2> QED
    BY <2>2, <2>3
<1>8. LongestSaturation \in sats /\ \A t \in sats : t <= LongestSaturation
  BY <1>7 DEF LongestSaturation
<1> QED
  BY <1>1, <1>8

\* The end that stake writes is within the saturation in force.
LEMMA StakeEnd ==
    ASSUME AccountingInv, NEW k \in Keys, NEW amount \in Amounts, NEW end_ts \in EndTimes,
           Stake(k, amount, end_ts)
    PROVE  LET new == Staked(lockup[k], amount, end_ts)
           IN  /\ new.end_ts = CappedEnd(new.start_ts, end_ts)
               /\ new.end_ts <= new.start_ts + ns.lockup_max_saturation
<1> DEFINE new == Staked(lockup[k], amount, end_ts)
<1>1. amount \in Nat /\ end_ts \in Int /\ lockup[k] \in LockupType /\ TypeOK
  BY ArgumentTypes DEF AccountingInv, TypeOK
<1>2. new \in LockupType
  BY StakeResult
<1>3. new.end_ts = CappedEnd(new.start_ts, end_ts)
  <2>1. CASE IsFirstStake(lockup[k])
    BY <2>1 DEF Staked, FirstStake
  <2>2. CASE ~IsFirstStake(lockup[k])
    <3> DEFINE l == Normalize(lockup[k])
    <3>1. l \in LockupType /\ l.amount # 0
      BY <1>1, <2>2, NormalizeType DEF IsFirstStake
    <3>2. new = Restake(l, amount, end_ts)
      BY <2>2 DEF Staked
    <3> HIDE DEF l, new
    <3>3. new.start_ts = l.start_ts /\ new.end_ts = CappedEnd(l.start_ts, end_ts)
      BY <1>1, <3>1, <3>2, RestakeType
    <3> QED
      BY <3>3
  <2> QED
    BY <2>1, <2>2
<1>4. CappedEnd(new.start_ts, end_ts) <= new.start_ts + ns.lockup_max_saturation
  <2> HIDE DEF new
  <2>1. new.start_ts \in Int
    BY <1>2 DEF LockupType
  <2> QED
    BY <1>1, <2>1, ConfigFields DEF CappedEnd, LatestEnd
<1> QED
  BY <1>3, <1>4

\* So is the end that stake_to writes: a sum that wraps only makes it earlier.
LEMMA StakeToEnd ==
    ASSUME AccountingInv, NEW amount \in Amounts, NEW end_ts \in EndTimes,
           NEW disable_rewards \in BOOLEAN
    PROVE  CouncilLockup(amount, end_ts, disable_rewards).end_ts
             <= now + ns.lockup_max_saturation
<1>1. end_ts \in Int /\ TypeOK
  BY ArgumentTypes DEF AccountingInv
<1>2. AsI64(LatestEnd(now)) \in Int /\ AsI64(LatestEnd(now)) <= now + ns.lockup_max_saturation
  BY <1>1, ConfigFields, ArgumentTypes DEF LatestEnd, AsI64
<1> QED
  BY <1>1, <1>2, ConfigFields DEF CouncilLockup

----------------------------------------------------------------------------
(***************************************************************************)
(* LockBounded needs to know where the configuration in force came from.   *)
(***************************************************************************)
BoundInv ==
    /\ AccountingInv
    /\ ns \in Configs \cup {GenesisConfig}
    /\ LockBounded

LEMMA InitBound == Init => BoundInv
<1> SUFFICES ASSUME Init PROVE BoundInv
  OBVIOUS
<1>1. AccountingInv
  BY InitAccounting
<1>2. ns = GenesisConfig
  BY DEF Init
<1>3. ASSUME NEW k \in Keys, lockup[k].open
      PROVE  lockup[k].end_ts <= lockup[k].start_ts + LongestSaturation
  <2>1. lockup[k] \in LegacyLockups
    BY <1>3, NoLockupType DEF Init
  <2>2. lockup[k].end_ts <= lockup[k].start_ts + GenesisConfig.lockup_max_saturation
    BY <2>1, StakingAssumption DEF LegacyLockup
  <2>3. GenesisConfig.lockup_max_saturation <= LongestSaturation
    BY LongestExists
  <2>4. lockup[k].end_ts \in Int /\ lockup[k].start_ts \in Int
        /\ GenesisConfig.lockup_max_saturation \in Int
    BY <1>1, StakingAssumption DEF AccountingInv, TypeOK, LockupType, ConfigType
  <2> QED
    BY <2>2, <2>3, <2>4, LongestExists
<1> QED
  BY <1>1, <1>2, <1>3 DEF BoundInv, LockBounded

\* Replacing one lockup by a bounded one keeps all of them bounded.
LEMMA ReplaceKeepsBound ==
    ASSUME BoundInv, NEW k \in Keys, NEW new \in LockupType,
           new.end_ts <= new.start_ts + ns.lockup_max_saturation,
           lockup' = [lockup EXCEPT ![k] = new]
    PROVE  LockBounded'
<1> SUFFICES ASSUME NEW j \in Keys, lockup'[j].open
             PROVE  lockup'[j].end_ts <= lockup'[j].start_ts + LongestSaturation
  BY DEF LockBounded
<1>1. lockup \in [Keys -> LockupType]
  BY DEF BoundInv, AccountingInv, TypeOK
<1>2. CASE j = k
  <2>1. ns.lockup_max_saturation <= LongestSaturation
    BY LongestExists DEF BoundInv
  <2>2. ns.lockup_max_saturation \in Int /\ new.end_ts \in Int /\ new.start_ts \in Int
    BY ConfigFields DEF BoundInv, AccountingInv, LockupType
  <2>3. lockup'[j] = new
    BY <1>1, <1>2
  <2> QED
    BY <2>1, <2>2, <2>3, LongestExists
<1>3. CASE j # k
  <2>1. lockup'[j] = lockup[j]
    BY <1>1, <1>3
  <2> QED
    BY <2>1 DEF BoundInv, LockBounded
<1> QED
  BY <1>2, <1>3

LEMMA NextBound == BoundInv /\ [Next]_stakingVars => BoundInv'
<1> SUFFICES ASSUME BoundInv, [Next]_stakingVars PROVE BoundInv'
  OBVIOUS
<1>1. AccountingInv /\ AccountingInv'
  BY NextAccounting DEF BoundInv
<1>2. lockup \in [Keys -> LockupType]
  BY <1>1 DEF AccountingInv, TypeOK
<1>3. (ns \in Configs \cup {GenesisConfig})'
  BY DEF BoundInv, Next, StakingNext, Environment, Stake, StakeTo, Unstake,
         UpdateNamespace, Tick, Transfer, Donate, stakingVars
<1>4. LockBounded'
  <2>1. ASSUME NEW k \in Keys, NEW amount \in Amounts, NEW end_ts \in EndTimes,
               Stake(k, amount, end_ts)
        PROVE  LockBounded'
    <3> DEFINE new == Staked(lockup[k], amount, end_ts)
    <3>1. new \in LockupType
      BY <1>1, <2>1, StakeResult
    <3>2. new.end_ts <= new.start_ts + ns.lockup_max_saturation
      BY <1>1, <2>1, StakeEnd
    <3>3. lockup' = [lockup EXCEPT ![k] = new]
      BY <2>1 DEF Stake
    <3> HIDE DEF new
    <3> QED
      BY <3>1, <3>2, <3>3, ReplaceKeepsBound
  <2>2. ASSUME NEW signer \in Keys, NEW k \in Keys, NEW amount \in Amounts,
               NEW end_ts \in EndTimes, NEW disable_rewards \in BOOLEAN,
               StakeTo(signer, k, amount, end_ts, disable_rewards)
        PROVE  LockBounded'
    <3> DEFINE new == CouncilLockup(amount, end_ts, disable_rewards)
    <3>1. new \in LockupType
      BY <1>1, CouncilLockupType, ArgumentTypes DEF AccountingInv
    <3>2. new.start_ts = now
      BY DEF CouncilLockup
    <3>3. new.end_ts <= now + ns.lockup_max_saturation
      BY <1>1, StakeToEnd
    <3>4. lockup' = [lockup EXCEPT ![k] = new]
      BY <2>2 DEF StakeTo
    <3> HIDE DEF new
    <3> QED
      BY <3>1, <3>2, <3>3, <3>4, ReplaceKeepsBound
  <2>3. ASSUME NEW k \in Keys, Unstake(k) PROVE LockBounded'
    <3>1. lockup' = [lockup EXCEPT ![k] = NoLockup]
      BY <2>3 DEF Unstake
    <3> SUFFICES ASSUME NEW j \in Keys, lockup'[j].open
                 PROVE  lockup'[j].end_ts <= lockup'[j].start_ts + LongestSaturation
      BY DEF LockBounded
    <3>2. j # k
      BY <1>2, <3>1, NoLockupType
    <3>3. lockup'[j] = lockup[j]
      BY <1>2, <3>1, <3>2
    <3> QED
      BY <3>3 DEF BoundInv, LockBounded
  <2>4. ASSUME UNCHANGED lockup PROVE LockBounded'
    BY <2>4 DEF BoundInv, LockBounded
  <2> QED
    BY <2>1, <2>2, <2>3, <2>4
       DEF Next, StakingNext, Environment, UpdateNamespace, Tick, Transfer, Donate, stakingVars
<1> QED
  BY <1>1, <1>3, <1>4 DEF BoundInv

\* No lock reaches past the longest saturation from its start, however often
\* it is topped up and whatever the council does to the configuration.
THEOREM LocksAreBounded == Spec => []LockBounded
<1>1. BoundInv => LockBounded
  BY DEF BoundInv
<1> QED
  BY <1>1, InitBound, NextBound, PTL DEF Spec

----------------------------------------------------------------------------
(***************************************************************************)
(* The remaining theorems are for a council that leaves the saturation as  *)
(* it was found; the run "shortened" shows what another one may do.        *)
(***************************************************************************)
SaturationFixed ==
    \A c \in Configs : c.lockup_max_saturation = GenesisConfig.lockup_max_saturation

\* A quotient lies between the bounds that its dividend's multiples give.
LEMMA QuotientBounds ==
    ASSUME NEW A \in Int, NEW n \in Nat \ {0}, NEW x \in Int, NEW y \in Int,
           n * x <= A, A <= n * y
    PROVE  x <= A \div n /\ A \div n <= y
<1> DEFINE q == A \div n
<1>1. q \in Int /\ n * q <= A /\ A < n * (q + 1)
  OBVIOUS
<1> HIDE DEF q
<1>2. n * x < n * (q + 1)
  <2>1. n * x \in Int /\ n * (q + 1) \in Int
    BY <1>1
  <2> QED
    BY <1>1, <2>1
<1>3. n * q <= n * y
  <2>1. n * q \in Int /\ n * y \in Int
    BY <1>1
  <2> QED
    BY <1>1, <2>1
<1>4. x < q + 1
  BY <1>1, <1>2
<1>5. q <= y
  BY <1>1, <1>3
<1> QED
  BY <1>1, <1>4, <1>5 DEF q

\* A larger factor gives a larger product.
LEMMA ProductGrows ==
    ASSUME NEW n \in Nat, NEW x \in Int, NEW y \in Int, x <= y
    PROVE  n * x <= n * y
OBVIOUS

\* A top-up that does not move the end back keeps the weighted start between
\* the old one and now: the area is an average of areas.
LEMMA WeightedStartBounds ==
    ASSUME TypeOK, NEW l \in LockupType, l.amount # 0, NEW amount \in Nat,
           NEW capped_end \in Int, capped_end >= l.end_ts,
           EffectiveStartTs(l) <= now
    PROVE  /\ EffectiveStartTs(l) <= NewWeightedStart(l, amount, capped_end)
           /\ NewWeightedStart(l, amount, capped_end) <= now
<1> DEFINE n == l.amount
           e == l.end_ts
           w == EffectiveStartTs(l)
           A == NewArea(l, amount, capped_end)
<1>1. n \in Nat \ {0} /\ e \in Int /\ w \in Int /\ now \in Int
  BY DEF LockupType, EffectiveStartTs, TypeOK
<1>2. A = n * (e - w) + n * (capped_end - e) + amount * (capped_end - now)
  <2>1. (IF capped_end - e > 0 THEN capped_end - e ELSE 0) = capped_end - e
    BY <1>1
  <2> QED
    BY <2>1 DEF NewArea
<1>3. NewWeightedStart(l, amount, capped_end) = capped_end - A \div (n + amount)
  BY DEF NewWeightedStart
<1>4. capped_end >= e /\ w <= now
  OBVIOUS
<1> HIDE DEF n, e, w, A
<1>5. n * (e - w) + n * (capped_end - e) = n * (capped_end - w)
  BY <1>1
<1>6. n * (capped_end - now) <= n * (capped_end - w)
  BY <1>1, <1>4, ProductGrows
<1>7. amount * (capped_end - now) <= amount * (capped_end - w)
  BY <1>1, <1>4, ProductGrows
<1>8. /\ (n + amount) * (capped_end - now) = n * (capped_end - now) + amount * (capped_end - now)
      /\ (n + amount) * (capped_end - w) = n * (capped_end - w) + amount * (capped_end - w)
  BY <1>1
<1>9. /\ n * (capped_end - now) \in Int /\ amount * (capped_end - now) \in Int
      /\ n * (capped_end - w) \in Int /\ amount * (capped_end - w) \in Int
  BY <1>1
<1>10. A \in Int /\ (n + amount) * (capped_end - now) <= A /\ A <= (n + amount) * (capped_end - w)
  BY <1>2, <1>5, <1>6, <1>7, <1>8, <1>9
<1>11. n + amount \in Nat \ {0} /\ capped_end - now \in Int /\ capped_end - w \in Int
  BY <1>1
<1>12. capped_end - now <= A \div (n + amount) /\ A \div (n + amount) <= capped_end - w
  BY <1>10, <1>11, QuotientBounds
<1>13. A \div (n + amount) \in Int
  BY <1>10, <1>11
<1> QED
  BY <1>1, <1>3, <1>12, <1>13 DEF w

(***************************************************************************)
(* The inductive invariant: every lock started in the past, ends within    *)
(* the one saturation, and has its weighted start since then.              *)
(***************************************************************************)
AgeOk(l, time) ==
    /\ l.start_ts \in 0 .. time
    /\ EffectiveStartTs(l) \in l.start_ts .. time
    /\ l.end_ts <= l.start_ts + GenesisConfig.lockup_max_saturation

AgeInv ==
    /\ AccountingInv
    /\ ns.lockup_max_saturation = GenesisConfig.lockup_max_saturation
    /\ \A k \in Keys : lockup[k].open => AgeOk(lockup[k], now)

\* What stake leaves is such a lock, and moves no end back.
LEMMA StakeAge ==
    ASSUME AgeInv, NEW k \in Keys, NEW amount \in Amounts, NEW end_ts \in EndTimes,
           Stake(k, amount, end_ts)
    PROVE  LET new == Staked(lockup[k], amount, end_ts)
           IN  /\ AgeOk(new, now)
               /\ lockup[k].open /\ lockup[k].end_ts # 0 => new.end_ts >= lockup[k].end_ts
<1> DEFINE new == Staked(lockup[k], amount, end_ts)
<1>1. amount \in Nat /\ end_ts \in Int /\ lockup[k] \in LockupType
      /\ TypeOK /\ AccountingInv /\ now \in Nat
  BY ArgumentTypes, ConfigFields DEF AgeInv, AccountingInv, TypeOK
<1>2. new \in LockupType
  BY <1>1, StakeResult
<1>3. new.end_ts <= new.start_ts + GenesisConfig.lockup_max_saturation
  BY <1>1, StakeEnd DEF AgeInv
<1>4. CASE IsFirstStake(lockup[k])
  <2>1. new.start_ts = now /\ new.weighted_start_ts = now
    BY <1>4 DEF Staked, FirstStake
  <2>2. EffectiveStartTs(new) = now
    BY <2>1 DEF EffectiveStartTs
  <2>3. ~lockup[k].open
    BY <1>1, <1>4 DEF IsFirstStake, AccountingInv, Backing
  <2> HIDE DEF new
  <2>4. AgeOk(new, now)
    BY <1>1, <1>3, <2>1, <2>2 DEF AgeOk
  <2> QED
    BY <2>3, <2>4 DEF new
<1>5. CASE ~IsFirstStake(lockup[k])
  <2> DEFINE l == Normalize(lockup[k])
             capped_end == CappedEnd(l.start_ts, end_ts)
  <2>1. /\ l \in LockupType /\ l.amount = lockup[k].amount
        /\ l.start_ts = lockup[k].start_ts /\ l.end_ts = lockup[k].end_ts
        /\ l.weighted_start_ts = EffectiveStartTs(lockup[k])
    BY <1>1, NormalizeType
  <2>2. l.amount # 0
    BY <1>5, <2>1 DEF IsFirstStake
  <2>3. AgeOk(lockup[k], now)
    BY <1>5, NoLockupType DEF AgeInv, AccountingInv, Backing, IsFirstStake
  <2>4. EffectiveStartTs(l) = EffectiveStartTs(lockup[k])
    BY <2>1 DEF EffectiveStartTs
  <2>5. new = Restake(l, amount, end_ts)
    BY <1>5 DEF Staked
  <2>6. RestakeAllowed(l, amount, end_ts)
    BY <1>5 DEF Stake
  <2>7. GenesisConfig.lockup_max_saturation \in Int
        /\ LatestEnd(l.start_ts) = l.start_ts + GenesisConfig.lockup_max_saturation
    BY <1>1, StakingAssumption, ConfigFields DEF LatestEnd, AgeInv, ConfigType
  <2>8. l.start_ts \in Int /\ l.end_ts \in Int
    BY <2>1 DEF LockupType
  <2>9. capped_end \in Int
    BY <1>1, <2>8, CappedEndType
  <2> HIDE DEF l
  <2>10. new.start_ts = l.start_ts /\ new.end_ts = capped_end
    BY <1>1, <2>1, <2>2, <2>5, RestakeType
  <2>11. CASE l.end_ts = 0
    <3>1. new.weighted_start_ts = now
      BY <2>5, <2>11, <2>1 DEF Restake, SetUnsetEnd, LockupType
    <3>2. EffectiveStartTs(new) \in {new.start_ts, now}
      BY <3>1 DEF EffectiveStartTs
    <3> HIDE DEF new
    <3>3. new.start_ts \in 0 .. now
      BY <2>1, <2>3, <2>10 DEF AgeOk
    <3>4. AgeOk(new, now)
      BY <1>1, <1>3, <3>2, <3>3 DEF AgeOk
    <3> QED
      BY <2>1, <2>11, <3>4 DEF new
  <2>12. CASE l.end_ts # 0
    <3>1. end_ts >= l.end_ts
      BY <2>6, <2>12 DEF RestakeAllowed, TopUpAllowed
    <3>2. l.end_ts <= l.start_ts + GenesisConfig.lockup_max_saturation
      BY <2>1, <2>3 DEF AgeOk
    <3>3. capped_end >= l.end_ts
      BY <1>1, <2>7, <2>8, <3>1, <3>2 DEF CappedEnd
    <3>4. EffectiveStartTs(l) \in l.start_ts .. now /\ l.start_ts \in 0 .. now
      BY <2>1, <2>3, <2>4 DEF AgeOk
    <3>5. new.weighted_start_ts = NewWeightedStart(l, amount, capped_end)
      BY <2>1, <2>5, <2>12 DEF Restake, TopUp, LockupType
    <3> HIDE DEF capped_end, new
    <3>6. new.weighted_start_ts >= EffectiveStartTs(l) /\ new.weighted_start_ts <= now
      BY <1>1, <2>1, <2>2, <2>9, <3>3, <3>4, <3>5, WeightedStartBounds
    <3>7. new.weighted_start_ts \in Int /\ new.start_ts \in Int /\ EffectiveStartTs(l) \in Int
      BY <1>2, <3>4 DEF LockupType
    <3>8. EffectiveStartTs(new) \in new.start_ts .. now
      BY <1>1, <2>8, <2>10, <3>4, <3>6, <3>7 DEF EffectiveStartTs
    <3>9. AgeOk(new, now)
      BY <1>3, <2>10, <3>4, <3>8 DEF AgeOk
    <3> QED
      BY <2>1, <2>10, <3>3, <3>9 DEF new
  <2> QED
    BY <2>11, <2>12
<1> QED
  BY <1>4, <1>5

\* So is what stake_to leaves.
LEMMA StakeToAge ==
    ASSUME AgeInv, NEW amount \in Amounts, NEW end_ts \in EndTimes,
           NEW disable_rewards \in BOOLEAN
    PROVE  AgeOk(CouncilLockup(amount, end_ts, disable_rewards), now)
<1> DEFINE new == CouncilLockup(amount, end_ts, disable_rewards)
<1>1. now \in Nat
  BY ConfigFields DEF AgeInv, AccountingInv
<1>2. new.start_ts = now /\ EffectiveStartTs(new) = now
  BY DEF CouncilLockup, EffectiveStartTs
<1>3. new.end_ts <= now + GenesisConfig.lockup_max_saturation
  BY StakeToEnd DEF AgeInv
<1> HIDE DEF new
<1>4. AgeOk(new, now)
  BY <1>1, <1>2, <1>3 DEF AgeOk
<1> QED
  BY <1>4 DEF new

\* The legacy lockups are such locks, too.
LEMMA InitAge == Init => AgeInv
<1> SUFFICES ASSUME Init PROVE AgeInv
  OBVIOUS
<1>1. AccountingInv /\ ns = GenesisConfig /\ now = GenesisTime
  BY InitAccounting DEF Init
<1>2. ASSUME NEW k \in Keys, lockup[k].open PROVE AgeOk(lockup[k], now)
  <2>1. lockup[k] \in LegacyLockups
    BY <1>2, NoLockupType DEF Init
  <2>2. /\ lockup[k].start_ts \in 0 .. now /\ lockup[k].weighted_start_ts = 0
        /\ lockup[k].end_ts <= lockup[k].start_ts + GenesisConfig.lockup_max_saturation
    BY <1>1, <2>1, StakingAssumption DEF LegacyLockup
  <2>3. EffectiveStartTs(lockup[k]) \in lockup[k].start_ts .. now
    BY <1>1, <2>2, ArgumentTypes DEF EffectiveStartTs
  <2> QED
    BY <2>2, <2>3 DEF AgeOk
<1> QED
  BY <1>1, <1>2 DEF AgeInv

\* A lock only gets older.
LEMMA AgeIsStable ==
    ASSUME NEW l \in LockupType, NEW t \in Int, NEW u \in Int, t <= u, AgeOk(l, t)
    PROVE  AgeOk(l, u)
<1>1. l.start_ts \in Int /\ EffectiveStartTs(l) \in Int
  BY DEF LockupType, EffectiveStartTs
<1> QED
  BY <1>1 DEF AgeOk

\* Every step keeps the ages of all locks.
LEMMA NextAge == SaturationFixed /\ AgeInv /\ [Next]_stakingVars => AgeInv'
<1> SUFFICES ASSUME SaturationFixed, AgeInv, [Next]_stakingVars PROVE AgeInv'
  OBVIOUS
<1>1. AccountingInv /\ AccountingInv'
  BY NextAccounting DEF AgeInv
<1>2. lockup \in [Keys -> LockupType] /\ now \in Int /\ now' \in Int
  BY <1>1 DEF AccountingInv, TypeOK
<1>3. (ns.lockup_max_saturation = GenesisConfig.lockup_max_saturation)'
  BY DEF AgeInv, SaturationFixed, Next, StakingNext, Environment, Stake, StakeTo, Unstake,
         UpdateNamespace, Tick, Transfer, Donate, stakingVars
<1>4. now <= now'
  BY <1>2 DEF Next, StakingNext, Environment, Stake, StakeTo, Unstake,
         UpdateNamespace, Tick, Transfer, Donate, stakingVars
<1>5. ASSUME NEW j \in Keys, lockup'[j].open PROVE AgeOk(lockup'[j], now')
  <2>1. CASE lockup'[j] = lockup[j]
    BY <1>2, <1>4, <1>5, <2>1, AgeIsStable DEF AgeInv
  <2>2. CASE lockup'[j] # lockup[j]
    <3>1. ASSUME NEW k \in Keys, NEW amount \in Amounts, NEW end_ts \in EndTimes,
                 Stake(k, amount, end_ts)
          PROVE  AgeOk(lockup'[j], now')
      <4>1. lockup'[j] = Staked(lockup[j], amount, end_ts) /\ j = k /\ now' = now
        BY <1>2, <2>2, <3>1 DEF Stake
      <4> QED
        BY <3>1, <4>1, StakeAge
    <3>2. ASSUME NEW signer \in Keys, NEW k \in Keys, NEW amount \in Amounts,
                 NEW end_ts \in EndTimes, NEW disable_rewards \in BOOLEAN,
                 StakeTo(signer, k, amount, end_ts, disable_rewards)
          PROVE  AgeOk(lockup'[j], now')
      <4>1. lockup'[j] = CouncilLockup(amount, end_ts, disable_rewards) /\ now' = now
        BY <1>2, <2>2, <3>2 DEF StakeTo
      <4> QED
        BY <4>1, StakeToAge
    <3>3. ASSUME NEW k \in Keys, Unstake(k) PROVE FALSE
      BY <1>2, <1>5, <2>2, <3>3, NoLockupType DEF Unstake
    <3>4. ~ UNCHANGED lockup
      BY <2>2
    <3> QED
      BY <3>1, <3>2, <3>3, <3>4
         DEF Next, StakingNext, Environment, UpdateNamespace, Tick, Transfer, Donate, stakingVars
  <2> QED
    BY <2>1, <2>2
<1> QED
  BY <1>1, <1>3, <1>5 DEF AgeInv

\* Under one saturation the weighted start is always a time since the lock
\* began, whatever is topped up or extended, in whichever order.
THEOREM WeightedStartsInPast ==
    ASSUME SaturationFixed
    PROVE  Spec => []WeightedStartInPast
<1>1. AgeInv => WeightedStartInPast
  BY DEF AgeInv, AgeOk, WeightedStartInPast
<1>2. AgeInv /\ [Next]_stakingVars => AgeInv'
  BY NextAge
<1> QED
  BY <1>1, <1>2, InitAge, PTL DEF Spec

----------------------------------------------------------------------------
\* No step shortens, lowers, closes or empties a lock that is running.
LEMMA StepGrowsLock ==
    ASSUME AgeInv, [Next]_stakingVars, NEW k \in Keys,
           lockup[k].open, now < lockup[k].end_ts
    PROVE  /\ lockup'[k].open
           /\ lockup'[k].amount >= lockup[k].amount
           /\ lockup'[k].end_ts >= lockup[k].end_ts
           /\ escrow'[k] >= escrow[k]
<1> DEFINE Grown == /\ lockup'[k].open
                    /\ lockup'[k].amount >= lockup[k].amount
                    /\ lockup'[k].end_ts >= lockup[k].end_ts
                    /\ escrow'[k] >= escrow[k]
<1>1. /\ AccountingInv /\ TypeOK /\ lockup \in [Keys -> LockupType]
      /\ escrow \in [Keys -> Nat] /\ now \in Nat
  BY ConfigFields DEF AgeInv, AccountingInv, TypeOK
<1>2. lockup[k].amount \in Nat /\ lockup[k].end_ts \in Int /\ escrow[k] \in Nat
  BY <1>1 DEF LockupType
<1>3. ASSUME lockup'[k] = lockup[k], escrow'[k] >= escrow[k] PROVE Grown
  BY <1>2, <1>3
<1>4. ASSUME NEW j \in Keys, NEW amount \in Amounts, NEW end_ts \in EndTimes,
             Stake(j, amount, end_ts)
      PROVE  Grown
  <2>1. amount \in Nat /\ FundsOk(j, amount) /\ Deposit(j, j, amount)
    BY <1>4, ArgumentTypes DEF Stake, StakeAccountsOk
  <2>2. escrow'[j] = escrow[j] + amount /\ \A i \in Keys \ {j} : escrow'[i] = escrow[i]
    BY <1>1, <2>1, DepositResult
  <2>3. escrow'[k] >= escrow[k]
    BY <1>1, <2>1, <2>2
  <2>4. lockup' = [lockup EXCEPT ![j] = Staked(lockup[j], amount, end_ts)]
    BY <1>4 DEF Stake
  <2>5. CASE j = k
    <3> DEFINE new == Staked(lockup[k], amount, end_ts)
    <3>1. lockup'[k] = new
      BY <1>1, <2>4, <2>5
    <3>2. new.open /\ new.amount = lockup[k].amount + amount
      BY <1>1, <1>4, <2>5, StakeResult
    <3>3. lockup[k].end_ts # 0
      BY <1>1, <1>2
    <3>4. new.end_ts >= lockup[k].end_ts
      BY <1>4, <2>5, <3>3, StakeAge
    <3> HIDE DEF new
    <3> QED
      BY <1>2, <2>1, <2>3, <3>1, <3>2, <3>4
  <2>6. CASE j # k
    <3>1. lockup'[k] = lockup[k]
      BY <1>1, <2>4, <2>6
    <3> QED
      BY <1>3, <2>3, <3>1
  <2> QED
    BY <2>5, <2>6
<1>5. ASSUME NEW signer \in Keys, NEW j \in Keys, NEW amount \in Amounts,
             NEW end_ts \in EndTimes, NEW disable_rewards \in BOOLEAN,
             StakeTo(signer, j, amount, end_ts, disable_rewards)
      PROVE  Grown
  <2>1. amount \in Nat /\ FundsOk(signer, amount) /\ Deposit(signer, j, amount) /\ j # k
    BY <1>5, ArgumentTypes DEF StakeTo, StakeToAccountsOk
  <2>2. \A i \in Keys \ {j} : escrow'[i] = escrow[i]
    BY <1>1, <2>1, DepositResult
  <2>3. lockup'[k] = lockup[k]
    BY <1>1, <1>5, <2>1 DEF StakeTo
  <2> QED
    BY <1>2, <1>3, <2>1, <2>2, <2>3
<1>6. ASSUME NEW j \in Keys, Unstake(j) PROVE Grown
  <2>1. j # k
    BY <1>1, <1>2, <1>6 DEF Unstake, CanUnstake, Expired
  <2>2. lockup'[k] = lockup[k] /\ escrow'[k] = escrow[k]
    BY <1>1, <1>6, <2>1 DEF Unstake
  <2> QED
    BY <1>2, <1>3, <2>2
<1>7. ASSUME NEW from \in Keys, NEW owner \in Keys, Donate(from, owner) PROVE Grown
  <2>1. escrow'[owner] = escrow[owner] + 1 /\ \A i \in Keys \ {owner} : escrow'[i] = escrow[i]
    BY <1>1, <1>7, DepositResult DEF Donate, FundsOk
  <2>2. escrow'[k] >= escrow[k]
    BY <1>1, <2>1
  <2> QED
    BY <1>3, <1>7, <2>2 DEF Donate
<1>8. ASSUME UNCHANGED <<lockup, escrow>> PROVE Grown
  BY <1>2, <1>3, <1>8
<1> QED
  BY <1>4, <1>5, <1>6, <1>7, <1>8
     DEF Next, StakingNext, Environment, UpdateNamespace, Tick, Transfer, stakingVars

\* Under one saturation a running lock can only grow: stake does forbid
\* shortening, and nobody else can touch the lock or its escrow.
THEOREM RunningLocksOnlyGrow ==
    ASSUME SaturationFixed
    PROVE  Spec => RunningLockOnlyGrows
<1>1. AgeInv /\ [Next]_stakingVars =>
        [\A k \in Keys : lockup[k].open /\ now < lockup[k].end_ts =>
           /\ lockup'[k].open
           /\ lockup'[k].amount >= lockup[k].amount
           /\ lockup'[k].end_ts >= lockup[k].end_ts
           /\ escrow'[k] >= escrow[k]]_stakingVars
  BY StepGrowsLock
<1>2. AgeInv /\ [Next]_stakingVars => AgeInv'
  BY NextAge
<1> QED
  BY <1>1, <1>2, InitAge, PTL DEF Spec, RunningLockOnlyGrows

----------------------------------------------------------------------------
(***************************************************************************)
(* What a top-up does to the voting power.  A lockup of n tokens at        *)
(* percentage 100 + c gains, at full duration, G = (n * (100 + c)) \div    *)
(* 100 - n: the hundredths g are lost.  The lemmas are about two such      *)
(* gains G and H, the gain J of their sum, and times fo >= f >= fx on the  *)
(* ramp, f their weighted average.                                         *)
(***************************************************************************)

Gain(n, c) == (n * (c + 100)) \div 100 - n

\* Voting power at [f] seconds on a ramp of [r].
RampPower(n, c, f, r) == n + (Gain(n, c) * f) \div r

\* The hundredths that rounding a gain down loses.
Loss(n, c) == n * c - 100 * Gain(n, c)

LEMMA GainLoss ==
    ASSUME NEW n \in Nat, NEW c \in Nat
    PROVE  /\ Gain(n, c) \in Nat
           /\ Loss(n, c) \in 0 .. 99
           /\ 100 * Gain(n, c) = n * c - Loss(n, c)
<1> DEFINE q == (n * (c + 100)) \div 100
<1>1. n * (c + 100) = n * c + 100 * n /\ n * c \in Nat /\ n * (c + 100) \in Nat
  BY ProductGrows
<1>2. ASSUME NEW A \in Nat
      PROVE  A \div 100 \in Nat /\ 100 * (A \div 100) <= A /\ A <= 100 * (A \div 100) + 99
  OBVIOUS
<1>3. q \in Nat /\ 100 * q <= n * (c + 100) /\ n * (c + 100) <= 100 * q + 99
  BY <1>1, <1>2
<1> HIDE DEF q
<1> DEFINE product == n * c
<1>4. product \in Nat /\ 100 * q <= product + 100 * n /\ product + 100 * n <= 100 * q + 99
  BY <1>1, <1>3
<1> HIDE DEF product
<1>5. q - n \in Nat /\ product - 100 * (q - n) \in 0 .. 99
  <2>1. q - n \in Int /\ product - 100 * (q - n) \in Int
    BY <1>3, <1>4
  <2>2. 100 * (q - n) <= product /\ product <= 100 * (q - n) + 99
    BY <1>3, <1>4
  <2>3. ASSUME NEW d \in Int, NEW b \in Nat, 100 * d <= b, b <= 100 * d + 99
        PROVE  d \in Nat /\ b - 100 * d \in 0 .. 99
    BY <2>3
  <2> QED
    BY <1>4, <2>1, <2>2, <2>3
<1>6. 100 * (q - n) = product - (product - 100 * (q - n))
  BY <1>3, <1>4
<1> QED
  BY <1>5, <1>6 DEF Gain, Loss, q, product

\* Two lockups lose together what one of both would, or one unit more.
LEMMA GainLosses ==
    ASSUME NEW n \in Nat, NEW x \in Nat, NEW c \in Nat
    PROVE  Loss(n + x, c) \in {Loss(n, c) + Loss(x, c), Loss(n, c) + Loss(x, c) - 100}
<1> DEFINE G == Gain(n, c)
           H == Gain(x, c)
           J == Gain(n + x, c)
           g == Loss(n, c)
           h == Loss(x, c)
           j == Loss(n + x, c)
<1> HIDE DEF G, H, J, g, h, j
<1>gains. /\ G \in Nat /\ H \in Nat /\ J \in Nat
          /\ g \in 0 .. 99 /\ h \in 0 .. 99 /\ j \in 0 .. 99
          /\ 100 * G = n * c - g /\ 100 * H = x * c - h /\ 100 * J = (n + x) * c - j
  <2>1. n + x \in Nat
    OBVIOUS
  <2> QED
    BY <2>1, GainLoss DEF G, H, J, g, h, j
<1> USE <1>gains
<1>1. (n + x) * c = n * c + x * c /\ n * c \in Int /\ x * c \in Int
  OBVIOUS
<1> DEFINE a == n * c
           b == x * c
<1>2. a \in Int /\ b \in Int /\ 100 * G = a - g /\ 100 * H = b - h /\ 100 * J = a + b - j
  BY <1>1
<1> HIDE DEF a, b
<1> DEFINE more == J - G - H
<1>3. more \in Int /\ 100 * more = g + h - j
  BY <1>2
<1> HIDE DEF more
<1>4. more \in {0, 1}
  BY <1>3
<1>5. j \in {g + h, g + h - 100}
  BY <1>3, <1>4
<1> QED
  BY <1>5 DEF g, h, j

\* The gain times a duration, in hundredths.
LEMMA GainTimes ==
    ASSUME NEW n \in Int, NEW c \in Int, NEW G \in Int, NEW g \in Int, NEW f \in Int,
           100 * G = n * c - g
    PROVE  100 * (G * f) = c * (n * f) - g * f
<1>1. 100 * (G * f) = (100 * G) * f
  OBVIOUS
<1>2. (n * c - g) * f = c * (n * f) - g * f
  OBVIOUS
<1> QED
  BY <1>1, <1>2

\* The whole gains at most one unit more than its parts.
LEMMA WholeGainsLittle ==
    ASSUME NEW n \in Nat, NEW x \in Nat, NEW c \in Nat,
           NEW fo \in Nat, NEW fx \in Nat, NEW f \in Nat, NEW r \in Nat,
           fx <= f, f <= fo, fo <= r,
           (n + x) * f <= n * fo + x * fx
    PROVE  Gain(n + x, c) * f <= Gain(n, c) * fo + Gain(x, c) * fx + r
<1> DEFINE G == Gain(n, c)
           H == Gain(x, c)
           J == Gain(n + x, c)
           g == Loss(n, c)
           h == Loss(x, c)
           j == Loss(n + x, c)
<1> HIDE DEF G, H, J, g, h, j
<1>gains. /\ G \in Nat /\ H \in Nat /\ J \in Nat
          /\ g \in 0 .. 99 /\ h \in 0 .. 99 /\ j \in 0 .. 99
          /\ 100 * G = n * c - g /\ 100 * H = x * c - h /\ 100 * J = (n + x) * c - j
  <2>1. n + x \in Nat
    OBVIOUS
  <2> QED
    BY <2>1, GainLoss DEF G, H, J, g, h, j
<1> USE <1>gains
<1>losses. j \in {g + h, g + h - 100}
  BY GainLosses DEF g, h, j
<1>1. /\ 100 * (G * fo) = c * (n * fo) - g * fo
      /\ 100 * (H * fx) = c * (x * fx) - h * fx
      /\ 100 * (J * f) = c * ((n + x) * f) - j * f
  BY GainTimes
<1>2. c * ((n + x) * f) <= c * (n * fo) + c * (x * fx)
  <2>1. c * ((n + x) * f) <= c * (n * fo + x * fx)
    BY ProductGrows
  <2>2. c * (n * fo + x * fx) = c * (n * fo) + c * (x * fx)
    OBVIOUS
  <2> QED
    BY <2>1, <2>2
<1>3. g * fo + h * fx - j * f <= 100 * r
  <2>1. h * fx <= h * f
    BY ProductGrows
  <2>2. (fo - f) * g <= (fo - f) * 100
    <3>1. fo - f \in Nat
      OBVIOUS
    <3> QED
      BY <3>1, ProductGrows
  <2>3. (fo - f) * g = g * fo - g * f
    OBVIOUS
  <2>4. (g + h) * f = g * f + h * f /\ (g + h - 100) * f = g * f + h * f - 100 * f
    OBVIOUS
  <2>5. \/ j * f = g * f + h * f
        \/ j * f = g * f + h * f - 100 * f
    BY <1>losses, <2>4
  <2> DEFINE gfo == g * fo
             gf == g * f
             hfx == h * fx
             hf == h * f
             jf == j * f
  <2>6. gfo \in Int /\ gf \in Int /\ hfx \in Int /\ hf \in Int /\ jf \in Int
    OBVIOUS
  <2>7. /\ hfx <= hf
        /\ gfo - gf <= (fo - f) * 100
        /\ jf = gf + hf \/ jf = gf + hf - 100 * f
    BY <2>1, <2>2, <2>3, <2>5
  <2> HIDE DEF gfo, gf, hfx, hf, jf
  <2>8. gfo + hfx - jf <= 100 * r
    BY <2>6, <2>7
  <2> QED
    BY <2>8 DEF gfo, hfx, jf
<1> DEFINE cnf == c * (n * fo)
           cxf == c * (x * fx)
           cwf == c * ((n + x) * f)
           Gf == G * fo
           Hf == H * fx
           Jf == J * f
           gfo == g * fo
           hfx == h * fx
           jf == j * f
<1>4. /\ cnf \in Int /\ cxf \in Int /\ cwf \in Int /\ Gf \in Int /\ Hf \in Int /\ Jf \in Int
      /\ gfo \in Int /\ hfx \in Int /\ jf \in Int
  OBVIOUS
<1>5. /\ 100 * Gf = cnf - gfo /\ 100 * Hf = cxf - hfx /\ 100 * Jf = cwf - jf
      /\ cwf <= cnf + cxf /\ gfo + hfx - jf <= 100 * r
  BY <1>1, <1>2, <1>3
<1> HIDE DEF cnf, cxf, cwf, Gf, Hf, Jf, gfo, hfx, jf
<1>6. Jf <= Gf + Hf + r
  BY <1>4, <1>5
<1> QED
  BY <1>6 DEF Gf, Hf, Jf, G, H, J

\* The parts gain at most one unit more than the whole does in one second
\* more, the second by which the average of the times was rounded down.
LEMMA WholeGainsEnough ==
    ASSUME NEW n \in Nat, NEW x \in Nat, NEW c \in Nat,
           NEW fo \in Nat, NEW fx \in Nat, NEW f \in Nat, NEW r \in Nat \ {0},
           fx <= f, f <= fo, fo <= r, f = fo => x = 0 \/ fx = fo,
           n * fo + x * fx <= (n + x) * (f + 1)
    PROVE  Gain(n, c) * fo + Gain(x, c) * fx <= Gain(n + x, c) * f + Gain(n + x, c) + r
<1> DEFINE G == Gain(n, c)
           H == Gain(x, c)
           J == Gain(n + x, c)
           g == Loss(n, c)
           h == Loss(x, c)
           j == Loss(n + x, c)
<1> HIDE DEF G, H, J, g, h, j
<1>gains. /\ G \in Nat /\ H \in Nat /\ J \in Nat
          /\ g \in 0 .. 99 /\ h \in 0 .. 99 /\ j \in 0 .. 99
          /\ 100 * G = n * c - g /\ 100 * H = x * c - h /\ 100 * J = (n + x) * c - j
  <2>1. n + x \in Nat
    OBVIOUS
  <2> QED
    BY <2>1, GainLoss DEF G, H, J, g, h, j
<1> USE <1>gains
<1>losses. j <= g + h
  <2>1. j \in {g + h, g + h - 100}
    BY GainLosses DEF g, h, j
  <2> QED
    BY <2>1
<1>1. /\ 100 * (G * fo) = c * (n * fo) - g * fo
      /\ 100 * (H * fx) = c * (x * fx) - h * fx
      /\ 100 * (J * (f + 1)) = c * ((n + x) * (f + 1)) - j * (f + 1)
  BY GainTimes
<1>2. c * (n * fo) + c * (x * fx) <= c * ((n + x) * (f + 1))
  <2>1. c * (n * fo + x * fx) <= c * ((n + x) * (f + 1))
    BY ProductGrows
  <2>2. c * (n * fo + x * fx) = c * (n * fo) + c * (x * fx)
    OBVIOUS
  <2> QED
    BY <2>1, <2>2
<1>3. j * (f + 1) - g * fo - h * fx <= 100 * r
  <2> DEFINE gfo == g * fo
             hfx == h * fx
             jf == j * (f + 1)
  <2>1. gfo \in Int /\ hfx \in Int /\ jf \in Int
    OBVIOUS
  <2>2. hfx >= 0 /\ gfo >= 0
    OBVIOUS
  <2>3. CASE f < fo
    <3>1. (f + 1) * j <= (f + 1) * (g + h)
      <4>1. f + 1 \in Nat /\ j \in Int /\ g + h \in Int
        OBVIOUS
      <4> HIDE DEF gfo, hfx, jf
      <4> QED
        BY <1>losses, <4>1, ProductGrows
    <3>2. (f + 1) * (g + h) = g * (f + 1) + (f + 1) * h /\ (f + 1) * j = jf
      OBVIOUS
    <3>3. g * (f + 1) <= g * fo
      BY <2>3, ProductGrows
    <3>4. (f + 1) * h <= (f + 1) * 100
      BY ProductGrows
    <3> DEFINE gf == g * (f + 1)
               hf == (f + 1) * h
    <3>5. gf \in Int /\ hf \in Int /\ jf <= gf + hf /\ gf <= gfo /\ hf <= (f + 1) * 100
      BY <3>1, <3>2, <3>3, <3>4
    <3> HIDE DEF gf, hf, gfo, hfx, jf
    <3>6. jf - gfo - hfx <= (f + 1) * 100
      BY <2>1, <2>2, <3>5
    <3> QED
      BY <2>1, <2>3, <3>6 DEF gfo, hfx, jf
  <2>4. CASE f = fo /\ x = 0
    <3>1. h = 0
      <4>1. x * c = 0
        BY <2>4
      <4> QED
        BY <4>1
    <3>2. f * j <= f * g
      BY <1>losses, <3>1, ProductGrows
    <3>3. jf = f * j + j /\ gfo = f * g
      BY <2>4
    <3> DEFINE fj == f * j
               fg == f * g
    <3>4. fj \in Int /\ fg \in Int /\ fj <= fg /\ jf = fj + j /\ gfo = fg
      BY <3>2, <3>3
    <3> HIDE DEF fj, fg, gfo, hfx, jf
    <3>5. jf - gfo - hfx <= 100
      BY <2>1, <2>2, <3>4
    <3> QED
      BY <2>1, <3>5 DEF gfo, hfx, jf
  <2>5. CASE f = fo /\ fx = fo
    <3>1. f * j <= f * (g + h)
      BY <1>losses, ProductGrows
    <3>2. f * (g + h) = g * f + h * f /\ jf = f * j + j
      OBVIOUS
    <3> DEFINE fj == f * j
    <3>3. fj \in Int /\ fj <= gfo + hfx /\ jf = fj + j
      BY <2>5, <3>1, <3>2
    <3> HIDE DEF fj, gfo, hfx, jf
    <3>4. jf - gfo - hfx <= 100
      BY <2>1, <3>3
    <3> QED
      BY <2>1, <3>4 DEF gfo, hfx, jf
  <2> QED
    BY <2>3, <2>4, <2>5
<1> DEFINE cnf == c * (n * fo)
           cxf == c * (x * fx)
           cwf == c * ((n + x) * (f + 1))
           Gf == G * fo
           Hf == H * fx
           Jf == J * (f + 1)
           gfo == g * fo
           hfx == h * fx
           jf == j * (f + 1)
<1>4. /\ cnf \in Int /\ cxf \in Int /\ cwf \in Int /\ Gf \in Int /\ Hf \in Int /\ Jf \in Int
      /\ gfo \in Int /\ hfx \in Int /\ jf \in Int
  OBVIOUS
<1>5. /\ 100 * Gf = cnf - gfo /\ 100 * Hf = cxf - hfx /\ 100 * Jf = cwf - jf
      /\ cnf + cxf <= cwf /\ jf - gfo - hfx <= 100 * r
  BY <1>1, <1>2, <1>3
<1>6. Jf = J * f + J
  OBVIOUS
<1> HIDE DEF cnf, cxf, cwf, Gf, Hf, Jf, gfo, hfx, jf
<1>7. Gf + Hf <= Jf + r
  BY <1>4, <1>5
<1> QED
  BY <1>6, <1>7 DEF Gf, Hf, G, H, J

\* Quotients by the same divisor, of sums that differ by at most one.
LEMMA QuotientsAdd ==
    ASSUME NEW A \in Int, NEW B \in Int, NEW C \in Int, NEW D \in Int, NEW r \in Nat \ {0},
           A + B <= C + D + r
    PROVE  A \div r + B \div r <= C \div r + D \div r + 2
<1>1. ASSUME NEW Z \in Int
      PROVE  Z \div r \in Int /\ r * (Z \div r) <= Z /\ Z < r * (Z \div r + 1)
  OBVIOUS
<1> DEFINE a == A \div r
           b == B \div r
           e == C \div r
           d == D \div r
<1>2. /\ a \in Int /\ b \in Int /\ e \in Int /\ d \in Int
      /\ r * a <= A /\ r * b <= B /\ C < r * (e + 1) /\ D < r * (d + 1)
  BY <1>1
<1> HIDE DEF a, b, e, d
<1>3. r * (a + b) < r * (e + d + 3)
  <2>1. /\ r * (a + b) = r * a + r * b
        /\ r * (e + d + 3) = r * (e + 1) + r * (d + 1) + r
    BY <1>2
  <2> DEFINE ra == r * a
             rb == r * b
             re == r * (e + 1)
             rd == r * (d + 1)
  <2>2. ra \in Int /\ rb \in Int /\ re \in Int /\ rd \in Int
    BY <1>2
  <2>3. ra <= A /\ rb <= B /\ C < re /\ D < rd
    BY <1>2
  <2> HIDE DEF ra, rb, re, rd
  <2>4. ra + rb < re + rd + r
    BY <2>2, <2>3
  <2> QED
    BY <2>1, <2>4 DEF ra, rb, re, rd
<1>4. a + b < e + d + 3
  BY <1>2, <1>3
<1> QED
  BY <1>2, <1>4 DEF a, b, e, d

\* So a whole has the power of its parts, up to rounding.
LEMMA PowersAdd ==
    ASSUME NEW n \in Nat, NEW x \in Nat, NEW c \in Nat,
           NEW fo \in Nat, NEW fx \in Nat, NEW f \in Nat, NEW r \in Nat \ {0},
           fx <= f, f <= fo, fo <= r, f = fo => x = 0 \/ fx = fo,
           (n + x) * f <= n * fo + x * fx,
           n * fo + x * fx <= (n + x) * (f + 1)
    PROVE  /\ RampPower(n + x, c, f, r)
                <= RampPower(n, c, fo, r) + RampPower(x, c, fx, r) + 2
           /\ RampPower(n + x, c, f, r) + Gain(n + x, c) \div r + 2
                >= RampPower(n, c, fo, r) + RampPower(x, c, fx, r)
<1> DEFINE G == Gain(n, c)
           H == Gain(x, c)
           J == Gain(n + x, c)
<1>1. G \in Nat /\ H \in Nat /\ J \in Nat
  <2>1. n + x \in Nat
    OBVIOUS
  <2> QED
    BY <2>1, GainLoss
<1>2. J * f <= G * fo + H * fx + r
  BY WholeGainsLittle
<1>3. G * fo + H * fx <= J * f + J + r
  BY WholeGainsEnough
<1> HIDE DEF G, H, J
<1>4. G * fo \in Int /\ H * fx \in Int /\ J * f \in Int /\ 0 \in Int
  BY <1>1
<1>5. (J * f) \div r + 0 \div r <= (G * fo) \div r + (H * fx) \div r + 2
  <2>1. J * f + 0 <= G * fo + H * fx + r
    BY <1>2, <1>4
  <2> QED
    BY <1>4, <2>1, QuotientsAdd
<1>6. (G * fo) \div r + (H * fx) \div r <= (J * f) \div r + J \div r + 2
  BY <1>1, <1>3, <1>4, QuotientsAdd
<1> DEFINE qn == (G * fo) \div r
           qx == (H * fx) \div r
           q == (J * f) \div r
           qj == J \div r
<1>7. qn \in Int /\ qx \in Int /\ q \in Int /\ qj \in Int /\ 0 \div r = 0
  <2>1. ASSUME NEW Z \in Int PROVE Z \div r \in Int
    OBVIOUS
  <2>2. 0 \div r = 0
    OBVIOUS
  <2> QED
    BY <1>1, <1>4, <2>1, <2>2
<1>8. q <= qn + qx + 2 /\ qn + qx <= q + qj + 2
  BY <1>5, <1>6, <1>7
<1> HIDE DEF qn, qx, q, qj
<1>9. /\ n + x + q <= (n + qn) + (x + qx) + 2
      /\ (n + x + q) + qj + 2 >= (n + qn) + (x + qx)
  BY <1>7, <1>8
<1> QED
  BY <1>9 DEF RampPower, G, H, J, qn, qx, q, qj

\* The weighted start of a top-up averages the times since which its tokens
\* count: here as durations beyond [m].
LEMMA AverageDuration ==
    ASSUME TypeOK, NEW l \in LockupType, l.amount # 0, NEW amount \in Nat,
           NEW capped_end \in Int, capped_end >= l.end_ts,
           EffectiveStartTs(l) <= now, NEW m \in Int
    PROVE  LET start == NewWeightedStart(l, amount, capped_end)
               f == capped_end - start - m
               fo == capped_end - EffectiveStartTs(l) - m
               fx == capped_end - now - m
           IN  /\ start \in Int /\ fx <= f /\ f <= fo
               /\ (l.amount + amount) * f <= l.amount * fo + amount * fx
               /\ l.amount * fo + amount * fx <= (l.amount + amount) * (f + 1)
               /\ f = fo => amount = 0 \/ fx = fo
<1> DEFINE n == l.amount
           e == l.end_ts
           w == EffectiveStartTs(l)
           A == NewArea(l, amount, capped_end)
           start == NewWeightedStart(l, amount, capped_end)
<1>1. n \in Nat \ {0} /\ e \in Int /\ w \in Int /\ now \in Int /\ start \in Int
  BY NewWeightedStartType DEF LockupType, EffectiveStartTs, TypeOK
<1>2. A = n * (e - w) + n * (capped_end - e) + amount * (capped_end - now)
  <2>1. (IF capped_end - e > 0 THEN capped_end - e ELSE 0) = capped_end - e
    BY <1>1
  <2> QED
    BY <2>1 DEF NewArea
<1>3. start = capped_end - A \div (n + amount)
  BY DEF NewWeightedStart
<1>4. capped_end >= e /\ w <= start /\ start <= now
  BY WeightedStartBounds
<1> HIDE DEF n, e, w, A, start
<1>5. A = n * (capped_end - w) + amount * (capped_end - now) /\ A \in Int
  BY <1>1, <1>2
<1>6. /\ (n + amount) * (capped_end - start) <= A
      /\ A <= (n + amount) * (capped_end - start + 1)
  <2>1. ASSUME NEW Z \in Int, NEW r \in Nat \ {0}
        PROVE  Z \div r \in Int /\ r * (Z \div r) <= Z /\ Z <= r * (Z \div r + 1)
    OBVIOUS
  <2>2. n + amount \in Nat \ {0}
    BY <1>1
  <2>3. /\ A \div (n + amount) \in Int
        /\ (n + amount) * (A \div (n + amount)) <= A
        /\ A <= (n + amount) * (A \div (n + amount) + 1)
    BY <1>5, <2>1, <2>2
  <2> DEFINE q == A \div (n + amount)
  <2> HIDE DEF q
  <2>4. capped_end - start = q
    BY <1>1, <1>3, <2>3 DEF q
  <2> QED
    BY <2>3, <2>4 DEF q
<1> DEFINE f == capped_end - start - m
           fo == capped_end - w - m
           fx == capped_end - now - m
<1>7. f \in Int /\ fo \in Int /\ fx \in Int /\ fx <= f /\ f <= fo
  BY <1>1, <1>4
<1>8. /\ (n + amount) * f = (n + amount) * (capped_end - start) - (n + amount) * m
      /\ (n + amount) * (f + 1) = (n + amount) * (capped_end - start + 1) - (n + amount) * m
      /\ n * fo + amount * fx = A - (n + amount) * m
  BY <1>1, <1>5
<1>9. /\ (n + amount) * f <= n * fo + amount * fx
      /\ n * fo + amount * fx <= (n + amount) * (f + 1)
  <2> DEFINE low == (n + amount) * (capped_end - start)
             high == (n + amount) * (capped_end - start + 1)
             nm == (n + amount) * m
  <2>1. low \in Int /\ high \in Int /\ nm \in Int /\ low <= A /\ A <= high
    BY <1>1, <1>6
  <2> HIDE DEF low, high, nm, f, fo, fx
  <2>2. low - nm <= A - nm /\ A - nm <= high - nm
    BY <1>5, <2>1
  <2> QED
    BY <1>8, <2>2 DEF low, high, nm
<1> HIDE DEF f, fo, fx
<1>10. ASSUME f = fo, amount # 0 PROVE fx = fo
  <2>1. (n + amount) * fo = n * fo + amount * fo
    BY <1>1, <1>7
  <2>2. n * fo \in Int /\ amount * fo \in Int /\ amount * fx \in Int
    BY <1>1, <1>7
  <2>3. amount * fo <= amount * fx
    BY <1>9, <1>10, <2>1, <2>2
  <2>4. fo <= fx
    <3>1. ASSUME fx < fo PROVE FALSE
      <4>1. amount * (fx + 1) <= amount * fo
        BY <1>7, <3>1, ProductGrows
      <4>2. amount * (fx + 1) = amount * fx + amount
        BY <1>7
      <4> DEFINE ax == amount * fx
                 ao == amount * fo
      <4>3. ax + amount <= ao /\ ao <= ax /\ ax \in Int /\ ao \in Int
        BY <2>2, <2>3, <4>1, <4>2
      <4> HIDE DEF ax, ao
      <4> QED
        BY <1>10, <4>3
    <3> QED
      BY <1>7, <3>1
  <2> QED
    BY <1>7, <1>10, <2>4
<1> QED
  BY <1>1, <1>7, <1>9, <1>10 DEF n, w, start, f, fo, fx

\* The factors of a lockup's maximum are naturals.
LEMMA LockupNumbers ==
    ASSUME NEW l \in LockupType
    PROVE  l.amount \in Nat /\ l.target_voting_pct \in Nat
<1>1. l.amount \in Nat /\ l.target_voting_pct \in Pct
  BY DEF LockupType
<1> QED
  BY <1>1, PctNumbers

\* The voting power of a running lockup with a time on the ramp, its ends
\* included.
LEMMA PowerOnRamp ==
    ASSUME TypeOK, NEW l \in LockupType, l.target_voting_pct >= 100,
           now < l.end_ts, l.start_ts < l.end_ts,
           NEW f \in Nat, f = l.end_ts - EffectiveStartTs(l) - ns.lockup_min_duration,
           f <= ns.lockup_max_saturation - ns.lockup_min_duration
    PROVE  /\ l.target_voting_pct - 100 \in Nat
           /\ MaxVotingPower(l) - l.amount = Gain(l.amount, l.target_voting_pct - 100)
           /\ VotingPower(l, ns, now) =
                RampPower(l.amount, l.target_voting_pct - 100, f,
                          ns.lockup_max_saturation - ns.lockup_min_duration)
<1> DEFINE n == l.amount
           c == l.target_voting_pct - 100
           G == Gain(n, c)
           m == ns.lockup_min_duration
           most == ns.lockup_max_saturation
           d == l.end_ts - EffectiveStartTs(l)
<1>1. n \in Nat /\ c \in Nat /\ c + 100 = l.target_voting_pct
  BY LockupNumbers
<1>2. m \in Nat \ {0} /\ most \in Nat /\ m < most
  BY ConfigFields DEF TypeOK, NsValid
<1>3. d \in Int /\ l.end_ts \in Int /\ l.start_ts \in Int /\ now \in Int
  BY ConfigFields DEF LockupType, EffectiveStartTs
<1>4. G \in Nat
  BY <1>1, GainLoss
<1>5. MaxVotingPower(l) = n + G
  <2>1. (n * l.target_voting_pct) \div 100 \in Int
    <3>1. n * l.target_voting_pct \in Int
      BY <1>1, LockupNumbers
    <3>2. ASSUME NEW x \in Int PROVE x \div 100 \in Int
      OBVIOUS
    <3> QED
      BY <3>1, <3>2
  <2>2. G = (n * l.target_voting_pct) \div 100 - n
    BY <1>1 DEF Gain
  <2>3. MaxVotingPower(l) = (n * l.target_voting_pct) \div 100
    BY DEF MaxVotingPower
  <2> HIDE DEF n, G
  <2> QED
    BY <1>1, <2>1, <2>2, <2>3
<1>6. /\ ~(now >= l.end_ts \/ l.end_ts <= l.start_ts) /\ ~(d < 0)
      /\ f = d - m /\ d \in m .. most
  BY <1>2, <1>3
<1> HIDE DEF G, c
<1>7. VotingPower(l, ns, now) = IF d \in 0 .. m THEN n
                                ELSE IF d >= most THEN n + G
                                ELSE n + (G * f) \div (most - m)
  <2>1. (n + G) - n = G
    BY <1>1, <1>4
  <2>2. VotingPower(l, ns, now) =
          IF now >= l.end_ts \/ l.end_ts <= l.start_ts THEN 0
          ELSE IF d \in 0 .. m THEN n
          ELSE IF d < 0 \/ d >= most THEN MaxVotingPower(l)
          ELSE n + ((MaxVotingPower(l) - n) * (d - m)) \div (most - m)
    BY DEF VotingPower
  <2> HIDE DEF n, d, m, most
  <2> QED
    BY <1>5, <1>6, <2>1, <2>2
<1> HIDE DEF n, d, m, most
<1>8. CASE d = m
  <2>1. (G * f) \div (most - m) = 0
    <3>1. G * f = 0 /\ most - m \in Nat \ {0}
      BY <1>2, <1>3, <1>4, <1>6, <1>8
    <3>2. ASSUME NEW r \in Nat \ {0} PROVE 0 \div r = 0
      OBVIOUS
    <3> QED
      BY <3>1, <3>2
  <2>2. VotingPower(l, ns, now) = n /\ n + 0 = n
    BY <1>1, <1>2, <1>7, <1>8
  <2> QED
    BY <1>1, <1>4, <1>5, <2>1, <2>2 DEF RampPower, G, n, c, m, most
<1>9. CASE d = most
  <2>1. f = most - m /\ most - m \in Nat \ {0}
    BY <1>2, <1>3, <1>6, <1>9
  <2>2. (G * f) \div (most - m) = G
    <3>1. ASSUME NEW r \in Nat \ {0} PROVE (G * r) \div r = G
      <4>1. r * G = G * r /\ G * r \in Int /\ G \in Int
        BY <1>4
      <4>2. r * G <= G * r /\ G * r <= r * G
        BY <4>1
      <4>3. G <= (G * r) \div r /\ (G * r) \div r <= G
        BY <4>1, <4>2, QuotientBounds
      <4>4. ASSUME NEW z \in Int PROVE z \div r \in Int
        OBVIOUS
      <4> QED
        BY <4>1, <4>3, <4>4
    <3> QED
      BY <2>1, <3>1
  <2>3. VotingPower(l, ns, now) = n + G
    BY <1>2, <1>7, <1>9
  <2> QED
    BY <1>1, <1>4, <1>5, <2>2, <2>3 DEF RampPower, G, n, c, m, most
<1>10. CASE d # m /\ d # most
  <2>1. VotingPower(l, ns, now) = n + (G * f) \div (most - m)
    <3>1. ~(d \in 0 .. m) /\ ~(d >= most)
      BY <1>2, <1>3, <1>6, <1>10
    <3> QED
      BY <1>7, <3>1
  <2> QED
    BY <1>1, <1>4, <1>5, <2>1 DEF RampPower, G, n, c, m, most
<1> QED
  BY <1>8, <1>9, <1>10

\* A valid lockup votes with no less than its amount.
LEMMA ValidPct ==
    ASSUME NEW l, LockupValid(l, ns, now)
    PROVE  l.target_voting_pct >= 100
<1> DEFINE pct == l.target_voting_pct
<1>1. pct \in 100 .. 2500
  BY DEF LockupValid
<1> HIDE DEF pct
<1>2. pct >= 100
  BY <1>1, SMTT(30)
<1> QED
  BY <1>2 DEF pct

\* What a top-up does to a lockup, as far as its power is concerned.
LEMMA TopUpResult ==
    ASSUME AgeInv, NEW k \in Keys, NEW amount \in Amounts, NEW end_ts \in EndTimes,
           Stake(k, amount, end_ts), lockup[k].open, lockup[k].end_ts # 0
    PROVE  LET l == lockup[k]
               new == Staked(l, amount, end_ts)
               m == ns.lockup_min_duration
               f == new.end_ts - EffectiveStartTs(new) - m
               fo == new.end_ts - EffectiveStartTs(l) - m
               fx == new.end_ts - now - m
           IN  /\ l \in LockupType /\ new \in LockupType /\ amount \in Nat
               /\ new.amount = l.amount + amount
               /\ new.target_voting_pct = l.target_voting_pct /\ l.target_voting_pct >= 100
               /\ new.start_ts = l.start_ts /\ l.start_ts <= now
               /\ f \in Nat /\ fo \in Nat /\ fx \in Nat
               /\ fx <= f /\ f <= fo /\ fo <= ns.lockup_max_saturation - m
               /\ (l.amount + amount) * f <= l.amount * fo + amount * fx
               /\ l.amount * fo + amount * fx <= (l.amount + amount) * (f + 1)
               /\ f = fo => amount = 0 \/ fx = fo
<1> DEFINE old == lockup[k]
           l == Normalize(old)
           new == Staked(old, amount, end_ts)
           m == ns.lockup_min_duration
           w == EffectiveStartTs(old)
<1>1. /\ amount \in Nat /\ end_ts \in Int /\ old \in LockupType
      /\ TypeOK /\ AccountingInv /\ now \in Nat
      /\ m \in Nat /\ ns.lockup_max_saturation \in Nat
  BY ArgumentTypes, ConfigFields DEF AgeInv, AccountingInv, TypeOK
<1>2. /\ new \in LockupType /\ new.amount = old.amount + amount
      /\ new.start_ts = old.start_ts /\ new.target_voting_pct = old.target_voting_pct
  BY <1>1, StakeResult
<1>3. old.amount # 0
  BY <1>1 DEF AccountingInv, Backing
<1>4. AgeOk(old, now)
  BY DEF AgeInv
<1>5. /\ new.end_ts >= old.end_ts
      /\ new.end_ts <= new.start_ts + ns.lockup_max_saturation
  BY <1>1, StakeAge, StakeEnd
<1>6. LockupValid(new, ns, now)
  BY DEF Stake
<1>7. /\ l \in LockupType /\ l.amount = old.amount /\ l.start_ts = old.start_ts
      /\ l.end_ts = old.end_ts /\ l.weighted_start_ts = w
  BY <1>1, NormalizeType
<1>8. EffectiveStartTs(l) = w
  BY <1>7 DEF EffectiveStartTs
<1>9. /\ new = TopUp(l, amount, end_ts) /\ TopUpAllowed(l, amount, end_ts)
  <2>1. ~IsFirstStake(old)
    BY <1>3 DEF IsFirstStake
  <2>2. RestakeAllowed(l, amount, end_ts)
    BY <2>1 DEF Stake
  <2>3. new = Restake(l, amount, end_ts)
    BY <2>1 DEF Staked
  <2> HIDE DEF l, new
  <2> QED
    BY <1>7, <2>2, <2>3 DEF Restake, RestakeAllowed
<1>10. /\ new.end_ts = CappedEnd(l.start_ts, end_ts)
       /\ new.weighted_start_ts = NewWeightedStart(l, amount, new.end_ts)
  <2> HIDE DEF l, new
  <2> QED
    BY <1>7, <1>9 DEF TopUp, LockupType
<1> HIDE DEF old, l, new, m, w
<1>11. /\ old.start_ts \in 0 .. now /\ w \in old.start_ts .. now
       /\ old.end_ts \in Int /\ new.end_ts \in Int /\ new.weighted_start_ts \in Int
       /\ new.amount \in Nat /\ old.amount \in Nat
  BY <1>1, <1>2, <1>4 DEF AgeOk, LockupType, w
<1>12. old.end_ts > old.start_ts
  BY <1>7, <1>9 DEF TopUpAllowed
<1>13. new.end_ts >= now + m /\ new.target_voting_pct >= 100
  <2>1. new.end_ts # 0
    BY <1>1, <1>5, <1>11, <1>12
  <2>2. new.end_ts >= now + m
    BY <1>6, <2>1 DEF LockupValid, MinEndTs, m
  <2>3. new.target_voting_pct >= 100
    BY <1>6, ValidPct
  <2> QED
    BY <2>2, <2>3
<1> DEFINE start == NewWeightedStart(l, amount, new.end_ts)
           f == new.end_ts - start - m
           fo == new.end_ts - w - m
           fx == new.end_ts - now - m
<1>14. /\ fx <= f /\ f <= fo
       /\ (old.amount + amount) * f <= old.amount * fo + amount * fx
       /\ old.amount * fo + amount * fx <= (old.amount + amount) * (f + 1)
       /\ f = fo => amount = 0 \/ fx = fo
  <2>1. /\ new.end_ts \in Int /\ new.end_ts >= l.end_ts /\ m \in Int /\ l.amount # 0
        /\ EffectiveStartTs(l) <= now
    BY <1>1, <1>3, <1>5, <1>7, <1>8, <1>11
  <2> DEFINE e == new.end_ts
  <2> HIDE DEF start, f, fo, fx
  <2>2. LET g == e - NewWeightedStart(l, amount, e) - m
            go == e - EffectiveStartTs(l) - m
            gx == e - now - m
        IN  /\ gx <= g /\ g <= go
            /\ (l.amount + amount) * g <= l.amount * go + amount * gx
            /\ l.amount * go + amount * gx <= (l.amount + amount) * (g + 1)
            /\ g = go => amount = 0 \/ gx = go
    <3>1. /\ l \in LockupType /\ l.amount # 0 /\ amount \in Nat /\ TypeOK
          /\ e \in Int /\ e >= l.end_ts /\ EffectiveStartTs(l) <= now /\ m \in Int
      BY <1>1, <1>7, <2>1
    <3> HIDE DEF e
    <3> QED
      BY <3>1, AverageDuration
  <2>3. /\ f = e - NewWeightedStart(l, amount, e) - m
        /\ fo = e - EffectiveStartTs(l) - m
        /\ fx = e - now - m
    BY <1>8 DEF start, f, fo, fx
  <2> QED
    BY <1>7, <2>2, <2>3
<1>15. start \in Int /\ start = new.weighted_start_ts
  BY <1>10, <1>11
<1>16. EffectiveStartTs(new) = start
  <2> HIDE DEF start
  <2>1. start >= w
    BY <1>1, <1>11, <1>14, <1>15
  <2>2. start >= old.start_ts
    BY <1>1, <1>11, <1>15, <2>1
  <2>3. CASE start = 0
    BY <1>1, <1>2, <1>11, <1>15, <2>2, <2>3 DEF EffectiveStartTs
  <2>4. CASE start # 0
    BY <1>15, <2>4 DEF EffectiveStartTs
  <2> QED
    BY <2>3, <2>4
<1> HIDE DEF start
<1>17. /\ f \in Nat /\ fo \in Nat /\ fx \in Nat
       /\ fo <= ns.lockup_max_saturation - m
  BY <1>1, <1>2, <1>5, <1>11, <1>13, <1>14, <1>15
<1> HIDE DEF f, fo, fx
<1>18. /\ f = new.end_ts - EffectiveStartTs(new) - m
       /\ fo = new.end_ts - EffectiveStartTs(old) - m
       /\ fx = new.end_ts - now - m
  BY <1>16 DEF f, fo, fx, w
<1>19. old.start_ts <= now
  BY <1>1, <1>11
<1> QED
  BY <1>1, <1>2, <1>13, <1>14, <1>17, <1>18, <1>19 DEF old, new, m

\* The power of the whole and of its parts.
LEMMA TopUpPower ==
    ASSUME AgeInv, NEW k \in Keys, NEW amount \in Amounts, NEW end_ts \in EndTimes,
           Stake(k, amount, end_ts), lockup[k].open, lockup[k].end_ts # 0
    PROVE  LET l == lockup[k]
               new == Staked(l, amount, end_ts)
               ramp == ns.lockup_max_saturation - ns.lockup_min_duration
               parts == VotingPower(OldPart(l, new), ns, now)
                          + VotingPower(AddedPart(l, new), ns, now)
           IN  /\ VotingPower(new, ns, now) <= parts + 2
               /\ VotingPower(new, ns, now)
                    + (MaxVotingPower(new) - new.amount) \div ramp + 2 >= parts
<1> DEFINE l == lockup[k]
           new == Staked(l, amount, end_ts)
           m == ns.lockup_min_duration
           r == ns.lockup_max_saturation - m
           c == l.target_voting_pct - 100
           f == new.end_ts - EffectiveStartTs(new) - m
           fo == new.end_ts - EffectiveStartTs(l) - m
           fx == new.end_ts - now - m
           old_part == OldPart(l, new)
           added_part == AddedPart(l, new)
<1>1. /\ TypeOK /\ now \in Nat /\ r \in Nat \ {0} /\ m \in Nat \ {0}
  BY ConfigFields DEF AgeInv, AccountingInv, TypeOK, NsValid
<1>2. /\ l \in LockupType /\ new \in LockupType /\ amount \in Nat
      /\ new.amount = l.amount + amount
      /\ new.target_voting_pct = l.target_voting_pct /\ l.target_voting_pct >= 100
      /\ new.start_ts = l.start_ts /\ l.start_ts <= now
  BY TopUpResult
<1>3. /\ f \in Nat /\ fo \in Nat /\ fx \in Nat /\ fx <= f /\ f <= fo /\ fo <= r
      /\ (l.amount + amount) * f <= l.amount * fo + amount * fx
      /\ l.amount * fo + amount * fx <= (l.amount + amount) * (f + 1)
      /\ f = fo => amount = 0 \/ fx = fo
  BY TopUpResult
<1>4. l.amount \in Nat /\ c \in Nat
  BY <1>2, LockupNumbers
<1> HIDE DEF l, new
<1>5. /\ old_part \in LockupType /\ old_part.amount = l.amount
      /\ old_part.target_voting_pct = l.target_voting_pct
      /\ old_part.start_ts = l.start_ts /\ old_part.end_ts = new.end_ts
      /\ EffectiveStartTs(old_part) = EffectiveStartTs(l)
  BY <1>2 DEF OldPart, LockupType, EffectiveStartTs
<1>6. /\ added_part \in LockupType /\ added_part.amount = amount
      /\ added_part.target_voting_pct = l.target_voting_pct
      /\ added_part.start_ts = now /\ added_part.end_ts = new.end_ts
      /\ EffectiveStartTs(added_part) = now
  <2>1. (l.amount + amount) - l.amount = amount
    BY <1>2, <1>4
  <2>2. now \in Int
    BY <1>1
  <2> QED
    BY <1>2, <2>1, <2>2 DEF AddedPart, LockupType, EffectiveStartTs
<1>7. now < new.end_ts /\ l.start_ts < new.end_ts
  <2>1. new.end_ts \in Int /\ l.start_ts \in Int
    BY <1>2 DEF LockupType
  <2> QED
    BY <1>1, <1>2, <1>3, <2>1
<1> HIDE DEF m, r, c, f, fo, fx, old_part, added_part
<1>8. VotingPower(old_part, ns, now) = RampPower(l.amount, c, fo, r)
  <2>1. fo = old_part.end_ts - EffectiveStartTs(old_part) - ns.lockup_min_duration
    BY <1>5 DEF fo, m
  <2>2. f \in Nat /\ fo <= ns.lockup_max_saturation - ns.lockup_min_duration
    BY <1>1, <1>3 DEF r, m
  <2> QED
    BY <1>1, <1>2, <1>3, <1>5, <1>7, <2>1, <2>2, PowerOnRamp DEF r, m, c
<1>9. VotingPower(added_part, ns, now) = RampPower(amount, c, fx, r)
  <2>1. fx = added_part.end_ts - EffectiveStartTs(added_part) - ns.lockup_min_duration
    BY <1>6 DEF fx, m
  <2>2. fx <= ns.lockup_max_saturation - ns.lockup_min_duration
    <3>1. fx <= r
      BY <1>1, <1>3
    <3> QED
      BY <3>1 DEF r, m
  <2> QED
    BY <1>1, <1>2, <1>3, <1>6, <1>7, <2>1, <2>2, PowerOnRamp DEF r, m, c
<1>10. /\ VotingPower(new, ns, now) = RampPower(l.amount + amount, c, f, r)
       /\ MaxVotingPower(new) - new.amount = Gain(l.amount + amount, c)
  <2>1. f = new.end_ts - EffectiveStartTs(new) - ns.lockup_min_duration
    BY DEF f, m
  <2>2. f <= ns.lockup_max_saturation - ns.lockup_min_duration
    <3>1. f <= r
      BY <1>1, <1>3
    <3> QED
      BY <3>1 DEF r, m
  <2> QED
    BY <1>1, <1>2, <1>3, <1>7, <2>1, <2>2, PowerOnRamp DEF r, m, c
<1>11. /\ RampPower(l.amount + amount, c, f, r)
            <= RampPower(l.amount, c, fo, r) + RampPower(amount, c, fx, r) + 2
       /\ RampPower(l.amount + amount, c, f, r) + Gain(l.amount + amount, c) \div r + 2
            >= RampPower(l.amount, c, fo, r) + RampPower(amount, c, fx, r)
  BY <1>1, <1>2, <1>3, <1>4, PowersAdd
<1> QED
  BY <1>8, <1>9, <1>10, <1>11 DEF l, new, r, m, old_part, added_part

\* Only stake changes a lockup that stays open.
LEMMA OnlyStakeTopsUp ==
    ASSUME AgeInv, [Next]_stakingVars, NEW k \in Keys,
           lockup[k].open, lockup'[k].open, lockup'[k] # lockup[k]
    PROVE  \E amount \in Amounts, end_ts \in EndTimes :
               /\ Stake(k, amount, end_ts)
               /\ lockup'[k] = Staked(lockup[k], amount, end_ts)
<1>1. lockup \in [Keys -> LockupType]
  BY DEF AgeInv, AccountingInv, TypeOK
<1>2. ASSUME NEW j \in Keys, NEW amount \in Amounts, NEW end_ts \in EndTimes,
             Stake(j, amount, end_ts)
      PROVE  j = k /\ lockup'[k] = Staked(lockup[k], amount, end_ts)
  BY <1>1, <1>2 DEF Stake
<1>3. ASSUME NEW signer \in Keys, NEW j \in Keys, NEW amount \in Amounts,
             NEW end_ts \in EndTimes, NEW disable_rewards \in BOOLEAN,
             StakeTo(signer, j, amount, end_ts, disable_rewards)
      PROVE  FALSE
  BY <1>1, <1>3 DEF StakeTo, StakeToAccountsOk
<1>4. ASSUME NEW j \in Keys, Unstake(j) PROVE FALSE
  BY <1>1, <1>4, NoLockupType DEF Unstake
<1>5. ~UNCHANGED lockup
  OBVIOUS
<1> QED
  BY <1>2, <1>3, <1>4, <1>5
     DEF Next, StakingNext, Environment, UpdateNamespace, Tick, Transfer, Donate, stakingVars

\* No top-up lends the age of old tokens to new ones: the whole votes with
\* what the parts would, whatever is added and however the end is moved.
THEOREM TopUpsNeverInflate ==
    ASSUME SaturationFixed
    PROVE  Spec => TopUpNeverInflates
<1>1. AgeInv /\ [Next]_stakingVars =>
        [\A k \in Keys :
           LET l == lockup[k]
               new == lockup'[k]
           IN  l.open /\ new.open /\ l.end_ts # 0 /\ new # l =>
                 VotingPower(new, ns, now) <= VotingPower(OldPart(l, new), ns, now)
                      + VotingPower(AddedPart(l, new), ns, now) + 2]_stakingVars
  BY OnlyStakeTopsUp, TopUpPower
<1>2. AgeInv /\ [Next]_stakingVars => AgeInv'
  BY NextAge
<1> QED
  BY <1>1, <1>2, InitAge, PTL DEF Spec, TopUpNeverInflates

\* Nor does a top-up or an extension cost the owner more power than rounding.
THEOREM TopUpsKeepPower ==
    ASSUME SaturationFixed
    PROVE  Spec => TopUpKeepsPower
<1>1. AgeInv /\ [Next]_stakingVars =>
        [\A k \in Keys :
           LET l == lockup[k]
               new == lockup'[k]
               ramp == ns.lockup_max_saturation - ns.lockup_min_duration
           IN  l.open /\ new.open /\ l.end_ts # 0 /\ new # l =>
                 VotingPower(new, ns, now)
                   + (MaxVotingPower(new) - new.amount) \div ramp + 2
                 >= VotingPower(OldPart(l, new), ns, now)
                      + VotingPower(AddedPart(l, new), ns, now)]_stakingVars
  BY OnlyStakeTopsUp, TopUpPower
<1>2. AgeInv /\ [Next]_stakingVars => AgeInv'
  BY NextAge
<1> QED
  BY <1>1, <1>2, InitAge, PTL DEF Spec, TopUpKeepsPower

=============================================================================
