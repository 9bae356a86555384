------------------------------ MODULE Staking ------------------------------
(***************************************************************************)
(* The vote escrow of one namespace: stake, stake_to, unstake and          *)
(* update_namespace, over the lockup accounts, the lockup token accounts   *)
(* (escrows), the wallets of the token's holders and the cluster clock.    *)
(*                                                                         *)
(* An instruction is atomic: an error or a panic aborts the transaction    *)
(* and leaves every account as it was, so each handler is one action that  *)
(* is enabled exactly when the transaction would succeed.  Transactions of *)
(* different signers reach the ledger in any order.  The clock, and plain  *)
(* token transfers made by others (also into an escrow), are the program's *)
(* environment.                                                            *)
(***************************************************************************)
EXTENDS VeTokenState, FiniteSets, Functions

CONSTANTS
    Keys,           \* public keys: holders and councils alike
    Configs,        \* namespace configurations the council may write
    GenesisConfig,  \* the configuration found at GenesisTime
    LegacyLockups,  \* lockups written before weighted_start_ts existed
    InitialWallet,  \* token balances at GenesisTime
    Amounts,        \* values of args.amount
    EndTimes,       \* values of args.end_ts
    GenesisTime,
    MaxTime         \* bound on the clock

VARIABLES
    now,            \* unix_timestamp of the clock sysvar
    ns,             \* configuration fields of the Namespace account
    lockup_amount,  \* Namespace.lockup_amount
    lockup,         \* Lockup account of each owner; [open] = it exists
    escrow,         \* balance of each owner's lockup token account
    wallet          \* balance of each key's associated token account

stakingVars == <<now, ns, lockup_amount, lockup, escrow, wallet>>

----------------------------------------------------------------------------
Pct == 0 .. 65535

ConfigType ==
    [security_council : Keys,
     review_council : Keys,
     lockup_default_target_rewards_pct : Pct,
     lockup_default_target_voting_pct : Pct,
     lockup_min_duration : Int,
     lockup_min_amount : Nat,
     lockup_max_saturation : Nat,
     proposal_min_voting_power_for_quorum : Nat,
     proposal_min_pass_pct : Pct]

LockupType ==
    [open : BOOLEAN,
     amount : Nat,
     start_ts : Int,
     end_ts : Int,
     weighted_start_ts : Int,
     target_rewards_pct : Pct,
     target_voting_pct : Pct]

\* An account that does not exist, and what init_if_needed hands the handler.
NoLockup ==
    [open |-> FALSE, amount |-> 0, start_ts |-> 0, end_ts |-> 0,
     weighted_start_ts |-> 0, target_rewards_pct |-> 0,
     target_voting_pct |-> 0]

\* What stake and stake_to left behind before the field was added.
LegacyLockup(l) ==
    /\ l \in LockupType
    /\ l.open
    /\ l.amount > 0
    /\ l.weighted_start_ts = 0
    /\ l.start_ts \in 0 .. GenesisTime
    /\ l.end_ts = 0 \/ l.start_ts < l.end_ts
    /\ l.end_ts <= l.start_ts + GenesisConfig.lockup_max_saturation
    /\ l.target_voting_pct \in 100 .. 2500

ASSUME StakingAssumption ==
    /\ IsFiniteSet(Keys)
    /\ Configs \subseteq ConfigType
    /\ GenesisConfig \in ConfigType
    /\ NsValid(GenesisConfig)
    \* A saturation above i64::MAX would cast to a negative cap.
    /\ \A c \in Configs \cup {GenesisConfig} : c.lockup_max_saturation <= MaxI64
    /\ \A l \in LegacyLockups : LegacyLockup(l)
    /\ InitialWallet \in [Keys -> Nat]
    /\ Amounts \subseteq 0 .. MaxU64
    /\ EndTimes \subseteq -MaxI64 - 1 .. MaxI64
    \* Unix time is positive, and far from the width of the clock.
    /\ GenesisTime \in Nat \ {0}
    /\ MaxTime \in Nat
    /\ GenesisTime <= MaxTime /\ MaxTime <= MaxI64

\* What all lockups hold together.
TotalLocked == SumFunction([k \in Keys |-> lockup[k].amount])

----------------------------------------------------------------------------
(***************************************************************************)
(* stake                                                                   *)
(***************************************************************************)

\* The latest end a lockup that starts at start_ts may have.
LatestEnd(start_ts) == start_ts + AsI64(ns.lockup_max_saturation)

\* Mutated form: the end is taken as asked.
UncappedEnd(start_ts, end_ts) == end_ts

CappedEnd(start_ts, end_ts) ==
    IF end_ts <= LatestEnd(start_ts) THEN end_ts ELSE LatestEnd(start_ts)

\* Mutated form: the balance constraint is left to nobody.
FundsUnchecked(from, amount) == TRUE

FundsOk(from, amount) == wallet[from] >= amount

\* The account constraints of Stake.
StakeAccountsOk(k, amount, end_ts) ==
    /\ FundsOk(k, amount)
    /\ FitsI64(MinEndTs(ns, now))
    /\ amount >= ns.lockup_min_amount \/ (amount = 0 /\ lockup[k].amount # 0)
    /\ end_ts >= MinEndTs(ns, now) \/ end_ts = 0
    /\ lockup[k].end_ts >= now \/ lockup[k].end_ts = 0

FirstStake(l, amount, end_ts) ==
    [open |-> TRUE,
     amount |-> amount,
     start_ts |-> now,
     end_ts |-> CappedEnd(now, end_ts),
     weighted_start_ts |-> now,
     target_rewards_pct |-> ns.lockup_default_target_rewards_pct,
     target_voting_pct |-> ns.lockup_default_target_voting_pct]

\* Mutated form: the added tokens are forgotten.
SetUnsetEndOnly(l, amount, end_ts) ==
    [l EXCEPT !.end_ts = CappedEnd(l.start_ts, end_ts),
              !.weighted_start_ts = now]

\* A lockup staked with end_ts = 0 gets its end: like a first stake.
SetUnsetEnd(l, amount, end_ts) ==
    [l EXCEPT !.amount = AsU64(@ + amount),
              !.end_ts = CappedEnd(l.start_ts, end_ts),
              !.weighted_start_ts = now]

\* Mutated form: nothing compares the new end with the old one.
TopUpAllowedShorter(l, amount, end_ts) ==
    /\ l.end_ts > l.start_ts
    /\ l.end_ts - EffectiveStartTs(l) \in 0 .. MaxI64
    /\ amount > 0 => CappedEnd(l.start_ts, end_ts) >= now

(***************************************************************************)
(* A top-up, an extension or both.  The tokens' time-weighted areas, old   *)
(* tokens from the weighted start to the new end and added tokens from now *)
(* to the new end, are averaged into a new weighted start.                 *)
(***************************************************************************)
TopUpAllowed(l, amount, end_ts) ==
    /\ l.end_ts > l.start_ts
    /\ end_ts >= l.end_ts
    /\ l.end_ts - EffectiveStartTs(l) \in 0 .. MaxI64
    \* A negative [remaining], cast to u128, makes checked_mul or
    \* checked_add panic, or leaves an end that valid() rejects.
    /\ amount > 0 => CappedEnd(l.start_ts, end_ts) >= now

\* Mutated form: the old tokens gain nothing from an extension.
NewAreaNoExtension(l, amount, capped_end) ==
    l.amount * (l.end_ts - EffectiveStartTs(l)) + amount * (capped_end - now)

\* Mutated form: added tokens count from the old weighted start.
NewAreaBackdated(l, amount, capped_end) ==
    (l.amount + amount) * (capped_end - EffectiveStartTs(l))

NewArea(l, amount, capped_end) ==
    LET old_tw == l.amount * (l.end_ts - EffectiveStartTs(l))
        extension == capped_end - l.end_ts
        extension_tw == l.amount * (IF extension > 0 THEN extension ELSE 0)
        added_tw == amount * (capped_end - now)
    IN  old_tw + extension_tw + added_tw

NewWeightedStart(l, amount, capped_end) ==
    capped_end - NewArea(l, amount, capped_end) \div (l.amount + amount)

TopUp(l, amount, end_ts) ==
    LET capped_end == CappedEnd(l.start_ts, end_ts)
    IN  [l EXCEPT !.amount = AsU64(@ + amount),
                  !.end_ts = capped_end,
                  !.weighted_start_ts = NewWeightedStart(l, amount, capped_end)]

\* Mutated form: a lockup whose end is unset counts as new.
IsUnsetStake(l) == l.end_ts = 0

IsFirstStake(l) == l.amount = 0

Restake(l, amount, end_ts) ==
    IF l.end_ts = 0 THEN SetUnsetEnd(l, amount, end_ts)
                    ELSE TopUp(l, amount, end_ts)

\* The lockup that stake leaves, when it succeeds.
Staked(l, amount, end_ts) ==
    IF IsFirstStake(l) THEN FirstStake(l, amount, end_ts)
                       ELSE Restake(Normalize(l), amount, end_ts)

RestakeAllowed(l, amount, end_ts) ==
    /\ end_ts > now
    /\ l.end_ts = 0 \/ TopUpAllowed(l, amount, end_ts)

\* transfer_checked from a wallet into the owner's lockup token account.
Deposit(from, owner, amount) ==
    /\ wallet' = [wallet EXCEPT ![from] = @ - amount]
    /\ escrow' = [escrow EXCEPT ![owner] = @ + amount]

\* Namespace.lockup_amount moves with every deposit.
AddLockupAmount(amount) ==
    /\ FitsU64(lockup_amount + amount)
    /\ lockup_amount' = lockup_amount + amount

Stake(k, amount, end_ts) ==
    LET new == Staked(lockup[k], amount, end_ts)
        start_ts == IF IsFirstStake(lockup[k]) THEN now ELSE lockup[k].start_ts
    IN  /\ StakeAccountsOk(k, amount, end_ts)
        /\ FitsI64(LatestEnd(start_ts))
        /\ ~IsFirstStake(lockup[k]) =>
               RestakeAllowed(Normalize(lockup[k]), amount, end_ts)
        /\ LockupValid(new, ns, now)
        /\ lockup' = [lockup EXCEPT ![k] = new]
        /\ Deposit(k, k, amount)
        /\ AddLockupAmount(amount)
        /\ UNCHANGED <<now, ns>>

----------------------------------------------------------------------------
(***************************************************************************)
(* stake_to: the security council locks its own tokens for an owner who    *)
(* has no lockup.  Here the cap's addition is unchecked and wraps.         *)
(***************************************************************************)
CouncilLockup(amount, end_ts, disable_rewards) ==
    LET latest == AsI64(LatestEnd(now))
    IN  [open |-> TRUE,
         amount |-> amount,
         start_ts |-> now,
         end_ts |-> IF end_ts <= latest THEN end_ts ELSE latest,
         weighted_start_ts |-> now,
         target_rewards_pct |-> IF disable_rewards THEN 0
                                ELSE ns.lockup_default_target_rewards_pct,
         target_voting_pct |-> ns.lockup_default_target_voting_pct]

StakeToAccountsOk(signer, k, amount, end_ts) ==
    /\ signer = ns.security_council
    /\ FundsOk(signer, amount)
    /\ ~lockup[k].open
    /\ amount >= ns.lockup_min_amount
    /\ FitsI64(MinEndTs(ns, now))
    /\ end_ts >= MinEndTs(ns, now) \/ end_ts = 0

StakeTo(signer, k, amount, end_ts, disable_rewards) ==
    LET new == CouncilLockup(amount, end_ts, disable_rewards)
    IN  /\ StakeToAccountsOk(signer, k, amount, end_ts)
        /\ LockupValid(new, ns, now)
        /\ lockup' = [lockup EXCEPT ![k] = new]
        /\ Deposit(signer, k, amount)
        /\ AddLockupAmount(amount)
        /\ UNCHANGED <<now, ns>>

----------------------------------------------------------------------------
(***************************************************************************)
(* unstake.  The token account is closed when the balance read before the  *)
(* transfer equals the amount paid out; the token program refuses to close *)
(* an account that still holds tokens, which would abort the transaction.  *)
(***************************************************************************)
\* Mutated form: any sufficient balance is taken for an emptied account.
ClosesEscrowAtLeast(balance, amount) == balance >= amount

ClosesEscrow(balance, amount) == balance = amount

TokenCloseOk(balance) == balance = 0

Expired(l) == l.end_ts <= now

CanUnstake(k) ==
    LET amount == lockup[k].amount
    IN  /\ lockup[k].open
        /\ Expired(lockup[k])
        /\ lockup_amount >= amount
        /\ escrow[k] >= amount
        /\ ClosesEscrow(escrow[k], amount) => TokenCloseOk(escrow[k] - amount)

Unstake(k) ==
    /\ CanUnstake(k)
    /\ escrow' = [escrow EXCEPT ![k] = @ - lockup[k].amount]
    /\ wallet' = [wallet EXCEPT ![k] = @ + lockup[k].amount]
    /\ lockup_amount' = lockup_amount - lockup[k].amount
    /\ lockup' = [lockup EXCEPT ![k] = NoLockup]
    /\ UNCHANGED <<now, ns>>

----------------------------------------------------------------------------
\* update_namespace overwrites the whole configuration, both councils too.
UpdateNamespace(signer, config) ==
    /\ signer = ns.security_council
    /\ NsValid(config)
    /\ ns' = config
    /\ UNCHANGED <<now, lockup_amount, lockup, escrow, wallet>>

----------------------------------------------------------------------------
(***************************************************************************)
(* The environment: time passes, and anyone may send tokens to any token   *)
(* account, a lockup's included.  One token at a time is enough.           *)
(***************************************************************************)
Tick ==
    /\ now < MaxTime
    /\ now' = now + 1
    /\ UNCHANGED <<ns, lockup_amount, lockup, escrow, wallet>>

Transfer(from, to) ==
    /\ from # to
    /\ wallet[from] >= 1
    /\ wallet' = [wallet EXCEPT ![from] = @ - 1, ![to] = @ + 1]
    /\ UNCHANGED <<now, ns, lockup_amount, lockup, escrow>>

Donate(from, owner) ==
    /\ wallet[from] >= 1
    /\ Deposit(from, owner, 1)
    /\ UNCHANGED <<now, ns, lockup_amount, lockup>>

----------------------------------------------------------------------------
Init ==
    /\ now = GenesisTime
    /\ ns = GenesisConfig
    /\ lockup \in [Keys -> {NoLockup} \cup LegacyLockups]
    /\ escrow = [k \in Keys |-> lockup[k].amount]
    /\ wallet = InitialWallet
    \* The supply of the token is a u64.
    /\ FitsU64(TotalLocked + SumFunction(wallet))
    /\ lockup_amount = TotalLocked

StakingNext ==
    \/ \E k \in Keys, amount \in Amounts, end_ts \in EndTimes :
          Stake(k, amount, end_ts)
    \/ \E signer, k \in Keys, amount \in Amounts, end_ts \in EndTimes,
          disable_rewards \in BOOLEAN :
          StakeTo(signer, k, amount, end_ts, disable_rewards)
    \/ \E k \in Keys : Unstake(k)
    \/ \E signer \in Keys, config \in Configs : UpdateNamespace(signer, config)

Environment ==
    \/ Tick
    \/ \E from, to \in Keys : Transfer(from, to)
    \/ \E from, owner \in Keys : Donate(from, owner)

Next == StakingNext \/ Environment

Spec == Init /\ [][Next]_stakingVars

\* Time passes; nobody is obliged to send a transaction.
FairSpec == Spec /\ WF_stakingVars(Tick)

----------------------------------------------------------------------------
(***************************************************************************)
(* Properties                                                              *)
(***************************************************************************)

\* Every field has its type, and the configuration in force is a valid one.
TypeOK ==
    /\ now \in GenesisTime .. MaxTime
    /\ ns \in ConfigType /\ NsValid(ns) /\ ns.lockup_max_saturation <= MaxI64
    /\ lockup_amount \in 0 .. MaxU64
    /\ lockup \in [Keys -> LockupType]
    /\ escrow \in [Keys -> Nat]
    /\ wallet \in [Keys -> Nat]

\* Namespace.lockup_amount, kept by increments in stake and stake_to and a
\* decrement in unstake, is always the sum of the lockups' amounts: the
\* truncating cast of a topped-up amount loses nothing.
LockupAccounting == lockup_amount = TotalLocked

\* Nothing that others do (deposits by strangers into the escrow, council
\* updates, other owners' instructions) takes from an owner the ability to
\* unstake once the lock has ended: every constraint of Unstake holds, the
\* escrow covers the amount, and closing it cannot fail.
NoOwnerLockedOut ==
    \A k \in Keys : lockup[k].open /\ Expired(lockup[k]) => CanUnstake(k)

\* While a lock with an end is running it can only grow: no step shortens
\* the end, lowers the amount, removes the account or takes tokens out of
\* the escrow ("forbid shortening end_ts", in stake).
RunningLockOnlyGrows ==
    [][\A k \in Keys : lockup[k].open /\ now < lockup[k].end_ts =>
          /\ lockup'[k].open
          /\ lockup'[k].amount >= lockup[k].amount
          /\ lockup'[k].end_ts >= lockup[k].end_ts
          /\ escrow'[k] >= escrow[k]]_stakingVars

\* The comment in stake by itself: no step of an open lockup that has an
\* end moves the end back.
EndNeverShortens ==
    [][\A k \in Keys : lockup[k].open /\ lockup'[k].open /\ lockup[k].end_ts # 0
          => lockup'[k].end_ts >= lockup[k].end_ts]_stakingVars

LongestSaturation ==
    LET saturations == {c.lockup_max_saturation : c \in Configs \cup {GenesisConfig}}
    IN  CHOOSE s \in saturations : \A t \in saturations : t <= s

\* Nobody, not even the council staking to an owner who did not ask, creates
\* or extends a lock past the saturation cap counted from its start, however
\* often it is topped up.
LockBounded ==
    \A k \in Keys : lockup[k].open =>
        lockup[k].end_ts <= lockup[k].start_ts + LongestSaturation

\* The weighted start, an average of times at which tokens came in, is one
\* of the times since the lock began.
WeightedStartInPast ==
    \A k \in Keys : lockup[k].open =>
        EffectiveStartTs(lockup[k]) \in lockup[k].start_ts .. now

\* What stake records of the owner's percentages at the first stake, or the
\* council at stake_to (rewards may be disabled), no later stake replaces,
\* whatever the defaults have become.
PercentagesStick ==
    [][\A k \in Keys : lockup[k].open /\ lockup'[k].open =>
          /\ lockup'[k].target_rewards_pct = lockup[k].target_rewards_pct
          /\ lockup'[k].target_voting_pct = lockup[k].target_voting_pct]_stakingVars

\* A top-up gives no more voting power than the parts would have apart: the
\* old tokens with the new end, and the added tokens locked from now on (the
\* attack of test_weighted_start_ts_voting_power: a small early stake does
\* not lend its age to a large late one).  Rounding down the parts
\* may lose two units.
OldPart(l, new) == [l EXCEPT !.end_ts = new.end_ts]
AddedPart(l, new) ==
    [new EXCEPT !.amount = @ - l.amount, !.start_ts = now, !.weighted_start_ts = now]

TopUpNeverInflates ==
    [][\A k \in Keys :
          LET l == lockup[k]
              new == lockup'[k]
          IN  l.open /\ new.open /\ l.end_ts # 0 /\ new # l =>
                VotingPower(new, ns, now) <= VotingPower(OldPart(l, new), ns, now)
                     + VotingPower(AddedPart(l, new), ns, now) + 2]_stakingVars

\* Nor does a top-up take power away: the parts apart have no more than the
\* whole, up to the power of the one second that the average is rounded by.
\* The quotients may lose one unit more, and the maxima of the parts another.
TopUpKeepsPower ==
    [][\A k \in Keys :
          LET l == lockup[k]
              new == lockup'[k]
              ramp == ns.lockup_max_saturation - ns.lockup_min_duration
          IN  l.open /\ new.open /\ l.end_ts # 0 /\ new # l =>
                VotingPower(new, ns, now)
                  + (MaxVotingPower(new) - new.amount) \div ramp + 2
                >= VotingPower(OldPart(l, new), ns, now)
                     + VotingPower(AddedPart(l, new), ns, now)]_stakingVars

\* A lock opened early enough for the model's horizon ends: its owner can
\* eventually unstake, or already has, whoever extends, donates or updates.
LockEventuallyEnds ==
    \A k \in Keys :
        (lockup[k].open /\ lockup[k].start_ts + LongestSaturation <= MaxTime)
            ~> (~lockup[k].open \/ CanUnstake(k))

=============================================================================
