------------------------------ MODULE MCTopUp ------------------------------
(***************************************************************************)
(* stake alone, from every running lockup of one owner that satisfies the  *)
(* invariants of Staking, not only from the reachable ones: the arithmetic *)
(* of the weighted start on a grid of amounts, ages, extensions and        *)
(* deposits finer than the one whole behaviours can afford.                *)
(***************************************************************************)
EXTENDS Staking

CONSTANTS alice

OneKey == {alice}

Genesis ==
    [security_council |-> alice,
     review_council |-> alice,
     lockup_default_target_rewards_pct |-> 100,
     lockup_default_target_voting_pct |-> 2000,
     lockup_min_duration |-> 2,
     lockup_min_amount |-> 1,
     lockup_max_saturation |-> 12,
     proposal_min_voting_power_for_quorum |-> 1,
     proposal_min_pass_pct |-> 60]

None == {}
Wallets == [k \in OneKey |-> 40]
AmountArgs == {0, 1, 2, 3, 7, 40}
EndArgs == 1 .. 15

AnyRunning ==
    {[open |-> TRUE, amount |-> a, start_ts |-> 1, end_ts |-> e,
      weighted_start_ts |-> w, target_rewards_pct |-> 100,
      target_voting_pct |-> p] :
        a \in {1, 2, 3, 5, 15, 40}, e \in 4 .. 13, w \in 0 .. 10, p \in {100, 140, 2000}}

InitTopUp ==
    /\ now \in 1 .. 11
    /\ ns = Genesis
    /\ lockup \in [Keys -> AnyRunning]
    /\ WeightedStartInPast
    /\ escrow = [k \in Keys |-> lockup[k].amount]
    /\ wallet = InitialWallet
    /\ lockup_amount = TotalLocked

\* One deposit or extension of the lockup above, then nothing.
NextTopUp ==
    \E amount \in Amounts, end_ts \in EndTimes :
        wallet = InitialWallet /\ Stake(alice, amount, end_ts)

SpecTopUp == InitTopUp /\ [][NextTopUp]_stakingVars
=============================================================================
