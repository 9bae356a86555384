----------------------------- MODULE MCStaking -----------------------------
(***************************************************************************)
(* Values of Staking's constants for TLC.  Time is counted in small units  *)
(* instead of seconds; the widths are small so that they are reached.      *)
(***************************************************************************)
EXTENDS Staking

CONSTANTS alice, council

TwoKeys == {alice, council}

Config(min_duration, min_amount, saturation, pct) ==
    [security_council |-> council,
     review_council |-> council,
     lockup_default_target_rewards_pct |-> 100,
     lockup_default_target_voting_pct |-> pct,
     lockup_min_duration |-> min_duration,
     lockup_min_amount |-> min_amount,
     lockup_max_saturation |-> saturation,
     proposal_min_voting_power_for_quorum |-> 1,
     proposal_min_pass_pct |-> 60]

Genesis == Config(1, 1, 4, 600)

\* An update that leaves the saturation alone.
SteadyConfigs == {Config(2, 1, 4, 200)}

\* An update that shortens the saturation.
ShrinkingConfigs == {Config(1, 1, 2, 600)}

\* A lockup from before weighted_start_ts, still running at GenesisTime.
Legacy(end_ts) ==
    [open |-> TRUE, amount |-> 1, start_ts |-> 1, end_ts |-> end_ts,
     weighted_start_ts |-> 0, target_rewards_pct |-> 100,
     target_voting_pct |-> 300]

NoLegacy == {}
SomeLegacy == {Legacy(4)}

Wallets == [k \in TwoKeys |-> 1]

AmountArgs == 0 .. 1
EndArgs == {0} \cup 3 .. 9
=============================================================================
