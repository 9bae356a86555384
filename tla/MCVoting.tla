----------------------------- MODULE MCVoting ------------------------------
(***************************************************************************)
(* Values of Voting's constants for TLC: two holders, one of them both     *)
(* councils, with one token each, that they can lock, vote with, unlock    *)
(* and pass on before a proposal has run its course.                       *)
(***************************************************************************)
EXTENDS Voting

CONSTANTS alice, council

TwoKeys == {alice, council}

Config(min_duration, saturation, pct) ==
    [security_council |-> council,
     review_council |-> council,
     lockup_default_target_rewards_pct |-> 100,
     lockup_default_target_voting_pct |-> pct,
     lockup_min_duration |-> min_duration,
     lockup_min_amount |-> 1,
     lockup_max_saturation |-> saturation,
     proposal_min_voting_power_for_quorum |-> 1,
     proposal_min_pass_pct |-> 2]

Genesis == Config(1, 4, 1700)

\* An update that leaves the saturation alone.
SteadyConfigs == {Config(2, 4, 200)}

NoLegacy == {}

Wallets == [k \in TwoKeys |-> 1]
AmountArgs == {0, 1}
EndArgs == {7}
TimeArgs == {2, 3, 5}
\* Two choices, and the first number that is none.
SomeChoices == {0, 1, 6}
=============================================================================
