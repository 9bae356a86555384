---------------------------- MODULE VeTokenState ----------------------------
(***************************************************************************)
(* The pure part of the program: the methods of Namespace, Lockup and      *)
(* Proposal in states.rs.  Accounts are records; the namespace record [ns] *)
(* holds the configuration fields, and the clock is passed as [now].       *)
(* Amounts and durations are mathematical integers; wherever the code      *)
(* casts, or panics on overflow, an operator below says so.                *)
(***************************************************************************)
EXTENDS Integers

CONSTANTS
    MaxI64,     \* i64::MAX
    MaxU64      \* u64::MAX

ASSUME WidthAssumption == /\ MaxI64 \in Nat \ {0}
                          /\ MaxU64 = 2 * MaxI64 + 1

(***************************************************************************)
(* Fixed-width arithmetic.  A checked operation whose result does not fit  *)
(* panics, which aborts the transaction: the action's guard is the [Fits]. *)
(* [AsI64] and [AsU64] are the two's-complement casts, for operands that   *)
(* exceed the target by less than its range (all that the code produces).  *)
(***************************************************************************)
FitsI64(x) == -MaxI64 - 1 <= x /\ x <= MaxI64
FitsU64(x) == 0 <= x /\ x <= MaxU64
AsI64(x) == IF x > MaxI64 THEN x - MaxU64 - 1 ELSE x
AsU64(x) == IF x > MaxU64 THEN x - MaxU64 - 1 ELSE x

----------------------------------------------------------------------------
(***************************************************************************)
(* Namespace                                                               *)
(***************************************************************************)

\* Namespace::valid, the gate of every configuration change.
NsValid(ns) ==
    /\ ns.lockup_min_duration > 0
    /\ ns.lockup_min_amount > 0
    /\ ns.lockup_max_saturation > ns.lockup_min_duration
    /\ ns.lockup_default_target_rewards_pct >= 100
    /\ ns.lockup_default_target_voting_pct \in 100 .. 2500
    /\ ns.proposal_min_voting_power_for_quorum > 0
    /\ ns.proposal_min_pass_pct \in 1 .. 100

----------------------------------------------------------------------------
(***************************************************************************)
(* Lockup                                                                  *)
(***************************************************************************)

\* Lockup::min_end_ts; its checked_add is the guard FitsI64(MinEndTs(..)).
MinEndTs(ns, now) == now + ns.lockup_min_duration

LockupValid(l, ns, now) ==
    /\ l.amount >= ns.lockup_min_amount
    /\ l.start_ts >= 0
    /\ l.end_ts >= MinEndTs(ns, now) \/ l.end_ts = 0
    /\ l.end_ts >= l.start_ts \/ l.end_ts = 0
    /\ l.target_voting_pct \in 100 .. 2500

\* 0 is the value of the field in an account written before it existed.
EffectiveStartTs(l) ==
    IF l.weighted_start_ts = 0 THEN l.start_ts ELSE l.weighted_start_ts

\* Every account is LEGACY_SIZE (340) bytes, so the size test always holds.
Normalize(l) == [l EXCEPT !.weighted_start_ts = EffectiveStartTs(l)]

MaxVotingPower(l) == (l.amount * l.target_voting_pct) \div 100

(***************************************************************************)
(* Lockup::voting_power.  A negative duration, cast to u128, is larger     *)
(* than any saturation.  The caller must check that the result is a u64:   *)
(* try_into().expect() panics otherwise.                                   *)
(***************************************************************************)
VotingPower(l, ns, now) ==
    LET duration == l.end_ts - EffectiveStartTs(l)
        ramp == ns.lockup_max_saturation - ns.lockup_min_duration
    IN  IF now >= l.end_ts \/ l.end_ts <= l.start_ts THEN 0
        ELSE IF duration \in 0 .. ns.lockup_min_duration THEN l.amount
        ELSE IF duration < 0 \/ duration >= ns.lockup_max_saturation
             THEN MaxVotingPower(l)
        ELSE l.amount + ((MaxVotingPower(l) - l.amount)
                           * (duration - ns.lockup_min_duration)) \div ramp

----------------------------------------------------------------------------
(***************************************************************************)
(* Proposal                                                                *)
(***************************************************************************)

\* A choice is any u8; the six counters are the ones cast_vote accepts.
Choices == 0 .. 5

\* Proposal::valid; the uri's length is not modelled.
ProposalValid(p) == p.start_ts < p.end_ts

\* Proposal::total_voting_power; its checked_adds are FitsU64 of the result.
TotalVotingPower(p) ==
    LET c == p.voting_power_choices
    IN  c[0] + c[1] + c[2] + c[3] + c[4] + c[5]

CanUpdate(p) == ~(TotalVotingPower(p) > 0)

\* Mutated form: a vote replaces the votes before it.
CastOnlyVote(p, choice, power) ==
    [p EXCEPT !.voting_power_choices[choice] = power]

\* Mutated form: a vote takes its power from the choice.
CastAgainst(p, choice, power) ==
    [p EXCEPT !.voting_power_choices[choice] = @ - power]

CastVote(p, choice, power) ==
    [p EXCEPT !.voting_power_choices[choice] = @ + power]

HasQuorum(p, ns) ==
    TotalVotingPower(p) > ns.proposal_min_voting_power_for_quorum

PassThreshold(p, ns) == (TotalVotingPower(p) * ns.proposal_min_pass_pct) \div 100

\* has_passed panics if the sum of the counters, or its product with the
\* percentage, is no u64.
HasPassedAnswers(p, ns, now) ==
    /\ FitsU64(TotalVotingPower(p))
    /\ HasQuorum(p, ns) /\ now >= p.end_ts =>
          FitsU64(TotalVotingPower(p) * ns.proposal_min_pass_pct)

HasPassed(p, ns, now) ==
    /\ HasQuorum(p, ns)
    /\ now >= p.end_ts
    /\ \E c \in Choices : p.voting_power_choices[c] > PassThreshold(p, ns)

=============================================================================
