------------------------------- MODULE Voting -------------------------------
(***************************************************************************)
(* Proposals and votes on top of the staking of one namespace:             *)
(* init_proposal, update_proposal and vote.  A vote reads the voter's      *)
(* lockup, the configuration and the clock in the same transaction, while  *)
(* the lockups, the configuration and the clock go on changing by the      *)
(* actions of Staking.                                                     *)
(***************************************************************************)
EXTENDS Staking

CONSTANTS
    MaxProposals,   \* bound on the proposals ever made
    ProposalTimes,  \* values of args.start_ts and args.end_ts of a proposal
    ChoiceArgs      \* values of args.choice

VARIABLES
    proposal_nonce, \* Namespace.proposal_nonce
    proposal,       \* Proposal account of each nonce; [open] = it exists
    vote_record     \* VoteRecord account of each owner and proposal

votingVars == <<proposal_nonce, proposal, vote_record>>
vars == <<stakingVars, votingVars>>

Nonces == 0 .. MaxProposals - 1

ASSUME VotingAssumption ==
    /\ MaxProposals \in Nat
    /\ ProposalTimes \subseteq -MaxI64 - 1 .. MaxI64
    /\ ChoiceArgs \subseteq 0 .. 255

ProposalType ==
    [open : BOOLEAN, start_ts : Int, end_ts : Int,
     voting_power_choices : [Choices -> Nat]]

NoProposal ==
    [open |-> FALSE, start_ts |-> 0, end_ts |-> 0,
     voting_power_choices |-> [c \in Choices |-> 0]]

VoteRecordType == [open : BOOLEAN, choice : Choices, voting_power : Nat]

NoVote == [open |-> FALSE, choice |-> 0, voting_power |-> 0]

----------------------------------------------------------------------------
\* Mutated form: the nonce is not advanced.
SameNonce == proposal_nonce

NextNonce == proposal_nonce + 1

\* init_proposal: the account's address is derived from the nonce.
InitProposal(signer, start_ts, end_ts) ==
    LET new == [NoProposal EXCEPT !.open = TRUE,
                                  !.start_ts = start_ts,
                                  !.end_ts = end_ts]
    IN  /\ proposal_nonce < MaxProposals
        /\ signer = ns.review_council
        /\ ~proposal[proposal_nonce].open
        /\ end_ts >= start_ts
        /\ ProposalValid(new)
        /\ proposal' = [proposal EXCEPT ![proposal_nonce] = new]
        /\ proposal_nonce' = NextNonce
        /\ UNCHANGED <<stakingVars, vote_record>>

UpdateProposal(signer, n, start_ts, end_ts) ==
    LET new == [proposal[n] EXCEPT !.start_ts = start_ts, !.end_ts = end_ts]
    IN  /\ signer = ns.review_council
        /\ proposal[n].open
        /\ FitsU64(TotalVotingPower(proposal[n]))
        /\ CanUpdate(proposal[n])
        /\ ProposalValid(new)
        /\ proposal' = [proposal EXCEPT ![n] = new]
        /\ UNCHANGED <<stakingVars, proposal_nonce, vote_record>>

----------------------------------------------------------------------------
\* Mutated form: votes are accepted forever.
VotingNeverCloses(p) == p.start_ts <= now

VotingOpen(p) == p.start_ts <= now /\ now <= p.end_ts

\* Mutated form: a lock that ends with the proposal will do.
MayVoteToTheEnd(l, p) ==
    /\ l.open
    /\ FitsU64(VotingPower(l, ns, now))
    /\ VotingPower(l, ns, now) > 0
    /\ l.end_ts >= p.end_ts

\* The lockup must carry power, and outlast the proposal.
MayVoteOn(l, p) ==
    /\ l.open
    /\ FitsU64(VotingPower(l, ns, now))
    /\ VotingPower(l, ns, now) > 0
    /\ l.end_ts > p.end_ts

\* cast_vote panics on a choice without a counter.
ChoiceValid(choice) == choice \in Choices

\* cast_vote's checked addition.
CounterHolds(p, choice, power) == FitsU64(p.voting_power_choices[choice] + power)

Vote(k, n, choice) ==
    LET power == VotingPower(lockup[k], ns, now)
    IN  /\ proposal[n].open
        /\ VotingOpen(proposal[n])
        /\ MayVoteOn(lockup[k], proposal[n])
        /\ ~vote_record[k][n].open
        /\ ChoiceValid(choice)
        /\ CounterHolds(proposal[n], choice, power)
        /\ proposal' = [proposal EXCEPT ![n] = CastVote(@, choice, power)]
        /\ vote_record' = [vote_record EXCEPT ![k][n] =
               [open |-> TRUE, choice |-> choice, voting_power |-> power]]
        /\ UNCHANGED <<stakingVars, proposal_nonce>>

----------------------------------------------------------------------------
VotingInit ==
    /\ Init
    /\ proposal_nonce = 0
    /\ proposal = [n \in Nonces |-> NoProposal]
    /\ vote_record = [k \in Keys |-> [n \in Nonces |-> NoVote]]

VotingNext ==
    \/ Next /\ UNCHANGED votingVars
    \/ \E signer \in Keys, start_ts, end_ts \in ProposalTimes :
          InitProposal(signer, start_ts, end_ts)
    \/ \E signer \in Keys, n \in Nonces, start_ts, end_ts \in ProposalTimes :
          UpdateProposal(signer, n, start_ts, end_ts)
    \/ \E k \in Keys, n \in Nonces, choice \in ChoiceArgs : Vote(k, n, choice)

VotingSpec == VotingInit /\ [][VotingNext]_vars

----------------------------------------------------------------------------
(***************************************************************************)
(* Properties                                                              *)
(***************************************************************************)

VotingTypeOK ==
    /\ proposal_nonce \in 0 .. MaxProposals
    /\ proposal \in [Nonces -> ProposalType]
    /\ vote_record \in [Keys -> [Nonces -> VoteRecordType]]

Voted(n) == \E k \in Keys : vote_record[k][n].open

\* Each counter of a proposal, which vote only ever adds to, is the sum of
\* the powers in the vote records for that choice.
RecordedPower(n, c) ==
    SumFunction([k \in Keys |->
        IF vote_record[k][n].open /\ vote_record[k][n].choice = c
        THEN vote_record[k][n].voting_power ELSE 0])

TallyMatchesRecords ==
    \A n \in Nonces, c \in Choices :
        proposal[n].voting_power_choices[c] = RecordedPower(n, c)

\* "Users with ... stake longer than the proposal duration can vote": who has
\* voted on a proposal still has the stake, locked past the proposal's end,
\* for as long as votes are accepted.
VotedStakeStaysLocked ==
    \A k \in Keys, n \in Nonces :
        vote_record[k][n].open /\ now <= proposal[n].end_ts =>
            /\ lockup[k].open
            /\ lockup[k].end_ts > proposal[n].end_ts

\* No token votes twice on a proposal, by moving to another owner's lockup:
\* while votes are accepted, the votes cast are covered by the most that the
\* tokens now locked can vote with.
NoTokenVotesTwice ==
    \A n \in Nonces :
        proposal[n].open /\ now <= proposal[n].end_ts =>
            TotalVotingPower(proposal[n])
                <= SumFunction([k \in Keys |-> MaxVotingPower(lockup[k])])

\* Whoever may vote finds room in every counter, unless the stake that has
\* been voted with, as it is locked now, and the voter's own are too much for
\* a u64: neither a lockup whose power does not fit and so cannot vote, nor
\* stake that has left since it voted, takes a vote from others.
PowerAtStake(k, n) ==
    SumFunction([j \in Keys |->
        IF j = k \/ vote_record[j][n].open THEN MaxVotingPower(lockup[j]) ELSE 0])

NoVoterCrowdedOut ==
    \A k \in Keys, n \in Nonces, choice \in Choices :
        /\ proposal[n].open /\ VotingOpen(proposal[n])
        /\ MayVoteOn(lockup[k], proposal[n]) /\ ~vote_record[k][n].open
        /\ FitsU64(PowerAtStake(k, n))
        => CounterHolds(proposal[n], choice, VotingPower(lockup[k], ns, now))

\* A proposal that has votes keeps its times, and once its last moment has
\* passed also its tally: no update, no late vote.
VotedProposalIsFinal ==
    [][\A n \in Nonces : Voted(n) =>
          /\ proposal'[n].start_ts = proposal[n].start_ts
          /\ proposal'[n].end_ts = proposal[n].end_ts
          /\ now > proposal[n].end_ts => proposal'[n] = proposal[n]]_vars

\* The account init_proposal is about to create is always still free, so the
\* review council never gets stuck on an address in use.
NextNonceFree ==
    proposal_nonce < MaxProposals => ~proposal[proposal_nonce].open

\* What has_passed answers, or that it panics, is settled from the second
\* after a proposal's end while the configuration stays: no vote, no update
\* and no movement of stake changes it, and a proposal that nobody voted on
\* has not passed even if its times are moved then.
Outcome(p, config, time) ==
    IF ~HasPassedAnswers(p, config, time) THEN "panics"
    ELSE IF HasPassed(p, config, time) THEN "passed" ELSE "not passed"

OutcomeSettled ==
    [][\A n \in Nonces :
          proposal[n].open /\ now > proposal[n].end_ts /\ ns' = ns
              => Outcome(proposal'[n], ns', now') = Outcome(proposal[n], ns, now)]_vars

=============================================================================
