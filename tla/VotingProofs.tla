---------------------------- MODULE VotingProofs ----------------------------
(***************************************************************************)
(* Theorems about Voting, for any number of holders and proposals.         *)
(***************************************************************************)
EXTENDS Voting, StakingProofs

\* A step of Voting is a step of Staking, or leaves Staking's state alone.
LEMMA StakingStep == [VotingNext]_vars => [Next]_stakingVars
BY DEF VotingNext, InitProposal, UpdateProposal, Vote, vars, stakingVars

\* The staking part of every state has the invariants of Staking.
LEMMA StakingPart == VotingSpec => Spec
<1>1. VotingInit => Init
  BY DEF VotingInit
<1> QED
  BY <1>1, StakingStep, PTL DEF VotingSpec, Spec

(***************************************************************************)
(* The inductive invariant: nonces are used in order, every vote has power *)
(* and belongs to a proposal, and the tallies are those of the records.    *)
(***************************************************************************)
NoncesInOrder ==
    \A n \in Nonces : IF n < proposal_nonce THEN proposal[n].open
                                            ELSE proposal[n] = NoProposal

VotesHavePower ==
    \A k \in Keys, n \in Nonces : vote_record[k][n].open =>
        vote_record[k][n].voting_power > 0 /\ proposal[n].open

VotingInv ==
    /\ VotingTypeOK
    /\ NoncesInOrder
    /\ VotesHavePower
    /\ TallyMatchesRecords

\* The powers recorded for one choice, as a function on the holders.
PowerTable(n, c) ==
    [k \in Keys |-> IF vote_record[k][n].open /\ vote_record[k][n].choice = c
                    THEN vote_record[k][n].voting_power ELSE 0]

\* Its values are naturals, so the lemmas about sums apply to it.
LEMMA PowerTableType ==
    ASSUME VotingTypeOK, NEW n \in Nonces, NEW c \in Choices
    PROVE  /\ PowerTable(n, c) \in [Keys -> Nat]
           /\ RecordedPower(n, c) = SumFunction(PowerTable(n, c))
<1>1. \A k \in Keys : vote_record[k][n] \in VoteRecordType
  BY DEF VotingTypeOK
<1> QED
  BY <1>1 DEF PowerTable, RecordedPower, VoteRecordType

\* The sum of the six counters, when they are naturals.
LEMMA TotalType ==
    ASSUME NEW p \in ProposalType
    PROVE  /\ TotalVotingPower(p) \in Nat
           /\ \A c \in Choices : p.voting_power_choices[c] <= TotalVotingPower(p)
<1> DEFINE v == p.voting_power_choices
<1>1. v \in [Choices -> Nat]
  BY DEF ProposalType
<1>2. 0 \in Choices /\ 1 \in Choices /\ 2 \in Choices /\ 3 \in Choices
      /\ 4 \in Choices /\ 5 \in Choices
  BY DEF Choices
<1>3. v[0] \in Nat /\ v[1] \in Nat /\ v[2] \in Nat /\ v[3] \in Nat /\ v[4] \in Nat /\ v[5] \in Nat
  BY <1>1, <1>2
<1>4. TotalVotingPower(p) = v[0] + v[1] + v[2] + v[3] + v[4] + v[5]
  BY DEF TotalVotingPower
<1>5. \A c \in Choices : c = 0 \/ c = 1 \/ c = 2 \/ c = 3 \/ c = 4 \/ c = 5
  BY DEF Choices
<1> HIDE DEF v
<1>6. ASSUME NEW c \in Choices PROVE v[c] <= TotalVotingPower(p)
  BY <1>3, <1>4, <1>5
<1> QED
  BY <1>3, <1>4, <1>6 DEF v

\* A proposal that somebody has voted on has a positive total.
LEMMA VotedHasTotal ==
    ASSUME VotingInv, NEW n \in Nonces, Voted(n)
    PROVE  TotalVotingPower(proposal[n]) > 0
<1>1. PICK k \in Keys : vote_record[k][n].open
  BY DEF Voted
<1>2. vote_record[k][n] \in VoteRecordType /\ proposal[n] \in ProposalType
  BY DEF VotingInv, VotingTypeOK
<1> DEFINE c == vote_record[k][n].choice
           f == PowerTable(n, c)
<1>3. c \in Choices
  BY <1>2 DEF VoteRecordType
<1>4. f[k] = vote_record[k][n].voting_power
  BY <1>1 DEF PowerTable
<1>5. f[k] > 0 /\ f[k] \in Nat
  BY <1>1, <1>2, <1>4 DEF VotingInv, VotesHavePower, VoteRecordType
<1>6. f \in [Keys -> Nat] /\ proposal[n].voting_power_choices[c] = SumFunction(f)
  BY <1>3, PowerTableType DEF VotingInv, TallyMatchesRecords
<1> HIDE DEF c, f
<1>7. SumFunction(f) \in Nat /\ f[k] <= SumFunction(f)
  BY <1>6, SumBounds, StakingAssumption
<1>8. TotalVotingPower(proposal[n]) \in Nat /\ SumFunction(f) <= TotalVotingPower(proposal[n])
  BY <1>2, <1>3, <1>6, TotalType
<1> QED
  BY <1>5, <1>7, <1>8

----------------------------------------------------------------------------
\* Before the first proposal there is nothing to count.
LEMMA InitVoting == VotingInit => VotingInv
<1> SUFFICES ASSUME VotingInit PROVE VotingInv
  OBVIOUS
<1>1. NoProposal \in ProposalType /\ ~NoProposal.open
  BY DEF NoProposal, ProposalType
<1>2. NoVote \in VoteRecordType /\ ~NoVote.open
  BY DEF NoVote, VoteRecordType, Choices
<1>3. VotingTypeOK
  BY <1>1, <1>2, VotingAssumption DEF VotingInit, VotingTypeOK
<1>4. NoncesInOrder
  BY VotingAssumption DEF VotingInit, NoncesInOrder, Nonces
<1>5. VotesHavePower
  BY <1>2 DEF VotingInit, VotesHavePower
<1>6. TallyMatchesRecords
  <2> SUFFICES ASSUME NEW n \in Nonces, NEW c \in Choices
               PROVE  proposal[n].voting_power_choices[c] = RecordedPower(n, c)
    BY DEF TallyMatchesRecords
  <2>1. proposal[n].voting_power_choices[c] = 0
    BY DEF VotingInit, NoProposal
  <2>2. PowerTable(n, c) = [k \in Keys |-> 0]
    BY <1>2 DEF VotingInit, PowerTable
  <2>3. SumFunction([k \in Keys |-> 0]) = 0
    BY ZeroSum, StakingAssumption
  <2> QED
    BY <1>3, <2>1, <2>2, <2>3, PowerTableType
<1> QED
  BY <1>3, <1>4, <1>5, <1>6 DEF VotingInv

\* Steps that leave the counters and the records alone leave the tally right.
LEMMA SameTally ==
    ASSUME VotingInv, UNCHANGED vote_record,
           \A n \in Nonces :
               proposal'[n].voting_power_choices = proposal[n].voting_power_choices
    PROVE  TallyMatchesRecords'
<1>1. \A n \in Nonces, c \in Choices : RecordedPower(n, c)' = RecordedPower(n, c)
  BY DEF RecordedPower
<1> QED
  BY <1>1 DEF VotingInv, TallyMatchesRecords

\* A new proposal has no votes, and takes the next nonce.
LEMMA InitProposalKeeps ==
    ASSUME VotingInv, NEW signer \in Keys,
           NEW start_ts \in ProposalTimes, NEW end_ts \in ProposalTimes,
           InitProposal(signer, start_ts, end_ts)
    PROVE  VotingInv'
<1> DEFINE m == proposal_nonce
           new == [NoProposal EXCEPT !.open = TRUE, !.start_ts = start_ts,
                                     !.end_ts = end_ts]
<1>1. m \in Nonces /\ m \in Nat /\ MaxProposals \in Nat
  BY VotingAssumption DEF InitProposal, VotingInv, VotingTypeOK, Nonces
<1>2. start_ts \in Int /\ end_ts \in Int
  BY VotingAssumption, ArgumentTypes
<1>3. /\ new \in ProposalType /\ new.open
      /\ new.voting_power_choices = NoProposal.voting_power_choices
  BY <1>2 DEF NoProposal, ProposalType
<1>4. /\ proposal' = [proposal EXCEPT ![m] = new]
      /\ proposal_nonce' = m + 1 /\ vote_record' = vote_record
      /\ proposal \in [Nonces -> ProposalType]
  BY DEF InitProposal, NextNonce, VotingInv, VotingTypeOK
<1>5. proposal[m] = NoProposal
  BY <1>1 DEF VotingInv, NoncesInOrder
<1> HIDE DEF new
<1>6. \A n \in Nonces : proposal'[n] = IF n = m THEN new ELSE proposal[n]
  BY <1>4
<1>7. VotingTypeOK'
  <2>1. proposal_nonce' \in 0 .. MaxProposals
    BY <1>1, <1>4 DEF InitProposal
  <2>2. proposal' \in [Nonces -> ProposalType]
    BY <1>3, <1>4
  <2> QED
    BY <1>4, <2>1, <2>2 DEF VotingInv, VotingTypeOK
<1>8. NoncesInOrder'
  <2> SUFFICES ASSUME NEW n \in Nonces
               PROVE  IF n < m + 1 THEN proposal'[n].open ELSE proposal'[n] = NoProposal
    BY <1>4 DEF NoncesInOrder
  <2>1. n \in Nat
    BY DEF Nonces
  <2>2. CASE n = m
    BY <1>1, <1>3, <1>6, <2>2
  <2>3. CASE n # m
    <3>1. (n < m + 1) <=> (n < m)
      BY <1>1, <2>1, <2>3
    <3> QED
      BY <1>6, <2>3, <3>1 DEF VotingInv, NoncesInOrder
  <2> QED
    BY <2>2, <2>3
<1>9. VotesHavePower'
  BY <1>3, <1>4, <1>6 DEF VotingInv, VotesHavePower
<1>10. TallyMatchesRecords'
  BY <1>3, <1>4, <1>5, <1>6, SameTally
<1> QED
  BY <1>7, <1>8, <1>9, <1>10 DEF VotingInv

\* An update moves the times of a proposal and keeps its counters.
LEMMA UpdateProposalKeeps ==
    ASSUME VotingInv, NEW signer \in Keys, NEW m \in Nonces,
           NEW start_ts \in ProposalTimes, NEW end_ts \in ProposalTimes,
           UpdateProposal(signer, m, start_ts, end_ts)
    PROVE  VotingInv'
<1> DEFINE new == [proposal[m] EXCEPT !.start_ts = start_ts, !.end_ts = end_ts]
<1>1. start_ts \in Int /\ end_ts \in Int
  BY VotingAssumption, ArgumentTypes
<1>2. /\ proposal' = [proposal EXCEPT ![m] = new]
      /\ proposal_nonce' = proposal_nonce /\ vote_record' = vote_record
      /\ proposal \in [Nonces -> ProposalType] /\ proposal[m].open
  BY DEF UpdateProposal, VotingInv, VotingTypeOK
<1>3. /\ new \in ProposalType /\ new.open
      /\ new.voting_power_choices = proposal[m].voting_power_choices
  BY <1>1, <1>2 DEF ProposalType
<1> HIDE DEF new
<1>4. \A n \in Nonces : proposal'[n] = IF n = m THEN new ELSE proposal[n]
  BY <1>2
<1>5. VotingTypeOK'
  BY <1>2, <1>3 DEF VotingInv, VotingTypeOK
<1>6. NoncesInOrder'
  <2>1. m < proposal_nonce
    BY <1>2 DEF VotingInv, NoncesInOrder, NoProposal
  <2> QED
    BY <1>2, <1>3, <1>4, <2>1 DEF VotingInv, NoncesInOrder
<1>7. VotesHavePower'
  BY <1>2, <1>3, <1>4 DEF VotingInv, VotesHavePower
<1>8. TallyMatchesRecords'
  BY <1>2, <1>3, <1>4, SameTally
<1> QED
  BY <1>5, <1>6, <1>7, <1>8 DEF VotingInv

\* The voting power of a lockup is a number.
LEMMA PowerType ==
    ASSUME TypeOK, NEW l \in LockupType
    PROVE  VotingPower(l, ns, now) \in Int
<1> DEFINE mvp == MaxVotingPower(l)
           duration == l.end_ts - EffectiveStartTs(l)
           ramp == ns.lockup_max_saturation - ns.lockup_min_duration
           rest == ((mvp - l.amount) * (duration - ns.lockup_min_duration)) \div ramp
<1>1. ns.lockup_min_duration \in Int /\ ramp \in Nat \ {0}
  BY ConfigFields DEF TypeOK, NsValid
<1>2. l.amount \in Nat /\ duration \in Int /\ l.target_voting_pct \in Int
  <2>1. l.end_ts \in Int /\ EffectiveStartTs(l) \in Int
    BY DEF LockupType, EffectiveStartTs
  <2>2. l.amount \in Nat /\ l.target_voting_pct \in Nat
    BY LockupNumbers
  <2> QED
    BY <2>1, <2>2
<1>3. mvp \in Int
  <2>1. l.amount * l.target_voting_pct \in Int
    BY <1>2
  <2>2. ASSUME NEW x \in Int PROVE x \div 100 \in Int
    OBVIOUS
  <2> QED
    BY <2>1, <2>2 DEF MaxVotingPower
<1> HIDE DEF mvp, duration, ramp
<1>4. rest \in Int
  <2>1. (mvp - l.amount) * (duration - ns.lockup_min_duration) \in Int
    BY <1>1, <1>2, <1>3
  <2> QED
    BY <1>1, <2>1
<1>5. VotingPower(l, ns, now) \in {0, l.amount, mvp, l.amount + rest}
  BY DEF VotingPower, mvp, duration, ramp
<1> HIDE DEF rest
<1> QED
  BY <1>2, <1>3, <1>4, <1>5

\* A vote adds the power it records, to one counter of one proposal.
LEMMA VoteKeeps ==
    ASSUME VotingInv, TypeOK, NEW k \in Keys, NEW m \in Nonces, NEW choice \in ChoiceArgs,
           Vote(k, m, choice)
    PROVE  VotingInv'
<1> DEFINE power == VotingPower(lockup[k], ns, now)
           new == CastVote(proposal[m], choice, power)
           record == [open |-> TRUE, choice |-> choice, voting_power |-> power]
<1>1. /\ proposal \in [Nonces -> ProposalType]
      /\ vote_record \in [Keys -> [Nonces -> VoteRecordType]]
      /\ proposal_nonce \in 0 .. MaxProposals
  BY DEF VotingInv, VotingTypeOK
<1>2. /\ proposal' = [proposal EXCEPT ![m] = new]
      /\ vote_record' = [vote_record EXCEPT ![k][m] = record]
      /\ proposal_nonce' = proposal_nonce
      /\ choice \in Choices /\ ~vote_record[k][m].open /\ proposal[m].open
  BY DEF Vote, ChoiceValid
<1>3. power > 0 /\ power \in Nat
  <2>1. power > 0
    BY DEF Vote, MayVoteOn
  <2>2. power \in Int
    BY PowerType DEF TypeOK
  <2> QED
    BY <2>1, <2>2
<1>4. /\ new \in ProposalType /\ new.open
      /\ new.voting_power_choices = [proposal[m].voting_power_choices EXCEPT ![choice] = @ + power]
  <2> HIDE DEF power
  <2> DEFINE v == proposal[m].voting_power_choices
             w == [v EXCEPT ![choice] = @ + power]
  <2>1. proposal[m] \in ProposalType /\ v \in [Choices -> Nat]
    BY <1>1 DEF ProposalType
  <2>2. v[choice] + power \in Nat
    BY <1>2, <1>3, <2>1
  <2>3. w \in [Choices -> Nat]
    BY <1>2, <2>1, <2>2
  <2>4. new = [proposal[m] EXCEPT !.voting_power_choices = w]
    BY DEF CastVote
  <2> HIDE DEF w
  <2>5. new \in ProposalType /\ new.open /\ new.voting_power_choices = w
    BY <1>2, <2>1, <2>3, <2>4 DEF ProposalType
  <2> QED
    BY <2>5 DEF w
<1>5. record \in VoteRecordType
  BY <1>2, <1>3 DEF VoteRecordType
<1> HIDE DEF power, new
<1>6. \A n \in Nonces : proposal'[n] = IF n = m THEN new ELSE proposal[n]
  BY <1>1, <1>2
<1>7. \A j \in Keys, n \in Nonces :
        vote_record'[j][n] = IF j = k /\ n = m THEN record ELSE vote_record[j][n]
  BY <1>1, <1>2
<1>8. VotingTypeOK'
  <2>1. proposal' \in [Nonces -> ProposalType]
    BY <1>1, <1>2, <1>4
  <2>2. vote_record' \in [Keys -> [Nonces -> VoteRecordType]]
    BY <1>1, <1>2, <1>5
  <2> QED
    BY <1>1, <1>2, <2>1, <2>2 DEF VotingTypeOK
<1>9. NoncesInOrder'
  <2>1. m < proposal_nonce
    BY <1>2 DEF VotingInv, NoncesInOrder, NoProposal
  <2> QED
    BY <1>2, <1>4, <1>6, <2>1 DEF VotingInv, NoncesInOrder
<1>10. VotesHavePower'
  <2>1. record.open /\ record.voting_power = power
    OBVIOUS
  <2> HIDE DEF record
  <2> QED
    BY <1>2, <1>3, <1>4, <1>6, <1>7, <2>1 DEF VotingInv, VotesHavePower
<1>11. TallyMatchesRecords'
  <2> SUFFICES ASSUME NEW n \in Nonces, NEW c \in Choices
               PROVE  proposal'[n].voting_power_choices[c] = RecordedPower(n, c)'
    BY DEF TallyMatchesRecords
  <2> DEFINE f == PowerTable(n, c)
             h == [j \in Keys |-> IF vote_record'[j][n].open /\ vote_record'[j][n].choice = c
                                  THEN vote_record'[j][n].voting_power ELSE 0]
  <2>1. f \in [Keys -> Nat] /\ RecordedPower(n, c) = SumFunction(f)
    BY PowerTableType DEF VotingInv
  <2>2. h \in [Keys -> Nat] /\ RecordedPower(n, c)' = SumFunction(h)
    <3>1. \A j \in Keys : vote_record'[j][n] \in VoteRecordType
      BY <1>8 DEF VotingTypeOK
    <3> QED
      BY <3>1 DEF RecordedPower, VoteRecordType
  <2>3. proposal[n].voting_power_choices[c] = SumFunction(f)
    BY <2>1 DEF VotingInv, TallyMatchesRecords
  <2>4. CASE n = m /\ c = choice
    <3>1. \A j \in Keys \ {k} : h[j] = f[j]
      BY <1>7, <2>4 DEF PowerTable
    <3>2. f[k] = 0 /\ h[k] = power
      BY <1>2, <1>7, <2>4 DEF PowerTable
    <3>3. proposal'[n].voting_power_choices[c] = proposal[n].voting_power_choices[c] + power
      BY <1>1, <1>4, <1>6, <2>4 DEF ProposalType
    <3> HIDE DEF f, h
    <3>4. SumFunction(h) = SumFunction(f) - f[k] + h[k]
      BY <2>1, <2>2, <3>1, SumChange, StakingAssumption
    <3>5. SumFunction(f) \in Nat
      BY <2>1, SumBounds, StakingAssumption
    <3> QED
      BY <1>3, <2>2, <2>3, <3>2, <3>3, <3>4, <3>5
  <2>5. CASE ~(n = m /\ c = choice)
    <3>1. h = f
      <4>1. \A j \in Keys : h[j] = f[j]
        BY <1>2, <1>7, <2>5 DEF PowerTable
      <4> QED
        BY <2>1, <2>2, <4>1
    <3>2. proposal'[n].voting_power_choices[c] = proposal[n].voting_power_choices[c]
      BY <1>1, <1>4, <1>6, <2>5 DEF ProposalType
    <3> HIDE DEF f, h
    <3> QED
      BY <2>2, <2>3, <3>1, <3>2
  <2> QED
    BY <2>4, <2>5
<1> QED
  BY <1>8, <1>9, <1>10, <1>11 DEF VotingInv

\* Every step keeps the invariant.
LEMMA NextVoting == TypeOK /\ VotingInv /\ [VotingNext]_vars => VotingInv'
<1> SUFFICES ASSUME TypeOK, VotingInv, [VotingNext]_vars PROVE VotingInv'
  OBVIOUS
<1>1. CASE UNCHANGED votingVars
  BY <1>1 DEF votingVars, VotingInv, VotingTypeOK, NoncesInOrder, VotesHavePower,
              TallyMatchesRecords, RecordedPower
<1>2. CASE UNCHANGED vars
  BY <1>1, <1>2 DEF vars
<1>3. ASSUME NEW signer \in Keys, NEW start_ts \in ProposalTimes,
             NEW end_ts \in ProposalTimes, InitProposal(signer, start_ts, end_ts)
      PROVE  VotingInv'
  BY <1>3, InitProposalKeeps
<1>4. ASSUME NEW signer \in Keys, NEW m \in Nonces, NEW start_ts \in ProposalTimes,
             NEW end_ts \in ProposalTimes, UpdateProposal(signer, m, start_ts, end_ts)
      PROVE  VotingInv'
  BY <1>4, UpdateProposalKeeps
<1>5. ASSUME NEW k \in Keys, NEW m \in Nonces, NEW choice \in ChoiceArgs,
             Vote(k, m, choice)
      PROVE  VotingInv'
  BY <1>5, VoteKeeps
<1> QED
  BY <1>1, <1>2, <1>3, <1>4, <1>5 DEF VotingNext

\* Every reachable state has the invariant.
LEMMA VotingInvariant == VotingSpec => [](TypeOK /\ VotingInv)
BY StakingPart, TypeCorrect, InitVoting, NextVoting, PTL DEF VotingSpec

\* The variables of Voting always have their types.
THEOREM VotingTypes == VotingSpec => []VotingTypeOK
<1>1. VotingInv => VotingTypeOK
  BY DEF VotingInv
<1> QED
  BY <1>1, VotingInvariant, PTL

\* The counters of every proposal are always the sums of its vote records:
\* vote writes the two accounts together, and nothing else writes either.
THEOREM TalliesMatch == VotingSpec => []TallyMatchesRecords
<1>1. VotingInv => TallyMatchesRecords
  BY DEF VotingInv
<1> QED
  BY <1>1, VotingInvariant, PTL

\* The account that init_proposal is about to create is always free.
THEOREM NonceAlwaysFree == VotingSpec => []NextNonceFree
<1>1. VotingInv => NextNonceFree
  <2> SUFFICES ASSUME VotingInv, proposal_nonce < MaxProposals
               PROVE  ~proposal[proposal_nonce].open
    BY DEF NextNonceFree
  <2>1. proposal_nonce \in Nonces /\ ~(proposal_nonce < proposal_nonce)
    BY VotingAssumption DEF VotingInv, VotingTypeOK, Nonces
  <2> QED
    BY <2>1 DEF VotingInv, NoncesInOrder, NoProposal
<1> QED
  BY <1>1, VotingInvariant, PTL

----------------------------------------------------------------------------
\* A proposal that has votes exists, and can no longer be updated.
LEMMA VotedIsFixed ==
    ASSUME VotingInv, NEW n \in Nonces, Voted(n)
    PROVE  proposal[n].open /\ ~CanUpdate(proposal[n])
<1>1. proposal[n].open
  BY DEF Voted, VotingInv, VotesHavePower
<1> QED
  BY <1>1, VotedHasTotal DEF CanUpdate

\* What one step may do to a proposal that has votes: count one more, while
\* votes are accepted.
LEMMA StepKeepsVoted ==
    ASSUME VotingInv, TypeOK, [VotingNext]_vars, NEW n \in Nonces, Voted(n)
    PROVE  /\ proposal'[n].start_ts = proposal[n].start_ts
           /\ proposal'[n].end_ts = proposal[n].end_ts
           /\ now > proposal[n].end_ts => proposal'[n] = proposal[n]
<1> DEFINE Kept == /\ proposal'[n].start_ts = proposal[n].start_ts
                   /\ proposal'[n].end_ts = proposal[n].end_ts
                   /\ now > proposal[n].end_ts => proposal'[n] = proposal[n]
<1>1. proposal \in [Nonces -> ProposalType] /\ now \in Int
  BY DEF VotingInv, VotingTypeOK, TypeOK
<1>2. proposal[n].open /\ ~CanUpdate(proposal[n])
  BY VotedIsFixed
<1>3. proposal[n].end_ts \in Int
  BY <1>1 DEF ProposalType
<1>4. ASSUME proposal'[n] = proposal[n] PROVE Kept
  BY <1>4
<1>5. CASE proposal' = proposal
  BY <1>4, <1>5
<1>6. ASSUME NEW signer \in Keys, NEW start_ts \in ProposalTimes,
             NEW end_ts \in ProposalTimes, InitProposal(signer, start_ts, end_ts)
      PROVE  Kept
  <2>1. n # proposal_nonce
    BY <1>2, <1>6 DEF InitProposal
  <2> QED
    BY <1>1, <1>4, <1>6, <2>1 DEF InitProposal
<1>7. ASSUME NEW signer \in Keys, NEW m \in Nonces, NEW start_ts \in ProposalTimes,
             NEW end_ts \in ProposalTimes, UpdateProposal(signer, m, start_ts, end_ts)
      PROVE  Kept
  <2>1. n # m
    BY <1>2, <1>7 DEF UpdateProposal
  <2> QED
    BY <1>1, <1>4, <1>7, <2>1 DEF UpdateProposal
<1>8. ASSUME NEW k \in Keys, NEW m \in Nonces, NEW choice \in ChoiceArgs,
             Vote(k, m, choice)
      PROVE  Kept
  <2> DEFINE power == VotingPower(lockup[k], ns, now)
  <2>1. proposal' = [proposal EXCEPT ![m] = CastVote(proposal[m], choice, power)]
        /\ now <= proposal[m].end_ts
    BY <1>8 DEF Vote, VotingOpen
  <2> HIDE DEF power
  <2>2. CASE n # m
    BY <1>1, <1>4, <2>1, <2>2
  <2>3. CASE n = m
    <3>1. proposal'[n] = CastVote(proposal[n], choice, power)
      BY <1>1, <2>1, <2>3
    <3>2. /\ CastVote(proposal[n], choice, power).start_ts = proposal[n].start_ts
          /\ CastVote(proposal[n], choice, power).end_ts = proposal[n].end_ts
      BY <1>1 DEF CastVote, ProposalType
    <3>3. ~(now > proposal[n].end_ts)
      BY <1>1, <1>3, <2>1, <2>3
    <3> QED
      BY <3>1, <3>2, <3>3
  <2> QED
    BY <2>2, <2>3
<1> QED
  BY <1>5, <1>6, <1>7, <1>8 DEF VotingNext, vars, votingVars

\* A proposal that has votes keeps its times, and after its end its tally:
\* a first vote has power, so the total can_update reads is positive.
THEOREM VotedProposalsAreFinal == VotingSpec => VotedProposalIsFinal
<1>1. (TypeOK /\ VotingInv) /\ [VotingNext]_vars =>
        [\A n \in Nonces : Voted(n) =>
           /\ proposal'[n].start_ts = proposal[n].start_ts
           /\ proposal'[n].end_ts = proposal[n].end_ts
           /\ now > proposal[n].end_ts => proposal'[n] = proposal[n]]_vars
  BY StepKeepsVoted
<1> QED
  BY <1>1, VotingInvariant, PTL DEF VotingSpec, VotedProposalIsFinal

----------------------------------------------------------------------------
\* Before the first vote there is nothing to show.
LEMMA InitLocked == VotingInit => VotedStakeStaysLocked
BY DEF VotingInit, VotedStakeStaysLocked, NoVote

\* A record that appears is that of a vote.
LEMMA VoteOpensRecord ==
    ASSUME VotingTypeOK, [VotingNext]_vars, NEW k \in Keys, NEW n \in Nonces,
           ~vote_record[k][n].open, vote_record'[k][n].open
    PROVE  \E choice \in ChoiceArgs : Vote(k, n, choice)
<1>1. vote_record \in [Keys -> [Nonces -> VoteRecordType]]
  BY DEF VotingTypeOK
<1>2. ~ UNCHANGED vote_record
  OBVIOUS
<1>3. ASSUME NEW j \in Keys, NEW m \in Nonces, NEW choice \in ChoiceArgs,
             Vote(j, m, choice)
      PROVE  j = k /\ m = n
  BY <1>1, <1>3 DEF Vote
<1> QED
  BY <1>2, <1>3 DEF VotingNext, InitProposal, UpdateProposal, vars, votingVars

\* A lock that backs a vote runs past now, and a running lock only grows.
LEMMA NextLocked ==
    ASSUME AgeInv, VotingInv, VotedStakeStaysLocked, [VotingNext]_vars
    PROVE  VotedStakeStaysLocked'
<1> SUFFICES ASSUME NEW k \in Keys, NEW n \in Nonces,
                    vote_record'[k][n].open, now' <= proposal'[n].end_ts
             PROVE  lockup'[k].open /\ lockup'[k].end_ts > proposal'[n].end_ts
  BY DEF VotedStakeStaysLocked
<1>1. /\ TypeOK /\ proposal \in [Nonces -> ProposalType] /\ now \in Int
      /\ lockup \in [Keys -> LockupType]
      /\ vote_record \in [Keys -> [Nonces -> VoteRecordType]]
  BY DEF AgeInv, AccountingInv, TypeOK, VotingInv, VotingTypeOK
<1>2. lockup[k].end_ts \in Int /\ proposal[n].end_ts \in Int
  BY <1>1 DEF LockupType, ProposalType
<1>3. now' \in Int /\ now <= now'
  <2>1. [Next]_stakingVars
    BY StakingStep
  <2> QED
    BY <1>1, <2>1 DEF Next, StakingNext, Environment, Stake, StakeTo, Unstake,
                  UpdateNamespace, Tick, Transfer, Donate, stakingVars
<1>4. CASE vote_record[k][n].open
  <2>1. Voted(n)
    BY <1>4 DEF Voted
  <2>2. proposal'[n].end_ts = proposal[n].end_ts
    BY <1>1, <2>1, StepKeepsVoted
  <2>3. now <= proposal[n].end_ts
    BY <1>1, <1>2, <1>3, <2>2
  <2>4. lockup[k].open /\ lockup[k].end_ts > proposal[n].end_ts
    BY <1>4, <2>3 DEF VotedStakeStaysLocked
  <2>5. lockup'[k].open /\ lockup'[k].end_ts >= lockup[k].end_ts
    BY <1>1, <1>2, <2>3, <2>4, StakingStep, StepGrowsLock
  <2>6. lockup'[k].end_ts \in Int
    BY StakingStep, NextAccounting DEF AgeInv, AccountingInv, TypeOK, LockupType
  <2> QED
    BY <1>2, <2>2, <2>4, <2>5, <2>6
<1>5. CASE ~vote_record[k][n].open
  <2>1. PICK choice \in ChoiceArgs : Vote(k, n, choice)
    BY <1>5, VoteOpensRecord DEF VotingInv
  <2>2. lockup[k].open /\ lockup[k].end_ts > proposal[n].end_ts /\ lockup' = lockup
    BY <2>1 DEF Vote, MayVoteOn, stakingVars
  <2>3. proposal'[n].end_ts = proposal[n].end_ts
    BY <1>1, <2>1 DEF Vote, CastVote, ProposalType
  <2> QED
    BY <2>2, <2>3
<1> QED
  BY <1>4, <1>5

\* Under one saturation, who has voted on a proposal stays locked for as long
\* as votes on it are accepted: nobody can vote and take the stake away.
THEOREM VotersStayLocked ==
    ASSUME SaturationFixed
    PROVE  VotingSpec => []VotedStakeStaysLocked
<1>1. VotingSpec => []AgeInv
  <2>1. AgeInv /\ [Next]_stakingVars => AgeInv'
    BY NextAge
  <2> QED
    BY <2>1, StakingPart, InitAge, PTL DEF Spec
<1>2. (AgeInv /\ VotingInv) /\ VotedStakeStaysLocked /\ [VotingNext]_vars
        => VotedStakeStaysLocked'
  BY NextLocked
<1> QED
  BY <1>1, <1>2, InitLocked, VotingInvariant, PTL DEF VotingSpec

----------------------------------------------------------------------------
\* Time does not go back.
LEMMA TimePasses ==
    ASSUME TypeOK, [VotingNext]_vars
    PROVE  now \in Int /\ now' \in Int /\ now <= now'
<1>1. [Next]_stakingVars
  BY StakingStep
<1>2. now \in Int
  BY DEF TypeOK
<1> QED
  BY <1>1, <1>2 DEF Next, StakingNext, Environment, Stake, StakeTo, Unstake,
                UpdateNamespace, Tick, Transfer, Donate, stakingVars

\* The counters of a proposal that nobody has voted on are zero.
LEMMA UnvotedHasNoTotal ==
    ASSUME VotingInv, NEW n \in Nonces, ~Voted(n)
    PROVE  TotalVotingPower(proposal[n]) = 0
<1>1. ASSUME NEW c \in Choices PROVE proposal[n].voting_power_choices[c] = 0
  <2>1. PowerTable(n, c) = [k \in Keys |-> 0]
    BY DEF Voted, PowerTable
  <2>2. RecordedPower(n, c) = SumFunction(PowerTable(n, c))
    BY PowerTableType DEF VotingInv
  <2>3. RecordedPower(n, c) = 0
    BY <2>1, <2>2, ZeroSum, StakingAssumption
  <2> QED
    BY <2>3 DEF VotingInv, TallyMatchesRecords
<1>2. 0 \in Choices /\ 1 \in Choices /\ 2 \in Choices /\ 3 \in Choices
      /\ 4 \in Choices /\ 5 \in Choices
  BY DEF Choices
<1> QED
  BY <1>1, <1>2 DEF TotalVotingPower

\* Once its end is over no step touches the counters of a proposal.
LEMMA CountersRest ==
    ASSUME VotingInv, TypeOK, [VotingNext]_vars, NEW n \in Nonces,
           proposal[n].open, now > proposal[n].end_ts
    PROVE  proposal'[n].voting_power_choices = proposal[n].voting_power_choices
<1>1. /\ proposal \in [Nonces -> ProposalType] /\ now \in Int
      /\ proposal[n].end_ts \in Int
  BY DEF VotingInv, VotingTypeOK, TypeOK, ProposalType
<1>2. CASE proposal' = proposal
  BY <1>2
<1>3. ASSUME NEW signer \in Keys, NEW start_ts \in ProposalTimes,
             NEW end_ts \in ProposalTimes, InitProposal(signer, start_ts, end_ts)
      PROVE  proposal'[n] = proposal[n]
  BY <1>1, <1>3 DEF InitProposal
<1>4. ASSUME NEW signer \in Keys, NEW m \in Nonces, NEW start_ts \in ProposalTimes,
             NEW end_ts \in ProposalTimes, UpdateProposal(signer, m, start_ts, end_ts)
      PROVE  proposal'[n].voting_power_choices = proposal[n].voting_power_choices
  BY <1>1, <1>4 DEF UpdateProposal, ProposalType
<1>5. ASSUME NEW k \in Keys, NEW m \in Nonces, NEW choice \in ChoiceArgs,
             Vote(k, m, choice)
      PROVE  proposal'[n] = proposal[n]
  <2>1. m # n
    BY <1>1, <1>5 DEF Vote, VotingOpen
  <2> QED
    BY <1>1, <1>5, <2>1 DEF Vote
<1> QED
  BY <1>2, <1>3, <1>4, <1>5 DEF VotingNext, vars, votingVars

\* A proposal without votes has not passed, and the question is answered.
LEMMA NoVotesNotPassed ==
    ASSUME NEW p, TotalVotingPower(p) = 0, NEW config \in ConfigType, NEW time
    PROVE  Outcome(p, config, time) = "not passed"
<1>1. ~HasQuorum(p, config)
  BY DEF HasQuorum, ConfigType
<1>2. FitsU64(0)
  BY ArgumentTypes DEF FitsU64
<1> QED
  BY <1>1, <1>2 DEF Outcome, HasPassedAnswers, HasPassed

\* After the end of a proposal the clock no longer changes the answer.
LEMMA OutcomeIsTimeless ==
    ASSUME NEW p, p.end_ts \in Int, NEW config, NEW t \in Int, NEW u \in Int,
           p.end_ts < t, t <= u
    PROVE  Outcome(p, config, u) = Outcome(p, config, t)
<1>1. t >= p.end_ts /\ u >= p.end_ts
  OBVIOUS
<1> QED
  BY <1>1 DEF Outcome, HasPassedAnswers, HasPassed

\* What one step leaves of the answer about a proposal that is over.
LEMMA StepKeepsOutcome ==
    ASSUME VotingInv, TypeOK, [VotingNext]_vars, NEW n \in Nonces,
           proposal[n].open, now > proposal[n].end_ts, ns' = ns
    PROVE  Outcome(proposal'[n], ns', now') = Outcome(proposal[n], ns, now)
<1>1. proposal[n].end_ts \in Int /\ ns \in ConfigType
  BY DEF VotingInv, VotingTypeOK, TypeOK, ProposalType
<1>2. CASE Voted(n)
  <2>1. proposal'[n] = proposal[n]
    BY <1>2, StepKeepsVoted
  <2>2. Outcome(proposal[n], ns, now') = Outcome(proposal[n], ns, now)
    BY <1>1, TimePasses, OutcomeIsTimeless
  <2> QED
    BY <2>1, <2>2
<1>3. CASE ~Voted(n)
  <2>1. TotalVotingPower(proposal[n]) = 0
    BY <1>3, UnvotedHasNoTotal
  <2>2. TotalVotingPower(proposal'[n]) = 0
    BY <2>1, CountersRest DEF TotalVotingPower
  <2> QED
    BY <1>1, <2>1, <2>2, NoVotesNotPassed
<1> QED
  BY <1>2, <1>3

\* The answer about a proposal that is over never changes while the
\* configuration stays, whoever votes, updates or moves stake: with votes the
\* account is final, without them the quorum stays out of reach.
THEOREM OutcomesAreSettled == VotingSpec => OutcomeSettled
<1>1. (TypeOK /\ VotingInv) /\ [VotingNext]_vars =>
        [\A n \in Nonces :
           proposal[n].open /\ now > proposal[n].end_ts /\ ns' = ns
             => Outcome(proposal'[n], ns', now') = Outcome(proposal[n], ns, now)]_vars
  BY StepKeepsOutcome
<1> QED
  BY <1>1, VotingInvariant, PTL DEF VotingSpec, OutcomeSettled

----------------------------------------------------------------------------
(***************************************************************************)
(* No token votes twice.  The inductive invariant: every lockup carries a  *)
(* percentage that valid() accepts, and every vote that is still open to   *)
(* others is covered by the most its own voter's lockup can vote with.     *)
(***************************************************************************)
VotingPcts == 100 .. 2500

PercentagesValid ==
    \A k \in Keys : lockup[k].open => lockup[k].target_voting_pct \in VotingPcts

VotesBacked ==
    \A k \in Keys, n \in Nonces :
        vote_record[k][n].open /\ now <= proposal[n].end_ts =>
            vote_record[k][n].voting_power <= MaxVotingPower(lockup[k])

\* The configuration's default for voting is a valid percentage, and so are
\* those of the legacy lockups.
LEMMA InitPercentages == Init => PercentagesValid
<1> SUFFICES ASSUME Init, NEW k \in Keys, lockup[k].open
             PROVE  lockup[k].target_voting_pct \in VotingPcts
  BY DEF PercentagesValid
<1>1. lockup[k] \in LegacyLockups
  BY NoLockupType DEF Init
<1> QED
  BY <1>1, StakingAssumption DEF LegacyLockup, VotingPcts

\* Whoever writes a lockup has it checked by valid().
LEMMA NextPercentages ==
    ASSUME TypeOK, PercentagesValid, [Next]_stakingVars
    PROVE  PercentagesValid'
<1> SUFFICES ASSUME NEW k \in Keys, lockup'[k].open
             PROVE  lockup'[k].target_voting_pct \in VotingPcts
  BY DEF PercentagesValid
<1>1. lockup \in [Keys -> LockupType]
  BY DEF TypeOK
<1>2. CASE lockup'[k] = lockup[k]
  BY <1>2 DEF PercentagesValid
<1>3. CASE lockup'[k] # lockup[k]
  <2>1. ASSUME NEW j \in Keys, NEW amount \in Amounts, NEW end_ts \in EndTimes,
               Stake(j, amount, end_ts)
        PROVE  LockupValid(lockup'[k], ns, now)
    <3>1. lockup'[k] = Staked(lockup[j], amount, end_ts)
      BY <1>1, <1>3, <2>1 DEF Stake
    <3> QED
      BY <2>1, <3>1 DEF Stake
  <2>2. ASSUME NEW signer \in Keys, NEW j \in Keys, NEW amount \in Amounts,
               NEW end_ts \in EndTimes, NEW disable_rewards \in BOOLEAN,
               StakeTo(signer, j, amount, end_ts, disable_rewards)
        PROVE  LockupValid(lockup'[k], ns, now)
    <3>1. lockup'[k] = CouncilLockup(amount, end_ts, disable_rewards)
      BY <1>1, <1>3, <2>2 DEF StakeTo
    <3> QED
      BY <2>2, <3>1 DEF StakeTo
  <2>3. ASSUME NEW j \in Keys, Unstake(j) PROVE FALSE
    BY <1>1, <1>3, <2>3, NoLockupType DEF Unstake
  <2>4. ~ UNCHANGED lockup
    BY <1>3
  <2>5. LockupValid(lockup'[k], ns, now)
    BY <2>1, <2>2, <2>3, <2>4
       DEF Next, StakingNext, Environment, UpdateNamespace, Tick, Transfer, Donate, stakingVars
  <2> QED
    BY <2>5 DEF LockupValid, VotingPcts
<1> QED
  BY <1>2, <1>3

\* Any lockup's maximum is a natural; a valid percentage makes it at least
\* the amount.
LEMMA MaxPowerType ==
    ASSUME NEW l \in LockupType
    PROVE  /\ MaxVotingPower(l) \in Nat
           /\ l.target_voting_pct >= 100 => l.amount <= MaxVotingPower(l)
<1> DEFINE n == l.amount
           pct == l.target_voting_pct
<1>1. n \in Nat /\ pct \in Nat
  BY LockupNumbers
<1>2. MaxVotingPower(l) = (n * pct) \div 100
  BY DEF MaxVotingPower
<1> HIDE DEF n, pct
<1>3. n * pct \in Nat
  BY <1>1
<1>4. (n * pct) \div 100 \in Nat
  <2>1. ASSUME NEW x \in Nat PROVE x \div 100 \in Nat
    OBVIOUS
  <2> QED
    BY <1>3, <2>1
<1>5. ASSUME pct >= 100 PROVE n <= (n * pct) \div 100
  <2>1. n * 100 <= n * pct
    BY <1>1, <1>5, ProductGrows
  <2>2. 100 * n <= n * pct /\ n * pct <= 100 * (n * pct)
    BY <1>1, <1>3, <2>1
  <2> QED
    BY <1>1, <1>3, <2>2, QuotientBounds
<1> QED
  BY <1>2, <1>4, <1>5 DEF n, pct

\* A lockup never votes with more than its maximum: the ramp stays below it.
LEMMA PowerBounded ==
    ASSUME TypeOK, NEW l \in LockupType, l.target_voting_pct \in VotingPcts
    PROVE  VotingPower(l, ns, now) <= MaxVotingPower(l)
<1>0. l.target_voting_pct >= 100
  <2> DEFINE pct == l.target_voting_pct
  <2>1. pct \in VotingPcts
    OBVIOUS
  <2> HIDE DEF pct
  <2>2. pct >= 100
    BY <2>1, SMTT(30) DEF VotingPcts
  <2> QED
    BY <2>2 DEF pct
<1>1. /\ MaxVotingPower(l) \in Nat
      /\ l.amount <= MaxVotingPower(l)
      /\ l.amount \in Nat /\ l.end_ts - EffectiveStartTs(l) \in Int
  BY <1>0, MaxPowerType DEF LockupType, EffectiveStartTs
<1> DEFINE mvp == MaxVotingPower(l)
           n == l.amount
           duration == l.end_ts - EffectiveStartTs(l)
           least == ns.lockup_min_duration
           most == ns.lockup_max_saturation
           rest == ((mvp - n) * (duration - least)) \div (most - least)
<1>2. least \in Nat \ {0} /\ most \in Nat /\ least < most
  BY ConfigFields DEF TypeOK, NsValid
<1>3. mvp \in Nat /\ n <= mvp /\ n \in Nat /\ duration \in Int
  BY <1>1
<1>4. \/ VotingPower(l, ns, now) = 0
      \/ VotingPower(l, ns, now) = n
      \/ VotingPower(l, ns, now) = mvp
      \/ /\ duration >= 0 /\ ~(duration \in 0 .. least) /\ ~(duration >= most)
         /\ VotingPower(l, ns, now) = n + rest
  <2> DEFINE none == now >= l.end_ts \/ l.end_ts <= l.start_ts
             whole == duration < 0 \/ duration >= most
  <2>1. ~(duration < 0) <=> duration >= 0
    BY <1>1
  <2>2. VotingPower(l, ns, now) =
          IF none THEN 0
          ELSE IF duration \in 0 .. least THEN n
          ELSE IF whole THEN mvp
          ELSE n + rest
    BY DEF VotingPower
  <2> HIDE DEF none, mvp, n, duration, least, most, rest
  <2>3. CASE none
    BY <2>2, <2>3
  <2>4. CASE ~none /\ duration \in 0 .. least
    BY <2>2, <2>4
  <2>5. CASE ~none /\ ~(duration \in 0 .. least) /\ whole
    BY <2>2, <2>5
  <2>6. CASE ~none /\ ~(duration \in 0 .. least) /\ ~whole
    BY <2>1, <2>2, <2>6
  <2> QED
    BY <2>3, <2>4, <2>5, <2>6
<1> HIDE DEF mvp, n, duration, least, most
<1>5. CASE duration >= 0 /\ ~(duration \in 0 .. least) /\ ~(duration >= most)
  <2>1. /\ mvp - n \in Nat /\ most - least \in Nat \ {0}
        /\ duration - least \in Int
        /\ 0 <= duration - least /\ duration - least <= most - least
    BY <1>1, <1>2, <1>3, <1>5
  <2> DEFINE gain == mvp - n
             part == duration - least
             ramp == most - least
             zero == 0
             product == gain * part
  <2>2. gain \in Nat /\ ramp \in Nat \ {0} /\ part \in Int /\ zero \in Int
        /\ zero <= part /\ part <= ramp
    BY <2>1
  <2>3. rest = product \div ramp
    OBVIOUS
  <2> HIDE DEF gain, part, ramp, rest
  <2>4. product \in Int /\ ramp * zero <= product /\ product <= ramp * gain
    <3>1. gain * zero <= gain * part /\ gain * part <= gain * ramp
      <4> HIDE DEF zero
      <4> QED
        BY <2>2, ProductGrows
    <3>2. gain * zero = 0 /\ ramp * zero = 0
      BY <2>2
    <3>3. gain * ramp = ramp * gain /\ gain * part \in Int
      BY <2>2
    <3> QED
      BY <3>1, <3>2, <3>3
  <2>5. product \div ramp <= gain /\ product \div ramp \in Int
    <3>1. product \div ramp <= gain
      <4> HIDE DEF product, zero
      <4> QED
        BY <2>2, <2>4, QuotientBounds
    <3>2. product \div ramp \in Int
      <4> HIDE DEF product
      <4> QED
        BY <2>2, <2>4
    <3> QED
      BY <3>1, <3>2
  <2>6. rest <= mvp - n /\ rest \in Int
    BY <2>3, <2>5 DEF gain
  <2> HIDE DEF rest
  <2>7. n + rest <= mvp
    BY <1>1, <1>3, <2>6
  <2> QED
    BY <1>3, <1>4, <2>7 DEF mvp
<1>6. CASE ~(duration >= 0 /\ ~(duration \in 0 .. least) /\ ~(duration >= most))
  BY <1>1, <1>3, <1>4, <1>6 DEF mvp
<1> QED
  BY <1>5, <1>6

\* A larger amount at the same percentage raises the maximum.
LEMMA MaxPowerGrows ==
    ASSUME NEW l \in LockupType, NEW new \in LockupType, l.amount <= new.amount,
           new.target_voting_pct = l.target_voting_pct
    PROVE  MaxVotingPower(l) <= MaxVotingPower(new)
<1> DEFINE m == l.amount
           n == new.amount
           pct == l.target_voting_pct
<1>1. m \in Nat /\ n \in Nat /\ pct \in Nat /\ m <= n
  BY LockupNumbers
<1>2. MaxVotingPower(l) = (m * pct) \div 100 /\ MaxVotingPower(new) = (n * pct) \div 100
  BY DEF MaxVotingPower
<1> HIDE DEF m, n, pct
<1>3. pct * m <= pct * n
  BY <1>1, ProductGrows
<1>4. m * pct \in Nat /\ n * pct \in Nat /\ m * pct <= n * pct
  BY <1>1, <1>3
<1>5. ASSUME NEW x \in Nat, NEW y \in Nat, x <= y PROVE x \div 100 <= y \div 100
  BY <1>5
<1> QED
  BY <1>2, <1>4, <1>5

----------------------------------------------------------------------------
\* The powers recorded for the choices up to c.
SpentTable(n, c) ==
    [k \in Keys |-> IF vote_record[k][n].open /\ vote_record[k][n].choice <= c
                    THEN vote_record[k][n].voting_power ELSE 0]

\* All that a holder's records count for a proposal.
CastTable(n) ==
    [k \in Keys |-> IF vote_record[k][n].open THEN vote_record[k][n].voting_power ELSE 0]

\* One choice more adds what was recorded for it.
LEMMA SpentStep ==
    ASSUME VotingTypeOK, NEW n \in Nonces, NEW c \in 1 .. 5
    PROVE  SumFunction(SpentTable(n, c)) = SumFunction(SpentTable(n, c - 1)) + RecordedPower(n, c)
<1>1. ASSUME NEW k \in Keys
      PROVE  /\ vote_record[k][n].voting_power \in Nat
             /\ vote_record[k][n].choice \in 0 .. 5
  BY DEF VotingTypeOK, VoteRecordType, Choices
<1>2. SpentTable(n, c) \in [Keys -> Nat] /\ SpentTable(n, c - 1) \in [Keys -> Nat]
  BY <1>1 DEF SpentTable
<1>3. PowerTable(n, c) \in [Keys -> Nat] /\ RecordedPower(n, c) = SumFunction(PowerTable(n, c))
  BY PowerTableType DEF Choices
<1>4. ASSUME NEW k \in Keys
      PROVE  SpentTable(n, c)[k] = SpentTable(n, c - 1)[k] + PowerTable(n, c)[k]
  <2>1. vote_record[k][n].choice <= c <=>
            (vote_record[k][n].choice <= c - 1 \/ vote_record[k][n].choice = c)
    BY <1>1
  <2>2. vote_record[k][n].choice = c => ~(vote_record[k][n].choice <= c - 1)
    BY <1>1
  <2> QED
    BY <1>1, <2>1, <2>2 DEF SpentTable, PowerTable
<1> QED
  BY <1>2, <1>3, <1>4, SumAdd, StakingAssumption

\* The total of a proposal is the sum of all powers recorded for it.
LEMMA TotalIsCast ==
    ASSUME VotingInv, NEW n \in Nonces
    PROVE  TotalVotingPower(proposal[n]) = SumFunction(CastTable(n))
<1> DEFINE s(c) == SumFunction(SpentTable(n, c))
           r(c) == RecordedPower(n, c)
<1>1. VotingTypeOK
  BY DEF VotingInv
<1>2. ASSUME NEW k \in Keys
      PROVE  vote_record[k][n].choice \in 0 .. 5
  BY <1>1 DEF VotingTypeOK, VoteRecordType, Choices
<1>3. s(0) = r(0)
  <2>1. \A k \in Keys : vote_record[k][n].choice <= 0 <=> vote_record[k][n].choice = 0
    BY <1>2
  <2>2. SpentTable(n, 0) = PowerTable(n, 0)
    BY <2>1 DEF SpentTable, PowerTable
  <2> QED
    BY <1>1, <2>2, PowerTableType DEF Choices
<1>4. s(5) = SumFunction(CastTable(n))
  <2>1. \A k \in Keys : vote_record[k][n].choice <= 5
    BY <1>2
  <2> QED
    BY <2>1 DEF SpentTable, CastTable
<1>5. /\ s(1) = s(0) + r(1) /\ s(2) = s(1) + r(2) /\ s(3) = s(2) + r(3)
      /\ s(4) = s(3) + r(4) /\ s(5) = s(4) + r(5)
  <2>1. 1 - 1 = 0 /\ 2 - 1 = 1 /\ 3 - 1 = 2 /\ 4 - 1 = 3 /\ 5 - 1 = 4
    OBVIOUS
  <2>2. \A c \in 1 .. 5 : s(c) = s(c - 1) + r(c)
    BY <1>1, SpentStep
  <2> HIDE DEF s, r
  <2> QED
    BY <2>1, <2>2
<1>6. \A c \in Choices : proposal[n].voting_power_choices[c] = r(c)
  BY DEF VotingInv, TallyMatchesRecords
<1> HIDE DEF s, r
<1>7. TotalVotingPower(proposal[n]) = r(0) + r(1) + r(2) + r(3) + r(4) + r(5)
  BY <1>6 DEF TotalVotingPower, Choices
<1>8. s(5) = r(0) + r(1) + r(2) + r(3) + r(4) + r(5)
  BY <1>3, <1>5
<1> QED
  BY <1>4, <1>7, <1>8

----------------------------------------------------------------------------
\* A vote is cast with no more than the lockup's maximum, and the lockup that
\* backs it can only grow until the proposal ends.
LEMMA NextBacked ==
    ASSUME AgeInv, VotingInv, VotedStakeStaysLocked, PercentagesValid, VotesBacked,
           [VotingNext]_vars
    PROVE  VotesBacked'
<1> SUFFICES ASSUME NEW k \in Keys, NEW n \in Nonces,
                    vote_record'[k][n].open, now' <= proposal'[n].end_ts
             PROVE  vote_record'[k][n].voting_power <= MaxVotingPower(lockup'[k])
  BY DEF VotesBacked
<1>1. /\ TypeOK /\ proposal \in [Nonces -> ProposalType]
      /\ lockup \in [Keys -> LockupType] /\ AccountingInv
      /\ vote_record \in [Keys -> [Nonces -> VoteRecordType]]
  BY DEF AgeInv, AccountingInv, TypeOK, VotingInv, VotingTypeOK
<1>2. proposal[n].end_ts \in Int /\ vote_record[k][n].voting_power \in Nat
  BY <1>1 DEF ProposalType, VoteRecordType
<1>3. now \in Int /\ now' \in Int /\ now <= now'
  BY <1>1, TimePasses
<1>4. lockup'[k] \in LockupType
  BY <1>1, StakingStep, NextAccounting DEF AccountingInv, TypeOK
<1>5. CASE vote_record[k][n].open
  <2>1. Voted(n)
    BY <1>5 DEF Voted
  <2>2. now <= proposal[n].end_ts
    BY <1>1, <1>2, <1>3, <2>1, StepKeepsVoted
  <2>3. lockup[k].open /\ lockup[k].end_ts > proposal[n].end_ts
    BY <1>5, <2>2 DEF VotedStakeStaysLocked
  <2>4. lockup[k].amount \in Nat /\ lockup'[k].amount \in Nat /\ lockup[k].end_ts \in Int
    BY <1>1, <1>4 DEF LockupType
  <2>5. now < lockup[k].end_ts
    BY <1>2, <1>3, <2>2, <2>3, <2>4
  <2>6. lockup'[k].open /\ lockup'[k].amount >= lockup[k].amount
    BY <2>3, <2>5, StakingStep, StepGrowsLock
  <2>7. lockup'[k].target_voting_pct = lockup[k].target_voting_pct
    BY <1>1, <2>3, <2>6, StakingStep, StepKeepsPercentages
  <2>8. MaxVotingPower(lockup[k]) <= MaxVotingPower(lockup'[k])
    BY <1>1, <1>4, <2>4, <2>6, <2>7, MaxPowerGrows
  <2>9. MaxVotingPower(lockup[k]) \in Nat /\ MaxVotingPower(lockup'[k]) \in Nat
    BY <1>1, <1>4, MaxPowerType
  <2>10. vote_record[k][n].voting_power <= MaxVotingPower(lockup[k])
    BY <1>5, <2>2 DEF VotesBacked
  <2>11. vote_record'[k][n] = vote_record[k][n]
    <3>1. ASSUME NEW j \in Keys, NEW m \in Nonces, NEW choice \in ChoiceArgs,
                 Vote(j, m, choice)
          PROVE  vote_record'[k][n] = vote_record[k][n]
      <4>1. ~(j = k /\ m = n)
        BY <1>5, <3>1 DEF Vote
      <4> QED
        BY <1>1, <3>1, <4>1 DEF Vote
    <3> QED
      BY <3>1 DEF VotingNext, InitProposal, UpdateProposal, vars, votingVars
  <2> QED
    BY <1>2, <2>8, <2>9, <2>10, <2>11
<1>6. CASE ~vote_record[k][n].open
  <2>1. PICK choice \in ChoiceArgs : Vote(k, n, choice)
    BY <1>6, VoteOpensRecord DEF VotingInv
  <2>2. lockup[k].open /\ lockup' = lockup
    BY <2>1 DEF Vote, MayVoteOn, stakingVars
  <2>3. vote_record'[k][n].voting_power = VotingPower(lockup[k], ns, now)
    BY <1>1, <2>1 DEF Vote
  <2>4. VotingPower(lockup[k], ns, now) <= MaxVotingPower(lockup[k])
    BY <1>1, <2>2, PowerBounded DEF PercentagesValid
  <2> QED
    BY <2>2, <2>3, <2>4
<1> QED
  BY <1>5, <1>6

\* So the votes cast are covered, holder by holder, and in sum.
LEMMA BackedVotesOnce ==
    ASSUME TypeOK, VotingInv, VotesBacked
    PROVE  NoTokenVotesTwice
<1> SUFFICES ASSUME NEW n \in Nonces, now <= proposal[n].end_ts
             PROVE  TotalVotingPower(proposal[n])
                      <= SumFunction([k \in Keys |-> MaxVotingPower(lockup[k])])
  BY DEF NoTokenVotesTwice
<1> DEFINE most == [k \in Keys |-> MaxVotingPower(lockup[k])]
<1>1. \A k \in Keys : MaxVotingPower(lockup[k]) \in Nat
  BY MaxPowerType DEF TypeOK
<1>2. most \in [Keys -> Nat]
  BY <1>1
<1>3. CastTable(n) \in [Keys -> Nat]
  BY DEF CastTable, VotingInv, VotingTypeOK, VoteRecordType
<1>4. \A k \in Keys : CastTable(n)[k] <= most[k]
  BY <1>1 DEF CastTable, VotesBacked
<1> HIDE DEF most
<1>5. SumFunction(CastTable(n)) <= SumFunction(most)
  BY <1>2, <1>3, <1>4, SumGrows, StakingAssumption
<1> QED
  BY <1>5, TotalIsCast DEF most

\* A voter's power, put next to the powers already recorded for a choice, is
\* covered holder by holder as well: it fits where the maxima do.
LEMMA BackedVotesFit ==
    ASSUME TypeOK, VotingInv, PercentagesValid, VotesBacked
    PROVE  NoVoterCrowdedOut
<1> SUFFICES ASSUME NEW k \in Keys, NEW n \in Nonces, NEW choice \in Choices,
                    VotingOpen(proposal[n]), MayVoteOn(lockup[k], proposal[n]),
                    ~vote_record[k][n].open, FitsU64(PowerAtStake(k, n))
             PROVE  CounterHolds(proposal[n], choice, VotingPower(lockup[k], ns, now))
  BY DEF NoVoterCrowdedOut
<1> DEFINE power == VotingPower(lockup[k], ns, now)
           cast == PowerTable(n, choice)
           then == [cast EXCEPT ![k] = power]
           most == [j \in Keys |-> IF j = k \/ vote_record[j][n].open
                                   THEN MaxVotingPower(lockup[j]) ELSE 0]
<1>1. /\ lockup \in [Keys -> LockupType] /\ lockup[k].open /\ power > 0
      /\ now <= proposal[n].end_ts
  BY DEF TypeOK, MayVoteOn, VotingOpen
<1>2. power \in Nat /\ power <= MaxVotingPower(lockup[k])
  <2>1. power <= MaxVotingPower(lockup[k])
    BY <1>1, PowerBounded DEF PercentagesValid
  <2>2. power \in Int
    BY <1>1, PowerType
  <2> QED
    BY <1>1, <2>1, <2>2
<1>3. \A j \in Keys : MaxVotingPower(lockup[j]) \in Nat
  BY <1>1, MaxPowerType
<1>4. /\ cast \in [Keys -> Nat] /\ cast[k] = 0
      /\ proposal[n].voting_power_choices[choice] = SumFunction(cast)
  <2>1. cast \in [Keys -> Nat] /\ RecordedPower(n, choice) = SumFunction(cast)
    BY PowerTableType DEF VotingInv
  <2> QED
    BY <2>1 DEF PowerTable, VotingInv, TallyMatchesRecords
<1>5. \A j \in Keys \ {k} : cast[j] <= most[j]
  <2> SUFFICES ASSUME NEW j \in Keys \ {k} PROVE cast[j] <= most[j]
    OBVIOUS
  <2>1. CASE vote_record[j][n].open
    BY <1>1, <1>3, <2>1 DEF PowerTable, VotesBacked
  <2>2. CASE ~vote_record[j][n].open
    BY <2>2 DEF PowerTable
  <2> QED
    BY <2>1, <2>2
<1>6. most \in [Keys -> Nat] /\ most[k] = MaxVotingPower(lockup[k])
  BY <1>3
<1>7. PowerAtStake(k, n) = SumFunction(most)
  BY DEF PowerAtStake
<1> HIDE DEF power, cast, most
<1>8. /\ then \in [Keys -> Nat] /\ then[k] = power
      /\ \A j \in Keys \ {k} : then[j] = cast[j]
  BY <1>2, <1>4
<1>9. \A j \in Keys : then[j] <= most[j]
  BY <1>2, <1>5, <1>6, <1>8
<1> HIDE DEF then
<1>10. SumFunction(then) = SumFunction(cast) - cast[k] + then[k]
  BY <1>4, <1>8, SumChange, StakingAssumption
<1>11. SumFunction(then) <= SumFunction(most)
  BY <1>6, <1>8, <1>9, SumGrows, StakingAssumption
<1>12. SumFunction(then) \in Nat /\ SumFunction(cast) \in Nat /\ SumFunction(most) \in Nat
  BY <1>4, <1>6, <1>8, SumBounds, StakingAssumption
<1>13. MaxU64 \in Int
  BY WidthAssumption
<1>14. proposal[n].voting_power_choices[choice] + power = SumFunction(then)
  BY <1>2, <1>4, <1>8, <1>10, <1>12
<1>15. FitsU64(SumFunction(then))
  BY <1>7, <1>11, <1>12, <1>13 DEF FitsU64
<1> QED
  BY <1>14, <1>15 DEF CounterHolds, power

\* Under one saturation every vote stays backed while the proposal is open.
VotesAreBacked == VotedStakeStaysLocked /\ PercentagesValid /\ VotesBacked

LEMMA BackedInvariant ==
    ASSUME SaturationFixed
    PROVE  VotingSpec => [](TypeOK /\ VotingInv /\ VotesAreBacked)
<1>1. VotingInit => VotesAreBacked
  <2>1. VotingInit => VotesBacked
    BY DEF VotingInit, VotesBacked, NoVote
  <2> QED
    BY <2>1, InitLocked, InitPercentages DEF VotingInit, VotesAreBacked
<1>2. /\ AgeInv /\ TypeOK /\ VotingInv /\ VotesAreBacked /\ [VotingNext]_vars
      => VotesAreBacked'
  BY NextLocked, StakingStep, NextPercentages, NextBacked DEF VotesAreBacked
<1>3. AgeInv /\ [Next]_stakingVars => AgeInv'
  BY NextAge
<1> QED
  BY <1>1, <1>2, <1>3, StakingPart, InitAge, VotingInvariant, PTL DEF VotingSpec, Spec

\* Under one saturation the votes cast on a proposal never exceed, while it
\* takes votes, what the tokens locked now can vote with at most: a token
\* cannot vote, be unlocked, and vote again from another owner's lockup.
THEOREM TokensVoteOnce ==
    ASSUME SaturationFixed
    PROVE  VotingSpec => []NoTokenVotesTwice
<1>1. TypeOK /\ VotingInv /\ VotesAreBacked => NoTokenVotesTwice
  BY BackedVotesOnce DEF VotesAreBacked
<1> QED
  BY <1>1, BackedInvariant, PTL

\* Under one saturation whoever may vote on a proposal finds room in every
\* counter, unless the stake voted with, as it is locked now, and the voter's
\* own can have more power than a u64 holds.
THEOREM NobodyCrowdedOut ==
    ASSUME SaturationFixed
    PROVE  VotingSpec => []NoVoterCrowdedOut
<1>1. TypeOK /\ VotingInv /\ VotesAreBacked => NoVoterCrowdedOut
  BY BackedVotesFit DEF VotesAreBacked
<1> QED
  BY <1>1, BackedInvariant, PTL

=============================================================================
