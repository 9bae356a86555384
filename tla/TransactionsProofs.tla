------------------------- MODULE TransactionsProofs --------------------------
(***************************************************************************)
(* Theorems about Transactions, for any users, councils, namespaces and    *)
(* number of transactions, in flight in any order.                         *)
(***************************************************************************)
EXTENDS Transactions, TLAPS

(***************************************************************************)
(* Accounts and their addresses                                            *)
(***************************************************************************)
\* An address tells the class of the account at it, and its seeds are the
\* account's own.
LEMMA LockupAtSeeds ==
    ASSUME NEW ns, NEW owner, NEW r, AccountOk(LockupSeeds(ns, owner), r)
    PROVE  r = [class |-> "lockup", ns |-> ns, owner |-> owner]
BY DEF AccountOk, NamespaceSeeds, LockupSeeds, ProposalSeeds, VoteRecordSeeds,
       DistributionSeeds, ClaimSeeds, AssociatedTokenAddress

LEMMA TokenAtSeeds ==
    ASSUME NEW owner, NEW program, NEW mint, NEW r,
           AccountOk(AssociatedTokenAddress(owner, program, mint), r)
    PROVE  /\ r.class = "token"
           /\ r.authority = owner /\ r.program = program /\ r.mint = mint
BY DEF AccountOk, NamespaceSeeds, LockupSeeds, ProposalSeeds, VoteRecordSeeds,
       DistributionSeeds, ClaimSeeds, AssociatedTokenAddress

LEMMA ProposalAtSeeds ==
    ASSUME NEW ns, NEW nonce, NEW r, AccountOk(ProposalSeeds(ns, nonce), r)
    PROVE  r.class = "proposal" /\ r.ns = ns /\ r.nonce = nonce
BY DEF AccountOk, NamespaceSeeds, LockupSeeds, ProposalSeeds, VoteRecordSeeds,
       DistributionSeeds, ClaimSeeds, AssociatedTokenAddress

LEMMA VoteRecordAtSeeds ==
    ASSUME NEW ns, NEW owner, NEW p, NEW r, AccountOk(VoteRecordSeeds(ns, owner, p), r)
    PROVE  r.class = "voteRecord" /\ r.owner = owner /\ r.proposal = p
BY DEF AccountOk, NamespaceSeeds, LockupSeeds, ProposalSeeds, VoteRecordSeeds,
       DistributionSeeds, ClaimSeeds, AssociatedTokenAddress

LEMMA DistributionAtSeeds ==
    ASSUME NEW ns, NEW v, NEW w, NEW u, NEW r, AccountOk(DistributionSeeds(ns, v, w, u), r)
    PROVE  /\ r.class = "distribution" /\ r.ns = ns
           /\ r.cosigner1 = v /\ r.cosigner2 = w
BY DEF AccountOk, NamespaceSeeds, LockupSeeds, ProposalSeeds, VoteRecordSeeds,
       DistributionSeeds, ClaimSeeds, AssociatedTokenAddress

LEMMA ClaimAtSeeds ==
    ASSUME NEW ns, NEW digest, NEW r, AccountOk(ClaimSeeds(ns, digest), r)
    PROVE  r.class = "distributionClaim" /\ r.ns = ns /\ r.cosignedMsg = digest
BY DEF AccountOk, NamespaceSeeds, LockupSeeds, ProposalSeeds, VoteRecordSeeds,
       DistributionSeeds, ClaimSeeds, AssociatedTokenAddress

\* The fields that the proofs use.
LEMMA Fields ==
    ASSUME NEW x, NEW r, AccountOk(x, r)
    PROVE  /\ r.class = "namespace" =>
                 /\ r.proposalNonce \in Nat
                 /\ DOMAIN r = {"class", "tokenMint", "deployer", "securityCouncil",
                                "reviewCouncil", "proposalNonce"}
           /\ r.class = "proposal" =>
                 /\ r.nonce \in Nat /\ r.votes \in Nat
                 /\ x = ProposalSeeds(r.ns, r.nonce)
                 /\ DOMAIN r = {"class", "ns", "nonce", "owner", "uri", "votes"}
           /\ r.class = "distribution" =>
                 /\ x = DistributionSeeds(r.ns, r.cosigner1, r.cosigner2, r.uuid)
                 /\ DOMAIN r = {"class", "ns", "uuid", "cosigner1", "cosigner2",
                                "distributionTokenMint", "startTs"}
           /\ r.class = "token" =>
                 x = AssociatedTokenAddress(r.authority, r.program, r.mint)
BY DEF AccountOk

\* The changes that the handlers make to an account, and what they create.
WithCouncils(r, v, w) == [r EXCEPT !.securityCouncil = v, !.reviewCouncil = w]
WithNextNonce(r) == [r EXCEPT !.proposalNonce = @ + 1]
WithText(r, v) == [r EXCEPT !.uri = v]
WithVote(r) == [r EXCEPT !.votes = @ + 1]
WithStart(r, v) == [r EXCEPT !.startTs = v]
NewProposal(ns, nonce, owner, uri) ==
    [class |-> "proposal", ns |-> ns, nonce |-> nonce, owner |-> owner,
     uri |-> uri, votes |-> 0]
NewRecord(ns, owner, proposal, uri) ==
    [class |-> "voteRecord", ns |-> ns, owner |-> owner, proposal |-> proposal,
     uri |-> uri]

\* Each kind of change keeps an account what its address says.
LEMMA UpdatesKeepAccounts ==
    ASSUME NEW x, NEW r, AccountOk(x, r), NEW v, NEW w
    PROVE  /\ r.class = "namespace" => /\ AccountOk(x, WithCouncils(r, v, w))
                                       /\ AccountOk(x, WithNextNonce(r))
           /\ r.class = "proposal" => /\ AccountOk(x, WithText(r, v))
                                      /\ AccountOk(x, WithVote(r))
           /\ r.class = "distribution" => AccountOk(x, WithStart(r, v))
<1>1. CASE r.class = "namespace"
  <2>1. /\ r = [class |-> "namespace", tokenMint |-> r.tokenMint,
                deployer |-> r.deployer, securityCouncil |-> r.securityCouncil,
                reviewCouncil |-> r.reviewCouncil, proposalNonce |-> r.proposalNonce]
        /\ r.proposalNonce \in Nat
        /\ x = NamespaceSeeds(r.tokenMint, r.deployer)
    BY <1>1 DEF AccountOk
  <2>2. [r EXCEPT !.securityCouncil = v, !.reviewCouncil = w]
            = [class |-> "namespace", tokenMint |-> r.tokenMint,
               deployer |-> r.deployer, securityCouncil |-> v,
               reviewCouncil |-> w, proposalNonce |-> r.proposalNonce]
    <3> DEFINE q == [r EXCEPT !.securityCouncil = v]
    <3>1. q = [class |-> "namespace", tokenMint |-> r.tokenMint,
               deployer |-> r.deployer, securityCouncil |-> v,
               reviewCouncil |-> r.reviewCouncil, proposalNonce |-> r.proposalNonce]
      BY <2>1
    <3>2. [r EXCEPT !.securityCouncil = v, !.reviewCouncil = w]
              = [q EXCEPT !.reviewCouncil = w]
      OBVIOUS
    <3> HIDE DEF q
    <3> QED
      BY <3>1, <3>2
  <2>3. [r EXCEPT !.proposalNonce = @ + 1]
            = [class |-> "namespace", tokenMint |-> r.tokenMint,
               deployer |-> r.deployer, securityCouncil |-> r.securityCouncil,
               reviewCouncil |-> r.reviewCouncil,
               proposalNonce |-> r.proposalNonce + 1]
    BY <2>1
  <2> QED
    BY <1>1, <2>1, <2>2, <2>3 DEF AccountOk, WithCouncils, WithNextNonce
<1>2. CASE r.class = "proposal"
  <2>1. /\ r = [class |-> "proposal", ns |-> r.ns, nonce |-> r.nonce,
                owner |-> r.owner, uri |-> r.uri, votes |-> r.votes]
        /\ r.nonce \in Nat /\ r.votes \in Nat
        /\ x = ProposalSeeds(r.ns, r.nonce)
    BY <1>2 DEF AccountOk
  <2>2. [r EXCEPT !.uri = v] = [class |-> "proposal", ns |-> r.ns, nonce |-> r.nonce,
                                owner |-> r.owner, uri |-> v, votes |-> r.votes]
    BY <2>1
  <2>3. [r EXCEPT !.votes = @ + 1]
            = [class |-> "proposal", ns |-> r.ns, nonce |-> r.nonce,
               owner |-> r.owner, uri |-> r.uri, votes |-> r.votes + 1]
    BY <2>1
  <2> QED
    BY <1>2, <2>1, <2>2, <2>3 DEF AccountOk, WithText, WithVote
<1>3. CASE r.class = "distribution"
  <2>1. /\ r = [class |-> "distribution", ns |-> r.ns, uuid |-> r.uuid,
                cosigner1 |-> r.cosigner1, cosigner2 |-> r.cosigner2,
                distributionTokenMint |-> r.distributionTokenMint,
                startTs |-> r.startTs]
        /\ x = DistributionSeeds(r.ns, r.cosigner1, r.cosigner2, r.uuid)
    BY <1>3 DEF AccountOk
  <2>2. [r EXCEPT !.startTs = v]
            = [class |-> "distribution", ns |-> r.ns, uuid |-> r.uuid,
               cosigner1 |-> r.cosigner1, cosigner2 |-> r.cosigner2,
               distributionTokenMint |-> r.distributionTokenMint, startTs |-> v]
    BY <2>1
  <2> QED
    BY <1>3, <2>1, <2>2 DEF AccountOk, WithStart
<1> QED
  BY <1>1, <1>2, <1>3

(***************************************************************************)
(* The ledger's invariant                                                  *)
(***************************************************************************)
\* A new account of most classes changes nothing for proposals and votes, nor
\* does one that is written as it was.
LEMMA PutKeepsLedger ==
    ASSUME NEW s, LedgerOk(s), NEW x, NEW r, AccountOk(x, r),
           x \in DOMAIN s => s[x] = r,
           x \notin DOMAIN s =>
              \/ r.class \in {"lockup", "distribution", "distributionClaim", "token"}
              \/ r.class = "namespace" /\ r.proposalNonce = 0
    PROVE  LedgerOk(Put(s, x, r))
<1> DEFINE t == Put(s, x, r)
<1>1. /\ DOMAIN t = DOMAIN s \cup {x}
      /\ t[x] = r
      /\ \A y \in DOMAIN s : t[y] = s[y]
  BY DEF Put
<1> HIDE DEF t
<1>2. \A y \in DOMAIN t : AccountOk(y, t[y])
  BY <1>1 DEF LedgerOk
<1>3. ProposalsOk(t)
  BY <1>1 DEF LedgerOk, ProposalsOk, Exists
<1>4. VotesOk(t)
  BY <1>1 DEF LedgerOk, VotesOk, Exists
<1> QED
  BY <1>2, <1>3, <1>4 DEF LedgerOk, t

LEMMA TokenKeepsLedger ==
    ASSUME NEW s, LedgerOk(s), NEW authority, NEW a, NEW mint, NEW x,
           x = AssociatedTokenAddress(authority, a.tokenProgram, mint)
    PROVE  LedgerOk(WithToken(s, x, authority, a, mint))
<1> DEFINE r == [class |-> "token", authority |-> authority, mint |-> mint,
                 program |-> a.tokenProgram]
<1>1. AccountOk(x, r) /\ r.class = "token"
  BY DEF AccountOk
<1> HIDE DEF r
<1>2. x \notin DOMAIN s => LedgerOk(Put(s, x, r))
  BY <1>1, PutKeepsLedger
<1> QED
  BY <1>2 DEF WithToken, r

\* Lockups and token accounts may go.
LEMMA DropKeepsLedger ==
    ASSUME NEW s, LedgerOk(s), NEW gone,
           \A x \in gone : x \in DOMAIN s => s[x].class \in {"lockup", "token"}
    PROVE  LedgerOk(Drop(s, gone))
<1> DEFINE t == Drop(s, gone)
<1>1. /\ DOMAIN t = DOMAIN s \ gone
      /\ \A y \in DOMAIN t : t[y] = s[y]
  BY DEF Drop
<1> HIDE DEF t
<1>2. \A y \in DOMAIN t : AccountOk(y, t[y])
  BY <1>1 DEF LedgerOk
<1>3. ProposalsOk(t)
  <2> SUFFICES ASSUME NEW y \in DOMAIN t
               PROVE  /\ t[y].class = "namespace" =>
                            \A n \in 0 .. t[y].proposalNonce - 1 :
                               ProposalSeeds(y, n) \in DOMAIN t
                      /\ t[y].class = "proposal" =>
                            /\ Exists(t, t[y].ns, "namespace")
                            /\ t[y].nonce < t[t[y].ns].proposalNonce
    BY DEF ProposalsOk
  <2>1. y \in DOMAIN s /\ t[y] = s[y]
    BY <1>1
  <2>2. ASSUME s[y].class = "namespace", NEW n \in 0 .. s[y].proposalNonce - 1
        PROVE  ProposalSeeds(y, n) \in DOMAIN t
    <3>1. ProposalSeeds(y, n) \in DOMAIN s
      BY <2>1, <2>2 DEF LedgerOk, ProposalsOk
    <3>2. s[ProposalSeeds(y, n)].class = "proposal"
      BY <3>1, ProposalAtSeeds DEF LedgerOk
    <3> QED
      BY <1>1, <3>1, <3>2
  <2>3. ASSUME s[y].class = "proposal"
        PROVE  /\ Exists(t, t[y].ns, "namespace")
               /\ t[y].nonce < t[t[y].ns].proposalNonce
    BY <1>1, <2>1, <2>3 DEF LedgerOk, ProposalsOk, Exists
  <2> QED
    BY <2>1, <2>2, <2>3
<1>4. VotesOk(t)
  BY <1>1 DEF LedgerOk, VotesOk, Exists
<1> QED
  BY <1>2, <1>3, <1>4 DEF LedgerOk, t

\* One account changes.
Updated(s, t, x, r) ==
    /\ DOMAIN t = DOMAIN s
    /\ x \in DOMAIN s /\ t[x] = r
    /\ \A y \in DOMAIN s : y # x => t[y] = s[y]

\* A namespace's councils, a proposal's text and a distribution's start.
LEMMA UpdateKeepsLedger ==
    ASSUME NEW s, LedgerOk(s), NEW x, NEW r, NEW t, Updated(s, t, x, r),
           AccountOk(x, r), r.class = s[x].class,
           \/ /\ r.class = "namespace"
              /\ r.proposalNonce = s[x].proposalNonce
           \/ /\ r.class = "proposal" /\ s[x].votes = 0
              /\ r.ns = s[x].ns /\ r.nonce = s[x].nonce
           \/ r.class = "distribution"
    PROVE  LedgerOk(t)
<1>1. /\ DOMAIN t = DOMAIN s
      /\ x \in DOMAIN s /\ t[x] = r
      /\ \A y \in DOMAIN s : y # x => t[y] = s[y]
  BY DEF Updated
<1>2. \A y \in DOMAIN t : AccountOk(y, t[y])
  BY <1>1 DEF LedgerOk
<1>3. ProposalsOk(t)
  BY <1>1 DEF LedgerOk, ProposalsOk, Exists
<1>4. VotesOk(t)
  BY <1>1 DEF LedgerOk, VotesOk, Exists
<1> QED
  BY <1>2, <1>3, <1>4 DEF LedgerOk

\* What a new proposal leaves.
ProposalAdded(s, t, a, args) ==
    /\ a.ns \in DOMAIN s /\ s[a.ns].class = "namespace"
    /\ a.proposal = ProposalSeeds(a.ns, s[a.ns].proposalNonce)
    /\ a.proposal \notin DOMAIN s
    /\ DOMAIN t = DOMAIN s \cup {a.proposal}
    /\ t[a.ns] = WithNextNonce(s[a.ns])
    /\ t[a.proposal] = NewProposal(a.ns, s[a.ns].proposalNonce,
                                   a.reviewCouncil, args.uri)
    /\ \A y \in DOMAIN s : y # a.ns => t[y] = s[y]
    /\ s[a.ns].proposalNonce \in Nat
    /\ t[a.ns].class = "namespace"
    /\ t[a.ns].proposalNonce = s[a.ns].proposalNonce + 1

LEMMA ProposalMade ==
    ASSUME NEW s, LedgerOk(s), NEW a, NEW args, InitProposalOk(s, a),
           NEW t, t = InitProposal(s, a, args)
    PROVE  ProposalAdded(s, t, a, args)
<1>1. /\ a.ns \in DOMAIN s /\ s[a.ns].class = "namespace"
      /\ a.proposal = ProposalSeeds(a.ns, s[a.ns].proposalNonce)
      /\ a.proposal \notin DOMAIN s
  BY DEF InitProposalOk, HasReviewCouncil, Exists, Free
<1>2. /\ s[a.ns].proposalNonce \in Nat
      /\ DOMAIN s[a.ns] = {"class", "tokenMint", "deployer", "securityCouncil",
                           "reviewCouncil", "proposalNonce"}
  BY <1>1, Fields DEF LedgerOk
<1> DEFINE q == [s EXCEPT ![a.ns].proposalNonce = @ + 1]
<1>3. /\ DOMAIN q = DOMAIN s
      /\ q[a.ns] = WithNextNonce(s[a.ns])
      /\ \A y \in DOMAIN s : y # a.ns => q[y] = s[y]
  BY <1>1 DEF WithNextNonce
<1>4. t = Put(q, a.proposal, NewProposal(a.ns, s[a.ns].proposalNonce,
                                         a.reviewCouncil, args.uri))
  BY DEF InitProposal, NewProposal
<1> HIDE DEF q
<1>5. /\ WithNextNonce(s[a.ns]).class = "namespace"
      /\ WithNextNonce(s[a.ns]).proposalNonce = s[a.ns].proposalNonce + 1
  BY <1>1, <1>2 DEF WithNextNonce
<1> QED
  BY <1>1, <1>2, <1>3, <1>4, <1>5 DEF Put, ProposalAdded

LEMMA ProposalKeepsLedger ==
    ASSUME NEW s, LedgerOk(s), NEW a, NEW args, InitProposalOk(s, a),
           NEW t, t = InitProposal(s, a, args)
    PROVE  LedgerOk(t)
<1> DEFINE ns == a.ns
           p == a.proposal
           n0 == s[ns].proposalNonce
           made == NewProposal(ns, n0, a.reviewCouncil, args.uri)
<1>0. ProposalAdded(s, t, a, args)
  BY ProposalMade
<1>1. /\ ns \in DOMAIN s /\ s[ns].class = "namespace" /\ n0 \in Nat
      /\ p = ProposalSeeds(ns, n0) /\ p \notin DOMAIN s
      /\ DOMAIN t = DOMAIN s \cup {p}
      /\ \A y \in DOMAIN s : y # ns => t[y] = s[y]
      /\ t[ns].class = "namespace" /\ t[ns].proposalNonce = n0 + 1
  BY <1>0 DEF ProposalAdded
<1>2. t[ns] = WithNextNonce(s[ns])
  BY <1>0 DEF ProposalAdded
<1>3. t[p] = made
  BY <1>0 DEF ProposalAdded
<1>4. /\ made.class = "proposal" /\ made.ns = ns /\ made.nonce = n0
      /\ AccountOk(ProposalSeeds(ns, n0), made)
  BY <1>1 DEF AccountOk, NewProposal
<1> HIDE DEF ns, p, n0, made
<1>5. ASSUME NEW y \in DOMAIN t PROVE AccountOk(y, t[y])
  <2>1. AccountOk(ns, s[ns])
    BY <1>1 DEF LedgerOk
  <2>2. AccountOk(ns, t[ns])
    BY <1>1, <1>2, <2>1, UpdatesKeepAccounts
  <2>3. CASE y \in DOMAIN s /\ y # ns
    BY <1>1, <2>3 DEF LedgerOk
  <2> QED
    BY <1>1, <1>3, <1>4, <2>2, <2>3
<1>6. ASSUME NEW y \in DOMAIN t, t[y].class = "namespace",
             NEW n \in 0 .. t[y].proposalNonce - 1
      PROVE  ProposalSeeds(y, n) \in DOMAIN t
  <2>1. CASE y = ns
    <3>1. n \in 0 .. n0 - 1 \/ n = n0
      BY <1>1, <1>6, <2>1
    <3> QED
      BY <1>1, <2>1, <3>1 DEF LedgerOk, ProposalsOk, n0
  <2>2. CASE y # ns
    <3>1. y \in DOMAIN s /\ t[y] = s[y]
      BY <1>1, <1>3, <1>4, <1>6, <2>2
    <3> QED
      BY <1>1, <1>6, <3>1 DEF LedgerOk, ProposalsOk
  <2> QED
    BY <2>1, <2>2
<1>7. ASSUME NEW y \in DOMAIN t, t[y].class = "proposal"
      PROVE  Exists(t, t[y].ns, "namespace") /\ t[y].nonce < t[t[y].ns].proposalNonce
  <2>1. CASE y = p
    BY <1>1, <1>3, <1>4, <2>1 DEF Exists
  <2>2. CASE y # p
    <3>1. y \in DOMAIN s /\ t[y] = s[y]
      BY <1>1, <1>7, <2>2
    <3>2. /\ Exists(s, s[y].ns, "namespace")
          /\ s[y].nonce < s[s[y].ns].proposalNonce
      BY <1>7, <3>1 DEF LedgerOk, ProposalsOk
    <3>3. s[y].nonce \in Nat
      BY <1>7, <3>1, Fields DEF LedgerOk
    <3>4. CASE s[y].ns = ns
      BY <1>1, <3>1, <3>2, <3>3, <3>4 DEF Exists, n0
    <3>5. CASE s[y].ns # ns
      BY <1>1, <3>1, <3>2, <3>5 DEF Exists
    <3> QED
      BY <3>4, <3>5
  <2> QED
    BY <2>1, <2>2
<1>8. VotesOk(t)
  <2> SUFFICES ASSUME NEW y \in DOMAIN t, t[y].class = "voteRecord"
               PROVE  /\ Exists(t, t[y].proposal, "proposal")
                      /\ t[t[y].proposal].votes # 0
                      /\ t[t[y].proposal].uri = t[y].uri
    BY DEF VotesOk
  <2>1. y \in DOMAIN s /\ t[y] = s[y]
    BY <1>1, <1>3, <1>4
  <2> QED
    BY <1>1, <2>1 DEF LedgerOk, VotesOk, Exists
<1>9. ProposalsOk(t)
  BY <1>6, <1>7 DEF ProposalsOk
<1> QED
  BY <1>5, <1>8, <1>9 DEF LedgerOk

\* What a vote leaves.
VoteAdded(s, t, a) ==
    /\ a.proposal \in DOMAIN s /\ s[a.proposal].class = "proposal"
    /\ a.voteRecord = VoteRecordSeeds(a.ns, a.owner, a.proposal)
    /\ a.voteRecord \notin DOMAIN s
    /\ DOMAIN t = DOMAIN s \cup {a.voteRecord}
    /\ t[a.proposal] = WithVote(s[a.proposal])
    /\ t[a.voteRecord] = NewRecord(a.ns, a.owner, a.proposal, s[a.proposal].uri)
    /\ \A y \in DOMAIN s : y # a.proposal => t[y] = s[y]
    /\ s[a.proposal].votes \in Nat
    /\ t[a.proposal].class = "proposal" /\ t[a.proposal].ns = s[a.proposal].ns
    /\ t[a.proposal].nonce = s[a.proposal].nonce
    /\ t[a.proposal].uri = s[a.proposal].uri
    /\ t[a.proposal].votes = s[a.proposal].votes + 1

LEMMA VoteCast ==
    ASSUME NEW s, LedgerOk(s), NEW a, VoteOk(s, a), NEW t, t = Vote(s, a)
    PROVE  VoteAdded(s, t, a)
<1>1. /\ a.proposal \in DOMAIN s /\ s[a.proposal].class = "proposal"
      /\ a.voteRecord = VoteRecordSeeds(a.ns, a.owner, a.proposal)
      /\ a.voteRecord \notin DOMAIN s
  BY DEF VoteOk, OfNs, Exists, Free
<1>2. /\ s[a.proposal].votes \in Nat
      /\ DOMAIN s[a.proposal] = {"class", "ns", "nonce", "owner", "uri", "votes"}
  BY <1>1, Fields DEF LedgerOk
<1> DEFINE q == [s EXCEPT ![a.proposal].votes = @ + 1]
<1>3. /\ DOMAIN q = DOMAIN s
      /\ q[a.proposal] = WithVote(s[a.proposal])
      /\ \A y \in DOMAIN s : y # a.proposal => q[y] = s[y]
  BY <1>1 DEF WithVote
<1>4. t = Put(q, a.voteRecord, NewRecord(a.ns, a.owner, a.proposal, s[a.proposal].uri))
  BY DEF Vote, NewRecord
<1> HIDE DEF q
<1> DEFINE p == WithVote(s[a.proposal])
<1>5. /\ p.class = "proposal" /\ p.ns = s[a.proposal].ns
      /\ p.nonce = s[a.proposal].nonce /\ p.uri = s[a.proposal].uri
      /\ p.votes = s[a.proposal].votes + 1
  BY <1>1, <1>2 DEF WithVote
<1> QED
  BY <1>1, <1>2, <1>3, <1>4, <1>5 DEF Put, VoteAdded

LEMMA VoteKeepsLedger ==
    ASSUME NEW s, LedgerOk(s), NEW a, VoteOk(s, a), NEW t, t = Vote(s, a)
    PROVE  LedgerOk(t)
<1> DEFINE p == a.proposal
           x == a.voteRecord
           cast == NewRecord(a.ns, a.owner, p, s[p].uri)
<1>0. VoteAdded(s, t, a)
  BY VoteCast
<1>1. /\ p \in DOMAIN s /\ s[p].class = "proposal" /\ x \notin DOMAIN s
      /\ DOMAIN t = DOMAIN s \cup {x}
      /\ \A y \in DOMAIN s : y # p => t[y] = s[y]
      /\ s[p].votes \in Nat
      /\ t[p].class = "proposal" /\ t[p].ns = s[p].ns /\ t[p].nonce = s[p].nonce
      /\ t[p].uri = s[p].uri /\ t[p].votes = s[p].votes + 1
  BY <1>0 DEF VoteAdded
<1>2. t[p] = WithVote(s[p])
  BY <1>0 DEF VoteAdded
<1>3. t[x] = cast /\ x = VoteRecordSeeds(a.ns, a.owner, p)
  BY <1>0 DEF VoteAdded
<1>4. /\ cast.class = "voteRecord" /\ cast.proposal = p /\ cast.uri = s[p].uri
      /\ AccountOk(VoteRecordSeeds(a.ns, a.owner, p), cast)
  BY DEF AccountOk, NewRecord
<1> HIDE DEF p, x, cast
<1>5. ASSUME NEW y \in DOMAIN t PROVE AccountOk(y, t[y])
  <2>1. AccountOk(p, s[p])
    BY <1>1 DEF LedgerOk
  <2>2. AccountOk(p, t[p])
    BY <1>1, <1>2, <2>1, UpdatesKeepAccounts
  <2>3. CASE y \in DOMAIN s /\ y # p
    BY <1>1, <2>3 DEF LedgerOk
  <2> QED
    BY <1>1, <1>3, <1>4, <2>2, <2>3
<1>6. ProposalsOk(t)
  BY <1>1, <1>3, <1>4 DEF LedgerOk, ProposalsOk, Exists
<1>7. VotesOk(t)
  BY <1>1, <1>3, <1>4 DEF LedgerOk, VotesOk, Exists
<1> QED
  BY <1>5, <1>6, <1>7 DEF LedgerOk

(***************************************************************************)
(* What each handler leaves                                                *)
(***************************************************************************)
\* A token account that its mint's program made.
Opened(r) == r.class = "token" /\ r.program = MintProgram

\* One account is new, maybe a token account too, and nothing else changes.
Added(s, t, x, r) ==
    /\ \A y \in DOMAIN s : y \in DOMAIN t /\ t[y] = s[y]
    /\ \A y \in DOMAIN t : y \notin DOMAIN s => (y = x /\ t[y] = r) \/ Opened(t[y])

\* At most two accounts are gone, and at most a token account is new.
Removed(s, t, x, z) ==
    /\ \A y \in DOMAIN s : y # x /\ y # z => y \in DOMAIN t /\ t[y] = s[y]
    /\ \A y \in DOMAIN s : y \in DOMAIN t => t[y] = s[y]
    /\ \A y \in DOMAIN t : y \notin DOMAIN s => Opened(t[y])

NewNamespace(a) ==
    [class |-> "namespace", tokenMint |-> a.tokenMint, deployer |-> a.deployer,
     securityCouncil |-> a.securityCouncil, reviewCouncil |-> a.reviewCouncil,
     proposalNonce |-> 0]
NewLockup(ns, owner) == [class |-> "lockup", ns |-> ns, owner |-> owner]
NewDistribution(a, args) ==
    [class |-> "distribution", ns |-> a.ns, uuid |-> a.uuid,
     cosigner1 |-> args.cosigner1, cosigner2 |-> args.cosigner2,
     distributionTokenMint |-> a.distributionTokenMint, startTs |-> 0]
NewClaim(a, args) ==
    [class |-> "distributionClaim", ns |-> a.ns, distribution |-> a.distribution,
     claimant |-> a.claimant, cosignedMsg |-> args.cosignedMsg]

\* Writing a record and then opening a token account.
LEMMA PutAndToken ==
    ASSUME NEW s, LedgerOk(s), NEW x, NEW r, AccountOk(x, r),
           x \in DOMAIN s => s[x] = r,
           x \notin DOMAIN s =>
              r.class \in {"lockup", "distribution", "distributionClaim", "token"},
           NEW z, NEW authority, NEW a, NEW mint,
           AtaOrNewOk(s, z, authority, a, mint),
           NEW t, t = WithToken(Put(s, x, r), z, authority, a, mint)
    PROVE  LedgerOk(t) /\ Added(s, t, x, r)
<1> DEFINE q == Put(s, x, r)
<1>1. LedgerOk(q)
  BY PutKeepsLedger
<1>2. DOMAIN q = DOMAIN s \cup {x} /\ q[x] = r /\ \A y \in DOMAIN s : q[y] = s[y]
  BY DEF Put
<1>3. LedgerOk(t)
  BY <1>1, TokenKeepsLedger DEF AtaOrNewOk
<1> HIDE DEF q
<1>4. \/ t = q
      \/ /\ DOMAIN t = DOMAIN q \cup {z} /\ t[z].class = "token"
         /\ t[z].program = a.tokenProgram
         /\ z \notin DOMAIN q /\ \A y \in DOMAIN q : t[y] = q[y]
  BY DEF WithToken, Put, q
<1>5. z \in DOMAIN s \/ MintProgram = a.tokenProgram
  BY DEF AtaOrNewOk, Exists
<1> QED
  BY <1>2, <1>3, <1>4, <1>5 DEF Added, Opened

LEMMA InitNamespaceStep ==
    ASSUME NEW s, LedgerOk(s), NEW a, InitNamespaceOk(s, a), NEW t, t = InitNamespace(s, a)
    PROVE  LedgerOk(t) /\ Added(s, t, a.ns, NewNamespace(a))
<1> DEFINE r == NewNamespace(a)
<1>1. /\ a.ns = NamespaceSeeds(a.tokenMint, a.deployer) /\ a.ns \notin DOMAIN s
      /\ t = Put(s, a.ns, r)
  BY DEF InitNamespaceOk, InitNamespace, Free, NewNamespace
<1>2. AccountOk(a.ns, r) /\ r.class = "namespace" /\ r.proposalNonce = 0
  BY <1>1 DEF AccountOk, NewNamespace
<1> HIDE DEF r
<1>3. LedgerOk(t)
  BY <1>1, <1>2, PutKeepsLedger
<1>4. Added(s, t, a.ns, r)
  BY <1>1 DEF Added, Put
<1> QED
  BY <1>3, <1>4 DEF r

LEMMA StakeStep ==
    ASSUME NEW s, LedgerOk(s), NEW a, StakeOk(s, a) \/ StakeToOk(s, a),
           NEW t, t = Stake(s, a)
    PROVE  LedgerOk(t) /\ Added(s, t, a.lockup, NewLockup(a.ns, a.owner))
<1> DEFINE r == NewLockup(a.ns, a.owner)
<1>1. /\ a.lockup = LockupSeeds(a.ns, a.owner)
      /\ AtaOrNewOk(s, a.lockupTokenAccount, a.lockup, a, a.tokenMint)
      /\ t = WithToken(Put(s, a.lockup, r), a.lockupTokenAccount, a.lockup, a, a.tokenMint)
  BY DEF StakeOk, StakeToOk, Stake, NewLockup
<1>2. AccountOk(a.lockup, r) /\ r.class = "lockup"
  BY <1>1 DEF AccountOk, NewLockup
<1>3. a.lockup \in DOMAIN s => s[a.lockup] = r
  BY <1>1, LockupAtSeeds DEF LedgerOk, NewLockup
<1> HIDE DEF r
<1>4. LedgerOk(t) /\ Added(s, t, a.lockup, r)
  BY <1>1, <1>2, <1>3, PutAndToken
<1> QED
  BY <1>4 DEF r

LEMMA ClaimStep ==
    ASSUME NEW s, LedgerOk(s), NEW a, NEW args, ClaimOk(s, a, args),
           NEW t, t = Claim(s, a, args)
    PROVE  LedgerOk(t) /\ Added(s, t, a.distributionClaim, NewClaim(a, args))
<1> DEFINE r == NewClaim(a, args)
<1>1. /\ a.distributionClaim = ClaimSeeds(a.ns, args.cosignedMsg)
      /\ a.distributionClaim \notin DOMAIN s
      /\ AtaOrNewOk(s, a.claimantTokenAccount, a.claimant, a, a.distributionTokenMint)
      /\ t = WithToken(Put(s, a.distributionClaim, r), a.claimantTokenAccount,
                       a.claimant, a, a.distributionTokenMint)
  BY DEF ClaimOk, Claim, NewClaim, Free
<1>2. AccountOk(a.distributionClaim, r) /\ r.class = "distributionClaim"
  BY <1>1 DEF AccountOk, NewClaim
<1> HIDE DEF r
<1>3. LedgerOk(t) /\ Added(s, t, a.distributionClaim, r)
  BY <1>1, <1>2, PutAndToken
<1> QED
  BY <1>3 DEF r

LEMMA InitDistributionStep ==
    ASSUME NEW s, LedgerOk(s), NEW a, NEW args, InitDistributionOk(s, a, args),
           NEW t, t = InitDistribution(s, a, args)
    PROVE  LedgerOk(t) /\ Added(s, t, a.distribution, NewDistribution(a, args))
<1> DEFINE r == NewDistribution(a, args)
<1>1. /\ a.distribution = DistributionSeeds(a.ns, args.cosigner1, args.cosigner2, a.uuid)
      /\ a.distribution \notin DOMAIN s
      /\ t = Put(s, a.distribution, r)
  BY DEF InitDistributionOk, InitDistribution, Free, NewDistribution
<1>2. AccountOk(a.distribution, r) /\ r.class = "distribution"
  BY <1>1 DEF AccountOk, NewDistribution
<1> HIDE DEF r
<1>3. LedgerOk(t)
  BY <1>1, <1>2, PutKeepsLedger
<1>4. Added(s, t, a.distribution, r)
  BY <1>1 DEF Added, Put
<1> QED
  BY <1>3, <1>4 DEF r

\* Opening a token account and then closing accounts that are there.
LEMMA TokenAndDrop ==
    ASSUME NEW s, LedgerOk(s), NEW z, NEW authority, NEW a, NEW mint,
           AtaOrNewOk(s, z, authority, a, mint),
           NEW x \in DOMAIN s, NEW y \in DOMAIN s, NEW gone, \A w \in gone : w = x \/ w = y,
           s[x].class \in {"lockup", "token"}, s[y].class \in {"lockup", "token"},
           NEW t, t = Drop(WithToken(s, z, authority, a, mint), gone)
    PROVE  LedgerOk(t) /\ Removed(s, t, x, y)
<1> DEFINE q == WithToken(s, z, authority, a, mint)
<1>1. LedgerOk(q)
  BY TokenKeepsLedger DEF AtaOrNewOk
<1>2. /\ DOMAIN s \subseteq DOMAIN q
      /\ \A w \in DOMAIN s : q[w] = s[w]
      /\ \A w \in DOMAIN q : w \notin DOMAIN s => Opened(q[w])
  BY DEF WithToken, Put, Opened, AtaOrNewOk, Exists
<1> HIDE DEF q
<1>3. \A w \in gone : w \in DOMAIN q => q[w].class \in {"lockup", "token"}
  BY <1>2
<1>4. t = Drop(q, gone)
  BY DEF q
<1>5. LedgerOk(t)
  BY <1>1, <1>3, <1>4, DropKeepsLedger
<1>6. DOMAIN t = DOMAIN q \ gone /\ \A w \in DOMAIN t : t[w] = q[w]
  BY <1>4 DEF Drop
<1> QED
  BY <1>2, <1>5, <1>6 DEF Removed

\* What unstake and withdraw_from_distribution close.
LEMMA UnstakeStep ==
    ASSUME NEW s, LedgerOk(s), NEW a, UnstakeOk(s, a),
           NEW emptied \in BOOLEAN, NEW t, t = Unstake(s, a, emptied)
    PROVE  /\ LedgerOk(t) /\ Removed(s, t, a.lockup, a.lockupTokenAccount)
           /\ a.lockup \in DOMAIN s /\ s[a.lockup].class = "lockup"
           /\ s[a.lockup].owner = a.owner
           /\ a.lockupTokenAccount \in DOMAIN s
           /\ s[a.lockupTokenAccount].class = "token"
           /\ s[a.lockupTokenAccount].authority = a.lockup
<1> DEFINE gone == {a.lockup} \cup (IF emptied THEN {a.lockupTokenAccount} ELSE {})
<1>1. /\ a.lockup \in DOMAIN s /\ s[a.lockup].class = "lockup"
      /\ s[a.lockup].owner = a.owner
      /\ a.lockupTokenAccount \in DOMAIN s
      /\ s[a.lockupTokenAccount].class = "token"
      /\ a.lockupTokenAccount = AssociatedTokenAddress(a.lockup, a.tokenProgram, a.tokenMint)
      /\ AtaOrNewOk(s, a.tokenAccount, a.owner, a, a.tokenMint)
  BY DEF UnstakeOk, OwnersLockup, AtaOk, Exists
<1>2. s[a.lockupTokenAccount].authority = a.lockup
  BY <1>1, TokenAtSeeds DEF LedgerOk
<1>3. \A w \in gone : w = a.lockup \/ w = a.lockupTokenAccount
  OBVIOUS
<1>4. t = Drop(WithToken(s, a.tokenAccount, a.owner, a, a.tokenMint), gone)
  BY DEF Unstake
<1>5. /\ s[a.lockup].class \in {"lockup", "token"}
      /\ s[a.lockupTokenAccount].class \in {"lockup", "token"}
  BY <1>1
<1> DEFINE x == a.lockup
           y == a.lockupTokenAccount
           z == a.tokenAccount
           owner == a.owner
           mint == a.tokenMint
<1>6. /\ x \in DOMAIN s /\ y \in DOMAIN s /\ \A w \in gone : w = x \/ w = y
      /\ s[x].class \in {"lockup", "token"} /\ s[y].class \in {"lockup", "token"}
      /\ AtaOrNewOk(s, z, owner, a, mint)
      /\ t = Drop(WithToken(s, z, owner, a, mint), gone)
  BY <1>1, <1>3, <1>4, <1>5
<1>7. LedgerOk(t) /\ Removed(s, t, x, y)
  <2> HIDE DEF gone, x, y, z, owner, mint
  <2> QED
    BY <1>6, TokenAndDrop
<1> QED
  BY <1>1, <1>2, <1>7

LEMMA WithdrawStep ==
    ASSUME NEW s, LedgerOk(s), NEW a, WithdrawOk(s, a), NEW t, t = Withdraw(s, a)
    PROVE  /\ LedgerOk(t)
           /\ Removed(s, t, a.distributionTokenAccount, a.distributionTokenAccount)
           /\ a.distribution \in DOMAIN s /\ s[a.distribution].class = "distribution"
           /\ s[a.distribution].ns = a.ns
           /\ s[a.ns].securityCouncil = a.securityCouncil
           /\ a.distributionTokenAccount \in DOMAIN s
           /\ s[a.distributionTokenAccount].class = "token"
           /\ s[a.distributionTokenAccount].authority = a.distribution
<1> DEFINE gone == {a.distributionTokenAccount}
<1>1. /\ a.distribution \in DOMAIN s /\ s[a.distribution].class = "distribution"
      /\ s[a.distribution].ns = a.ns
      /\ s[a.ns].securityCouncil = a.securityCouncil
      /\ a.distributionTokenAccount \in DOMAIN s
      /\ s[a.distributionTokenAccount].class = "token"
      /\ s[a.distributionTokenAccount].authority = a.distribution
      /\ AtaOrNewOk(s, a.securityCouncilTokenAccount, a.securityCouncil, a,
                    a.distributionTokenMint)
  BY DEF WithdrawOk, OfNs, DistributionTokensOk, TokenAccountOk, HasSecurityCouncil,
         Exists
<1>2. \A w \in gone : w = a.distributionTokenAccount \/ w = a.distributionTokenAccount
  OBVIOUS
<1>3. t = Drop(WithToken(s, a.securityCouncilTokenAccount, a.securityCouncil, a,
                         a.distributionTokenMint), gone)
  BY DEF Withdraw
<1> HIDE DEF gone
<1>4. /\ LedgerOk(t)
      /\ Removed(s, t, a.distributionTokenAccount, a.distributionTokenAccount)
  BY <1>1, <1>2, <1>3, TokenAndDrop
<1> QED
  BY <1>1, <1>4

\* What the three updates change.
LEMMA UpdateNamespaceStep ==
    ASSUME NEW s, LedgerOk(s), NEW a, NEW args, HasSecurityCouncil(s, a),
           NEW t, t = UpdateNamespace(s, a, args)
    PROVE  /\ LedgerOk(t)
           /\ Updated(s, t, a.ns, WithCouncils(s[a.ns], args.securityCouncil,
                                               args.reviewCouncil))
           /\ s[a.ns].class = "namespace" /\ s[a.ns].securityCouncil = a.securityCouncil
<1> DEFINE r == WithCouncils(s[a.ns], args.securityCouncil, args.reviewCouncil)
<1>1. /\ a.ns \in DOMAIN s /\ s[a.ns].class = "namespace"
      /\ s[a.ns].securityCouncil = a.securityCouncil
  BY DEF HasSecurityCouncil, Exists
<1>2. AccountOk(a.ns, s[a.ns])
  BY <1>1 DEF LedgerOk
<1>3. AccountOk(a.ns, r)
  BY <1>1, <1>2, UpdatesKeepAccounts
<1>4. DOMAIN s[a.ns] = {"class", "tokenMint", "deployer", "securityCouncil",
                        "reviewCouncil", "proposalNonce"}
  BY <1>1, <1>2, Fields
<1>5. r.class = "namespace" /\ r.proposalNonce = s[a.ns].proposalNonce
  BY <1>1, <1>4 DEF WithCouncils
<1>6. t = [s EXCEPT ![a.ns] = r]
  BY DEF UpdateNamespace, WithCouncils
<1> HIDE DEF r
<1>7. Updated(s, t, a.ns, r)
  BY <1>1, <1>6 DEF Updated
<1>8. LedgerOk(t)
  BY <1>1, <1>3, <1>5, <1>7, UpdateKeepsLedger
<1> QED
  BY <1>1, <1>7, <1>8 DEF r

LEMMA UpdateProposalStep ==
    ASSUME NEW s, LedgerOk(s), NEW a, NEW args, UpdateProposalOk(s, a),
           NEW t, t = UpdateProposal(s, a, args)
    PROVE  /\ LedgerOk(t)
           /\ Updated(s, t, a.proposal, WithText(s[a.proposal], args.uri))
           /\ s[a.proposal].class = "proposal" /\ s[a.proposal].ns = a.ns
           /\ s[a.ns].reviewCouncil = a.reviewCouncil
<1> DEFINE p == a.proposal
           r == WithText(s[p], args.uri)
<1>1. /\ p \in DOMAIN s /\ s[p].class = "proposal" /\ s[p].ns = a.ns
      /\ s[p].votes = 0 /\ s[a.ns].reviewCouncil = a.reviewCouncil
  BY DEF UpdateProposalOk, OfNs, CanUpdateProposal, HasReviewCouncil, Exists
<1>2. AccountOk(p, s[p])
  BY <1>1 DEF LedgerOk
<1>3. AccountOk(p, r)
  BY <1>1, <1>2, UpdatesKeepAccounts
<1>4. DOMAIN s[p] = {"class", "ns", "nonce", "owner", "uri", "votes"}
  BY <1>1, <1>2, Fields
<1>5. r.class = "proposal" /\ r.ns = s[p].ns /\ r.nonce = s[p].nonce
  BY <1>1, <1>4 DEF WithText
<1>6. t = [s EXCEPT ![p] = r]
  BY DEF UpdateProposal, WithText
<1> HIDE DEF r, p
<1>7. Updated(s, t, p, r)
  BY <1>1, <1>6 DEF Updated
<1>8. LedgerOk(t)
  BY <1>1, <1>3, <1>5, <1>7, UpdateKeepsLedger
<1> QED
  BY <1>1, <1>7, <1>8 DEF r, p

LEMMA UpdateDistributionStep ==
    ASSUME NEW s, LedgerOk(s), NEW a, NEW args, UpdateDistributionOk(s, a),
           NEW t, t = UpdateDistribution(s, a, args)
    PROVE  /\ LedgerOk(t)
           /\ Updated(s, t, a.distribution, WithStart(s[a.distribution], args.startTs))
           /\ s[a.distribution].class = "distribution" /\ s[a.distribution].ns = a.ns
           /\ s[a.ns].securityCouncil = a.securityCouncil
<1> DEFINE d == a.distribution
           r == WithStart(s[d], args.startTs)
<1>1. /\ d \in DOMAIN s /\ s[d].class = "distribution" /\ s[d].ns = a.ns
      /\ s[a.ns].securityCouncil = a.securityCouncil
  BY DEF UpdateDistributionOk, OfNs, HasSecurityCouncil, Exists
<1>2. AccountOk(d, s[d])
  BY <1>1 DEF LedgerOk
<1>3. AccountOk(d, r)
  BY <1>1, <1>2, UpdatesKeepAccounts
<1>4. r.class = "distribution"
  BY <1>1, <1>2 DEF AccountOk, WithStart
<1>5. t = [s EXCEPT ![d] = r]
  BY DEF UpdateDistribution, WithStart
<1> HIDE DEF r, d
<1>6. Updated(s, t, d, r)
  BY <1>1, <1>5 DEF Updated
<1>7. LedgerOk(t)
  BY <1>1, <1>3, <1>4, <1>6, UpdateKeepsLedger
<1> QED
  BY <1>1, <1>6, <1>7 DEF r, d

(***************************************************************************)
(* The invariant: the ledger is one that the program leaves behind, and    *)
(* what is in flight is for one of the program's instructions.             *)
(***************************************************************************)
Ixs == {"initNamespace", "updateNamespace", "stake", "stakeTo", "unstake",
        "initProposal", "updateProposal", "vote", "initDistribution",
        "updateDistribution", "claimFromDistribution", "withdrawFromDistribution"}

LEMMA IxsAreAll == DOMAIN ProgramAccounts = Ixs
BY DEF ProgramAccounts, Ixs

\* A transaction that lands passed its handler's checks.
Handled(s, t, ix, a, args) ==
    \/ ix = "initNamespace" /\ InitNamespaceOk(s, a) /\ t = InitNamespace(s, a)
    \/ ix = "updateNamespace" /\ HasSecurityCouncil(s, a) /\ t = UpdateNamespace(s, a, args)
    \/ ix = "stake" /\ StakeOk(s, a) /\ t = Stake(s, a)
    \/ ix = "stakeTo" /\ StakeToOk(s, a) /\ t = Stake(s, a)
    \/ ix = "unstake" /\ UnstakeOk(s, a) /\ \E e \in BOOLEAN : t = Unstake(s, a, e)
    \/ ix = "initProposal" /\ InitProposalOk(s, a) /\ t = InitProposal(s, a, args)
    \/ ix = "updateProposal" /\ UpdateProposalOk(s, a) /\ t = UpdateProposal(s, a, args)
    \/ ix = "vote" /\ VoteOk(s, a) /\ t = Vote(s, a)
    \/ ix = "initDistribution" /\ InitDistributionOk(s, a, args)
       /\ t = InitDistribution(s, a, args)
    \/ ix = "updateDistribution" /\ UpdateDistributionOk(s, a)
       /\ t = UpdateDistribution(s, a, args)
    \/ ix = "claimFromDistribution" /\ ClaimOk(s, a, args) /\ t = Claim(s, a, args)
    \/ ix = "withdrawFromDistribution" /\ WithdrawOk(s, a) /\ t = Withdraw(s, a)

LEMMA LandHandles ==
    ASSUME NEW tx, tx.ix \in Ixs, Land(tx)
    PROVE  Handled(store, store', tx.ix, Bound(tx.ix, tx.keys), tx.args)
<1> DEFINE a == Bound(tx.ix, tx.keys)
<1>1. AddressesOk(store, tx.ix, a, tx.args)
  BY DEF Land, Accepted
<1>2. store' \in Results(store, tx.ix, a, tx.args)
  BY DEF Land
<1> HIDE DEF a
<1>3. Handled(store, store', tx.ix, a, tx.args)
  <2>1. CASE tx.ix = "initNamespace"
    BY <1>1, <1>2, <2>1 DEF AddressesOk, Results, Handled
  <2>2. CASE tx.ix = "updateNamespace"
    BY <1>1, <1>2, <2>2 DEF AddressesOk, Results, Handled
  <2>3. CASE tx.ix = "stake"
    BY <1>1, <1>2, <2>3 DEF AddressesOk, Results, Handled
  <2>4. CASE tx.ix = "stakeTo"
    BY <1>1, <1>2, <2>4 DEF AddressesOk, Results, Handled
  <2>5. CASE tx.ix = "unstake"
    BY <1>1, <1>2, <2>5 DEF AddressesOk, Results, Handled
  <2>6. CASE tx.ix = "initProposal"
    BY <1>1, <1>2, <2>6 DEF AddressesOk, Results, Handled
  <2>7. CASE tx.ix = "updateProposal"
    BY <1>1, <1>2, <2>7 DEF AddressesOk, Results, Handled
  <2>8. CASE tx.ix = "vote"
    BY <1>1, <1>2, <2>8 DEF AddressesOk, Results, Handled
  <2>9. CASE tx.ix = "initDistribution"
    BY <1>1, <1>2, <2>9 DEF AddressesOk, Results, Handled
  <2>10. CASE tx.ix = "updateDistribution"
    BY <1>1, <1>2, <2>10 DEF AddressesOk, Results, Handled
  <2>11. CASE tx.ix = "claimFromDistribution"
    BY <1>1, <1>2, <2>11 DEF AddressesOk, Results, Handled
  <2>12. CASE tx.ix = "withdrawFromDistribution"
    BY <1>1, <1>2, <2>12 DEF AddressesOk, Results, Handled
  <2> QED
    BY <2>1, <2>2, <2>3, <2>4, <2>5, <2>6, <2>7, <2>8, <2>9, <2>10, <2>11, <2>12
       DEF Ixs
<1> QED
  BY <1>3 DEF a

LEMMA HandlersKeepLedger ==
    ASSUME NEW s, LedgerOk(s), NEW t, NEW ix, NEW a, NEW args, Handled(s, t, ix, a, args)
    PROVE  LedgerOk(t)
BY InitNamespaceStep, UpdateNamespaceStep, StakeStep, UnstakeStep,
   ProposalKeepsLedger, UpdateProposalStep, VoteKeepsLedger, InitDistributionStep,
   UpdateDistributionStep, ClaimStep, WithdrawStep DEF Handled

TxInv ==
    /\ LedgerOk(store)
    /\ \A tx \in inflight : tx.ix \in Ixs

\* A token account for a distribution.
LEMMA OpenStep ==
    ASSUME LedgerOk(store), NEW x, OpenTokenAccount(x)
    PROVE  LedgerOk(store)' /\ \E y, r : Added(store, store', y, r) /\ Opened(r)
<1> DEFINE y == AssociatedTokenAddress(x, MintProgram, Mint)
           r == [class |-> "token", authority |-> x, mint |-> Mint,
                 program |-> MintProgram]
<1>1. y \notin DOMAIN store /\ store' = Put(store, y, r)
  BY DEF OpenTokenAccount
<1>2. AccountOk(y, r) /\ r.class = "token" /\ Opened(r)
  BY DEF AccountOk, Opened
<1> HIDE DEF y, r
<1>3. LedgerOk(Put(store, y, r))
  BY <1>1, <1>2, PutKeepsLedger
<1>4. Added(store, store', y, r)
  BY <1>1 DEF Added, Put
<1> QED
  BY <1>1, <1>2, <1>3, <1>4

LEMMA InitTxInv == TxInit => TxInv
BY TxAssumption DEF TxInit, TxInv

LEMMA NextTxInv == TxInv /\ [TxNext]_txVars => TxInv'
<1> SUFFICES ASSUME TxInv, [TxNext]_txVars PROVE TxInv'
  OBVIOUS
<1>1. ASSUME NEW tx, tx.ix \in Instructions, NEW tables, Send(tx, tables)
      PROVE  TxInv'
  <2>1. tx.ix \in Ixs
    BY <1>1, TxAssumption, IxsAreAll
  <2>2. Signed(tables, tx, sent + 1).ix = tx.ix
    BY DEF Signed
  <2> QED
    BY <1>1, <2>1, <2>2 DEF Send, TxInv
<1>2. ASSUME NEW tx \in inflight, Land(tx)
      PROVE  TxInv'
  <2>1. Handled(store, store', tx.ix, Bound(tx.ix, tx.keys), tx.args)
    BY <1>2, LandHandles DEF TxInv
  <2>2. LedgerOk(store')
    BY <2>1, HandlersKeepLedger DEF TxInv
  <2> QED
    BY <1>2, <2>2 DEF Land, TxInv
<1>3. ASSUME NEW x, OpenTokenAccount(x)
      PROVE  TxInv'
  BY <1>3, OpenStep DEF OpenTokenAccount, TxInv
<1>4. CASE UNCHANGED txVars
  BY <1>4 DEF txVars, TxInv
<1> QED
  BY <1>1, <1>2, <1>3, <1>4 DEF TxNext

LEMMA TxInvariant == TxSpec => []TxInv
BY InitTxInv, NextTxInv, PTL DEF TxSpec

\* The proposals of a namespace are numbered from zero without a gap, each at
\* the address of its number, however many init_proposals were built from the
\* same nonce.
THEOREM NoncesNameProposals == TxSpec => []NonceNamesProposal
<1>1. ASSUME TxInv, NEW ns \in OfClass(store, "namespace")
      PROVE  /\ {store[x].nonce : x \in In(store, "proposal", ns)}
                    = 0 .. store[ns].proposalNonce - 1
             /\ \A x \in In(store, "proposal", ns) : x = ProposalSeeds(ns, store[x].nonce)
  <2>1. /\ ns \in DOMAIN store /\ store[ns].class = "namespace"
        /\ store[ns].proposalNonce \in Nat
    BY <1>1, Fields DEF OfClass, TxInv, LedgerOk
  <2>2. ASSUME NEW x \in In(store, "proposal", ns)
        PROVE  /\ store[x].nonce \in 0 .. store[ns].proposalNonce - 1
               /\ x = ProposalSeeds(ns, store[x].nonce)
    <3>1. x \in DOMAIN store /\ store[x].class = "proposal" /\ store[x].ns = ns
      BY <2>2 DEF In, OfClass
    <3>2. store[x].nonce \in Nat /\ x = ProposalSeeds(ns, store[x].nonce)
      BY <1>1, <3>1, Fields DEF TxInv, LedgerOk
    <3>3. store[x].nonce < store[ns].proposalNonce
      BY <1>1, <3>1 DEF TxInv, LedgerOk, ProposalsOk
    <3> QED
      BY <2>1, <3>2, <3>3
  <2>3. ASSUME NEW n \in 0 .. store[ns].proposalNonce - 1
        PROVE  \E x \in In(store, "proposal", ns) : store[x].nonce = n
    <3>1. ProposalSeeds(ns, n) \in DOMAIN store
      BY <1>1, <2>1, <2>3 DEF TxInv, LedgerOk, ProposalsOk
    <3>2. /\ store[ProposalSeeds(ns, n)].class = "proposal"
          /\ store[ProposalSeeds(ns, n)].ns = ns /\ store[ProposalSeeds(ns, n)].nonce = n
      BY <1>1, <3>1, ProposalAtSeeds DEF TxInv, LedgerOk
    <3> QED
      BY <3>1, <3>2 DEF In, OfClass
  <2> QED
    BY <2>2, <2>3
<1>2. TxInv => NonceNamesProposal
  BY <1>1 DEF NonceNamesProposal
<1> QED
  BY <1>2, TxInvariant, PTL

\* A vote counts for the text it was cast on for ever: an update that lands
\* after a vote changes nothing.
THEOREM VotedTextsAreFinal == TxSpec => []VotedTextIsFinal
<1>1. TxInv => VotedTextIsFinal
  BY DEF TxInv, LedgerOk, VotesOk, VotedTextIsFinal, OfClass
<1> QED
  BY <1>1, TxInvariant, PTL

(***************************************************************************)
(* What no step does to an account                                         *)
(***************************************************************************)
Keeps(s, t) ==
    \A x \in DOMAIN s :
       IF x \in DOMAIN t
       THEN Identity(t[x]) = Identity(s[x])
            /\ (s[x].class = "proposal" => t[x].votes >= s[x].votes)
       ELSE s[x].class \in {"lockup", "token"}

LEMMA SameKeeps ==
    ASSUME NEW s, LedgerOk(s), NEW x \in DOMAIN s, s[x].class = "proposal"
    PROVE  s[x].votes >= s[x].votes
BY Fields DEF LedgerOk

LEMMA AddedKeeps ==
    ASSUME NEW s, LedgerOk(s), NEW t, NEW x, NEW r, Added(s, t, x, r)
    PROVE  Keeps(s, t)
BY SameKeeps DEF Added, Keeps

LEMMA RemovedKeeps ==
    ASSUME NEW s, LedgerOk(s), NEW t, NEW x, NEW y, Removed(s, t, x, y),
           s[x].class \in {"lockup", "token"}, s[y].class \in {"lockup", "token"}
    PROVE  Keeps(s, t)
BY SameKeeps DEF Removed, Keeps

\* The fields that may change are not what the account is.
LEMMA UpdatesKeepIdentity ==
    ASSUME NEW r, NEW v, NEW w
    PROVE  /\ Identity(WithCouncils(r, v, w)) = Identity(r)
           /\ Identity(WithNextNonce(r)) = Identity(r)
           /\ Identity(WithText(r, v)) = Identity(r)
           /\ Identity(WithVote(r)) = Identity(r)
           /\ Identity(WithStart(r, v)) = Identity(r)
<1>1. Identity(WithCouncils(r, v, w)) = Identity(r)
  BY DEF Identity, WithCouncils
<1>2. Identity(WithNextNonce(r)) = Identity(r)
  BY DEF Identity, WithNextNonce
<1>3. Identity(WithText(r, v)) = Identity(r)
  BY DEF Identity, WithText
<1>4. Identity(WithVote(r)) = Identity(r)
  BY DEF Identity, WithVote
<1>5. Identity(WithStart(r, v)) = Identity(r)
  BY DEF Identity, WithStart
<1> QED
  BY <1>1, <1>2, <1>3, <1>4, <1>5

LEMMA UpdatedKeeps ==
    ASSUME NEW s, LedgerOk(s), NEW t, NEW x, NEW r, Updated(s, t, x, r),
           Identity(r) = Identity(s[x]),
           s[x].class = "proposal" => r.votes >= s[x].votes
    PROVE  Keeps(s, t)
BY SameKeeps DEF Updated, Keeps

LEMMA HandlersKeep ==
    ASSUME NEW s, LedgerOk(s), NEW t, NEW ix, NEW a, NEW args, Handled(s, t, ix, a, args)
    PROVE  Keeps(s, t)
<1>1. CASE InitNamespaceOk(s, a) /\ t = InitNamespace(s, a)
  BY <1>1, InitNamespaceStep, AddedKeeps
<1>2. CASE HasSecurityCouncil(s, a) /\ t = UpdateNamespace(s, a, args)
  BY <1>2, UpdateNamespaceStep, UpdatedKeeps, UpdatesKeepIdentity
<1>3. CASE (StakeOk(s, a) \/ StakeToOk(s, a)) /\ t = Stake(s, a)
  BY <1>3, StakeStep, AddedKeeps
<1>4. CASE UnstakeOk(s, a) /\ \E e \in BOOLEAN : t = Unstake(s, a, e)
  <2>1. PICK e \in BOOLEAN : t = Unstake(s, a, e)
    BY <1>4
  <2>2. /\ Removed(s, t, a.lockup, a.lockupTokenAccount)
        /\ s[a.lockup].class \in {"lockup", "token"}
        /\ s[a.lockupTokenAccount].class \in {"lockup", "token"}
    BY <1>4, <2>1, UnstakeStep
  <2> QED
    BY <2>2, RemovedKeeps
<1>5. CASE InitProposalOk(s, a) /\ t = InitProposal(s, a, args)
  <2>1. ProposalAdded(s, t, a, args)
    BY <1>5, ProposalMade
  <2>2. Identity(t[a.ns]) = Identity(s[a.ns])
    BY <2>1, UpdatesKeepIdentity DEF ProposalAdded
  <2>3. /\ s[a.ns].class = "namespace"
        /\ \A y \in DOMAIN s : y \in DOMAIN t /\ (y # a.ns => t[y] = s[y])
    BY <2>1 DEF ProposalAdded
  <2> QED
    BY <2>2, <2>3, SameKeeps DEF Keeps
<1>6. CASE UpdateProposalOk(s, a) /\ t = UpdateProposal(s, a, args)
  <2>1. Updated(s, t, a.proposal, WithText(s[a.proposal], args.uri))
        /\ s[a.proposal].class = "proposal"
    BY <1>6, UpdateProposalStep
  <2>2. s[a.proposal].votes \in Nat
    BY <2>1, Fields DEF Updated, LedgerOk
  <2>3. WithText(s[a.proposal], args.uri).votes = s[a.proposal].votes
    BY DEF WithText
  <2> QED
    BY <2>1, <2>2, <2>3, UpdatedKeeps, UpdatesKeepIdentity
<1>7. CASE VoteOk(s, a) /\ t = Vote(s, a)
  <2>1. VoteAdded(s, t, a)
    BY <1>7, VoteCast
  <2>2. Identity(t[a.proposal]) = Identity(s[a.proposal])
    BY <2>1, UpdatesKeepIdentity DEF VoteAdded
  <2>3. t[a.proposal].votes >= s[a.proposal].votes
    BY <2>1 DEF VoteAdded
  <2>4. \A y \in DOMAIN s : y \in DOMAIN t /\ (y # a.proposal => t[y] = s[y])
    BY <2>1 DEF VoteAdded
  <2> QED
    BY <2>2, <2>3, <2>4, SameKeeps DEF Keeps
<1>8. CASE InitDistributionOk(s, a, args) /\ t = InitDistribution(s, a, args)
  BY <1>8, InitDistributionStep, AddedKeeps
<1>9. CASE UpdateDistributionOk(s, a) /\ t = UpdateDistribution(s, a, args)
  <2>1. /\ Updated(s, t, a.distribution, WithStart(s[a.distribution], args.startTs))
        /\ s[a.distribution].class = "distribution"
    BY <1>9, UpdateDistributionStep
  <2>2. Identity(WithStart(s[a.distribution], args.startTs)) = Identity(s[a.distribution])
    BY UpdatesKeepIdentity
  <2> QED
    BY <2>1, <2>2, UpdatedKeeps
<1>10. CASE ClaimOk(s, a, args) /\ t = Claim(s, a, args)
  BY <1>10, ClaimStep, AddedKeeps
<1>11. CASE WithdrawOk(s, a) /\ t = Withdraw(s, a)
  BY <1>11, WithdrawStep, RemovedKeeps
<1> QED
  BY <1>1, <1>2, <1>3, <1>4, <1>5, <1>6, <1>7, <1>8, <1>9, <1>10, <1>11 DEF Handled

\* What an account is does not change while it lives, votes only grow in
\* number, and only lockups and token accounts are ever closed.
THEOREM IdentitiesStay == TxSpec => AccountsKeepTheirIdentity
<1>1. ASSUME TxInv, [TxNext]_txVars
      PROVE  Keeps(store, store')
  <2>1. ASSUME store' = store PROVE Keeps(store, store')
    BY <1>1, <2>1, SameKeeps DEF Keeps, TxInv
  <2>2. ASSUME NEW tx \in inflight, Land(tx) PROVE Keeps(store, store')
    <3>1. Handled(store, store', tx.ix, Bound(tx.ix, tx.keys), tx.args)
      BY <1>1, <2>2, LandHandles DEF TxInv
    <3> QED
      BY <1>1, <3>1, HandlersKeep DEF TxInv
  <2>3. ASSUME NEW x, OpenTokenAccount(x) PROVE Keeps(store, store')
    BY <1>1, <2>3, OpenStep, AddedKeeps DEF TxInv
  <2> QED
    BY <1>1, <2>1, <2>2, <2>3 DEF TxNext, Send, txVars
<1>2. TxInv /\ [TxNext]_txVars =>
         [\A x \in DOMAIN store :
             IF x \in DOMAIN store'
             THEN Identity(store'[x]) = Identity(store[x])
                  /\ (store[x].class = "proposal" => store'[x].votes >= store[x].votes)
             ELSE store[x].class \in {"lockup", "token"}]_txVars
  BY <1>1 DEF Keeps
<1> QED
  BY <1>2, TxInvariant, PTL DEF TxSpec, AccountsKeepTheirIdentity

(***************************************************************************)
(* Who signed                                                              *)
(***************************************************************************)
\* The program asks for the signature of the account it calls [name].
Asked(table, name) ==
    /\ \E i \in DOMAIN table : table[i].name = name
    /\ \A i \in DOMAIN table : table[i].name = name => table[i].isSigner

LEMMA AskedHasSigned ==
    ASSUME NEW tx, FlagsOk(tx.ix, tx.keys), NEW name, Asked(ProgramAccounts[tx.ix], name)
    PROVE  SignedBy(tx, Bound(tx.ix, tx.keys)[name])
<1> DEFINE table == ProgramAccounts[tx.ix]
           names == {table[i].name : i \in DOMAIN table}
           j == CHOOSE i \in DOMAIN table : table[i].name = name
<1>1. j \in DOMAIN table /\ table[j].name = name
  BY DEF Asked
<1>2. table[j].isSigner
  BY <1>1 DEF Asked
<1>3. j \in DOMAIN tx.keys /\ tx.keys[j].isSigner
  BY <1>1, <1>2 DEF FlagsOk
<1>4. name \in names
  BY <1>1
<1>5. Positions(table)[name] = j /\ DOMAIN Positions(table) = names
  BY <1>4 DEF Positions
<1>6. Bound(tx.ix, tx.keys) =
          [n \in DOMAIN Positions(table) |-> tx.keys[Positions(table)[n]].address]
  BY DEF Bound
<1> HIDE DEF table, names, j
<1>7. Bound(tx.ix, tx.keys)[name] = tx.keys[j].address
  BY <1>4, <1>5, <1>6
<1> QED
  BY <1>3, <1>7 DEF SignedBy

\* Whose signature each handler asks for.
LEMMA Signatures ==
    /\ Asked(ProgramAccounts["updateNamespace"], "securityCouncil")
    /\ Asked(ProgramAccounts["stake"], "owner")
    /\ Asked(ProgramAccounts["stakeTo"], "securityCouncil")
    /\ Asked(ProgramAccounts["unstake"], "owner")
    /\ Asked(ProgramAccounts["initProposal"], "reviewCouncil")
    /\ Asked(ProgramAccounts["updateProposal"], "reviewCouncil")
    /\ Asked(ProgramAccounts["vote"], "owner")
    /\ Asked(ProgramAccounts["updateDistribution"], "securityCouncil")
    /\ Asked(ProgramAccounts["claimFromDistribution"], "cosigner1")
    /\ Asked(ProgramAccounts["claimFromDistribution"], "cosigner2")
    /\ Asked(ProgramAccounts["withdrawFromDistribution"], "securityCouncil")
<1>1. /\ ProgramAccounts["updateNamespace"] = ProgramUpdateNamespace
      /\ ProgramAccounts["stake"] = ProgramStake
      /\ ProgramAccounts["stakeTo"] = ProgramStakeTo
      /\ ProgramAccounts["unstake"] = ProgramUnstake
      /\ ProgramAccounts["initProposal"] = ProgramInitProposal
      /\ ProgramAccounts["updateProposal"] = ProgramUpdateProposal
      /\ ProgramAccounts["vote"] = ProgramVote
      /\ ProgramAccounts["updateDistribution"] = ProgramUpdateDistribution
      /\ ProgramAccounts["claimFromDistribution"] = ProgramClaimFromDistribution
      /\ ProgramAccounts["withdrawFromDistribution"] = ProgramWithdrawFromDistribution
  BY DEF ProgramAccounts
<1>2. Asked(ProgramUpdateNamespace, "securityCouncil")
  BY DEF Asked, ProgramUpdateNamespace, R, W, S, WS, Meta
<1>3. Asked(ProgramStake, "owner")
  BY DEF Asked, ProgramStake, R, W, S, WS, Meta
<1>4. Asked(ProgramStakeTo, "securityCouncil")
  BY DEF Asked, ProgramStakeTo, R, W, S, WS, Meta
<1>5. Asked(ProgramUnstake, "owner")
  BY DEF Asked, ProgramUnstake, R, W, S, WS, Meta
<1>6. Asked(ProgramInitProposal, "reviewCouncil")
  BY DEF Asked, ProgramInitProposal, R, W, S, WS, Meta
<1>7. Asked(ProgramUpdateProposal, "reviewCouncil")
  BY DEF Asked, ProgramUpdateProposal, R, W, S, WS, Meta
<1>8. Asked(ProgramVote, "owner")
  BY DEF Asked, ProgramVote, R, W, S, WS, Meta
<1>9. Asked(ProgramUpdateDistribution, "securityCouncil")
  BY DEF Asked, ProgramUpdateDistribution, R, W, S, WS, Meta
<1>10. Asked(ProgramClaimFromDistribution, "cosigner1")
  BY DEF Asked, ProgramClaimFromDistribution, R, W, S, WS, Meta
<1>11. Asked(ProgramClaimFromDistribution, "cosigner2")
  BY DEF Asked, ProgramClaimFromDistribution, R, W, S, WS, Meta
<1>12. Asked(ProgramWithdrawFromDistribution, "securityCouncil")
  BY DEF Asked, ProgramWithdrawFromDistribution, R, W, S, WS, Meta
<1> QED
  BY <1>1, <1>2, <1>3, <1>4, <1>5, <1>6, <1>7, <1>8, <1>9, <1>10, <1>11, <1>12

\* What one signed transaction may change, close and create.
ChangeSigned(s, r, q, tx) ==
    CASE r.class = "namespace" ->
            \/ SignedBy(tx, r.securityCouncil)
            \/ SignedBy(tx, r.reviewCouncil) /\ q = WithNextNonce(r)
      [] r.class = "proposal" ->
            \/ SignedBy(tx, s[r.ns].reviewCouncil)
            \/ q.votes = r.votes + 1 /\ q.uri = r.uri
      [] r.class = "distribution" -> SignedBy(tx, s[r.ns].securityCouncil)
      [] OTHER -> FALSE

GoneSigned(s, r, tx) ==
    IF r.class = "lockup" THEN SignedBy(tx, r.owner)
    ELSE /\ r.class = "token"
         /\ r.authority \in DOMAIN s
         /\ IF s[r.authority].class = "lockup"
            THEN SignedBy(tx, s[r.authority].owner)
            ELSE SignedBy(tx, s[s[r.authority].ns].securityCouncil)

NewSigned(s, r, tx) ==
    /\ r.class = "voteRecord" => SignedBy(tx, r.owner)
    /\ r.class = "lockup" =>
          SignedBy(tx, r.owner) \/ SignedBy(tx, s[r.ns].securityCouncil)
    /\ r.class = "distributionClaim" =>
          /\ SignedBy(tx, s[r.distribution].cosigner1)
          /\ SignedBy(tx, s[r.distribution].cosigner2)

Acts(s, t, tx) ==
    /\ \A x \in DOMAIN s \cap DOMAIN t : t[x] # s[x] => ChangeSigned(s, s[x], t[x], tx)
    /\ \A x \in DOMAIN s \ DOMAIN t : GoneSigned(s, s[x], tx)
    /\ \A x \in DOMAIN t \ DOMAIN s : NewSigned(s, t[x], tx)

LEMMA NewTokenSigned ==
    ASSUME NEW s, NEW r, r.class = "token", NEW tx
    PROVE  NewSigned(s, r, tx)
BY DEF NewSigned

LEMMA AddedActs ==
    ASSUME NEW s, NEW t, NEW x, NEW r, NEW tx, Added(s, t, x, r), NewSigned(s, r, tx)
    PROVE  Acts(s, t, tx)
BY NewTokenSigned DEF Added, Opened, Acts

LEMMA UpdatedActs ==
    ASSUME NEW s, NEW t, NEW x, NEW r, NEW tx, Updated(s, t, x, r),
           ChangeSigned(s, s[x], r, tx)
    PROVE  Acts(s, t, tx)
BY DEF Updated, Acts

LEMMA RemovedActs ==
    ASSUME NEW s, NEW t, NEW x, NEW y, NEW tx, Removed(s, t, x, y),
           GoneSigned(s, s[x], tx), GoneSigned(s, s[y], tx)
    PROVE  Acts(s, t, tx)
BY NewTokenSigned DEF Removed, Opened, Acts

LEMMA HandlersAct ==
    ASSUME NEW s, LedgerOk(s), NEW t, NEW tx, FlagsOk(tx.ix, tx.keys),
           NEW a, a = Bound(tx.ix, tx.keys), Handled(s, t, tx.ix, a, tx.args)
    PROVE  Acts(s, t, tx)
<1> DEFINE args == tx.args
<1>0. \A name : Asked(ProgramAccounts[tx.ix], name) => SignedBy(tx, a[name])
  BY AskedHasSigned
<1>1. CASE InitNamespaceOk(s, a) /\ t = InitNamespace(s, a)
  <2>1. Added(s, t, a.ns, NewNamespace(a))
    BY <1>1, InitNamespaceStep
  <2>2. NewSigned(s, NewNamespace(a), tx)
    BY DEF NewSigned, NewNamespace
  <2> QED
    BY <2>1, <2>2, AddedActs
<1>2. CASE tx.ix = "updateNamespace" /\ HasSecurityCouncil(s, a)
           /\ t = UpdateNamespace(s, a, args)
  <2> DEFINE r == WithCouncils(s[a.ns], args.securityCouncil, args.reviewCouncil)
  <2>1. Updated(s, t, a.ns, r) /\ s[a.ns].class = "namespace"
        /\ s[a.ns].securityCouncil = a.securityCouncil
    BY <1>2, UpdateNamespaceStep
  <2>2. SignedBy(tx, a.securityCouncil)
    BY <1>0, <1>2, Signatures
  <2> HIDE DEF r
  <2>3. ChangeSigned(s, s[a.ns], r, tx)
    BY <2>1, <2>2 DEF ChangeSigned
  <2> QED
    BY <2>1, <2>3, UpdatedActs
<1>3. CASE \/ tx.ix = "stake" /\ StakeOk(s, a) /\ t = Stake(s, a)
           \/ tx.ix = "stakeTo" /\ StakeToOk(s, a) /\ t = Stake(s, a)
  <2>1. Added(s, t, a.lockup, NewLockup(a.ns, a.owner))
    BY <1>3, StakeStep
  <2>2. tx.ix = "stake" => SignedBy(tx, a.owner)
    BY <1>0, Signatures
  <2>3. tx.ix = "stakeTo" /\ StakeToOk(s, a) => SignedBy(tx, s[a.ns].securityCouncil)
    BY <1>0, Signatures DEF StakeToOk, HasSecurityCouncil
  <2>4. NewSigned(s, NewLockup(a.ns, a.owner), tx)
    BY <1>3, <2>2, <2>3 DEF NewSigned, NewLockup
  <2> QED
    BY <2>1, <2>4, AddedActs
<1>4. CASE tx.ix = "unstake" /\ UnstakeOk(s, a) /\ \E e \in BOOLEAN : t = Unstake(s, a, e)
  <2>1. PICK e \in BOOLEAN : t = Unstake(s, a, e)
    BY <1>4
  <2>2. /\ Removed(s, t, a.lockup, a.lockupTokenAccount)
        /\ a.lockup \in DOMAIN s /\ s[a.lockup].class = "lockup"
        /\ s[a.lockup].owner = a.owner
        /\ s[a.lockupTokenAccount].class = "token"
        /\ s[a.lockupTokenAccount].authority = a.lockup
    BY <1>4, <2>1, UnstakeStep
  <2>3. SignedBy(tx, a.owner)
    BY <1>0, <1>4, Signatures
  <2>4. GoneSigned(s, s[a.lockup], tx) /\ GoneSigned(s, s[a.lockupTokenAccount], tx)
    BY <2>2, <2>3 DEF GoneSigned
  <2> QED
    BY <2>2, <2>4, RemovedActs
<1>5. CASE tx.ix = "initProposal" /\ InitProposalOk(s, a) /\ t = InitProposal(s, a, args)
  <2>1. ProposalAdded(s, t, a, args)
    BY <1>5, ProposalMade
  <2>2. SignedBy(tx, a.reviewCouncil) /\ s[a.ns].reviewCouncil = a.reviewCouncil
    BY <1>0, <1>5, Signatures DEF InitProposalOk, HasReviewCouncil
  <2>3. ChangeSigned(s, s[a.ns], t[a.ns], tx)
    BY <2>1, <2>2 DEF ChangeSigned, ProposalAdded
  <2>4. NewSigned(s, t[a.proposal], tx)
    BY <2>1 DEF NewSigned, NewProposal, ProposalAdded
  <2>5. /\ DOMAIN t = DOMAIN s \cup {a.proposal}
        /\ \A y \in DOMAIN s : y # a.ns => t[y] = s[y]
    BY <2>1 DEF ProposalAdded
  <2> QED
    BY <2>3, <2>4, <2>5 DEF Acts
<1>6. CASE tx.ix = "updateProposal" /\ UpdateProposalOk(s, a)
           /\ t = UpdateProposal(s, a, args)
  <2> DEFINE r == WithText(s[a.proposal], args.uri)
  <2>1. /\ Updated(s, t, a.proposal, r) /\ s[a.proposal].class = "proposal"
        /\ s[a.proposal].ns = a.ns /\ s[a.ns].reviewCouncil = a.reviewCouncil
    BY <1>6, UpdateProposalStep
  <2>2. SignedBy(tx, a.reviewCouncil)
    BY <1>0, <1>6, Signatures
  <2> HIDE DEF r
  <2>3. ChangeSigned(s, s[a.proposal], r, tx)
    BY <2>1, <2>2 DEF ChangeSigned
  <2> QED
    BY <2>1, <2>3, UpdatedActs
<1>7. CASE tx.ix = "vote" /\ VoteOk(s, a) /\ t = Vote(s, a)
  <2>1. VoteAdded(s, t, a)
    BY <1>7, VoteCast
  <2>2. SignedBy(tx, a.owner)
    BY <1>0, <1>7, Signatures
  <2>3. ChangeSigned(s, s[a.proposal], t[a.proposal], tx)
    BY <2>1 DEF ChangeSigned, VoteAdded
  <2>4. NewSigned(s, t[a.voteRecord], tx)
    BY <2>1, <2>2 DEF NewSigned, NewRecord, VoteAdded
  <2>5. /\ DOMAIN t = DOMAIN s \cup {a.voteRecord}
        /\ \A y \in DOMAIN s : y # a.proposal => t[y] = s[y]
    BY <2>1 DEF VoteAdded
  <2> QED
    BY <2>3, <2>4, <2>5 DEF Acts
<1>8. CASE InitDistributionOk(s, a, args) /\ t = InitDistribution(s, a, args)
  <2>1. Added(s, t, a.distribution, NewDistribution(a, args))
    BY <1>8, InitDistributionStep
  <2>2. NewSigned(s, NewDistribution(a, args), tx)
    BY DEF NewSigned, NewDistribution
  <2> QED
    BY <2>1, <2>2, AddedActs
<1>9. CASE tx.ix = "updateDistribution" /\ UpdateDistributionOk(s, a)
           /\ t = UpdateDistribution(s, a, args)
  <2> DEFINE r == WithStart(s[a.distribution], args.startTs)
  <2>1. /\ Updated(s, t, a.distribution, r) /\ s[a.distribution].class = "distribution"
        /\ s[a.distribution].ns = a.ns /\ s[a.ns].securityCouncil = a.securityCouncil
    BY <1>9, UpdateDistributionStep
  <2>2. SignedBy(tx, a.securityCouncil)
    BY <1>0, <1>9, Signatures
  <2> HIDE DEF r
  <2>3. ChangeSigned(s, s[a.distribution], r, tx)
    BY <2>1, <2>2 DEF ChangeSigned
  <2> QED
    BY <2>1, <2>3, UpdatedActs
<1>10. CASE tx.ix = "claimFromDistribution" /\ ClaimOk(s, a, args) /\ t = Claim(s, a, args)
  <2>1. Added(s, t, a.distributionClaim, NewClaim(a, args))
    BY <1>10, ClaimStep
  <2>2. /\ s[a.distribution].cosigner1 = a.cosigner1
        /\ s[a.distribution].cosigner2 = a.cosigner2
    BY <1>10 DEF ClaimOk
  <2>3. SignedBy(tx, a.cosigner1) /\ SignedBy(tx, a.cosigner2)
    BY <1>0, <1>10, Signatures
  <2>4. NewSigned(s, NewClaim(a, args), tx)
    BY <2>2, <2>3 DEF NewSigned, NewClaim
  <2> QED
    BY <2>1, <2>4, AddedActs
<1>11. CASE tx.ix = "withdrawFromDistribution" /\ WithdrawOk(s, a) /\ t = Withdraw(s, a)
  <2> DEFINE x == a.distributionTokenAccount
  <2>1. /\ Removed(s, t, x, x)
        /\ a.distribution \in DOMAIN s /\ s[a.distribution].class = "distribution"
        /\ s[a.distribution].ns = a.ns
        /\ s[a.ns].securityCouncil = a.securityCouncil
        /\ s[x].class = "token" /\ s[x].authority = a.distribution
    BY <1>11, WithdrawStep
  <2>2. SignedBy(tx, a.securityCouncil)
    BY <1>0, <1>11, Signatures
  <2> HIDE DEF x
  <2>3. GoneSigned(s, s[x], tx)
    BY <2>1, <2>2 DEF GoneSigned
  <2> QED
    BY <2>1, <2>3, RemovedActs
<1> HIDE DEF args
<1>12. Handled(s, t, tx.ix, a, args)
  BY DEF args
<1> QED
  BY <1>12, <1>1, <1>2, <1>3, <1>4, <1>5, <1>6, <1>7, <1>8, <1>9, <1>10, <1>11 DEF Handled

LEMMA LandActs ==
    ASSUME NEW tx \in inflight, tx \notin inflight', Acts(store, store', tx)
    PROVE  StepIsSigned
<1>0. \A key : SignedBy(tx, key) => Landed(key)
  BY DEF Landed
<1>1. ASSUME NEW x \in DOMAIN store \cap DOMAIN store', store'[x] # store[x]
      PROVE  CASE store[x].class = "namespace" ->
                     \/ Landed(store[x].securityCouncil)
                     \/ /\ Landed(store[x].reviewCouncil)
                        /\ store'[x] = [store[x] EXCEPT !.proposalNonce = @ + 1]
               [] store[x].class = "proposal" ->
                     \/ Landed(store[store[x].ns].reviewCouncil)
                     \/ store'[x].votes = store[x].votes + 1
                        /\ store'[x].uri = store[x].uri
               [] store[x].class = "distribution" ->
                     Landed(store[store[x].ns].securityCouncil)
               [] OTHER -> FALSE
  <2>1. ChangeSigned(store, store[x], store'[x], tx)
    BY <1>1 DEF Acts
  <2> QED
    BY <1>0, <2>1 DEF ChangeSigned, WithNextNonce
<1>2. ASSUME NEW x \in DOMAIN store \ DOMAIN store'
      PROVE  IF store[x].class = "lockup" THEN Landed(store[x].owner)
             ELSE /\ store[x].class = "token"
                  /\ store[x].authority \in DOMAIN store
                  /\ IF store[store[x].authority].class = "lockup"
                     THEN Landed(store[store[x].authority].owner)
                     ELSE Landed(store[store[store[x].authority].ns].securityCouncil)
  <2>1. GoneSigned(store, store[x], tx)
    BY <1>2 DEF Acts
  <2> QED
    BY <1>0, <2>1 DEF GoneSigned
<1>3. ASSUME NEW x \in DOMAIN store' \ DOMAIN store
      PROVE  /\ store'[x].class = "voteRecord" => Landed(store'[x].owner)
             /\ store'[x].class = "lockup" =>
                   \/ Landed(store'[x].owner)
                   \/ Landed(store[store'[x].ns].securityCouncil)
             /\ store'[x].class = "distributionClaim" =>
                   /\ Landed(store[store'[x].distribution].cosigner1)
                   /\ Landed(store[store'[x].distribution].cosigner2)
  <2>1. NewSigned(store, store'[x], tx)
    BY <1>3 DEF Acts
  <2> QED
    BY <1>0, <2>1 DEF NewSigned
<1> QED
  BY <1>1, <1>2, <1>3 DEF StepIsSigned

\* Every change, closure and creation that matters to a council or a holder
\* is by a transaction that the council in force or the holder signed, for
\* any transactions in flight and in any order.
THEOREM EveryActIsSigned == TxSpec => ActsAreSigned
<1>1. ASSUME TxInv, TxNext PROVE StepIsSigned \/ store' = store
  <2>1. ASSUME NEW tx \in inflight, Land(tx) PROVE StepIsSigned
    <3>1. Handled(store, store', tx.ix, Bound(tx.ix, tx.keys), tx.args)
      BY <1>1, <2>1, LandHandles DEF TxInv
    <3>2. FlagsOk(tx.ix, tx.keys) /\ inflight' = inflight \ {tx}
      BY <2>1 DEF Land, Accepted
    <3>3. Acts(store, store', tx)
      BY <1>1, <3>1, <3>2, HandlersAct DEF TxInv
    <3> QED
      BY <3>2, <3>3, LandActs
  <2>2. ASSUME NEW x, OpenTokenAccount(x) PROVE StepIsSigned
    BY <1>1, <2>2, OpenStep DEF TxInv, Added, Opened, StepIsSigned
  <2> QED
    BY <1>1, <2>1, <2>2 DEF TxNext, Send
<1>2. store' = store => StepIsSigned
  BY DEF StepIsSigned
<1>3. TxInv /\ [TxNext]_txVars => [StepIsSigned]_txVars
  BY <1>1, <1>2
<1> QED
  BY <1>3, TxInvariant, PTL DEF TxSpec, ActsAreSigned

(***************************************************************************)
(* The three descriptions of the interface                                 *)
(***************************************************************************)
\* The generated client and the IDL list accounts as the program does.
LEMMA TablesAgree == ClientAccounts = ProgramAccounts /\ IdlAccounts = ProgramAccounts
<1>1. /\ ClientInitNamespace = ProgramInitNamespace
      /\ IdlInitNamespace = ProgramInitNamespace
  BY DEF ProgramInitNamespace, ClientInitNamespace, IdlInitNamespace
<1>2. /\ ClientUpdateNamespace = ProgramUpdateNamespace
      /\ IdlUpdateNamespace = ProgramUpdateNamespace
  BY DEF ProgramUpdateNamespace, ClientUpdateNamespace, IdlUpdateNamespace
<1>3. ClientStake = ProgramStake /\ IdlStake = ProgramStake
  BY DEF ProgramStake, ClientStake, IdlStake
<1>4. ClientStakeTo = ProgramStakeTo /\ IdlStakeTo = ProgramStakeTo
  BY DEF ProgramStakeTo, ClientStakeTo, IdlStakeTo
<1>5. ClientUnstake = ProgramUnstake /\ IdlUnstake = ProgramUnstake
  BY DEF ProgramUnstake, ClientUnstake, IdlUnstake
<1>6. /\ ClientInitProposal = ProgramInitProposal
      /\ IdlInitProposal = ProgramInitProposal
  BY DEF ProgramInitProposal, ClientInitProposal, IdlInitProposal
<1>7. /\ ClientUpdateProposal = ProgramUpdateProposal
      /\ IdlUpdateProposal = ProgramUpdateProposal
  BY DEF ProgramUpdateProposal, ClientUpdateProposal, IdlUpdateProposal
<1>8. ClientVote = ProgramVote /\ IdlVote = ProgramVote
  BY DEF ProgramVote, ClientVote, IdlVote
<1>9. /\ ClientInitDistribution = ProgramInitDistribution
      /\ IdlInitDistribution = ProgramInitDistribution
  BY DEF ProgramInitDistribution, ClientInitDistribution, IdlInitDistribution
<1>10. /\ ClientUpdateDistribution = ProgramUpdateDistribution
       /\ IdlUpdateDistribution = ProgramUpdateDistribution
  BY DEF ProgramUpdateDistribution, ClientUpdateDistribution,
         IdlUpdateDistribution
<1>11. /\ ClientClaimFromDistribution = ProgramClaimFromDistribution
       /\ IdlClaimFromDistribution = ProgramClaimFromDistribution
  BY DEF ProgramClaimFromDistribution, ClientClaimFromDistribution,
         IdlClaimFromDistribution
<1>12. /\ ClientWithdrawFromDistribution = ProgramWithdrawFromDistribution
       /\ IdlWithdrawFromDistribution = ProgramWithdrawFromDistribution
  BY DEF ProgramWithdrawFromDistribution, ClientWithdrawFromDistribution,
         IdlWithdrawFromDistribution
<1> QED
  BY <1>1, <1>2, <1>3, <1>4, <1>5, <1>6,
     <1>7, <1>8, <1>9, <1>10, <1>11, <1>12
     DEF ProgramAccounts, ClientAccounts, IdlAccounts

\* The names of a table.
Names(table) == {table[i].name : i \in DOMAIN table}

\* The builder names every account that the program asks for, and no other.
Complete(tx) ==
    tx.ix \in Ixs /\ tx.accounts = [n \in Names(ProgramAccounts[tx.ix]) |-> tx.accounts[n]]

LEMMA BuildersComplete ==
    ASSUME NEW sdk, NEW args, NEW u, NEW v, NEW w, NEW n, NEW x, NEW y, NEW c, NEW m
    PROVE  /\ Complete(TxInitNamespace(sdk))
           /\ Complete(TxUpdateNamespace(sdk, args))
           /\ Complete(TxStake(sdk, u))
           /\ Complete(TxStakeTo(sdk, u))
           /\ Complete(TxUnstake(sdk, u))
           /\ Complete(TxInitProposal(sdk, u, n, args))
           /\ Complete(TxUpdateProposal(sdk, u, x, args))
           /\ Complete(TxVote(sdk, u, x, args))
           /\ Complete(TxInitDistribution(sdk, u, n, v, w))
           /\ Complete(TxUpdateDistribution(sdk, x, args))
           /\ Complete(TxClaimFromDistribution(sdk, u, x, y, c, v, m))
           /\ Complete(TxWithdrawFromDistribution(sdk, x, y))
<1>1. Complete(TxInitNamespace(sdk))
  <2>1. ProgramAccounts["initNamespace"] = ProgramInitNamespace
    BY DEF ProgramAccounts
  <2> QED
    BY <2>1 DEF Complete, Ixs, Names, NewTx, TxInitNamespace,
                ProgramInitNamespace, R, W, S, WS, Meta
<1>2. Complete(TxUpdateNamespace(sdk, args))
  <2>1. ProgramAccounts["updateNamespace"] = ProgramUpdateNamespace
    BY DEF ProgramAccounts
  <2> QED
    BY <2>1 DEF Complete, Ixs, Names, NewTx, TxUpdateNamespace,
                ProgramUpdateNamespace, R, W, S, WS, Meta
<1>3. Complete(TxStake(sdk, u))
  <2>1. ProgramAccounts["stake"] = ProgramStake
    BY DEF ProgramAccounts
  <2>2. Names(ProgramStake) =
           {"owner", "tokenMint", "tokenAccount", "lockup",
            "lockupTokenAccount", "ns", "tokenProgram", "systemProgram",
            "associatedTokenProgram"}
    BY DEF Names, ProgramStake, R, W, S, WS, Meta
  <2> QED
    BY <2>1, <2>2 DEF Complete, Ixs, NewTx, TxStake, LockupAccounts
<1>4. Complete(TxStakeTo(sdk, u))
  <2>1. ProgramAccounts["stakeTo"] = ProgramStakeTo
    BY DEF ProgramAccounts
  <2>2. Names(ProgramStakeTo) =
           {"securityCouncil", "owner", "tokenMint", "tokenAccount",
            "lockup", "lockupTokenAccount", "ns", "tokenProgram",
            "systemProgram", "associatedTokenProgram"}
    BY DEF Names, ProgramStakeTo, R, W, S, WS, Meta
  <2> QED
    BY <2>1, <2>2 DEF Complete, Ixs, NewTx, TxStakeTo
<1>5. Complete(TxUnstake(sdk, u))
  <2>1. ProgramAccounts["unstake"] = ProgramUnstake
    BY DEF ProgramAccounts
  <2>2. Names(ProgramUnstake) =
           {"owner", "tokenMint", "tokenAccount", "lockup",
            "lockupTokenAccount", "ns", "tokenProgram", "systemProgram",
            "associatedTokenProgram"}
    BY DEF Names, ProgramUnstake, R, W, S, WS, Meta
  <2> QED
    BY <2>1, <2>2 DEF Complete, Ixs, NewTx, TxUnstake, LockupAccounts
<1>6. Complete(TxInitProposal(sdk, u, n, args))
  <2>1. ProgramAccounts["initProposal"] = ProgramInitProposal
    BY DEF ProgramAccounts
  <2> QED
    BY <2>1 DEF Complete, Ixs, Names, NewTx, TxInitProposal,
                ProgramInitProposal, R, W, S, WS, Meta
<1>7. Complete(TxUpdateProposal(sdk, u, x, args))
  <2>1. ProgramAccounts["updateProposal"] = ProgramUpdateProposal
    BY DEF ProgramAccounts
  <2> QED
    BY <2>1 DEF Complete, Ixs, Names, NewTx, TxUpdateProposal,
                ProgramUpdateProposal, R, W, S, WS, Meta
<1>8. Complete(TxVote(sdk, u, x, args))
  <2>1. ProgramAccounts["vote"] = ProgramVote
    BY DEF ProgramAccounts
  <2> QED
    BY <2>1 DEF Complete, Ixs, Names, NewTx, TxVote,
                ProgramVote, R, W, S, WS, Meta
<1>9. Complete(TxInitDistribution(sdk, u, n, v, w))
  <2>1. ProgramAccounts["initDistribution"] = ProgramInitDistribution
    BY DEF ProgramAccounts
  <2> QED
    BY <2>1 DEF Complete, Ixs, Names, NewTx, TxInitDistribution,
                ProgramInitDistribution, R, W, S, WS, Meta
<1>10. Complete(TxUpdateDistribution(sdk, x, args))
  <2>1. ProgramAccounts["updateDistribution"] = ProgramUpdateDistribution
    BY DEF ProgramAccounts
  <2> QED
    BY <2>1 DEF Complete, Ixs, Names, NewTx, TxUpdateDistribution,
                ProgramUpdateDistribution, R, W, S, WS, Meta
<1>11. Complete(TxClaimFromDistribution(sdk, u, x, y, c, v, m))
  <2>1. ProgramAccounts["claimFromDistribution"] = ProgramClaimFromDistribution
    BY DEF ProgramAccounts
  <2>2. Names(ProgramClaimFromDistribution) =
           {"payer", "claimant", "cosigner1", "cosigner2", "distributionClaim",
            "distribution", "distributionTokenMint", "distributionTokenAccount",
            "claimantTokenAccount", "ns", "tokenProgram", "systemProgram",
            "associatedTokenProgram"}
    BY DEF Names, ProgramClaimFromDistribution, R, W, S, WS, Meta
  <2> QED
    BY <2>1, <2>2 DEF Complete, Ixs, NewTx, TxClaimFromDistribution
<1>12. Complete(TxWithdrawFromDistribution(sdk, x, y))
  <2>1. ProgramAccounts["withdrawFromDistribution"] = ProgramWithdrawFromDistribution
    BY DEF ProgramAccounts
  <2>2. Names(ProgramWithdrawFromDistribution) =
           {"securityCouncil", "distribution", "distributionTokenMint",
            "distributionTokenAccount", "securityCouncilTokenAccount",
            "ns", "tokenProgram", "systemProgram", "associatedTokenProgram"}
    BY DEF Names, ProgramWithdrawFromDistribution, R, W, S, WS, Meta
  <2> QED
    BY <2>1, <2>2 DEF Complete, Ixs, NewTx, TxWithdrawFromDistribution
<1> QED
  BY <1>1, <1>2, <1>3, <1>4, <1>5, <1>6,
     <1>7, <1>8, <1>9, <1>10, <1>11, <1>12

\* What is built lists its keys so that the program finds what was meant.
KeysOk(tx) == FlagsOk(tx.ix, tx.keys) /\ Bound(tx.ix, tx.keys) = tx.accounts

LEMMA SignedKeysOk ==
    ASSUME NEW tables \in Tables, NEW tx, Complete(tx), NEW id
    PROVE  KeysOk(Signed(tables, tx, id))
<1> DEFINE table == ProgramAccounts[tx.ix]
           keys == [i \in DOMAIN table |->
                       [address |-> tx.accounts[table[i].name],
                        isSigner |-> table[i].isSigner,
                        isWritable |-> table[i].isWritable]]
<1>1. tables = ProgramAccounts
  BY TablesAgree DEF Tables
<1>2. LET s == Signed(tables, tx, id)
      IN  s.ix = tx.ix /\ s.accounts = tx.accounts /\ s.keys = keys
  BY <1>1 DEF Signed
<1>3. FlagsOk(tx.ix, keys)
  BY DEF FlagsOk
<1>4. Bound(tx.ix, keys) = [n \in Names(table) |-> tx.accounts[n]]
  <2> DEFINE at(n) == CHOOSE i \in DOMAIN table : table[i].name = n
  <2>1. ASSUME NEW n \in Names(table)
        PROVE  at(n) \in DOMAIN table /\ table[at(n)].name = n
    BY <2>1 DEF Names
  <2>2. Positions(table) = [n \in Names(table) |-> at(n)]
    BY DEF Positions, Names
  <2> HIDE DEF at
  <2>3. ASSUME NEW n \in Names(table)
        PROVE  keys[Positions(table)[n]].address = tx.accounts[n]
    BY <2>1, <2>2, <2>3
  <2>4. DOMAIN Positions(table) = Names(table)
    BY <2>2
  <2>5. Bound(tx.ix, keys) =
            [n \in DOMAIN Positions(table) |-> keys[Positions(table)[n]].address]
    BY DEF Bound
  <2> HIDE DEF table, keys
  <2> QED
    BY <2>3, <2>4, <2>5
<1> QED
  BY <1>2, <1>3, <1>4 DEF KeysOk, Complete

\* Whatever is in flight, by the generated client's tables or the IDL's, the
\* program finds each account under the client's own name for it.
THEOREM KeysAlwaysBind == TxSpec => []KeysBindAsMeant
<1>1. ASSUME NEW sdk, NEW id, NEW tx \in Buildable(store, sdk, id)
      PROVE  Complete(tx)
  <2>1. \/ tx = TxInitNamespace(sdk)
        \/ \E args : tx = TxUpdateNamespace(sdk, args)
        \/ \E u : tx \in {TxStake(sdk, u), TxStakeTo(sdk, u), TxUnstake(sdk, u)}
        \/ \E u, n, args : tx = TxInitProposal(sdk, u, n, args)
        \/ \E u, x, args : tx = TxUpdateProposal(sdk, u, x, args)
        \/ \E u, x, args : tx = TxVote(sdk, u, x, args)
        \/ \E u, n, v, w : tx = TxInitDistribution(sdk, u, n, v, w)
        \/ \E x, args : tx = TxUpdateDistribution(sdk, x, args)
        \/ \E x, y : tx = TxWithdrawFromDistribution(sdk, x, y)
        \/ \E u, x, y, c, v, m : tx = TxClaimFromDistribution(sdk, u, x, y, c, v, m)
    BY <1>1 DEF Buildable
  <2> QED
    BY <2>1, BuildersComplete
<1>2. TxInit => KeysBindAsMeant
  BY DEF TxInit, KeysBindAsMeant
<1>3. KeysBindAsMeant /\ [TxNext]_txVars => KeysBindAsMeant'
  <2> SUFFICES ASSUME KeysBindAsMeant, [TxNext]_txVars, NEW tx \in inflight'
               PROVE  KeysOk(tx)
    BY DEF KeysBindAsMeant, KeysOk
  <2>1. CASE tx \in inflight
    BY <2>1 DEF KeysBindAsMeant, KeysOk
  <2>2. CASE tx \notin inflight
    <3>1. PICK sdk \in Sdks, tables \in Tables :
             \E built \in Buildable(store, sdk, sent + 1) : Send(built, tables)
      BY <2>2 DEF TxNext, Land, OpenTokenAccount, txVars
    <3>2. PICK built \in Buildable(store, sdk, sent + 1) : Send(built, tables)
      BY <3>1
    <3>3. tx = Signed(tables, built, sent + 1)
      BY <2>2, <3>2 DEF Send
    <3> QED
      BY <1>1, <3>3, SignedKeysOk
  <2> QED
    BY <2>1, <2>2
<1> QED
  BY <1>2, <1>3, PTL DEF TxSpec

(***************************************************************************)
(* Transactions built on the ledger as it stands                           *)
(***************************************************************************)
AllMinted(s) == \A x \in DOMAIN s : Minted(s[x])

LEMMA AddedKeepsMint ==
    ASSUME NEW s, AllMinted(s), NEW t, NEW x, NEW r, Added(s, t, x, r), Minted(r)
    PROVE  AllMinted(t)
BY DEF AllMinted, Added, Opened, Minted

LEMMA RemovedKeepsMint ==
    ASSUME NEW s, AllMinted(s), NEW t, NEW x, NEW y, Removed(s, t, x, y)
    PROVE  AllMinted(t)
BY DEF AllMinted, Removed, Opened, Minted

LEMMA UpdatedKeepsMint ==
    ASSUME NEW s, AllMinted(s), NEW t, NEW x, NEW r, Updated(s, t, x, r), Minted(r)
    PROVE  AllMinted(t)
BY DEF AllMinted, Updated

LEMMA UpdatesKeepMint ==
    ASSUME NEW x, NEW r, AccountOk(x, r), Minted(r), NEW v, NEW w
    PROVE  /\ r.class = "namespace" => /\ Minted(WithCouncils(r, v, w))
                                       /\ Minted(WithNextNonce(r))
           /\ r.class = "proposal" => Minted(WithText(r, v)) /\ Minted(WithVote(r))
           /\ r.class = "distribution" => Minted(WithStart(r, v))
<1>1. CASE r.class = "namespace"
  <2>1. DOMAIN r = {"class", "tokenMint", "deployer", "securityCouncil",
                    "reviewCouncil", "proposalNonce"}
    BY <1>1, Fields
  <2> QED
    BY <1>1, <2>1 DEF Minted, WithCouncils, WithNextNonce
<1>2. CASE r.class = "proposal"
  <2>1. DOMAIN r = {"class", "ns", "nonce", "owner", "uri", "votes"}
    BY <1>2, Fields
  <2> QED
    BY <1>2, <2>1 DEF Minted, WithText, WithVote
<1>3. CASE r.class = "distribution"
  <2>1. DOMAIN r = {"class", "ns", "uuid", "cosigner1", "cosigner2",
                    "distributionTokenMint", "startTs"}
    BY <1>3, Fields
  <2> QED
    BY <1>3, <2>1 DEF Minted, WithStart
<1> QED
  BY <1>1, <1>2, <1>3

LEMMA HandlersKeepMint ==
    ASSUME NEW s, LedgerOk(s), AllMinted(s), NEW t, NEW ix, NEW a, NEW args,
           Handled(s, t, ix, a, args)
    PROVE  AllMinted(t)
<1>0. \A x \in DOMAIN s : AccountOk(x, s[x]) /\ Minted(s[x])
  BY DEF LedgerOk, AllMinted
<1>1. CASE InitNamespaceOk(s, a) /\ t = InitNamespace(s, a)
  <2>1. Minted(NewNamespace(a))
    BY <1>1 DEF Minted, NewNamespace, InitNamespaceOk
  <2> QED
    BY <1>1, <2>1, InitNamespaceStep, AddedKeepsMint
<1>2. CASE HasSecurityCouncil(s, a) /\ t = UpdateNamespace(s, a, args)
  <2> DEFINE r == WithCouncils(s[a.ns], args.securityCouncil, args.reviewCouncil)
  <2>1. Updated(s, t, a.ns, r) /\ s[a.ns].class = "namespace"
    BY <1>2, UpdateNamespaceStep
  <2>2. Minted(r)
    BY <1>0, <2>1, UpdatesKeepMint DEF Updated
  <2> HIDE DEF r
  <2> QED
    BY <2>1, <2>2, UpdatedKeepsMint
<1>3. CASE (StakeOk(s, a) \/ StakeToOk(s, a)) /\ t = Stake(s, a)
  <2>1. Minted(NewLockup(a.ns, a.owner))
    BY DEF Minted, NewLockup
  <2> QED
    BY <1>3, <2>1, StakeStep, AddedKeepsMint
<1>4. CASE UnstakeOk(s, a) /\ \E e \in BOOLEAN : t = Unstake(s, a, e)
  BY <1>4, UnstakeStep, RemovedKeepsMint
<1>5. CASE InitProposalOk(s, a) /\ t = InitProposal(s, a, args)
  <2>1. ProposalAdded(s, t, a, args)
    BY <1>5, ProposalMade
  <2>2. Minted(t[a.ns])
    BY <1>0, <2>1, UpdatesKeepMint DEF ProposalAdded
  <2>3. Minted(t[a.proposal])
    BY <2>1 DEF Minted, NewProposal, ProposalAdded
  <2>4. /\ DOMAIN t = DOMAIN s \cup {a.proposal}
        /\ \A y \in DOMAIN s : y # a.ns => t[y] = s[y]
    BY <2>1 DEF ProposalAdded
  <2> QED
    BY <1>0, <2>2, <2>3, <2>4 DEF AllMinted
<1>6. CASE UpdateProposalOk(s, a) /\ t = UpdateProposal(s, a, args)
  <2>1. Updated(s, t, a.proposal, WithText(s[a.proposal], args.uri))
        /\ s[a.proposal].class = "proposal"
    BY <1>6, UpdateProposalStep
  <2>2. Minted(WithText(s[a.proposal], args.uri))
    BY <1>0, <2>1, UpdatesKeepMint DEF Updated
  <2> QED
    BY <2>1, <2>2, UpdatedKeepsMint
<1>7. CASE VoteOk(s, a) /\ t = Vote(s, a)
  <2>1. VoteAdded(s, t, a)
    BY <1>7, VoteCast
  <2>2. Minted(t[a.proposal])
    BY <1>0, <2>1, UpdatesKeepMint DEF VoteAdded
  <2>3. Minted(t[a.voteRecord])
    BY <2>1 DEF Minted, NewRecord, VoteAdded
  <2>4. /\ DOMAIN t = DOMAIN s \cup {a.voteRecord}
        /\ \A y \in DOMAIN s : y # a.proposal => t[y] = s[y]
    BY <2>1 DEF VoteAdded
  <2> QED
    BY <1>0, <2>2, <2>3, <2>4 DEF AllMinted
<1>8. CASE InitDistributionOk(s, a, args) /\ t = InitDistribution(s, a, args)
  <2>1. Minted(NewDistribution(a, args))
    BY <1>8 DEF Minted, NewDistribution, InitDistributionOk
  <2> QED
    BY <1>8, <2>1, InitDistributionStep, AddedKeepsMint
<1>9. CASE UpdateDistributionOk(s, a) /\ t = UpdateDistribution(s, a, args)
  <2>1. /\ Updated(s, t, a.distribution, WithStart(s[a.distribution], args.startTs))
        /\ s[a.distribution].class = "distribution"
    BY <1>9, UpdateDistributionStep
  <2>2. Minted(WithStart(s[a.distribution], args.startTs))
    BY <1>0, <2>1, UpdatesKeepMint DEF Updated
  <2> QED
    BY <2>1, <2>2, UpdatedKeepsMint
<1>10. CASE ClaimOk(s, a, args) /\ t = Claim(s, a, args)
  <2>1. Minted(NewClaim(a, args))
    BY DEF Minted, NewClaim
  <2> QED
    BY <1>10, <2>1, ClaimStep, AddedKeepsMint
<1>11. CASE WithdrawOk(s, a) /\ t = Withdraw(s, a)
  BY <1>11, WithdrawStep, RemovedKeepsMint
<1> QED
  BY <1>1, <1>2, <1>3, <1>4, <1>5, <1>6, <1>7, <1>8, <1>9, <1>10, <1>11 DEF Handled

LEMMA MintInvariant == TxSpec => []AllMinted(store)
<1>1. TxInit => AllMinted(store)
  BY TxAssumption DEF TxInit, AllMinted
<1>2. TxInv /\ AllMinted(store) /\ [TxNext]_txVars => AllMinted(store)'
  <2> SUFFICES ASSUME TxInv, AllMinted(store), [TxNext]_txVars PROVE AllMinted(store')
    OBVIOUS
  <2>1. ASSUME NEW tx \in inflight, Land(tx) PROVE AllMinted(store')
    <3>1. Handled(store, store', tx.ix, Bound(tx.ix, tx.keys), tx.args)
      BY <2>1, LandHandles DEF TxInv
    <3> QED
      BY <3>1, HandlersKeepMint DEF TxInv
  <2>2. ASSUME NEW x, OpenTokenAccount(x) PROVE AllMinted(store')
    <3>1. PICK y, r : Added(store, store', y, r) /\ Opened(r)
      BY <2>2, OpenStep DEF TxInv
    <3>2. Minted(r)
      BY <3>1 DEF Opened, Minted
    <3> QED
      BY <3>1, <3>2, AddedKeepsMint
  <2>3. ASSUME store' = store PROVE AllMinted(store')
    BY <2>3
  <2> QED
    BY <2>1, <2>2, <2>3 DEF TxNext, Send, txVars
<1> QED
  BY <1>1, <1>2, TxInvariant, PTL DEF TxSpec

\* An SDK for the namespace, on a ledger of its mint.
Serves(sdk, s, ns) ==
    /\ ns \in DOMAIN s /\ s[ns].class = "namespace" /\ s[ns].tokenMint = Mint
    /\ sdk.tokenMint = Mint /\ sdk.tokenProgram = MintProgram
    /\ PdaNamespace(sdk) = ns

Passes(s, tx) == ProgramsOk(tx.accounts) /\ AddressesOk(s, tx.ix, tx.accounts, tx.args)

LEMMA WalletIsThere ==
    ASSUME NEW s, LedgerOk(s), AllMinted(s), NEW key, HasWallet(s, key),
           NEW x, x = AssociatedTokenAddress(key, MintProgram, Mint)
    PROVE  /\ Exists(s, x, "token") /\ s[x].authority = key
           /\ s[x].mint = Mint /\ s[x].program = MintProgram
<1>1. PICK y \in DOMAIN s : /\ s[y].class = "token"
                            /\ s[y].authority = key /\ s[y].mint = Mint
  BY DEF HasWallet, OfClass
<1>2. s[y].program = MintProgram /\ y = AssociatedTokenAddress(key, s[y].program, Mint)
  BY <1>1, Fields DEF LedgerOk, AllMinted, Minted
<1> QED
  BY <1>1, <1>2 DEF Exists

\* What stake and unstake name.
LEMMA LockupAccountsMean ==
    ASSUME NEW s, NEW sdk, NEW ns, Serves(sdk, s, ns), NEW u,
           NEW a, a = LockupAccounts(sdk, u)
    PROVE  /\ a.owner = u /\ a.tokenMint = Mint /\ a.ns = ns
           /\ a.tokenAccount = AssociatedTokenAddress(u, MintProgram, Mint)
           /\ a.lockup = LockupSeeds(ns, u)
           /\ a.lockupTokenAccount =
                  AssociatedTokenAddress(a.lockup, MintProgram, Mint)
           /\ a.tokenProgram = MintProgram /\ a.systemProgram = SystemProgram
           /\ a.associatedTokenProgram = AssociatedTokenProgram
BY DEF Serves, LockupAccounts, SdkAta, PdaLockup, LockupSeeds

LEMMA StakePasses ==
    ASSUME MintProgram = TokenProgram, NEW s, LedgerOk(s), AllMinted(s), NEW sdk, NEW ns,
           Serves(sdk, s, ns), NEW u, HasWallet(s, u)
    PROVE  Passes(s, TxStake(sdk, u))
<1> DEFINE a == LockupAccounts(sdk, u)
<1>1. TxStake(sdk, u).ix = "stake" /\ TxStake(sdk, u).accounts = a
  BY DEF TxStake, NewTx
<1>2. Exists(s, a.tokenAccount, "token")
  BY LockupAccountsMean, WalletIsThere
<1>3. StakeOk(s, a)
  BY LockupAccountsMean, <1>2 DEF StakeOk, AtaOk, AtaOrNewOk, NsOfMint, Exists, Serves
<1>4. ProgramsOk(a)
  BY LockupAccountsMean DEF ProgramsOk
<1> QED
  BY <1>1, <1>3, <1>4 DEF Passes, AddressesOk

LEMMA UnstakePasses ==
    ASSUME MintProgram = TokenProgram, NEW s, LedgerOk(s), AllMinted(s), NEW sdk, NEW ns,
           Serves(sdk, s, ns), NEW u, NEW x \in Lockups(s, ns, u), HasWallet(s, x)
    PROVE  Passes(s, TxUnstake(sdk, u))
<1> DEFINE a == LockupAccounts(sdk, u)
<1>1. TxUnstake(sdk, u).ix = "unstake" /\ TxUnstake(sdk, u).accounts = a
  BY DEF TxUnstake, NewTx
<1>2. /\ x \in DOMAIN s /\ s[x].class = "lockup" /\ s[x].ns = ns /\ s[x].owner = u
      /\ x = LockupSeeds(ns, u)
  BY DEF Lockups, OfClass, LedgerOk, AccountOk
<1>3. a.lockup = x
  BY <1>2, LockupAccountsMean
<1>4. Exists(s, a.lockupTokenAccount, "token")
  BY <1>3, LockupAccountsMean, WalletIsThere
<1>5. UnstakeOk(s, a)
  BY LockupAccountsMean, <1>2, <1>3, <1>4
     DEF UnstakeOk, AtaOk, AtaOrNewOk, OwnersLockup, NsOfMint, Exists, Serves
<1>6. ProgramsOk(a)
  BY LockupAccountsMean DEF ProgramsOk
<1> QED
  BY <1>1, <1>5, <1>6 DEF Passes, AddressesOk

LEMMA StakeToPasses ==
    ASSUME MintProgram = TokenProgram, NEW s, LedgerOk(s), AllMinted(s), NEW sdk, NEW ns,
           Serves(sdk, s, ns), sdk.securityCouncil = s[ns].securityCouncil,
           HasWallet(s, sdk.securityCouncil), NEW u, Lockups(s, ns, u) = {}
    PROVE  Passes(s, TxStakeTo(sdk, u))
<1> DEFINE a == TxStakeTo(sdk, u).accounts
           council == sdk.securityCouncil
<1>1. TxStakeTo(sdk, u).ix = "stakeTo"
  BY DEF TxStakeTo, NewTx
<1>2. /\ a.owner = u /\ a.securityCouncil = council
      /\ a.tokenMint = Mint /\ a.ns = ns
      /\ a.tokenAccount = AssociatedTokenAddress(council, MintProgram, Mint)
      /\ a.lockup = LockupSeeds(ns, u)
      /\ a.lockupTokenAccount = AssociatedTokenAddress(a.lockup, MintProgram, Mint)
      /\ a.tokenProgram = MintProgram /\ a.systemProgram = SystemProgram
      /\ a.associatedTokenProgram = AssociatedTokenProgram
  BY DEF Serves, TxStakeTo, NewTx, SdkAta, PdaLockup, LockupSeeds
<1> HIDE DEF a
<1>3. Exists(s, a.tokenAccount, "token")
  BY <1>2, WalletIsThere
<1>4. a.lockup \notin DOMAIN s
  <2> SUFFICES ASSUME a.lockup \in DOMAIN s PROVE FALSE
    OBVIOUS
  <2>1. s[a.lockup] = [class |-> "lockup", ns |-> ns, owner |-> u]
    BY <1>2, LockupAtSeeds DEF LedgerOk
  <2> QED
    BY <2>1 DEF Lockups, OfClass
<1>5. StakeToOk(s, a)
  BY <1>2, <1>3, <1>4
     DEF StakeToOk, AtaOk, AtaOrNewOk, Free, NsOfMint, HasSecurityCouncil, Exists, Serves
<1>6. ProgramsOk(a)
  BY <1>2 DEF ProgramsOk
<1> QED
  BY <1>1, <1>5, <1>6 DEF Passes, AddressesOk, a

LEMMA VotePasses ==
    ASSUME NEW s, LedgerOk(s), NEW sdk, NEW ns, Serves(sdk, s, ns),
           NEW u, Lockups(s, ns, u) # {}, NEW p \in In(s, "proposal", ns),
           \A x \in OfClass(s, "voteRecord") : ~(s[x].owner = u /\ s[x].proposal = p)
    PROVE  Passes(s, TxVote(sdk, u, p, NoArgs))
<1> DEFINE a == TxVote(sdk, u, p, NoArgs).accounts
<1>1. TxVote(sdk, u, p, NoArgs).ix = "vote"
  BY DEF TxVote, NewTx
<1>2. /\ a.ns = ns /\ a.owner = u /\ a.proposal = p /\ a.lockup = LockupSeeds(ns, u)
      /\ a.voteRecord = VoteRecordSeeds(ns, u, p) /\ a.systemProgram = SystemProgram
      /\ DOMAIN a = {"ns", "owner", "proposal", "lockup", "voteRecord", "systemProgram"}
  BY DEF Serves, TxVote, NewTx, PdaLockup, PdaVoteRecord, LockupSeeds, VoteRecordSeeds
<1> HIDE DEF a
<1>3. PICK x \in DOMAIN s : /\ s[x].class = "lockup" /\ s[x].ns = ns /\ s[x].owner = u
                            /\ x = LockupSeeds(ns, u)
  BY DEF Lockups, OfClass, LedgerOk, AccountOk
<1>4. a.voteRecord \notin DOMAIN s
  <2> SUFFICES ASSUME a.voteRecord \in DOMAIN s PROVE FALSE
    OBVIOUS
  <2>1. /\ s[a.voteRecord].class = "voteRecord"
        /\ s[a.voteRecord].owner = u /\ s[a.voteRecord].proposal = p
    BY <1>2, VoteRecordAtSeeds DEF LedgerOk
  <2> QED
    BY <2>1 DEF OfClass
<1>5. VoteOk(s, a)
  BY <1>2, <1>3, <1>4 DEF VoteOk, OfNs, OwnersLockup, Free, Exists, In, OfClass, Serves
<1>6. ProgramsOk(a)
  BY <1>2 DEF ProgramsOk
<1> QED
  BY <1>1, <1>5, <1>6 DEF Passes, AddressesOk, a

LEMMA InitDistributionPasses ==
    ASSUME NEW s, LedgerOk(s), NEW sdk, NEW ns, Serves(sdk, s, ns), NEW u,
           NEW c \in Cosigners,
           \A x \in In(s, "distribution", ns) : <<s[x].cosigner1, s[x].cosigner2>> # c
    PROVE  Passes(s, TxInitDistribution(sdk, u, Uuid, c[1], c[2]))
<1> DEFINE tx == TxInitDistribution(sdk, u, Uuid, c[1], c[2])
           a == tx.accounts
<1>1. /\ tx.ix = "initDistribution"
      /\ tx.args.cosigner1 = c[1] /\ tx.args.cosigner2 = c[2]
  BY DEF TxInitDistribution, NewTx
<1>2. /\ a.ns = ns /\ a.uuid = Uuid /\ a.distributionTokenMint = Mint
      /\ a.distribution = DistributionSeeds(ns, c[1], c[2], Uuid)
      /\ a.systemProgram = SystemProgram
      /\ DOMAIN a = {"ns", "payer", "distribution", "distributionTokenMint",
                     "systemProgram", "uuid"}
  BY DEF Serves, TxInitDistribution, NewTx, PdaDistribution, DistributionSeeds
<1> HIDE DEF tx
<1>3. a.distribution \notin DOMAIN s
  <2> SUFFICES ASSUME a.distribution \in DOMAIN s PROVE FALSE
    OBVIOUS
  <2> DEFINE d == a.distribution
  <2>1. /\ s[d].class = "distribution" /\ s[d].ns = ns
        /\ s[d].cosigner1 = c[1] /\ s[d].cosigner2 = c[2]
    BY <1>2, DistributionAtSeeds DEF LedgerOk
  <2>2. c = <<c[1], c[2]>>
    BY TxAssumption
  <2> QED
    BY <2>1, <2>2 DEF In, OfClass
<1>4. InitDistributionOk(s, a, tx.args)
  BY <1>1, <1>2, <1>3 DEF InitDistributionOk, Free, Exists, Serves
<1>5. ProgramsOk(a)
  BY <1>2 DEF ProgramsOk
<1> QED
  BY <1>1, <1>4, <1>5 DEF Passes, AddressesOk, tx

\* The claimant's account that the client derives is the program's only under
\* the library's default program.
LEMMA ClaimPasses ==
    ASSUME MintProgram = TokenProgram, NEW s, LedgerOk(s), AllMinted(s), NEW sdk, NEW ns,
           Serves(sdk, s, ns), NEW u, NEW v, NEW x \in In(s, "distribution", ns),
           HasWallet(s, x), NEW m,
           \A y \in In(s, "distributionClaim", ns) : s[y].cosignedMsg # Sha256(m)
    PROVE  Passes(s, TxClaimFromDistribution(sdk, u, x, SdkAta(sdk, x),
                         <<s[x].cosigner1, s[x].cosigner2>>, v, m))
<1> DEFINE tx == TxClaimFromDistribution(sdk, u, x, SdkAta(sdk, x),
                     <<s[x].cosigner1, s[x].cosigner2>>, v, m)
           a == tx.accounts
<1>1. tx.ix = "claimFromDistribution" /\ tx.args.cosignedMsg = Sha256(m)
  BY DEF TxClaimFromDistribution, NewTx
<1>2. /\ a.ns = ns /\ a.claimant = v /\ a.distribution = x
      /\ a.cosigner1 = s[x].cosigner1 /\ a.cosigner2 = s[x].cosigner2
      /\ a.distributionTokenMint = Mint
      /\ a.distributionClaim = ClaimSeeds(ns, Sha256(m))
      /\ a.distributionTokenAccount = AssociatedTokenAddress(x, MintProgram, Mint)
      /\ a.claimantTokenAccount = AssociatedTokenAddress(v, TokenProgram, Mint)
      /\ a.tokenProgram = MintProgram /\ a.systemProgram = SystemProgram
      /\ a.associatedTokenProgram = AssociatedTokenProgram
  BY DEF Serves, TxClaimFromDistribution, NewTx, SdkAta, PdaDistributionClaim,
         ClaimSeeds, DefaultAssociatedTokenAddress
<1> HIDE DEF tx
<1>3. /\ x \in DOMAIN s /\ s[x].class = "distribution" /\ s[x].ns = ns
      /\ x = DistributionSeeds(ns, s[x].cosigner1, s[x].cosigner2, s[x].uuid)
      /\ s[x].distributionTokenMint = Mint
  BY Fields DEF In, OfClass, LedgerOk, AllMinted, Minted
<1>4. DistributionTokensOk(s, a)
  BY <1>2, <1>3, WalletIsThere DEF DistributionTokensOk, TokenAccountOk
<1>5. a.distributionClaim \notin DOMAIN s
  <2> SUFFICES ASSUME a.distributionClaim \in DOMAIN s PROVE FALSE
    OBVIOUS
  <2> DEFINE y == a.distributionClaim
  <2>1. /\ s[y].class = "distributionClaim" /\ s[y].ns = ns
        /\ s[y].cosignedMsg = Sha256(m)
    BY <1>2, ClaimAtSeeds DEF LedgerOk
  <2> QED
    BY <2>1 DEF In, OfClass
<1>6. ClaimOk(s, a, tx.args)
  BY <1>1, <1>2, <1>3, <1>4, <1>5 DEF ClaimOk, Free, OfNs, AtaOrNewOk, Exists, Serves
<1>7. ProgramsOk(a)
  BY <1>2 DEF ProgramsOk
<1> QED
  BY <1>1, <1>6, <1>7 DEF Passes, AddressesOk, tx

\* What the councils in force may always do.
LEMMA UpdatePasses ==
    ASSUME NEW s, NEW sdk, NEW ns, Serves(sdk, s, ns),
           sdk.securityCouncil = s[ns].securityCouncil, NEW args
    PROVE  Passes(s, TxUpdateNamespace(sdk, args))
<1> DEFINE tx == TxUpdateNamespace(sdk, args)
<1>1. /\ tx.ix = "updateNamespace"
      /\ tx.accounts.ns = ns /\ tx.accounts.securityCouncil = s[ns].securityCouncil
      /\ DOMAIN tx.accounts = {"securityCouncil", "ns"}
  BY DEF Serves, TxUpdateNamespace, NewTx
<1> HIDE DEF tx
<1>2. HasSecurityCouncil(s, tx.accounts)
  BY <1>1 DEF HasSecurityCouncil, Exists, Serves
<1> QED
  BY <1>1, <1>2 DEF Passes, AddressesOk, ProgramsOk, tx

LEMMA InitProposalPasses ==
    ASSUME NEW s, LedgerOk(s), NEW sdk, NEW ns, Serves(sdk, s, ns),
           sdk.reviewCouncil = s[ns].reviewCouncil, NEW args
    PROVE  Passes(s, TxInitProposal(sdk, sdk.reviewCouncil, s[ns].proposalNonce, args))
<1> DEFINE nonce == s[ns].proposalNonce
           tx == TxInitProposal(sdk, sdk.reviewCouncil, nonce, args)
           a == tx.accounts
<1>1. /\ tx.ix = "initProposal"
      /\ a.ns = ns /\ a.reviewCouncil = s[ns].reviewCouncil
      /\ a.proposal = ProposalSeeds(ns, nonce) /\ a.systemProgram = SystemProgram
      /\ DOMAIN a = {"reviewCouncil", "ns", "proposal", "systemProgram"}
  BY DEF Serves, TxInitProposal, NewTx, PdaProposal, ProposalSeeds
<1> HIDE DEF tx
<1>2. a.proposal \notin DOMAIN s
  <2> SUFFICES ASSUME a.proposal \in DOMAIN s PROVE FALSE
    OBVIOUS
  <2> DEFINE p == a.proposal
  <2>1. s[p].class = "proposal" /\ s[p].ns = ns /\ s[p].nonce = nonce
    BY <1>1, ProposalAtSeeds DEF LedgerOk
  <2>2. s[p].nonce < s[ns].proposalNonce
    BY <2>1 DEF LedgerOk, ProposalsOk
  <2>3. s[ns].proposalNonce \in Nat
    BY Fields DEF Serves, LedgerOk
  <2> HIDE DEF p
  <2> QED
    BY <2>1, <2>2, <2>3
<1>3. InitProposalOk(s, a)
  BY <1>1, <1>2 DEF InitProposalOk, HasReviewCouncil, Exists, Free, Serves
<1>4. ProgramsOk(a)
  BY <1>1 DEF ProgramsOk
<1> QED
  BY <1>1, <1>3, <1>4 DEF Passes, AddressesOk, tx

LEMMA UpdateProposalPasses ==
    ASSUME NEW s, NEW sdk, NEW ns, Serves(sdk, s, ns),
           sdk.reviewCouncil = s[ns].reviewCouncil, NEW args,
           NEW p \in In(s, "proposal", ns), s[p].votes = 0
    PROVE  Passes(s, TxUpdateProposal(sdk, sdk.reviewCouncil, p, args))
<1> DEFINE tx == TxUpdateProposal(sdk, sdk.reviewCouncil, p, args)
           a == tx.accounts
<1>1. /\ tx.ix = "updateProposal"
      /\ a.ns = ns /\ a.reviewCouncil = s[ns].reviewCouncil /\ a.proposal = p
      /\ DOMAIN a = {"ns", "proposal", "reviewCouncil"}
  BY DEF Serves, TxUpdateProposal, NewTx
<1> HIDE DEF tx
<1>2. UpdateProposalOk(s, a)
  BY <1>1 DEF UpdateProposalOk, CanUpdateProposal, HasReviewCouncil, OfNs, Exists,
              In, OfClass, Serves
<1>3. ProgramsOk(a)
  BY <1>1 DEF ProgramsOk
<1> QED
  BY <1>1, <1>2, <1>3 DEF Passes, AddressesOk, tx

LEMMA UpdateDistributionPasses ==
    ASSUME NEW s, NEW sdk, NEW ns, Serves(sdk, s, ns),
           sdk.securityCouncil = s[ns].securityCouncil, NEW args,
           NEW x \in In(s, "distribution", ns)
    PROVE  Passes(s, TxUpdateDistribution(sdk, x, args))
<1> DEFINE tx == TxUpdateDistribution(sdk, x, args)
           a == tx.accounts
<1>1. /\ tx.ix = "updateDistribution"
      /\ a.ns = ns /\ a.securityCouncil = s[ns].securityCouncil /\ a.distribution = x
      /\ DOMAIN a = {"ns", "distribution", "securityCouncil"}
  BY DEF Serves, TxUpdateDistribution, NewTx
<1> HIDE DEF tx
<1>2. UpdateDistributionOk(s, a)
  BY <1>1 DEF UpdateDistributionOk, HasSecurityCouncil, OfNs, Exists, In, OfClass, Serves
<1>3. ProgramsOk(a)
  BY <1>1 DEF ProgramsOk
<1> QED
  BY <1>1, <1>2, <1>3 DEF Passes, AddressesOk, tx

LEMMA WithdrawPasses ==
    ASSUME MintProgram = TokenProgram, NEW s, LedgerOk(s), AllMinted(s), NEW sdk, NEW ns,
           Serves(sdk, s, ns), sdk.securityCouncil = s[ns].securityCouncil,
           NEW x \in In(s, "distribution", ns), HasWallet(s, x)
    PROVE  Passes(s, TxWithdrawFromDistribution(sdk, x, SdkAta(sdk, x)))
<1> DEFINE tx == TxWithdrawFromDistribution(sdk, x, SdkAta(sdk, x))
           a == tx.accounts
           council == s[ns].securityCouncil
<1>1. /\ tx.ix = "withdrawFromDistribution"
      /\ a.ns = ns /\ a.distribution = x /\ a.securityCouncil = council
      /\ a.distributionTokenMint = Mint
      /\ a.distributionTokenAccount = AssociatedTokenAddress(x, MintProgram, Mint)
      /\ a.securityCouncilTokenAccount = AssociatedTokenAddress(council, MintProgram, Mint)
      /\ a.tokenProgram = MintProgram /\ a.systemProgram = SystemProgram
      /\ a.associatedTokenProgram = AssociatedTokenProgram
  BY DEF Serves, TxWithdrawFromDistribution, NewTx, SdkAta
<1> HIDE DEF tx
<1>2. /\ x \in DOMAIN s /\ s[x].class = "distribution" /\ s[x].ns = ns
      /\ x = DistributionSeeds(ns, s[x].cosigner1, s[x].cosigner2, s[x].uuid)
      /\ s[x].distributionTokenMint = Mint
  BY Fields DEF In, OfClass, LedgerOk, AllMinted, Minted
<1>3. DistributionTokensOk(s, a)
  BY <1>1, <1>2, WalletIsThere DEF DistributionTokensOk, TokenAccountOk
<1>4. WithdrawOk(s, a)
  BY <1>1, <1>2, <1>3
     DEF WithdrawOk, OfNs, AtaOrNewOk, HasSecurityCouncil, Exists, Serves
<1>5. ProgramsOk(a)
  BY <1>1 DEF ProgramsOk
<1> QED
  BY <1>1, <1>4, <1>5 DEF Passes, AddressesOk, tx

LEMMA PassedIsAccepted ==
    ASSUME NEW s, NEW tx, Complete(tx), Passes(s, tx), NEW tables \in Tables, NEW id
    PROVE  Accepted(s, Signed(tables, tx, id))
<1> DEFINE signed == Signed(tables, tx, id)
<1>1. /\ signed.ix = tx.ix /\ signed.args = tx.args /\ signed.accounts = tx.accounts
  BY DEF Signed
<1>2. KeysOk(signed)
  BY SignedKeysOk
<1> HIDE DEF signed
<1> QED
  BY <1>1, <1>2 DEF KeysOk, Accepted, Passes, signed

LEMMA SdkServes ==
    ASSUME NEW s, LedgerOk(s), AllMinted(s), NEW ns \in OfClass(s, "namespace"),
           NEW c, NEW d, NEW sdk, sdk = Sdk(s[ns].deployer, c, d)
    PROVE  Serves(sdk, s, ns) /\ sdk.securityCouncil = c /\ sdk.reviewCouncil = d
<1>1. /\ ns \in DOMAIN s /\ s[ns].class = "namespace"
      /\ ns = NamespaceSeeds(s[ns].tokenMint, s[ns].deployer) /\ s[ns].tokenMint = Mint
  BY DEF OfClass, LedgerOk, AccountOk, AllMinted, Minted
<1> QED
  BY <1>1 DEF Serves, Sdk, Construct, PdaNamespace, NamespaceSeeds

LEMMA HoldersAccepted ==
    ASSUME MintProgram = TokenProgram, NEW s, LedgerOk(s), AllMinted(s), NEW sdk, NEW ns,
           Serves(sdk, s, ns), NEW tx \in Ready(s, sdk, ns)
    PROVE  Complete(tx) /\ Passes(s, tx)
<1>1. CASE tx \in MayStake(s, sdk)
  <2>1. \E u : HasWallet(s, u) /\ tx = TxStake(sdk, u)
    BY <1>1 DEF MayStake
  <2> QED
    BY <2>1, StakePasses, BuildersComplete
<1>2. CASE tx \in MayUnstake(s, sdk, ns)
  <2>1. \E u : \E x \in Lockups(s, ns, u) : HasWallet(s, x) /\ tx = TxUnstake(sdk, u)
    BY <1>2 DEF MayUnstake
  <2> QED
    BY <2>1, UnstakePasses, BuildersComplete
<1>3. CASE tx \in MayVote(s, sdk, ns)
  <2>1. \E u, p : /\ Lockups(s, ns, u) # {} /\ p \in In(s, "proposal", ns)
                  /\ \A x \in OfClass(s, "voteRecord") :
                        ~(s[x].owner = u /\ s[x].proposal = p)
                  /\ tx = TxVote(sdk, u, p, NoArgs)
    BY <1>3 DEF MayVote
  <2> QED
    BY <2>1, VotePasses, BuildersComplete
<1>4. CASE tx \in MayDistribute(s, sdk, ns)
  <2>1. \E u : \E c \in Cosigners :
           /\ \A x \in In(s, "distribution", ns) :
                 <<s[x].cosigner1, s[x].cosigner2>> # c
           /\ tx = TxInitDistribution(sdk, u, Uuid, c[1], c[2])
    BY <1>4 DEF MayDistribute
  <2> QED
    BY <2>1, InitDistributionPasses, BuildersComplete
<1>5. CASE tx \in MayClaim(s, sdk, ns)
  <2>1. \E u, v, m : \E x \in In(s, "distribution", ns) :
           /\ HasWallet(s, x)
           /\ \A y \in In(s, "distributionClaim", ns) : s[y].cosignedMsg # Sha256(m)
           /\ tx = TxClaimFromDistribution(sdk, u, x, SdkAta(sdk, x),
                                           <<s[x].cosigner1, s[x].cosigner2>>, v, m)
    BY <1>5 DEF MayClaim
  <2> QED
    BY <2>1, ClaimPasses, BuildersComplete
<1> QED
  BY <1>1, <1>2, <1>3, <1>4, <1>5 DEF Ready

LEMMA CouncilsAccepted ==
    ASSUME MintProgram = TokenProgram, NEW s, LedgerOk(s), AllMinted(s), NEW sdk, NEW ns,
           Serves(sdk, s, ns), sdk.securityCouncil = s[ns].securityCouncil,
           sdk.reviewCouncil = s[ns].reviewCouncil, NEW tx \in ReadyForCouncils(s, sdk, ns)
    PROVE  Complete(tx) /\ Passes(s, tx)
<1>1. \/ \E args : tx = TxUpdateNamespace(sdk, args)
      \/ \E u : /\ HasWallet(s, sdk.securityCouncil) /\ Lockups(s, ns, u) = {}
                /\ tx = TxStakeTo(sdk, u)
      \/ \E args : tx = TxInitProposal(sdk, sdk.reviewCouncil, s[ns].proposalNonce, args)
      \/ \E args : \E p \in In(s, "proposal", ns) :
            s[p].votes = 0 /\ tx = TxUpdateProposal(sdk, sdk.reviewCouncil, p, args)
      \/ \E args : \E x \in In(s, "distribution", ns) :
            tx = TxUpdateDistribution(sdk, x, args)
      \/ \E x \in In(s, "distribution", ns) :
            HasWallet(s, x) /\ tx = TxWithdrawFromDistribution(sdk, x, SdkAta(sdk, x))
  BY DEF ReadyForCouncils
<1>2. Passes(s, tx)
  BY <1>1, UpdatePasses, StakeToPasses, InitProposalPasses, UpdateProposalPasses,
     UpdateDistributionPasses, WithdrawPasses
<1>3. Complete(tx)
  BY <1>1, BuildersComplete
<1> QED
  BY <1>2, <1>3

\* For a mint of the original token program, a transaction built on the ledger
\* as it stands passes every check of signers, addresses and owners, after any
\* history.  For other mints the claims do not.
THEOREM FreshTxsAreAccepted ==
    ASSUME MintProgram = TokenProgram
    PROVE  TxSpec => []FreshTxAccepted
<1>1. ASSUME TxInv, AllMinted(store), NEW ns \in OfClass(store, "namespace"),
             NEW tables \in Tables
      PROVE  /\ \A c, d \in Councils :
                   \A tx \in Ready(store, Sdk(store[ns].deployer, c, d), ns) :
                      Accepted(store, Signed(tables, tx, 0))
             /\ \A tx \in ReadyForCouncils(store, Current(store, ns), ns) :
                   Accepted(store, Signed(tables, tx, 0))
  <2>1. ASSUME NEW c, NEW d, NEW tx \in Ready(store, Sdk(store[ns].deployer, c, d), ns)
        PROVE  Accepted(store, Signed(tables, tx, 0))
    <3>1. Serves(Sdk(store[ns].deployer, c, d), store, ns)
      BY <1>1, SdkServes DEF TxInv
    <3>2. Complete(tx) /\ Passes(store, tx)
      BY <1>1, <2>1, <3>1, HoldersAccepted DEF TxInv
    <3> QED
      BY <1>1, <3>2, PassedIsAccepted
  <2>2. ASSUME NEW tx \in ReadyForCouncils(store, Current(store, ns), ns)
        PROVE  Accepted(store, Signed(tables, tx, 0))
    <3> DEFINE sdk == Current(store, ns)
    <3>1. /\ Serves(sdk, store, ns)
          /\ sdk.securityCouncil = store[ns].securityCouncil
          /\ sdk.reviewCouncil = store[ns].reviewCouncil
      BY <1>1, SdkServes DEF TxInv, Current
    <3> HIDE DEF sdk
    <3>2. Complete(tx) /\ Passes(store, tx)
      BY <1>1, <2>2, <3>1, CouncilsAccepted DEF TxInv, sdk
    <3> QED
      BY <1>1, <3>2, PassedIsAccepted
  <2> QED
    BY <2>1, <2>2
<1>2. TxInv /\ AllMinted(store) => FreshTxAccepted
  BY <1>1 DEF FreshTxAccepted
<1> QED
  BY <1>2, TxInvariant, MintInvariant, PTL

=============================================================================
