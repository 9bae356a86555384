# vetoken in TLA+

vetoken is a Solana program (Anchor, Rust) for vote-escrowed tokens: holders
lock tokens for a time, the lock gives them voting power in the proposals of a
namespace, and a separate part of the program pays out cosigned distributions.
A TypeScript package in the same repository builds the program's transactions,
decodes its accounts and errors, and a script deploys a namespace.
This directory holds TLA+ models of the program and of that client, the TLC runs
that check them on small instances, and proofs that TLAPS checks for every
instance. Paths of Rust files are relative to `programs/vetoken/src/`, those of
TypeScript files to `src/src/` unless they begin with `scripts/`.

## 1. Inventory

### How the program runs

A transaction names the accounts it uses; Anchor checks the constraints declared
on the handler's accounts struct, then the handler runs. A failed constraint, a
returned error or a panic (the `expect` on a checked operation) aborts the
transaction and every account keeps its value; plain operators wrap, as `Cargo.toml`
turns `overflow-checks` off. So one instruction is one atomic step, enabled exactly when
every constraint, `require!`, checked operation and call of the token program
succeeds. What is concurrent is the order of transactions: holders, the two
councils, cosigners and strangers send them independently, a client may send one
again, and the clock moves in between. Nothing is ever due: no handler runs
unless somebody sends it.

### Components

| component | state | operations | interacts with |
|---|---|---|---|
| Namespace configuration (`states.rs`, `update_namespace.rs`) | one account: two councils, limits, percentages, counters `lockup_amount`, `proposal_nonce` | `init_namespace`, `update_namespace` (security council; overwrites everything) | read by every other handler |
| Staking and escrow (`stake.rs`, `stake_to.rs`, `unstake.rs`) | a `Lockup` and a token account per owner | `stake` (first stake, top-up, extension), `stake_to` (council, for an owner without a lockup), `unstake` | moves tokens; adds to and takes from `Namespace.lockup_amount` |
| Voting power (`states.rs`) | none | `voting_power`, `effective_start_ts`, `normalize_weighted_start_ts` | a function of lockup, configuration and clock |
| Proposals and votes (`init_proposal.rs`, `update_proposal.rs`, `vote.rs`) | a `Proposal` per nonce, a `VoteRecord` per owner and proposal | the three handlers; `has_quorum`, `has_passed` for clients | reads lockups, advances `Namespace.proposal_nonce` |
| Distributions (`*_distribution.rs`) | a `Distribution`, its token accounts ("shards"), a `DistributionClaim` per digest | init, update, claim, withdraw | reads the security council and the clock; moves tokens |
| Namespace creation (`init_namespace.rs`) | creates the namespace | deny list of mint extensions, defaults | reads the mint |
| Namespace creation script (`scripts/create-namespace.ts`) | none that lasts; a run is a sequence of RPC calls | check configuration, balance and account; build, send, confirm | sends `init_namespace` through an RPC node that may fail or lag |
| Client SDK (`index.ts`) | fixed when constructed: deployer, councils, mint, token program | derives addresses, builds one transaction per instruction | the addresses must be those the program derives |
| Generated client (`generated/`) and IDL (`idl/`, `types/vetoken.ts`) | none | account tables, argument encoders, account decoders, `toJSON`, error tables | must agree with the program's structs |
| Error codes (`errors.rs`, `generated/errors/`) | none | `fromTxError` finds the program's error in a failed transaction's log | the runtime writes the log, and cuts it |
| Integration tests | none | drive the program on a local validator | not modelled, see 8 |

### What is hard here, and what makes each part correct

* **Staking.** `lockup_amount` is maintained by three handlers and gates `unstake`;
  the escrow can receive tokens from anyone; the cap on a lock's end depends on a
  configuration that changes while locks run; the weighted start is an average
  recomputed from itself, in integer arithmetic, over any sequence of top-ups; old
  accounts lack the field. Correct means: the counter is the sum, an owner whose
  lock has ended always gets the tokens, a running lock only grows, a lock is
  bounded and ends, and topping up gains no more power than the parts have.
* **Voting.** Votes are counted in the proposal and recorded in other accounts; the
  stake behind a vote can move; every sum is a checked u64. Correct means: tallies match
  the records, no token votes twice, nobody who may vote is crowded out by stake that cannot vote or has left, the stake stays while the vote is open, a proposal
  that has votes or has ended is not changed, and what `has_passed` says of an ended
  proposal stays what it says.
* **Distributions.** Signed claims are retried on other shards, shards are withdrawn,
  closed and reopened, councils rotate. Correct means: a digest pays once, what both
  cosigners signed, out of its own distribution, and no token is lost.
* **Clients.** They name accounts by position, derive addresses on their own, hold
  councils and nonces they read some time ago, and their transactions land in any order.
  Correct means: the program finds the account that was meant, accepts what is built on the
  ledger as it stands, and changes what belongs to someone only with that one's signature.
* **Bytes.** The program writes accounts over what was there, without clearing; texts
  change length; accounts in a former layout go on being used. Correct means: a reader
  gets the fields the handlers meant.
* **Creation.** Calls fail, answers are lost, nodes are behind, blockhashes expire, two
  runs overlap. Correct means: what a run reports is true, nothing is deployed twice, and a run ends.
* **Errors.** Programs call each other, codes of different programs coincide, the log is
  cut, and the framework has more codes than the client. Correct means: the client reports the errors
  of this program's enum, and never another program's.

`PROJECT.json` lists the hazards line by line, with the properties that cover them.

## 2. Modules

| module | what it is |
|---|---|
| `VeTokenState` | the pure methods of `states.rs`, with the integer widths as constants; no variables |
| `Staking` | the vote escrow of one namespace with its environment (clock, transfers, donations); extends `VeTokenState` |
| `Voting` | proposals and votes, composed with all of `Staking`: its next-state relation is a staking step with the votes unchanged, or a voting step with the staking state unchanged |
| `Payouts` | abstract specification of what distributions promise: pots, and vouchers settled once |
| `Distribution` | the detailed distributions; implements `Payouts` under the mapping `pot` = sum of a distribution's shards, `settled` = claim accounts |
| `Interface` | the accounts of each instruction in order, with signer and writable flags, three times: as the program, the generated client and the IDL have them |
| `Sdk` | the addresses and transactions of `VeTokenSDK`; no variables |
| `Transactions` | clients built from `Sdk` and `Interface`, and the account checks of every handler, over one ledger |
| `Layouts` | the fields of every account and argument struct in order, three times as in `Interface`, and the former layouts |
| `Borsh` | encoding by a layout, on bytes that remember what they were written for |
| `Wire` | accounts as bytes: calls encode arguments, handlers read, change and write accounts, clients fetch, decode and convert to JSON and back |
| `NamespaceSetup` | several runs of the creation script, the RPC node and the cluster, and `init_namespace` |
| `TxErrors` | nested calls, the log, and `fromTxError` |
| `MCStaking`, `MCTopUp`, `MCVoting`, `MCDistribution`, `MCTransactions`, `MCWire`, `MCNamespaceSetup` | constants for TLC; `MCTopUp` and `MCTransactions` also have their own initial states, see 3 |
| `SumProofs` | lemmas about `SumFunction` of the community modules over a finite domain |
| `StakingProofs` | the types and the accounting of `Staking`; the times of a lockup: its end, its weighted start, that a running lock only grows, and what a top-up does to its voting power |
| `VotingProofs` | the theorems about `Voting`, over those about `Staking` |
| `DistributionProofs` | the safety of `Distribution`, and that it implements `Payouts` |
| `SetupProofs` | what runs of the creation script report, and that a namespace stays |
| `TxErrorsProofs` | that `fromTxError` reports the errors of this program's enum, and no other program's |
| `WireProofs` | that whatever is encoded is decoded, and every property of `Wire` for the program and the generated client |
| `TransactionsProofs` | every property of `Transactions`: addresses, signatures, and what a client may still rely on when its transaction lands |

The modules about amounts and times (`Staking`, `Voting`, `Distribution`) take accounts
as found; those about accounts (`Transactions`, `Wire`) take amounts and times as reasons for
which any call may fail. `TxErrors` takes the error that is raised as given. Nothing a
property is about is left out on both sides.

### State and actions against the code

`Staking`: `ns` holds the configuration fields of `Namespace`, `lockup_amount` its
counter; `lockup[k]` is the account at the seeds `["lockup", ns, k]`, with `open`
for its existence; `escrow[k]` is the balance of that lockup's associated token
account, `wallet[k]` of the holder's. `Stake`, `StakeTo`, `Unstake` and
`UpdateNamespace` are the handlers, `Tick`, `Transfer` and `Donate` the
environment. `Staked` is the whole case distinction of `stake` (first
stake, unset end, top-up); `Stake` adds the constraints, the transfer, the counter and the
final `valid()`. Owner and namespace keys inside accounts, rent and mint are left
out; `has_one` and `seeds` checks appear as the function's argument.

A top-up whose capped end lies before now computes a negative `remaining`, which
becomes a huge `u128`: a nonzero amount then makes a checked operation panic or
leaves an end that `valid()` rejects. The guard in `TopUpAllowed` states just that.
`override_now` is written by no instruction, so it is 0 and `now()` is the clock.

`Voting`: `proposal[n]` is the account at the seeds `["proposal", ns, n]`,
`vote_record[k][n]` the one for owner and proposal. The uri is in `Wire` and `Transactions`; the
status, which nothing reads or writes, is left out. A choice is any u8 (`ChoiceArgs`), and the
checked sums fail where they exceed `MaxU64`. `HasPassed` and `HasQuorum` are
for clients: no handler calls them, a property does.

`Distribution`: an address is the triple uuid, cosigner_1, cosigner_2 of the seeds. A
request is a prepared claim transaction; `signatures` says who has signed it; signing
is off chain, so it may happen at any time and a signed request may be sent at any time,
or again. One mint is modelled.
Shards are token accounts opened by anyone with a distribution as authority,
filled by anyone, and closed by a withdrawal.

`Transactions`: `store` maps addresses to accounts, where an address is a tuple of a kind and
what it is derived from, so two addresses are equal exactly when they are derived alike;
`inflight` holds what was sent. `Buildable` lists what a client can build with any SDK it may
hold (any councils, any nonce up to one beyond the next), `Signed` turns the named accounts into keys
by position with either table, `Land` finds the accounts by the program's own order (`Bound`),
checks flags, addresses, owners and `has_one` (`AddressesOk`) and writes. A transaction may always
fail, or never land. `FreeOrTaken`, `OfAnyNs` and the like are mutated forms.

`Wire`: one account of each class and one call at a time, each call with a number; a byte is
the value, type and place it was written for, so that a field read from bytes of another one is
`Garbage`. Every entry of `Effects` says how a handler treats an account (create, save over the
old bytes, close), which fields it takes from the arguments and which it computes. `meant` is what the
handler had in memory, which `ReadersSeeWhatWasMeant` compares with what
is read back. Amounts above 2^53 in JSON are covered by `ThroughJson`, which passes only what
`toJSON` writes as a string or what fits a number exactly.

`NamespaceSetup`: `pc[r]` is the line of the script that run `r` awaits; `tx[r]` its transaction, with the
blocks for which its blockhash is still good. `RpcError` is a call that throws; `GetAccountInfo` may see
the ledger before the account was made; `SendRawTransaction` may lose its answer;
`ConfirmTransaction` may give up after expiry although the transaction has landed.

`TxErrors`: `stack` is the programs that run, `raised` who raised which code, `logs` the lines that
were kept; they are the runtime's, a program's own messages are left out. `FromTxError` takes the first failure line of the log, whatever program it is of.

### Mutated forms

The definitions marked "Mutated form" are plausible mistakes in the definition that
follows them (a missing constraint, a missing reset, a strict comparison relaxed). No
action uses them; substituting one shows that a property can fail.

## 3. Runs

| run | checks | states |
|---|---|---|
| `steady` | all the safety of staking while the council leaves the saturation alone (one other configuration, with another default percentage and minimal duration): `TypeOK`, `LockupAccounting`, `NoOwnerLockedOut`, `LockBounded`, `WeightedStartInPast`, `RunningLockOnlyGrows`, `PercentagesStick` | 542 000 |
| `shrinking` | what survives when the council also shortens it: `NoOwnerLockedOut`, `LockBounded` (`LockupAccounting` is proved for every configuration); and `LockEventuallyEnds` under `FairSpec` | 68 000 |
| `topup` | `TopUpNeverInflates`, `TopUpKeepsPower` on a fine grid | 27 700 |
| `voting` | two proposals that may overlap over all of staking: `VotingTypeOK`, `TallyMatchesRecords`, `VotedStakeStaysLocked`, `NoTokenVotesTwice`, `NoVoterCrowdedOut`, `NextNonceFree`, `VotedProposalIsFinal`, `OutcomeSettled` | 577 000 |
| `distribution` | `TypeOK`, `PaidOnce`, `ClaimsAreCosigned`, `TokensConserved`, and the refinement `ImplementsPayouts` | 269 000 |
| `ledger` | clients, tables, addresses and signatures over a whole ledger: `KeysBindAsMeant`, `FreshTxAccepted`, `NonceNamesProposal`, `VotedTextIsFinal`, `ActsAreSigned`, `AccountsKeepTheirIdentity` | 26 000 |
| `readers` | bytes and layouts: `ReadersSeeWhatWasMeant`, `NeverAnotherClass`, `SpaceSuffices` | 25 000 |
| `errors` | `NeverAnotherError`, `OwnErrorIsReported` | 154 000 |
| `setup` | the creation script under a failing node: `ReportsAreTrue`, `MintDeliversInFull`, `NeverRedeployed`, `EveryRunEnds` | 62 000 |
| `shortened`, `token22`, `idl` | three statements of the repository that the code does not keep, see 5 | |

### Bounds and why they are enough

* **Keys**: two, one of which is both councils. Double voting, donations,
  `stake_to` and council changes each involve two parties; the accounting is
  proved for any number.
* **Time** runs from 1 to `MaxTime` in units of the minimal duration, saturation 4 and
  shortened to 2: there is time to stake, top up at another moment, extend to the
  cap, expire, unstake and stake again.
* **Tokens**: one token in each wallet, a legacy lockup of 1, amounts 0 and 1. One
  key may collect all of them in one lockup, so amounts up to the supply occur. The
  weighted average needs more: `topup` covers amounts 1 to 40, ages 0 to 10,
  ends up to the cap and three multipliers, from every running lockup that
  satisfies the invariants rather than from the reachable ones.
* **Widths**: `MaxI64` is 9 in `MCStaking`, so the checked addition of the cap and of
  the minimal end do fail; the cap's unchecked addition in `stake_to` stays in range for a
  clock far from the width, which `StakingAssumption` states.
* **Votes**: two proposals, start and end times out of 2, 3 and 5, choices 0, 1 and 6, of which the last
  has no counter. Locks end at 5, 6 or 7, so a token that has voted can be unlocked and locked again in
  the last second of a proposal. The widths are so small (`MaxU64` 19, a token has up to 17 of power)
  that one vote, one counter, the total and the threshold each overflow in some state, and that the votes
  of two honest holders just fit.
* **Distributions**: two addresses whose cosigners are the same keys in swapped
  roles, two shards, two digests, three requests of which two are one voucher signed for
  two shards, two tokens, two councils.
* **Ledger**: two transactions in flight or landed, out of all twelve instructions, with either table, from
  an empty ledger with two funded wallets and from one with two lived-in namespaces of the same
  mint whose councils are exchanged (each with a lockup, a proposal, a distribution and its token
  account). The lived-in ledger is built by the handlers of the model themselves. Two
  transactions are what a race needs; more history is in the initial ledger.
* **Bytes**: up to five calls, texts of 0, 255 and 257 bytes: shortest and longest
  that `valid` accepts, and too long. With fresh, former, prefunded, closed and recreated accounts.
  A handler's effect does not depend on amounts here, so longer sequences repeat earlier contents.
* **Errors**: four calls, three deep, room for seven lines, any of the codes of any program.
* **Setup**: two usable runs with different councils and an unusable one, blockhashes good for two
  blocks, balances 0 to 4 around the minimum of 3, four mints with and without denied extensions.

`CHECK_DEADLOCK` is off in every configuration: clocks, calls and runs are bounded, so behaviours
end, and a program on chain may simply not be called.

### Assumptions

Each module that needs them states its assumptions on constants as a named `ASSUME`, which TLC
evaluates in every run and the proofs cite. `StakingAssumption` says what the models take for granted: the supply fits a u64
(the token program ensures it); no configuration has a saturation above
`i64::MAX` (nothing in the code ensures it, see the hazards); legacy lockups are what
the earlier `stake` left behind, within the saturation found at the start; the clock is
positive and monotone. `DistributionAssumption`: shards, digests, claimants and councils are finite
sets, so that balances can be summed. `WireAssumption`: lengths of texts are naturals, the empty text
included, as `Proposal::valid` has no lower bound. `SetupAssumption`: the script's minimal balance covers rent and
fee, and only mints of Token-2022 have extensions. `ErrAssumption`: the bounds are naturals.
`TxAssumption`: a ledger that clients find is one that the program leaves behind (`LedgerOk`: accounts
at the addresses of their seeds, proposals up to the nonce, votes for proposals that exist), all of one
mint whose token program made the token accounts (`Minted`). What `LedgerOk` and `Minted` say is
itself proved to be kept by every step, so it assumes no more than that the program was deployed on an
empty ledger some time ago.
The mint's own powers are outside the models: an authority that freezes a token
account would block transfers, `unstake` included.
Hashes and derived addresses are taken to be free of collisions. The code of other projects (the
token programs, the runtime's log, web3.js, Anchor's account checks) is modelled from how this
repository uses it; such definitions are marked external in `PROJECT.json`.

## 4. Fairness

`FairSpec` (`Staking`) has weak fairness of `Tick` and nothing else: time passes. No holder or
council owes anybody a transaction, so no action of the program is fair.
`LockEventuallyEnds` says that a lock opened early enough for the bounded clock
reaches a state in which its owner can unstake, or is gone. It is not about the owner
actually doing so.

`SetupFairness` (`NamespaceSetup`) has weak fairness of `NewBlock` (the cluster makes blocks) and of
each run's own steps (the node answers a call or the call throws, web3.js's timeouts see to that). `Land`, `Kill` and
`Pay` are not fair: a transaction that was sent need not land. `EveryRunEnds` therefore rests
on the expiry that `confirmTransaction` watches.

## 5. Where code and comments disagree

With a run that shows it:

1. `stake` promises to "forbid shortening end_ts" (`ins_v1/stake.rs:109`), but it
   compares the argument before capping it. After the council has lowered
   `lockup_max_saturation`, a top-up or extension moves a running lock's end back to
   the new cap (run `shortened`). Since old area and end are then out of step, the weighted
   start moves back with it, even before `start_ts`, so that the shorter lock keeps the
   old duration's power; this is why `RunningLockOnlyGrows` and `WeightedStartInPast` belong
   to `steady` only.
2. `src/README.md:3` promises "any Tokenk or Token22", but `txClaimFromDistribution`
   (`index.ts:414`) derives the claimant's account with the library's default program; for a
   Token-2022 mint the program refuses every claim the SDK builds (run `token22`).
3. The IDL (`types/vetoken.ts:1788`, `idl/vetoken.json:665`) puts `weightedStartTs` behind the
   padding, the struct (`states.rs:75`) before it; a reader that goes by the IDL takes padding
   for the weighted start (run `idl`). The generated client has the struct's order.

Read from the code while modelling, without a run of their own:

4. `vote` requires stake locked past the proposal ("stake longer than the proposal
   duration can vote", `lib.rs:75`), but only when the vote is cast: by 1, the
   voter can then shorten the lock. Hence `SaturationFixed` in `VotersStayLocked`.
5. `has_passed` takes a proposal as ended at `now >= end_ts`, `vote` accepts votes at
   `now <= end_ts`: in the second `end_ts` a reported outcome can still change.
   `OutcomeSettled` begins a second later.
6. A digest is described as "per ns per claimant" (`claim_from_distribution.rs:15`);
   its account is per namespace only (`:36`).
7. A distribution's seeds are documented as namespace and uuid (`states.rs:285`); they
   also hold the ordered cosigners (`init_distribution.rs:24`).
8. `update_namespace` writes every field of its arguments: of two updates prepared from the same
   read, the later one wins whole and undoes the first.
9. `has_passed` multiplies the total with the percentage in a checked u64, so it panics for a
   total above `u64::MAX / proposal_min_pass_pct` (`HasPassedAnswers`); only clients call it.
10. A vote names a proposal, not its text: an update that lands before the first vote changes what
    that voter agreed to. From the first vote on the text is fixed (`VotedTextIsFinal`).
11. The script validates numeric parameters that it never sends: `init_namespace` takes none and the
    new namespace has the defaults. A number that does not parse is NaN, which no comparison rejects
    (`Usable`).
12. `generated/errors/anchor.ts` was made from a shorter table than anchor-lang 0.29 has. It lacks 1500
    (`EventInstructionStub`, which the dispatcher returns as `programs/vetoken/Cargo.toml:19` does not turn on
    `event-cpi`), 1002 (`IdlAccountNotEmpty`), 2021 to 2023 (the `token_program` constraints) and 4101
    (`TryingToInitPayerAsProgramAccount`). These errors are this program's, and become null. The repository
    promises nothing about them, so `OwnErrorIsReported` is about the program's enum and the
    client's own table. The framework is not among the sources: `FrameworkErrors` is external.
13. `fromTxError` asks for an own property `logs`. The web3.js of the lock file, 1.91.7, has one; in later
    versions it is a getter, and every error would be null. The model has the former.
14. The expression for a failure (`generated/errors/index.ts:22`) is not anchored to the start of a line, so it
    also matches a `Program log:` line that quotes a failure. In the model programs log no lines of their
    own; `NeverAnotherError` and `OwnErrorIsReported` hold for logs without such a quotation.

## 6. Proofs

### Accounting

`StakingProofs` proves, for every finite set of keys and every choice of
configurations, legacy lockups, amounts, times and widths that `StakingAssumption` and
`WidthAssumption` allow:

* `TypeCorrect`: `Spec => []TypeOK`;
* `Accounting`: `Spec => []LockupAccounting`;
* `OwnerNeverLockedOut`: `Spec => []NoOwnerLockedOut`;
* `PercentagesNeverChange`: `Spec => PercentagesStick`.

The argument. `LockupAccounting` alone is not inductive: a top-up truncates
`new_amount` to a u64, and only because a lockup's amount is part of the sum, and the sum
with the deposit has just passed its `checked_add`, is nothing lost. `unstake` pays
from an escrow, which must hold the amount. So the inductive invariant is

    AccountingInv == TypeOK /\ Backing /\ LockupAccounting

where `Backing` says that open lockups have tokens, closed ones none, and every escrow
covers its lockup. `GrowthKeepsAccounting` treats both kinds of stake at once (a lockup
replaced by one larger by the deposit); `UnstakeKeepsAccounting` and
`OthersKeepAccounting` do the rest. All of it needs how a sum changes with one
summand: `SumChange` and `SumBounds` in `SumProofs`. The library defines
`SumFunction` by a CHOOSE of a recursive function over subsets; the proof shows that a
table satisfying the recursion exists, by a minimal counterexample on cardinality, and that
the table gives the same result in whichever order elements are removed, by a minimal
counterexample on subsets. The library's induction theorems are avoided, as they take an
operator as parameter.

### Times of a lockup

`StakingProofs` also proves, under the same assumptions,

* `LocksAreBounded`: `Spec => []LockBounded`. It adds to `AccountingInv` that the
  configuration in force is one of the known ones (`BoundInv`), so that the cap
  applied by any stake is within the longest saturation;

and, for a council that never changes the saturation (`SaturationFixed`, an assumption
of the theorems and not of the module),

* `WeightedStartsInPast`: `Spec => []WeightedStartInPast`;
* `RunningLocksOnlyGrow`: `Spec => RunningLockOnlyGrows`.

The assumption is needed: the run `shortened` shows a lock cut back without it. With it
the invariant is `AgeInv`: every open lock started in the past, ends within that
one saturation of its start, and has its weighted start between its start and now.
The second part makes the cap harmless: an end that was allowed once is still allowed, so
capping a later end never goes below it. Then the new area lies between
`n * (cap - now)` and `n * (cap - w)`, where `n` is the new amount and `w` the old
weighted start, so dividing by `n`, rounded or not, gives a weighted start between
`w` and now (`WeightedStartBounds`, from `QuotientBounds` and `ProductGrows`).
`StepGrowsLock` goes through the actions that can reach a running lock.

### The power of a top-up

`TopUpsNeverInflate` (`Spec => TopUpNeverInflates`) and `TopUpsKeepPower` (`Spec => TopUpKeepsPower`), also under
`SaturationFixed`, bound what averaging the weighted start does to voting power, for any amounts, times,
percentages, minimal durations and saturations. Both need `AgeInv` only to put the durations of the
whole and of its parts on the ramp between the minimal duration and the saturation, ends
included (`TopUpResult`, `PowerOnRamp`): there power is `n + (Gain * f) \div ramp`. The rest is arithmetic
(`PowersAdd`). The duration of the whole is the average of the parts', rounded down to a second
(`AverageDuration`). What `Gain` itself loses to its division by 100 is less than one unit in each part, and the
whole loses the same hundredths, or 100 less (`GainLosses`). So gains times durations add up to within one
`ramp` (`WholeGainsLittle`, `WholeGainsEnough`), and the three quotients lose one unit more (`QuotientsAdd`).

The proof corrected the second property. It used to allow one unit of rounding; a top-up of 15
tokens at 140 percent, at the cap, by 2 tokens at the minimal duration loses two. The grid of
`topup` did not hold that case and now does.

### Voting

Each step of `Voting` is a step of `Staking` or leaves it alone (`StakingStep`), so
every behaviour of `Voting` is one of `Staking` and the theorems above apply (`StakingPart`).
`VotingProofs` proves

* `VotingTypes`, `TalliesMatch`, `NonceAlwaysFree`: the types, `TallyMatchesRecords` and
  `NextNonceFree` always hold;
* `VotedProposalsAreFinal`: `VotingSpec => VotedProposalIsFinal`;
* `VotersStayLocked`: under `SaturationFixed`, `VotingSpec => []VotedStakeStaysLocked`
  (by 4 of section 5 the assumption is needed).

The inductive invariant `VotingInv` adds to the tallies that proposals exist exactly for
the nonces used so far, and that every record has positive power and an existing
proposal. The latter is why a vote closes a proposal to updates: `can_update` reads the
total, and with a power of zero recorded it would still allow them. A vote changes one
summand of one counter (`SumChange` again).

`OutcomesAreSettled` (`VotingSpec => OutcomeSettled`) follows from the same invariant: after its end
a proposal with votes is final, and one without has a total of zero, which stays below every
quorum that `valid` accepts even when `update_proposal` still moves its times.

`TokensVoteOnce` (under `SaturationFixed`, `VotingSpec => []NoTokenVotesTwice`) has two more
invariants. `PercentagesValid`: a lockup's percentages are those of some valid configuration;
`VotesBacked`: while a proposal takes votes, each vote on it is at most what the voter's own lockup can
vote with at most (`MaxVotingPower`). The second holds because the power of a vote is the area times
a quotient of at most one, and because the voter's lock runs past the proposal (`VotedStakeStaysLocked`),
so that it can only have grown and its maximum with it (`MaxPowerGrows`). The total is the sum of the
votes cast (`TotalIsCast`), compared summand by summand (`SumGrows`).

`NobodyCrowdedOut` (under `SaturationFixed`, `VotingSpec => []NoVoterCrowdedOut`) rests on the same invariants
(`BackedInvariant`): the voter's power, put next to the powers recorded for a choice, is at most
what the voters' lockups and the voter's own can vote with now, holder by holder (`BackedVotesFit`).

### Distributions

`DistributionProofs` proves `TypeCorrect`, `DigestsPayOnce`, `PaymentsAreCosigned` and
`SupplyConserved` for any finite sets of shards, digests, claimants and councils. `PaidOnce` relates
the sum of what claimants hold to the claim accounts; one claim changes one summand of each, by the
same amount. For `TokensConserved` each action changes at most two of three sums (shards, claimants,
councils), which `SumChange` turns into equal and opposite differences; a closed shard must have been
emptied in the same instruction, which is where a withdrawal that only closes would lose tokens.

`DistributionImplementsPayouts` is the refinement. The abstract pot of a distribution is the sum over
the shards that belong to it (`Share`), so most of the proof is about pots: a step on a shard changes
the pot of its own distribution by the difference (`PotChange`) and no other one (`OnlyOnePotChanges`).
A claim is then an abstract settlement, a withdrawal or a deposit changes one pot, and everything
else stutters.

### Creation and errors

`SetupProofs` proves, for any number of runs, councils and mints, `ReportsTrue`, `MintsDeliver` and
`NamespacesStay`. `SetupInv` says that a run's transaction is signed at one line only, that at most
one was ever executed, and that the namespace is the one it made, on a mint that passes
the deny list (`MadeByOne`, `OnValidMint`). A report is then backed by what was executed
(`ReportsBacked`), also when the answer to `sendRawTransaction` was lost.

`TxErrorsProofs` proves `ReportsOwnErrors` and `OwnErrorsAreReported` for any depth of calls and any
room in the log: what is reported is the error raised, and every error of the program's enum, or of the
framework as far as the client's table has it, is reported. `ErrInv` follows a failure through the log: every failure line carries the code
that was raised, and if the line of the raiser was kept it is the first one, as callers fail after the
programs they call. That `fromTxError` takes the first match is what the second theorem needs.
The tables are compared once (`CodesHaveOneName`, `FrameworkNames`, `OwnFrom6000`).

### The ledger

`TransactionsProofs` proves every property of `Transactions`, for any users, councils, deployers and
number of transactions in flight, landing in any order.

* `LedgerOk` is the invariant: every account is at the address of its seeds (`AccountOk`), a
  namespace has its proposals up to its nonce and no others (`ProposalsOk`), and a vote's proposal
  exists, has votes and has the text that was voted on (`VotesOk`). Each handler has a lemma that
  says what it adds, updates or removes and that it keeps `LedgerOk` (`StakeStep`, `ClaimStep`,
  ...). An update of a text needs `votes = 0`, and by `VotesOk` no vote is then for it.
* `NoncesNameProposals` and `VotedTextsAreFinal` follow from the invariant, `IdentitiesStay`
  from the effects of the handlers.
* `EveryActIsSigned` combines the effects with `AskedHasSigned`: a name that the program's table marks
  as signer is bound to a key that signed, which `Signatures` looks up for each handler. The rest is
  that the `has_one` and `seeds` constraints tie that name to the account in question.
* `KeysAlwaysBind`: the three tables of each instruction are equal (`TablesAgree`), and each builder
  names exactly the accounts of its table (`BuildersComplete`), so binding by position inverts
  listing by position (`SignedKeysOk`).
* `FreshTxsAreAccepted` has one lemma per transaction (`StakePasses`, `ClaimPasses`, ...): from what the
  accounts say, by `AccountOk` they are at the addresses the SDK derives, and an address that must be
  free is free because an account at it would say something else. It assumes
  `MintProgram = TokenProgram`. That is not a convenience: without it the run `token22` shows a claim
  refused (2 of section 5).

For the sake of these proofs records are written out rather than combined with `@@`, whose definition
the provers cannot see through, and record-valued arguments under a quantifier are named
(`NewCouncils`).

### Bytes

`WireProofs` proves, for texts of any lengths and any number of calls,

* `DecodeEncode`: for every well-formed layout (no name twice, and no text but the uri), a struct is
  decoded from any data that begins with its encoding, whatever follows;
* `WireInvariant`: `WireSpec => []WireInv`;
* `ReadersSee`, `ClassesKeptApart` and `TextsFit`: `ReadersSeeWhatWasMeant`, `NeverAnotherClass` and
  `SpaceSuffices` always hold.

`Encode` and `Decode` run through a layout field by field, and the library's induction theorems
are out of reach here. `Joins` stands in for them: the table of all partial
encodings, which exists by a fact about initial segments (`Segment`, from least elements).
`FlattenJoins` equates it with the fold that `Encode` is, `JoinsOccur` says where each field stands, and
`ReadBack` that reading a field there gives its value and the place of the next. The table of `Decode`
then has one row per field, each right if the one before it is.

A value is told from zeroed bytes in every field it may stand in (`Readable`): the exception would be
a text that has a length but no bytes, and a text without bytes is what a zeroed account has.

`ReadersSeeWhatWasMeant` says what one decoder returns; a step needs more, namely what is in the bytes:

    WireInv == /\ calls \in Nat /\ DOMAIN account = Classes
               /\ \A class \in Classes : Holds(class, account[class], meant[class])

where an account that `Holds` is none, or only lamports, or `Says` what was meant: its data open with the
discriminator and the encoding of `meant[class]`, and a proposal is as long as `Space`
made it. What is behind the encoding is left open, as the padding of a former layout or the end of
a longer text may be there. The size of proposals is the part that `TextsFit` needs: a
rewrite never changes it (`Overwrites`), and 8 bytes, 256 for the text and the rest are enough for every
valid one (`SpaceType`). The lemmas on the tables (`NamespaceFields` to `SenderLayouts`) check once that
the layouts of the structs, the client and both argument tables are well formed and agree;
`EffectsAllowed` that each handler only assigns fields its account has, from arguments it gets; and
`FormerLockupReads` and `FormerVoteRecordReads` that an account in a former layout opens with today's
struct whose new fields and padding are zero. `WrittenHolds` and `CallHolds` then take any effect of any
instruction at once.

The IDL's account layout is not among the theorems: a reader that goes by it is wrong (the run `idl`).

### Only model-checked

* Liveness (`LockEventuallyEnds`, `EveryRunEnds`): the prover handles neither fairness nor ENABLED.
* What the three runs that end in a violation show.

## 7. Plan

Done: 1 `VeTokenState`, `Staking`, `MCStaking`, `MCTopUp`; 2 `Voting`; 3 `Payouts`,
`Distribution`; 4 `SumProofs`, `StakingProofs`, `VotingProofs`; 5 overflows of
votes, counters, totals and thresholds in `Voting`, and `OutcomeSettled`; 6 `NamespaceSetup`; 7 `Interface`,
`Sdk`, `Transactions`; 8 `Layouts`, `Borsh`, `Wire`; 9 `TxErrors`; 10 `DistributionProofs`; 11
`OutcomesAreSettled`, `TokensVoteOnce`; 12 `SetupProofs`; 13 `TxErrorsProofs`; 14 `TransactionsProofs`; 15
`TopUpsNeverInflate`, `TopUpsKeepPower`; 16 `WireProofs`; 17
`NoVoterCrowdedOut`, `NobodyCrowdedOut`. Nothing of the plan is left.

## 8. Not modelled

* `rewards_power`: no instruction of the program calls it.
* The integration tests, which were read for what the program intends and drive it on a local
  validator with the real clock.
* The bytes of discriminators (they are names here), the compute-budget instructions in front of
  every transaction, rent beyond the script's balance check, the wording of messages and logs.
* The type `Vetoken` in `types/vetoken.ts`, the same text as the value `IDL` next to it, and files
  that only export others again.
