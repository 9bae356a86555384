--------------------------- MODULE NamespaceSetup ----------------------------
(***************************************************************************)
(* scripts/create-namespace.ts and init_namespace.  Several runs of the    *)
(* script, at once or one after another, with the same deployer and mint;  *)
(* each may be killed, every call to the RPC node may fail, its answer may *)
(* be late or lost, and a sent transaction lands before its blockhash      *)
(* expires or never.                                                       *)
(***************************************************************************)
EXTENDS VeTokenState, FiniteSets

CONSTANTS
    Runs,           \* runs of the script
    Config,         \* the environment variables of each run
    Mints,          \* mints that TOKEN_MINT_ADDRESS may name
    ValidFor,       \* blocks for which a blockhash is good
    MinBalance,     \* what the script wants the deployer to have
    Rent, Fee,      \* what init_namespace and a transaction cost
    MaxBalance      \* bound on what the deployer has

ASSUME SetupAssumption ==
    /\ ValidFor \in Nat \ {0}
    /\ Fee \in Nat /\ Rent \in Nat /\ Fee + Rent <= MinBalance
    \* Only the token-2022 program has extensions.
    /\ \A m \in Mints : m.program # "token 2022" => m.extensions = {}

VARIABLES
    pc,             \* where each run is
    tx,             \* the transaction of each run
    namespace,      \* the namespace account
    lamports,       \* the deployer's balance
    mint

setupVars == <<pc, tx, namespace, lamports, mint>>

NoNamespace == [exists |-> FALSE]

----------------------------------------------------------------------------
(***************************************************************************)
(* init_namespace                                                          *)
(***************************************************************************)
\* Mutated form: an extension is missing from the list.
DenyListWithoutDelegate ==
    {"TransferFeeConfig", "TransferFeeAmount", "NonTransferable",
     "ConfidentialTransferMint"}

DenyList ==
    {"TransferFeeConfig", "TransferFeeAmount", "PermanentDelegate",
     "NonTransferable", "ConfidentialTransferMint"}

ValidTokenMint(m) == m.program = "token 2022" => m.extensions \cap DenyList = {}

Day == 86400
NewNamespace(councils) ==
    [exists |-> TRUE,
     councils |-> councils,
     lockup_default_target_rewards_pct |-> 100,
     lockup_default_target_voting_pct |-> 2000,
     lockup_min_duration |-> 14 * Day,
     lockup_min_amount |-> 10 * 1000000,
     lockup_max_saturation |-> 4 * 365 * Day,
     proposal_min_voting_power_for_quorum |-> 10 * 1000000,
     proposal_min_pass_pct |-> 60]

\* Mutated form: the account may exist.
InitNamespaceAgainOk(councils) == ValidTokenMint(mint) /\ lamports >= Fee + Rent

InitNamespaceOk(councils) ==
    /\ namespace = NoNamespace
    /\ lamports >= Fee + Rent
    /\ ValidTokenMint(mint)
    /\ NsValid(NewNamespace(councils))

----------------------------------------------------------------------------
(***************************************************************************)
(* The script                                                              *)
(***************************************************************************)
\* validateConfig and getDeployerKeypair.  A number that does not parse is
\* NaN, which no comparison rejects.
Usable(config) ==
    /\ config.complete
    /\ config.numbers \in {"valid", "nan"}
    /\ config.keypair \in {"array", "base58"}

Goto(r, place) == pc' = [pc EXCEPT ![r] = place]

Start(r) ==
    /\ pc[r] = "start"
    /\ Goto(r, IF Usable(Config[r]) THEN "balance" ELSE "failed")
    /\ UNCHANGED <<tx, namespace, lamports, mint>>

\* Any call may throw; sending does if the simulation fails.
RpcError(r) ==
    /\ pc[r] \in {"balance", "account", "blockhash", "send"}
    /\ Goto(r, "failed")
    /\ UNCHANGED <<tx, namespace, lamports, mint>>

GetBalance(r) ==
    /\ pc[r] = "balance"
    /\ Goto(r, IF lamports < MinBalance THEN "failed" ELSE "account")
    /\ UNCHANGED <<tx, namespace, lamports, mint>>

\* The node may be behind and not have the account yet.
GetAccountInfo(r) ==
    /\ pc[r] = "account"
    /\ \E seen \in {NoNamespace, namespace} :
          Goto(r, IF seen.exists THEN "exists" ELSE "blockhash")
    /\ UNCHANGED <<tx, namespace, lamports, mint>>

GetLatestBlockhash(r) ==
    /\ pc[r] = "blockhash"
    /\ Goto(r, "send")
    /\ tx' = [tx EXCEPT ![r] = [status |-> "signed", ttl |-> ValidFor]]
    /\ UNCHANGED <<namespace, lamports, mint>>

\* The node simulates the transaction and forwards it; its answer may be lost.
SendRawTransaction(r) ==
    /\ pc[r] = "send"
    /\ tx[r].ttl > 0 /\ InitNamespaceOk(Config[r].councils)
    /\ tx' = [tx EXCEPT ![r].status = "pending"]
    /\ Goto(r, "confirm") \/ Goto(r, "failed")
    /\ UNCHANGED <<namespace, lamports, mint>>

\* Mutated form: the error of the confirmed transaction is not looked at.
ConfirmAnyStatus(r) ==
    /\ pc[r] = "confirm"
    /\ \/ tx[r].status \in {"executed", "rejected"} /\ Goto(r, "created")
       \/ tx[r].ttl = 0 /\ Goto(r, "failed")
    /\ UNCHANGED <<tx, namespace, lamports, mint>>

\* Mutated form: waits for the signature alone.
ConfirmWithoutExpiry(r) ==
    /\ pc[r] = "confirm"
    /\ \/ tx[r].status = "executed" /\ Goto(r, "created")
       \/ tx[r].status = "rejected" /\ Goto(r, "failed")
    /\ UNCHANGED <<tx, namespace, lamports, mint>>

\* Once the blockhash has expired it may give up although the transaction
\* has landed.
ConfirmTransaction(r) ==
    /\ pc[r] = "confirm"
    /\ \/ tx[r].status = "executed" /\ Goto(r, "created")
       \/ tx[r].status = "rejected" /\ Goto(r, "failed")
       \/ tx[r].ttl = 0 /\ Goto(r, "failed")
    /\ UNCHANGED <<tx, namespace, lamports, mint>>

Ended == {"created", "exists", "failed", "killed"}

Kill(r) ==
    /\ pc[r] \notin Ended
    /\ Goto(r, "killed")
    /\ UNCHANGED <<tx, namespace, lamports, mint>>

----------------------------------------------------------------------------
(***************************************************************************)
(* The cluster                                                             *)
(***************************************************************************)
\* A rejected transaction still costs its fee.
Land(r) ==
    /\ tx[r].status = "pending" /\ tx[r].ttl > 0 /\ lamports >= Fee
    /\ IF InitNamespaceOk(Config[r].councils)
       THEN /\ namespace' = NewNamespace(Config[r].councils)
            /\ lamports' = lamports - Fee - Rent
            /\ tx' = [tx EXCEPT ![r].status = "executed"]
       ELSE /\ lamports' = lamports - Fee
            /\ tx' = [tx EXCEPT ![r].status = "rejected"]
            /\ UNCHANGED namespace
    /\ UNCHANGED <<pc, mint>>

NewBlock ==
    /\ \E r \in Runs : tx[r].ttl > 0
    /\ tx' = [r \in Runs |-> [tx[r] EXCEPT !.ttl = IF @ > 0 THEN @ - 1 ELSE 0]]
    /\ UNCHANGED <<pc, namespace, lamports, mint>>

\* The deployer spends or receives something elsewhere.
Pay ==
    /\ lamports' \in 0 .. MaxBalance
    /\ UNCHANGED <<pc, tx, namespace, mint>>

SetupInit ==
    /\ pc = [r \in Runs |-> "start"]
    /\ tx = [r \in Runs |-> [status |-> "none", ttl |-> 0]]
    /\ namespace = NoNamespace
    /\ lamports \in 0 .. MaxBalance
    /\ mint \in Mints

Step(r) ==
    \/ Start(r)
    \/ GetBalance(r)
    \/ GetAccountInfo(r)
    \/ GetLatestBlockhash(r)
    \/ SendRawTransaction(r)
    \/ ConfirmTransaction(r)
    \/ RpcError(r)

SetupNext ==
    \/ \E r \in Runs : Step(r) \/ Kill(r) \/ Land(r)
    \/ NewBlock
    \/ Pay

\* The node answers or fails every call, and blocks are made; nobody has to
\* spend, to kill a run, or to let a transaction land.
SetupFairness == WF_setupVars(NewBlock) /\ \A r \in Runs : WF_setupVars(Step(r))

SetupSpec == SetupInit /\ [][SetupNext]_setupVars /\ SetupFairness

----------------------------------------------------------------------------
(***************************************************************************)
(* Properties                                                              *)
(***************************************************************************)
\* What a run says is true: the namespace it calls created or existing is
\* there, and the one it calls created has the councils of this run and was
\* made by this run's transaction, whoever else ran.
ReportsAreTrue ==
    /\ \A r \in Runs : pc[r] \in {"created", "exists"} => namespace.exists
    /\ \A r \in Runs : pc[r] = "created" => namespace.councils = Config[r].councils
    /\ Cardinality({r \in Runs : pc[r] = "created"}) <= 1

\* No namespace stands on a mint that lets tokens shrink in transit, be taken
\* by a delegate, stand still or hide their amounts: escrow and tallies count
\* on none of these.
MintDeliversInFull ==
    namespace.exists =>
        mint.extensions \cap {"TransferFeeConfig", "PermanentDelegate",
                              "NonTransferable", "ConfidentialTransferMint"} = {}

\* A second run, a retry or a late transaction never deploys over a namespace,
\* whose councils may have changed it since.
NeverRedeployed == [][namespace.exists => namespace' = namespace]_setupVars

\* Every run ends, whatever is lost: no run waits for a transaction that can
\* no longer land.
EveryRunEnds == \A r \in Runs : <>(pc[r] \in Ended)

=============================================================================
