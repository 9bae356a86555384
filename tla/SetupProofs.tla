---------------------------- MODULE SetupProofs -----------------------------
(***************************************************************************)
(* Theorems about NamespaceSetup, for any number of runs of the script.    *)
(***************************************************************************)
EXTENDS NamespaceSetup, FiniteSetTheorems, TLAPS

Places == {"start", "balance", "account", "blockhash", "send", "confirm"} \cup Ended

Statuses == {"none", "signed", "pending", "executed", "rejected"}

Executed(r) == tx[r].status = "executed"

(***************************************************************************)
(* The inductive invariant: a run's transaction is signed once; at most    *)
(* one was ever executed, the namespace is what it made, on a mint that    *)
(* init_namespace accepts; and a run ends "created" only on its own        *)
(* transaction, "exists" only on a namespace that is there.                *)
(***************************************************************************)
SetupTypeOK ==
    /\ pc \in [Runs -> Places]
    /\ tx \in [Runs -> [status : Statuses, ttl : Nat]]

SignedOnce ==
    \A r \in Runs :
        /\ pc[r] \in {"start", "balance", "account", "blockhash"} => tx[r].status = "none"
        /\ pc[r] = "send" => tx[r].status = "signed"

MadeByOne ==
    /\ \A r, s \in Runs : Executed(r) /\ Executed(s) => r = s
    /\ \A r \in Runs : Executed(r) => namespace = NewNamespace(Config[r].councils)
    /\ namespace = NoNamespace \/ \E r \in Runs : Executed(r)

OnValidMint == mint \in Mints /\ (namespace.exists => ValidTokenMint(mint))

ReportsBacked ==
    \A r \in Runs : /\ pc[r] = "created" => Executed(r)
                    /\ pc[r] = "exists" => namespace.exists

SetupInv ==
    /\ SetupTypeOK
    /\ SignedOnce
    /\ MadeByOne
    /\ OnValidMint
    /\ ReportsBacked

\* A namespace that exists is not the absence of one.
LEMMA NamespaceKinds ==
    /\ NoNamespace.exists = FALSE
    /\ \A councils : /\ NewNamespace(councils).exists = TRUE
                     /\ NewNamespace(councils).councils = councils
                     /\ NewNamespace(councils) # NoNamespace
<1>1. NoNamespace.exists = FALSE
  BY DEF NoNamespace
<1>2. ASSUME NEW councils
      PROVE  /\ NewNamespace(councils).exists = TRUE
             /\ NewNamespace(councils).councils = councils
  BY DEF NewNamespace
<1> QED
  BY <1>1, <1>2

\* Before the first call nothing has been sent.
LEMMA InitSetup == SetupInit => SetupInv
<1> SUFFICES ASSUME SetupInit PROVE SetupInv
  OBVIOUS
<1>1. /\ \A r \in Runs : pc[r] = "start" /\ tx[r].status = "none"
      /\ namespace = NoNamespace /\ mint \in Mints
  BY DEF SetupInit
<1>2. SetupTypeOK
  BY DEF SetupInit, SetupTypeOK, Places, Statuses
<1>3. SignedOnce /\ MadeByOne /\ OnValidMint /\ ReportsBacked
  BY <1>1, NamespaceKinds DEF SignedOnce, MadeByOne, OnValidMint, ReportsBacked, Executed
<1> QED
  BY <1>2, <1>3 DEF SetupInv

\* A step of a run that moves on, without touching its transaction.
LEMMA MoveKeeps ==
    ASSUME SetupInv, NEW r \in Runs, NEW place \in Places, Goto(r, place),
           UNCHANGED <<tx, namespace, mint>>,
           place \in {"start", "balance", "account", "blockhash"} => tx[r].status = "none",
           place # "send",
           place = "created" => Executed(r),
           place = "exists" => namespace.exists
    PROVE  SetupInv'
<1>1. pc \in [Runs -> Places] /\ pc' = [pc EXCEPT ![r] = place]
  BY DEF SetupInv, SetupTypeOK, Goto
<1>2. \A s \in Runs : pc'[s] = IF s = r THEN place ELSE pc[s]
  BY <1>1
<1>3. SetupTypeOK'
  BY <1>1 DEF SetupInv, SetupTypeOK
<1>4. SignedOnce'
  BY <1>2 DEF SetupInv, SignedOnce
<1>5. MadeByOne' /\ OnValidMint'
  BY DEF SetupInv, MadeByOne, OnValidMint, Executed
<1>6. ReportsBacked'
  BY <1>2 DEF SetupInv, ReportsBacked, Executed
<1> QED
  BY <1>3, <1>4, <1>5, <1>6 DEF SetupInv

\* A step that gives a run's transaction another status than "executed", and
\* takes none back.
LEMMA StatusKeeps ==
    ASSUME SetupInv, NEW r \in Runs, NEW status \in Statuses, NEW ttl \in Nat,
           ~Executed(r), status # "executed",
           tx' = [tx EXCEPT ![r] = [status |-> status, ttl |-> ttl]],
           UNCHANGED <<namespace, mint>>,
           pc' \in [Runs -> Places], \A s \in Runs \ {r} : pc'[s] = pc[s],
           pc'[r] \in {"send", "confirm", "failed"} \/ pc' = pc,
           pc'[r] \in {"start", "balance", "account", "blockhash"} => status = "none",
           pc'[r] = "send" => status = "signed"
    PROVE  SetupInv'
<1>1. /\ tx \in [Runs -> [status : Statuses, ttl : Nat]]
      /\ [status |-> status, ttl |-> ttl] \in [status : Statuses, ttl : Nat]
  BY DEF SetupInv, SetupTypeOK
<1>2. \A s \in Runs : tx'[s].status = IF s = r THEN status ELSE tx[s].status
  BY <1>1
<1>3. \A s \in Runs : Executed(s)' <=> Executed(s)
  BY <1>2 DEF Executed
<1>4. SetupTypeOK'
  BY <1>1 DEF SetupTypeOK
<1>5. SignedOnce'
  BY <1>2 DEF SetupInv, SignedOnce
<1>6. MadeByOne' /\ OnValidMint'
  BY <1>3 DEF SetupInv, MadeByOne, OnValidMint
<1>7. ReportsBacked'
  BY <1>3 DEF SetupInv, ReportsBacked
<1> QED
  BY <1>4, <1>5, <1>6, <1>7 DEF SetupInv

\* Replacing the status alone.
LEMMA StatusOnly ==
    ASSUME tx \in [Runs -> [status : Statuses, ttl : Nat]], NEW r \in Runs, NEW status
    PROVE  [tx EXCEPT ![r].status = status]
              = [tx EXCEPT ![r] = [status |-> status, ttl |-> tx[r].ttl]]
<1>1. tx[r] \in [status : Statuses, ttl : Nat]
  OBVIOUS
<1>2. [tx[r] EXCEPT !.status = status] = [status |-> status, ttl |-> tx[r].ttl]
  BY <1>1
<1>3. [tx EXCEPT ![r].status = status] = [tx EXCEPT ![r] = [tx[r] EXCEPT !.status = status]]
  BY Zenon
<1> QED
  BY <1>2, <1>3

\* The transaction that finds no namespace, on a valid mint, is the one.
LEMMA LandKeeps ==
    ASSUME SetupInv, NEW r \in Runs, Land(r)
    PROVE  SetupInv'
<1>1. /\ tx \in [Runs -> [status : Statuses, ttl : Nat]]
      /\ pc \in [Runs -> Places] /\ pc' = pc /\ mint' = mint
      /\ tx[r].status = "pending" /\ ~Executed(r)
  BY DEF SetupInv, SetupTypeOK, Land, Executed
<1>2. pc[r] \notin {"start", "balance", "account", "blockhash", "send"}
  BY <1>1 DEF SetupInv, SignedOnce
<1>3. CASE InitNamespaceOk(Config[r].councils)
  <2>1. /\ namespace = NoNamespace /\ ValidTokenMint(mint)
        /\ namespace' = NewNamespace(Config[r].councils)
        /\ tx' = [tx EXCEPT ![r].status = "executed"]
    BY <1>3 DEF Land, InitNamespaceOk
  <2>2. \A s \in Runs : tx'[s].status = IF s = r THEN "executed" ELSE tx[s].status
    BY <1>1, <2>1
  <2>3. \A s \in Runs : ~Executed(s)
    BY <2>1, NamespaceKinds DEF SetupInv, MadeByOne
  <2>4. \A s \in Runs : Executed(s)' <=> s = r
    BY <2>2, <2>3 DEF Executed
  <2>5. SetupTypeOK'
    BY <1>1, <2>1 DEF SetupTypeOK, Statuses
  <2>6. SignedOnce'
    BY <1>1, <1>2, <2>2 DEF SetupInv, SignedOnce
  <2>7. MadeByOne'
    BY <2>1, <2>4 DEF MadeByOne
  <2>8. OnValidMint' /\ ReportsBacked'
    <3>1. namespace'.exists
      BY <2>1, NamespaceKinds
    <3>2. ValidTokenMint(mint')
      BY <1>1, <2>1
    <3>3. \A s \in Runs : pc[s] # "created"
      BY <2>3 DEF SetupInv, ReportsBacked
    <3> QED
      BY <1>1, <3>1, <3>2, <3>3 DEF SetupInv, OnValidMint, ReportsBacked
  <2> QED
    BY <2>5, <2>6, <2>7, <2>8 DEF SetupInv
<1>4. CASE ~InitNamespaceOk(Config[r].councils)
  <2>1. namespace' = namespace /\ tx' = [tx EXCEPT ![r].status = "rejected"]
    BY <1>4 DEF Land
  <2>2. tx[r].ttl \in Nat
    BY <1>1
  <2>3. tx' = [tx EXCEPT ![r] = [status |-> "rejected", ttl |-> tx[r].ttl]]
    BY <1>1, <2>1, StatusOnly
  <2> QED
    BY <1>1, <1>2, <2>1, <2>2, <2>3, StatusKeeps DEF Statuses
<1> QED
  BY <1>3, <1>4

\* Every step keeps the invariant.
LEMMA NextSetup == SetupInv /\ [SetupNext]_setupVars => SetupInv'
<1> SUFFICES ASSUME SetupInv, [SetupNext]_setupVars PROVE SetupInv'
  OBVIOUS
<1>1. /\ tx \in [Runs -> [status : Statuses, ttl : Nat]]
      /\ pc \in [Runs -> Places]
  BY DEF SetupInv, SetupTypeOK
<1>2. CASE UNCHANGED <<pc, tx, namespace, mint>>
  BY <1>2 DEF SetupInv, SetupTypeOK, SignedOnce, MadeByOne, OnValidMint, ReportsBacked, Executed
<1>3. ASSUME NEW r \in Runs, Start(r) \/ GetBalance(r) PROVE SetupInv'
  <2>1. PICK place \in {"balance", "account", "failed"} : Goto(r, place)
    BY <1>3 DEF Start, GetBalance
  <2>2. tx[r].status = "none" /\ UNCHANGED <<tx, namespace, mint>>
    BY <1>3 DEF SetupInv, SignedOnce, Start, GetBalance
  <2> QED
    BY <2>1, <2>2, MoveKeeps DEF Places, Ended
<1>4. ASSUME NEW r \in Runs, GetAccountInfo(r) PROVE SetupInv'
  <2>1. tx[r].status = "none" /\ UNCHANGED <<tx, namespace, mint>>
    BY <1>4 DEF SetupInv, SignedOnce, GetAccountInfo
  <2>2. (Goto(r, "exists") /\ namespace.exists) \/ Goto(r, "blockhash")
    BY <1>4, NamespaceKinds DEF GetAccountInfo
  <2> QED
    BY <2>1, <2>2, MoveKeeps DEF Places, Ended
<1>5. ASSUME NEW r \in Runs, GetLatestBlockhash(r) PROVE SetupInv'
  <2>1. /\ pc' = [pc EXCEPT ![r] = "send"] /\ ~Executed(r)
        /\ tx' = [tx EXCEPT ![r] = [status |-> "signed", ttl |-> ValidFor]]
        /\ UNCHANGED <<namespace, mint>>
    BY <1>5 DEF GetLatestBlockhash, Goto, SetupInv, SignedOnce, Executed
  <2>2. /\ pc' \in [Runs -> Places] /\ \A s \in Runs \ {r} : pc'[s] = pc[s]
        /\ pc'[r] = "send"
    BY <1>1, <2>1 DEF Places
  <2> QED
    BY <2>1, <2>2, SetupAssumption, StatusKeeps DEF Statuses
<1>6. ASSUME NEW r \in Runs, SendRawTransaction(r) PROVE SetupInv'
  <2>1. PICK place \in {"confirm", "failed"} : pc' = [pc EXCEPT ![r] = place]
    BY <1>6 DEF SendRawTransaction, Goto
  <2>2. /\ tx[r].status = "signed" /\ ~Executed(r)
        /\ tx' = [tx EXCEPT ![r].status = "pending"]
        /\ UNCHANGED <<namespace, mint>>
    BY <1>6 DEF SendRawTransaction, SetupInv, SignedOnce, Executed
  <2>3. tx[r].ttl \in Nat /\ tx' = [tx EXCEPT ![r] = [status |-> "pending", ttl |-> tx[r].ttl]]
    BY <1>1, <2>2, StatusOnly
  <2>4. /\ pc' \in [Runs -> Places] /\ \A s \in Runs \ {r} : pc'[s] = pc[s]
        /\ pc'[r] \in {"confirm", "failed"}
    BY <1>1, <2>1 DEF Places, Ended
  <2> QED
    BY <2>2, <2>3, <2>4, StatusKeeps DEF Statuses
<1>7. ASSUME NEW r \in Runs, ConfirmTransaction(r) PROVE SetupInv'
  <2>1. (Goto(r, "created") /\ Executed(r)) \/ Goto(r, "failed")
    BY <1>7 DEF ConfirmTransaction, Executed
  <2>2. UNCHANGED <<tx, namespace, mint>>
    BY <1>7 DEF ConfirmTransaction
  <2> QED
    BY <2>1, <2>2, MoveKeeps DEF Places, Ended
<1>8. ASSUME NEW r \in Runs, RpcError(r) \/ Kill(r) PROVE SetupInv'
  <2>1. PICK place \in {"failed", "killed"} : Goto(r, place)
    BY <1>8 DEF RpcError, Kill
  <2>2. UNCHANGED <<tx, namespace, mint>>
    BY <1>8 DEF RpcError, Kill
  <2> QED
    BY <2>1, <2>2, MoveKeeps DEF Places, Ended
<1>9. ASSUME NEW r \in Runs, Land(r) PROVE SetupInv'
  BY <1>9, LandKeeps
<1>10. CASE NewBlock
  <2>1. /\ tx' = [r \in Runs |-> [tx[r] EXCEPT !.ttl = IF @ > 0 THEN @ - 1 ELSE 0]]
        /\ UNCHANGED <<pc, namespace, mint>>
    BY <1>10 DEF NewBlock
  <2>2. ASSUME NEW r \in Runs
        PROVE  tx'[r] \in [status : Statuses, ttl : Nat] /\ tx'[r].status = tx[r].status
    BY <1>1, <2>1
  <2>3. tx' \in [Runs -> [status : Statuses, ttl : Nat]]
    BY <2>1, <2>2
  <2> QED
    BY <2>1, <2>2, <2>3 DEF SetupInv, SetupTypeOK, SignedOnce, MadeByOne, OnValidMint,
                            ReportsBacked, Executed
<1> QED
  BY <1>2, <1>3, <1>4, <1>5, <1>6, <1>7, <1>8, <1>9, <1>10
     DEF SetupNext, Step, Pay, setupVars

\* Every reachable state has the invariant.
LEMMA SetupInvariant == SetupSpec => []SetupInv
BY InitSetup, NextSetup, PTL DEF SetupSpec

----------------------------------------------------------------------------
\* What the runs report is true, however many run, fail, are killed or have
\* their answers lost: at most one has created the namespace, as it says.
THEOREM ReportsTrue == SetupSpec => []ReportsAreTrue
<1>1. SetupInv => ReportsAreTrue
  <2> SUFFICES ASSUME SetupInv PROVE ReportsAreTrue
    OBVIOUS
  <2>1. ASSUME NEW r \in Runs, pc[r] \in {"created", "exists"} PROVE namespace.exists
    BY <2>1, NamespaceKinds DEF SetupInv, MadeByOne, ReportsBacked
  <2>2. ASSUME NEW r \in Runs, pc[r] = "created" PROVE namespace.councils = Config[r].councils
    BY <2>2, NamespaceKinds DEF SetupInv, MadeByOne, ReportsBacked
  <2>3. Cardinality({r \in Runs : pc[r] = "created"}) <= 1
    <3> DEFINE done == {r \in Runs : pc[r] = "created"}
    <3>1. \A r, s \in done : r = s
      BY DEF SetupInv, MadeByOne, ReportsBacked
    <3>2. CASE done = {}
      BY <3>2, FS_EmptySet
    <3>3. CASE done # {}
      <4>1. PICK r \in done : TRUE
        BY <3>3
      <4>2. done = {r}
        BY <3>1, <4>1
      <4> HIDE DEF done
      <4> QED
        BY <4>2, FS_Singleton DEF done
    <3> QED
      BY <3>2, <3>3
  <2> QED
    BY <2>1, <2>2, <2>3 DEF ReportsAreTrue
<1> QED
  BY <1>1, SetupInvariant, PTL

\* Whatever mint the script names, a namespace only comes to stand on one
\* that init_namespace's list lets pass.
THEOREM MintsDeliver == SetupSpec => []MintDeliversInFull
<1>1. SetupInv => MintDeliversInFull
  BY SetupAssumption DEF SetupInv, OnValidMint, ValidTokenMint, DenyList, MintDeliversInFull
<1> QED
  BY <1>1, SetupInvariant, PTL

\* No run, retry or late transaction changes a namespace that exists.
THEOREM NamespacesStay == SetupSpec => NeverRedeployed
<1>1. [SetupNext]_setupVars => [namespace.exists => namespace' = namespace]_setupVars
  BY NamespaceKinds DEF SetupNext, Step, Start, GetBalance, GetAccountInfo, GetLatestBlockhash,
     SendRawTransaction, ConfirmTransaction, RpcError, Kill, Land, InitNamespaceOk, NewBlock,
     Pay, setupVars
<1> QED
  BY <1>1, PTL DEF SetupSpec, NeverRedeployed

=============================================================================
