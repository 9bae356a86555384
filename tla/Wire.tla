-------------------------------- MODULE Wire ---------------------------------
(***************************************************************************)
(* The accounts of the program as bytes: clients encode arguments, the     *)
(* program decodes them, reads its accounts, changes fields and writes the *)
(* accounts back over the bytes that were there, and clients read them.    *)
(* There is one account of each class, and every call is known by its      *)
(* number.  What a call does to amounts, times and authorisations is in    *)
(* Staking, Voting and Distribution: here a call may fail for any reason.  *)
(***************************************************************************)
EXTENDS Layouts, Borsh

CONSTANTS
    UriSizes,       \* lengths of args.uri, in bytes
    MaxCalls        \* bound on the calls

ASSUME WireAssumption == UriSizes \subseteq Nat /\ MaxCalls \in Nat

VARIABLES
    calls,          \* calls that have succeeded
    account,        \* the account at the address of each class
    meant           \* what the handlers meant each account to say

wireVars == <<calls, account, meant>>

----------------------------------------------------------------------------
(***************************************************************************)
(* What each handler does to which account: the fields it takes over from  *)
(* arguments of the same name, and the fields it computes.  A stake that   *)
(* finds the lockup writes only three fields of it anew.                   *)
(***************************************************************************)
Effect(class, mode, taken, computed) ==
    [class |-> class, mode |-> mode, taken |-> taken, computed |-> computed]

NamespaceConfig ==
    {"securityCouncil", "reviewCouncil", "lockupDefaultTargetRewardsPct",
     "lockupDefaultTargetVotingPct", "lockupMinDuration", "lockupMinAmount",
     "lockupMaxSaturation", "proposalMinVotingPowerForQuorum",
     "proposalMinPassPct"}

NewLockup ==
    {"ns", "owner", "startTs", "endTs", "targetRewardsPct", "targetVotingPct",
     "weightedStartTs"}

LockupTotal == Effect("namespace", "save", {}, {"lockupAmount"})

Effects(ix) ==
    CASE ix = "initNamespace" ->
            {Effect("namespace", "init", {}, NamespaceConfig \cup {"deployer", "tokenMint"})}
      [] ix = "updateNamespace" -> {Effect("namespace", "save", NamespaceConfig, {})}
      [] ix = "stake" ->
            {LockupTotal,
             IF account["lockup"].owner = "program"
             THEN Effect("lockup", "save", {}, {"amount", "endTs", "weightedStartTs"})
             ELSE Effect("lockup", "init", {"amount"}, NewLockup)}
      [] ix = "stakeTo" -> {LockupTotal, Effect("lockup", "init", {"amount"}, NewLockup)}
      [] ix = "unstake" -> {LockupTotal, Effect("lockup", "close", {}, {})}
      [] ix = "initProposal" ->
            {Effect("proposal", "init", {"uri", "startTs", "endTs"}, {"ns", "nonce", "owner"}),
             Effect("namespace", "save", {}, {"proposalNonce"})}
      [] ix = "updateProposal" ->
            {Effect("proposal", "save", {"uri", "startTs", "endTs"}, {})}
      [] ix = "vote" ->
            {Effect("proposal", "save", {}, {"votingPowerChoices"}),
             Effect("voteRecord", "init", {"choice"},
                    {"ns", "owner", "proposal", "lockup", "votingPower"})}
      [] ix = "initDistribution" ->
            {Effect("distribution", "init", {"cosigner1", "cosigner2", "startTs"},
                    {"ns", "uuid", "distributionTokenMint"})}
      [] ix = "updateDistribution" -> {Effect("distribution", "save", {"startTs"}, {})}
      [] ix = "claimFromDistribution" ->
            {Effect("distributionClaim", "init", {"amount", "cosignedMsg"},
                    {"ns", "distribution", "claimant", "distributionTokenMint"})}

\* The instructions that write an account of the program.
Writers == DOMAIN ProgramArgs \ {"withdrawFromDistribution"}

\* The accounts of the program an instruction only reads.
Reads ==
    [ix \in Writers |->
        CASE ix \in {"updateProposal", "initDistribution", "updateDistribution"} ->
                {"namespace"}
          [] ix = "vote" -> {"namespace", "lockup"}
          [] ix = "claimFromDistribution" -> {"namespace", "distribution"}
          [] OTHER -> {}]

----------------------------------------------------------------------------
(***************************************************************************)
(* Accounts                                                                *)
(***************************************************************************)
NoAccount == [owner |-> "nobody", data |-> <<>>]

\* Lamports sent to an address before the program has made its account.
Funded == [owner |-> "system", data |-> <<>>]

DiscriminatorSize == 8
Discriminator(class) == FixedBytes(Value(class, 0, 0), "discriminator", DiscriminatorSize)
Body(data) == SubSeq(data, DiscriminatorSize + 1, Len(data))

MaxUri == 256
Space(class) == DiscriminatorSize + SpaceOf(ProgramLayout[class], MaxUri)

\* Mutated form: no length is too long.
AnyUri(size) == TRUE

UriValid(size) == size <= 255

Blank(layout) == [name \in NamesIn(layout) |-> Zero]

\* Anchor serialises the struct over the front of the data and leaves the rest.
Overwrite(data, class, struct) ==
    LET front == Discriminator(class) \o Encode(ProgramLayout[class], struct)
    IN  front \o SubSeq(data, Len(front) + 1, Len(data))

Fits(data, class, struct) ==
    Len(Discriminator(class) \o Encode(ProgramLayout[class], struct)) <= Len(data)

\* A struct with the fields of an effect at the values they get.
Assigned(effect, args, call, struct) ==
    [f \in DOMAIN struct |->
        IF f \in effect.taken THEN args[f]
        ELSE IF f \in effect.computed THEN Value(f, call, 0)
        ELSE struct[f]]

\* The data a handler finds: what is there, or a zeroed new account.
DataBefore(effect) ==
    IF effect.mode = "init" THEN Zeros(Space(effect.class))
                            ELSE account[effect.class].data

StructBefore(effect) ==
    IF effect.mode = "init" THEN Blank(ProgramLayout[effect.class])
    ELSE Decode(ProgramLayout[effect.class], Body(account[effect.class].data))

Written(effect, args, call) ==
    IF effect.mode = "close" THEN NoAccount
    ELSE [owner |-> "program",
          data |-> Overwrite(DataBefore(effect), effect.class,
                             Assigned(effect, args, call, StructBefore(effect)))]

Meaning(effect, args, call) ==
    IF effect.mode = "close" THEN <<>>
    ELSE Assigned(effect, args, call,
                  IF effect.mode = "init" THEN Blank(ProgramLayout[effect.class])
                                          ELSE meant[effect.class])

Possible(effect, args, call) ==
    /\ effect.mode = "init" <=> account[effect.class].owner # "program"
    /\ effect.mode # "close" =>
          Fits(DataBefore(effect), effect.class,
               Assigned(effect, args, call, StructBefore(effect)))

----------------------------------------------------------------------------
(***************************************************************************)
(* A call: a sender, the generated client or one that goes by the IDL,     *)
(* encodes the arguments, and the program decodes them.                    *)
(***************************************************************************)
ArgsBuffer == 1000

SenderLayout(sender, ix) ==
    IF sender = "generated" THEN ClientArgs[ix] ELSE IdlArgs[ix]

\* A text of no bytes is what a new account has.
Text(call, size) == IF size = 0 THEN Zero ELSE Value("uri", call, size)

Intended(layout, call, size) ==
    [name \in NamesIn(layout) |->
        IF name = "uri" THEN Text(call, size) ELSE Value(name, call, 0)]

Call(sender, ix, size) ==
    LET call == calls + 1
        layout == SenderLayout(sender, ix)
        data == Encode(layout, Intended(layout, call, size))
        received == Decode(ProgramArgs[ix], data)
        intended == Intended(ProgramArgs[ix], call, size)
        effects == Effects(ix)
        EffectOn(class) == CHOOSE e \in effects : e.class = class
        touched == {e.class : e \in effects}
    IN  /\ calls < MaxCalls
        /\ Len(data) <= ArgsBuffer
        /\ "uri" \in DOMAIN received => UriValid(received["uri"].size)
        /\ \A class \in Reads[ix] : account[class].owner = "program"
        /\ \A e \in effects : Possible(e, received, call)
        \* Proposal::can_update: nobody has voted.
        /\ ix = "updateProposal" =>
               StructBefore(EffectOn("proposal"))["votingPowerChoices"] = Zero
        /\ calls' = call
        /\ account' = [class \in Classes |->
               IF class \in touched THEN Written(EffectOn(class), received, call)
                                    ELSE account[class]]
        /\ meant' = [class \in Classes |->
               IF class \in touched THEN Meaning(EffectOn(class), intended, call)
                                    ELSE meant[class]]

\* Anyone may send lamports to an address that has no account yet.
Fund(class) ==
    /\ account[class] = NoAccount
    /\ account' = [account EXCEPT ![class] = Funded]
    /\ UNCHANGED <<calls, meant>>

----------------------------------------------------------------------------
(***************************************************************************)
(* Readers.  [info] is what the cluster returns for an address.            *)
(***************************************************************************)
Outcome(kind, fields) == [kind |-> kind, fields |-> fields]

\* Mutated form: the first bytes are not looked at.
DecodeUnchecked(class, layout, data) ==
    Outcome("account", Decode(layout, Body(data)))

DecodeAccount(class, layout, data) ==
    IF Slice(data, 1, DiscriminatorSize) = Discriminator(class)
    THEN Outcome("account", Decode(layout, Body(data)))
    ELSE Outcome("throws", <<>>)

Fetch(class, layout, info) ==
    IF info = NoAccount THEN Outcome("null", <<>>)
    ELSE IF info.owner # "program" THEN Outcome("throws", <<>>)
    ELSE DecodeAccount(class, layout, info.data)

(***************************************************************************)
(* toJSON and fromJSON: keys and wide integers travel as strings, the rest *)
(* as JSON numbers, which JavaScript keeps exactly up to 53 bits.          *)
(***************************************************************************)
ElementBits(type) ==
    CASE type = "publicKey" -> 256
      [] type \in {"u64", "i64", "[u64; 6]"} -> 64
      [] type = "u32" -> 32
      [] type = "u16" -> 16
      [] OTHER -> 8

JsonAsString(type) == type \in {"publicKey", "u64", "i64", "[u64; 6]", "str"}

ThroughJson(layout, fields) ==
    [name \in DOMAIN fields |->
        IF \E i \in DOMAIN layout : /\ layout[i][1] = name
                                    /\ ~JsonAsString(layout[i][2])
                                    /\ ElementBits(layout[i][2]) > 53
        THEN Garbage ELSE fields[name]]

----------------------------------------------------------------------------
(***************************************************************************)
(* The ledger starts empty, or with a lockup and a vote record that an     *)
(* earlier version of the program wrote in their former layouts.           *)
(***************************************************************************)
\* What a former account says in a layout: nothing yet in fields it did not have.
FormerStruct(class, layout) ==
    [f \in NamesIn(layout) |->
        IF f = "padding" \/ f \notin NamesIn(FormerLayout[class]) THEN Zero
        ELSE Value(f, 0, 0)]

FormerAccount(class) ==
    LET layout == FormerLayout[class]
    IN  [owner |-> "program",
         data |-> Discriminator(class) \o Encode(layout, FormerStruct(class, layout))]

WireInit ==
    /\ calls = 0
    /\ \E former \in SUBSET DOMAIN FormerLayout :
          /\ account = [class \in Classes |->
                IF class \in former THEN FormerAccount(class) ELSE NoAccount]
          /\ meant = [class \in Classes |->
                IF class \in former THEN FormerStruct(class, ProgramLayout[class])
                                    ELSE <<>>]

Sizes(ix) == IF ix \in {"initProposal", "updateProposal"} THEN UriSizes ELSE {0}

WireNext ==
    \/ \E sender \in {"generated", "idl"}, ix \in Writers :
          \E size \in Sizes(ix) : Call(sender, ix, size)
    \/ \E class \in Classes : Fund(class)

WireSpec == WireInit /\ [][WireNext]_wireVars

----------------------------------------------------------------------------
(***************************************************************************)
(* Properties                                                              *)
(***************************************************************************)

\* What a reader that goes by these layouts gets from the account of a class:
\* the account as the handlers meant it, null if there is none, and an error
\* if there are only lamports; and toJSON and back changes nothing of it.
Sees(layouts, class) ==
    LET seen == Fetch(class, layouts[class], account[class])
    IN  IF account[class].owner = "program"
        THEN /\ seen.kind = "account"
             /\ seen.fields = meant[class]
             /\ ThroughJson(layouts[class], seen.fields) = seen.fields
        ELSE seen.kind = (IF account[class] = NoAccount THEN "null" ELSE "throws")

\* However accounts were created, rewritten with longer and shorter texts,
\* closed and created again, by arguments encoded from either client's
\* tables, and in whichever version of the layout they began: the generated
\* client and the program itself read every field as the handlers meant it,
\* and the padding kept for future fields is still zero.
ReadersSeeWhatWasMeant ==
    \A class \in Classes : Sees(ClientLayout, class) /\ Sees(ProgramLayout, class)

\* The same for a reader that goes by the IDL the README points to.
IdlSeesWhatWasMeant == \A class \in Classes : Sees(IdlLayout, class)

\* No account is ever taken for one of another class.
NeverAnotherClass ==
    \A class, other \in Classes :
        class # other /\ account[other].owner = "program" =>
            Fetch(class, ClientLayout[class], account[other]).kind = "throws"

\* The account of a proposal holds every text that Proposal::valid accepts:
\* whatever it held before, no valid rewrite fails for want of space.
SpaceSuffices ==
    account["proposal"].owner = "program" =>
        \A size \in UriSizes : UriValid(size) =>
            Fits(account["proposal"].data, "proposal",
                 [meant["proposal"] EXCEPT !["uri"] = Text(calls, size)])

=============================================================================
