------------------------------- MODULE TxErrors -------------------------------
(***************************************************************************)
(* What a client learns when a transaction fails: programs call programs,  *)
(* one raises an error, every caller fails with the same code on the way   *)
(* out, the runtime logs a line for each and drops lines once the log is   *)
(* full, and fromTxError turns the lines into an error of this program or  *)
(* null.                                                                   *)
(***************************************************************************)
EXTENDS Integers, Sequences

CONSTANTS
    MaxCalls,       \* bound on the calls of a transaction
    MaxDepth,       \* bound on nested calls
    MaxLines        \* lines the log has room for

ASSUME ErrAssumption == MaxCalls \in Nat /\ MaxDepth \in Nat /\ MaxLines \in Nat

VARIABLES
    stack,          \* the programs that are running, the innermost last
    calls,          \* the calls made so far
    raised,         \* who raised which code, once something fails
    logs,           \* the lines the runtime kept
    caught          \* what the client's call threw

errVars == <<stack, calls, raised, logs, caught>>

----------------------------------------------------------------------------
(***************************************************************************)
(* Error codes and their names                                             *)
(***************************************************************************)
\* f, and g for the codes that f does not have.
Over(f, g) ==
    [c \in DOMAIN f \cup DOMAIN g |-> IF c \in DOMAIN f THEN f[c] ELSE g[c]]

Group(first, names) == [c \in first .. first + Len(names) - 1 |-> names[c - first + 1]]

\* The program's own errors.
ProgramErrors ==
    Group(6000,
          <<"InvalidOwner", "InvalidTokenMint", "InvalidTokenAmount",
            "InvalidTokenDelegate", "InvalidTimestamp",
            "InvalidLockupAmount", "InvalidVotingPower", "InvalidPayer",
            "InvalidProposalState", "Overflow", "CannotUpdateProposal",
            "InvalidURI", "InvalidNamespace", "InvalidLockup",
            "InvalidVoteRecord">>)

\* What the generated client makes of a code from 6000 on.
CustomErrors ==
    Group(6000,
          <<"InvalidOwner", "InvalidTokenMint", "InvalidTokenAmount",
            "InvalidTokenDelegate", "InvalidTimestamp",
            "InvalidLockupAmount", "InvalidVotingPower", "InvalidPayer",
            "InvalidProposalState", "Overflow", "CannotUpdateProposal",
            "InvalidURI", "InvalidNamespace", "InvalidLockup",
            "InvalidVoteRecord">>)

\* The errors of the published IDL.
IdlErrors ==
    Group(6000,
          <<"InvalidOwner", "InvalidTokenMint", "InvalidTokenAmount",
            "InvalidTokenDelegate", "InvalidTimestamp",
            "InvalidLockupAmount", "InvalidVotingPower", "InvalidPayer",
            "InvalidProposalState", "Overflow", "CannotUpdateProposal",
            "InvalidURI", "InvalidNamespace", "InvalidLockup",
            "InvalidVoteRecord">>)

\* The groups of the client's codes below 6000.
InstructionErrors ==
    Group(100,
          <<"InstructionMissing", "InstructionFallbackNotFound",
            "InstructionDidNotDeserialize", "InstructionDidNotSerialize">>)

IdlStubErrors ==
    Group(1000,
          <<"IdlInstructionStub", "IdlInstructionInvalidProgram">>)

ConstraintErrors ==
    Group(2000,
          <<"ConstraintMut", "ConstraintHasOne", "ConstraintSigner",
            "ConstraintRaw", "ConstraintOwner", "ConstraintRentExempt",
            "ConstraintSeeds", "ConstraintExecutable", "ConstraintState",
            "ConstraintAssociated", "ConstraintAssociatedInit",
            "ConstraintClose", "ConstraintAddress", "ConstraintZero",
            "ConstraintTokenMint", "ConstraintTokenOwner",
            "ConstraintMintMintAuthority", "ConstraintMintFreezeAuthority",
            "ConstraintMintDecimals", "ConstraintSpace",
            "ConstraintAccountIsNone">>)

RequireErrors ==
    Group(2500,
          <<"RequireViolated", "RequireEqViolated", "RequireKeysEqViolated",
            "RequireNeqViolated", "RequireKeysNeqViolated",
            "RequireGtViolated", "RequireGteViolated">>)

AccountErrors ==
    Group(3000,
          <<"AccountDiscriminatorAlreadySet", "AccountDiscriminatorNotFound",
            "AccountDiscriminatorMismatch", "AccountDidNotDeserialize",
            "AccountDidNotSerialize", "AccountNotEnoughKeys",
            "AccountNotMutable", "AccountOwnedByWrongProgram",
            "InvalidProgramId", "InvalidProgramExecutable",
            "AccountNotSigner", "AccountNotSystemOwned",
            "AccountNotInitialized", "AccountNotProgramData",
            "AccountNotAssociatedTokenAccount", "AccountSysvarMismatch",
            "AccountReallocExceedsLimit", "AccountDuplicateReallocs">>)

\* What the generated client makes of a code below 6000.
AnchorErrors ==
    Over(InstructionErrors,
    Over(IdlStubErrors,
    Over(ConstraintErrors,
    Over(RequireErrors,
    Over(AccountErrors,
    Over(Group(4100, <<"DeclaredProgramIdMismatch">>),
         Group(5000, <<"Deprecated">>)))))))

\* The framework's errors, more than the client's table has: those of the
\* generated IDL and event instructions, which every program dispatches, of the
\* token_program constraints and of a payer that is a program's account.
FrameworkErrors ==
    Over(AnchorErrors,
    Over(Group(1002, <<"IdlAccountNotEmpty">>),
    Over(Group(1500, <<"EventInstructionStub">>),
    Over(Group(2021,
               <<"ConstraintTokenTokenProgram", "ConstraintMintTokenProgram",
                 "ConstraintAssociatedTokenTokenProgram">>),
         Group(4101, <<"TryingToInitPayerAsProgramAccount">>)))))

----------------------------------------------------------------------------
(***************************************************************************)
(* The runtime.  Programs that fail in another way than with a code (a     *)
(* panic, an error of the runtime) leave a line that carries none.         *)
(***************************************************************************)
Programs == {"vetoken", "token", "hook", "wrapper", "other"}
Callees(program) ==
    CASE program = "vetoken" -> {"token", "other"}
      [] program = "token" -> {"hook"}
      [] program = "wrapper" -> {"vetoken", "token"}
      [] OTHER -> {}

NoCode == 0

\* Other programs have codes of their own, some the same as this program's.
Raises(program) ==
    CASE program = "vetoken" -> DOMAIN ProgramErrors \cup DOMAIN FrameworkErrors
      [] program = "token" -> {1}
      [] OTHER -> {1, 2001, 6004}

Nobody == [by |-> "nobody", code |-> NoCode]
Line(text, program, code) == [text |-> text, program |-> program, code |-> code]
Log(line) == logs' = IF Len(logs) < MaxLines THEN Append(logs, line) ELSE logs

Top == stack[Len(stack)]
Popped == SubSeq(stack, 1, Len(stack) - 1)

Callable == IF stack = <<>> THEN Programs ELSE Callees(Top)

Invoke(program) ==
    /\ raised = Nobody
    /\ calls < MaxCalls /\ Len(stack) < MaxDepth
    /\ program \in Callable
    /\ stack' = Append(stack, program)
    /\ calls' = calls + 1
    /\ Log(Line("invoke", program, NoCode))
    /\ UNCHANGED <<raised, caught>>

Return ==
    /\ raised = Nobody /\ stack # <<>>
    /\ stack' = Popped
    /\ Log(Line("success", Top, NoCode))
    /\ UNCHANGED <<calls, raised, caught>>

Raise ==
    /\ raised = Nobody /\ stack # <<>>
    /\ \E code \in Raises(Top) \cup {NoCode} : raised' = [by |-> Top, code |-> code]
    /\ UNCHANGED <<stack, calls, logs, caught>>

\* A caller cannot catch its callee's failure.
Unwind ==
    /\ raised # Nobody /\ stack # <<>>
    /\ stack' = Popped
    /\ Log(Line("failed", Top, raised.code))
    /\ UNCHANGED <<calls, raised, caught>>

\* The client's call throws: with the logs, or, when it failed to confirm,
\* with an error that has none.
NotThrown == [thrown |-> FALSE]
NoLogs == [thrown |-> TRUE]
Throw ==
    /\ raised # Nobody /\ stack = <<>> /\ caught = NotThrown
    /\ \E err \in {NoLogs, [thrown |-> TRUE, logs |-> logs]} : caught' = err
    /\ UNCHANGED <<stack, calls, raised, logs>>

ErrInit ==
    /\ stack = <<>> /\ calls = 0
    /\ raised = Nobody
    /\ logs = <<>>
    /\ caught = NotThrown

ErrNext ==
    \/ \E program \in Programs : Invoke(program)
    \/ Return
    \/ Raise
    \/ Unwind
    \/ Throw

ErrSpec == ErrInit /\ [][ErrNext]_errVars

----------------------------------------------------------------------------
(***************************************************************************)
(* The client                                                              *)
(***************************************************************************)
Null == "null"

FromCode(code) ==
    LET table == IF code >= 6000 THEN CustomErrors ELSE AnchorErrors
    IN  IF code \in DOMAIN table THEN table[code] ELSE Null

\* The lines that the expression for a failure with a code matches.
Matches(lines) ==
    {i \in DOMAIN lines : lines[i].text = "failed" /\ lines[i].code # NoCode}

\* Mutated form: the last failure, the outermost program's.
LastMatch(lines) == CHOOSE i \in Matches(lines) : \A j \in Matches(lines) : j <= i

\* Mutated form: the first failure of this program.
OurMatch(lines) ==
    LET ours == {i \in Matches(lines) : lines[i].program = "vetoken"}
        those == IF ours = {} THEN Matches(lines) ELSE ours
    IN  CHOOSE i \in those : \A j \in those : i <= j

FirstMatch(lines) == CHOOSE i \in Matches(lines) : \A j \in Matches(lines) : i <= j

FromTxError(err) ==
    IF "logs" \notin DOMAIN err \/ Matches(err.logs) = {} THEN Null
    ELSE LET line == err.logs[FirstMatch(err.logs)]
         IN  IF line.program = "vetoken" THEN FromCode(line.code) ELSE Null

----------------------------------------------------------------------------
(***************************************************************************)
(* Properties                                                              *)
(***************************************************************************)
\* An error that the client reports is the one this program raised, by its
\* name in the program and in the IDL: never a callee's or a caller's whose
\* code is among this program's, and never another one because the log was
\* cut.
NeverAnotherError ==
    FromTxError(caught) # Null =>
        /\ raised.by = "vetoken"
        /\ FromTxError(caught) = Over(ProgramErrors, FrameworkErrors)[raised.code]
        /\ raised.code >= 6000 => FromTxError(caught) = IdlErrors[raised.code]

\* Every error of this program's enum is reported, however deep the program
\* was called and whatever succeeded before, if the log kept the line; and so
\* are those of the framework that the client's table has.  The framework has
\* more (FrameworkErrors), and fromTxError has null for these.
OwnErrorIsReported ==
    /\ caught # NotThrown /\ "logs" \in DOMAIN caught
    /\ raised.by = "vetoken"
    /\ raised.code \in DOMAIN ProgramErrors \cup DOMAIN AnchorErrors
    /\ Len(logs) < MaxLines
    => FromTxError(caught) # Null

=============================================================================
