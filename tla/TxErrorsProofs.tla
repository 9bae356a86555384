--------------------------- MODULE TxErrorsProofs ----------------------------
(***************************************************************************)
(* Theorems about TxErrors, for any number and depth of calls and any      *)
(* length of the log.                                                      *)
(***************************************************************************)
EXTENDS TxErrors, SequenceTheorems, TLAPS

(***************************************************************************)
(* The tables of names                                                     *)
(***************************************************************************)
Named(table) == DOMAIN table \subseteq Int /\ \A c \in DOMAIN table : table[c] # Null

\* The program's errors have the codes from 6000 to 6014.
LEMMA ProgramNames ==
    /\ DOMAIN ProgramErrors = 6000 .. 6014
    /\ CustomErrors = ProgramErrors /\ IdlErrors = ProgramErrors
    /\ Named(ProgramErrors)
<1>1. DOMAIN ProgramErrors = 6000 .. 6014
  BY DEF ProgramErrors, Group
<1>2. CustomErrors = ProgramErrors /\ IdlErrors = ProgramErrors
  BY DEF ProgramErrors, CustomErrors, IdlErrors
<1>3. \A c \in DOMAIN ProgramErrors : ProgramErrors[c] # Null
  BY DEF ProgramErrors, Group, Null
<1> QED
  BY <1>1, <1>2, <1>3 DEF Named

Below(table) == Named(table) /\ DOMAIN table \subseteq 100 .. 5000

\* The client's codes below 6000 are among the framework's, by the same names.
LEMMA FrameworkNames ==
    /\ Below(AnchorErrors) /\ Below(FrameworkErrors)
    /\ DOMAIN AnchorErrors \subseteq DOMAIN FrameworkErrors
    /\ \A c \in DOMAIN AnchorErrors : FrameworkErrors[c] = AnchorErrors[c]
<1>1. ASSUME NEW f, NEW g, Below(f), Below(g)
      PROVE  Below(Over(f, g))
  <2>1. Named(Over(f, g)) /\ DOMAIN Over(f, g) = DOMAIN f \cup DOMAIN g
    BY <1>1 DEF Over, Below, Named
  <2> QED
    BY <1>1, <2>1 DEF Below
<1>2. Below(InstructionErrors)
  BY DEF InstructionErrors, Group, Named, Below, Null
<1>3. Below(IdlStubErrors)
  BY DEF IdlStubErrors, Group, Named, Below, Null
<1>4. Below(ConstraintErrors)
  BY DEF ConstraintErrors, Group, Named, Below, Null
<1>5. Below(RequireErrors)
  BY DEF RequireErrors, Group, Named, Below, Null
<1>6. Below(AccountErrors)
  BY DEF AccountErrors, Group, Named, Below, Null
<1> DEFINE last1 == Group(4100, <<"DeclaredProgramIdMismatch">>)
           last2 == Group(5000, <<"Deprecated">>)
           more1 == Group(1002, <<"IdlAccountNotEmpty">>)
           more2 == Group(1500, <<"EventInstructionStub">>)
           more3 == Group(2021,
               <<"ConstraintTokenTokenProgram", "ConstraintMintTokenProgram",
                 "ConstraintAssociatedTokenTokenProgram">>)
           more4 == Group(4101, <<"TryingToInitPayerAsProgramAccount">>)
<1>7. Below(last1)
  BY DEF Group, Named, Below, Null
<1>8. Below(last2)
  BY DEF Group, Named, Below, Null
<1>9. Below(more1) /\ Below(more2) /\ Below(more3) /\ Below(more4)
  <2>1. Below(more1) /\ Below(more2)
    BY DEF Group, Named, Below, Null
  <2>2. Below(more3) /\ Below(more4)
    BY DEF Group, Named, Below, Null
  <2> QED
    BY <2>1, <2>2
<1>10. AnchorErrors = Over(InstructionErrors, Over(IdlStubErrors,
          Over(ConstraintErrors, Over(RequireErrors, Over(AccountErrors,
          Over(last1, last2))))))
  BY DEF AnchorErrors
<1>11. FrameworkErrors = Over(AnchorErrors, Over(more1, Over(more2, Over(more3, more4))))
  BY DEF FrameworkErrors
<1> HIDE DEF last1, last2, more1, more2, more3, more4
<1>12. Below(AnchorErrors)
  <2>1. Below(Over(AccountErrors, Over(last1, last2)))
    BY <1>1, <1>6, <1>7, <1>8
  <2>2. Below(Over(ConstraintErrors, Over(RequireErrors,
                Over(AccountErrors, Over(last1, last2)))))
    BY <1>1, <1>4, <1>5, <2>1
  <2> QED
    BY <1>1, <1>2, <1>3, <1>10, <2>2
<1>13. Below(FrameworkErrors)
  <2>1. Below(Over(more2, Over(more3, more4)))
    BY <1>1, <1>9
  <2> QED
    BY <1>1, <1>9, <1>11, <1>12, <2>1
<1>14. /\ DOMAIN AnchorErrors \subseteq DOMAIN FrameworkErrors
       /\ \A c \in DOMAIN AnchorErrors : FrameworkErrors[c] = AnchorErrors[c]
  BY <1>11 DEF Over
<1> QED
  BY <1>12, <1>13, <1>14

\* The codes by themselves: those from 6000 on are the program's own.
OwnCodes == DOMAIN ProgramErrors
AllCodes == DOMAIN ProgramErrors \cup DOMAIN FrameworkErrors

LEMMA OwnFrom6000 ==
    /\ OwnCodes = 6000 .. 6014
    /\ AllCodes \subseteq Int \ {0}
    /\ \A c \in AllCodes : c >= 6000 => c \in OwnCodes
<1> DEFINE Q == DOMAIN FrameworkErrors
<1>1. Q \subseteq 100 .. 5000
  BY FrameworkNames DEF Below
<1>2. OwnCodes = 6000 .. 6014
  BY ProgramNames DEF OwnCodes
<1>3. AllCodes = OwnCodes \cup Q
  BY DEF AllCodes, OwnCodes
<1> HIDE DEF Q
<1> QED
  BY <1>1, <1>2, <1>3

(***************************************************************************)
(* The inductive invariant: every failure that the log kept carries the    *)
(* code that was raised, the first of them is its raiser's, and there is   *)
(* none only while the raiser is on its way out or the log was full.       *)
(***************************************************************************)
Failures == {i \in DOMAIN logs : logs[i].text = "failed"}

RaisedOk ==
    raised # Nobody => /\ raised.by \in Programs
                       /\ raised.code \in Raises(raised.by) \cup {NoCode}

Lines == [text : {"invoke", "success", "failed"}, program : Programs, code : Int]

LinesOk == stack \in Seq(Programs) /\ logs \in Seq(Lines)

FailuresCarryTheCode ==
    \A i \in DOMAIN logs : IF logs[i].text = "failed"
                           THEN raised # Nobody /\ logs[i].code = raised.code
                           ELSE logs[i].code = NoCode

FirstIsTheRaisers ==
    \/ \E i \in Failures : /\ logs[i].program = raised.by
                           /\ \A j \in Failures : i <= j
    \/ /\ Failures = {}
       /\ raised # Nobody => \/ Len(logs) >= MaxLines
                             \/ stack # <<>> /\ Top = raised.by

ThrownAtTheEnd ==
    caught # NotThrown =>
        /\ stack = <<>> /\ raised # Nobody
        /\ caught \in {NoLogs, [thrown |-> TRUE, logs |-> logs]}

ErrInv ==
    /\ LinesOk
    /\ RaisedOk
    /\ FailuresCarryTheCode
    /\ FirstIsTheRaisers
    /\ ThrownAtTheEnd

\* Codes are numbers, and NoCode is none that a program raises.
LEMMA CodesAreNumbers ==
    \A program : Raises(program) \subseteq Int \ {NoCode}
<1>1. AllCodes \subseteq Int \ {0}
  BY OwnFrom6000
<1>2. Raises("vetoken") = AllCodes
  BY DEF Raises, AllCodes
<1> QED
  BY <1>1, <1>2 DEF Raises, NoCode

LEMMA TopRuns ==
    ASSUME stack \in Seq(Programs), stack # <<>>
    PROVE  Top \in Programs /\ Popped \in Seq(Programs)
BY DEF Top, Popped

\* A line is added at the end, or dropped because the log is full.
LEMMA LogGrows ==
    ASSUME LinesOk, NEW line \in Lines, Log(line)
    PROVE  /\ logs' \in Seq(Lines)
           /\ \/ logs' = logs /\ Len(logs) >= MaxLines
              \/ /\ DOMAIN logs' = DOMAIN logs \cup {Len(logs) + 1}
                 /\ logs'[Len(logs) + 1] = line
                 /\ \A i \in DOMAIN logs : logs'[i] = logs[i]
           /\ Len(logs') >= Len(logs)
           /\ DOMAIN logs = 1 .. Len(logs) /\ Len(logs) \in Nat
<1>1. logs \in Seq(Lines)
  BY DEF LinesOk
<1>2. logs' = Append(logs, line) \/ (logs' = logs /\ Len(logs) >= MaxLines)
  BY <1>1, ErrAssumption DEF Log
<1>3. CASE logs' = Append(logs, line)
  BY <1>1, <1>3
<1> QED
  BY <1>1, <1>2, <1>3

LEMMA InitErrInv == ErrInit => ErrInv
BY DEF ErrInit, ErrInv, LinesOk, RaisedOk, FailuresCarryTheCode, FirstIsTheRaisers,
       ThrownAtTheEnd, Failures

\* A line that is no failure's leaves what is known about failures.
LEMMA OtherLineKeeps ==
    ASSUME ErrInv, raised = Nobody, raised' = raised,
           NEW line \in Lines, line.text # "failed", line.code = NoCode, Log(line),
           caught' = caught, stack' \in Seq(Programs)
    PROVE  ErrInv'
<1>1. LinesOk'
  BY LogGrows DEF ErrInv, LinesOk
<1>2. RaisedOk'
  BY DEF ErrInv, RaisedOk, Nobody
<1>3. FailuresCarryTheCode' /\ (Failures = {})'
  BY LogGrows DEF ErrInv, FailuresCarryTheCode, Failures
<1>4. ThrownAtTheEnd'
  BY DEF ErrInv, ThrownAtTheEnd
<1> QED
  BY <1>1, <1>2, <1>3, <1>4 DEF ErrInv, FirstIsTheRaisers

LEMMA NextErrInv == ErrInv /\ [ErrNext]_errVars => ErrInv'
<1> SUFFICES ASSUME ErrInv, [ErrNext]_errVars PROVE ErrInv'
  OBVIOUS
<1>1. ASSUME NEW program \in Programs, Invoke(program) PROVE ErrInv'
  <2>1. Line("invoke", program, NoCode) \in Lines
    BY DEF Line, Lines, NoCode
  <2>2. stack' \in Seq(Programs)
    BY <1>1 DEF Invoke, ErrInv, LinesOk
  <2> QED
    BY <1>1, <2>1, <2>2, OtherLineKeeps DEF Invoke, Line
<1>2. CASE Return
  <2>1. Line("success", Top, NoCode) \in Lines /\ stack' \in Seq(Programs)
    BY <1>2, TopRuns DEF Return, Line, Lines, NoCode, ErrInv, LinesOk
  <2> QED
    BY <1>2, <2>1, OtherLineKeeps DEF Return, Line
<1>3. CASE Raise
  <2>1. Top \in Programs
    BY <1>3, TopRuns DEF Raise, ErrInv, LinesOk
  <2>2. PICK code \in Raises(Top) \cup {NoCode} : raised' = [by |-> Top, code |-> code]
    BY <1>3 DEF Raise
  <2>3. Failures' = {}
    BY <1>3 DEF Raise, ErrInv, FailuresCarryTheCode, Failures
  <2>4. LinesOk' /\ ThrownAtTheEnd'
    BY <1>3 DEF Raise, ErrInv, LinesOk, ThrownAtTheEnd
  <2>5. RaisedOk'
    BY <2>1, <2>2 DEF RaisedOk
  <2>6. FailuresCarryTheCode'
    BY <1>3, <2>3 DEF Raise, ErrInv, FailuresCarryTheCode, Failures
  <2>7. FirstIsTheRaisers'
    BY <1>3, <2>2, <2>3 DEF Raise, FirstIsTheRaisers, Top
  <2> QED
    BY <2>4, <2>5, <2>6, <2>7 DEF ErrInv
<1>4. CASE Unwind
  <2> DEFINE line == Line("failed", Top, raised.code)
  <2>1. line \in Lines /\ stack' \in Seq(Programs)
    BY <1>4, TopRuns, CodesAreNumbers
       DEF Unwind, Line, Lines, NoCode, ErrInv, LinesOk, RaisedOk
  <2>2. line.text = "failed" /\ line.program = Top /\ line.code = raised.code
    BY DEF Line
  <2>3. Log(line) /\ raised' = raised /\ caught' = caught /\ raised # Nobody
        /\ stack # <<>>
    BY <1>4 DEF Unwind
  <2> HIDE DEF line
  <2>4. LinesOk'
    BY <2>1, <2>3, LogGrows DEF ErrInv, LinesOk
  <2>5. RaisedOk' /\ ThrownAtTheEnd'
    BY <2>3 DEF ErrInv, RaisedOk, ThrownAtTheEnd
  <2>6. FailuresCarryTheCode'
    BY <2>1, <2>2, <2>3, LogGrows DEF ErrInv, FailuresCarryTheCode
  <2>7. FirstIsTheRaisers'
    <3>1. CASE logs' = logs /\ Len(logs) >= MaxLines
      BY <2>3, <3>1 DEF ErrInv, FirstIsTheRaisers, Failures
    <3>2. CASE ~(logs' = logs /\ Len(logs) >= MaxLines)
      <4>1. Failures' = Failures \cup {Len(logs) + 1}
        BY <2>1, <2>2, <2>3, <3>2, LogGrows DEF Failures, ErrInv
      <4>2. /\ logs'[Len(logs) + 1] = line
            /\ \A i \in DOMAIN logs : logs'[i] = logs[i] /\ i <= Len(logs) + 1
            /\ Len(logs) + 1 \in Int /\ Len(logs) + 1 <= Len(logs) + 1
        BY <2>1, <2>3, <3>2, LogGrows DEF ErrInv
      <4>3. Failures \subseteq DOMAIN logs
        BY DEF Failures
      <4>4. CASE Failures = {}
        <5>1. Len(logs) < MaxLines
          BY <2>1, <2>3, <3>2, LogGrows, ErrAssumption DEF Log, ErrInv
        <5>2. Top = raised.by
          BY <2>3, <4>4, <5>1, <4>2, ErrAssumption DEF ErrInv, FirstIsTheRaisers
        <5> QED
          BY <2>2, <2>3, <4>1, <4>2, <4>4, <5>2 DEF FirstIsTheRaisers
      <4>5. CASE Failures # {}
        <5>1. PICK i \in Failures : /\ logs[i].program = raised.by
                                   /\ \A j \in Failures : i <= j
          BY <4>5 DEF ErrInv, FirstIsTheRaisers
        <5> QED
          BY <2>3, <4>1, <4>2, <4>3, <5>1 DEF FirstIsTheRaisers
      <4> QED
        BY <4>4, <4>5
    <3> QED
      BY <3>1, <3>2
  <2> QED
    BY <2>4, <2>5, <2>6, <2>7 DEF ErrInv
<1>5. CASE Throw
  <2>1. LinesOk' /\ RaisedOk' /\ FailuresCarryTheCode' /\ ThrownAtTheEnd'
    BY <1>5 DEF Throw, ErrInv, LinesOk, RaisedOk, FailuresCarryTheCode, ThrownAtTheEnd
  <2>2. FirstIsTheRaisers'
    BY <1>5 DEF Throw, ErrInv, FirstIsTheRaisers, Failures, Top
  <2> QED
    BY <2>1, <2>2 DEF ErrInv
<1>6. CASE UNCHANGED errVars
  BY <1>6 DEF errVars, ErrInv, LinesOk, RaisedOk, FailuresCarryTheCode,
              FirstIsTheRaisers, ThrownAtTheEnd, Failures, Top
<1> QED
  BY <1>1, <1>2, <1>3, <1>4, <1>5, <1>6 DEF ErrNext

LEMMA ErrInvariant == ErrSpec => []ErrInv
BY InitErrInv, NextErrInv, PTL DEF ErrSpec

(***************************************************************************)
(* What the client reports                                                 *)
(***************************************************************************)
\* The line that decides is the raiser's.
LEMMA FirstMatchIsTheRaisers ==
    ASSUME ErrInv, Matches(logs) # {}
    PROVE  /\ raised # Nobody /\ raised.code # NoCode
           /\ logs[FirstMatch(logs)].program = raised.by
           /\ logs[FirstMatch(logs)].code = raised.code
<1>1. Matches(logs) \subseteq Failures
  BY DEF Matches, Failures
<1>2. raised # Nobody /\ raised.code # NoCode /\ Matches(logs) = Failures
  BY DEF Matches, Failures, ErrInv, FailuresCarryTheCode
<1>3. PICK i \in Failures : /\ logs[i].program = raised.by
                           /\ \A j \in Failures : i <= j
  BY <1>2 DEF ErrInv, FirstIsTheRaisers
<1>4. \A k \in Failures : k \in Int
  BY DEF Failures, ErrInv, LinesOk
<1>5. FirstMatch(logs) = i
  BY <1>2, <1>3, <1>4 DEF FirstMatch
<1> QED
  BY <1>2, <1>3, <1>5 DEF Failures, ErrInv, FailuresCarryTheCode

\* Without logs there is no report, with logs the raiser's code decides.
LEMMA ReportsTheRaised ==
    ASSUME ErrInv
    PROVE  IF caught # NotThrown /\ "logs" \in DOMAIN caught /\ Matches(logs) # {}
           THEN FromTxError(caught) =
                    IF raised.by = "vetoken" THEN FromCode(raised.code) ELSE Null
           ELSE FromTxError(caught) = Null
<1>1. CASE caught = NotThrown \/ caught = NoLogs
  BY <1>1 DEF FromTxError, NotThrown, NoLogs
<1>2. CASE caught # NotThrown /\ caught = [thrown |-> TRUE, logs |-> logs]
  <2>1. "logs" \in DOMAIN caught /\ caught.logs = logs
    BY <1>2
  <2> QED
    BY <1>2, <2>1, FirstMatchIsTheRaisers DEF FromTxError
<1> QED
  BY <1>1, <1>2 DEF ErrInv, ThrownAtTheEnd

\* A code of the program's or of a table of the client's has one name in all.
LEMMA CodesHaveOneName ==
    ASSUME NEW code \in Raises("vetoken")
    PROVE  /\ FromCode(code) # Null =>
                 /\ FromCode(code) = Over(ProgramErrors, FrameworkErrors)[code]
                 /\ code >= 6000 => FromCode(code) = IdlErrors[code]
           /\ code \in DOMAIN ProgramErrors \cup DOMAIN AnchorErrors =>
                 FromCode(code) # Null
<1>1. code \in AllCodes /\ code \in Int
  BY OwnFrom6000 DEF Raises, AllCodes
<1>2. CASE code >= 6000
  <2>1. code \in DOMAIN ProgramErrors
    BY <1>1, <1>2, OwnFrom6000 DEF OwnCodes
  <2>2. FromCode(code) = ProgramErrors[code] /\ ProgramErrors[code] # Null
    BY <1>2, <2>1, ProgramNames DEF FromCode, Named
  <2>3. Over(ProgramErrors, FrameworkErrors)[code] = ProgramErrors[code]
    BY <2>1 DEF Over
  <2> QED
    BY <2>2, <2>3, ProgramNames
<1>3. CASE ~(code >= 6000)
  <2>1. code \notin OwnCodes
    BY <1>1, <1>3, OwnFrom6000
  <2>2. code \notin DOMAIN ProgramErrors /\ code \in DOMAIN FrameworkErrors
    BY <1>1, <2>1 DEF AllCodes, OwnCodes
  <2>3. Over(ProgramErrors, FrameworkErrors)[code] = FrameworkErrors[code]
    BY <2>2 DEF Over
  <2>4. FromCode(code) = IF code \in DOMAIN AnchorErrors THEN AnchorErrors[code] ELSE Null
    BY <1>3 DEF FromCode
  <2> QED
    BY <1>3, <2>2, <2>3, <2>4, FrameworkNames DEF Below, Named
<1> QED
  BY <1>1, <1>2, <1>3

\* An error that fromTxError reports is the one this program raised, by its
\* name in the program and in the IDL, whoever called whom and wherever the
\* log was cut.
THEOREM ReportsOwnErrors == ErrSpec => []NeverAnotherError
<1>1. ASSUME ErrInv PROVE NeverAnotherError
  <2> SUFFICES ASSUME FromTxError(caught) # Null
               PROVE  /\ raised.by = "vetoken"
                      /\ FromTxError(caught) = Over(ProgramErrors, FrameworkErrors)[raised.code]
                      /\ raised.code >= 6000 =>
                            FromTxError(caught) = IdlErrors[raised.code]
    BY DEF NeverAnotherError
  <2>1. /\ Matches(logs) # {} /\ raised.by = "vetoken"
        /\ FromTxError(caught) = FromCode(raised.code)
    BY <1>1, ReportsTheRaised
  <2>2. raised.code \in Raises("vetoken")
    BY <1>1, <2>1, FirstMatchIsTheRaisers DEF ErrInv, RaisedOk
  <2> QED
    BY <2>1, <2>2, CodesHaveOneName
<1> QED
  BY <1>1, ErrInvariant, PTL

\* Every error of this program's enum, and every one of the framework's that
\* the client's table has, is reported if the log had room for it.
THEOREM OwnErrorsAreReported == ErrSpec => []OwnErrorIsReported
<1>1. ASSUME ErrInv PROVE OwnErrorIsReported
  <2> SUFFICES ASSUME caught # NotThrown, "logs" \in DOMAIN caught,
                      raised.by = "vetoken",
                      raised.code \in DOMAIN ProgramErrors \cup DOMAIN AnchorErrors,
                      Len(logs) < MaxLines
               PROVE  FromTxError(caught) # Null
    BY DEF OwnErrorIsReported
  <2>1. raised.code \in Raises("vetoken")
    <3>1. DOMAIN ProgramErrors \cup DOMAIN AnchorErrors \subseteq AllCodes
      BY FrameworkNames DEF AllCodes
    <3> QED
      BY <3>1 DEF Raises, AllCodes
  <2>2. stack = <<>> /\ raised # Nobody
    BY <1>1 DEF ErrInv, ThrownAtTheEnd
  <2>3. Failures # {}
    BY <1>1, <2>2, ErrAssumption DEF ErrInv, FirstIsTheRaisers, LinesOk
  <2>4. raised.code # NoCode
    BY <2>1, CodesAreNumbers
  <2>5. Matches(logs) # {}
    BY <1>1, <2>3, <2>4 DEF ErrInv, FailuresCarryTheCode, Failures, Matches
  <2> QED
    BY <1>1, <2>1, <2>5, ReportsTheRaised, CodesHaveOneName
<1> QED
  BY <1>1, ErrInvariant, PTL

=============================================================================
