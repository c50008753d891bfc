---------------------------- MODULE Tsa2msaProofs ----------------------------
(***************************************************************************)
(* Proofs about main() of src/app/tsa2msa/main.cpp (module Tsa2msa), for   *)
(* every set of options, of input files and every number of timeslices.    *)
(*                                                                         *)
(* main is sequential, so the invariant that carries the proofs says, for  *)
(* each point pc main has reached, what the variables it has written so    *)
(* far hold: after a clean parse the switch flags and the variables_map    *)
(* are those of the command line and no message is queued; a failed parse  *)
(* or global check leaves a message to print, or -h to explain; and stderr *)
(* only ever receives the lines handle_parsing_errors prints.              *)
(***************************************************************************)
EXTENDS Tsa2msa, SequenceTheorems, FiniteSetTheorems, TLAPS

\* every line main or handle_parsing_errors prints to stderr but the warning
\* of check_for_global_parsing_errors
StderrLines == ErrorLines \cup {"ErrorsOccurred", "AllOptions", "VisibleOptions"}

\* The inductive invariant, by the point main has reached.
TInv ==
    /\ TypeOK
    /\ err \in Seq(StderrLines)
    /\ UsageErrorExplained
    /\ ConvertsOnlyWhenRequested
    /\ pc = "parse" => errorMessage = <<>> /\ ~parsingError
    /\ pc # "done" => exitCode = "none"
    /\ pc \in {"check", "decide"} /\ cmd.valid =>
          /\ vm = PassedOptions(cmd)
          /\ showHelp = ("help" \in cmd.switches)
          /\ showVersion = ("version" \in cmd.switches)
    /\ pc \in {"check", "decide"} /\ ~cmd.valid => parsingError
    /\ pc = "check" /\ ~parsingError => errorMessage = <<>>
    /\ pc \in {"check", "decide"} /\ parsingError =>
          Len(errorMessage) > 0 \/ showHelp
    /\ pc = "decide" /\ ~parsingError /\ ~showHelp /\ ~showVersion =>
          "input" \in vm

-----------------------------------------------------------------------------
(* Lemmas about the operators of Tsa2msa.                                  *)

\* A line of a sequence stays in it when something is appended or prepended.
LEMMA LineKeptLeft ==
    ASSUME NEW S, NEW E, NEW s \in Seq(S), NEW t \in Seq(S),
           \E k \in 1..Len(s) : s[k] \in E
    PROVE  \E k \in 1..Len(s \o t) : (s \o t)[k] \in E
BY ConcatProperties

LEMMA LineKeptRight ==
    ASSUME NEW S, NEW E, NEW s \in Seq(S), NEW t \in Seq(S),
           \E k \in 1..Len(t) : t[k] \in E
    PROVE  \E k \in 1..Len(s \o t) : (s \o t)[k] \in E
<1>1. PICK k \in 1..Len(t) : t[k] \in E
  OBVIOUS
<1>2. /\ Len(s) + k \in 1..Len(s \o t)
      /\ (s \o t)[Len(s) + k] = t[k]
  BY ConcatProperties
<1>. QED  BY <1>1, <1>2

\* A one-line output is a sequence of lines.
LEMMA OneLine ==
    ASSUME NEW S, NEW x \in S
    PROVE  <<x>> \in Seq(S)
<1>1. Append(<<>>, x) = <<x>>
  OBVIOUS
<1>. QED  BY <1>1, EmptySeq, AppendProperties

\* The variables_map holds finitely many options, so the count that
\* check_for_global_parsing_errors takes is a natural number.
LEMMA OptionCount ==
    ASSUME NEW V \in SUBSET (Switches \cup OtherOptions \cup {"input"})
    PROVE  Cardinality(V) \in Nat
<1>1. IsFiniteSet(Switches)
  <2>1. Switches = (({"quiet"} \cup {"verbose"}) \cup {"help"}) \cup {"version"}
    BY DEF Switches
  <2>2. IsFiniteSet({"quiet"} \cup {"verbose"})
    BY FS_Singleton, FS_Union
  <2>3. IsFiniteSet(({"quiet"} \cup {"verbose"}) \cup {"help"})
    BY <2>2, FS_Singleton, FS_Union
  <2>. QED  BY <2>1, <2>3, FS_Singleton, FS_Union
<1>2. IsFiniteSet(Switches \cup OtherOptions)
  BY <1>1, Tsa2msaAssumption, FS_Union
<1>3. IsFiniteSet(Switches \cup OtherOptions \cup {"input"})
  BY <1>2, FS_Singleton, FS_Union
<1>. QED  BY <1>3, FS_Subset, FS_CardinalityType

\* check_for_global_parsing_errors returns an error only with a message to
\* print or with -h set, and returns none without -h and -V only when an
\* input file was given.
LEMMA GlobalCheckFacts ==
    ASSUME NEW n \in Nat, NEW hasInput \in BOOLEAN, NEW verbose \in BOOLEAN,
           NEW help \in BOOLEAN, NEW version \in BOOLEAN
    PROVE  LET r == GlobalCheck(n, hasInput, verbose, help, version)
           IN  /\ r.push \in Seq(ErrorLines)
               /\ r.error \in BOOLEAN
               /\ r.error => Len(r.push) > 0 \/ help
               /\ ~r.error /\ ~help /\ ~version => hasInput
<1>1. /\ <<"ErrNoOptions">> \in Seq(ErrorLines)
      /\ <<"ErrVersionCombined">> \in Seq(ErrorLines)
      /\ <<"ErrNoInput">> \in Seq(ErrorLines)
      /\ <<>> \in Seq(ErrorLines)
  BY OneLine, EmptySeq DEF ErrorLines
<1> DEFINE r == GlobalCheck(n, hasInput, verbose, help, version)
<1>2. CASE n = 0
  <2>1. r = [error |-> TRUE, push |-> <<"ErrNoOptions">>]
    BY <1>2 DEF GlobalCheck
  <2>. QED  BY <2>1, <1>1
<1>3. CASE n # 0 /\ help
  <2>1. r = [error |-> n > (IF verbose THEN 2 ELSE 1), push |-> <<>>]
    BY <1>3 DEF GlobalCheck
  <2>. QED  BY <2>1, <1>1, <1>3
<1>4. CASE n # 0 /\ ~help /\ version
  <2>1. r = [error |-> n > 1,
             push |-> IF n > 1 THEN <<"ErrVersionCombined">> ELSE <<>>]
    BY <1>4 DEF GlobalCheck
  <2>. QED  BY <2>1, <1>1, <1>4
<1>5. CASE n # 0 /\ ~help /\ ~version
  <2>1. CASE hasInput
    <3>1. r = [error |-> FALSE, push |-> <<>>]
      BY <1>5, <2>1 DEF GlobalCheck
    <3>. QED  BY <3>1, <1>1, <2>1
  <2>2. CASE ~hasInput
    <3>1. r = [error |-> TRUE, push |-> <<"ErrNoInput">>]
      BY <1>5, <2>2 DEF GlobalCheck
    <3>. QED  BY <3>1, <1>1
  <2>. QED  BY <2>1, <2>2
<1>. QED  BY <1>2, <1>3, <1>4, <1>5 DEF r

\* handle_parsing_errors prints only known lines, and one of them says why
\* when there was a message or -h.
LEMMA HandleParsingErrorsFacts ==
    ASSUME NEW msgs \in Seq(ErrorLines), NEW verbose \in BOOLEAN,
           NEW help \in BOOLEAN, Len(msgs) > 0 \/ help
    PROVE  LET H == HandleParsingErrors(msgs, verbose, help)
           IN  /\ H \in Seq(StderrLines)
               /\ \E k \in 1..Len(H) : H[k] \in ErrorLines
<1> DEFINE A == IF help THEN <<>> ELSE <<"ErrorsOccurred">>
           U == <<Usage(verbose)>>
           B == IF help THEN <<"ErrIgnoring">> ELSE <<>>
<1>1. /\ msgs \in Seq(StderrLines)
      /\ A \in Seq(StderrLines) /\ U \in Seq(StderrLines) /\ B \in Seq(StderrLines)
  <2>1. msgs \in Seq(StderrLines)
    BY SeqMonotonic DEF StderrLines
  <2>2. /\ <<"ErrorsOccurred">> \in Seq(StderrLines)
        /\ <<"ErrIgnoring">> \in Seq(StderrLines)
        /\ <<Usage(verbose)>> \in Seq(StderrLines)
        /\ <<>> \in Seq(StderrLines)
    BY OneLine, EmptySeq DEF StderrLines, ErrorLines, Usage
  <2>. QED  BY <2>1, <2>2
<1>2. HandleParsingErrors(msgs, verbose, help) = ((msgs \o A) \o U) \o B
  BY DEF HandleParsingErrors
<1>3. /\ msgs \o A \in Seq(StderrLines)
      /\ (msgs \o A) \o U \in Seq(StderrLines)
      /\ ((msgs \o A) \o U) \o B \in Seq(StderrLines)
  BY <1>1, ConcatProperties
<1>4. \E k \in 1..Len(((msgs \o A) \o U) \o B) :
          (((msgs \o A) \o U) \o B)[k] \in ErrorLines
  <2>1. CASE Len(msgs) > 0
    <3>1. \E k \in 1..Len(msgs) : msgs[k] \in ErrorLines
      BY <2>1
    <3>2. \E k \in 1..Len(msgs \o A) : (msgs \o A)[k] \in ErrorLines
      BY <3>1, <1>1, LineKeptLeft
    <3>3. \E k \in 1..Len((msgs \o A) \o U) : ((msgs \o A) \o U)[k] \in ErrorLines
      BY <3>2, <1>1, <1>3, LineKeptLeft
    <3>. QED  BY <3>3, <1>1, <1>3, LineKeptLeft
  <2>2. CASE help
    <3>1. \E k \in 1..Len(B) : B[k] \in ErrorLines
      BY <2>2 DEF ErrorLines
    <3>. QED  BY <3>1, <1>1, <1>3, LineKeptRight
  <2>. QED  BY <2>1, <2>2
<1>. QED  BY <1>2, <1>3, <1>4

-----------------------------------------------------------------------------
(* TInv holds initially and every step of main preserves it.               *)

LEMMA InitTInv == Init => TInv
<1> SUFFICES ASSUME Init PROVE TInv
  OBVIOUS
<1>1. <<>> \in Seq(ErrorLines) /\ <<>> \in Seq(StderrLines)
  BY EmptySeq
<1>2. 0 \in 0..MaxTimeslices
  BY Tsa2msaAssumption
<1>. QED
  BY <1>1, <1>2 DEF Init, TInv, TypeOK, UsageErrorExplained,
                    ConvertsOnlyWhenRequested

LEMMA ParseTInv ==
    ASSUME TInv, ParseCommandLine
    PROVE  TInv'
<1>1. CASE cmd.valid
  <2>1. vm' \subseteq Switches \cup OtherOptions \cup {"input"}
    BY <1>1 DEF ParseCommandLine, PassedOptions, TInv, TypeOK, CommandLines
  <2>. QED
    BY <1>1, <2>1 DEF ParseCommandLine, TInv, TypeOK, UsageErrorExplained,
                      ConvertsOnlyWhenRequested
<1>2. CASE ~cmd.valid
  <2>1. errorMessage' = Append(<<>>, "ErrParse")
    BY <1>2 DEF ParseCommandLine, TInv
  <2>2. <<>> \in Seq(ErrorLines) /\ "ErrParse" \in ErrorLines
    BY EmptySeq DEF ErrorLines
  <2>3. /\ errorMessage' \in Seq(ErrorLines)
        /\ Len(errorMessage') > 0
    BY <2>1, <2>2, AppendProperties
  <2>. QED
    BY <1>2, <2>3 DEF ParseCommandLine, TInv, TypeOK, UsageErrorExplained,
                      ConvertsOnlyWhenRequested
<1>. QED  BY <1>1, <1>2

LEMMA CheckGlobalTInv ==
    ASSUME TInv, CheckGlobal
    PROVE  TInv'
<1>1. CASE parsingError
  BY <1>1 DEF CheckGlobal, TInv, TypeOK, UsageErrorExplained,
              ConvertsOnlyWhenRequested
<1>2. CASE ~parsingError
  <2> DEFINE r == GlobalCheck(Cardinality(vm), vm \cap {"input"} # {},
                              beVerbose, showHelp, showVersion)
  <2>1. errorMessage = <<>> /\ cmd.valid
    BY <1>2 DEF CheckGlobal, TInv
  <2>2. Cardinality(vm) \in Nat
    BY OptionCount DEF TInv, TypeOK
  <2>3. /\ r.push \in Seq(ErrorLines)
        /\ r.error \in BOOLEAN
        /\ r.error => Len(r.push) > 0 \/ showHelp
        /\ ~r.error /\ ~showHelp /\ ~showVersion => "input" \in vm
    <3>1. /\ (vm \cap {"input"} # {}) \in BOOLEAN
          /\ beVerbose \in BOOLEAN /\ showHelp \in BOOLEAN /\ showVersion \in BOOLEAN
      BY DEF TInv, TypeOK
    <3>2. (vm \cap {"input"} # {}) => "input" \in vm
      OBVIOUS
    <3>. QED  BY <2>2, <3>1, <3>2, GlobalCheckFacts DEF r
  <2>4. /\ err' = err
        /\ errorMessage' = r.push
        /\ parsingError' = r.error
    BY <1>2, <2>1, <2>3, ConcatEmptySeq DEF CheckGlobal
  <2>. QED
    BY <2>1, <2>3, <2>4 DEF CheckGlobal, TInv, TypeOK, UsageErrorExplained,
                            ConvertsOnlyWhenRequested
<1>. QED  BY <1>1, <1>2

LEMMA DecideTInv ==
    ASSUME TInv, Decide
    PROVE  TInv'
<1>1. CASE parsingError
  <2> DEFINE H == HandleParsingErrors(errorMessage, beVerbose, showHelp)
  <2>1. /\ H \in Seq(StderrLines)
        /\ \E k \in 1..Len(H) : H[k] \in ErrorLines
    BY <1>1, HandleParsingErrorsFacts DEF Decide, TInv, TypeOK
  <2>2. err' = err \o H /\ exitCode' = "EX_USAGE" /\ pc' = "done"
    BY <1>1 DEF Decide
  <2>3. /\ err' \in Seq(StderrLines)
        /\ \E k \in 1..Len(err') : err'[k] \in ErrorLines
    BY <2>1, <2>2, ConcatProperties, LineKeptRight DEF TInv
  <2>. QED
    BY <2>2, <2>3 DEF Decide, TInv, TypeOK, UsageErrorExplained,
                      ConvertsOnlyWhenRequested
<1>2. CASE ~parsingError /\ (showHelp \/ showVersion)
  BY <1>2 DEF Decide, TInv, TypeOK, UsageErrorExplained,
              ConvertsOnlyWhenRequested
<1>3. CASE ~parsingError /\ ~showHelp /\ ~showVersion
  <2>1. cmd.valid /\ "input" \in PassedOptions(cmd)
    BY <1>3 DEF Decide, TInv
  <2>2. cmd.input # {}
    BY <2>1, Tsa2msaAssumption DEF PassedOptions, TInv, TypeOK, CommandLines,
                                   Switches
  <2>3. cmd.switches \cap {"help", "version"} = {}
    BY <1>3, <2>1 DEF Decide, TInv
  <2>. QED
    BY <1>3, <2>1, <2>2, <2>3 DEF Decide, TInv, TypeOK, UsageErrorExplained,
                                  ConvertsOnlyWhenRequested
<1>. QED  BY <1>1, <1>2, <1>3 DEF TInv, TypeOK

LEMMA ConvertTInv ==
    ASSUME TInv, Setup \/ ReadWrite \/ EndOfInput
    PROVE  TInv'
<1>1. CASE Setup
  BY <1>1 DEF Setup, TInv, TypeOK, UsageErrorExplained,
              ConvertsOnlyWhenRequested
<1>2. CASE ReadWrite
  <2>1. remaining' \in 0..MaxTimeslices /\ written' \in Nat
    BY <1>2, Tsa2msaAssumption DEF ReadWrite, TInv, TypeOK
  <2>2. /\ cmd' = cmd /\ pc' = pc /\ beVerbose' = beVerbose
        /\ showHelp' = showHelp /\ showVersion' = showVersion /\ vm' = vm
        /\ errorMessage' = errorMessage /\ parsingError' = parsingError
        /\ err' = err /\ exitCode' = exitCode
        /\ optionsPrefix' = optionsPrefix /\ writerPrefix' = writerPrefix
    BY <1>2 DEF ReadWrite
  <2>. QED
    BY <2>1, <2>2 DEF TInv, TypeOK, UsageErrorExplained,
                      ConvertsOnlyWhenRequested
<1>3. CASE EndOfInput
  BY <1>3 DEF EndOfInput, TInv, TypeOK, UsageErrorExplained,
              ConvertsOnlyWhenRequested
<1>. QED  BY <1>1, <1>2, <1>3

LEMMA NextTInv == TInv /\ [Next]_vars => TInv'
<1> SUFFICES ASSUME TInv, [Next]_vars PROVE TInv'
  OBVIOUS
<1>1. CASE UNCHANGED vars
  BY <1>1 DEF vars, TInv, TypeOK, UsageErrorExplained,
              ConvertsOnlyWhenRequested
<1>. QED
  BY <1>1, ParseTInv, CheckGlobalTInv, DecideTInv, ConvertTInv DEF Next

-----------------------------------------------------------------------------
(* The invariants the tsa2msa_cli run checks, for every instance.          *)

\* The inductive invariant holds in every state main reaches.
THEOREM Tsa2msaInductive == Spec => []TInv
BY InitTInv, NextTInv, PTL DEF Spec

\* Every variable of main keeps its type.
THEOREM Tsa2msaTypeCorrect == Spec => []TypeOK
BY Tsa2msaInductive, PTL DEF TInv

\* Whenever main returns EX_USAGE, stderr says why with an "Error:" line,
\* -h combined with other options included.
THEOREM UsageErrorsExplained == Spec => []UsageErrorExplained
BY Tsa2msaInductive, PTL DEF TInv

\* main reaches the reader and the writer only for a command line that
\* parses, names an input file and asks for neither -h nor -V.
THEOREM ConvertsOnlyOnRequest == Spec => []ConvertsOnlyWhenRequested
BY Tsa2msaInductive, PTL DEF TInv

=============================================================================
