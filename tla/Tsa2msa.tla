------------------------------- MODULE Tsa2msa -------------------------------
(***************************************************************************)
(* The main function of the tsa2msa tool (src/app/tsa2msa/main.cpp): it    *)
(* parses the command line, checks the global options, then either reports *)
(* a usage error, shows the help or the version, or converts: it builds    *)
(* the tsaReader and the msaWriter, resolves the output prefix and copies  *)
(* every timeslice the reader yields to the writer.                        *)
(*                                                                         *)
(* main is sequential; pc names the point it has reached.  The command     *)
(* line is abstracted to which switches, which other options and which     *)
(* input files it carries and whether Boost can parse it.  Output lines    *)
(* are tokens: a token starting with "Err" is a line starting "Error:".    *)
(***************************************************************************)
EXTENDS Naturals, Sequences, FiniteSets

CONSTANTS
    OtherOptions,   \* named non-switch options (msaWriter and tsaReader options)
    PrefixOption,   \* the msaWriter option that sets the output prefix
    Files,          \* input file names (positional arguments)
    MaxTimeslices   \* the most timeslices the reader yields

\* OtherOptions are the finitely many named options besides "input", the
\* option the positional arguments are stored under (option names are
\* unique in the options_description of lines 358-398)
ASSUME Tsa2msaAssumption ==
    /\ IsFiniteSet(OtherOptions)
    /\ PrefixOption \in OtherOptions
    /\ "input" \notin OtherOptions
    /\ MaxTimeslices \in Nat

\* the bool_switch options of the "Generic options" description
Switches == {"quiet", "verbose", "help", "version"}

\* what a command line carries; valid is FALSE when Boost throws on it
CommandLines ==
    [switches : SUBSET Switches, others : SUBSET OtherOptions,
     input : SUBSET Files, valid : BOOLEAN]

\* the lines that start with "Error:"
ErrorLines == {"ErrParse", "ErrNoOptions", "ErrVersionCombined",
               "ErrNoInput", "ErrIgnoring"}

VARIABLES
    cmd,            \* the command line main was started with
    pc,             \* "parse", "check", "decide", "setup", "loop", "done"
    beVerbose, showHelp, showVersion,
    vm,             \* the options the user passed (not defaulted) in the variables_map
    errorMessage,   \* the vector of error messages
    parsingError,
    out, err,       \* what was printed to stdout and stderr
    exitCode,       \* "none" until main returns
    optionsPrefix,  \* msaWriterOptions.prefix: "none", "user" or "common"
    writerPrefix,   \* the prefix held by the msaWriter object
    remaining,      \* timeslices the reader has still to yield
    written         \* timeslices handed to the writer

vars == <<cmd, pc, beVerbose, showHelp, showVersion, vm, errorMessage,
          parsingError, out, err, exitCode, optionsPrefix, writerPrefix,
          remaining, written>>

\* the options stored in the variables_map without their default
PassedOptions(c) ==
    c.switches \cup c.others \cup (IF c.input = {} THEN {} ELSE {"input"})

\* check_for_global_parsing_errors: whether there is an error and the
\* messages it pushes, from the count of passed options
GlobalCheckNoInputCheck(n, hasInput, verbose, help, version) ==
    IF n = 0 THEN [error |-> TRUE, push |-> <<"ErrNoOptions">>]
    ELSE IF help THEN [error |-> n > (IF verbose THEN 2 ELSE 1), push |-> <<>>]
    ELSE IF version THEN [error |-> n > 1,
                          push |-> IF n > 1 THEN <<"ErrVersionCombined">> ELSE <<>>]
    ELSE [error |-> FALSE, push |-> <<>>]

GlobalCheck(n, hasInput, verbose, help, version) ==
    IF n = 0 THEN [error |-> TRUE, push |-> <<"ErrNoOptions">>]
    ELSE IF help THEN [error |-> n > (IF verbose THEN 2 ELSE 1), push |-> <<>>]
    ELSE IF version THEN [error |-> n > 1,
                          push |-> IF n > 1 THEN <<"ErrVersionCombined">> ELSE <<>>]
    ELSE [error |-> ~hasInput,
          push |-> IF hasInput THEN <<>> ELSE <<"ErrNoInput">>]

\* the options description printed: all of them when verbose
Usage(verbose) == IF verbose THEN "AllOptions" ELSE "VisibleOptions"

\* handle_parsing_errors: the lines it prints to stderr
HandleParsingErrorsNoIgnoring(msgs, verbose, help) ==
    msgs \o (IF help THEN <<>> ELSE <<"ErrorsOccurred">>) \o <<Usage(verbose)>>

HandleParsingErrors(msgs, verbose, help) ==
    msgs \o (IF help THEN <<>> ELSE <<"ErrorsOccurred">>) \o <<Usage(verbose)>>
         \o (IF help THEN <<"ErrIgnoring">> ELSE <<>>)

Init ==
    /\ cmd \in CommandLines
    /\ pc = "parse"
    /\ beVerbose = FALSE /\ showHelp = FALSE /\ showVersion = FALSE
    /\ vm = {}
    /\ errorMessage = <<>>
    /\ parsingError = FALSE
    /\ out = <<>> /\ err = <<>>
    /\ exitCode = "none"
    /\ optionsPrefix = "none"
    /\ writerPrefix = "none"
    /\ remaining = 0
    /\ written = 0

\* parse_command_line: store and notify; the switches and the prefix are
\* written by notify, so a throwing parse leaves them at their defaults
ParseCommandLine ==
    /\ pc = "parse"
    /\ pc' = "check"
    /\ IF cmd.valid
         THEN /\ beVerbose' = ("verbose" \in cmd.switches)
              /\ showHelp' = ("help" \in cmd.switches)
              /\ showVersion' = ("version" \in cmd.switches)
              /\ vm' = PassedOptions(cmd)
              /\ optionsPrefix' = IF PrefixOption \in cmd.others THEN "user" ELSE "none"
              /\ UNCHANGED <<errorMessage, parsingError>>
         ELSE /\ errorMessage' = Append(errorMessage, "ErrParse")
              /\ parsingError' = TRUE
              /\ UNCHANGED <<beVerbose, showHelp, showVersion, vm, optionsPrefix>>
    /\ UNCHANGED <<cmd, out, err, exitCode, writerPrefix, remaining, written>>

\* the global check, run by main only when the parse succeeded
CheckGlobal ==
    /\ pc = "check"
    /\ pc' = "decide"
    /\ IF parsingError
         THEN UNCHANGED <<err, errorMessage, parsingError>>
         ELSE LET r == GlobalCheck(Cardinality(vm), vm \cap {"input"} # {},
                                   beVerbose, showHelp, showVersion)
              IN /\ err' = IF Len(errorMessage) > 0 THEN Append(err, "Warning") ELSE err
                 /\ errorMessage' = errorMessage \o r.push
                 /\ parsingError' = r.error
    /\ UNCHANGED <<cmd, beVerbose, showHelp, showVersion, vm, out, exitCode,
                   optionsPrefix, writerPrefix, remaining, written>>

\* report a usage error, or show help (show_help) or version (show_version)
\* and return, or go on to the conversion
Decide ==
    /\ pc = "decide"
    /\ \/ /\ parsingError
          /\ err' = err \o HandleParsingErrors(errorMessage, beVerbose, showHelp)
          /\ exitCode' = "EX_USAGE" /\ pc' = "done"
          /\ UNCHANGED out
       \/ /\ ~parsingError /\ showHelp
          /\ out' = Append(out, Usage(beVerbose))
          /\ exitCode' = "EXIT_SUCCESS" /\ pc' = "done"
          /\ UNCHANGED err
       \/ /\ ~parsingError /\ ~showHelp /\ showVersion
          /\ out' = Append(out, "Version")
          /\ exitCode' = "EXIT_SUCCESS" /\ pc' = "done"
          /\ UNCHANGED err
       \/ /\ ~parsingError /\ ~showHelp /\ ~showVersion
          /\ pc' = "setup"
          /\ UNCHANGED <<out, err, exitCode>>
    /\ UNCHANGED <<cmd, beVerbose, showHelp, showVersion, vm, errorMessage,
                   parsingError, optionsPrefix, writerPrefix, remaining, written>>

\* build the reader and the writer (which copies the options), then fill in
\* the common prefix of the inputs when none was given
Setup ==
    /\ pc = "setup"
    /\ pc' = "loop"
    /\ writerPrefix' = optionsPrefix
    /\ optionsPrefix' = IF optionsPrefix = "none" THEN "common" ELSE optionsPrefix
    /\ remaining' \in 0..MaxTimeslices
    /\ UNCHANGED <<cmd, beVerbose, showHelp, showVersion, vm, errorMessage,
                   parsingError, out, err, exitCode, written>>

ReadWriteNoCheck ==
    /\ pc = "loop"
    /\ remaining' = remaining - 1
    /\ written' = written + 1
    /\ UNCHANGED <<cmd, pc, beVerbose, showHelp, showVersion, vm, errorMessage,
                   parsingError, out, err, exitCode, optionsPrefix, writerPrefix>>

\* one turn of the while-read-write loop
ReadWrite ==
    /\ pc = "loop"
    /\ remaining > 0
    /\ remaining' = remaining - 1
    /\ written' = written + 1
    /\ UNCHANGED <<cmd, pc, beVerbose, showHelp, showVersion, vm, errorMessage,
                   parsingError, out, err, exitCode, optionsPrefix, writerPrefix>>

\* the reader returns nullptr: main returns EXIT_SUCCESS
EndOfInput ==
    /\ pc = "loop"
    /\ remaining = 0
    /\ pc' = "done"
    /\ exitCode' = "EXIT_SUCCESS"
    /\ UNCHANGED <<cmd, beVerbose, showHelp, showVersion, vm, errorMessage,
                   parsingError, out, err, optionsPrefix, writerPrefix,
                   remaining, written>>

Next == ParseCommandLine \/ CheckGlobal \/ Decide \/ Setup \/ ReadWrite \/ EndOfInput

Spec == Init /\ [][Next]_vars

-----------------------------------------------------------------------------

\* The type of every variable.
TypeOK ==
    /\ cmd \in CommandLines
    /\ pc \in {"parse", "check", "decide", "setup", "loop", "done"}
    /\ {beVerbose, showHelp, showVersion, parsingError} \subseteq BOOLEAN
    /\ vm \subseteq Switches \cup OtherOptions \cup {"input"}
    /\ errorMessage \in Seq(ErrorLines)
    /\ exitCode \in {"none", "EX_USAGE", "EXIT_SUCCESS"}
    /\ {optionsPrefix, writerPrefix} \subseteq {"none", "user", "common"}
    /\ remaining \in 0..MaxTimeslices /\ written \in Nat

\* Whenever main returns EX_USAGE, stderr carries a line starting
\* "Error:" that says why, also when -h was combined with other options
\* (where check_for_global_parsing_errors pushes no message).
UsageErrorExplained ==
    exitCode = "EX_USAGE" => \E k \in 1..Len(err) : err[k] \in ErrorLines

\* The conversion starts only for a command line that parses, names at
\* least one input file and asks for neither help nor the version.
ConvertsOnlyWhenRequested ==
    pc \in {"setup", "loop"} =>
        /\ cmd.valid
        /\ cmd.input # {}
        /\ cmd.switches \cap {"help", "version"} = {}

\* Lines 432-435 compute the common prefix of the inputs for the output
\* files when no prefix was given; the msaWriter that writes them should
\* use that prefix.
WriterUsesResolvedPrefix == written > 0 => writerPrefix # "none"

=============================================================================
