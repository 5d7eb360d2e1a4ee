------------------------------ MODULE Startup ------------------------------
(***************************************************************************)
(* nihtest up to the test's start, as main does it (src/src/nihtest.cc):   *)
(* the options, the configuration, the settings that override it, and the  *)
(* test case. Options and Parser are the components; this module says      *)
(* which files are read and what happens between them.                     *)
(***************************************************************************)
EXTENDS Parser, Options

\* Ways nihtest may be called, in groups: with which words, which variables set, which
\* files there are (records with name and lines); written is that of Parser.
CONSTANT Invocations

IsSequence(s) == s \in Seq(Range(s))

ASSUME StartupAssumption ==
    \A group \in Invocations : \A i \in group :
        /\ IsSequence(i.command) /\ \A w \in Range(i.command) : IsSequence(w)
        /\ i.environment \subseteq {"POSIXLY_CORRECT", "VERBOSE", "KEEP_BROKEN"}
        /\ \A f \in i.files : f.lines \in Seq(Line)
        /\ \A f, g \in i.files : f.name = g.name => f = g
        /\ i.written \in Seq(Text)

VARIABLES
    files,
    stage      \* "options", "configuration" or "test"

vars == <<parserVars, optionVars, files, stage>>

NoFile == [exists |-> FALSE, lines |-> <<>>]
Named(name) ==
    LET named == {f \in files : f.name = name}
    IN IF named = {} THEN NoFile ELSE [exists |-> TRUE, lines |-> (CHOOSE f \in named : TRUE).lines]

Init ==
    /\ \E group \in Invocations : \E i \in group :
          /\ command = i.command
          /\ environment = i.environment
          /\ files = i.files
          /\ case = [conf |-> NoFile, test |-> NoFile, written |-> i.written]
    /\ OptionsInit
    /\ ParserInit
    /\ stage = "options"

\* A test case's name without a dot gets ".test".
TestFile(name) == IF "." \in ToSet(name) THEN name ELSE name \o <<".", "test">>

ChooseFiles ==
    /\ stage = "options" /\ options = "done"
    /\ stage' = "configuration"
    /\ case' = [case EXCEPT !.conf = Named(configuration_file), !.test = Named(TestFile(argv[optind]))]
    /\ UNCHANGED <<reading, open, line_no, ok, seen, messages, configuration, test, outcome,
                   optionVars, files>>

ReadFiles ==
    /\ stage = "test" \/ (stage = "configuration" /\ reading = "conf")
    /\ ParserNext
    /\ UNCHANGED <<optionVars, files, stage>>

Override ==
    /\ stage = "configuration" /\ reading = "test" /\ outcome = "running"
    /\ stage' = "test"
    /\ configuration' =
          [configuration EXCEPT
              !.keep_sandbox = IF keep_sandbox = "unset" THEN @ ELSE <<keep_sandbox>>,
              !.print_results = IF print_results = "unset" THEN @ ELSE <<print_results>>]
    /\ UNCHANGED <<case, reading, open, line_no, ok, seen, messages, test, outcome,
                   optionVars, files>>

Terminated ==
    /\ options \in {"exit 0", "usage", "crash"} \/ outcome # "running"
    /\ UNCHANGED vars

Next ==
    \/ OptionsNext /\ UNCHANGED <<parserVars, files, stage>>
    \/ ChooseFiles \/ ReadFiles \/ Override
    \/ Terminated

Spec == Init /\ [][Next]_vars

-----------------------------------------------------------------------------
(* Properties *)

\* Type invariant; the files read are those there are.
TypeOK ==
    /\ ParserTypeOK
    /\ OptionsTypeOK
    /\ stage \in {"options", "configuration", "test"}
    /\ stage = "options" => case.conf = NoFile /\ ~open
    /\ stage = "configuration" => outcome \in {"running", "refused"}

\* What was asked for on the command line: the last of several options that contradict
\* each other.
Asked(values, default) ==
    LET given == {k \in 1..Len(Demanded) : Demanded[k] \in values}
    IN IF given = {} THEN default ELSE Demanded[Max(given)]

\* A test runs with the settings of the strongest source that has any: the command line,
\* then the environment, then the configuration file, then the default
\* (nihtest.cc:165-189). The configuration is read last and must not win.
StrongestWins ==
    outcome = "loaded" =>
        /\ LET asked == Asked({"q", "v"}, "")
           IN configuration.print_results =
                  CASE asked = "q" -> <<"never">>
                    [] asked = "v" \/ (asked = "" /\ "VERBOSE" \in environment) -> <<"always">>
                    [] OTHER -> Single("conf", "print-results", <<"failed">>)
        /\ LET asked == Asked({"keep-broken", "no-cleanup", "setup-only"}, "")
           IN configuration.keep_sandbox =
                  CASE asked \in {"no-cleanup", "setup-only"} -> <<"always">>
                    [] asked = "keep-broken" \/ (asked = "" /\ "KEEP_BROKEN" \in environment) -> <<"failed">>
                    [] OTHER -> Single("conf", "keep-sandbox", <<"never">>)

=============================================================================
