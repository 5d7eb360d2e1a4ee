------------------------------ MODULE Options ------------------------------
(***************************************************************************)
(* The options of nihtest: the loop over getopt_long in main and the       *)
(* environment variables that stand in for options (src/src/nihtest.cc).   *)
(***************************************************************************)
EXTENDS Naturals, Sequences, SequencesExt

VARIABLES
    command,              \* argv as nihtest was given it
    environment, argv, optind, place, nonopt_start, nonopt_end, returned,
    configuration_file,
    keep_sandbox,         \* a setting, or "unset" while keep_sandbox_set is false
    print_results,        \* likewise
    options               \* "open", "done", or how main ended: "exit 0", "usage", "crash"

Letters == {"C", "h", "V", "v"}

Option(name, value) == [name |-> name, value |-> value]
LongOptions ==
    <<Option(<<"help">>, "h"), Option(<<"ver", "sion">>, "V"), Option(<<"config-file">>, "C"),
      Option(<<"keep", "-broken">>, "keep-broken"), Option(<<"no-cleanup">>, "no-cleanup"),
      Option(<<"q", "uiet">>, "q"), Option(<<"setup-only">>, "setup-only"),
      Option(<<"ver", "bose">>, "v")>>

INSTANCE GetoptLong WITH Short <- Letters, Long <- LongOptions

callVars == <<environment, argv, optind, place, nonopt_start, nonopt_end, returned>>
ownVars == <<command, configuration_file, keep_sandbox, print_results, options>>
optionVars == <<callVars, ownVars>>

OptionsInit ==
    /\ GetoptInit
    /\ argv = command
    /\ configuration_file = <<"nihtest", ".", "conf">>
    /\ keep_sandbox = "unset"
    /\ print_results = "unset"
    /\ options = "open"

-----------------------------------------------------------------------------
(* The loop: getopt_long, and a case for what it returns *)

Parsing == options = "open" /\ GetoptNext /\ UNCHANGED ownVars

Returned(value) == options = "open" /\ returned = value
GoOn ==
    returned' = "scanning" /\ UNCHANGED <<environment, argv, optind, place, nonopt_start, nonopt_end>>

HelpOrVersion ==
    /\ Returned("h") \/ Returned("V")
    /\ options' = "exit 0"
    /\ UNCHANGED <<callVars, command, configuration_file, keep_sandbox, print_results>>

\* The next word is taken, and looked at again by getopt_long. Behind the last one there
\* is a null pointer, of which no std::string can be made.
ConfigFile ==
    /\ Returned("C")
    /\ IF optind <= Len(argv)
       THEN configuration_file' = argv[optind] /\ GoOn /\ UNCHANGED options
       ELSE options' = "crash" /\ UNCHANGED <<callVars, configuration_file>>
    /\ UNCHANGED <<command, keep_sandbox, print_results>>

Results(value, when) ==
    /\ Returned(value)
    /\ print_results' = when
    /\ GoOn
    /\ UNCHANGED <<command, configuration_file, keep_sandbox, options>>

\* --setup-only also sets run_test, which nobody reads.
Sandbox(value, when) ==
    /\ Returned(value)
    /\ keep_sandbox' = when
    /\ GoOn
    /\ UNCHANGED <<command, configuration_file, print_results, options>>

Usage ==
    /\ Returned("?") \/ (Returned("EOF") /\ optind # Len(argv))
    /\ options' = "usage"
    /\ UNCHANGED <<callVars, command, configuration_file, keep_sandbox, print_results>>

\* Mutant: the environment is looked at in any case.
FinishWithEnvironment ==
    /\ Returned("EOF") /\ optind = Len(argv)
    /\ print_results' = IF "VERBOSE" \in environment THEN "always" ELSE print_results
    /\ keep_sandbox' = IF "KEEP_BROKEN" \in environment THEN "failed" ELSE keep_sandbox
    /\ options' = "done"
    /\ UNCHANGED <<callVars, command, configuration_file>>

FinishOptions ==
    /\ Returned("EOF") /\ optind = Len(argv)
    /\ print_results' = IF print_results = "unset" /\ "VERBOSE" \in environment
                        THEN "always" ELSE print_results
    /\ keep_sandbox' = IF keep_sandbox = "unset" /\ "KEEP_BROKEN" \in environment
                       THEN "failed" ELSE keep_sandbox
    /\ options' = "done"
    /\ UNCHANGED <<callVars, command, configuration_file>>

OptionsNext ==
    \/ Parsing
    \/ HelpOrVersion \/ ConfigFile
    \/ Results("q", "never") \/ Results("v", "always")
    \/ Sandbox("keep-broken", "failed") \/ Sandbox("no-cleanup", "always")
    \/ Sandbox("setup-only", "always")
    \/ Usage \/ FinishOptions

-----------------------------------------------------------------------------
(* Properties *)

OptionsTypeOK ==
    /\ argv \in Seq(Range(command))
    /\ Len(argv) = Len(command)
    /\ optind \in 1..(Len(argv) + 1)
    /\ place # <<>> => optind <= Len(argv) /\ IsSuffix(place, word)
    /\ nonopt_start \in {-1} \cup 1..(optind - 1)
    /\ nonopt_end \in {-1} \cup (nonopt_start + 1)..optind
    /\ nonopt_start = -1 => nonopt_end = -1
    /\ returned \in Letters \cup {o.value : o \in ToSet(LongOptions)} \cup {"scanning", "?", "EOF"}
    /\ configuration_file \in {<<"nihtest", ".", "conf">>} \cup Range(command)
    /\ keep_sandbox \in {"unset", "failed", "always"}
    /\ print_results \in {"unset", "never", "always"}
    /\ options \in {"open", "done", "exit 0", "usage", "crash"}

\* The words options are taken from: those in front of "--" and, where POSIX is followed to
\* the letter, in front of the first word that is no option.
StopsAt ==
    LET stops == {k \in 1..Len(command) :
                     \/ command[k] = EndMark
                     \/ "POSIXLY_CORRECT" \in environment /\ ~IsOption(command[k])}
    IN IF stops = {} THEN Len(command) + 1 ELSE Min(stops)
Marked == StopsAt <= Len(command) /\ command[StopsAt] = EndMark
InFront == SubSeq(command, 1, StopsAt - 1)
\* In their order.
OptionsIn(words) ==
    FlattenSeq([k \in 1..Len(words) |-> IF IsOption(words[k]) THEN <<words[k]>> ELSE <<>>])
OthersIn(words) ==
    FlattenSeq([k \in 1..Len(words) |-> IF IsOption(words[k]) THEN <<>> ELSE <<words[k]>>])
OptionWords == OptionsIn(InFront)
Operands ==
    OthersIn(InFront)
        \o SubSeq(command, IF Marked THEN StopsAt + 1 ELSE StopsAt, Len(command))

\* When all options are handed out, argv has the options first and then the other words,
\* both in the order they were given in, and optind is at the first of those:
\* permute_args promises to keep the order in each block (getopt_long.c:118-121).
ArgvPermuted ==
    returned = "EOF" =>
        /\ argv = OptionWords \o (IF Marked THEN <<EndMark>> ELSE <<>>) \o Operands
        /\ optind = Len(argv) - Len(Operands) + 1

\* The letters the usage line, the help and the manual offer (nihtest.cc:58, 71;
\* nihtest.mdoc:40, 85). main's own string has no q (nihtest.cc:82).
Offered == {"C", "h", "q", "V", "v"}

\* An option word read letter by letter, or as a long name or the beginning of just one.
Reading(w, letters) ==
    IF IsLong(w)
    THEN LET meant == {o \in ToSet(LongOptions) : IsPrefix(SubSeq(w, 3, Len(w)), o.name)}
         IN IF Cardinality(meant) = 1 THEN <<(CHOOSE o \in meant : TRUE).value>> ELSE <<"?">>
    ELSE [k \in 1..(Len(w) - 1) |-> IF w[k + 1] \in letters THEN w[k + 1] ELSE "?"]
\* What they say to their writer, who knows the help.
Says(w) == Reading(w, Offered)
Demanded == FlattenSeq([k \in 1..Len(OptionWords) |-> Says(OptionWords[k])])
QuietByLetter == \E w \in ToSet(OptionWords) : ~IsLong(w) /\ "q" \in ToSet(w)

\* The first option that ends nihtest does so; if there is none, it goes on exactly if one
\* test case was named: nothing is lost or read twice among letters in one word,
\* abbreviations, and words that are moved meanwhile. Two of the letters offered are
\* excepted: -C, of which see ConfigFileTaken, and -q, which is offered and refused (only
\* --quiet is taken), so that "-q test" ends with the usage.
OptionsHonoured ==
    options # "open" /\ "C" \notin ToSet(Demanded) /\ ~QuietByLetter =>
        LET ends == {k \in 1..Len(Demanded) : Demanded[k] \in {"h", "V", "?"}}
        IN options = IF ends = {} THEN IF Len(Operands) = 1 THEN "done" ELSE "usage"
                     ELSE IF Demanded[Min(ends)] = "?" THEN "usage" ELSE "exit 0"

\* -C is followed by the name of the configuration file (nihtest.cc:58, 67: "-C config").
ConfigFileTaken ==
    options # "open" =>
        \A name, testcase \in ToSet(command) :
            command = <<<<Dash, "C">>, name, testcase>> /\ ~IsOption(name) /\ ~IsOption(testcase)
            => options = "done" /\ configuration_file = name

=============================================================================
