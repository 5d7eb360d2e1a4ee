------------------------------- MODULE Parser -------------------------------
(***************************************************************************)
(* Reading the configuration and then the test case: Parser::parse         *)
(* (src/src/Parser.cc) called by the constructors of Configuration         *)
(* (src/src/Configuration.cc) and Test (src/src/Test.cc), one after the    *)
(* other as main does. Errors do not end parsing: all of them are printed, *)
(* and only in the end is the file refused.                                *)
(*                                                                         *)
(* Left out: how a test case's file is found (TestCase has it), and the    *)
(* text that stderr-replace makes of the expected error output.            *)
(***************************************************************************)
EXTENDS Directives, SequencesExt, FiniteSets

CONSTANT Less(_, _)     \* std::string's operator< on names of files

\* A line as its first word and the text behind the blank; "comment" are lines that are
\* empty or start with #, "unknown" any word that is no directive. A line without a
\* blank has an empty text: that comes to the same.
Line == [name : TestDirectives \cup ConfDirectives \cup {"comment", "unknown"}, text : Text]
File == [exists : BOOLEAN, lines : Seq(Line)]

\* written: the arguments the author of the test case wrote down, if it is one of those
\* made to see whether they are read so; otherwise <<>>.
CaseType == [conf : File, test : File, written : Seq(Text)]

Error == {"unknown", "repeated", "quoting", "count", "refused", "required"}

VARIABLES
    case,            \* what there is to read
    reading,         \* "conf" or "test": whose Parser it is
    open,            \* the file is open
    line_no,         \* lines read of it
    ok,              \* Parser::ok
    seen,            \* Parser::seen_directives
    messages,        \* what was printed: file, line and error
    configuration,
    test,
    outcome          \* "running", "loaded", "refused", "aborted"

parserVars == <<case, reading, open, line_no, ok, seen, messages, configuration, test, outcome>>

ParserInit ==
    /\ reading = "conf"
    /\ open = FALSE
    /\ line_no = 0
    /\ ok = TRUE
    /\ seen = {}
    /\ messages = {}
    /\ configuration = Defaults
    /\ test = EmptyTest
    /\ outcome = "running"

-----------------------------------------------------------------------------
(* Parser *)

lines == case[reading].lines
Table == IF reading = "conf" THEN ConfTable ELSE TestTable

\* Mutant: the line number goes on from the file before.
OpenFileGoOn ==
    /\ outcome = "running" /\ ~open
    /\ case[reading].exists
    /\ open' = TRUE
    /\ ok' = TRUE
    /\ seen' = {}
    /\ UNCHANGED <<case, reading, line_no, messages, configuration, test, outcome>>

\* Parser's constructor. That there is no configuration is no error.
OpenFile ==
    /\ outcome = "running" /\ ~open
    /\ case[reading].exists
    /\ open' = TRUE
    /\ line_no' = 0
    /\ ok' = TRUE
    /\ seen' = {}
    /\ UNCHANGED <<case, reading, messages, configuration, test, outcome>>

CannotOpen ==
    /\ outcome = "running" /\ ~open
    /\ ~case[reading].exists
    /\ IF reading = "conf"
       THEN reading' = "test" /\ UNCHANGED outcome
       ELSE outcome' = "refused" /\ UNCHANGED reading
    /\ UNCHANGED <<case, open, line_no, ok, seen, messages, configuration, test>>

\* The next line and its directive.
line == lines[line_no + 1]
directive == Table[line.name]

Given ==
    IF directive.minimum = -1 THEN [ok |-> TRUE, args |-> <<line.text>>] ELSE Tokenize(line.text)
CountOk ==
    \/ directive.minimum = -1
    \/ /\ Len(Given.args) >= directive.minimum
       /\ directive.maximum # -1 => Len(Given.args) <= directive.maximum
Refuses == IF reading = "conf" THEN ConfRefuses(configuration, line.name, Given.args)
                               ELSE TestRefuses(test, line.name, Given.args)

ReadLine == outcome = "running" /\ open /\ line_no < Len(lines) /\ line_no' = line_no + 1

\* Mutant: whether all went well is said of the last line alone.
PrintErrorsOfLast(errors) ==
    /\ messages' = messages \cup {<<reading, line_no', e>> : e \in errors}
    /\ ok' = (errors = {})

\* print_error for each of a set of errors in the line that was read.
PrintErrors(errors) ==
    /\ messages' = messages \cup {<<reading, line_no', e>> : e \in errors}
    /\ ok' = (ok /\ errors = {})

SkipLine ==
    /\ ReadLine
    /\ line.name = "comment"
    /\ UNCHANGED <<case, reading, open, ok, seen, messages, configuration, test, outcome>>

Unknown ==
    /\ ReadLine
    /\ line.name \notin DOMAIN Table \cup {"comment"}
    /\ PrintErrors({"unknown"})
    /\ UNCHANGED <<case, reading, open, seen, configuration, test, outcome>>

Repeated ==
    /\ ReadLine
    /\ line.name \in DOMAIN Table
    /\ directive.only_once /\ line.name \in seen
    /\ PrintErrors({"repeated"})
    /\ UNCHANGED <<case, reading, open, seen, configuration, test, outcome>>

Directed ==
    /\ ReadLine
    /\ line.name \in DOMAIN Table
    /\ directive.only_once => line.name \notin seen
    /\ seen' = seen \cup {line.name}

QuotingErrors == IF Given.ok THEN {} ELSE {"quoting"}

\* Mutant: a directive counts as seen only when it was right.
WrongCountUnseen ==
    /\ ReadLine
    /\ line.name \in DOMAIN Table
    /\ directive.only_once => line.name \notin seen
    /\ ~CountOk
    /\ PrintErrors(QuotingErrors \cup {"count"})
    /\ UNCHANGED <<case, reading, open, seen, configuration, test, outcome>>

WrongCount ==
    /\ Directed
    /\ ~CountOk
    /\ PrintErrors(QuotingErrors \cup {"count"})
    /\ UNCHANGED <<case, reading, open, configuration, test, outcome>>

\* process_directive throws an Exception, leaves with std::regex_error, or is done. An error
\* in the quotes does not keep the arguments before it from being used.
Refuse ==
    /\ Directed
    /\ CountOk /\ Refuses
    /\ PrintErrors(QuotingErrors \cup {"refused"})
    /\ UNCHANGED <<case, reading, open, configuration, test, outcome>>

Abort ==
    /\ Directed
    /\ CountOk /\ Aborts(line.name, Given.args)
    /\ PrintErrors(QuotingErrors)
    /\ outcome' = "aborted"
    /\ UNCHANGED <<case, reading, open, configuration, test>>

Take ==
    /\ Directed
    /\ CountOk /\ ~Refuses /\ ~Aborts(line.name, Given.args)
    /\ PrintErrors(QuotingErrors)
    /\ IF reading = "conf"
       THEN configuration' = ConfTakes(configuration, line.name, Given.args) /\ UNCHANGED test
       ELSE test' = TestTakes(test, line.name, Given.args) /\ UNCHANGED configuration
    /\ UNCHANGED <<case, reading, open, outcome>>

EndOfFile == outcome = "running" /\ open /\ line_no = Len(lines)
Lacking == {d \in DOMAIN Table : Table[d].required /\ d \notin seen}

\* The errors of the loop after the last line have its number. parse throws, and so do
\* the constructors: nihtest exits with 99.
RefuseFile ==
    /\ EndOfFile
    /\ ~ok \/ Lacking # {}
    /\ messages' = messages \cup {<<reading, line_no, "required">> : d \in Lacking}
    /\ ok' = FALSE
    /\ outcome' = "refused"
    /\ UNCHANGED <<case, reading, open, line_no, seen, configuration, test>>

ConfigurationRead ==
    /\ EndOfFile /\ ok /\ Lacking = {}
    /\ reading = "conf"
    /\ reading' = "test"
    /\ open' = FALSE
    /\ UNCHANGED <<case, line_no, ok, seen, messages, configuration, test, outcome>>

\* std::sort, which may exchange entries with the same name.
SortsTo(from, to) ==
    /\ \E order \in [1..Len(from) -> 1..Len(from)] :
          /\ \A j, k \in 1..Len(from) : order[j] = order[k] => j = k
          /\ to = [k \in 1..Len(from) |-> from[order[k]]]
    /\ \A j, k \in 1..Len(to) : j < k => ~Less(to[k].name, to[j].name)

TestRead ==
    /\ EndOfFile /\ ok /\ Lacking = {}
    /\ reading = "test"
    /\ LET program == IF test.program = <<>> THEN configuration.default_program ELSE test.program
       IN \/ /\ program = <<>>
             /\ outcome' = "refused"
             /\ UNCHANGED test
          \/ /\ program # <<>>
             /\ outcome' = "loaded"
             /\ \E sorted \in [1..Len(test.files) -> ToSet(test.files)] :
                   /\ SortsTo(test.files, sorted)
                   /\ test' = [test EXCEPT !.program = program, !.files = sorted]
    /\ UNCHANGED <<case, reading, open, line_no, ok, seen, messages, configuration>>

ParserNext == OpenFile \/ CannotOpen \/ SkipLine \/ Unknown \/ Repeated \/ WrongCount \/ Refuse
                  \/ Abort \/ Take \/ RefuseFile \/ ConfigurationRead \/ TestRead

-----------------------------------------------------------------------------
(* Properties *)

ParserTypeOK ==
    /\ case \in CaseType
    /\ reading \in {"conf", "test"}
    /\ open \in BOOLEAN
    /\ line_no \in Nat
    /\ open => line_no <= Len(lines)
    /\ ok \in BOOLEAN
    /\ seen \subseteq TestDirectives \cup ConfDirectives
    /\ messages \subseteq {"conf", "test"} \X Nat \X Error
    /\ configuration \in ConfType
    /\ test \in TestType
    /\ outcome \in {"running", "loaded", "refused", "aborted"}

\* Whole files, as their author sees them.
LinesOf(file) == IF case[file].exists THEN case[file].lines ELSE <<>>
Where(file, names) == {k \in 1..Len(LinesOf(file)) : LinesOf(file)[k].name \in names}
WholeLine == {"description", "stderr", "stdin", "stdout"}
Arguments(file, k) ==
    LET l == LinesOf(file)[k]
    IN IF l.name \in WholeLine THEN <<l.text>> ELSE Tokenize(l.text).args
QuotedWell(file, k) ==
    LinesOf(file)[k].name \in WholeLine \/ Tokenize(LinesOf(file)[k].text).ok

\* How many arguments each directive takes (the manuals, nihtest-case and nihtest.conf).
Takes(d) ==
    CASE d = "args" -> Nat
      [] d \in {"features", "precheck"} -> Nat \ {0}
      [] d = "file" -> {2, 3}
      [] d \in {"file-del", "file-new", "setenv", "stderr-replace"} -> {2}
      [] d = "file-compare" -> Nat \ 0..2
      [] OTHER -> {1}
Repeatable == {"stderr", "stdin", "stdout", "file", "file-del", "file-new", "file-compare",
               "precheck", "setenv", "stderr-replace"}
Known(file) == IF file = "conf" THEN ConfDirectives ELSE TestDirectives
Numbered(file, k) == Len(Arguments(file, k)) \in Takes(LinesOf(file)[k].name)

\* What is wrong with a line, given the lines before it.
Again(file, k) ==
    LinesOf(file)[k].name \notin Repeatable
        /\ \E j \in 1..(k - 1) : LinesOf(file)[j].name = LinesOf(file)[k].name
Accepted(file, k, names) ==
    {j \in Where(file, names) \cap 1..(k - 1) : Numbered(file, j) /\ ~Again(file, j)}
Clashes(file, k) ==
    LET name == LinesOf(file)[k].name
        Given1(j) == Arguments(file, j)[1]
    IN \/ name = "setenv" /\ \E j \in Accepted(file, k, {name}) : Given1(j) = Given1(k)
       \/ name = "stdin-file" /\ Accepted(file, k, {"stdin"}) # {}
       \/ /\ name = "stdin"
          /\ \E j \in Accepted(file, k, {"stdin-file"}) :
                Given1(j) # <<>> /\ Where(file, {"stdin"}) \cap 1..(j - 1) = {}
       \/ /\ name = "file-compare"
          /\ \E j \in Accepted(file, k, {name}) :
                Extensions(Arguments(file, j)) = Extensions(Arguments(file, k))
       \/ name \in {"keep-sandbox", "print-results"} /\ Given1(k) \notin When
Faults(file, k) ==
    IF LinesOf(file)[k].name = "comment" THEN {}
    ELSE IF LinesOf(file)[k].name \notin Known(file) THEN {"unknown"}
    ELSE IF Again(file, k) THEN {"repeated"}
    ELSE (IF QuotedWell(file, k) THEN {} ELSE {"quoting"})
             \cup (IF Numbered(file, k)
                   THEN IF Clashes(file, k) THEN {"refused"} ELSE {}
                   ELSE {"count"})
AllFaults(file) ==
    UNION {{<<file, k, e>> : e \in Faults(file, k)} : k \in 1..Len(LinesOf(file))}

\* When nihtest gives up a file, it has printed every mistake in it, each at its line, and
\* no mistake that follows from another one: a directive with a wrong number of arguments
\* is not called missing, or allowed again (Parser.cc:56-130). That there are no args,
\* though the manual requires them, is not counted as a mistake here; see LoadedIfSound.
EveryMistakeTold ==
    outcome \in {"loaded", "refused"} =>
        \A file \in {"conf", "test"} :
            (file = reading \/ file = "conf") =>
                {m \in messages : m[1] = file} =
                    AllFaults(file) \cup
                        (IF file = "test" /\ case.test.exists /\ Where(file, {"return"}) = {}
                         THEN {<<file, Len(LinesOf(file)), "required">>} ELSE {})

\* A configuration and a test case without a mistake, whatever the order of their lines.
Sound(file) ==
    /\ \A k \in Where(file, {"comment"}) \cup Where(file, Known(file)) :
          LinesOf(file)[k].name # "comment" => QuotedWell(file, k) /\ Numbered(file, k)
    /\ Where(file, {"comment"} \cup Known(file)) = 1..Len(LinesOf(file))
    /\ \A d \in Known(file) \ Repeatable : Cardinality(Where(file, {d})) <= 1
    /\ \A j, k \in Where(file, {"setenv"}) :
          Arguments(file, j)[1] = Arguments(file, k)[1] => j = k
    /\ \A j \in Where(file, {"stdin-file"}), k \in Where(file, {"stdin"}) :
          j < k /\ Arguments(file, j)[1] = <<>>
    /\ \A j, k \in Where(file, {"file-compare"}) :
          Extensions(Arguments(file, j)) = Extensions(Arguments(file, k)) => j = k
    /\ \A k \in Where(file, {"keep-sandbox", "print-results"}) : Arguments(file, k)[1] \in When
\* Two directives must appear (nihtest-case.mdoc:51-55).
SoundTest == Sound("test") /\ \A d \in {"args", "return"} : Cardinality(Where("test", {d})) = 1

\* The one given in the only such directive, or a default.
Single(file, d, default) ==
    IF Where(file, {d}) = {} THEN default ELSE Arguments(file, Max(Where(file, {d})))[1]
ProgramOf ==
    IF Single("test", "program", <<>>) # <<>> THEN Single("test", "program", <<>>)
    ELSE Single("conf", "default-program", <<>>)

\* A test is run exactly if configuration and test case are without mistakes, whatever
\* the order of the lines, and there is a program (Parser.cc:56-130, Test.cc:87-92): no
\* error is forgotten on the way, and none is made up. Excepted are test cases in which
\* args is missing: the manual requires it, nihtest does without (Test.cc:48).
LoadedIfSound ==
    outcome \in {"loaded", "refused"} /\ (case.test.exists => Where("test", {"args"}) # {}) =>
        (outcome = "loaded" <=>
            /\ Sound("conf")
            /\ case.test.exists /\ SoundTest
            /\ ProgramOf # <<>>)

\* What lines of some directives say, in their order, up to each line and in the whole file.
SaidUpTo(file, names) ==
    LET UpTo[k \in 0..Len(LinesOf(file))] ==
            IF k = 0 THEN <<>>
            ELSE IF k \in Where(file, names)
            THEN Append(UpTo[k - 1], [name |-> LinesOf(file)[k].name, args |-> Arguments(file, k)])
            ELSE UpTo[k - 1]
    IN UpTo
Said(file, names) == SaidUpTo(file, names)[Len(LinesOf(file))]
Firsts(said) == [n \in 1..Len(said) |-> said[n].args[1]]
List(d) == IF Where("test", {d}) = {} THEN <<>> ELSE Arguments("test", Max(Where("test", {d})))

\* A test that is run is the one the file describes: what a directive says is not lost,
\* doubled or given to another; a file without an output is compared with its input;
\* files are in the order CompareFiles relies on (Test.cc:302-386, 104). One directive is
\* excepted: precheck may be repeated (Test.cc:55), but each such line overwrites the one
\* before (335-336), so that only the last of them counts, and the others are lost.
TestAsDescribed ==
    outcome = "loaded" =>
        LET Texts(d) == Firsts(Said("test", {d}))
            FileSaid(f) ==
                [name |-> f.args[1],
                 input |-> IF f.name = "file-new" THEN <<>> ELSE f.args[2],
                 output |-> IF f.name = "file-del" THEN <<>> ELSE Last(f.args)]
            filesSaid == Said("test", {"file", "file-del", "file-new"})
        IN /\ test.output = Texts("stdout")
           /\ test.error_output = Texts("stderr")
           /\ test.input = Texts("stdin")
           /\ test.input_file = Single("test", "stdin-file", <<>>)
           /\ test.exit_code = Single("test", "return", <<>>)
           /\ test.preload_library = Single("test", "preload", <<>>)
           /\ test.program = ProgramOf
           /\ test.arguments = List("args")
           /\ test.required_features = List("features")
           /\ test.precheck_command = List("precheck")      \* the last one
           /\ test.environment = {<<s.args[1], s.args[2]>> : s \in ToSet(Said("test", {"setenv"}))}
           /\ test.error_output_replace =
                 [n \in 1..Len(Texts("stderr-replace")) |->
                     LET args == Said("test", {"stderr-replace"})[n].args IN <<args[1], args[2]>>]
           /\ Len(test.files) = Len(filesSaid)
           /\ ToSet(test.files) = {FileSaid(f) : f \in ToSet(filesSaid)}
           /\ \A j, k \in 1..Len(test.files) :
                 j < k => ~Less(test.files[k].name, test.files[j].name)
           /\ configuration.file_compare =
                 {<<Extensions(s.args), SubSeq(s.args, 3, Len(s.args))>> :
                     s \in ToSet(Said("conf", {"file-compare"}))}

\* Arguments that were written down, in quotes or without, reach the program as they
\* were meant, with their blanks, tabs, newlines and backslashes (Parser.cc:140-209).
ReadAsWritten ==
    outcome = "loaded" =>
        \A k \in Where("test", {"args"}) :
            LinesOf("test")[k].text \in Written(case.written) => test.arguments = case.written

=============================================================================
