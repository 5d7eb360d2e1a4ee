----------------------------- MODULE Directives -----------------------------
(***************************************************************************)
(* The directives of test cases (src/src/Test.cc) and of the configuration *)
(* (src/src/Configuration.cc): how often and with how many arguments each  *)
(* may be given, and what process_directive does with it.                  *)
(***************************************************************************)
EXTENDS Tokenizer

\* The parameters in the order of the definition (Parser.cc:41). The declaration
\* (Parser.h:55) has the names of the second and third the other way round.
\* minimum -1: the rest of the line is one argument. maximum 0: as many as minimum,
\* -1: any number.
Directive(minimum, only_once, required, maximum) ==
    [minimum |-> minimum, only_once |-> only_once, required |-> required,
     maximum |-> IF maximum = 0 THEN minimum ELSE maximum]

TestDirectives == {"args", "description", "features", "file", "file-del", "file-new", "precheck",
    "preload", "program", "return", "setenv", "stderr", "stderr-replace", "stdin", "stdin-file",
    "stdout"}
ConfDirectives == {"default-program", "file-compare", "keep-sandbox", "print-results",
    "sandbox-directory", "source-directory", "top-build-directory"}

TestTable == [d \in TestDirectives |->
    CASE d = "args" -> Directive(0, TRUE, FALSE, -1)
      [] d = "features" -> Directive(1, TRUE, FALSE, -1)
      [] d = "file" -> Directive(2, FALSE, FALSE, 3)
      [] d = "precheck" -> Directive(1, FALSE, FALSE, -1)
      [] d = "return" -> Directive(1, TRUE, TRUE, 0)
      [] d = "description" -> Directive(-1, TRUE, FALSE, 0)
      [] d \in {"preload", "program", "stdin-file"} -> Directive(1, TRUE, FALSE, 0)
      [] d \in {"file-del", "file-new", "setenv", "stderr-replace"} -> Directive(2, FALSE, FALSE, 0)
      [] d \in {"stderr", "stdin", "stdout"} -> Directive(-1, FALSE, FALSE, 0)]

ConfTable == [d \in ConfDirectives |->
    IF d = "file-compare" THEN Directive(3, FALSE, FALSE, -1) ELSE Directive(1, TRUE, FALSE, 0)]

-----------------------------------------------------------------------------
(* Test::process_directive. Texts and arguments are sequences of symbols. *)

Text == Seq(Symbol)

\* Test::File.
Entry == [name : Text, input : Text, output : Text]

TestType == [arguments : Seq(Text), required_features : Seq(Text), files : Seq(Entry),
             input_file : Text, input : Seq(Text), precheck_command : Seq(Text),
             preload_library : Text, program : Text, exit_code : Text,
             environment : SUBSET (Text \X Text), error_output : Seq(Text),
             error_output_replace : Seq(Text \X Text), output : Seq(Text)]

EmptyTest ==
    [arguments |-> <<>>, required_features |-> <<>>, files |-> <<>>, input_file |-> <<>>,
     input |-> <<>>, precheck_command |-> <<>>, preload_library |-> <<>>, program |-> <<>>,
     exit_code |-> <<>>, environment |-> {}, error_output |-> <<>>,
     error_output_replace |-> <<>>, output |-> <<>>]

\* Mutant: without an output the file is to be deleted.
FileGone(d, a) ==
    [name |-> a[1],
     input |-> IF d = "file-new" THEN <<>> ELSE a[2],
     output |-> CASE d = "file-new" -> a[2]
                  [] d = "file" /\ Len(a) = 3 -> a[3]
                  [] OTHER -> <<>>]

FileOf(d, a) ==
    [name |-> a[1],
     input |-> IF d = "file-new" THEN <<>> ELSE a[2],
     output |-> CASE d = "file-del" -> <<>>
                  [] d # "file-del" /\ Len(a) = 2 -> a[2]
                  [] OTHER -> a[3]]

\* An Exception, which the parser reports.
TestRefuses(t, d, a) ==
    \/ d = "stdin-file" /\ t.input # <<>>
    \/ d = "stdin" /\ t.input_file # <<>>
    \/ d = "setenv" /\ \E e \in t.environment : e[1] = a[1]

\* std::regex throws std::regex_error, which is no Exception, so nobody catches it.
Aborts(d, a) == d = "stderr-replace" /\ \E k \in 1..Len(a[1]) : a[1][k] = "["

TestTakes(t, d, a) ==
    CASE d = "args" -> [t EXCEPT !.arguments = a]
      [] d = "description" -> t
      [] d = "features" -> [t EXCEPT !.required_features = a]
      [] d \in {"file", "file-del", "file-new"} -> [t EXCEPT !.files = Append(@, FileOf(d, a))]
      [] d = "stdin-file" -> [t EXCEPT !.input_file = a[1]]
      [] d = "precheck" -> [t EXCEPT !.precheck_command = a]
      [] d = "preload" -> [t EXCEPT !.preload_library = a[1]]
      [] d = "program" -> [t EXCEPT !.program = a[1]]
      [] d = "return" -> [t EXCEPT !.exit_code = a[1]]
      [] d = "setenv" -> [t EXCEPT !.environment = @ \cup {<<a[1], a[2]>>}]
      [] d = "stderr" -> [t EXCEPT !.error_output = Append(@, a[1])]
      [] d = "stderr-replace" -> [t EXCEPT !.error_output_replace = Append(@, <<a[1], a[2]>>)]
      [] d = "stdin" -> [t EXCEPT !.input = Append(@, a[1])]
      [] d = "stdout" -> [t EXCEPT !.output = Append(@, a[1])]

-----------------------------------------------------------------------------
(* Configuration::process_directive *)

When == {<<"never">>, <<"failed">>, <<"always">>}

ConfType == [default_program : Text, file_compare : SUBSET (Text \X Seq(Text)),
             keep_sandbox : When, print_results : When, sandbox_directory : Text,
             source_directory : Text, top_build_directory : Text]

Defaults ==
    [default_program |-> <<>>, file_compare |-> {}, keep_sandbox |-> <<"never">>,
     print_results |-> <<"failed">>, sandbox_directory |-> <<>>, source_directory |-> <<>>,
     top_build_directory |-> <<>>]

\* The key of a file-compare command.
Extensions(a) == a[1] \o <<".">> \o a[2]

ConfRefuses(c, d, a) ==
    \/ d = "file-compare" /\ \E f \in c.file_compare : f[1] = Extensions(a)
    \/ d \in {"keep-sandbox", "print-results"} /\ a[1] \notin When

ConfTakes(c, d, a) ==
    CASE d = "default-program" -> [c EXCEPT !.default_program = a[1]]
      [] d = "file-compare" ->
            [c EXCEPT !.file_compare = @ \cup {<<Extensions(a), SubSeq(a, 3, Len(a))>>}]
      [] d = "keep-sandbox" -> [c EXCEPT !.keep_sandbox = a[1]]
      [] d = "print-results" -> [c EXCEPT !.print_results = a[1]]
      [] d = "sandbox-directory" -> [c EXCEPT !.sandbox_directory = a[1]]
      [] d = "source-directory" -> [c EXCEPT !.source_directory = a[1]]
      [] d = "top-build-directory" -> [c EXCEPT !.top_build_directory = a[1]]

=============================================================================
