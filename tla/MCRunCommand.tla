---------------------------- MODULE MCRunCommand ----------------------------
(* Small instances of RunCommand for TLC. *)
EXTENDS RunCommand

Plain(input) == [absolute |-> FALSE, exists |-> TRUE, preload |-> "none",
                 input |-> input, file |-> FALSE, kernel |-> "Linux", ignored |-> {}]
OnBSD(c) == [c EXCEPT !.kernel = "BSD"]
Ignoring(signals, c) == [c EXCEPT !.ignored = signals]

\* A command for each way out of run_command before the fork.
Rejected == {[Plain(<<>>) EXCEPT !.exists = FALSE],
             [Plain(<<>>) EXCEPT !.absolute = TRUE],
             [Plain(<<>>) EXCEPT !.preload = "missing"]}

FromFile == [Plain(<<>>) EXCEPT !.file = TRUE, !.preload = "found"]

\* Input that fits a pipe of one byte, and input that needs two.
FitsOne  == Rejected \cup {FromFile, Plain(<<>>), Plain(<<"a">>), OnBSD(Plain(<<"a">>))}
TwoBytes == {Plain(<<"a", "b">>)}
Doubled  == {Plain(<<"a", "a">>)}
Anything == FitsOne \cup TwoBytes
                \cup {OnBSD(Ignoring({"SIGPIPE"}, Plain(<<"a", "b">>))),
                      Ignoring({"SIGPIPE", "SIGCHLD"}, Plain(<<"a">>))}

AllStatuses == {"0", "17", "SIGPIPE"}
AllSignals  == {"SIGPIPE"}

=============================================================================
