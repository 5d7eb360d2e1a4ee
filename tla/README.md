# nihtest: models, model checking and proofs

nihtest runs one test case: it reads a `.test` file, makes a sandbox directory,
copies input files into it, runs a program there, and compares exit status,
standard output, standard error and the files left behind with what the test
case expects. This directory models how it does that. Source paths are relative
to the repository, so `src/src/Test.cc` is the file `Test.cc` in its `src`
directory.

## Inventory

| component | state | operations | hard behaviour |
|---|---|---|---|
| `run_command` (`OS-Unix-run.cc`) | three pipes, the pollfd array, three buffers, the child's status | create pipes, find program, fork, poll loop, wait | nihtest, the program and what the program leaves behind run concurrently and block on each other's pipes |
| `Test` (`Test.cc`) | the parsed test case, sandbox name, working directory, list of failed checks | constructor, `execute_test`, `find_file`, `enter_sandbox`, `leave_sandbox`, `print_result` | exceptions of any call between entering and leaving the sandbox |
| `main` (`nihtest.cc`) | option values, configuration | option loop, environment overrides, exit status | order of options, which of four sources of a setting wins |
| `CompareFiles` | two sorted lists, two indices | merge, per-file comparison | the merge relies on both lists being sorted the same way |
| `CompareArrays` | how far each diagonal of the edit graph was followed, and a copy of that per round | quick comparison, search, way back, printing | the same vector is read and written in one round; index arithmetic at the edges of the graph |
| `Parser`, `process_directive` | the directives seen, the test case being built | tokenize, check counts, dispatch | errors are collected, not thrown, and parsing goes on |
| `Configuration` | settings read with `Parser` | constructor | relative directories, defaults |
| `OS.cc`, `OS-Unix.cc` | none (the file system) | `compare_files`, `copy_file`, `list_files`, temporary directories | chunked reads; order of a recursive listing |
| `getopt_long.c` | `optind`, the permuted part of `argv` | short, long and permuted options | replacement for platforms without getopt_long |
| `OS-Windows.cc` | none | as `OS-Unix.cc`; `run_command` is a stub | none: single system calls |
| `Exception`, `getprogname`, compat headers | none | formatting | none |

`main` builds a `Configuration` (which uses `Parser`), then a `Test` (which uses
`Parser` too, and is called back by it for every directive), and calls
`Test::run`. `Test` calls `run_command` for the precheck and for the program, then
`CompareArrays` for the two output streams and `CompareFiles` for the directory.
`CompareFiles` calls `CompareArrays` again for text files and `OS::compare_files`
for others. Everything reports failure with the class `Exception`, caught in
`execute_test` (to leave the sandbox) and in `main` (exit status 99).

What makes each part correct:

- `run_command`: no output is lost, doubled, mixed or cut off; the status is the
  program's; input arrives whole and is followed by end of file; nobody is left
  waiting.
- `Test`: every way out leaves the sandbox and removes it unless it was to be
  kept, as far as `rm` does (its failures go unnoticed); the exit status of nihtest
  says what happened; the test passes only if all comparisons did.
- `CompareFiles`: every file only one side has is reported, and every file both
  have is compared, exactly once.
- `CompareArrays`: the edit script turns one array into the other and is minimal;
  no index leaves its array.
- `Parser`: a test case that parses obeys the directives' declared counts.
- `OS::compare_files`, `copy_file`: files pass exactly if they have the same bytes, and a
  copy is one, whatever the lengths are to the buffer's.
- option handling: options mean what their reader takes them for, wherever they stand; words
  that are none keep their order; a setting comes from the strongest source that gave one.

## Modules

| module | what it is | code |
|---|---|---|
| `CommandContract` | abstract: what a caller of `run_command` is promised | `OS.h` |
| `RunCommand` | `run_command`, the program, what it leaves behind, and the pipes between them | `OS-Unix-run.cc` |
| `RunCommandProofs` | proofs about `RunCommand`, and that it implements `CommandContract` | |
| `TestCase` | a test case from loading to the exit status, with its sandbox; its commands are those of `CommandContract` | `Test.cc`, `nihtest.cc` |
| `TestCaseProofs` | proofs about `TestCase`, and that its loop over the files is that of `CompareContract` | |
| `FileContents` | comparing and copying files in blocks | `OS.cc` |
| `CompareFiles` | the merge of expected and found files, and the comparison of each | `CompareFiles.cc` |
| `CompareContract` | abstract: what a test case is promised of the comparison of its files | `Test.cc`, `CompareFiles.cc` |
| `CompareFilesProofs` | proofs about `CompareFiles`, `FileContents` and `ListFiles`, and that `CompareFiles` implements `CompareContract` | |
| `ListFiles` | `list_files`, as a recursive function on directory trees | `OS-Unix.cc` |
| `CompareArrays` | comparison of two lists of lines, with the diff | `CompareArrays.cc` |
| `CompareArraysProofs` | proofs about `CompareArrays` | |
| `Tokenizer` | how a directive's text is split into arguments | `Parser.cc` |
| `Directives` | the directives of test cases and configuration and what they set | `Test.cc`, `Configuration.cc` |
| `Parser` | reading the configuration and the test case | `Parser.cc`, `Configuration.cc`, `Test.cc` |
| `GetoptLong` | handing out options one by one, moving the other words behind them | `getopt_long.c` |
| `Options` | the option loop, and variables that stand in for options | `nihtest.cc` |
| `Startup` | `Options` and `Parser` composed: which files are read, and what overrides the configuration | `nihtest.cc` |
| `ParserProofs` | proofs about `Parser` in `Startup`: lines, mistakes, messages | |
| `OptionsProofs` | proofs about `GetoptLong` and `Options`: blocks of words, what is handed out, what `main` makes of it | |
| `StartupProofs` | proofs about `Startup`: what is made of files without mistakes, of options, and of settings from several sources | |
| `Induction` | induction and recursion over numbers, in a form the provers can use | |
| `MCRunCommand`, `MCTestCase`, `MCCompareFiles`, `MCCompareArrays`, `MCStartup` | small instances for TLC | |

Definitions marked "Mutant" are plausible mistakes in the definition that follows
them. Each property was seen to fail when one of them replaced the original.

### RunCommand

`pc` says where the parent is: creating pipes, looking for the program, opening
standard input, forking, allocating buffers, in `poll`, scanning the result, in a
blocking `write`, in `waitpid`, or how it left. `held` is the descriptor table: which
pipe ends the parent, the child and an "heir" have open. The heir is anything the
program started that outlives it. `fds` and `i` are the array of live
pollfd entries and the loop's index, `buf` and `offset` the three buffers, `pipe` the
kernel's. `written`, `consumed` and `sawEof` are history. The child goes from
`fork` through `dup2` to `execv`, and then may read, write, close and exit in any
order, be killed, and leave ends to the heir.

Each `Buffer::read` and the branch for `POLLHUP` after it are one step, for nobody can
see what is between them; `Buffer::write` is one step for each byte, since it blocks
while the program goes on. `poll` answers as on Linux or as on the BSDs
(`command.kernel`). Exceptions can occur wherever the code throws one. Pipes, signals
and the program are not in the repository; they are modelled from what `run_command`
relies on.

### TestCase

`tc` is a test case with its configuration, as far as the life cycle depends on it; the
files of the world are in it too (which names exist in the directory nihtest was started
in, `build`, and which in `source-directory`). `pc` is the place in `execute_test`;
`cwd`, `sandbox` and `inSandbox` are the working directory, the state of the sandbox
directory and `Test::in_sandbox`. Leaving is three steps, after a verdict as after an error:
`ChangeBack` (into the parent, which may fail), `RemoveSandbox` (`rm -r`, or nothing if the
sandbox is kept) and `Report` of the `result`. `rm` runs in a shell, unquoted, and its failure
is ignored: it may leave the sandbox if somebody is in there, if a directory in it may not be
written to (`locked`), or if the path has a character special to the shell (`plainPath`), and it
does if the path is relative to another directory (`NamesSandbox`). `phase`, `ending`, `open`, `transcript` and `outcome`
are the variables of `CommandContract` for the command being run, for which `caller`
waits. A command whose call failed goes on running, and one that ended may leave a
process in the sandbox (`stray`): both change files at any time (`Touch`), also between
listing and comparing, and while `rm -r` runs. Whether a file's content is as expected is
kept, not the content.

### CompareFiles, FileContents and ListFiles

Names are numbers in the order of `std::string`. `e` and `g` are the two iterators,
`times` counts what was reported and compared. What a comparison comes to is given
(`judge`), or follows from two contents that `FileContents` reads in blocks of `BufferSize`
bytes: what is expected, and what is in the sandbox, which may have been brought there
by `copy_file`. `ListFiles` computes the order in which
`list_files` returns a tree, from names as sequences of character codes, so that the two
orders can be set against each other; `MCCompareFiles` feeds the result to the merge. A tree
is the set of the paths of its files, a path the sequence of the names on it. `IsTree` says
which sets are trees, `IsPlain` in which no character of a name sorts before the slash.
`Ordered` stands for `std::sort`, and is not `SetToSortSeq` because the provers cannot see
into the module override that one uses.

### CompareArrays

One step per diagonal in the search and one per call or turn of the loop on the way back.
`v` is the vector `w` without its offset, `path_lengths` the copies of it; the recursion
of `output` is unwound by putting what an inner call prints in front (`printed`). What
lies in front of the vector is any number in `Stray`: on the way back the code reads it
(see Disagreements). If it is -1, the code goes on to read `expected[-1]`, and anything may
happen (`LineBeforeFirst`, after which `phase` is "undefined").

### Tokenizer, Directives and Parser

`Tokenizer` and `Directives` are operators; `Parser` has the state, and its actions are
those of one call of `Parser::parse` after the other; `Startup` says what lies between: the file being read
(`reading`, `open`, `line_no`), `Parser::ok` and `seen_directives`, the `Configuration` and
the `Test` being filled, and as history which errors were printed (`messages`). One action
for each way a line can go. Texts are sequences of symbols: the characters that mean
something to the tokenizer, and letters or words for the others. `Written` says how
any number of arguments are written down, the other way round from `Tokenize`.

### GetoptLong, Options and Startup

`GetoptLong` has the static variables of `getopt_long.c`: `optind`, `place` (the letters
left of a word), `nonopt_start` and `nonopt_end` (the block of words skipped), `argv` itself,
which `permute_args` changes cycle by cycle (`Permuted`), and `returned`, the value of the
last call, or "scanning" in the middle of one. One action for each way through
`getopt_internal` and `getopt_long`. A word is a sequence of symbols: letters of which short
options are made, and pieces of long names, cut where an abbreviation may end. `Options` has
an action for each `case` in `main`; `keep_sandbox` and `print_results` are "unset" while the
flags `..._set` are false. `Startup` has the stages of `main`: options, the configuration,
then, after what was asked for has overridden it, the test case.

`getopt_long.c` is compiled where the C library has no `getopt_long`
(`src/src/CMakeLists.txt:24`). Elsewhere the library's is used, which agrees with it on
nihtest's options.

## Runs

| run | asks | bounds |
|---|---|---|
| `command` | the safety of `run_command` under every interleaving and failure | pipes of 1 byte, buffers of 2, two bytes on each stream, inputs of up to two bytes; 10 commands |
| `command_live` | termination, nobody blocked for good, and that `RunCommand` implements `CommandContract` | as above with buffers of 3, and input that fits the pipe |
| `command_deadlock` | (violated) does `write` return for any input? | input of two bytes, pipe of one |
| `command_sigpipe` | (violated) does nihtest survive any program? | input of two bytes |
| `test_case` | verdict, sandbox and exit status under every failure | 28 test cases, each varying one or two things, two files, one byte of output |
| `test_case_kept` | (violated) is the sandbox gone with `keep-sandbox never`? | a relative `sandbox-directory` |
| `compare_files` | the merge, with all lists over three names, in any order and with names that occur twice, and the lists of small trees; files compared in blocks | every choice of deleted, wanted and found files and of verdicts; contents of up to two buffers of two bytes |
| `compare_files_order` | (violated) does it hold for any tree? | names with a dot |
| `compare_arrays` | verdict, correctness, minimality and success of the diff | all pairs of lists of up to 4 lines of 2 kinds or 3 lines of 3 kinds |
| `compare_arrays_index` | (violated) does every index stay in the vector? | nothing expected, two lines |
| `startup` | what options mean, which setting wins, which files are refused, with which messages, and what the others mean | command lines of two words of 21 kinds, three of 11 or five of four, all variables; texts of up to four characters of six kinds, one to three arguments of up to two characters (the later ones shorter), files of two lines of 27 kinds, by themselves and behind the two that must appear, or three of those kinds that are related |
| `options_config` | (violated) is `-C` followed by the configuration file? | as `startup` |

Why the bounds are enough. A pipe of one byte is full after one write, so that every
partial read, short write and block occurs with inputs of two; a buffer of two is reached
and not reached; more bytes repeat what happened before (and the theorems hold for any
size). Three names are enough for each of the three kinds of name to come before, between
and after the others. Two buffers and the rest of a third are all a loop over blocks can
tell apart: a short, a full and an empty last read. Five words are enough for a block of
skipped words to be moved twice, and for blocks whose lengths have a common divisor. Four lines of two kinds are enough for lines that move, repeat, and
for diagonals that leave the graph on both sides. In `TestCase`, one file that is given
and one that the program makes stand for all; the loops handle each by itself.

Deadlock is checked except in `command` and `command_deadlock`, where nihtest and a
program that stops reading can block each other for good: that is `command_deadlock`.
Elsewhere the system only stops where `Terminated` or its like says it may.

### What the properties say

- `StreamIntact`, `PolledUntilEof`, `OutputComplete`: no output is lost, doubled or
  swapped; a stream is dropped only when it is at its end; what is returned is all.
- `StatusFaithful`: the status returned is the program's. It assumes that SIGCHLD is not
  ignored; if it is, `status` is read uninitialised and may be anything.
- `InputIntact`, `EofMeansAll`: input arrives in order, and end of file means all of it.
- `BufferLimit`: "buffer full" for streams of `BUFFER_SIZE` bytes and more, only for
  those. A stream of exactly that size is refused.
- `Terminates`, `Unblocked`, `ImplementsContract`: see `command_live`.
- `PassMeansAll`: exit status 0 only after everything was compared and as expected.
- `EvidenceKept`, `SandboxGone`: the sandbox is kept if it may be, and removed if not, whatever
  fails before. From the second are excepted, by name, the cases in which `rm` or the change of
  directory fails: somebody is in the sandbox when it is to be removed, or a directory there may
  not be written to, or nihtest cannot leave it (`hindered`); its path is special to the shell
  (`plainPath`); `sandbox-directory` is relative (which `test_case_kept` is about).
- `RemovedLast`: it is removed from outside, when the result is known, and then nothing more of
  the test is done. `SkippedUntouched`: a skipped test leaves no trace.
- `MergeExact`, `VerdictRight`, `ListingExact`: each file is reported or compared exactly
  once and the verdict follows.
- `KeepsContract`: on sorted lists, the merge implements `CompareContract`: each file is settled
  once, the answer comes when all are, and is yes exactly if all are right.
- `PassMeansSame`: also if a file is named by several directives, or the lists are not
  sorted, nothing passes unless the files wanted, and no others, are there and right, and no two
  directives want one file. A file that is wanted and named by `file-del` too is taken for
  wanted (see Disagreements).
- `ContentsDecide`: where bytes decide, a file passes exactly if it is the one expected, and
  one that was copied still is.
- `ArgvPermuted`: after the last option, `argv` has options first and operands behind them,
  both in the order they were given in.
- `OptionsHonoured`: what `main` does is what a reader of the words, without the machinery,
  takes them to demand, who knows what the usage line, the help and the manual offer (`Offered`).
  `-C` is excepted, which is used but goes on being an operand, and so is `-q` by letter, which is
  offered and refused (see Disagreements).
- `StrongestWins`: a test runs with the settings of the command line, else of the
  environment, else of the configuration file, else the default.
- `AlwaysFound`, `DiffCorrect`, `DiffSmallest`, `VerdictSame`: the diff is found, is one,
  has as few differences as can be (against a definition of the distance by recursion on
  the graph), and does not change the verdict. Reading `expected[-1]` is excepted, and
  `AlwaysFound` says that it can happen only if nothing is expected.
- `LoadedIfSound`, `EveryMistakeTold`: a test is run exactly if configuration and test case
  have no mistake, which is said of the whole file and does not look at the order of lines
  (but for an empty `stdin-file`, which may come before `stdin` and not after); otherwise
  each mistake is printed, at its line, and none that only follows from another. How often
  it is printed is not kept. Test cases without `args` are excepted from the first, and the
  second does not count a missing `args` as a mistake: the manual requires it, the code does not
  (see Disagreements).
- `TestAsDescribed`, `ReadAsWritten`: what is run is what the files say, but of several `precheck`
  lines only the last (see Disagreements).
- `Finishes` in each module: it comes to an end.

### Fairness

nihtest is single-threaded and the operating system runs it unless it is blocked: weak
fairness of what it does when no call fails. No failure is owed, but for what must fail: in
`TestCase`, a command that is nowhere on its search path (`NotFound`), and a file that is not
found. `CommandThrows`, which is possible for as long as a command runs, is not in the fair
part of `TestCase`, so that nihtest waits until the command has ended. For termination the
other parties are assumed to be ordinary: a program that may always do something does
something and, since each stream is bounded, ends; what it left behind closes its
descriptors in the end. The code has no timeouts, so without this nihtest waits forever,
and it should. In `TestCase` the same assumption is made of the commands
(`CommandEnds`, `CommandCloses`). The searches in `CompareFiles` and `CompareArrays` are
plain loops.

## Proofs

TLAPS checks these for all values of the constants, under the assumptions in the modules
(`RunCommandAssumption`, `CompareFilesAssumption`, `CompareArraysAssumption`,
`TestCaseAssumption`, `BufferAssumption`, `StartupAssumption`), which TLC evaluates in every run.

**RunCommand.** `TypeCorrect`, `StreamsIntact`, `LoopWaitsForEof`, `OutputIsComplete`,
`StatusIsFaithful`, `InputIsIntact`, `EofAfterAll`. The difficulty is in `PolledUntilEof`:
the loop removes an entry because of what `poll` said some steps ago, and the program goes
on in between. `IInv` in `RunCommandProofs` therefore adds `Fresh` (a hang-up reported is
still true, and nothing can come after it, for nobody has the write end any more),
`Entries` (one pollfd entry per stream; stdin's only while there is input left) and
`Writers` (who is in the middle of writing has the stream open, so a closed stream cannot
come back). The theorems about input have invariants of their own on top of it, and so has
`LimitIsRight` (`BufferLimit`): only the read that fills a buffer says so.

`ContractIsKept`: `RunCommand` implements `CommandContract` if no
command is run with SIGCHLD ignored. `Fork` is `Start`, `Return` is `Return`, a `Throw` or
death is `Fail`; a byte written is `Emit`, which needs `Writers`; `Return` needs that
nobody can write any more, which is `Eof` with no entry left, and that what was captured is
all, which is `OutputComplete`. All other steps change nothing in the contract.

**TestCase.** `TypeCorrect`, `PassIsEarned`, `SandboxIsGone`, `EvidenceIsKept`,
`SkippedIsUntouched`, `RemovalIsLast`, for any test cases, any number of files, and commands of
which nothing is assumed. The invariant has three parts. `Placed`: nihtest is in the sandbox, as
`in_sandbox` says, exactly in the places of `execute_test` from which the handler is reached
(`Late`), and has touched nothing in the others (`Early`). `Judged`: a difference found is in
`failed`, and while nothing is, each file not in `todo` is as expected. `Leaving`: between the
verdict and its report (`Out`), nihtest is back in the parent, a result of 0 has been `Earned`, and
once `rm` was run or not, the sandbox is as it should be or there is a named reason
(`DealtWith`).

`LoopFollowsContract` puts `TestCase` and `CompareFiles` together. `TestCase` takes the files in any
order and looks at them one by one, while other processes change them; `CompareFiles` has the two
iterators, and knows what each comparison will come to. `CompareContract` is what they have in
common: files wanted and present, those that are not settled, what the others came to, and the
answer. `LoopInv` has what the first one needs: a comparator is called for a file that is still to
be settled, and was expected and listed; `files` is in `failed` exactly if one was not right.

**CompareFiles.** `TypeCorrect`, `MergeIsExact`, `VerdictIsRight`, `PassIsSame`. The invariant says that
what has been passed in one list is smaller than what is left of the other (`Apart`), that
counts and verdict are right for what has been passed, and that the loop ends at the end
of both lists. It uses that the lists are sorted; `compare_files_order` shows the other
case. `PassIsSame` does without: while `ok` holds, what has been passed in both lists was a
pair that compared equal, or to be deleted; a name that was wanted twice takes two of
those found (`TwiceIfOk`).

`ContractIsKept`: `CompareFiles` implements `CompareContract` if the lists are sorted (`Sorted`; then
`SortedImplements`, if all are). What is not settled is what is ahead of an iterator, which on
sorted lists is what none has passed (`AheadIs`); what a file came to is read off `times`. A
name reported or compared is `Settle` (`DoSettles`, `SettleStep`), a file to be deleted is passed
without anything to be seen (`QuietStep`), and at the ends of both lists `ok` says that all are
right (`AllSettled`). If the list is not sorted a name may be passed in one list and be ahead in the
other; `compare_files_order` has such a list.

**CompareArrays.** `TypeCorrect`, `NeverLost`, `DiffIsCorrect`, `VerdictIsSame`. For each
complete round `c` and diagonal `j`, `Followed` says where the search entered the diagonal
(`Origin`), that free edges lead from there to where it stopped, and that it is
at least as far as both neighbours of the round before; `Beyond` says that a point outside
the graph was entered from its edge in a straight line; `Short` that the end was not
reached. From these, a point past both ends is the end itself; at `max_size` differences
diagonal `N - M` would be past both; and on the way back the neighbours the code looks at
lead to a diagonal of the round before, because those outside the round still hold
999999999 or are outside the vector. What lies outside can be mistaken for a step right only if it
is `x - 1`; if anything is expected the place is never reached, and if nothing is, `x` is 0 and the
step is "undefined".

`DiffIsSmallest`: the definition of the distance is a recursive function, `From`, over the
points of the graph; that it is one is proved first (see below). The way to the end with the
fewest differences that starts at the origin passes, after each of its differences, a
diagonal of the round with that number; `Furthest` says that the search has gone at least as
far there. So the search has reached the end when it has made as many differences as are
needed, and not before, for what it prints is a path.

**FileContents.** `ContentsAreCompared`. The loops of `compare_files` and `copy_file` that
start at a byte are right about the bytes from there on, by induction from the last block back;
the byte they start at is 0.

**ListFiles.** `FilesAreListedOnce`, `FilesAreListedInOrder`, `ListingIsExact`, for trees of any
depth and names of any length. `list_files` is a recursive function over the paths in the tree;
that it is one follows from the depth a finite tree has (`Depth`, `CanBeRanked`). `AllListed`: a
relation that holds between the names of any two files that part in some directory, in the order
of that directory, holds along the whole list, for each directory lists what is in it one after
another (`Flattened`). Names of files that part at a directory are the name of that directory, the
names in it they part with, and something that is empty or starts with a slash (`NamesPart`), so
they differ, and they are in the order of the names they part with if no character of those
sorts before the slash (`PartedDiffer`): this is the place where `compare_files_order` fails. Two
files always part, for none is a directory of the other (`FilesPart`). Taken for the order of
strings, the relation makes the list sorted, and `MergeIsExact` then says that the merge is exact.

**Parser and Startup.** `MistakesAreTold`, `LoadsIfSound`, `TestIsAsDescribed`, `WrittenIsRead`,
for files of any length with any lines, any names and texts, and any order on names. Four steps lead there.

1. What the loops of `tokenize` return (`TokenizeIs`): arguments are texts, quotes are right or
   wrong, whatever the text.
2. The invariant `Inv` of `ParserProofs`. The code knows of the lines it has read only what they
   left: `seen_directives`, `Parser::ok`, and the fields of the test and the configuration.
   The properties speak of the lines. `SeenAreRead` says which directives have been seen,
   `ClashesKnown` that a line clashes with what was left exactly if it clashes with a line before
   it that was used, `FaultsTold` and `FaultsCount` that what was printed, and `ok`, are the faults
   of the lines so far. `ReadsLineIs` sums up what any action that reads a line does, and
   `FaultlessIsSound` that no line has a fault, seen with the lines before it, exactly if the file
   as a whole has no mistake: there the order of lines is gone.
3. The invariant `SInv` of `StartupProofs`. While no mistake was met, every field of the test and
   the configuration is what the lines read so far say of it (`TestSaid`, `ConfSaid`): the last line
   of a directive that may be given once, all lines in their order of one that may be repeated (of `precheck` the last).
   `SortKeeps`: what `std::sort` returns has the same entries, whichever order it takes.
4. `ReadBack`: however arguments are written down, `tokenize` returns them. By induction from the
   text's end back: at any place where the escaped rest of an argument stands, what `tokenize` reads
   up to the closing quote is that rest (`QuotedReads`); where an argument stands without quotes, it
   ends at the first blank behind it (`BareReads`); and gaps are skipped (`SkipPast`).

**GetoptLong and Options.** `PermutedExchanges`, `ArgumentsArePermuted`, `OptionsAreHonoured`,
`StartupTypes`, `TheStrongestWins`, for command lines of any length. Four steps lead there.

1. `permute_args` exchanges two blocks cycle by cycle, with the greatest common divisor of their
   lengths as the number of cycles. `PermutedExchanges` says that every word ends where it should,
   whatever the lengths are: the places a cycle visits are those that differ by multiples of the
   divisor (`GcdIs`, `Multiples`), and each cycle visits all of these, once.
2. The invariant `GetoptInv` of `OptionsProofs`: while getopt_long looks at the i-th word, the words
   before it stand as options, then those skipped, then options (`Laid`), where `nonopt_start` and
   `nonopt_end` say (`Skipped`); the words from the i-th on are untouched; and what is left of a word
   is its end (`Rest`). When there are no more options, the skipped words are behind all of them
   (`Ended`), which is `ArgvPermuted`.
3. The invariant `MainInv`: what was handed out so far are the first of those options that the words
   yield when they are read one by one, with the letters of `main` (`Yields`, counted by
   `HandedOut`); `ValueIs` has the search of the table find what the reader finds. None of those
   `main` has acted on ends nihtest, and the settings are those of the last one that sets them
   (`ResultsOf`, `SandboxOf`). Where no `q` is among the letters, this is what a reader takes them
   to demand (`ReadAsMeant`), and once all options are handed out without one refused there was none
   (`DoneReadsAsMeant`).
4. In `Startup`, the configuration is what its file says (`SInv`) until `main` overrides it with what
   `MainInv` has; `StrongestWins` puts the two together.

**Induction.** TLA+'s induction theorems have an operator as a parameter, which the provers here
cannot take. `Induction` has them for sets and functions instead: a set of numbers has a smallest
member (`LeastNumber`), a set that holds 0 and with each number the next holds all (`AllNumbers`),
the same along a rank (`ByRank`) or from the end back (`AllDownTo`), and a function whose value at each point depends on its values
at points of smaller rank exists (`Recursion`). `Recursion` is what the definition `f[x] == ...` of
a recursive function needs, which is a CHOOSE. `Iteration` is the case of a loop: a function on
`0..n` whose value at each point is made of that at the point before; `BackwardIteration` goes the
other way.

Only model-checked: liveness, `Terminates`, `Unblocked` and `Finishes` (fairness and ENABLED are
beyond the prover). `ListingExact` is proved for plain trees only; `compare_files_order` shows that
others are possible and that it fails there.

## Disagreements

Found by a run, with the code's own words, in PROJECT.json:

- input longer than a pipe and a program that writes before it reads: both block for good
  (`command_deadlock`);
- a program that does not read its input kills nihtest with SIGPIPE (`command_sigpipe`);
- with a relative `sandbox-directory` the sandbox is never removed (`test_case_kept`);
- `list_files` and the expected files are sorted differently if a name has a character
  before the slash, such as the dot (`compare_files_order`);
- the diff reads in front of a vector when nothing is expected (`compare_arrays_index`), and in
  front of the lines too if it finds -1 there (`LineBeforeFirst`);
- `nihtest -C config testcase` is refused: the word behind `-C` is used and then counted as a
  second operand (`options_config`).

Seen while modelling, modelled where the module is there, without a run of their own:

- an absolute program name is always refused (`OS-Unix-run.cc:208` tests the
  empty local variable; `ProgramFound`);
- in the sandbox, `find_file` looks for relative names in the sandbox's parent, which with
  a `sandbox-directory` is not where nihtest was started (`Test.cc:245`, `290-299`; `Above`);
- an invalid regular expression, or a program whose name is none, ends nihtest with an
  uncaught `std::regex_error` (`Test.cc:218`, `357`; `Load`, `JudgeProgram`);
- errors exit with 99 (`Test::ERROR`), the manual says 2 (`src/man/nihtest.mdoc:137`);
- `--setup-only` runs the program all the same: `run_test` is set and never read;
- the usage line, the help and the manual offer `-q` (`nihtest.cc:58`, `71`; `src/man/nihtest.mdoc:40`,
  `85`), but it is not in the string of short options, so that `-q` ends with the usage and only
  `--quiet` is understood (`nihtest.cc:82`; `Letters`; excepted in `OptionsHonoured`);
- `rm -r` gets the sandbox's path unquoted and nobody looks at its result (`OS-Unix.cc:180-184`): with
  a blank or another character special to the shell in `sandbox-directory` or in the test's name, or
  with a directory in the sandbox that may not be written to, or somebody still in it, the
  sandbox may stay, silently (`RemoveSandbox`; excepted in `SandboxGone`);
- `precheck` may be repeated (`Test.cc:55`), but each line overwrites the one before
  (`Test.cc:335-336`), so that all but the last are lost (`TestTakes`; `TestAsDescribed`);
- the usage message has `[VARIABLE=VALUE ...]` in front of the test case, and any second operand
  is refused (`nihtest.cc:58`, `160-163`; `Usage`);
- usage errors exit with 1, the status of a failed test (`nihtest.cc:157`, `162`);
- KEEP_BROKEN in the environment turns `keep-sandbox always` of the configuration into
  `failed` (`nihtest.cc:173-179`; `FinishOptions`);
- a failure to write the last bytes of a copied file is not noticed: they are written when
  the stream is destroyed (`OS.cc:117-121`);
- the manual says `args` must appear (`src/man/nihtest-case.mdoc:51-55`), but only `return`
  must: the declaration (`Parser.h:55`) has the names of `only_once` and `required` the other way
  round from the definition (`Parser.cc:41`), and by it `args` would be required (`Directive`; test cases without
  `args` are excepted in `LoadedIfSound`);
- an escaped quote in an argument becomes a backslash, so that a quoted argument cannot
  contain a quote (`Parser.cc:161-163`; `Escape`);
- an argument without quotes ends at a blank but not at a tab, although tabs are skipped
  between arguments (`Parser.cc:135`, `198`; `NextBlank`);
- of the directives that name the same file, the merge compares one and reports the others
  missing, so that such a test never passes unless all but one of them are `file-del`, which
  the merge skips (`Test.cc:104`; `PassMeansSame`). It passes then with the file present, although
  `file-del` says that it is removed (`src/man/nihtest-case.mdoc:90-95`).

## Not modelled

- `read_features`, of which `TestCase` has only whether a feature is there, and what
  `stderr-replace` makes of the expected output: regular expressions of the library.
- Of `getopt_long.c`, what the tables of nihtest cannot reach: arguments of options, "-W",
  results in order, flags, `optreset` and `getopt()`; messages, since `opterr` is 0.
- The name of the temporary directory, and the errors of single system calls: an exception
  where the code has one.
- Windows: `run_command` is a stub there.
- How `run_command` splits what it captured into lines (`OS-Unix-run.cc:145-152`): the contract is
  about bytes, so that a newline missing at the end, which makes no difference to nihtest, is not
  visible here.
- What `rm -r` removes if the shell makes other names of the sandbox's path.
- Wording of messages, how often one is printed, and the order in which headers and lines are
  printed.

## Plan

Done: `RunCommand` with its contract, proofs and refinement, `TestCase` with proofs,
`CompareFiles`, `FileContents` and `ListFiles` with proofs, `CompareContract` between the two,
`CompareArrays`, `Parser`, `GetoptLong`, `Options` and `Startup` with proofs.

What is left has no hard behaviour of its own: `read_features`, and Windows.
