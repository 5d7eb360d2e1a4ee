------------------------------ MODULE TestCase ------------------------------
(***************************************************************************)
(* The life of one test case (src/src/Test.cc, called by main in           *)
(* src/src/nihtest.cc): load it, decide whether to skip it, make a sandbox *)
(* directory and go into it, copy the input files, run the program, judge  *)
(* what it did, leave the sandbox and remove it.                           *)
(*                                                                         *)
(* The commands nihtest runs on the way (precheck, program, comparators)   *)
(* are those of CommandContract, which RunCommand implements.  A failed    *)
(* call leaves its program running, and a program may leave processes      *)
(* behind; both go on working in the sandbox while nihtest judges it.      *)
(***************************************************************************)
EXTENDS Naturals, Sequences

CONSTANTS
    TestCases,   \* the test cases considered, with their configuration
    Files,       \* the names files in a sandbox can have
    Byte,        \* what programs write
    Statuses,    \* the ways programs end
    MaxWritten   \* bound: how much a program writes on each stream

When == {"never", "failed", "always"}
\* Where files outside the sandbox are: the directory nihtest was started in, or
\* source-directory.
Places == {"build", "source"}
Outputs == {"out", "err"}
Partial(D, R) == UNION {[S -> R] : S \in SUBSET D}

\* A test case and its configuration.  Files named in it are mapped to the places
\* that have one of that name; comparator holds those whose extensions have a
\* file-compare command; accepts, the texts that rewrite_lines makes equal to the
\* expected ones.  A sandbox-directory or source-directory of "." is "" here.
TestCaseType == [
    loads : {"ok", "error", "bad regex"},
    skip : {"no", "preload", "feature", "no config.h"},
    helper : Partial({"precheck", "stdin-file"}, SUBSET Places),
    stdin : BOOLEAN,
    input : Partial(Files, SUBSET Places),
    output : Partial(Files, SUBSET Places),
    comparator : SUBSET Files,
    program : SUBSET {"build", "beside source"},
    status : Statuses,
    accepts : [Outputs -> SUBSET Seq(Byte)],
    plainName : BOOLEAN,      \* no character of program is special in a regex
    plainPath : BOOLEAN,      \* no character of the sandbox's path is special to sh
    locks : BOOLEAN,          \* its commands make directories nobody may write to
    keep : When,
    sandboxDirectory : {"", "relative", "absolute"},
    sourceDirectory : {"", "relative", "absolute"}]

ASSUME TestCaseAssumption ==
    /\ TestCases \subseteq TestCaseType
    /\ MaxWritten \in Nat
    /\ "0" \in Statuses
    /\ "none" \notin Files

VARIABLES
    tc,          \* the test case
    pc,          \* where execute_test is
    exit,        \* how nihtest ended, or "none"
    cwd,         \* nihtest's working directory
    sandbox,     \* the sandbox directory: "none", "exists" or "gone"
    inSandbox,   \* Test::in_sandbox
    content,     \* the files in the sandbox, against what output expects
    result,      \* what execute_test is going to report, or "none"
    todo,        \* the files the current loop has still to handle
    current,     \* the file a comparator was called for
    listing,     \* what list_files returned
    failed,      \* Test::failed
    got,         \* what run_command returned for the program
    caller,      \* whose command is run: "precheck", "program", "comparator"
    stray,       \* a process the program left behind is in the sandbox
    locked,      \* a directory in the sandbox may not be written to
    ran,         \* history: the program was started
    judged,      \* history: what the comparison made of each file
    hindered,    \* history: when the sandbox was to be removed, somebody was in
                 \* it, it was locked, or it could not be left
    phase, ending, open, transcript, outcome    \* of CommandContract

Cmd == INSTANCE CommandContract

testVars == <<failed, got, judged, ran>>
placeVars == <<cwd, sandbox, inSandbox, result, hindered>>
loopVars == <<todo, current, listing>>
sandboxVars == <<content, stray, locked>>
commandVars == <<caller, phase, ending, open, transcript, outcome>>
vars == <<tc, pc, exit, testVars, placeVars, loopVars, sandboxVars, commandVars>>

Content == {"absent", "right", "wrong"}
Unseen == [f \in Files |-> "unseen"]

Init ==
    /\ tc \in TestCases
    /\ pc = "load"
    /\ exit = "none"
    /\ cwd = "build"
    /\ sandbox = "none"
    /\ inSandbox = FALSE
    /\ result = "none"
    /\ content = [f \in Files |-> "absent"]
    /\ todo = {}
    /\ current = "none"
    /\ listing = {}
    /\ failed = {}
    /\ got = Cmd!Pending
    /\ caller = "none"
    /\ stray = FALSE
    /\ locked = FALSE
    /\ ran = FALSE
    /\ judged = Unseen
    /\ hindered = FALSE
    /\ Cmd!Init

-----------------------------------------------------------------------------
(* Ways out, and where files are *)

Exit(how) == pc' = "done" /\ exit' = how

\* Mutant: the handler of execute_test is missing.
RaiseToMain == Exit("99")

\* An Exception: from within the sandbox it passes through the handler of
\* execute_test, then main turns it into exit status 99 (Test::ERROR).
Raise == IF inSandbox THEN pc' = "catch" /\ UNCHANGED exit ELSE Exit("99")

\* The directory sandboxes are made in.
Home == IF tc.sandboxDirectory = "" THEN "build" ELSE "elsewhere"

\* find_file looks for "../name" and for relative directories behind "../" once
\* it is in the sandbox, whose parent need not be where nihtest was started.
Above == IF inSandbox THEN Home ELSE "build"

Found(places) ==
    \/ "build" \in places /\ Above = "build"
    \/ /\ "source" \in places
       /\ \/ tc.sourceDirectory = "absolute"
          \/ tc.sourceDirectory = "relative" /\ Above = "build"

\* run_command searches "." for the precheck, which find_file has already turned
\* into a path: an absolute one is not found that way.  Comparators are searched
\* for in "..", the program also in the directory above source-directory - as seen
\* from the sandbox, so that only an absolute one helps.
Reachable ==
    \/ /\ caller = "precheck"
       /\ "build" \in tc.helper["precheck"] \/ tc.sourceDirectory = "relative"
    \/ caller = "comparator" /\ Home = "build"
    \/ /\ caller = "program"
       /\ \/ "build" \in tc.program /\ Home = "build"
          \/ "beside source" \in tc.program /\ tc.sourceDirectory = "absolute"

Call(who) ==
    /\ pc' = "command"
    /\ caller' = who
    /\ phase' = "idle"
    /\ ending' = "none"
    /\ open' = {}
    /\ transcript' = Cmd!Nothing
    /\ outcome' = Cmd!Pending

-----------------------------------------------------------------------------
(* Before the sandbox *)

\* Configuration and Test are constructed.  An invalid regular expression throws
\* a std::regex_error, which nobody catches.
Load ==
    /\ pc = "load"
    /\ \/ tc.loads = "ok" /\ pc' = "skip" /\ UNCHANGED exit
       \/ tc.loads = "error" /\ Raise
       \/ tc.loads = "bad regex" /\ Exit("aborted")
    /\ UNCHANGED <<tc, testVars, placeVars, loopVars, sandboxVars, commandVars>>

\* preload on a system without it, or a feature config.h does not define.
Skip ==
    /\ pc = "skip"
    /\ \/ tc.skip = "no" /\ pc' = "precheck" /\ UNCHANGED exit
       \/ tc.skip \in {"preload", "feature"} /\ Exit("77")
       \/ tc.skip = "no config.h" /\ Raise
    /\ UNCHANGED <<tc, testVars, placeVars, loopVars, sandboxVars, commandVars>>

Precheck ==
    /\ pc = "precheck"
    /\ IF "precheck" \notin DOMAIN tc.helper
       THEN pc' = "enter" /\ UNCHANGED <<exit, commandVars>>
       ELSE IF Found(tc.helper["precheck"])
       THEN Call("precheck") /\ UNCHANGED exit
       ELSE Raise /\ UNCHANGED commandVars
    /\ UNCHANGED <<tc, testVars, placeVars, loopVars, sandboxVars>>

Returned(who) == pc = "command" /\ caller = who /\ outcome.kind = "returned"

\* Mutant: precheck is run in the sandbox, and not left when it fails.
PrecheckInSandbox ==
    /\ Returned("precheck")
    /\ sandbox' = "exists"
    /\ IF outcome.status = "0"
       THEN pc' = "enter" /\ UNCHANGED exit
       ELSE Exit("77")
    /\ UNCHANGED <<tc, testVars, cwd, inSandbox, result, hindered, loopVars, sandboxVars,
                   commandVars>>

PrecheckDone ==
    /\ Returned("precheck")
    /\ IF outcome.status = "0"
       THEN pc' = "enter" /\ UNCHANGED exit
       ELSE Exit("77")
    /\ UNCHANGED <<tc, testVars, placeVars, loopVars, sandboxVars, commandVars>>

\* enter_sandbox: outside of execute_test's try block, so a directory nihtest
\* cannot change into stays.
EnterSandbox ==
    /\ pc = "enter"
    /\ \/ /\ sandbox' = "exists"
          /\ cwd' = "sandbox"
          /\ inSandbox' = TRUE
          /\ pc' = "populate"
          /\ todo' = DOMAIN tc.input
          /\ UNCHANGED exit
       \/ /\ sandbox' \in {"none", "exists"}
          /\ Raise
          /\ UNCHANGED <<cwd, inSandbox, todo>>
    /\ UNCHANGED <<tc, testVars, result, hindered, current, listing, sandboxVars,
                   commandVars>>

-----------------------------------------------------------------------------
(* In the sandbox *)

\* find_file and copy_file.  What is copied may already be what is expected.
CopyInput(f) ==
    /\ pc = "populate"
    /\ f \in todo
    /\ \/ /\ Found(tc.input[f])
          /\ \E c \in Content \ {"absent"} : content' = [content EXCEPT ![f] = c]
          /\ todo' = todo \ {f}
          /\ UNCHANGED <<pc, exit>>
       \/ Raise /\ UNCHANGED <<content, todo>>
    /\ UNCHANGED <<tc, testVars, placeVars, current, listing, stray, locked, commandVars>>

RunProgram ==
    /\ pc = "populate"
    /\ todo = {}
    /\ IF "stdin-file" \in DOMAIN tc.helper /\ ~Found(tc.helper["stdin-file"])
       THEN Raise /\ UNCHANGED commandVars
       ELSE Call("program") /\ UNCHANGED exit
    /\ UNCHANGED <<tc, testVars, placeVars, loopVars, sandboxVars>>

ProgramDone ==
    /\ Returned("program")
    /\ got' = outcome
    /\ pc' = "judge"
    /\ UNCHANGED <<tc, exit, failed, judged, ran, placeVars, loopVars,
                   sandboxVars, commandVars>>

\* Mutant: the status is printed but does not count.
OnlyOutputs == {s \in Outputs : got.output[s] \notin tc.accepts[s]}

\* Standard error is compared after rewrite_lines, whose first pattern is made of
\* the name of the program: if that is no valid pattern, nobody catches the error.
Differences ==
    (IF got.status = tc.status THEN {} ELSE {"status"})
        \cup {s \in Outputs : got.output[s] \notin tc.accepts[s]}

JudgeProgram ==
    /\ pc = "judge"
    /\ IF tc.plainName
       THEN /\ failed' = Differences
            /\ pc' = "list"
            /\ UNCHANGED exit
       ELSE Exit("aborted") /\ UNCHANGED failed
    /\ UNCHANGED <<tc, got, judged, ran, placeVars, loopVars, sandboxVars, commandVars>>

\* list_files, whose order does not matter here (see CompareFiles).
ListFiles ==
    /\ pc = "list"
    /\ \/ /\ listing' = {f \in Files : content[f] # "absent"}
          /\ todo' = DOMAIN tc.output \cup listing'
          /\ pc' = "compare"
          /\ UNCHANGED exit
       \/ Raise /\ UNCHANGED <<todo, listing>>
    /\ UNCHANGED <<tc, testVars, placeVars, current, sandboxVars, commandVars>>

\* Mutant: what is recorded is the verdict, not the kind of failure.
JudgeByVerdict(f, verdict) ==
    /\ judged' = [judged EXCEPT ![f] = verdict]
    /\ failed' = IF verdict = "right" THEN failed ELSE failed \cup {verdict}
    /\ todo' = todo \ {f}

Judge(f, verdict) ==
    /\ judged' = [judged EXCEPT ![f] = verdict]
    /\ failed' = IF verdict = "right" THEN failed ELSE failed \cup {"files"}
    /\ todo' = todo \ {f}

Expected(f) == f \in DOMAIN tc.output

\* A file only expected or only found.
MissOrSurplus(f) ==
    /\ pc = "compare"
    /\ f \in todo
    /\ ~(Expected(f) /\ f \in listing)
    /\ Judge(f, "wrong")
    /\ UNCHANGED <<tc, pc, exit, got, ran, placeVars, current, listing,
                   sandboxVars, commandVars>>

\* A file that was listed may be gone by now, if somebody is still in the sandbox.
CompareFile(f) ==
    /\ pc = "compare"
    /\ f \in todo
    /\ Expected(f) /\ f \in listing
    /\ \/ /\ Found(tc.output[f])
          /\ f \notin tc.comparator
          /\ content[f] # "absent"
          /\ Judge(f, content[f])
          /\ UNCHANGED <<pc, exit, current, commandVars>>
       \/ /\ Found(tc.output[f])
          /\ f \in tc.comparator
          /\ Call("comparator")
          /\ current' = f
          /\ UNCHANGED <<exit, todo, failed, judged>>
       \/ Raise /\ UNCHANGED <<todo, failed, judged, current, commandVars>>
    /\ UNCHANGED <<tc, got, ran, placeVars, listing, sandboxVars>>

\* Mutant: the iterators are not advanced after a comparator.
ComparatorRepeats ==
    /\ Returned("comparator")
    /\ pc' = "compare"
    /\ UNCHANGED <<tc, exit, testVars, placeVars, loopVars, sandboxVars, commandVars>>

ComparatorDone ==
    /\ Returned("comparator")
    /\ Judge(current, IF outcome.status = "0" THEN "right" ELSE "wrong")
    /\ pc' = "compare"
    /\ UNCHANGED <<tc, exit, got, ran, placeVars, current, listing,
                   sandboxVars, commandVars>>

\* run_command threw or, if it had input to write, SIGPIPE killed nihtest.
CommandFailed ==
    /\ pc = "command"
    /\ outcome.kind = "failed"
    /\ \/ Raise
       \/ caller = "program" /\ tc.stdin /\ phase # "idle" /\ Exit("killed")
    /\ UNCHANGED <<tc, testVars, placeVars, loopVars, sandboxVars, commandVars>>

-----------------------------------------------------------------------------
(* Out of the sandbox *)

\* Somebody has the sandbox as working directory: a program still running or
\* abandoned, or what it left behind.
Inhabited ==
    stray \/ (caller \in {"program", "comparator"} /\ (phase = "running" \/ open # {}))

\* Mutant: the sandbox is removed first, then left.
RemoveFirst(how) ==
    /\ pc' = "remove"
    /\ result' = how
    /\ UNCHANGED <<exit, cwd, hindered>>

\* leave_sandbox begins with OS::change_directory(".."); its exception, also that of
\* the handler, ends in main.
ChangeBack(how) ==
    \/ /\ cwd' = Home
       /\ pc' = "remove"
       /\ result' = how
       /\ UNCHANGED <<exit, hindered>>
    \/ /\ Exit("99")
       /\ hindered' = TRUE
       /\ UNCHANGED <<cwd, result>>

LeaveAfterVerdict ==
    /\ pc = "compare"
    /\ todo = {}
    /\ ChangeBack(IF failed = {} THEN "0" ELSE "1")
    /\ UNCHANGED <<tc, testVars, sandbox, inSandbox, loopVars, sandboxVars, commandVars>>

LeaveAfterError ==
    /\ pc = "catch"
    /\ ChangeBack("99")
    /\ UNCHANGED <<tc, testVars, sandbox, inSandbox, loopVars, sandboxVars, commandVars>>

KeepAfterVerdict == tc.keep = "always" \/ (tc.keep = "failed" /\ failed # {})

\* Mutant: only tests that failed count as failed.
KeepAlways == tc.keep = "always"

KeepAfterError == tc.keep # "never"

Keep == IF result = "99" THEN KeepAfterError ELSE KeepAfterVerdict

\* The sandbox's name, unless absolute, was made for the directory nihtest was
\* started in.
NamesSandbox == tc.sandboxDirectory = "absolute" \/ cwd = "build"

\* The rest of leave_sandbox: system("rm -r " + sandbox_name), whose result nobody
\* looks at.  It is not quoted, so that sh may read other names in it; what it may
\* remove then is not modelled.
RemoveSandbox ==
    /\ pc = "remove"
    /\ pc' = "report"
    /\ IF Keep
       THEN UNCHANGED <<sandbox, hindered>>
       ELSE /\ hindered' = (Inhabited \/ locked)
            /\ sandbox' \in IF ~NamesSandbox THEN {sandbox}
                            ELSE IF hindered' \/ ~tc.plainPath THEN {"gone", sandbox}
                            ELSE {"gone"}
    /\ UNCHANGED <<tc, exit, testVars, cwd, inSandbox, result, loopVars, sandboxVars,
                   commandVars>>

\* execute_test returns the result, or throws to main.
Report ==
    /\ pc = "report"
    /\ Exit(result)
    /\ UNCHANGED <<tc, testVars, placeVars, loopVars, sandboxVars, commandVars>>

-----------------------------------------------------------------------------
(* The commands, and what they do in the sandbox *)

StartCommand ==
    /\ pc = "command"
    /\ Reachable
    /\ Cmd!Start
    /\ ran' = (ran \/ caller = "program")
    /\ UNCHANGED <<tc, pc, exit, failed, got, judged, placeVars, loopVars,
                   sandboxVars, caller>>

CommandReturns ==
    /\ pc = "command"
    /\ Cmd!Return
    /\ UNCHANGED <<tc, pc, exit, testVars, placeVars, loopVars, sandboxVars, caller>>

CommandThrows ==
    /\ pc = "command"
    /\ Cmd!Fail
    /\ UNCHANGED <<tc, pc, exit, testVars, placeVars, loopVars, sandboxVars, caller>>

CommandWrites ==
    /\ Cmd!Emit
    /\ \A s \in Outputs : Len(transcript'[s]) <= MaxWritten
    /\ UNCHANGED <<tc, pc, exit, testVars, placeVars, loopVars, sandboxVars, caller>>

CommandCloses ==
    /\ Cmd!Close
    /\ open' # open
    /\ UNCHANGED <<tc, pc, exit, testVars, placeVars, loopVars, sandboxVars, caller>>

CommandEnds ==
    /\ Cmd!End
    /\ stray' \in {stray, caller # "precheck"}
    /\ UNCHANGED <<tc, pc, exit, testVars, placeVars, loopVars, content, locked, caller>>

StrayEnds ==
    /\ stray
    /\ stray' = FALSE
    /\ UNCHANGED <<tc, pc, exit, testVars, placeVars, loopVars, content, locked, commandVars>>

\* Files are created, changed and deleted in the sandbox.
Touch(f) ==
    /\ Inhabited
    /\ sandbox = "exists"
    /\ \E c \in Content : content' = [content EXCEPT ![f] = c]
    /\ UNCHANGED <<tc, pc, exit, testVars, placeVars, loopVars, stray, locked, commandVars>>

\* A directory that holds something is made, with no permission to write to it, or
\* the permission is given back.
Lock ==
    /\ Inhabited
    /\ sandbox = "exists"
    /\ tc.locks
    /\ locked' = ~locked
    /\ UNCHANGED <<tc, pc, exit, testVars, placeVars, loopVars, content, stray, commandVars>>

-----------------------------------------------------------------------------
(* The specification *)

Nihtest ==
    \/ Load \/ Skip \/ Precheck \/ PrecheckDone \/ EnterSandbox
    \/ (\E f \in Files : CopyInput(f)) \/ RunProgram \/ ProgramDone
    \/ JudgeProgram \/ ListFiles
    \/ (\E f \in Files : MissOrSurplus(f) \/ CompareFile(f))
    \/ ComparatorDone \/ CommandFailed \/ LeaveAfterVerdict \/ LeaveAfterError
    \/ RemoveSandbox \/ Report \/ StartCommand \/ CommandReturns

Command == CommandWrites \/ CommandCloses \/ CommandEnds

Terminated == pc = "done" /\ ~Inhabited /\ UNCHANGED vars

Next ==
    \/ Nihtest \/ CommandThrows \/ Command \/ StrayEnds
    \/ (\E f \in Files : Touch(f)) \/ Lock \/ Terminated

Spec == Init /\ [][Next]_vars

\* run_command waits without a timeout, so that it owes no failure - but for a program
\* that it does not find.
NotFound == ~Reachable /\ CommandThrows

\* nihtest is scheduled when it is not blocked, and the commands it runs end and do
\* not keep their streams open for ever.
FairSpec ==
    /\ Spec
    /\ WF_vars(Nihtest)
    /\ WF_vars(NotFound)
    /\ WF_vars(CommandEnds)
    /\ WF_vars(CommandCloses)

-----------------------------------------------------------------------------
(* Properties *)

Results == {"0", "1", "77", "99", "aborted", "killed"}

\* Type invariant of nihtest and of what it knows about its sandbox.
TypeOK ==
    /\ tc \in TestCases
    /\ pc \in {"load", "skip", "precheck", "enter", "populate", "command", "judge",
               "list", "compare", "catch", "remove", "report", "done"}
    /\ exit \in Results \cup {"none"}
    /\ cwd \in {"build", "sandbox", "elsewhere"}
    /\ sandbox \in {"none", "exists", "gone"}
    /\ inSandbox \in BOOLEAN
    /\ result \in {"none", "0", "1", "99"}
    /\ content \in [Files -> Content]
    /\ todo \in SUBSET Files
    /\ current \in Files \cup {"none"}
    /\ listing \in SUBSET Files
    /\ failed \in SUBSET (Outputs \cup {"status", "files"})
    /\ caller \in {"none", "precheck", "program", "comparator"}
    /\ stray \in BOOLEAN
    /\ locked \in BOOLEAN
    /\ ran \in BOOLEAN
    /\ judged \in [Files -> {"unseen", "right", "wrong"}]
    /\ hindered \in BOOLEAN

\* The sandbox may be kept according to keep-sandbox (nihtest.conf.mdoc:69-79).
MayKeep == tc.keep = "always" \/ (tc.keep = "failed" /\ exit # "0")

\* A test passes only if the program was run and ended, its status and output are
\* as expected, and each expected file was there and compared equal, with no
\* other file beside them (Test.cc:205-234).
PassMeansAll ==
    exit = "0" =>
        /\ got.kind = "returned" /\ got.status = tc.status
        /\ \A s \in Outputs : got.output[s] \in tc.accepts[s]
        /\ \A f \in Files : IF Expected(f) THEN judged[f] = "right" ELSE f \notin listing

\* Whatever goes wrong in the sandbox, nihtest leaves it and, unless it may keep it,
\* removes it (Test.cc:228-233, 281-287).  Not so, as rm fails unnoticed
\* (OS-Unix.cc:180-184): if somebody is in the sandbox at that time, or a directory in
\* it may not be written to; if its path means something else to sh; if it is in a
\* relative sandbox-directory; or if nihtest does not get out of it.
SandboxGone ==
    pc = "done" /\ inSandbox /\ ~MayKeep /\ exit \notin {"aborted", "killed"}
        => \/ sandbox = "gone"
           \/ hindered
           \/ ~tc.plainPath
           \/ tc.sandboxDirectory = "relative"

\* What may be kept for a look at the failure is kept (Test.cc:229, 233).
EvidenceKept == pc = "done" /\ inSandbox /\ MayKeep => sandbox = "exists"

\* A skipped test leaves no trace: no program was run, no sandbox made
\* (Test.cc:139-171).
SkippedUntouched == exit = "77" => ~ran /\ sandbox = "none"

\* nihtest removes the sandbox from outside, after the result is known, and then does
\* nothing more of the test: it calls no command, looks at no file, judges nothing
\* (Test.cc:205-235, 281-287).
RemovedLast ==
    [][/\ sandbox' = "gone" /\ sandbox # "gone" => cwd # "sandbox" /\ result # "none"
       /\ sandbox = "gone" => UNCHANGED <<testVars, placeVars, loopVars, caller>>]_vars

\* nihtest comes to an end if the commands it runs end and close their streams: no step
\* of it waits for anything else (Test.cc:139-235).
Finishes == <>(pc = "done")

\* With keep-sandbox never, nihtest leaves no sandbox behind that it was in, that
\* nobody else is in and that rm can remove (nihtest.conf.mdoc:73-74).
NeverKept ==
    pc = "done" /\ exit \in {"0", "1", "99"} /\ inSandbox /\ tc.keep = "never"
        => sandbox # "exists" \/ hindered \/ ~tc.plainPath

=============================================================================
