----------------------------- MODULE RunCommand -----------------------------
(***************************************************************************)
(* OS::run_command (src/src/OS-Unix-run.cc): nihtest starts a program,     *)
(* feeds it standard input through a pipe, collects standard output and    *)
(* standard error through two more, and reports how the program ended.     *)
(*                                                                         *)
(* Three parties act: nihtest (the parent), the program (the child) and    *)
(* an heir: whatever the program started that outlives it and still holds  *)
(* its descriptors.  They share the kernel's pipes, which are external     *)
(* code and modelled from what run_command relies on.                      *)
(***************************************************************************)
EXTENDS Naturals, Sequences

CONSTANTS
    Byte,        \* what travels through the pipes
    Commands,    \* the commands nihtest may be asked to run
    Capacity,    \* how many bytes the kernel keeps in one pipe
    BufferSize,  \* BUFFER_SIZE: the room for each captured stream
    MaxWritten,  \* bound: how much is written on each stream
    Statuses,    \* the ways a program ends, as run_command reports them
    Signals      \* those of Statuses that are deaths by a signal

Outputs == {"out", "err"}
Streams == {"in"} \cup Outputs
Ends    == Streams \X {"r", "w"}      \* the two descriptors of each pipe
Processes == {"parent", "child", "heir"}

\* What struct Command holds.  input = <<>> stands for a NULL pointer:
\* Test.cc only sets it when the test case has input lines.  The last two are
\* where nihtest runs: what poll() reports of a closed pipe, and the signals
\* nihtest was started with ignored.
CommandType == [absolute : BOOLEAN, exists : BOOLEAN,
                preload : {"none", "found", "missing"},
                input : Seq(Byte), file : BOOLEAN, kernel : {"Linux", "BSD"},
                ignored : SUBSET {"SIGPIPE", "SIGCHLD"}]

Setup   == "17"                       \* exit(17) of a child that cannot start
Event   == {"IN", "OUT", "ERR", "HUP"}
PollFd  == [stream : Streams, revents : SUBSET Event]
Failure == {"can't create pipe", "can't find program", "can't get cwd",
            "preload library doesn't exist", "can't open input", "can't fork",
            "can't allocate buffer", "poll failed", "read error", "write error",
            "buffer full"}

ASSUME RunCommandAssumption ==
    /\ Commands \subseteq CommandType
    /\ Capacity \in Nat \ {0}
    /\ BufferSize \in Nat \ {0}
    /\ MaxWritten \in Nat
    /\ Setup \in Statuses \ Signals
    /\ "SIGPIPE" \in Signals
    /\ Signals \subseteq Statuses

VARIABLES
    command,   \* the argument of run_command
    pc,        \* where run_command is
    error,     \* what the exception it threw says, or "none"
    result,    \* the string it returned, or "none"
    held,      \* which pipe descriptors each process has open
    pipe,      \* the bytes waiting in each pipe
    written,   \* history: everything written on each output stream
    buf,       \* buffer_output and buffer_error
    offset,    \* buffer_input->offset: how much input was written
    consumed,  \* history: the input the program read
    sawEof,    \* history: the program read end of file
    fds, i,    \* the pollfd array of live entries and the loop's index
    prog,      \* what the child does; a stream's name: blocked writing to it
    status     \* how it ended, or "none"

loopVars == <<fds, i>>
dataVars == <<pipe, written, buf, offset, consumed, sawEof>>
childVars == <<prog, status>>
vars == <<command, pc, error, result, held, loopVars, dataVars, childVars>>

-----------------------------------------------------------------------------
(* Pipes *)

Holds(p, s, e) == <<s, e>> \in held[p]
Open(s, e) == \E p \in Processes : Holds(p, s, e)
Prefix(seq, n) == SubSeq(seq, 1, n)
Smaller(m, n) == IF m <= n THEN m ELSE n

\* What poll() reports.  Linux: POLLHUP alone once every writer is gone and the
\* pipe is drained, POLLERR (never POLLHUP) for a pipe nobody reads.  The BSDs
\* add POLLIN at end of file and report POLLHUP for a pipe nobody reads.
Revents(s) ==
    IF s = "in"
    THEN {ev \in {"OUT", "ERR", "HUP"} :
            \/ ev = "OUT" /\ Len(pipe[s]) < Capacity
                          /\ (command.kernel = "Linux" \/ Open(s, "r"))
            \/ ev = "ERR" /\ command.kernel = "Linux" /\ ~Open(s, "r")
            \/ ev = "HUP" /\ command.kernel = "BSD" /\ ~Open(s, "r")}
    ELSE {ev \in {"IN", "HUP"} :
            \/ ev = "IN" /\ pipe[s] # <<>>
            \/ ev = "IN" /\ command.kernel = "BSD" /\ ~Open(s, "w")
            \/ ev = "HUP" /\ ~Open(s, "w")}

-----------------------------------------------------------------------------
(* run_command, up to the fork *)

Init ==
    /\ command \in Commands
    /\ pc = "pipes"
    /\ error = "none"
    /\ result = "none"
    /\ held = [p \in Processes |-> {}]
    /\ pipe = [s \in Streams |-> <<>>]
    /\ written = [s \in Outputs |-> <<>>]
    /\ buf = [s \in Outputs |-> <<>>]
    /\ offset = 0
    /\ consumed = <<>>
    /\ sawEof = FALSE
    /\ fds = <<>>
    /\ i = 1
    /\ prog = "none"
    /\ status = "none"

\* An exception leaves run_command: the destructors close nihtest's pipe ends.
\* Nobody kills the child or waits for it.
Throw(e) ==
    /\ pc' = "threw"
    /\ error' = e
    /\ held' = [held EXCEPT !["parent"] = {}]

CreatePipes ==
    /\ pc = "pipes"
    /\ \/ /\ held' = [held EXCEPT !["parent"] = Outputs \X {"r", "w"}]
          /\ pc' = "locate"
          /\ UNCHANGED error
       \/ Throw("can't create pipe")
    /\ UNCHANGED <<command, result, loopVars, dataVars, childVars>>

\* The absolute branch tests file_exists(program) with the still empty local.
ProgramFound == ~command.absolute /\ command.exists

LocateProgram ==
    /\ pc = "locate"
    /\ \/ /\ ProgramFound
          /\ command.preload # "missing"
          /\ pc' = "stdin"
          /\ UNCHANGED <<error, held>>
       \/ ~ProgramFound /\ Throw("can't find program")
       \/ ProgramFound /\ command.preload # "none" /\ Throw("can't get cwd")
       \/ ProgramFound /\ command.preload = "missing"
                       /\ Throw("preload library doesn't exist")
    /\ UNCHANGED <<command, result, loopVars, dataVars, childVars>>

OpenInput ==
    /\ pc = "stdin"
    /\ \/ /\ held' = IF command.input # <<>>
                     THEN [held EXCEPT !["parent"] = @ \cup {"in"} \X {"r", "w"}]
                     ELSE held
          /\ pc' = "fork"
          /\ UNCHANGED error
       \/ command.input # <<>> /\ Throw("can't create pipe")
       \/ command.input = <<>> /\ command.file /\ Throw("can't open input")
    /\ UNCHANGED <<command, result, loopVars, dataVars, childVars>>

\* The child starts with every descriptor of the parent; the parent at once
\* closes the ends that are the child's.
\* Mutant: the write end of the error pipe is forgotten.
ParentKeepsErr == {<<"in", "r">>, <<"out", "w">>}

ParentDrops == {<<"in", "r">>, <<"out", "w">>, <<"err", "w">>}

Fork ==
    /\ pc = "fork"
    /\ \/ /\ held' = [held EXCEPT !["child"] = held["parent"],
                                  !["parent"] = @ \ ParentDrops]
          /\ prog' = "setup"
          /\ pc' = "buffers"
          /\ UNCHANGED error
       \/ Throw("can't fork") /\ UNCHANGED prog
    /\ UNCHANGED <<command, result, loopVars, dataVars, status>>

Watch(s) == [stream |-> s, revents |-> {}]

\* From here on an exception abandons a child that is already running.
CreateBuffers ==
    /\ pc = "buffers"
    /\ \/ /\ fds' = <<Watch("out"), Watch("err")>> \o
                    (IF command.input # <<>> THEN <<Watch("in")>> ELSE <<>>)
          /\ pc' = "poll"
          /\ UNCHANGED <<error, held>>
       \/ Throw("can't allocate buffer") /\ UNCHANGED fds
    /\ UNCHANGED <<command, result, i, dataVars, childVars>>

-----------------------------------------------------------------------------
(* run_command, the poll loop *)

\* poll(fds, nfds, -1): no timeout, so it blocks until something is ready.
Poll ==
    /\ pc = "poll"
    /\ \E k \in 1..Len(fds) : Revents(fds[k].stream) # {}
    /\ fds' = [k \in 1..Len(fds) |->
                  [fds[k] EXCEPT !.revents = Revents(fds[k].stream)]]
    /\ i' = 1
    /\ pc' = "scan"
    /\ UNCHANGED <<command, error, result, held, dataVars, childVars>>

\* For example EINTR: the loop does not try again.
PollFails ==
    /\ pc = "poll"
    /\ Throw("poll failed")
    /\ UNCHANGED <<command, result, loopVars, dataVars, childVars>>

Here == fds[i]
Scanning(s) == pc = "scan" /\ i <= Len(fds) /\ Here.stream = s
NextEntry == i' = i + 1 /\ fds' = fds

\* Mutant: --i without the continue that makes up for it.
RemoveAndSkipBack ==
    /\ fds' = Prefix([fds EXCEPT ![i] = fds[Len(fds)]], Len(fds) - 1)
    /\ i' = i - 1

\* Mutant: nfds is decremented, but the hole is not filled.
RemoveLast == fds' = Prefix(fds, Len(fds) - 1) /\ i' = i

\* pollfds_remove: the last entry moves into the hole, and --i makes the loop
\* look at it next.
RemoveEntry ==
    /\ fds' = Prefix([fds EXCEPT ![i] = fds[Len(fds)]], Len(fds) - 1)
    /\ i' = i

HandleHup == IF "HUP" \in Here.revents THEN RemoveEntry ELSE NextEntry

\* Mutants: data is overwritten from its start; the limit is never reached.
FilledFromStart(s, n) == Prefix(pipe[s], n)
IsFullTooLate(s, n) == Len(buf[s]) + n > BufferSize

\* read() into data + offset, and the test for "buffer full".
Filled(s, n) == buf[s] \o Prefix(pipe[s], n)
IsFull(s, n) == Len(buf[s]) + n = BufferSize

\* Buffer::read, then the POLLHUP branch of the same iteration.
ReadOutput(s) ==
    /\ Scanning(s)
    /\ "IN" \in Here.revents
    /\ LET n == Smaller(Len(pipe[s]), BufferSize - Len(buf[s])) IN
         /\ buf' = [buf EXCEPT ![s] = Filled(s, n)]
         /\ pipe' = [pipe EXCEPT ![s] = SubSeq(@, n + 1, Len(@))]
         /\ IF IsFull(s, n)
            THEN Throw("buffer full") /\ UNCHANGED loopVars
            ELSE HandleHup /\ UNCHANGED <<pc, error, held>>
    /\ UNCHANGED <<command, result, written, offset, consumed, sawEof, childVars>>

ReadFails(s) ==
    /\ Scanning(s)
    /\ "IN" \in Here.revents
    /\ Throw("read error")
    /\ UNCHANGED <<command, result, loopVars, dataVars, childVars>>

\* Mutant: POLLHUP is looked at before POLLIN.
PassHupFirst ==
    /\ pc = "scan"
    /\ i <= Len(fds)
    /\ Here.revents \cap {"IN", "OUT"} = {} \/ "HUP" \in Here.revents
    /\ HandleHup
    /\ UNCHANGED <<command, pc, error, result, held, dataVars, childVars>>

\* An entry without POLLIN and POLLOUT: dropped on POLLHUP, else passed over.
\* That stdin was closed before all input was written goes unnoticed here.
PassEntry ==
    /\ pc = "scan"
    /\ i <= Len(fds)
    /\ Here.revents \cap {"IN", "OUT"} = {}
    /\ HandleHup
    /\ UNCHANGED <<command, pc, error, result, held, dataVars, childVars>>

\* The code looks for POLLOUT last and calls write(), which blocks.
StartWrite ==
    /\ Scanning("in")
    /\ "OUT" \in Here.revents
    /\ pc' = "write"
    /\ UNCHANGED <<command, error, result, held, loopVars, dataVars, childVars>>

\* Mutants: always from the start of the data; stdin is closed a byte early.
FirstByte == command.input[1]
AlmostLast == offset + 2 >= Len(command.input)

NextByte == command.input[offset + 1]
IsLast == offset + 1 = Len(command.input)

\* The kernel takes the next byte.  With the last one write() returns, stdin is
\* closed and its entry removed; before that it may return early (a short write).
WriteByte ==
    /\ pc = "write"
    /\ Open("in", "r")
    /\ Len(pipe["in"]) < Capacity
    /\ pipe' = [pipe EXCEPT !["in"] = Append(@, NextByte)]
    /\ offset' = offset + 1
    /\ IF IsLast
       THEN /\ held' = [held EXCEPT !["parent"] = @ \ {<<"in", "w">>}]
            /\ RemoveEntry
            /\ pc' = "scan"
       ELSE /\ held' = held
            /\ \/ UNCHANGED <<pc, loopVars>>
               \/ NextEntry /\ pc' = "scan"
    /\ UNCHANGED <<command, error, result, written, buf, consumed, sawEof, childVars>>

\* write() to a pipe nobody reads: SIGPIPE ends nihtest itself, and only a
\* nihtest started with SIGPIPE ignored gets to see EPIPE.
WriteNoReader ==
    /\ pc = "write"
    /\ ~Open("in", "r")
    /\ IF "SIGPIPE" \in command.ignored
       THEN Throw("write error")
       ELSE /\ pc' = "killed"
            /\ held' = [held EXCEPT !["parent"] = {}]
            /\ UNCHANGED error
    /\ UNCHANGED <<command, result, loopVars, dataVars, childVars>>

EndScan ==
    /\ pc = "scan"
    /\ i > Len(fds)
    /\ pc' = IF fds = <<>> THEN "wait" ELSE "poll"
    /\ UNCHANGED <<command, error, result, held, loopVars, dataVars, childVars>>

\* Mutant: waitpid() with WNOHANG.
ReturnWithoutWaiting ==
    /\ pc = "wait"
    /\ result' = status
    /\ prog' = IF prog = "ended" THEN "reaped" ELSE prog
    /\ pc' = "returned"
    /\ held' = [held EXCEPT !["parent"] = {}]
    /\ UNCHANGED <<command, error, loopVars, dataVars, status>>

\* waitpid() and the status.  With SIGCHLD ignored the kernel keeps no status,
\* waitpid() fails unnoticed and `status` is read uninitialised.
Return ==
    /\ pc = "wait"
    /\ prog = "ended"
    /\ result' \in IF "SIGCHLD" \in command.ignored THEN Statuses ELSE {status}
    /\ prog' = "reaped"
    /\ pc' = "returned"
    /\ held' = [held EXCEPT !["parent"] = {}]
    /\ UNCHANGED <<command, error, loopVars, dataVars, status>>

-----------------------------------------------------------------------------
(* The child, up to execv() *)

Alive == {"setup", "failing", "running", "reading"} \cup Outputs

\* The kernel closes what an ended process holds, except what its heir keeps.
End(st, kept) ==
    /\ prog' = "ended"
    /\ status' = st
    /\ held' = [held EXCEPT !["child"] = {}, !["heir"] = kept]

Emit(s, b) ==
    /\ pipe' = [pipe EXCEPT ![s] = Append(@, b)]
    /\ written' = [written EXCEPT ![s] = Append(@, b)]

\* dup2() moves the child's ends to descriptors 0, 1 and 2 and the other ends
\* are closed before the program takes over.
\* Mutant: the child keeps the write end of its own standard input.
ChildKeepsStdin == {<<"out", "r">>, <<"err", "r">>}

ChildDrops == {<<"in", "w">>, <<"out", "r">>, <<"err", "r">>}

ChildExec ==
    /\ prog = "setup"
    /\ held' = [held EXCEPT !["child"] = @ \ ChildDrops]
    /\ prog' = "running"
    /\ UNCHANGED <<command, pc, error, result, loopVars, dataVars, status>>

\* dup2() or execv() failed: a message (here one byte) on standard error, then
\* exit(17).  SIGPIPE if nihtest has left in the meantime.
ChildCannotExec ==
    /\ prog = "setup"
    /\ \/ /\ Holds("parent", "err", "r")
          /\ \E b \in Byte : Emit("err", b)
          /\ prog' = "failing"
          /\ UNCHANGED <<held, status>>
       \/ /\ ~Holds("parent", "err", "r")
          /\ IF "SIGPIPE" \in command.ignored
             THEN prog' = "failing" /\ UNCHANGED <<held, status>>
             ELSE End("SIGPIPE", {})
          /\ UNCHANGED <<pipe, written>>
    /\ UNCHANGED <<command, pc, error, result, loopVars,
                   buf, offset, consumed, sawEof>>

ChildGivesUp ==
    /\ prog = "failing"
    /\ End(Setup, {})
    /\ UNCHANGED <<command, pc, error, result, loopVars, dataVars>>

-----------------------------------------------------------------------------
(* The program (external): it reads, writes, closes and ends as it likes *)

BeginRead ==
    /\ prog = "running"
    /\ Holds("child", "in", "r")
    /\ ~sawEof
    /\ prog' = "reading"
    /\ UNCHANGED <<command, pc, error, result, held, loopVars, dataVars, status>>

FinishRead ==
    /\ prog = "reading"
    /\ pipe["in"] # <<>>
    /\ consumed' = Append(consumed, Head(pipe["in"]))
    /\ pipe' = [pipe EXCEPT !["in"] = Tail(@)]
    /\ prog' = "running"
    /\ UNCHANGED <<command, pc, error, result, held, loopVars,
                   written, buf, offset, sawEof, status>>

ReadEof ==
    /\ prog = "reading"
    /\ pipe["in"] = <<>>
    /\ ~Open("in", "w")
    /\ sawEof' = TRUE
    /\ prog' = "running"
    /\ UNCHANGED <<command, pc, error, result, held, loopVars, pipe,
                   written, buf, offset, consumed, status>>

BeginWrite(s) ==
    /\ prog = "running"
    /\ Holds("child", s, "w")
    /\ Len(written[s]) < MaxWritten
    /\ prog' = s
    /\ UNCHANGED <<command, pc, error, result, held, loopVars, dataVars, status>>

CanEmit(s) == Open(s, "r") /\ Len(pipe[s]) < Capacity

FinishWrite(s, b) ==
    /\ prog = s
    /\ CanEmit(s)
    /\ Emit(s, b)
    /\ prog' = "running"
    /\ UNCHANGED <<command, pc, error, result, held, loopVars,
                   buf, offset, consumed, sawEof, status>>

\* Nobody reads s any more; an ignored SIGPIPE is inherited by the program.
WriteBroken(s) ==
    /\ prog = s
    /\ ~Open(s, "r")
    /\ \/ "SIGPIPE" \notin command.ignored /\ End("SIGPIPE", {})
       \/ "SIGPIPE" \in command.ignored /\ prog' = "running" /\ UNCHANGED <<held, status>>
    /\ UNCHANGED <<command, pc, error, result, loopVars, dataVars>>

CloseEnd(e) ==
    /\ prog = "running"
    /\ e \in held["child"]
    /\ held' = [held EXCEPT !["child"] = @ \ {e}]
    /\ UNCHANGED <<command, pc, error, result, loopVars, dataVars, childVars>>

\* It ends by itself, leaving some descriptors to processes it started.
Exit(st, kept) ==
    /\ prog = "running"
    /\ kept \subseteq held["child"]
    /\ End(st, kept)
    /\ UNCHANGED <<command, pc, error, result, loopVars, dataVars>>

\* A signal from outside, also in the middle of a system call.
Killed(st) ==
    /\ prog \in Alive
    /\ End(st, {})
    /\ UNCHANGED <<command, pc, error, result, loopVars, dataVars>>

HeirWrite(s, b) ==
    /\ Holds("heir", s, "w")
    /\ CanEmit(s)
    /\ Len(written[s]) < MaxWritten
    /\ Emit(s, b)
    /\ UNCHANGED <<command, pc, error, result, held, loopVars,
                   buf, offset, consumed, sawEof, childVars>>

HeirCloses(e) ==
    /\ e \in held["heir"]
    /\ held' = [held EXCEPT !["heir"] = @ \ {e}]
    /\ UNCHANGED <<command, pc, error, result, loopVars, dataVars, childVars>>

-----------------------------------------------------------------------------
(* The specification *)

\* What nihtest does when no system call fails.
Advance ==
    \/ CreatePipes \/ LocateProgram \/ OpenInput \/ Fork \/ CreateBuffers
    \/ Poll \/ (\E s \in Outputs : ReadOutput(s)) \/ PassEntry
    \/ StartWrite \/ WriteByte \/ WriteNoReader \/ EndScan \/ Return

Parent == Advance \/ PollFails \/ \E s \in Outputs : ReadFails(s)

\* What the program does of its own accord.
Program ==
    \/ ChildExec \/ ChildCannotExec \/ ChildGivesUp
    \/ BeginRead \/ FinishRead \/ ReadEof
    \/ \E s \in Outputs :
          BeginWrite(s) \/ WriteBroken(s) \/ \E b \in Byte : FinishWrite(s, b)
    \/ \E e \in Ends : CloseEnd(e)
    \/ \E st \in Statuses, kept \in SUBSET Ends : Exit(st, kept)

Heir ==
    \/ \E e \in Ends : HeirCloses(e)
    \/ \E s \in Outputs, b \in Byte : HeirWrite(s, b)

Over == pc \in {"returned", "threw", "killed"}

\* run_command has left, the program has ended and nothing of it is left.
Terminated ==
    /\ Over
    /\ prog \in {"none", "ended", "reaped"}
    /\ held["heir"] = {}
    /\ UNCHANGED vars

Next == Parent \/ Program \/ Heir \/ (\E st \in Signals : Killed(st)) \/ Terminated

Spec == Init /\ [][Next]_vars

\* The scheduler runs nihtest and the program whenever they are not blocked, the
\* program is one that ends, and what it leaves behind goes away in the end.
\* Failing system calls and signals from outside are never owed to anybody.
FairSpec ==
    /\ Spec
    /\ WF_vars(Advance)
    /\ WF_vars(Program)
    /\ WF_vars(\E e \in Ends : HeirCloses(e))

-----------------------------------------------------------------------------
(* Properties *)

\* Type invariant of the three parties and of the pipes between them.
TypeOK ==
    /\ command \in Commands
    /\ pc \in {"pipes", "locate", "stdin", "fork", "buffers", "poll", "scan",
               "write", "wait", "returned", "threw", "killed"}
    /\ error \in Failure \cup {"none"}
    /\ result \in Statuses \cup {"none"}
    /\ held \in [Processes -> SUBSET Ends]
    /\ pipe \in [Streams -> Seq(Byte)]
    /\ written \in [Outputs -> Seq(Byte)]
    /\ buf \in [Outputs -> Seq(Byte)]
    /\ offset \in Nat
    /\ consumed \in Seq(Byte)
    /\ sawEof \in BOOLEAN
    /\ fds \in Seq(PollFd)
    /\ i \in Nat \ {0}
    /\ prog \in {"none", "ended", "reaped"} \cup Alive
    /\ status \in Statuses \cup {"none"}

\* Nothing a program writes is lost, duplicated, reordered or put on the other
\* stream: what Buffer::read collected and what the pipe still holds is what was
\* written (OS-Unix-run.cc:110-124, 365-372).
StreamIntact == \A s \in Outputs : buf[s] \o pipe[s] = written[s]

\* An output stream leaves the pollfd array only at its end: whoever could still
\* write has closed it and everything was read (OS-Unix-run.cc:373-383).
PolledUntilEof ==
    pc \in {"poll", "scan", "write", "wait"} =>
        \A s \in Outputs : \/ \E k \in 1..Len(fds) : fds[k].stream = s
                           \/ ~Open(s, "w") /\ pipe[s] = <<>>

\* When run_command returns it returns all the output there is, and no process is
\* left that could add to it (OS-Unix-run.cc:354-398).
OutputComplete == pc = "returned" => buf = written

\* The exit status is that of the program, which was waited for
\* (OS-Unix-run.cc:400-444); if SIGCHLD is ignored, waitpid has none to give.
StatusFaithful ==
    pc = "returned" => /\ prog = "reaped"
                       /\ "SIGCHLD" \notin command.ignored => result = status

\* The program reads the input in order, each byte once: what it read and what is
\* in the pipe is what Buffer::write counted as written (OS-Unix-run.cc:127-142).
InputIntact == consumed \o pipe["in"] = Prefix(command.input, offset)

\* A program that sees end of file on standard input has seen all of the input,
\* unless nihtest gave up on it (OS-Unix-run.cc:264-266, 329-331, 386-391).
EofMeansAll ==
    sawEof /\ pc \notin {"threw", "killed"} => consumed = command.input

\* The capture limit is where it should be: "buffer full" only for a stream of at
\* least BUFFER_SIZE bytes, and success only below that (OS-Unix-run.cc:120-123).
BufferLimit ==
    /\ error = "buffer full" => \E s \in Outputs : Len(written[s]) >= BufferSize
    /\ pc = "returned" => \A s \in Outputs : Len(written[s]) < BufferSize

\* run_command comes to an end (OS-Unix-run.cc:354-401).
Terminates == <>Over

\* nihtest is never stuck in write(): the program takes its input in the end
\* (OS.h:52, OS-Unix-run.cc:386).
WriteReturns == pc = "write" ~> pc # "write"

\* A program blocked on one of its three standard streams gets on: it is fed, its
\* output is taken, or nihtest has gone and closed its ends (OS-Unix-run.cc:184-197,
\* 329-352).
Unblocked == \A s \in {"reading"} \cup Outputs : prog = s ~> prog # s

\* nihtest survives the program it runs: only the test's outcome is to depend on
\* what the program does with its input (nihtest.mdoc:129-141).
Survives == pc # "killed"

\* What run_command promises its caller, and how it looks from there. A stream is open
\* as long as somebody other than nihtest can write to it.
Phase == IF prog = "none" THEN "idle" ELSE IF prog \in Alive THEN "running" ELSE "ended"
StillOpen == {s \in Outputs : Holds("child", s, "w") \/ Holds("heir", s, "w")}
AnswerKind ==
    IF pc = "returned" THEN "returned"
    ELSE IF pc \in {"threw", "killed"} THEN "failed" ELSE "pending"
Answer == [kind |-> AnswerKind, status |-> result,
           output |-> IF pc = "returned" THEN buf ELSE [s \in Outputs |-> <<>>]]

Contract == INSTANCE CommandContract WITH
    phase <- Phase, ending <- status, open <- StillOpen, transcript <- written,
    outcome <- Answer

\* run_command implements its contract (OS.h:125): one answer, given only after the
\* program has ended and nobody can write any more, with all that was written.
ImplementsContract == Contract!Spec

=============================================================================
