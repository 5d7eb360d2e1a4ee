-------------------------- MODULE CommandContract --------------------------
(***************************************************************************)
(* What a caller of OS::run_command is promised (src/src/OS.h, line 125):  *)
(* "Run command described by `command`, returning lines from standard      *)
(* output in `output` and error output in `error_output`".  A program is   *)
(* started at most once, writes while somebody has its streams open, and   *)
(* the caller gets one answer: a failure, or - once the program has ended  *)
(* and both streams are closed for good - all that was written and how the *)
(* program ended.                                                          *)
(***************************************************************************)
EXTENDS Sequences

CONSTANTS Byte, Statuses

Outputs == {"out", "err"}

VARIABLES
    phase,       \* "idle", "running" or "ended": the program
    ending,      \* how it ended, or "none"
    open,        \* the streams somebody may still write to
    transcript,  \* what was written on each stream
    outcome      \* what the caller got

vars == <<phase, ending, open, transcript, outcome>>

Nothing == [s \in Outputs |-> <<>>]
Outcome(kind, st, output) == [kind |-> kind, status |-> st, output |-> output]
Pending == Outcome("pending", "none", Nothing)

Init ==
    /\ phase = "idle"
    /\ ending = "none"
    /\ open = {}
    /\ transcript = Nothing
    /\ outcome = Pending

Start ==
    /\ phase = "idle"
    /\ outcome = Pending
    /\ phase' = "running"
    /\ open' = Outputs
    /\ UNCHANGED <<ending, transcript, outcome>>

Emit ==
    /\ \E s \in open, b \in Byte :
          transcript' = [transcript EXCEPT ![s] = Append(@, b)]
    /\ UNCHANGED <<phase, ending, open, outcome>>

Close ==
    /\ open' \in SUBSET open
    /\ UNCHANGED <<phase, ending, transcript, outcome>>

\* Processes the program started may keep its streams open.
End ==
    /\ phase = "running"
    /\ phase' = "ended"
    /\ ending' \in Statuses
    /\ open' \in SUBSET open
    /\ UNCHANGED <<transcript, outcome>>

Return ==
    /\ outcome = Pending
    /\ phase = "ended"
    /\ open = {}
    /\ outcome' = Outcome("returned", ending, transcript)
    /\ UNCHANGED <<phase, ending, open, transcript>>

\* An exception, or the end of nihtest.
Fail ==
    /\ outcome = Pending
    /\ outcome' = Outcome("failed", "none", Nothing)
    /\ UNCHANGED <<phase, ending, open, transcript>>

Next == Start \/ Emit \/ Close \/ End \/ Return \/ Fail

Spec == Init /\ [][Next]_vars

=============================================================================
