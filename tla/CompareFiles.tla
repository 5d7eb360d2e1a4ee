---------------------------- MODULE CompareFiles ----------------------------
(***************************************************************************)
(* CompareFiles (src/src/CompareFiles.cc): the files a test case expects   *)
(* and the files found in the sandbox are merged as two sorted lists; what *)
(* is only in one of them is reported, what is in both is compared.        *)
(*                                                                         *)
(* Names are numbered in the order of std::string's operator<, by which    *)
(* Test's constructor sorts the expected files.                            *)
(***************************************************************************)
EXTENDS FileContents

CONSTANTS
    Names,   \* the numbers of the names that occur
    Cases    \* what CompareFiles may be called with

\* Test::File: a file without output is to be deleted by the program.
Entry == [name : Names, output : BOOLEAN]
Verdict == {"same", "differ", "throws"}

\* judge: what find_file and the comparison of a file come to; "bytes" if the file is found
\* and no file-compare command is for it, so that left, the content expected, is compared
\* with what is in the sandbox. That is right; copied says that it was brought there by
\* copy_file and not touched since.
CaseType == [expected : Seq(Entry), got : Seq(Names), judge : [Names -> Verdict \cup {"bytes"}],
             left : [Names -> Content], right : [Names -> Content], copied : BOOLEAN]

ASSUME CompareFilesAssumption ==
    /\ Names \subseteq Int
    /\ Cases \subseteq CaseType

\* What is done with a name: reported as missing, as unexpected, or compared.
Kind == {"-", "+", "="}

VARIABLES
    case,      \* what CompareFiles was called with
    e, g,      \* iter_expected and iter_got
    ok,        \* CompareFiles::ok
    times,     \* how often each thing was done with each name
    outcome    \* "running", "returned" or "threw"

vars == <<case, e, g, ok, times, outcome>>

expected == case.expected
got == case.got

Found(n) == IF case.copied THEN copy_file(case.right[n]) ELSE case.right[n]
Judgement(n) ==
    IF case.judge[n] # "bytes" THEN case.judge[n]
    ELSE IF compare_files(case.left[n], Found(n)) THEN "same" ELSE "differ"

Init ==
    /\ case \in Cases
    /\ e = 1
    /\ g = 1
    /\ ok = TRUE
    /\ times = [kn \in Kind \X Names |-> 0]
    /\ outcome = "running"

\* print_line calls print_header, which clears ok whether it prints or not.
Do(kind, n) == times' = [times EXCEPT ![<<kind, n>>] = @ + 1]
Report(kind, n) == Do(kind, n) /\ ok' = FALSE

InBoth == outcome = "running" /\ e <= Len(expected) /\ g <= Len(got)

\* Mutant: a file to be deleted is taken out of the found files.
ForgiveDeleted ==
    /\ InBoth
    /\ ~expected[e].output
    /\ e' = e + 1
    /\ g' = IF expected[e].name = got[g] THEN g + 1 ELSE g
    /\ UNCHANGED <<case, ok, times, outcome>>

\* Mutant: continue without iter_expected++.
StayAtDeleted ==
    /\ InBoth
    /\ ~expected[e].output
    /\ UNCHANGED vars

SkipDeleted ==
    /\ InBoth
    /\ ~expected[e].output
    /\ e' = e + 1
    /\ UNCHANGED <<case, g, ok, times, outcome>>

\* Mutant: a difference is printed but does not count.
CompareForShow ==
    /\ InBoth
    /\ expected[e].output
    /\ expected[e].name = got[g]
    /\ Do("=", got[g])
    /\ IF Judgement(got[g]) = "throws"
       THEN outcome' = "threw" /\ UNCHANGED <<e, g>>
       ELSE e' = e + 1 /\ g' = g + 1 /\ UNCHANGED outcome
    /\ UNCHANGED <<case, ok>>

Compare ==
    /\ InBoth
    /\ expected[e].output
    /\ expected[e].name = got[g]
    /\ Do("=", got[g])
    /\ IF Judgement(got[g]) = "throws"
       THEN outcome' = "threw" /\ UNCHANGED <<e, g, ok>>
       ELSE /\ ok' = (ok /\ Judgement(got[g]) = "same")
            /\ e' = e + 1
            /\ g' = g + 1
            /\ UNCHANGED outcome
    /\ UNCHANGED case

Missing ==
    /\ InBoth
    /\ expected[e].output
    /\ expected[e].name < got[g]
    /\ Report("-", expected[e].name)
    /\ e' = e + 1
    /\ UNCHANGED <<case, g, outcome>>

Unexpected ==
    /\ InBoth
    /\ expected[e].output
    /\ expected[e].name > got[g]
    /\ Report("+", got[g])
    /\ g' = g + 1
    /\ UNCHANGED <<case, e, outcome>>

\* The loops over what is left of one list.
\* Mutant: deleted files are passed as in the first loop, then by iter_expected++ again.
RestMissingTwice ==
    /\ outcome = "running"
    /\ e <= Len(expected) /\ g > Len(got)
    /\ IF expected[e].output
       THEN Report("-", expected[e].name) /\ e' = e + 1
       ELSE e' = e + 2 /\ UNCHANGED <<ok, times>>
    /\ UNCHANGED <<case, g, outcome>>

RestMissing ==
    /\ outcome = "running"
    /\ e <= Len(expected) /\ g > Len(got)
    /\ IF expected[e].output
       THEN Report("-", expected[e].name)
       ELSE UNCHANGED <<ok, times>>
    /\ e' = e + 1
    /\ UNCHANGED <<case, g, outcome>>

RestUnexpected ==
    /\ outcome = "running"
    /\ e > Len(expected) /\ g <= Len(got)
    /\ Report("+", got[g])
    /\ g' = g + 1
    /\ UNCHANGED <<case, e, outcome>>

\* Mutant: the loops over the rest are missing.
ReturnEarly ==
    /\ outcome = "running"
    /\ e > Len(expected) \/ g > Len(got)
    /\ outcome' = "returned"
    /\ UNCHANGED <<case, e, g, ok, times>>

Return ==
    /\ outcome = "running"
    /\ e > Len(expected) /\ g > Len(got)
    /\ outcome' = "returned"
    /\ UNCHANGED <<case, e, g, ok, times>>

Step == SkipDeleted \/ Compare \/ Missing \/ Unexpected \/ RestMissing
            \/ RestUnexpected \/ Return

Next == Step \/ (outcome # "running" /\ UNCHANGED vars)

Spec == Init /\ [][Next]_vars

\* nihtest is single-threaded here: the loops run as long as they can.
FairSpec == Spec /\ WF_vars(Step)

-----------------------------------------------------------------------------
(* Properties *)

\* Type invariant of the merge; the iterators never pass the end.
TypeOK ==
    /\ case \in CaseType
    /\ e \in 1..(Len(expected) + 1)
    /\ g \in 1..(Len(got) + 1)
    /\ ok \in BOOLEAN
    /\ times \in [Kind \X Names -> Nat]
    /\ outcome \in {"running", "returned", "threw"}

Wanted(n) == \E j \in 1..Len(expected) : expected[j].name = n /\ expected[j].output
Present(n) == \E j \in 1..Len(got) : got[j] = n

\* What the caller wants to hear of a name.
Due(kind, n) ==
    CASE kind = "-" -> Wanted(n) /\ ~Present(n)
      [] kind = "+" -> Present(n) /\ ~Wanted(n)
      [] kind = "=" -> Wanted(n) /\ Present(n)

Exact == \A n \in Names, kind \in Kind : times[<<kind, n>>] = IF Due(kind, n) THEN 1 ELSE 0

\* Both lists are sorted, no name is in one of them twice.
Sorted ==
    /\ \A j, k \in 1..Len(expected) : j < k => expected[j].name < expected[k].name
    /\ \A j, k \in 1..Len(got) : j < k => got[j] < got[k]

\* On sorted lists the merge misses nothing and does nothing twice: every file
\* only one side has is reported once and every other one compared once
\* (CompareFiles.cc:40-92).
MergeExact == outcome = "returned" /\ Sorted => Exact

\* Files are as expected exactly if the same names are on both sides and each pair
\* compares equal (CompareFiles.cc:91).
VerdictRight ==
    outcome = "returned" /\ Sorted =>
        (ok <=> \A n \in Names : /\ Wanted(n) <=> Present(n)
                                 /\ Present(n) => Judgement(n) = "same")

WantedTwice == \E j, k \in 1..Len(expected) : /\ j # k /\ expected[j].name = expected[k].name
                                              /\ expected[j].output /\ expected[k].output
FoundTwice == \E j, k \in 1..Len(got) : j # k /\ got[j] = got[k]

\* Test cases sort their directives by name alone (Test.cc:104), so that one file may be
\* named by several, and list_files has an order of its own. Even so, if the merge says
\* that all is well, each file wanted is there and as it should be, there is no other, and
\* no two directives want the same one (list_files finds none twice). A file that one
\* directive wants and another one wants deleted is taken for wanted, whatever the
\* manual says of file-del (CompareFiles.cc:45-48, 80; nihtest-case.mdoc:90-95).
PassMeansSame ==
    outcome = "returned" /\ ok =>
        /\ \A n \in Names : /\ Wanted(n) <=> Present(n)
                            /\ Present(n) => Judgement(n) = "same"
        /\ WantedTwice => FoundTwice

\* Where bytes decide, all is well exactly if each file in the sandbox is, byte by byte,
\* the one expected, whatever the lengths are to the buffer's (OS.cc:55-121); a file that
\* was copied there is still the one it was.
ContentsDecide ==
    outcome = "returned" /\ Sorted /\ (\A n \in Names : Wanted(n) <=> Present(n))
            /\ (\A n \in Names : Wanted(n) => case.judge[n] = "bytes") =>
        (ok <=> \A n \in Names : Wanted(n) => case.left[n] = case.right[n])

\* The merge comes to an end (CompareFiles.cc:44-89).
Finishes == <>(outcome # "running")

\* What list_files returned in its own order is compared as exactly as a sorted
\* list: list_files says it is sorted (OS.h:113), the merge relies on it.
ListingExact ==
    /\ outcome = "returned"
    /\ \A j, k \in 1..Len(expected) : j < k => expected[j].name < expected[k].name
    => Exact

-----------------------------------------------------------------------------
(* CompareContract, in terms of the merge *)

\* What is wanted, or was found, and neither iterator has passed.
Ahead ==
    {n \in Names : \/ \E j \in e..Len(expected) : expected[j].name = n /\ expected[j].output
                   \/ \E j \in g..Len(got) : got[j] = n}

SettledAs(n) ==
    IF times[<<"=", n>>] > 0
    THEN [same |-> "right", differ |-> "wrong", throws |-> "unseen"][Judgement(n)]
    ELSE IF times[<<"-", n>>] + times[<<"+", n>>] > 0 THEN "wrong" ELSE "unseen"

Answer ==
    CASE outcome = "running" -> "none"
      [] outcome = "threw" -> "threw"
      [] outcome = "returned" -> IF ok THEN "same" ELSE "differ"

Loop == INSTANCE CompareContract
    WITH Files <- Names, wanted <- {n \in Names : Wanted(n)}, present <- {n \in Names : Present(n)},
         todo <- Ahead, judged <- [n \in Names |-> SettledAs(n)], answer <- Answer

\* On sorted lists, the caller gets what it is promised: each file is settled once, the
\* answer comes when all are, and is yes exactly if all are right (CompareFiles.cc:40-92).
KeepsContract == (Sorted => Loop!Init) /\ [][Sorted => [Loop!Next]_(Loop!vars)]_vars

=============================================================================
