--------------------------- MODULE CompareArrays ---------------------------
(***************************************************************************)
(* CompareArrays (src/src/CompareArrays.cc): whether two lists of lines    *)
(* are equal and, if verbose and they are not, which lines differ.  The    *)
(* difference is found by Myers's algorithm: in the graph of the nodes     *)
(* <<x, y>>, with edges to the right (a line only expected), down (a line  *)
(* only got) and, free of charge, along the diagonal (a line in both), a   *)
(* shortest path from <<0, 0>> to <<N, M>> is searched, then traced back   *)
(* and printed.                                                            *)
(*                                                                         *)
(* w[max_size + k] is v[k] here, as in the paper and the code's comments.  *)
(***************************************************************************)
EXTENDS Integers, Sequences, FiniteSets

CONSTANTS
    Line,    \* the lines that occur
    Inputs,  \* what CompareArrays may be called with
    Unset,   \* 999999999, what v holds before it is set
    Stray    \* what the memory in front of a vector may hold

InputType == [expected : Seq(Line), got : Seq(Line), verbose : BOOLEAN]

ASSUME CompareArraysAssumption ==
    /\ Inputs \subseteq InputType
    /\ Unset \in Nat
    /\ \A input \in Inputs : Len(input.expected) + Len(input.got) < Unset
    /\ Stray \subseteq Int

VARIABLES
    input,         \* what CompareArrays was called with
    phase,         \* where it is, or how it ended
    d,             \* the number of differences looked at
    k,             \* the diagonal: x - y
    v,             \* how far each diagonal was followed
    path_lengths,  \* v after each d
    x, y,          \* where the trace back has come to
    lines,         \* equal lines passed since the last difference
    printed        \* what is going to be printed, as edges that end in <<x, y>>

vars == <<input, phase, d, k, v, path_lengths, x, y, lines, printed>>
searchVars == <<d, k, v, path_lengths>>
traceVars == <<x, y, lines, printed>>

expected == input.expected
got == input.got
N == Len(expected)
M == Len(got)
max_size == M + N
Diagonals == (-max_size)..max_size

Init ==
    /\ input \in Inputs
    /\ phase = "compare"
    /\ d = 0
    /\ k = 0
    /\ v = [j \in Diagonals |-> IF j = 1 THEN 0 ELSE Unset]
    /\ path_lengths = <<>>
    /\ x = 0
    /\ y = 0
    /\ lines = <<>>
    /\ printed = <<>>

\* Mutant: the sizes are not compared.
SamePrefix == \A j \in 1..N : j <= M /\ expected[j] = got[j]

Same == N = M /\ \A j \in 1..N : expected[j] = got[j]

\* compare, compare_quiet, and compare_verbose up to its loop.
Compare ==
    /\ phase = "compare"
    /\ phase' = CASE Same -> "equal"
                  [] ~Same /\ ~input.verbose -> "unequal"
                  [] ~Same /\ input.verbose -> "search"
    /\ UNCHANGED <<input, searchVars, traceVars>>

-----------------------------------------------------------------------------
(* The search *)

\* Is there an edge along diagonal j from <<a, a - j>>?
Matches(a, j) == a < N /\ a - j < M /\ expected[a + 1] = got[a - j + 1]

\* Mutant: the shorter way is taken.
FromShorter ==
    IF k = -d \/ (k # d /\ v[k - 1] > v[k + 1]) THEN v[k + 1] ELSE v[k - 1] + 1

\* Down from the diagonal above, or right from the one below.
From == IF k = -d \/ (k # d /\ v[k - 1] < v[k + 1]) THEN v[k + 1] ELSE v[k - 1] + 1

\* Following free edges from a as far as possible leads to b.
Follows(a, b) == (\A i \in a..(b - 1) : Matches(i, k)) /\ ~Matches(b, k)

Reached(to) == to >= N /\ to - k >= M

\* Mutant: the loop ends a round too early.
RoundBeforeLast == d = max_size - 1

LastRound == d = max_size

\* One diagonal; found, the last of a round, or neither.
Extend(to) ==
    /\ Follows(From, to)
    /\ v' = [v EXCEPT ![k] = to]
    /\ \/ /\ Reached(to)
          /\ path_lengths' = Append(path_lengths, v')
          /\ phase' = "trace"
          /\ x' = N
          /\ y' = M
          /\ UNCHANGED <<d, k>>
       \/ /\ ~Reached(to) /\ k < d
          /\ k' = k + 2
          /\ UNCHANGED <<phase, d, path_lengths, x, y>>
       \/ /\ ~Reached(to) /\ k = d
          /\ path_lengths' = Append(path_lengths, v')
          /\ IF LastRound
             THEN phase' = "gave up" /\ UNCHANGED <<d, k>>
             ELSE d' = d + 1 /\ k' = -(d + 1) /\ UNCHANGED phase
          /\ UNCHANGED <<x, y>>
    /\ UNCHANGED <<input, lines, printed>>

Search == phase = "search" /\ \E to \in {From} \cup From..N : Extend(to)

-----------------------------------------------------------------------------
(* The way back: output, from the outermost call to the innermost *)

wdprev == path_lengths[d]
Diagonal == x - y
Values(j) == IF j \in Diagonals THEN {wdprev[j]} ELSE Stray
Edge(op) == [op |-> op, x |-> x, y |-> y]

\* The innermost call, for no differences.
Printed ==
    /\ phase = "trace"
    /\ d = 0
    /\ phase' = "printed"
    /\ UNCHANGED <<input, searchVars, traceVars>>

Difference(op) ==
    /\ printed' = <<Edge(op)>> \o lines \o printed
    /\ lines' = <<>>
    /\ d' = d - 1

\* Did we step right in the previous iteration?
FromLeft == \E left \in Values(Diagonal - 1) : x = left + 1
NotFromLeft == \E left \in Values(Diagonal - 1) : x # left + 1

StepRight ==
    /\ phase = "trace" /\ d > 0
    /\ FromLeft /\ x > 0
    /\ Difference("-")
    /\ x' = x - 1
    /\ UNCHANGED <<input, phase, k, v, path_lengths, y>>

\* A -1 in front of the vector is taken for a step right from outside the graph, and
\* expected[-1] is read: whatever happens then.
LineBeforeFirst ==
    /\ phase = "trace" /\ d > 0
    /\ FromLeft /\ x = 0
    /\ phase' = "undefined"
    /\ UNCHANGED <<input, searchVars, traceVars>>

\* Did we step down?
FromAbove == \E above \in Values(Diagonal + 1) : x = above
NotFromAbove == \E above \in Values(Diagonal + 1) : x # above

\* Mutant: the step right, copied.
StepDownLeft ==
    /\ phase = "trace" /\ d > 0
    /\ NotFromLeft
    /\ FromAbove
    /\ Difference("+")
    /\ x' = x - 1
    /\ UNCHANGED <<input, phase, k, v, path_lengths, y>>

StepDown ==
    /\ phase = "trace" /\ d > 0
    /\ NotFromLeft
    /\ FromAbove
    /\ Difference("+")
    /\ y' = y - 1
    /\ UNCHANGED <<input, phase, k, v, path_lengths, x>>

\* A line in both that ends in <<x, y>>.
Equal == x > 0 /\ y > 0 /\ expected[x] = got[y]

\* Mutant: x and y are not decremented.
StayOnDiagonal ==
    /\ phase = "trace" /\ d > 0
    /\ NotFromLeft /\ NotFromAbove
    /\ IF Equal
       THEN UNCHANGED <<phase, x, y, lines>>
       ELSE phase' = "internal error" /\ UNCHANGED <<x, y, lines>>
    /\ UNCHANGED <<input, searchVars, printed>>

\* Mutant: the lines passed are appended.
UpDiagonalReversed ==
    /\ phase = "trace" /\ d > 0
    /\ NotFromLeft /\ NotFromAbove
    /\ IF Equal
       THEN /\ lines' = Append(lines, Edge(" "))
            /\ x' = x - 1
            /\ y' = y - 1
            /\ UNCHANGED phase
       ELSE phase' = "internal error" /\ UNCHANGED <<x, y, lines>>
    /\ UNCHANGED <<input, searchVars, printed>>

\* Neither: up the diagonal, or "internal error creating diff", which prints what
\* outer calls found.
UpDiagonal ==
    /\ phase = "trace" /\ d > 0
    /\ NotFromLeft /\ NotFromAbove
    /\ IF Equal
       THEN /\ lines' = <<Edge(" ")>> \o lines
            /\ x' = x - 1
            /\ y' = y - 1
            /\ UNCHANGED phase
       ELSE phase' = "internal error" /\ UNCHANGED <<x, y, lines>>
    /\ UNCHANGED <<input, searchVars, printed>>

-----------------------------------------------------------------------------
(* The specification *)

Ended ==
    phase \in {"equal", "unequal", "printed", "gave up", "internal error", "undefined"}

Step ==
    \/ Compare \/ Search \/ Printed
    \/ StepRight \/ LineBeforeFirst \/ StepDown \/ UpDiagonal

Next == Step \/ (Ended /\ UNCHANGED vars)

Spec == Init /\ [][Next]_vars

\* The loops run as long as they can.
FairSpec == Spec /\ WF_vars(Step)

-----------------------------------------------------------------------------
(* Properties *)

EdgeType == [op : {"-", "+", " "}, x : Nat, y : Nat]

\* Type invariant; the way back stays within the graph.
TypeOK ==
    /\ input \in Inputs
    /\ phase \in {"compare", "search", "trace", "equal", "unequal", "printed",
                  "gave up", "internal error", "undefined"}
    /\ d \in 0..max_size
    /\ k \in Diagonals
    /\ v \in [Diagonals -> Nat]
    /\ path_lengths \in Seq([Diagonals -> Nat])
    /\ x \in 0..N
    /\ y \in 0..M
    /\ lines \in Seq(EdgeType)
    /\ printed \in Seq(EdgeType)

\* With max_size = M + N the search never gives up, and the way back never loses
\* its track (CompareArrays.cc:94-97, 212) - but for what may follow from reading in
\* front of the vector, which can only do harm if nothing is expected.
AlwaysFound ==
    /\ phase \notin {"gave up", "internal error"}
    /\ phase = "undefined" => expected = <<>>

\* Where an edge comes from, and whether it is in the graph.
Start(edge) == <<IF edge.op = "+" THEN edge.x ELSE edge.x - 1,
                 IF edge.op = "-" THEN edge.y ELSE edge.y - 1>>
InGraph(edge) ==
    /\ edge.x \in 0..N /\ edge.y \in 0..M
    /\ Start(edge) \in (0..N) \X (0..M)
    /\ edge.op = " " => expected[edge.x] = got[edge.y]

\* The edges of s lead from node a to node b.
Path(a, s, b) ==
    /\ \A i \in 1..Len(s) : InGraph(s[i])
    /\ IF s = <<>> THEN a = b
       ELSE /\ Start(s[1]) = a
            /\ \A i \in 2..Len(s) : Start(s[i]) = <<s[i - 1].x, s[i - 1].y>>
            /\ <<s[Len(s)].x, s[Len(s)].y>> = b

\* What is printed tells how the lines expected become the lines got: from the
\* first difference, before which all lines are equal, it is a path to the end of
\* both (CompareArrays.cc:170-213).
DiffCorrect ==
    phase = "printed" =>
        /\ x = y /\ \A i \in 1..x : expected[i] = got[i]
        /\ printed # <<>> /\ printed[1].op # " "
        /\ Path(<<x, y>>, printed, <<N, M>>)

\* The length of a shortest path to each node.
Distance ==
    LET Least(S) == CHOOSE a \in S : \A b \in S : a <= b
        length[n \in (0..N) \X (0..M)] ==
            LET a == n[1]
                b == n[2]
                right == IF a > 0 THEN {length[<<a - 1, b>>] + 1} ELSE {}
                down  == IF b > 0 THEN {length[<<a, b - 1>>] + 1} ELSE {}
                free  == IF a > 0 /\ b > 0 /\ expected[a] = got[b]
                         THEN {length[<<a - 1, b - 1>>]} ELSE {}
            IN IF a = 0 /\ b = 0 THEN 0 ELSE Least(right \cup down \cup free)
    IN length[<<N, M>>]

Differences == {i \in 1..Len(printed) : printed[i].op # " "}

\* No difference is printed that a smaller diff could do without
\* (CompareArrays.cc:85-86).
DiffSmallest == phase = "printed" => Cardinality(Differences) = Distance

\* The arrays are called equal exactly if they are, verbose or not
\* (CompareArrays.cc:41-70, 167).
VerdictSame == Ended => (phase = "equal" <=> expected = got)

\* It comes to an end (CompareArrays.cc:120-163, 182-210).
Finishes == <>Ended

\* The way back stays within v[-max_size..max_size] (CompareArrays.cc:100-102).
IndexInRange == phase = "trace" /\ d > 0 => Diagonal - 1 \in Diagonals

=============================================================================
