------------------------ MODULE CompareArraysProofs ------------------------
(***************************************************************************)
(* Proofs about CompareArrays for lists of any length: the search reaches  *)
(* the end of both lists, exactly, before it would give up, and the way    *)
(* back finds its way and prints a path through the graph, a shortest one. *)
(***************************************************************************)
EXTENDS CompareArrays, Induction, SequenceTheorems, FiniteSetTheorems, TLAPS

-----------------------------------------------------------------------------
(* The rounds of the search, of which p is v before and q is v after one *)

\* The diagonals of round c: every other one.
On(c) == {2 * h - c : h \in 0..c}

Blank == [j \in Diagonals |-> IF j = 1 THEN 0 ELSE Unset]

\* Where the search starts on diagonal j in round c.
Origin(p, c, j) ==
    IF j = -c \/ (j # c /\ p[j - 1] < p[j + 1]) THEN p[j + 1] ELSE p[j - 1] + 1

\* Free edges lead from there to where it ends.
Followed(in, p, q, c, j) ==
    /\ Origin(p, c, j) \in Nat
    /\ Origin(p, c, j) >= j
    /\ 2 * Origin(p, c, j) >= c + j
    /\ q[j] \in Nat
    /\ q[j] >= Origin(p, c, j)
    /\ j # -c => p[j - 1] \in Nat /\ q[j] >= p[j - 1] + 1
    /\ j # c => p[j + 1] \in Nat /\ q[j] >= p[j + 1]
    /\ \A i \in Origin(p, c, j)..(q[j] - 1) :
          /\ i < Len(in.expected)
          /\ i - j < Len(in.got)
          /\ in.expected[i + 1] = in.got[i - j + 1]

\* What is beyond the edge of the graph came straight from the edge.
Beyond(in, p, q, c, j) ==
    /\ q[j] - j > Len(in.got) => j # c /\ p[j + 1] >= q[j]
    /\ q[j] > Len(in.expected) => j # -c /\ p[j - 1] >= q[j] - 1

\* The end of both lists is not reached.
Short(in, q, j) == q[j] < Len(in.expected) \/ q[j] - j < Len(in.got)

Explored(in, p, q, c, j) ==
    Followed(in, p, q, c, j) /\ Beyond(in, p, q, c, j) /\ Short(in, q, j)

\* v before round c.
Before(paths, c, blank) == IF c = 0 THEN blank ELSE paths[c]

\* Round c is complete, and has touched no diagonal beyond.
Round(in, paths, c, blank) ==
    /\ \A j \in On(c) : Explored(in, Before(paths, c, blank), paths[c + 1], c, j)
    /\ \A j \in DOMAIN blank : j < -c \/ j > c => paths[c + 1][j] = blank[j]

-----------------------------------------------------------------------------
(* The inductive invariant *)

\* InGraph and Path of given lists.
IsEdge(in, edge) ==
    /\ edge.x \in 0..Len(in.expected) /\ edge.y \in 0..Len(in.got)
    /\ Start(edge) \in (0..Len(in.expected)) \X (0..Len(in.got))
    /\ edge.op = " " => in.expected[edge.x] = in.got[edge.y]

IsPath(in, a, s, b) ==
    /\ \A i \in 1..Len(s) : IsEdge(in, s[i])
    /\ IF s = <<>> THEN a = b
       ELSE /\ Start(s[1]) = a
            /\ \A i \in 2..Len(s) : Start(s[i]) = <<s[i - 1].x, s[i - 1].y>>
            /\ <<s[Len(s)].x, s[Len(s)].y>> = b

Fresh ==
    /\ v = Blank /\ d = 0 /\ k = 0 /\ path_lengths = <<>>
    /\ lines = <<>> /\ printed = <<>>

Searching ==
    /\ expected # got
    /\ Len(path_lengths) = d
    /\ k \in On(d)
    /\ \A c \in 0..(d - 1) : Round(input, path_lengths, c, Blank)
    /\ \A j \in On(d) : j < k => Explored(input, Before(path_lengths, d, Blank), v, d, j)
    /\ \A j \in Diagonals :
          ~(j \in On(d) /\ j < k) => v[j] = Before(path_lengths, d, Blank)[j]
    /\ lines = <<>> /\ printed = <<>>

\* <<x, y>> lies between the start and the end of its diagonal in round d.
Tracing ==
    /\ expected # got
    /\ Len(path_lengths) > d
    /\ Diagonal \in On(d)
    /\ Origin(Before(path_lengths, d, Blank), d, Diagonal) <= x
    /\ x <= path_lengths[d + 1][Diagonal]
    /\ Followed(input, Before(path_lengths, d, Blank), path_lengths[d + 1], d, Diagonal)
    /\ \A c \in 0..(d - 1) : Round(input, path_lengths, c, Blank)
    /\ IsPath(input, <<x, y>>, lines \o printed, <<N, M>>)
    /\ printed # <<>> => printed[1].op # " "
    /\ d = 0 => lines = <<>> /\ printed # <<>>

Traced ==
    /\ expected # got
    /\ x = y /\ \A i \in 1..x : expected[i] = got[i]
    /\ printed # <<>> /\ printed[1].op # " "
    /\ IsPath(input, <<x, y>>, printed, <<N, M>>)

IInv ==
    /\ TypeOK
    /\ phase \notin {"gave up", "internal error"}
    /\ phase = "compare" => Fresh
    /\ phase = "search" => Searching
    /\ phase = "trace" => Tracing
    /\ phase = "equal" => expected = got
    /\ phase = "unequal" => expected # got
    /\ phase = "printed" => Traced
    /\ phase = "undefined" => expected # got /\ expected = <<>>

-----------------------------------------------------------------------------
(* One diagonal *)

LEMMA OnWitness ==
    ASSUME NEW c, NEW h \in 0..c
    PROVE  2 * h - c \in On(c)
BY DEF On

LEMMA OnFacts ==
    ASSUME NEW c \in Nat, NEW j \in On(c)
    PROVE  /\ j \in Int /\ -c <= j /\ j <= c
           /\ j - 1 \notin On(c) /\ j + 1 \notin On(c)
           /\ j # -c => c - 1 \in Nat /\ j - 1 \in On(c - 1)
           /\ j # c => c - 1 \in Nat /\ j + 1 \in On(c - 1) /\ j + 2 \in On(c)
<1>1. PICK h \in 0..c : j = 2 * h - c
  BY DEF On
<1>2. j \in Int /\ -c <= j /\ j <= c
  BY <1>1
<1>3. j - 1 \notin On(c) /\ j + 1 \notin On(c)
  BY <1>1 DEF On
<1>4. ASSUME j # -c PROVE c - 1 \in Nat /\ j - 1 \in On(c - 1)
  <2>1. h - 1 \in 0..(c - 1) /\ j - 1 = 2 * (h - 1) - (c - 1)
    BY <1>1, <1>4
  <2>2. 2 * (h - 1) - (c - 1) \in On(c - 1)
    BY <2>1, OnWitness
  <2>. QED  BY <2>1, <2>2, <1>1, <1>4
<1>5. ASSUME j # c PROVE c - 1 \in Nat /\ j + 1 \in On(c - 1) /\ j + 2 \in On(c)
  <2>1. h \in 0..(c - 1) /\ j + 1 = 2 * h - (c - 1)
    BY <1>1, <1>5
  <2>2. h + 1 \in 0..c /\ j + 2 = 2 * (h + 1) - c
    BY <1>1, <1>5
  <2>3. 2 * h - (c - 1) \in On(c - 1) /\ 2 * (h + 1) - c \in On(c)
    BY <2>1, <2>2, OnWitness
  <2>. QED  BY <1>1, <1>5, <2>1, <2>2, <2>3
<1>. QED  BY <1>2, <1>3, <1>4, <1>5

LEMMA OnZero == On(0) = {0}
BY DEF On

\* The diagonals a round starts and ends on.
LEMMA OnEnds ==
    ASSUME NEW c \in Nat
    PROVE  -c \in On(c) /\ c \in On(c)
<1>1. 0 \in 0..c /\ -c = 2 * 0 - c /\ c \in 0..c /\ c = 2 * c - c
  OBVIOUS
<1>. QED  BY <1>1 DEF On

\* Following a diagonal as the search does it keeps what the invariant says of
\* the diagonals, and it does not go past the end of both lists.
LEMMA Extension ==
    ASSUME NEW in \in InputType, NEW c \in Nat, NEW j \in On(c), NEW p, NEW q, NEW pp,
           c = 0 => p[1] = 0,
           c # 0 => \A i \in On(c - 1) : Explored(in, pp, p, c - 1, i),
           q[j] \in Int, q[j] >= Origin(p, c, j),
           \A i \in Origin(p, c, j)..(q[j] - 1) :
              /\ i < Len(in.expected)
              /\ i - j < Len(in.got)
              /\ in.expected[i + 1] = in.got[i - j + 1]
    PROVE  /\ Followed(in, p, q, c, j)
           /\ Beyond(in, p, q, c, j)
           /\ ~Short(in, q, j) => q[j] = Len(in.expected) /\ q[j] - j = Len(in.got)
<1>. DEFINE o == Origin(p, c, j)
            n == Len(in.expected)
            m == Len(in.got)
<1>1. n \in Nat /\ m \in Nat
  BY DEF InputType
<1>2. /\ j \in Int /\ -c <= j /\ j <= c
      /\ j # -c => c - 1 \in Nat /\ j - 1 \in On(c - 1)
      /\ j # c => c - 1 \in Nat /\ j + 1 \in On(c - 1)
  BY OnFacts
<1>3. ASSUME j # -c
      PROVE  Explored(in, pp, p, c - 1, j - 1)
  BY <1>2, <1>3
<1>4. ASSUME j # c
      PROVE  Explored(in, pp, p, c - 1, j + 1)
  BY <1>2, <1>4
<1>5. ASSUME j # -c
      PROVE  /\ p[j - 1] \in Nat /\ p[j - 1] >= j - 1 /\ 2 * p[j - 1] >= c + j - 2
             /\ p[j - 1] - (j - 1) > m =>
                   j # c /\ pp[j] \in Nat /\ pp[j] >= p[j - 1]
             /\ p[j - 1] < n \/ p[j - 1] - (j - 1) < m
             /\ j # c => pp[j] \in Nat /\ p[j - 1] >= pp[j]
  <2>1. /\ Followed(in, pp, p, c - 1, j - 1)
        /\ Beyond(in, pp, p, c - 1, j - 1)
        /\ Short(in, p, j - 1)
    BY <1>3, <1>5 DEF Explored
  <2>2. (j - 1) + 1 = j /\ (j - 1 = c - 1 <=> j = c) /\ (c - 1) + (j - 1) = c + j - 2
    BY <1>2
  <2>3. p[j - 1] \in Nat /\ p[j - 1] >= j - 1 /\ 2 * p[j - 1] >= c + j - 2
    BY <2>1, <2>2, <1>2 DEF Followed
  <2>4. j # c => pp[j] \in Nat /\ p[j - 1] >= pp[j]
    BY <2>1, <2>2 DEF Followed
  <2>5. p[j - 1] - (j - 1) > m => j # c /\ pp[j] >= p[j - 1]
    BY <2>1, <2>2 DEF Beyond
  <2>. QED  BY <2>1, <2>3, <2>4, <2>5 DEF Short
<1>6. ASSUME j # c
      PROVE  /\ p[j + 1] \in Nat /\ p[j + 1] >= j + 1 /\ 2 * p[j + 1] >= c + j
             /\ p[j + 1] > n => j # -c /\ pp[j] \in Nat /\ pp[j] >= p[j + 1] - 1
             /\ p[j + 1] < n \/ p[j + 1] - (j + 1) < m
             /\ j # -c => pp[j] \in Nat /\ p[j + 1] >= pp[j] + 1
  <2>1. /\ Followed(in, pp, p, c - 1, j + 1)
        /\ Beyond(in, pp, p, c - 1, j + 1)
        /\ Short(in, p, j + 1)
    BY <1>4, <1>6 DEF Explored
  <2>2. (j + 1) - 1 = j /\ (j + 1 = -(c - 1) <=> j = -c) /\ (c - 1) + (j + 1) = c + j
    BY <1>2
  <2>3. p[j + 1] \in Nat /\ p[j + 1] >= j + 1 /\ 2 * p[j + 1] >= c + j
    BY <2>1, <2>2, <1>2 DEF Followed
  <2>4. j # -c => pp[j] \in Nat /\ p[j + 1] >= pp[j] + 1
    BY <2>1, <2>2 DEF Followed
  <2>5. p[j + 1] > n => j # -c /\ pp[j] >= p[j + 1] - 1
    BY <2>1, <2>2 DEF Beyond
  <2>. QED  BY <2>1, <2>3, <2>4, <2>5 DEF Short
<1>7. \/ c = 0 /\ j = 0 /\ o = 0
      \/ c # 0 /\ j # c /\ o = p[j + 1] /\ (j # -c => p[j - 1] < p[j + 1])
      \/ c # 0 /\ j # -c /\ o = p[j - 1] + 1 /\ (j # c => ~(p[j - 1] < p[j + 1]))
  BY <1>2 DEF Origin
<1>. HIDE DEF o, n, m
<1>8. o \in Nat /\ o >= j /\ 2 * o >= c + j
  <2>1. CASE c = 0
    BY <1>2, <1>7, <2>1
  <2>2. CASE j # c /\ o = p[j + 1]
    BY <1>2, <1>6, <2>2
  <2>3. CASE j # -c /\ o = p[j - 1] + 1
    BY <1>2, <1>5, <2>3
  <2>. QED  BY <1>7, <2>1, <2>2, <2>3
<1>9. /\ j # -c => o >= p[j - 1] + 1
      /\ j # c => o >= p[j + 1]
  <2>1. CASE c = 0
    BY <1>2, <2>1
  <2>2. CASE j # c /\ o = p[j + 1] /\ (j # -c => p[j - 1] < p[j + 1])
    BY <1>2, <1>5, <1>6, <2>2
  <2>3. CASE j # -c /\ o = p[j - 1] + 1 /\ (j # c => ~(p[j - 1] < p[j + 1]))
    BY <1>2, <1>5, <1>6, <2>3
  <2>. QED  BY <1>7, <2>1, <2>2, <2>3
<1>10. Followed(in, p, q, c, j)
  <2>1. q[j] \in Nat
    BY <1>8 DEF o
  <2>2. j # -c => p[j - 1] \in Nat /\ q[j] >= p[j - 1] + 1
    BY <1>5, <1>8, <1>9 DEF o
  <2>3. j # c => p[j + 1] \in Nat /\ q[j] >= p[j + 1]
    BY <1>6, <1>8, <1>9 DEF o
  <2>. QED  BY <1>8, <2>1, <2>2, <2>3 DEF Followed, o
<1>11. q[j] > n \/ q[j] - j > m => q[j] = o
  <2>1. ASSUME q[j] > o PROVE q[j] - 1 < n /\ q[j] - 1 - j < m
    <3>1. q[j] - 1 \in o..(q[j] - 1)
      BY <2>1, <1>8
    <3>. QED  BY <3>1 DEF o, n, m
  <2>2. q[j] \in Int /\ q[j] >= o
    BY DEF o
  <2>3. j \in Int /\ o \in Int
    BY <1>2, <1>8
  <2>4. CASE q[j] > o
    BY <2>1, <2>2, <2>3, <2>4, <1>1
  <2>. QED  BY <2>2, <2>3, <2>4
<1>12. Beyond(in, p, q, c, j)
  <2>1. ASSUME q[j] - j > m PROVE j # c /\ p[j + 1] >= q[j]
    <3>1. q[j] = o /\ o - j > m
      BY <2>1, <1>11
    <3>2. CASE c = 0
      BY <3>1, <3>2, <1>1, <1>7
    <3>3. CASE j # c /\ o = p[j + 1]
      BY <3>1, <3>3, <1>6
    <3>4. CASE j # -c /\ o = p[j - 1] + 1
      <4>1. p[j - 1] - (j - 1) > m
        BY <3>1, <3>4, <1>2, <1>5
      <4>2. j # c /\ pp[j] \in Nat /\ pp[j] >= p[j - 1]
        BY <4>1, <3>4, <1>5
      <4>. QED  BY <3>1, <3>4, <4>2, <1>5, <1>6
    <3>. QED  BY <3>2, <3>3, <3>4, <1>7
  <2>2. ASSUME q[j] > n PROVE j # -c /\ p[j - 1] >= q[j] - 1
    <3>1. q[j] = o /\ o > n
      BY <2>2, <1>11
    <3>2. CASE c = 0
      BY <3>1, <3>2, <1>1, <1>7
    <3>3. CASE j # c /\ o = p[j + 1]
      <4>1. j # -c /\ pp[j] \in Nat /\ pp[j] >= p[j + 1] - 1
        BY <3>1, <3>3, <1>6
      <4>. QED  BY <3>1, <3>3, <4>1, <1>5, <1>6
    <3>4. CASE j # -c /\ o = p[j - 1] + 1
      BY <3>1, <3>4, <1>5
    <3>. QED  BY <3>2, <3>3, <3>4, <1>7
  <2>. QED  BY <2>1, <2>2 DEF Beyond, n, m
<1>13. ASSUME q[j] >= n, q[j] - j >= m PROVE q[j] = n /\ q[j] - j = m
  <2>1. ~(q[j] > n)
    BY <1>13, <1>1, <1>2, <1>5, <1>12 DEF Beyond, n, m
  <2>2. ~(q[j] - j > m)
    <3>1. q[j] - j > m => j # c /\ p[j + 1] >= q[j]
      BY <1>12 DEF Beyond, m
    <3>. QED  BY <1>13, <1>1, <1>2, <1>6, <3>1
  <2>. QED  BY <1>13, <2>1, <2>2, <1>1, <1>2
<1>. QED  BY <1>1, <1>2, <1>10, <1>12, <1>13 DEF Short, n, m

-----------------------------------------------------------------------------
(* Facts about the state *)

LEMMA InputFacts ==
    ASSUME TypeOK
    PROVE  /\ input \in InputType
           /\ expected = input.expected /\ N = Len(input.expected) /\ N \in Nat
           /\ got = input.got /\ M = Len(input.got) /\ M \in Nat
           /\ max_size = N + M /\ max_size \in Nat /\ N + M < Unset
           /\ Unset \in Nat
           /\ Diagonals = (-max_size)..max_size
           /\ v \in [Diagonals -> Nat]
           /\ d \in Nat /\ d <= max_size /\ k \in Int
<1>1. input \in Inputs /\ input \in InputType /\ Unset \in Nat
  BY CompareArraysAssumption DEF TypeOK
<1>2. Len(input.expected) \in Nat /\ Len(input.got) \in Nat
  BY <1>1 DEF InputType
<1>3. Len(input.expected) + Len(input.got) < Unset
  BY <1>1, CompareArraysAssumption
<1>4. N \in Nat /\ M \in Nat /\ N + M < Unset
  BY <1>2, <1>3 DEF N, M, expected, got
<1>5. max_size = N + M /\ max_size \in Nat
  BY <1>4 DEF max_size
<1>6. Diagonals = (-max_size)..max_size
  BY DEF Diagonals
<1>7. v \in [Diagonals -> Nat] /\ d \in 0..max_size /\ k \in Diagonals
  BY DEF TypeOK
<1>8. d \in Nat /\ d <= max_size /\ k \in Int
  BY <1>5, <1>6, <1>7
<1>9. expected = input.expected /\ got = input.got
      /\ N = Len(input.expected) /\ M = Len(input.got)
  BY DEF N, M, expected, got
<1>. QED  BY <1>1, <1>4, <1>5, <1>6, <1>7, <1>8, <1>9

LEMMA TypeFacts ==
    ASSUME TypeOK
    PROVE  /\ x \in Nat /\ x <= N /\ y \in Nat /\ y <= M
           /\ lines \in Seq(EdgeType) /\ printed \in Seq(EdgeType)
           /\ path_lengths \in Seq([Diagonals -> Nat])
<1>1. N \in Nat /\ M \in Nat
  BY InputFacts
<1>2. x \in 0..N /\ y \in 0..M
  BY DEF TypeOK
<1>3. x \in Nat /\ x <= N /\ y \in Nat /\ y <= M
  BY <1>1, <1>2
<1>. QED  BY <1>3 DEF TypeOK

\* Of different lists one is not empty, and v[1] exists.
LEMMA OneDiagonal ==
    ASSUME TypeOK, expected # got
    PROVE  max_size # 0 /\ 1 \in Diagonals /\ Blank[1] = 0
<1>1. expected \in Seq(Line) /\ got \in Seq(Line)
  BY InputFacts DEF InputType
<1>2. N # 0 \/ M # 0
  <2>1. SUFFICES ASSUME Len(expected) = 0, Len(got) = 0 PROVE FALSE
    BY DEF N, M
  <2>2. expected = <<>> /\ got = <<>>
    BY <2>1, <1>1
  <2>. QED  BY <2>2
<1>3. N \in Nat /\ M \in Nat /\ max_size = N + M
  BY InputFacts
<1>4. max_size \in Nat /\ max_size # 0
  BY <1>2, <1>3
<1>5. 1 \in Diagonals
  BY <1>4 DEF Diagonals
<1>. QED  BY <1>4, <1>5 DEF Blank

LEMMA Frame ==
    ASSUME input' = input
    PROVE  /\ expected' = expected /\ got' = got /\ N' = N /\ M' = M
           /\ max_size' = max_size /\ Diagonals' = Diagonals /\ Blank' = Blank
BY DEF expected, got, N, M, max_size, Diagonals, Blank

LEMMA SameIsEqual ==
    ASSUME TypeOK
    PROVE  Same <=> expected = got
<1>1. expected \in Seq(Line) /\ got \in Seq(Line)
  BY InputFacts DEF InputType
<1>. QED  BY <1>1 DEF Same, N, M

LEMMA RoundSame ==
    ASSUME NEW in, NEW blank, NEW paths, NEW paths2, NEW c \in Nat,
           \A i \in 1..(c + 1) : paths2[i] = paths[i],
           Round(in, paths, c, blank)
    PROVE  Round(in, paths2, c, blank)
<1>1. paths2[c + 1] = paths[c + 1] /\ (c # 0 => paths2[c] = paths[c])
  OBVIOUS
<1>2. Before(paths2, c, blank) = Before(paths, c, blank)
  BY <1>1 DEF Before
<1>. QED  BY <1>1, <1>2 DEF Round

LEMMA OriginZero ==
    ASSUME NEW blank, blank[1] = 0
    PROVE  Origin(blank, 0, 0) = 0
<1>1. ASSUME NEW c \in Nat, c <= 0 PROVE Origin(blank, c, c) = 0
  <2>1. c = -c /\ c + 1 = 1
    BY <1>1
  <2>. QED  BY <2>1 DEF Origin
<1>. QED  BY <1>1

LEMMA ExploredSame ==
    ASSUME NEW in, NEW p, NEW q, NEW q2, NEW c, NEW j, q2[j] = q[j],
           Explored(in, p, q, c, j)
    PROVE  Explored(in, p, q2, c, j)
BY DEF Explored, Followed, Beyond, Short

-----------------------------------------------------------------------------
(* Every step preserves the invariant *)

LEMMA Initially == Init => IInv
<1>. SUFFICES ASSUME Init PROVE IInv
  OBVIOUS
<1>1. input \in Inputs /\ Unset \in Nat /\ input \in InputType
  BY CompareArraysAssumption DEF Init
<1>2. N \in Nat /\ M \in Nat
  BY <1>1 DEF InputType, N, M, expected, got
<1>3. max_size \in Nat
  BY <1>2 DEF max_size
<1>4. 0 \in 0..max_size /\ 0 \in Diagonals
  BY <1>3 DEF Diagonals
<1>5. v \in [Diagonals -> Nat]
  BY <1>1 DEF Init
<1>6. x \in 0..N /\ y \in 0..M
  BY <1>2 DEF Init
<1>7. TypeOK
  BY <1>1, <1>4, <1>5, <1>6 DEF Init, TypeOK
<1>8. Fresh
  BY DEF Init, Fresh, Blank
<1>. QED  BY <1>7, <1>8 DEF Init, IInv

LEMMA CompareStep ==
    ASSUME IInv, Compare
    PROVE  IInv'
<1>. TypeOK
  BY DEF IInv
<1>1. /\ input' = input /\ d' = d /\ k' = k /\ v' = v /\ path_lengths' = path_lengths
      /\ x' = x /\ y' = y /\ lines' = lines /\ printed' = printed
  BY DEF Compare, searchVars, traceVars
<1>2. /\ expected' = expected /\ got' = got /\ N' = N /\ M' = M
      /\ max_size' = max_size /\ Diagonals' = Diagonals /\ Blank' = Blank
  BY <1>1, Frame
<1>3. phase' \in {"equal", "unequal", "search"}
  BY DEF Compare
<1>4. TypeOK'
  BY <1>1, <1>2, <1>3 DEF TypeOK
<1>5. /\ phase' = "equal" => expected = got
      /\ phase' # "equal" => expected # got
  BY SameIsEqual DEF Compare
<1>6. Fresh
  BY DEF Compare, IInv
<1>7. ASSUME phase' = "search"
      PROVE  Searching'
  <2>0. 0..(0 - 1) = {}
    OBVIOUS
  <2>1. d = 0 /\ k = 0 /\ 0 \in On(0) /\ Len(path_lengths) = 0
    BY <1>6, OnEnds DEF Fresh
  <2>2. \A j \in On(0) : ~(j < 0)
    BY OnZero
  <2>3. Before(path_lengths, 0, Blank) = v
    BY <1>6 DEF Fresh, Before
  <2>4. expected # got
    BY <1>5, <1>7
  <2>5. \A c \in 0..(d - 1) : FALSE
    BY <2>0, <2>1
  <2>. QED  BY <1>1, <1>2, <1>6, <2>1, <2>2, <2>3, <2>4, <2>5 DEF Searching, Fresh
<1>. QED  BY <1>2, <1>3, <1>4, <1>5, <1>7 DEF IInv

LEMMA PrintedStep ==
    ASSUME IInv, Printed
    PROVE  IInv'
<1>. TypeOK
  BY DEF IInv
<1>1. /\ input' = input /\ d' = d /\ k' = k /\ v' = v /\ path_lengths' = path_lengths
      /\ x' = x /\ y' = y /\ lines' = lines /\ printed' = printed
      /\ phase' = "printed" /\ d = 0
  BY DEF Printed, searchVars, traceVars
<1>2. /\ expected' = expected /\ got' = got /\ N' = N /\ M' = M
      /\ max_size' = max_size /\ Diagonals' = Diagonals /\ Blank' = Blank
  BY <1>1, Frame
<1>3. TypeOK'
  BY <1>1, <1>2 DEF TypeOK
<1>4. Tracing
  BY DEF Printed, IInv
<1>5. /\ x \in Nat /\ y \in Nat /\ expected = input.expected /\ got = input.got
      /\ printed \in Seq(EdgeType) /\ max_size \in Nat /\ N \in Nat /\ M \in Nat
      /\ expected # got
  BY <1>4, InputFacts, TypeFacts DEF Tracing
<1>6. Diagonal = 0 /\ x = y
  <2>1. Diagonal \in On(0)
    BY <1>1, <1>4 DEF Tracing
  <2>2. Diagonal = 0
    BY <2>1, OnZero
  <2>. QED  BY <2>2, <1>5 DEF Diagonal
<1>7. lines = <<>> /\ printed # <<>> /\ printed[1].op # " " /\ lines \o printed = printed
  <2>1. lines = <<>> /\ printed # <<>> /\ printed[1].op # " "
    BY <1>1, <1>4 DEF Tracing
  <2>2. <<>> \o printed = printed
    BY <1>5
  <2>. QED  BY <2>1, <2>2
<1>8. \A i \in 1..x : expected[i] = got[i]
  <2>. DEFINE q == path_lengths[1]
  <2>1. Blank[1] = 0
    BY <1>5, OneDiagonal
  <2>2. Followed(input, Blank, q, 0, 0) /\ x <= q[0]
    <3>1. /\ Followed(input, Before(path_lengths, 0, Blank), path_lengths[0 + 1], 0, 0)
          /\ x <= path_lengths[0 + 1][0]
      BY <1>1, <1>4, <1>6 DEF Tracing
    <3>2. Before(path_lengths, 0, Blank) = Blank
      BY DEF Before
    <3>. QED  BY <3>1, <3>2
  <2>3. Origin(Blank, 0, 0) = 0
    BY <2>1, OriginZero
  <2>4. q[0] \in Nat /\ \A i \in 0..(q[0] - 1) : input.expected[i + 1] = input.got[i - 0 + 1]
    BY <2>2, <2>3 DEF Followed
  <2>5. ASSUME NEW i \in 1..x PROVE expected[i] = got[i]
    <3>1. i - 1 \in 0..(q[0] - 1) /\ (i - 1) + 1 = i /\ (i - 1) - 0 + 1 = i
      BY <2>2, <2>4, <1>5
    <3>2. input.expected[(i - 1) + 1] = input.got[(i - 1) - 0 + 1]
      BY <3>1, <2>4
    <3>. QED  BY <3>1, <3>2, <1>5
  <2>. QED  BY <2>5
<1>9. IsPath(input, <<x, y>>, printed, <<N, M>>)
  BY <1>4, <1>7 DEF Tracing
<1>10. Traced'
  BY <1>1, <1>2, <1>5, <1>6, <1>7, <1>8, <1>9 DEF Traced
<1>. QED  BY <1>1, <1>3, <1>10 DEF IInv

\* If the search were to give up, the diagonal of <<N, M>> would not be short of it.
LEMMA NeverGivesUp ==
    ASSUME NEW in, NEW p, NEW q, NEW n \in Nat, NEW m \in Nat,
           Len(in.expected) = n, Len(in.got) = m,
           \A j \in On(n + m) : Explored(in, p, q, n + m, j)
    PROVE  FALSE
<1>1. PICK c \in Nat : n + m = c
  OBVIOUS
<1>2. PICK j \in Int : n - m = j
  OBVIOUS
<1>3. n \in 0..c /\ 2 * n - c = j
  BY <1>1, <1>2
<1>4. j \in On(c)
  <2>1. 2 * n - c \in On(c)
    BY <1>3, OnWitness
  <2>. QED  BY <2>1, <1>3
<1>5. Explored(in, p, q, c, j)
  BY <1>1, <1>4
<1>. DEFINE o == Origin(p, c, j)
<1>6. q[j] \in Nat /\ o \in Nat /\ q[j] >= o /\ 2 * o >= c + j
  BY <1>5 DEF Explored, Followed
<1>7. q[j] < n \/ q[j] - j < m
  BY <1>5 DEF Explored, Short
<1>. HIDE DEF o
<1>8. q[j] >= n
  BY <1>1, <1>2, <1>6
<1>. QED  BY <1>2, <1>6, <1>7, <1>8

LEMMA SearchStep ==
    ASSUME IInv, Search
    PROVE  IInv'
<1>. TypeOK
  BY DEF IInv
<1>. DEFINE P == Before(path_lengths, d, Blank)
<1>0. Searching
  BY DEF IInv, Search
<1>1. /\ input \in InputType
      /\ expected = input.expected /\ N = Len(input.expected) /\ N \in Nat
      /\ got = input.got /\ M = Len(input.got) /\ M \in Nat
      /\ max_size = N + M /\ max_size \in Nat
      /\ Diagonals = (-max_size)..max_size /\ v \in [Diagonals -> Nat]
      /\ d \in Nat /\ d <= max_size
      /\ path_lengths \in Seq([Diagonals -> Nat])
  BY InputFacts, TypeFacts
<1>2. /\ Len(path_lengths) = d /\ k \in On(d)
      /\ \A c \in 0..(d - 1) : Round(input, path_lengths, c, Blank)
      /\ \A j \in On(d) : j < k => Explored(input, P, v, d, j)
      /\ \A j \in Diagonals : ~(j \in On(d) /\ j < k) => v[j] = P[j]
      /\ lines = <<>> /\ printed = <<>>
  BY <1>0 DEF Searching
<1>3. /\ k \in Int /\ -d <= k /\ k <= d
      /\ k - 1 \notin On(d) /\ k + 1 \notin On(d)
      /\ k # -d => d - 1 \in Nat /\ k - 1 \in On(d - 1)
      /\ k # d => d - 1 \in Nat /\ k + 1 \in On(d - 1) /\ k + 2 \in On(d)
  BY <1>1, <1>2, OnFacts
<1>a. d \in Nat /\ max_size \in Nat /\ d <= max_size
  BY <1>1
<1>b. /\ \A j \in Diagonals : j \in Int
      /\ \A j \in Int : -d <= j /\ j <= d => j \in Diagonals
  BY <1>a DEF Diagonals
<1>c. v \in [Diagonals -> Nat]
  BY <1>1
<1>4. max_size # 0 /\ 1 \in Diagonals /\ Blank[1] = 0
  BY <1>0, OneDiagonal DEF Searching
<1>5. /\ d = 0 => P[1] = 0
      /\ d # 0 => \A i \in On(d - 1) :
                      Explored(input, Before(path_lengths, d - 1, Blank), P, d - 1, i)
  <2>1. d = 0 => P = Blank
    BY DEF Before
  <2>2. ASSUME d # 0
        PROVE  \A i \in On(d - 1) :
                   Explored(input, Before(path_lengths, d - 1, Blank), P, d - 1, i)
    <3>1. d - 1 \in 0..(d - 1) /\ (d - 1) + 1 = d
      BY <1>1, <2>2
    <3>2. Round(input, path_lengths, d - 1, Blank)
      BY <1>2, <3>1
    <3>3. P = path_lengths[d]
      BY <2>2 DEF Before
    <3>. QED  BY <3>1, <3>2, <3>3 DEF Round
  <2>. QED  BY <2>1, <2>2, <1>4
<1>6. From = Origin(P, d, k)
  <2>1. k # -d => v[k - 1] = P[k - 1]
    <3>1. SUFFICES ASSUME k # -d PROVE k - 1 \in Diagonals
      BY <1>2, <1>3
    <3>2. k - 1 \in Int /\ -d <= k - 1 /\ k - 1 <= d
      BY <1>a, <1>3, <3>1
    <3>. QED  BY <1>b, <3>2
  <2>2. v[k + 1] = P[k + 1] \/ (k = d /\ d # 0)
    <3>1. CASE k # d
      <4>1. k + 1 \in Int /\ -d <= k + 1 /\ k + 1 <= d
        BY <1>a, <1>3, <3>1
      <4>2. k + 1 \in Diagonals
        BY <1>b, <4>1
      <4>. QED  BY <4>2, <1>2, <1>3
    <3>2. CASE k = d /\ d = 0
      <4>1. k + 1 = 1
        BY <3>2
      <4>. QED  BY <4>1, <1>4, <1>2, <1>3
    <3>. QED  BY <3>1, <3>2
  <2>3. k = d /\ d # 0 => k # -d
    BY <1>1
  <2>. QED  BY <2>1, <2>2, <2>3 DEF From, Origin
<1>7. PICK to \in {From} \cup From..N : Extend(to)
  BY DEF Search
<1>. DEFINE w == [v EXCEPT ![k] = to]
<1>8. k \in Diagonals /\ w[k] = to /\ \A j \in Diagonals : j # k => w[j] = v[j]
  BY <1>3, <1>b, <1>c
<1>9. From \in Nat
  <2>1. k - 1 \in Diagonals => v[k - 1] \in Nat
    BY <1>1
  <2>2. k + 1 \in Diagonals => v[k + 1] \in Nat
    BY <1>1
  <2>3. k # -d => k - 1 \in Diagonals
    <3>1. k # -d => k - 1 \in Int /\ -d <= k - 1 /\ k - 1 <= d
      BY <1>a, <1>3
    <3>. QED  BY <1>b, <3>1
  <2>4. k # d \/ d = 0 => k + 1 \in Diagonals
    <3>1. k # d => k + 1 \in Int /\ -d <= k + 1 /\ k + 1 <= d
      BY <1>a, <1>3
    <3>2. k = d /\ d = 0 => k + 1 = 1
      OBVIOUS
    <3>. QED  BY <1>b, <1>4, <3>1, <3>2
  <2>5. k = d /\ d # 0 => k # -d
    BY <1>1
  <2>. QED  BY <2>1, <2>2, <2>3, <2>4, <2>5 DEF From
<1>10. to \in Nat /\ to >= From
  BY <1>1, <1>7, <1>9
<1>11. \A i \in From..(to - 1) :
          i < N /\ i - k < M /\ input.expected[i + 1] = input.got[i - k + 1]
  BY <1>1, <1>7 DEF Extend, Follows, Matches
<1>12. /\ Followed(input, P, w, d, k)
       /\ Beyond(input, P, w, d, k)
       /\ ~Short(input, w, k) => to = N /\ to - k = M
  <2>. HIDE DEF P, w
  <2>1. /\ w[k] \in Int /\ w[k] >= Origin(P, d, k)
        /\ \A i \in Origin(P, d, k)..(w[k] - 1) :
              /\ i < Len(input.expected)
              /\ i - k < Len(input.got)
              /\ input.expected[i + 1] = input.got[i - k + 1]
    BY <1>1, <1>6, <1>8, <1>10, <1>11
  <2>2. d \in Nat /\ k \in On(d) /\ input \in InputType
    BY <1>1, <1>2
  <2>3. /\ Followed(input, P, w, d, k)
        /\ Beyond(input, P, w, d, k)
        /\ ~Short(input, w, k) =>
               w[k] = Len(input.expected) /\ w[k] - k = Len(input.got)
    BY ONLY <1>5, <2>1, <2>2, Extension
  <2>. QED  BY <2>3, <1>1, <1>8
<1>13. Reached(to) <=> ~Short(input, w, k)
  BY <1>1, <1>3, <1>8, <1>10 DEF Reached, Short
<1>14. \A j \in On(d) : j < k => Explored(input, P, w, d, j)
  <2>1. SUFFICES ASSUME NEW j \in On(d), j < k PROVE Explored(input, P, w, d, j)
    OBVIOUS
  <2>2. j \in Diagonals /\ j # k
    <3>1. j \in Int /\ -d <= j /\ j <= d
      BY <1>a, <2>1, OnFacts
    <3>. QED  BY <1>3, <1>b, <2>1, <3>1
  <2>3. w[j] = v[j]
    BY <1>8, <2>2
  <2>4. Explored(input, P, v, d, j)
    BY <1>2, <2>1
  <2>. HIDE DEF P, w
  <2>. QED  BY <2>3, <2>4, ExploredSame
<1>15. \A j \in Diagonals : ~(j \in On(d) /\ j < k) /\ j # k => w[j] = P[j]
  BY <1>2, <1>8
<1>16. w \in [Diagonals -> Nat]
  <2>1. v \in [Diagonals -> Nat] /\ to \in Nat
    BY <1>1, <1>10
  <2>. QED  BY <2>1
<1>17. /\ v' = w /\ input' = input /\ lines' = lines /\ printed' = printed
       /\ expected' = expected /\ got' = got /\ N' = N /\ M' = M
       /\ max_size' = max_size /\ Diagonals' = Diagonals /\ Blank' = Blank
  BY <1>7, Frame DEF Extend
<1>. HIDE DEF w
<1>. DEFINE paths == Append(path_lengths, w)
<1>18. /\ paths \in Seq([Diagonals -> Nat]) /\ Len(paths) = d + 1 /\ paths[d + 1] = w
       /\ \A i \in 1..d : paths[i] = path_lengths[i]
  <2>1. path_lengths \in Seq([Diagonals -> Nat]) /\ Len(path_lengths) = d
    BY <1>1, <1>2
  <2>. QED  BY <2>1, <1>16
<1>. HIDE DEF paths
<1>19. Before(paths, d, Blank) = P
  BY <1>1, <1>18 DEF Before
<1>20. \A c \in 0..(d - 1) : Round(input, paths, c, Blank)
  <2>1. SUFFICES ASSUME NEW c \in 0..(d - 1) PROVE Round(input, paths, c, Blank)
    OBVIOUS
  <2>2. c \in Nat /\ \A i \in 1..(c + 1) : paths[i] = path_lengths[i]
    BY <1>1, <1>18
  <2>. QED  BY <1>2, <2>2, RoundSame
<1>21. CASE Reached(to)
  <2>1. /\ path_lengths' = paths /\ phase' = "trace" /\ x' = N /\ y' = M
        /\ d' = d /\ k' = k
    BY <1>7, <1>17, <1>21 DEF Extend, paths
  <2>2. TypeOK'
    <3>1. N \in 0..N /\ M \in 0..M
      BY <1>1
    <3>2. d \in 0..max_size /\ k \in Diagonals /\ input \in Inputs
      BY <1>8 DEF TypeOK
    <3>. QED  BY <1>16, <1>17, <1>18, <1>2, <2>1, <3>1, <3>2 DEF TypeOK
  <2>3. to = N /\ k = N - M
    BY <1>1, <1>3, <1>12, <1>13, <1>21
  <2>4. Diagonal' = k
    BY <1>17, <2>1, <2>3 DEF Diagonal
  <2>5. N <= w[k] /\ Origin(P, d, k) <= N
    <3>1. w[k] = N /\ N \in Nat
      BY <1>1, <1>8, <2>3
    <3>2. From <= to
      BY <1>9, <1>10
    <3>. QED  BY <1>6, <2>3, <3>1, <3>2
  <2>6. IsPath(input, <<N, M>>, <<>> \o <<>>, <<N, M>>)
    <3>1. IsPath(input, <<N, M>>, <<>>, <<N, M>>)
      BY DEF IsPath
    <3>2. <<>> \o <<>> = <<>>
      OBVIOUS
    <3>. QED  BY <3>1, <3>2
  <2>7. d # 0
    <3>1. SUFFICES ASSUME d = 0 PROVE FALSE
      OBVIOUS
    <3>2. k = 0
      BY <1>2, <3>1, OnZero
    <3>3. From = 0
      BY <1>5, <1>6, <3>1, <3>2, OriginZero
    <3>4. N = M
      BY <1>1, <2>3, <3>2
    <3>5. \A i \in 0..(N - 1) : input.expected[i + 1] = input.got[i - 0 + 1]
      BY <1>11, <2>3, <3>2, <3>3
    <3>6. ASSUME NEW i \in 1..N PROVE expected[i] = got[i]
      <4>1. i - 1 \in 0..(N - 1) /\ (i - 1) + 1 = i /\ (i - 1) - 0 + 1 = i
        BY <1>1
      <4>2. input.expected[(i - 1) + 1] = input.got[(i - 1) - 0 + 1]
        BY <3>5, <4>1
      <4>. QED  BY <1>1, <4>1, <4>2
    <3>7. Same
      BY <3>4, <3>6 DEF Same
    <3>. QED  BY <1>0, <3>7, SameIsEqual DEF Searching
  <2>8. Tracing'
    <3>1. Len(paths) > d
      BY <1>1, <1>18
    <3>2. expected # got
      BY <1>0 DEF Searching
    <3>3. Followed(input, P, w, d, k) /\ k \in On(d)
      BY <1>2, <1>12
    <3>. HIDE DEF P
    <3>. QED
      BY <1>2, <1>17, <1>18, <1>19, <1>20, <2>1, <2>4, <2>5, <2>6, <2>7, <3>1, <3>2, <3>3
      DEF Tracing
  <2>. QED  BY <2>1, <2>2, <2>8 DEF IInv
<1>22. CASE ~Reached(to) /\ k < d
  <2>1. /\ path_lengths' = path_lengths /\ phase' = phase /\ x' = x /\ y' = y
        /\ d' = d /\ k' = k + 2 /\ phase = "search"
    <3>1. k # d
      BY <1>a, <1>3, <1>22
    <3>. QED  BY <1>7, <1>22, <3>1 DEF Extend, Search
  <2>2. k + 2 \in On(d) /\ k + 2 \in Diagonals
    <3>1. k + 2 \in On(d)
      BY <1>1, <1>3, <1>22
    <3>2. k + 2 \in Int /\ -d <= k + 2 /\ k + 2 <= d
      BY <1>a, <3>1, OnFacts
    <3>. QED  BY <1>b, <3>1, <3>2
  <2>3. TypeOK'
    BY <1>16, <1>17, <2>1, <2>2 DEF TypeOK
  <2>4. \A j \in On(d) : j < k + 2 => Explored(input, P, w, d, j)
    <3>1. SUFFICES ASSUME NEW j \in On(d), j < k + 2 PROVE Explored(input, P, w, d, j)
      OBVIOUS
    <3>2. j \in Int /\ j # k + 1
      BY <1>1, <1>3, OnFacts
    <3>3. CASE j < k
      BY <1>14, <3>3
    <3>4. CASE j = k
      BY <1>12, <1>13, <1>22, <3>4 DEF Explored
    <3>. QED  BY <1>3, <3>1, <3>2, <3>3, <3>4
  <2>5. \A j \in Diagonals : ~(j \in On(d) /\ j < k + 2) => w[j] = P[j]
    <3>1. SUFFICES ASSUME NEW j \in Diagonals, ~(j \in On(d) /\ j < k + 2)
                   PROVE  w[j] = P[j]
      OBVIOUS
    <3>2. j \in Int
      BY <1>1
    <3>3. j # k /\ ~(j \in On(d) /\ j < k)
      BY <1>2, <1>3, <3>1, <3>2
    <3>. QED  BY <1>15, <3>3
  <2>6. expected # got
    BY <1>0 DEF Searching
  <2>7. Searching'
    BY <1>2, <1>17, <2>1, <2>2, <2>4, <2>5, <2>6 DEF Searching
  <2>. QED  BY <2>1, <2>3, <2>7 DEF IInv
<1>23. CASE ~Reached(to) /\ k = d
  <2>1. \A j \in On(d) : Explored(input, P, w, d, j)
    <3>1. SUFFICES ASSUME NEW j \in On(d) PROVE Explored(input, P, w, d, j)
      OBVIOUS
    <3>2. j \in Int /\ j <= k
      BY <1>1, <1>23, OnFacts
    <3>3. CASE j = k
      BY <1>12, <1>13, <1>23, <3>3 DEF Explored
    <3>4. CASE j < k
      BY <1>14, <3>4
    <3>. QED  BY <1>3, <3>2, <3>3, <3>4
  <2>2. d # max_size
    <3>. HIDE DEF P
    <3>1. SUFFICES ASSUME d = max_size PROVE FALSE
      OBVIOUS
    <3>2. N + M = d
      BY <1>1, <3>1
    <3>3. \A j \in On(N + M) : Explored(input, P, w, N + M, j)
      BY <2>1, <3>2
    <3>4. N \in Nat /\ M \in Nat /\ Len(input.expected) = N /\ Len(input.got) = M
      BY <1>1
    <3>. QED  BY ONLY <3>3, <3>4, NeverGivesUp
  <2>3. /\ path_lengths' = paths /\ phase' = phase /\ phase = "search" /\ x' = x /\ y' = y
        /\ d' = d + 1 /\ k' = -(d + 1)
    <3>1. ~(k < d)
      BY <1>a, <1>3, <1>23
    <3>. QED  BY <1>7, <1>17, <1>23, <2>2, <3>1 DEF Extend, LastRound, Search, paths
  <2>4. d + 1 \in 0..max_size /\ -(d + 1) \in Diagonals /\ d + 1 \in Nat
    BY <1>a, <2>2 DEF Diagonals
  <2>5. TypeOK'
    BY <1>16, <1>17, <1>18, <2>3, <2>4 DEF TypeOK
  <2>6. Round(input, paths, d, Blank)
    <3>1. ASSUME NEW j \in DOMAIN Blank, j < -d \/ j > d PROVE w[j] = Blank[j]
      <4>1. j \in Diagonals /\ j \in Int
        BY <1>b DEF Blank
      <4>2. j \notin On(d) /\ j # k
        BY <1>1, <1>3, <3>1, <4>1, OnFacts
      <4>3. w[j] = P[j]
        BY <1>15, <4>1, <4>2
      <4>4. CASE d = 0
        BY <4>3, <4>4 DEF Before
      <4>5. CASE d # 0
        <5>1. Round(input, path_lengths, d - 1, Blank) /\ (d - 1) + 1 = d
          BY <1>1, <1>2, <4>5
        <5>2. j < -(d - 1) \/ j > d - 1
          BY <1>1, <3>1, <4>1
        <5>3. path_lengths[d][j] = Blank[j]
          BY <5>1, <5>2 DEF Round
        <5>. QED  BY <4>3, <4>5, <5>3 DEF Before
      <4>. QED  BY <4>4, <4>5
    <3>. HIDE DEF P
    <3>. QED  BY <1>18, <1>19, <2>1, <3>1 DEF Round
  <2>7. \A c \in 0..((d + 1) - 1) : Round(input, paths, c, Blank)
    <3>1. \A c \in 0..((d + 1) - 1) : c = d \/ c \in 0..(d - 1)
      BY <1>1
    <3>. QED  BY <1>20, <2>6, <3>1
  <2>8. \A j \in On(d + 1) : ~(j < -(d + 1))
    <3>1. SUFFICES ASSUME NEW j \in On(d + 1) PROVE ~(j < -(d + 1))
      OBVIOUS
    <3>2. j \in Int /\ -(d + 1) <= j
      BY <2>4, OnFacts
    <3>. QED  BY <2>4, <3>2
  <2>9. -(d + 1) \in On(d + 1)
    BY <2>4, OnEnds
  <2>10. Before(paths, d + 1, Blank) = w
    BY <1>1, <1>18 DEF Before
  <2>11. expected # got
    BY <1>0 DEF Searching
  <2>12. Searching'
    BY <1>2, <1>17, <1>18, <2>3, <2>7, <2>8, <2>9, <2>10, <2>11 DEF Searching
  <2>. QED  BY <2>3, <2>5, <2>12 DEF IInv
<1>. QED  BY <1>1, <1>3, <1>21, <1>22, <1>23

\* An edge in front of a path.
LEMMA PathCons ==
    ASSUME NEW in, NEW e, NEW s \in Seq(EdgeType), NEW b,
           e \in EdgeType, IsEdge(in, e), IsPath(in, <<e.x, e.y>>, s, b)
    PROVE  IsPath(in, Start(e), <<e>> \o s, b)
<1>. DEFINE t == <<e>> \o s
<1>1. /\ t \in Seq(EdgeType) /\ Len(t) = Len(s) + 1 /\ Len(s) \in Nat /\ t[1] = e
      /\ \A i \in 1..Len(s) : t[i + 1] = s[i]
  OBVIOUS
<1>2. t # <<>>
  BY <1>1
<1>. HIDE DEF t
<1>3. ASSUME NEW i \in 1..Len(t) PROVE IsEdge(in, t[i])
  <2>1. CASE i = 1
    BY <2>1, <1>1
  <2>2. CASE i # 1
    <3>1. i - 1 \in 1..Len(s) /\ (i - 1) + 1 = i
      BY <2>2, <1>1
    <3>2. t[i] = s[i - 1]
      BY <3>1, <1>1
    <3>. QED  BY <3>1, <3>2 DEF IsPath
  <2>. QED  BY <2>1, <2>2
<1>4. Start(t[1]) = Start(e)
  BY <1>1
<1>5. CASE s = <<>>
  <2>1. Len(t) = 1 /\ 2..Len(t) = {}
    BY <1>1, <1>5
  <2>2. <<e.x, e.y>> = b
    BY <1>5 DEF IsPath
  <2>. QED  BY <1>1, <1>2, <1>3, <1>4, <2>1, <2>2 DEF IsPath, t
<1>6. CASE s # <<>>
  <2>1. Len(s) >= 1
    BY <1>6
  <2>2. ASSUME NEW i \in 2..Len(t) PROVE Start(t[i]) = <<t[i - 1].x, t[i - 1].y>>
    <3>1. CASE i = 2
      <4>1. t[2] = s[1]
        <5>1. 1 \in 1..Len(s) /\ 1 + 1 = 2
          BY <1>1, <2>1
        <5>. QED  BY <5>1, <1>1
      <4>2. Start(s[1]) = <<e.x, e.y>>
        BY <1>6 DEF IsPath
      <4>3. i - 1 = 1
        BY <3>1
      <4>. QED  BY <3>1, <4>1, <4>2, <4>3, <1>1
    <3>2. CASE i # 2
      <4>1. i - 1 \in 2..Len(s) /\ (i - 1) - 1 \in 1..Len(s) /\ i - 1 \in 1..Len(s)
            /\ (i - 1) + 1 = i /\ ((i - 1) - 1) + 1 = i - 1
        BY <3>2, <1>1
      <4>2. t[i] = s[i - 1] /\ t[i - 1] = s[(i - 1) - 1]
        BY <4>1, <1>1
      <4>3. Start(s[i - 1]) = <<s[(i - 1) - 1].x, s[(i - 1) - 1].y>>
        BY <4>1, <1>6 DEF IsPath
      <4>. QED  BY <4>2, <4>3
    <3>. QED  BY <3>1, <3>2
  <2>3. t[Len(t)] = s[Len(s)]
    <3>1. Len(s) \in 1..Len(s) /\ Len(s) + 1 = Len(t)
      BY <2>1, <1>1
    <3>. QED  BY <3>1, <1>1
  <2>4. <<s[Len(s)].x, s[Len(s)].y>> = b
    BY <1>6 DEF IsPath
  <2>. QED  BY <1>2, <1>3, <1>4, <2>2, <2>3, <2>4 DEF IsPath, t
<1>. QED  BY <1>5, <1>6

\* What the neighbours tell the way back.  Where a neighbour is not one of the round
\* before, it is Unset or not in the vector, and is not mistaken for one if anything is
\* expected.
LEMMA Neighbours ==
    ASSUME IInv, phase = "trace", d # 0
    PROVE  /\ FromLeft /\ x > 0 => Diagonal # -d /\ wdprev[Diagonal - 1] = x - 1
           /\ FromLeft /\ x = 0 => N = 0
           /\ NotFromLeft /\ FromAbove => Diagonal # d /\ wdprev[Diagonal + 1] = x
           /\ NotFromLeft /\ NotFromAbove => x # Origin(wdprev, d, Diagonal)
<1>. TypeOK
  BY DEF IInv
<1>1. Tracing
  BY DEF IInv
<1>. DEFINE j == Diagonal
<1>2. /\ N \in Nat /\ M \in Nat /\ max_size = N + M /\ max_size \in Nat
      /\ N + M < Unset /\ Unset \in Nat
      /\ Diagonals = (-max_size)..max_size /\ d \in Nat /\ d <= max_size
      /\ x \in Nat /\ x <= N /\ y \in Nat /\ y <= M
  BY InputFacts, TypeFacts
<1>3. j = x - y /\ j \in Int
  BY <1>2 DEF Diagonal
<1>4. j \in On(d) /\ Before(path_lengths, d, Blank) = wdprev
  BY <1>1 DEF Tracing, Before, wdprev
<1>5. /\ -d <= j /\ j <= d
      /\ j # -d => j - 1 \in On(d - 1)
      /\ j # d => j + 1 \in On(d - 1)
  BY <1>2, <1>4, OnFacts
<1>6. Round(input, path_lengths, d - 1, Blank) /\ (d - 1) + 1 = d
  <2>1. d - 1 \in 0..(d - 1) /\ (d - 1) + 1 = d
    BY <1>2
  <2>. QED  BY <1>1, <2>1 DEF Tracing
<1>7. \A i \in Diagonals : i < -(d - 1) \/ i > d - 1 => wdprev[i] = Blank[i]
  BY <1>6 DEF Round, wdprev, Blank
<1>8. Followed(input, wdprev, path_lengths[d + 1], d, j) /\ Origin(wdprev, d, j) <= x
  BY <1>1, <1>4 DEF Tracing
<1>. HIDE DEF j
<1>9. j # -d => wdprev[j - 1] \in Nat /\ Values(j - 1) = {wdprev[j - 1]}
  <2>1. j # -d => j - 1 \in Diagonals
    BY <1>2, <1>3, <1>5
  <2>. QED  BY <1>8, <2>1 DEF Followed, Values
<1>10. j # d => wdprev[j + 1] \in Nat /\ Values(j + 1) = {wdprev[j + 1]}
  <2>1. j # d => j + 1 \in Diagonals
    BY <1>2, <1>3, <1>5
  <2>. QED  BY <1>8, <2>1 DEF Followed, Values
<1>11. ASSUME FromLeft
       PROVE  /\ x > 0 => j # -d /\ wdprev[j - 1] = x - 1
              /\ x = 0 => N = 0
  <2>1. PICK left \in Values(j - 1) : x = left + 1
    BY <1>11 DEF FromLeft, j
  <2>2. ASSUME j = -d PROVE x = 0 /\ N = 0
    <3>1. CASE j - 1 \in Diagonals
      <4>1. left = wdprev[j - 1]
        BY <2>1, <3>1 DEF Values
      <4>2. j - 1 < -(d - 1) /\ j - 1 # 1
        BY <1>2, <1>3, <2>2
      <4>3. left = Unset
        BY <1>7, <3>1, <4>1, <4>2 DEF Blank
      <4>. QED  BY <1>2, <2>1, <4>3
    <3>2. CASE j - 1 \notin Diagonals
      <4>2. ~(j - 1 >= -max_size)
        BY <1>2, <1>3, <1>5, <3>2
      <4>3. j <= -max_size
        BY <1>2, <1>3, <4>2
      <4>. QED  BY <1>2, <1>3, <4>3
    <3>. QED  BY <3>1, <3>2
  <2>3. j # -d => left = wdprev[j - 1] /\ left \in Nat
    BY <1>9, <2>1
  <2>4. j # -d => x = wdprev[j - 1] + 1 /\ wdprev[j - 1] \in Nat
    BY <2>1, <2>3
  <2>. QED  BY <1>2, <2>2, <2>4
<1>12. ASSUME NotFromLeft PROVE j = -d \/ wdprev[j - 1] + 1 # x
  BY <1>9, <1>12 DEF NotFromLeft, j
<1>13. ASSUME NotFromLeft, FromAbove PROVE j # d /\ wdprev[j + 1] = x
  <2>1. PICK above \in Values(j + 1) : x = above
    BY <1>13 DEF FromAbove, j
  <2>2. ASSUME j = d PROVE FALSE
    <3>1. CASE j + 1 \in Diagonals
      <4>1. above = wdprev[j + 1]
        BY <2>1, <3>1 DEF Values
      <4>2. j + 1 > d - 1 /\ j + 1 # 1
        BY <1>2, <1>3, <2>2
      <4>3. above = Unset
        BY <1>7, <3>1, <4>1, <4>2 DEF Blank
      <4>. QED  BY <1>2, <2>1, <4>3
    <3>2. CASE j + 1 \notin Diagonals
      <4>1. ~(j + 1 <= max_size)
        BY <1>2, <1>3, <1>5, <3>2
      <4>2. j >= max_size
        BY <1>2, <1>3, <4>1
      <4>3. x = j
        BY <1>2, <1>3, <4>2
      <4>4. j # -d
        BY <1>2, <2>2
      <4>5. Origin(wdprev, d, j) = wdprev[j - 1] + 1
        BY <2>2, <4>4 DEF Origin
      <4>6. Origin(wdprev, d, j) \in Nat /\ Origin(wdprev, d, j) >= j
        BY <1>8 DEF Followed
      <4>7. Origin(wdprev, d, j) = x
        BY <1>2, <1>3, <1>8, <4>3, <4>6
      <4>. QED  BY <1>12, <1>13, <4>4, <4>5, <4>7
    <3>. QED  BY <3>1, <3>2
  <2>. QED  BY <1>10, <2>1, <2>2
<1>14. ASSUME NotFromLeft, NotFromAbove PROVE x # Origin(wdprev, d, j)
  <2>1. j = d \/ wdprev[j + 1] # x
    BY <1>10, <1>14 DEF NotFromAbove, j
  <2>2. j = d => j # -d
    BY <1>2
  <2>3. j # -d => wdprev[j - 1] + 1 # x
    BY <1>12, <1>14
  <2>. QED  BY <2>1, <2>2, <2>3 DEF Origin
<1>. QED  BY <1>11, <1>13, <1>14 DEF j

\* What the way back knows of the round before, from which it goes on.
LEMMA RoundBefore ==
    ASSUME TypeOK, Tracing, d # 0, NEW j \in On(d - 1)
    PROVE  /\ Followed(input, Before(path_lengths, d - 1, Blank), wdprev, d - 1, j)
           /\ wdprev = path_lengths[(d - 1) + 1]
           /\ wdprev[j] \in Nat /\ wdprev[j] >= j
           /\ Origin(Before(path_lengths, d - 1, Blank), d - 1, j) <= wdprev[j]
           /\ Len(path_lengths) > d - 1
           /\ \A c \in 0..((d - 1) - 1) : Round(input, path_lengths, c, Blank)
<1>1. d \in Nat /\ d - 1 \in Nat /\ d - 1 \in 0..(d - 1) /\ (d - 1) + 1 = d
      /\ path_lengths \in Seq([Diagonals -> Nat])
  <2>1. d \in Nat
    BY InputFacts
  <2>2. d - 1 \in Nat /\ d - 1 \in 0..(d - 1) /\ (d - 1) + 1 = d
    BY <2>1
  <2>. QED  BY <2>1, <2>2, TypeFacts
<1>2. j \in Int
  BY <1>1, OnFacts
<1>3. Round(input, path_lengths, d - 1, Blank)
  BY <1>1 DEF Tracing
<1>4. wdprev = path_lengths[(d - 1) + 1]
  BY <1>1 DEF wdprev
<1>5. Followed(input, Before(path_lengths, d - 1, Blank), wdprev, d - 1, j)
  BY <1>3, <1>4 DEF Round, Explored
<1>. DEFINE o == Origin(Before(path_lengths, d - 1, Blank), d - 1, j)
<1>6. wdprev[j] \in Nat /\ o \in Nat /\ o >= j /\ wdprev[j] >= o
  BY <1>5 DEF Followed
<1>. HIDE DEF o
<1>7. wdprev[j] >= j
  BY <1>2, <1>6
<1>8. Len(path_lengths) \in Nat /\ Len(path_lengths) > d
  <2>1. Len(path_lengths) > d
    BY DEF Tracing
  <2>2. Len(path_lengths) \in Nat
    BY <1>1
  <2>. QED  BY <2>1, <2>2
<1>9. Len(path_lengths) > d - 1
  BY <1>1, <1>8
<1>10. \A c \in 0..((d - 1) - 1) : c \in 0..(d - 1)
  BY <1>1
<1>11. \A c \in 0..((d - 1) - 1) : Round(input, path_lengths, c, Blank)
  BY <1>10 DEF Tracing
<1>12. o <= wdprev[j]
  BY <1>6
<1>. QED  BY <1>4, <1>5, <1>6, <1>7, <1>9, <1>11, <1>12 DEF o

\* An edge of the graph that ends in <<x, y>> goes in front of what is found.
LEMMA EdgeInFront ==
    ASSUME TypeOK, Tracing, NEW e \in EdgeType, e.x = x, e.y = y, IsEdge(input, e)
    PROVE  /\ IsPath(input, Start(e), <<e>> \o (lines \o printed), <<N, M>>)
           /\ <<e>> \o lines \o printed = <<e>> \o (lines \o printed)
           /\ <<e>> \o lines \in Seq(EdgeType)
           /\ <<e>> \o lines \o printed \in Seq(EdgeType)
           /\ <<>> \o (<<e>> \o lines \o printed) = <<e>> \o lines \o printed
           /\ <<e>> \o lines \o printed # <<>>
           /\ (<<e>> \o lines \o printed)[1] = e
<1>1. lines \in Seq(EdgeType) /\ printed \in Seq(EdgeType) /\ <<e>> \in Seq(EdgeType)
  BY TypeFacts
<1>2. lines \o printed \in Seq(EdgeType) /\ <<e>> \o lines \in Seq(EdgeType)
  BY <1>1, ConcatProperties
<1>3. <<e>> \o lines \o printed = <<e>> \o (lines \o printed)
  BY <1>1, ConcatAssociative
<1>4. IsPath(input, <<x, y>>, lines \o printed, <<N, M>>)
  BY DEF Tracing
<1>5. IsPath(input, Start(e), <<e>> \o (lines \o printed), <<N, M>>)
  BY <1>2, <1>4, PathCons
<1>. DEFINE rest == lines \o printed
<1>6. <<e>> \o rest \in Seq(EdgeType) /\ <<e>> \o rest # <<>> /\ (<<e>> \o rest)[1] = e
  <2>1. rest \in Seq(EdgeType)
    BY <1>2
  <2>. HIDE DEF rest
  <2>. QED  BY <2>1
<1>7. <<>> \o (<<e>> \o rest) = <<e>> \o rest
  BY <1>6, ConcatEmptySeq
<1>. QED  BY <1>2, <1>3, <1>5, <1>6, <1>7

LEMMA RightStep ==
    ASSUME IInv, StepRight
    PROVE  IInv'
<1>. TypeOK
  BY DEF IInv
<1>1. Tracing /\ phase = "trace" /\ d # 0
  BY InputFacts DEF IInv, StepRight
<1>. DEFINE e == Edge("-")
            j == Diagonal - 1
<1>2. /\ input' = input /\ phase' = phase /\ k' = k /\ v' = v
      /\ path_lengths' = path_lengths /\ y' = y /\ x' = x - 1 /\ d' = d - 1
      /\ lines' = <<>> /\ printed' = <<e>> \o lines \o printed
  BY DEF StepRight, Difference
<1>3. /\ expected' = expected /\ got' = got /\ N' = N /\ M' = M
      /\ max_size' = max_size /\ Diagonals' = Diagonals /\ Blank' = Blank
  BY <1>2, Frame
<1>4. /\ N \in Nat /\ M \in Nat /\ N = Len(input.expected) /\ M = Len(input.got)
      /\ max_size \in Nat /\ d \in Nat /\ d <= max_size
      /\ x \in Nat /\ x <= N /\ y \in Nat /\ y <= M
  BY InputFacts, TypeFacts
<1>5. Diagonal # -d /\ wdprev[j] = x - 1
  BY <1>1, Neighbours DEF StepRight
<1>6. Diagonal \in Int /\ j \in On(d - 1)
  <2>1. Diagonal \in On(d)
    BY <1>1 DEF Tracing
  <2>. QED  BY <1>4, <1>5, <2>1, OnFacts
<1>7. x - 1 \in Nat
  BY <1>1, <1>5, <1>6, RoundBefore
<1>8. Diagonal' = j
  <2>1. Diagonal' = (x - 1) - y
    BY <1>2 DEF Diagonal
  <2>2. j = (x - 1) - y
    BY <1>4 DEF Diagonal
  <2>. QED  BY <2>1, <2>2
<1>9. e \in EdgeType /\ e.x = x /\ e.y = y /\ e.op = "-" /\ Start(e) = <<x - 1, y>>
  BY <1>4 DEF Edge, EdgeType, Start
<1>. HIDE DEF e, j
<1>10. IsEdge(input, e)
  <2>1. x \in 0..N /\ y \in 0..M /\ x - 1 \in 0..N
    BY <1>4, <1>7
  <2>. QED  BY <1>4, <1>9, <2>1 DEF IsEdge
<1>11. /\ IsPath(input, <<x - 1, y>>, <<e>> \o lines \o printed, <<N, M>>)
       /\ <<e>> \o lines \o printed \in Seq(EdgeType)
       /\ <<>> \o (<<e>> \o lines \o printed) = <<e>> \o lines \o printed
       /\ <<e>> \o lines \o printed # <<>>
       /\ (<<e>> \o lines \o printed)[1].op # " "
  BY <1>1, <1>9, <1>10, EdgeInFront
<1>12. TypeOK'
  <2>1. d - 1 \in 0..max_size /\ x - 1 \in 0..N
    BY <1>1, <1>4, <1>7
  <2>2. /\ input' \in Inputs /\ k' \in Diagonals' /\ v' \in [Diagonals' -> Nat]
        /\ path_lengths' \in Seq([Diagonals' -> Nat])
        /\ x' \in 0..N' /\ y' \in 0..M' /\ d' \in 0..max_size'
    BY <1>2, <1>3, <2>1 DEF TypeOK
  <2>3. lines' \in Seq(EdgeType) /\ printed' \in Seq(EdgeType)
    <3>1. <<>> \in Seq(EdgeType)
      OBVIOUS
    <3>2. <<e>> \o lines \o printed \in Seq(EdgeType)
      BY <1>11
    <3>. QED  BY ONLY <1>2, <3>1, <3>2, Zenon
  <2>. QED  BY <1>1, <1>2, <2>2, <2>3 DEF TypeOK
<1>13. Tracing'
  <2>1. /\ Followed(input, Before(path_lengths, d - 1, Blank), path_lengths[(d - 1) + 1], d - 1, j)
        /\ path_lengths[(d - 1) + 1][j] = x - 1 /\ x - 1 <= x - 1
        /\ Origin(Before(path_lengths, d - 1, Blank), d - 1, j) <= x - 1
        /\ Len(path_lengths) > d - 1
        /\ \A c \in 0..((d - 1) - 1) : Round(input, path_lengths, c, Blank)
    BY <1>1, <1>5, <1>6, <1>7, RoundBefore
  <2>2. expected # got
    BY <1>1 DEF Tracing
  <2>. QED  BY <1>2, <1>3, <1>6, <1>8, <1>11, <2>1, <2>2 DEF Tracing
<1>. QED  BY <1>1, <1>2, <1>12, <1>13 DEF IInv

LEMMA DownStep ==
    ASSUME IInv, StepDown
    PROVE  IInv'
<1>. TypeOK
  BY DEF IInv
<1>1. Tracing /\ phase = "trace" /\ d # 0
  BY InputFacts DEF IInv, StepDown
<1>. DEFINE e == Edge("+")
            j == Diagonal + 1
<1>2. /\ input' = input /\ phase' = phase /\ k' = k /\ v' = v
      /\ path_lengths' = path_lengths /\ x' = x /\ y' = y - 1 /\ d' = d - 1
      /\ lines' = <<>> /\ printed' = <<e>> \o lines \o printed
  BY DEF StepDown, Difference
<1>3. /\ expected' = expected /\ got' = got /\ N' = N /\ M' = M
      /\ max_size' = max_size /\ Diagonals' = Diagonals /\ Blank' = Blank
  BY <1>2, Frame
<1>4. /\ N \in Nat /\ M \in Nat /\ N = Len(input.expected) /\ M = Len(input.got)
      /\ max_size \in Nat /\ d \in Nat /\ d <= max_size
      /\ x \in Nat /\ x <= N /\ y \in Nat /\ y <= M
  BY InputFacts, TypeFacts
<1>5. Diagonal # d /\ wdprev[j] = x
  BY <1>1, Neighbours DEF StepDown
<1>6. Diagonal \in Int /\ j \in On(d - 1)
  <2>1. Diagonal \in On(d)
    BY <1>1 DEF Tracing
  <2>. QED  BY <1>4, <1>5, <2>1, OnFacts
<1>7. y - 1 \in Nat
  <2>1. wdprev[j] >= j
    BY <1>1, <1>6, RoundBefore
  <2>2. x >= x - y + 1
    BY <1>5, <2>1 DEF Diagonal
  <2>. QED  BY <1>4, <2>2
<1>8. Diagonal' = j
  <2>1. Diagonal' = x - (y - 1)
    BY <1>2 DEF Diagonal
  <2>2. j = x - (y - 1)
    BY <1>4 DEF Diagonal
  <2>. QED  BY <2>1, <2>2
<1>9. e \in EdgeType /\ e.x = x /\ e.y = y /\ e.op = "+" /\ Start(e) = <<x, y - 1>>
  BY <1>4 DEF Edge, EdgeType, Start
<1>. HIDE DEF e, j
<1>10. IsEdge(input, e)
  <2>1. x \in 0..N /\ y \in 0..M /\ y - 1 \in 0..M
    BY <1>4, <1>7
  <2>. QED  BY <1>4, <1>9, <2>1 DEF IsEdge
<1>11. /\ IsPath(input, <<x, y - 1>>, <<e>> \o lines \o printed, <<N, M>>)
       /\ <<e>> \o lines \o printed \in Seq(EdgeType)
       /\ <<>> \o (<<e>> \o lines \o printed) = <<e>> \o lines \o printed
       /\ <<e>> \o lines \o printed # <<>>
       /\ (<<e>> \o lines \o printed)[1].op # " "
  BY <1>1, <1>9, <1>10, EdgeInFront
<1>12. TypeOK'
  <2>1. d - 1 \in 0..max_size /\ y - 1 \in 0..M
    BY <1>1, <1>4, <1>7
  <2>2. /\ input' \in Inputs /\ k' \in Diagonals' /\ v' \in [Diagonals' -> Nat]
        /\ path_lengths' \in Seq([Diagonals' -> Nat])
        /\ x' \in 0..N' /\ y' \in 0..M' /\ d' \in 0..max_size'
    BY <1>2, <1>3, <2>1 DEF TypeOK
  <2>3. lines' \in Seq(EdgeType) /\ printed' \in Seq(EdgeType)
    <3>1. <<>> \in Seq(EdgeType)
      OBVIOUS
    <3>2. <<e>> \o lines \o printed \in Seq(EdgeType)
      BY <1>11
    <3>. QED  BY ONLY <1>2, <3>1, <3>2, Zenon
  <2>. QED  BY <1>1, <1>2, <2>2, <2>3 DEF TypeOK
<1>13. Tracing'
  <2>1. /\ Followed(input, Before(path_lengths, d - 1, Blank), path_lengths[(d - 1) + 1], d - 1, j)
        /\ path_lengths[(d - 1) + 1][j] = x /\ x <= x
        /\ Origin(Before(path_lengths, d - 1, Blank), d - 1, j) <= x
        /\ Len(path_lengths) > d - 1
        /\ \A c \in 0..((d - 1) - 1) : Round(input, path_lengths, c, Blank)
    BY <1>1, <1>4, <1>5, <1>6, RoundBefore
  <2>2. expected # got
    BY <1>1 DEF Tracing
  <2>. QED  BY <1>2, <1>3, <1>6, <1>8, <1>11, <2>1, <2>2 DEF Tracing
<1>. QED  BY <1>1, <1>2, <1>12, <1>13 DEF IInv

LEMMA UpStep ==
    ASSUME IInv, UpDiagonal
    PROVE  IInv'
<1>. TypeOK
  BY DEF IInv
<1>1. Tracing /\ phase = "trace" /\ d # 0 /\ NotFromLeft /\ NotFromAbove
  <2>1. d # 0
    <3>1. d \in Nat /\ d > 0
      BY InputFacts DEF UpDiagonal
    <3>. QED  BY <3>1
  <2>. QED  BY <2>1 DEF IInv, UpDiagonal
<1>. DEFINE e == Edge(" ")
            o == Origin(wdprev, d, Diagonal)
            q == path_lengths[d + 1]
<1>2. /\ N \in Nat /\ M \in Nat /\ N = Len(input.expected) /\ M = Len(input.got)
      /\ expected = input.expected /\ got = input.got
      /\ max_size \in Nat /\ d \in Nat /\ d <= max_size
      /\ x \in Nat /\ x <= N /\ y \in Nat /\ y <= M
  BY InputFacts, TypeFacts
<1>3. Diagonal = x - y /\ Diagonal \in Int
  BY <1>2 DEF Diagonal
<1>4. Before(path_lengths, d, Blank) = wdprev
  BY <1>1 DEF Before, wdprev
<1>5. /\ Followed(input, wdprev, q, d, Diagonal) /\ o <= x /\ x <= q[Diagonal]
      /\ o \in Nat /\ o >= Diagonal /\ q[Diagonal] \in Nat
      /\ \A i \in o..(q[Diagonal] - 1) :
            input.expected[i + 1] = input.got[i - Diagonal + 1]
  BY <1>1, <1>4 DEF Tracing, Followed
<1>6. x # o
  BY <1>1, Neighbours
<1>. HIDE DEF o, q
<1>7. o <= x - 1 /\ x - 1 <= q[Diagonal] /\ x - 1 \in o..(q[Diagonal] - 1)
  BY <1>2, <1>5, <1>6
<1>8. x - 1 \in Nat /\ y - 1 \in Nat
  BY <1>2, <1>3, <1>5, <1>7
<1>9. expected[x] = got[y]
  <2>1. input.expected[(x - 1) + 1] = input.got[(x - 1) - Diagonal + 1]
    BY <1>5, <1>7
  <2>2. (x - 1) + 1 = x /\ (x - 1) - Diagonal + 1 = y
    BY <1>2, <1>3
  <2>. QED  BY <1>2, <2>1, <2>2
<1>10. Equal
  <2>1. x > 0 /\ y > 0
    BY <1>2, <1>8
  <2>. QED  BY <1>9, <2>1 DEF Equal
<1>11. /\ input' = input /\ phase' = phase /\ k' = k /\ v' = v
       /\ path_lengths' = path_lengths /\ x' = x - 1 /\ y' = y - 1 /\ d' = d
       /\ lines' = <<e>> \o lines /\ printed' = printed
  BY <1>10 DEF UpDiagonal, searchVars
<1>12. /\ expected' = expected /\ got' = got /\ N' = N /\ M' = M
       /\ max_size' = max_size /\ Diagonals' = Diagonals /\ Blank' = Blank
  BY <1>11, Frame
<1>13. Diagonal' = Diagonal
  <2>1. Diagonal' = (x - 1) - (y - 1)
    BY <1>11 DEF Diagonal
  <2>. QED  BY <1>2, <1>3, <2>1
<1>14. e \in EdgeType /\ e.x = x /\ e.y = y /\ e.op = " " /\ Start(e) = <<x - 1, y - 1>>
  BY <1>2 DEF Edge, EdgeType, Start
<1>. HIDE DEF e
<1>15. IsEdge(input, e)
  <2>1. x \in 0..N /\ y \in 0..M /\ x - 1 \in 0..N /\ y - 1 \in 0..M
    BY <1>2, <1>8
  <2>2. <<x - 1, y - 1>> \in (0..N) \X (0..M)
    BY <2>1
  <2>. QED  BY <1>2, <1>9, <1>14, <2>1, <2>2 DEF IsEdge
<1>16. /\ IsPath(input, <<x - 1, y - 1>>, (<<e>> \o lines) \o printed, <<N, M>>)
       /\ <<e>> \o lines \in Seq(EdgeType)
  BY <1>1, <1>14, <1>15, EdgeInFront
<1>17. TypeOK'
  <2>1. x - 1 \in 0..N /\ y - 1 \in 0..M
    BY <1>2, <1>8
  <2>. QED  BY <1>11, <1>12, <1>16, <2>1 DEF TypeOK
<1>18. Tracing'
  <2>1. /\ expected # got /\ Len(path_lengths) > d /\ Diagonal \in On(d)
        /\ \A c \in 0..(d - 1) : Round(input, path_lengths, c, Blank)
        /\ printed # <<>> => printed[1].op # " "
    BY <1>1 DEF Tracing
  <2>2. Origin(Before(path_lengths, d, Blank), d, Diagonal) <= x - 1
    BY <1>4, <1>7 DEF o
  <2>3. x - 1 <= path_lengths[d + 1][Diagonal]
    BY <1>7 DEF q
  <2>4. Followed(input, Before(path_lengths, d, Blank), path_lengths[d + 1], d, Diagonal)
    BY <1>4, <1>5 DEF q
  <2>. QED  BY <1>1, <1>11, <1>12, <1>13, <1>16, <2>1, <2>2, <2>3, <2>4 DEF Tracing
<1>. QED  BY <1>1, <1>11, <1>17, <1>18 DEF IInv

LEMMA OverrunStep ==
    ASSUME IInv, LineBeforeFirst
    PROVE  IInv'
<1>. TypeOK
  BY DEF IInv
<1>1. Tracing /\ phase = "trace" /\ d # 0 /\ FromLeft /\ x = 0
  BY InputFacts DEF IInv, LineBeforeFirst
<1>2. /\ input' = input /\ phase' = "undefined" /\ d' = d /\ k' = k /\ v' = v
      /\ path_lengths' = path_lengths /\ x' = x /\ y' = y
      /\ lines' = lines /\ printed' = printed
  BY DEF LineBeforeFirst, searchVars, traceVars
<1>3. /\ expected' = expected /\ got' = got /\ N' = N /\ M' = M
      /\ max_size' = max_size /\ Diagonals' = Diagonals /\ Blank' = Blank
  BY <1>2, Frame
<1>4. expected # got /\ expected = <<>>
  <2>1. N = 0
    BY <1>1, Neighbours
  <2>2. expected \in Seq(Line)
    BY InputFacts
  <2>3. Len(expected) = 0
    BY <2>1 DEF N
  <2>4. expected = <<>>
    <3>. HIDE DEF expected
    <3>. QED  BY <2>2, <2>3, EmptySeq
  <2>5. expected # got
    BY <1>1 DEF Tracing
  <2>. QED  BY <2>4, <2>5, Zenon
<1>5. TypeOK'
  BY <1>2, <1>3 DEF TypeOK
<1>. QED  BY <1>2, <1>3, <1>4, <1>5 DEF IInv

LEMMA Stutters ==
    ASSUME IInv, UNCHANGED vars
    PROVE  IInv'
<1>1. /\ input' = input /\ phase' = phase /\ d' = d /\ k' = k /\ v' = v
      /\ path_lengths' = path_lengths /\ x' = x /\ y' = y
      /\ lines' = lines /\ printed' = printed
  BY DEF vars
<1>2. /\ expected' = expected /\ got' = got /\ N' = N /\ M' = M
      /\ max_size' = max_size /\ Diagonals' = Diagonals /\ Blank' = Blank
  BY <1>1, Frame
<1>3. Diagonal' = Diagonal
  BY <1>1 DEF Diagonal
<1>4. TypeOK <=> TypeOK'
  BY <1>1, <1>2 DEF TypeOK
<1>5. Fresh <=> Fresh'
  BY <1>1, <1>2 DEF Fresh
<1>6. Searching <=> Searching'
  BY <1>1, <1>2 DEF Searching
<1>7. Tracing <=> Tracing'
  BY <1>1, <1>2, <1>3 DEF Tracing
<1>8. Traced <=> Traced'
  BY <1>1, <1>2 DEF Traced
<1>. QED  BY <1>1, <1>2, <1>4, <1>5, <1>6, <1>7, <1>8 DEF IInv

THEOREM Inductive == Spec => []IInv
<1>1. Init => IInv
  BY Initially
<1>2. ASSUME IInv, [Next]_vars PROVE IInv'
  <2>1. CASE Compare
    BY <1>2, <2>1, CompareStep
  <2>2. CASE Search
    BY <1>2, <2>2, SearchStep
  <2>3. CASE Printed
    BY <1>2, <2>3, PrintedStep
  <2>4. CASE StepRight
    BY <1>2, <2>4, RightStep
  <2>8. CASE LineBeforeFirst
    BY <1>2, <2>8, OverrunStep
  <2>5. CASE StepDown
    BY <1>2, <2>5, DownStep
  <2>6. CASE UpDiagonal
    BY <1>2, <2>6, UpStep
  <2>7. CASE UNCHANGED vars
    BY <1>2, <2>7, Stutters
  <2>. QED  BY <1>2, <2>1, <2>2, <2>3, <2>4, <2>5, <2>6, <2>7, <2>8
           DEF Next, Step
<1>. QED  BY <1>1, <1>2, PTL DEF Spec

-----------------------------------------------------------------------------
(* The theorems *)

\* Type correctness; the way back stays within the graph, whatever is in front of the
\* vector: what it would do outside is not done in the model (NeverLost says when).
THEOREM TypeCorrect == Spec => []TypeOK
<1>1. IInv => TypeOK
  BY DEF IInv
<1>. QED  BY <1>1, Inductive, PTL

\* max_size = M + N is enough, and the way back never loses its track; only if nothing is
\* expected can what is in front of the vector lead it out of the graph.
THEOREM NeverLost == Spec => []AlwaysFound
<1>1. IInv => AlwaysFound
  BY DEF IInv, AlwaysFound
<1>. QED  BY <1>1, Inductive, PTL

\* Whatever is printed leads from the lines expected to the lines got.
THEOREM DiffIsCorrect == Spec => []DiffCorrect
<1>1. IInv => DiffCorrect
  <2>1. SUFFICES ASSUME IInv, phase = "printed"
                 PROVE  /\ x = y /\ \A i \in 1..x : expected[i] = got[i]
                        /\ printed # <<>> /\ printed[1].op # " "
                        /\ Path(<<x, y>>, printed, <<N, M>>)
    BY DEF DiffCorrect
  <2>2. Traced
    BY <2>1 DEF IInv
  <2>3. Path(<<x, y>>, printed, <<N, M>>)
    BY <2>2 DEF Traced, IsPath, IsEdge, Path, InGraph, N, M, expected, got
  <2>. QED  BY <2>2, <2>3 DEF Traced
<1>. QED  BY <1>1, Inductive, PTL

\* The verdict is that of the comparison line by line, verbose or not.
THEOREM VerdictIsSame == Spec => []VerdictSame
<1>1. IInv => VerdictSame
  BY DEF IInv, VerdictSame, Ended, Traced
<1>. QED  BY <1>1, Inductive, PTL

-----------------------------------------------------------------------------
(* The lengths of shortest paths *)

Nodes(in) == (0..Len(in.expected)) \X (0..Len(in.got))

\* length[<<a, b>>] is less by one at its neighbours to the left and above, the same one
\* up a free edge, or larger there: and one of them leads to it.
Shortest(in, length) ==
    /\ length \in [Nodes(in) -> Nat]
    /\ length[<<0, 0>>] = 0
    /\ \A node \in Nodes(in) : LET a == node[1]
                                   b == node[2]
                                   match == in.expected[a] = in.got[b] IN
          /\ a > 0 => length[node] <= length[<<a - 1, b>>] + 1
          /\ b > 0 => length[node] <= length[<<a, b - 1>>] + 1
          /\ a > 0 /\ b > 0 /\ match => length[node] <= length[<<a - 1, b - 1>>]
          /\ \/ a = 0 /\ b = 0
             \/ a > 0 /\ length[node] = length[<<a - 1, b>>] + 1
             \/ b > 0 /\ length[node] = length[<<a, b - 1>>] + 1
             \/ a > 0 /\ b > 0 /\ match /\ length[node] = length[<<a - 1, b - 1>>]

LEMMA DistanceIsShortest ==
    ASSUME TypeOK
    PROVE  \E length : /\ Shortest(input, length)
                       /\ Distance = length[<<N, M>>]
<1>. DEFINE S == Nodes(input)
            Least(W) == CHOOSE a \in W : \A b \in W : a <= b
            right(f, n) == IF n[1] > 0 THEN {f[<<n[1] - 1, n[2]>>] + 1} ELSE {}
            down(f, n) == IF n[2] > 0 THEN {f[<<n[1], n[2] - 1>>] + 1} ELSE {}
            free(f, n) == IF n[1] > 0 /\ n[2] > 0 /\ expected[n[1]] = got[n[2]]
                          THEN {f[<<n[1] - 1, n[2] - 1>>]} ELSE {}
            ways(f, n) == right(f, n) \cup down(f, n) \cup free(f, n)
            E(f, n) == IF n[1] = 0 /\ n[2] = 0 THEN 0 ELSE Least(ways(f, n))
            rank == [n \in S |-> n[1] + n[2]]
            D == [n \in S |-> [f \in [S -> Nat] |-> E(f, n)]]
<1>1. /\ N \in Nat /\ M \in Nat /\ N = Len(input.expected) /\ M = Len(input.got)
      /\ expected = input.expected /\ got = input.got
      /\ S = (0..N) \X (0..M)
  BY InputFacts DEF Nodes
<1>2. \A n \in S : /\ n[1] \in Nat /\ n[1] <= N /\ n[2] \in Nat /\ n[2] <= M
                   /\ n = <<n[1], n[2]>>
                   /\ n[1] > 0 => <<n[1] - 1, n[2]>> \in S
                   /\ n[2] > 0 => <<n[1], n[2] - 1>> \in S
                   /\ n[1] > 0 /\ n[2] > 0 => <<n[1] - 1, n[2] - 1>> \in S
  <2>. HIDE DEF S
  <2>1. ASSUME NEW a \in 0..N, NEW b \in 0..M
        PROVE  /\ a \in Nat /\ a <= N /\ b \in Nat /\ b <= M
               /\ a > 0 => a - 1 \in 0..N
               /\ b > 0 => b - 1 \in 0..M
    BY <1>1
  <2>. QED
    BY <1>1, <2>1
<1>3. rank \in [S -> Nat] /\ \A n \in S : rank[n] = n[1] + n[2]
  <2>1. ASSUME NEW n \in S
        PROVE  n[1] + n[2] \in Nat
    <3>1. n[1] \in Nat /\ n[2] \in Nat
      BY <1>2
    <3>. QED
      BY <3>1
  <2>. HIDE DEF S
  <2>. QED
    BY <2>1
<1>4. ASSUME NEW n \in S, NEW f \in [S -> Nat]
      PROVE  /\ ways(f, n) \in SUBSET Nat
             /\ n[1] # 0 \/ n[2] # 0 => ways(f, n) # {}
  <2>. HIDE DEF S
  <2>1. /\ n[1] > 0 => f[<<n[1] - 1, n[2]>>] \in Nat
        /\ n[2] > 0 => f[<<n[1], n[2] - 1>>] \in Nat
        /\ n[1] > 0 /\ n[2] > 0 => f[<<n[1] - 1, n[2] - 1>>] \in Nat
    BY <1>2
  <2>2. n[1] \in Nat /\ n[2] \in Nat
    BY <1>2
  <2>. QED
    BY <2>1, <2>2
<1>5. ASSUME NEW n \in S, NEW f \in [S -> Nat]
      PROVE  /\ E(f, n) \in Nat
             /\ n[1] = 0 /\ n[2] = 0 => E(f, n) = 0
             /\ ~(n[1] = 0 /\ n[2] = 0) =>
                   E(f, n) \in ways(f, n) /\ \A w \in ways(f, n) : E(f, n) <= w
  <2>. HIDE DEF S, ways
  <2>1. CASE n[1] = 0 /\ n[2] = 0
    BY <2>1
  <2>2. CASE ~(n[1] = 0 /\ n[2] = 0)
    <3>1. \E a \in ways(f, n) : \A b \in ways(f, n) : a <= b
      BY <1>4, <2>2, LeastNumber
    <3>2. Least(ways(f, n)) \in ways(f, n) /\ \A w \in ways(f, n) : Least(ways(f, n)) <= w
      BY <3>1
    <3>. HIDE DEF Least
    <3>. QED
      BY <1>4, <2>2, <3>2
  <2>. QED
    BY <2>1, <2>2
<1>6. ASSUME NEW n \in S, NEW f, NEW h,
             \A m \in S : rank[m] < rank[n] => f[m] = h[m]
      PROVE  E(f, n) = E(h, n)
  <2>. HIDE DEF S, rank
  <2>1. n[1] \in Nat /\ n[2] \in Nat
    BY <1>2
  <2>2. n[1] > 0 => f[<<n[1] - 1, n[2]>>] = h[<<n[1] - 1, n[2]>>]
    <3>. DEFINE m == <<n[1] - 1, n[2]>>
    <3>1. n[1] > 0 => m \in S /\ rank[m] = n[1] - 1 + n[2] /\ rank[n] = n[1] + n[2]
      BY <1>2, <1>3
    <3>. HIDE DEF m
    <3>2. n[1] > 0 => m \in S /\ rank[m] < rank[n]
      BY <2>1, <3>1
    <3>. QED
      BY <1>6, <3>2 DEF m
  <2>3. n[2] > 0 => f[<<n[1], n[2] - 1>>] = h[<<n[1], n[2] - 1>>]
    <3>. DEFINE m == <<n[1], n[2] - 1>>
    <3>1. n[2] > 0 => m \in S /\ rank[m] = n[1] + (n[2] - 1) /\ rank[n] = n[1] + n[2]
      BY <1>2, <1>3
    <3>. HIDE DEF m
    <3>2. n[2] > 0 => m \in S /\ rank[m] < rank[n]
      BY <2>1, <3>1
    <3>. QED
      BY <1>6, <3>2 DEF m
  <2>4. n[1] > 0 /\ n[2] > 0 => f[<<n[1] - 1, n[2] - 1>>] = h[<<n[1] - 1, n[2] - 1>>]
    <3>. DEFINE m == <<n[1] - 1, n[2] - 1>>
    <3>1. n[1] > 0 /\ n[2] > 0 =>
             m \in S /\ rank[m] = (n[1] - 1) + (n[2] - 1) /\ rank[n] = n[1] + n[2]
      BY <1>2, <1>3
    <3>. HIDE DEF m
    <3>2. n[1] > 0 /\ n[2] > 0 => m \in S /\ rank[m] < rank[n]
      BY <2>1, <3>1
    <3>. QED
      BY <1>6, <3>2 DEF m
  <2>5. right(f, n) = right(h, n) /\ down(f, n) = down(h, n) /\ free(f, n) = free(h, n)
    BY <2>2, <2>3, <2>4, Zenon
  <2>. HIDE DEF right, down, free
  <2>. QED
    BY <2>5
<1>7. PICK f \in [S -> Nat] : \A n \in S : f[n] = D[n][f]
  <2>1. \A n \in S : \A f \in [S -> Nat] : D[n][f] \in Nat
    <3>. HIDE DEF S, E
    <3>. QED
      BY <1>5
  <2>2. \A n \in S : \A f, h \in [S -> Nat] :
           (\A m \in S : rank[m] < rank[n] => f[m] = h[m]) => D[n][f] = D[n][h]
    <3>. HIDE DEF S, E, rank
    <3>. QED
      BY <1>6
  <2>. HIDE DEF S, D, rank
  <2>3. DependsBelow(S, Nat, rank, D)
    BY <1>3, <2>1, <2>2 DEF DependsBelow
  <2>4. \E solution : Satisfies(solution, S, Nat, D)
    BY ONLY <2>3, Recursion, Zenon
  <2>. QED
    BY <2>4 DEF Satisfies
<1>8. f = [n \in S |-> E(f, n)]
  <2>. HIDE DEF S, E
  <2>. QED
    BY <1>7
<1>. DEFINE length == CHOOSE g : g = [n \in S |-> E(g, n)]
<1>9. length = [n \in S |-> E(length, n)]
  <2>. HIDE DEF S, E
  <2>. QED
    BY <1>8
<1>10. length = f
  <2>. HIDE DEF S, E, length, rank
  <2>1. \A n \in S : f[n] = E(f, n) /\ length[n] = E(length, n)
    BY <1>8, <1>9
  <2>. DEFINE T == {c \in Nat : \A n \in S : rank[n] <= c => length[n] = f[n]}
  <2>2. 0 \in T
    <3>1. ASSUME NEW n \in S, rank[n] <= 0
          PROVE  length[n] = f[n]
      <4>1. \A m \in S : rank[m] < rank[n] => length[m] = f[m]
        BY <1>3, <3>1
      <4>. QED
        BY <1>6, <2>1, <4>1
    <3>. QED
      BY <3>1
  <2>3. ASSUME NEW c \in Nat, c \in T
        PROVE  c + 1 \in T
    <3>1. ASSUME NEW n \in S, rank[n] <= c + 1
          PROVE  length[n] = f[n]
      <4>1. \A m \in S : rank[m] < rank[n] => length[m] = f[m]
        BY <1>3, <2>3, <3>1
      <4>. QED
        BY <1>6, <2>1, <4>1
    <3>. QED
      BY <3>1
  <2>4. Nat \subseteq T
    <3>. HIDE DEF T
    <3>. QED
      BY <2>2, <2>3, AllNumbers
  <2>5. ASSUME NEW n \in S
        PROVE  length[n] = f[n]
    <3>1. rank[n] \in T
      BY <1>3, <2>4
    <3>. QED
      BY <1>3, <3>1
  <2>6. DOMAIN length = S
    BY <1>9
  <2>7. DOMAIN f = S
    OBVIOUS
  <2>. QED
    BY <1>8, <1>9, <2>5
<1>11. Distance = length[<<N, M>>]
  BY <1>1 DEF Distance
<1>12. Shortest(input, length)
  <2>. HIDE DEF E, length
  <2>1. length \in [S -> Nat]
    BY <1>10
  <2>2. length[<<0, 0>>] = 0
    <3>1. <<0, 0>> \in S
      BY <1>1
    <3>. QED
      BY <1>5, <1>9, <2>1, <3>1
  <2>3. ASSUME NEW n \in S
        PROVE  /\ n[1] > 0 => length[n] <= length[<<n[1] - 1, n[2]>>] + 1
               /\ n[2] > 0 => length[n] <= length[<<n[1], n[2] - 1>>] + 1
               /\ n[1] > 0 /\ n[2] > 0 /\ expected[n[1]] = got[n[2]] =>
                      length[n] <= length[<<n[1] - 1, n[2] - 1>>]
               /\ \/ n[1] = 0 /\ n[2] = 0
                  \/ n[1] > 0 /\ length[n] = length[<<n[1] - 1, n[2]>>] + 1
                  \/ n[2] > 0 /\ length[n] = length[<<n[1], n[2] - 1>>] + 1
                  \/ /\ n[1] > 0 /\ n[2] > 0 /\ expected[n[1]] = got[n[2]]
                     /\ length[n] = length[<<n[1] - 1, n[2] - 1>>]
    <3>. HIDE DEF S
    <3>1. length[n] = E(length, n)
      BY <1>9
    <3>2. n[1] \in Nat /\ n[2] \in Nat
      BY <1>2
    <3>3. CASE n[1] = 0 /\ n[2] = 0
      BY <3>3
    <3>4. CASE ~(n[1] = 0 /\ n[2] = 0)
      <4>1. length[n] \in ways(length, n) /\ \A w \in ways(length, n) : length[n] <= w
        <5>. HIDE DEF ways
        <5>. QED
          BY <1>5, <2>1, <3>1, <3>4
      <4>. QED
        BY <3>2, <3>4, <4>1
    <3>. QED
      BY <3>3, <3>4
  <2>. HIDE DEF S
  <2>. QED
    BY <1>1, <2>1, <2>2, <2>3 DEF Shortest, S
<1>. HIDE DEF length
<1>. QED
  BY <1>11, <1>12

-----------------------------------------------------------------------------
(* No shorter path is missed *)

\* There is no free edge where diagonal j ends.
Stopped(in, q, j) ==
    ~(/\ q[j] < Len(in.expected)
      /\ q[j] - j < Len(in.got)
      /\ in.expected[q[j] + 1] = in.got[q[j] - j + 1])

\* A node that c differences lead to is on a diagonal of round c, and not beyond where
\* it ends.
LEMMA Furthest ==
    ASSUME NEW in \in InputType, NEW length, Shortest(in, length), NEW paths, NEW blank,
           NEW e \in Nat,
           \A c \in 0..(e - 1) : /\ Round(in, paths, c, blank)
                                 /\ \A j \in On(c) : Stopped(in, paths[c + 1], j)
    PROVE  \A node \in Nodes(in) : length[node] < e =>
              /\ node[1] - node[2] \in On(length[node])
              /\ node[1] <= paths[length[node] + 1][node[1] - node[2]]
<1>. DEFINE Reaches(node) == length[node] < e =>
              /\ node[1] - node[2] \in On(length[node])
              /\ node[1] <= paths[length[node] + 1][node[1] - node[2]]
            T == {s \in Nat : \A node \in Nodes(in) : node[1] + node[2] <= s => Reaches(node)}
<1>1. Len(in.expected) \in Nat /\ Len(in.got) \in Nat
  BY DEF InputType
<1>2. ASSUME NEW node \in Nodes(in)
      PROVE  /\ node[1] \in Nat /\ node[1] <= Len(in.expected)
             /\ node[2] \in Nat /\ node[2] <= Len(in.got)
             /\ node = <<node[1], node[2]>> /\ length[node] \in Nat
  BY <1>1 DEF Nodes, Shortest
<1>3. \A a \in Int, b \in Int : 0 <= a /\ a <= Len(in.expected) /\ 0 <= b /\ b <= Len(in.got)
          => <<a, b>> \in Nodes(in)
  BY <1>1 DEF Nodes
<1>4. ASSUME NEW c \in Nat, c < e, NEW j \in On(c)
      PROVE  /\ paths[c + 1][j] \in Nat
             /\ j # -c => /\ Before(paths, c, blank)[j - 1] \in Nat
                          /\ paths[c + 1][j] >= Before(paths, c, blank)[j - 1] + 1
             /\ j # c => /\ Before(paths, c, blank)[j + 1] \in Nat
                         /\ paths[c + 1][j] >= Before(paths, c, blank)[j + 1]
             /\ Stopped(in, paths[c + 1], j)
  <2>1. c \in 0..(e - 1)
    BY <1>4
  <2>. QED
    BY <1>4, <2>1 DEF Round, Explored, Followed
<1>5. ASSUME NEW h \in Nat, NEW i \in On(h)
      PROVE  /\ i \in Int /\ i + 1 \in On(h + 1) /\ i + 1 # -(h + 1)
             /\ i - 1 \in On(h + 1) /\ i - 1 # h + 1
  <2>1. PICK g \in 0..h : i = 2 * g - h
    BY DEF On
  <2>2. g + 1 \in 0..(h + 1) /\ 2 * (g + 1) - (h + 1) = i + 1
    BY <2>1
  <2>3. g \in 0..(h + 1) /\ 2 * g - (h + 1) = i - 1
    BY <2>1
  <2>4. i + 1 \in On(h + 1) /\ i - 1 \in On(h + 1)
    BY <2>2, <2>3 DEF On
  <2>. QED
    BY <2>1, <2>4
<1>6. ASSUME NEW node \in Nodes(in), length[node] < e,
             \A near \in Nodes(in) : near[1] + near[2] < node[1] + node[2] => Reaches(near)
      PROVE  /\ node[1] - node[2] \in On(length[node])
             /\ node[1] <= paths[length[node] + 1][node[1] - node[2]]
  <2>. DEFINE a == node[1]
              b == node[2]
              c == length[node]
              match == in.expected[a] = in.got[b]
  <2>1. a \in Nat /\ b \in Nat /\ c \in Nat /\ a <= Len(in.expected) /\ b <= Len(in.got)
        /\ node = <<a, b>> /\ c < e
    BY <1>2, <1>6
  <2>2. \/ a = 0 /\ b = 0
        \/ a > 0 /\ c = length[<<a - 1, b>>] + 1
        \/ b > 0 /\ c = length[<<a, b - 1>>] + 1
        \/ a > 0 /\ b > 0 /\ match /\ c = length[<<a - 1, b - 1>>]
    BY DEF Shortest
  <2>3. \A p \in Int, q \in Int : <<p, q>> \in Nodes(in) /\ p + q < a + b =>
           /\ length[<<p, q>>] \in Nat
           /\ length[<<p, q>>] < e =>
                 /\ p - q \in On(length[<<p, q>>])
                 /\ p <= paths[length[<<p, q>>] + 1][p - q]
    <3>1. SUFFICES ASSUME NEW p \in Int, NEW q \in Int, <<p, q>> \in Nodes(in),
                          p + q < a + b
                   PROVE  /\ length[<<p, q>>] \in Nat
                          /\ length[<<p, q>>] < e =>
                                /\ p - q \in On(length[<<p, q>>])
                                /\ p <= paths[length[<<p, q>>] + 1][p - q]
      OBVIOUS
    <3>. DEFINE near == <<p, q>>
    <3>2. near[1] = p /\ near[2] = q /\ near \in Nodes(in)
      BY <3>1
    <3>. HIDE DEF near
    <3>3. Reaches(near) /\ length[near] \in Nat
      BY <1>2, <1>6, <3>1, <3>2
    <3>4. length[near] \in Nat /\ (length[near] < e => p - q \in On(length[near])
                                                   /\ p <= paths[length[near] + 1][p - q])
      BY <3>2, <3>3
    <3>. QED
      BY <3>4 DEF near
  <2>. HIDE DEF a, b, c, match
  <2>4. CASE a = 0 /\ b = 0
    <3>1. c = 0
      BY <2>1, <2>4 DEF c, Shortest
    <3>2. a - b = 0 /\ 0 \in On(0)
      BY <2>4, OnZero
    <3>3. paths[0 + 1][0] \in Nat
      BY <1>4, <2>1, <3>1, <3>2
    <3>. QED
      BY <2>4, <3>1, <3>2, <3>3 DEF a, b, c
  <2>5. CASE a > 0 /\ c = length[<<a - 1, b>>] + 1
    <3>. DEFINE h == length[<<a - 1, b>>]
    <3>1. <<a - 1, b>> \in Nodes(in) /\ (a - 1) + b < a + b /\ a - 1 \in Int
      BY <1>3, <2>1, <2>5
    <3>2. h \in Nat /\ (h < e => (a - 1) - b \in On(h) /\ a - 1 <= paths[h + 1][(a - 1) - b])
      BY <2>1, <2>3, <3>1
    <3>. HIDE DEF h
    <3>3. c = h + 1 /\ h < e /\ c - 1 = h /\ c # 0
      BY <2>1, <2>5, <3>2 DEF h
    <3>. DEFINE i == (a - 1) - b
    <3>4. i \in On(h) /\ a - 1 <= paths[h + 1][i] /\ i \in Int
      BY <2>1, <3>2, <3>3
    <3>5. i + 1 = a - b /\ (a - b) - 1 = i
      BY <2>1
    <3>. HIDE DEF i
    <3>6. a - b \in On(c) /\ a - b # -c
      BY <1>5, <3>2, <3>3, <3>4, <3>5
    <3>7. Before(paths, c, blank) = paths[h + 1]
      BY <3>3 DEF Before
    <3>8. /\ paths[c + 1][a - b] \in Nat /\ paths[h + 1][i] \in Nat
          /\ paths[c + 1][a - b] >= paths[h + 1][i] + 1
      BY <1>4, <2>1, <3>5, <3>6, <3>7
    <3>9. a <= paths[c + 1][a - b]
      BY <2>1, <3>4, <3>8
    <3>. QED
      BY <3>6, <3>9 DEF a, b, c
  <2>6. CASE b > 0 /\ c = length[<<a, b - 1>>] + 1
    <3>. DEFINE h == length[<<a, b - 1>>]
    <3>1. <<a, b - 1>> \in Nodes(in) /\ a + (b - 1) < a + b /\ b - 1 \in Int
      BY <1>3, <2>1, <2>6
    <3>2. h \in Nat /\ (h < e => a - (b - 1) \in On(h) /\ a <= paths[h + 1][a - (b - 1)])
      BY <2>1, <2>3, <3>1
    <3>. HIDE DEF h
    <3>3. c = h + 1 /\ h < e /\ c - 1 = h /\ c # 0
      BY <2>1, <2>6, <3>2 DEF h
    <3>. DEFINE i == a - (b - 1)
    <3>4. i \in On(h) /\ a <= paths[h + 1][i] /\ i \in Int
      BY <2>1, <3>2, <3>3
    <3>5. i - 1 = a - b /\ (a - b) + 1 = i
      BY <2>1
    <3>. HIDE DEF i
    <3>6. a - b \in On(c) /\ a - b # c
      BY <1>5, <3>2, <3>3, <3>4, <3>5
    <3>7. Before(paths, c, blank) = paths[h + 1]
      BY <3>3 DEF Before
    <3>8. /\ paths[c + 1][a - b] \in Nat /\ paths[h + 1][i] \in Nat
          /\ paths[c + 1][a - b] >= paths[h + 1][i]
      BY <1>4, <2>1, <3>5, <3>6, <3>7
    <3>9. a <= paths[c + 1][a - b]
      BY <2>1, <3>4, <3>8
    <3>. QED
      BY <3>6, <3>9 DEF a, b, c
  <2>7. CASE a > 0 /\ b > 0 /\ match /\ c = length[<<a - 1, b - 1>>]
    <3>1. <<a - 1, b - 1>> \in Nodes(in) /\ (a - 1) + (b - 1) < a + b
          /\ a - 1 \in Int /\ b - 1 \in Int /\ (a - 1) - (b - 1) = a - b
      BY <1>3, <2>1, <2>7
    <3>. DEFINE j == a - b
                q == paths[c + 1]
    <3>2. j \in On(c) /\ a - 1 <= q[j]
      BY <2>1, <2>3, <2>7, <3>1
    <3>3. q[j] \in Nat /\ Stopped(in, q, j)
      BY <1>4, <2>1, <3>2
    <3>4. j = a - b /\ j \in Int
      BY <2>1
    <3>. HIDE DEF j, q
    <3>5. ASSUME q[j] = a - 1
          PROVE  FALSE
      <4>1. q[j] < Len(in.expected) /\ q[j] - j < Len(in.got) /\ q[j] + 1 = a /\ q[j] - j + 1 = b
        BY <1>1, <2>1, <3>4, <3>5
      <4>2. in.expected[q[j] + 1] = in.got[q[j] - j + 1]
        BY <2>7, <4>1 DEF match
      <4>. QED
        BY <3>3, <4>1, <4>2 DEF Stopped
    <3>6. a <= q[j]
      BY <2>1, <3>2, <3>3, <3>5
    <3>. QED
      BY <3>2, <3>6 DEF a, b, c, j, q
  <2>. QED
    BY <2>2, <2>4, <2>5, <2>6, <2>7
<1>. HIDE DEF Reaches
<1>7. ASSUME NEW node \in Nodes(in),
             \A near \in Nodes(in) : near[1] + near[2] < node[1] + node[2] => Reaches(near)
      PROVE  Reaches(node)
  BY <1>6, <1>7 DEF Reaches
<1>8. \A node \in Nodes(in) : node[1] \in Nat /\ node[2] \in Nat
  BY <1>2
<1>9. 0 \in T
  BY <1>7, <1>8
<1>10. ASSUME NEW s \in Nat, s \in T
       PROVE  s + 1 \in T
  <2>1. ASSUME NEW node \in Nodes(in), node[1] + node[2] <= s + 1
        PROVE  Reaches(node)
    <3>1. ASSUME NEW near \in Nodes(in), near[1] + near[2] < node[1] + node[2]
          PROVE  near[1] + near[2] <= s
      <4>1. near[1] \in Nat /\ near[2] \in Nat /\ node[1] \in Nat /\ node[2] \in Nat
        BY <1>8
      <4>. QED
        BY <2>1, <3>1, <4>1
    <3>. QED
      BY <1>7, <1>10, <3>1
  <2>. QED
    BY <2>1
<1>11. Nat \subseteq T
  <2>. HIDE DEF T
  <2>. QED
    BY <1>9, <1>10, AllNumbers
<1>12. ASSUME NEW node \in Nodes(in)
       PROVE  Reaches(node)
  <2>1. node[1] + node[2] \in Nat /\ node[1] + node[2] <= node[1] + node[2]
    <3>1. node[1] \in Nat /\ node[2] \in Nat
      BY <1>8
    <3>. QED
      BY <3>1
  <2>. QED
    BY <1>11, <2>1
<1>. QED
  BY <1>12 DEF Reaches

\* What c rounds stop short of takes c differences or more.
LEMMA NotSooner ==
    ASSUME NEW in \in InputType, NEW length, Shortest(in, length), NEW paths, NEW blank,
           NEW e \in Nat,
           \A c \in 0..(e - 1) : /\ Round(in, paths, c, blank)
                                 /\ \A j \in On(c) : Stopped(in, paths[c + 1], j)
    PROVE  length[<<Len(in.expected), Len(in.got)>>] >= e
<1>. DEFINE n == Len(in.expected)
            m == Len(in.got)
            c == length[<<n, m>>]
            q == paths[c + 1]
<1>1. n \in Nat /\ m \in Nat
  BY DEF InputType
<1>2. <<n, m>> \in Nodes(in) /\ c \in Nat
  BY <1>1 DEF Nodes, Shortest
<1>3. SUFFICES ASSUME c < e
               PROVE  FALSE
  BY <1>2
<1>4. n - m \in On(c) /\ n <= q[n - m]
  BY <1>2, <1>3, Furthest
<1>5. c \in 0..(e - 1)
  BY <1>2, <1>3
<1>6. q[n - m] \in Nat /\ (q[n - m] < n \/ q[n - m] - (n - m) < m)
  BY <1>4, <1>5 DEF Round, Explored, Followed, Short
<1>. HIDE DEF n, m, q
<1>. QED
  BY <1>1, <1>4, <1>6

-----------------------------------------------------------------------------
(* The differences are counted *)

LEMMA OneMore ==
    ASSUME NEW E, NEW B, NEW e \in E, NEW s \in Seq(E), NEW t \in Seq(E),
           e \in B, \A i \in 1..Len(s) : s[i] \notin B
    PROVE  /\ Cardinality({i \in 1..Len(t) : t[i] \in B}) \in Nat
           /\ Cardinality({i \in 1..Len(<<e>> \o s \o t) : (<<e>> \o s \o t)[i] \in B}) =
                 Cardinality({i \in 1..Len(t) : t[i] \in B}) + 1
<1>. DEFINE u == <<e>> \o s \o t
            Counted(r) == {i \in 1..Len(r) : r[i] \in B}
            l == Len(s) + 1
            Shifted == {i \in (l + 1)..Len(u) : u[i] \in B}
            shift == [i \in Counted(t) |-> i + l]
<1>1. Len(s) \in Nat /\ Len(t) \in Nat
  OBVIOUS
<1>2. /\ Len(u) = Len(s) + 1 + Len(t) /\ u[1] = e
      /\ \A i \in 1..Len(s) : u[i + 1] = s[i]
      /\ \A i \in 1..Len(t) : u[i + l] = t[i]
  <2>1. <<e>> \in Seq(E) /\ Len(<<e>>) = 1 /\ <<e>>[1] = e
    OBVIOUS
  <2>. DEFINE es == <<e>> \o s
  <2>2. es \in Seq(E) /\ Len(es) = 1 + Len(s) /\ es[1] = e
        /\ \A i \in 1..Len(s) : es[i + 1] = s[i]
    OBVIOUS
  <2>. HIDE DEF es
  <2>3. u = es \o t
    BY DEF es
  <2>. HIDE DEF u
  <2>4. /\ Len(u) = Len(es) + Len(t)
        /\ \A i \in 1..(Len(es) + Len(t)) :
              u[i] = IF i <= Len(es) THEN es[i] ELSE t[i - Len(es)]
    BY <2>2, <2>3, ConcatProperties
  <2>5. /\ \A i \in 1..Len(es) : u[i] = es[i]
        /\ \A i \in 1..Len(t) : u[i + Len(es)] = t[i]
    <3>1. Len(es) \in Nat
      BY <1>1, <2>2
    <3>. QED
      BY <1>1, <2>4, <3>1
  <2>6. 1 \in 1..Len(es) /\ \A i \in 1..Len(s) : i + 1 \in 1..Len(es)
    BY <1>1, <2>2
  <2>7. Len(es) = l
    BY <1>1, <2>2
  <2>. QED
    BY <1>1, <2>2, <2>4, <2>5, <2>6, <2>7
<1>. HIDE DEF u
<1>3. IsFiniteSet(Counted(t)) /\ Cardinality(Counted(t)) \in Nat
  <2>1. IsFiniteSet(1..Len(t))
    BY <1>1, FS_Interval
  <2>2. Counted(t) \subseteq 1..Len(t)
    OBVIOUS
  <2>3. IsFiniteSet(Counted(t))
    <3>. HIDE DEF Counted
    <3>. QED
      BY <2>1, <2>2, FS_Subset
  <2>. QED
    BY <2>3, FS_CardinalityType
<1>4. l \in Nat /\ l >= 1 /\ Len(u) = l + Len(t)
  BY <1>1, <1>2
<1>5. ASSUME NEW i \in 1..Len(u)
      PROVE  i = 1 \/ (i - 1 \in 1..Len(s)) \/ (i - l \in 1..Len(t) /\ (i - l) + l = i)
  BY <1>1, <1>4
<1>6. Counted(u) = {1} \cup Shifted
  <2>1. 1 \in 1..Len(u) /\ u[1] \in B
    BY <1>1, <1>2, <1>4
  <2>2. ASSUME NEW i \in Counted(u), i # 1
        PROVE  i \in Shifted
    <3>1. i \in 1..Len(u) /\ u[i] \in B
      OBVIOUS
    <3>2. i - 1 \notin 1..Len(s)
      <4>1. (i - 1) + 1 = i
        BY <3>1
      <4>. QED
        BY <1>2, <3>1, <4>1
    <3>3. i \in (l + 1)..Len(u)
      BY <1>1, <1>4, <1>5, <2>2, <3>1, <3>2
    <3>. QED
      BY <3>1, <3>3
  <2>3. ASSUME NEW i \in Shifted
        PROVE  i \in Counted(u)
    BY <1>4
  <2>. HIDE DEF Shifted
  <2>. QED
    BY <2>1, <2>2, <2>3
<1>7. shift \in Bijection(Counted(t), Shifted)
  <2>1. ASSUME NEW i \in Counted(t)
        PROVE  i \in Int /\ i + l \in Shifted
    <3>1. i \in 1..Len(t) /\ t[i] \in B
      OBVIOUS
    <3>2. i + l \in (l + 1)..Len(u)
      BY <1>1, <1>4, <3>1
    <3>. QED
      BY <1>2, <3>1, <3>2
  <2>2. ASSUME NEW i \in Shifted
        PROVE  i - l \in Counted(t) /\ (i - l) + l = i
    <3>1. i \in (l + 1)..Len(u) /\ u[i] \in B
      OBVIOUS
    <3>2. i - l \in 1..Len(t) /\ (i - l) + l = i
      BY <1>1, <1>4, <3>1
    <3>. QED
      BY <1>2, <3>1, <3>2
  <2>. HIDE DEF Counted, Shifted, l
  <2>3. \A i, h \in Counted(t) : i + l = h + l => i = h
    BY <1>4, <2>1
  <2>. QED
    BY <2>1, <2>2, <2>3 DEF Bijection, Injection, Surjection, IsInjective
<1>8. IsFiniteSet(Shifted) /\ Cardinality(Shifted) = Cardinality(Counted(t))
  <2>. HIDE DEF Counted, Shifted, shift
  <2>. QED
    BY <1>3, <1>7, FS_Bijection DEF ExistsBijection
<1>9. 1 \notin Shifted
  BY <1>4
<1>10. Cardinality(Counted(u)) = Cardinality(Counted(t)) + 1
  <2>. HIDE DEF Counted, Shifted
  <2>1. Cardinality(Shifted \cup {1}) = Cardinality(Shifted) + 1
    BY <1>8, <1>9, FS_AddElement
  <2>2. Counted(u) = Shifted \cup {1}
    BY <1>6
  <2>. QED
    BY <1>8, <2>1, <2>2
<1>. QED
  BY <1>3, <1>10 DEF Counted, u

-----------------------------------------------------------------------------
(* The invariant *)

\* Of the complete rounds, and of the diagonals of this one that were looked at, all were
\* followed to their end.  On the way back, as many differences are left as are not
\* printed yet, and to go on is no detour.
SInv ==
    /\ phase = "search" =>
          /\ \A c \in 0..(d - 1) : \A j \in On(c) : Stopped(input, path_lengths[c + 1], j)
          /\ \A j \in On(d) : j < k => Stopped(input, v, j)
    /\ phase = "trace" =>
          /\ Len(path_lengths) - 1 <= Distance
          /\ \A i \in 1..Len(lines) : lines[i].op = " "
          /\ Cardinality(Differences) = Len(path_lengths) - 1 - d
          /\ \A length : Shortest(input, length) =>
                length[<<N, M>>] <= length[<<x, y>>] + (Len(path_lengths) - 1 - d)
    /\ phase = "printed" => Cardinality(Differences) = Distance

LEMMA SearchesAll ==
    ASSUME IInv, SInv, Search
    PROVE  SInv'
<1>. TypeOK
  BY DEF IInv
<1>0. Searching /\ phase = "search"
  BY DEF IInv, Search
<1>1. /\ input \in InputType
      /\ expected = input.expected /\ N = Len(input.expected) /\ N \in Nat
      /\ got = input.got /\ M = Len(input.got) /\ M \in Nat
      /\ Diagonals = (-max_size)..max_size /\ v \in [Diagonals -> Nat]
      /\ d \in Nat /\ max_size \in Nat /\ d <= max_size /\ k \in Diagonals /\ k \in Int
      /\ path_lengths \in Seq([Diagonals -> Nat])
      /\ Len(path_lengths) = d /\ k \in On(d) /\ printed = <<>> /\ lines = <<>>
  BY <1>0, InputFacts, TypeFacts DEF Searching, TypeOK
<1>a. d \in Nat /\ k \in Int /\ -d <= k /\ k <= d /\ k + 1 \notin On(d)
  BY <1>1, OnFacts
<1>2. PICK to \in {From} \cup From..N : Extend(to)
  BY DEF Search
<1>. DEFINE w == [v EXCEPT ![k] = to]
            paths == Append(path_lengths, w)
<1>3. w[k] = to /\ \A j \in Diagonals : j # k => w[j] = v[j]
  BY <1>1
<1>4. Stopped(input, w, k)
  BY <1>1, <1>2, <1>3 DEF Stopped, Extend, Follows, Matches
<1>5. \A j \in On(d) : j < k => Stopped(input, w, j)
  <2>1. ASSUME NEW j \in On(d), j < k
        PROVE  Stopped(input, w, j)
    <3>1. j \in Int /\ -d <= j /\ j <= d
      BY <1>1, OnFacts
    <3>2. j \in Diagonals /\ j # k
      BY <1>1, <2>1, <3>1
    <3>3. Stopped(input, v, j) /\ w[j] = v[j]
      BY <1>0, <1>3, <2>1, <3>2 DEF SInv
    <3>. HIDE DEF w
    <3>. QED
      BY <3>3 DEF Stopped
  <2>. QED
    BY <2>1
<1>6. /\ \A c \in 0..(d - 1) : \A j \in On(c) : Stopped(input, path_lengths[c + 1], j)
      /\ \A c \in 0..(d - 1) : Round(input, path_lengths, c, Blank)
  BY <1>0 DEF SInv, Searching
<1>7. /\ v' = w /\ input' = input /\ lines' = lines /\ printed' = printed
      /\ expected' = expected /\ got' = got /\ N' = N /\ M' = M
  BY <1>2, Frame DEF Extend
<1>8. Distance' = Distance
  BY <1>7 DEF Distance
<1>9. /\ Len(paths) = d + 1 /\ paths[d + 1] = w
      /\ \A i \in 1..d : paths[i] = path_lengths[i]
  <2>1. w \in [Diagonals -> Nat]
    <3>1. TypeOK'
      BY SearchStep DEF IInv
    <3>. QED
      BY <1>7, <3>1, Frame DEF TypeOK
  <2>. HIDE DEF w
  <2>2. path_lengths \in Seq([Diagonals -> Nat]) /\ Len(path_lengths) = d
    BY <1>1
  <2>. QED
    BY <2>1, <2>2
<1>. HIDE DEF w, paths
<1>10. CASE Reached(to)
  <2>1. path_lengths' = paths /\ phase' = "trace" /\ x' = N /\ y' = M /\ d' = d
    BY <1>2, <1>7, <1>10 DEF Extend, paths
  <2>2. PICK length : Shortest(input, length) /\ Distance = length[<<N, M>>]
    BY DistanceIsShortest
  <2>3. Distance >= d
    BY <1>1, <1>6, <2>2, NotSooner
  <2>4. Distance \in Nat
    <3>1. <<N, M>> \in Nodes(input)
      BY <1>1 DEF Nodes
    <3>. QED
      BY <2>2, <3>1 DEF Shortest
  <2>5. Cardinality(Differences') = 0
    <3>1. Differences' = {}
      BY <1>1, <1>7 DEF Differences
    <3>. QED
      BY <3>1, FS_EmptySet
  <2>6. \A i \in 1..Len(lines) : FALSE
    BY <1>1
  <2>7. \A f : Shortest(input, f) => f[<<N, M>>] <= f[<<N, M>>] + 0
    <3>1. <<N, M>> \in Nodes(input)
      BY <1>1 DEF Nodes
    <3>. QED
      BY <3>1 DEF Shortest
  <2>9. Len(paths) - 1 = d /\ Len(paths) - 1 - d = 0
    BY <1>1, <1>9
  <2>10. Len(path_lengths') - 1 <= Distance' /\ Len(path_lengths') - 1 - d' = 0
    BY <1>8, <2>1, <2>3, <2>9, <1>1, <2>4
  <2>. QED
    BY <1>7, <2>1, <2>5, <2>6, <2>7, <2>10 DEF SInv
<1>11. CASE ~Reached(to) /\ k < d
  <2>1. path_lengths' = path_lengths /\ phase' = "search" /\ d' = d /\ k' = k + 2
    <3>1. k # d
      BY <1>a, <1>11
    <3>. QED
      BY <1>0, <1>2, <1>11, <3>1 DEF Extend
  <2>2. \A j \in On(d) : j < k + 2 => Stopped(input, w, j)
    <3>1. ASSUME NEW j \in On(d), j < k + 2
          PROVE  Stopped(input, w, j)
      <4>1. j \in Int /\ j # k + 1
        BY <1>a, OnFacts
      <4>2. j < k \/ j = k
        BY <1>1, <3>1, <4>1
      <4>. QED
        BY <1>4, <1>5, <4>2
    <3>. QED
      BY <3>1
  <2>. QED
    BY <1>6, <1>7, <2>1, <2>2 DEF SInv
<1>12. CASE ~Reached(to) /\ k = d
  <2>0. ~(k < d)
    BY <1>a, <1>12
  <2>1. path_lengths' = paths
    BY <1>2, <1>7, <1>12, <2>0 DEF Extend, paths
  <2>2. phase' # "gave up"
    BY SearchStep DEF IInv
  <2>3. phase' = "search" /\ d' = d + 1 /\ k' = -(d + 1)
    BY <1>0, <1>2, <1>12, <2>0, <2>2 DEF Extend
  <2>4. \A j \in On(d) : Stopped(input, w, j)
    <3>1. ASSUME NEW j \in On(d)
          PROVE  Stopped(input, w, j)
      <4>1. j \in Int /\ j <= d
        BY <1>1, OnFacts
      <4>2. j < k \/ j = k
        BY <1>1, <1>12, <4>1
      <4>. QED
        BY <1>4, <1>5, <4>2
    <3>. QED
      BY <3>1
  <2>5. \A c \in 0..d : \A j \in On(c) : Stopped(input, paths[c + 1], j)
    <3>1. ASSUME NEW c \in 0..d, NEW j \in On(c)
          PROVE  Stopped(input, paths[c + 1], j)
      <4>1. CASE c = d
        BY <1>9, <2>4, <4>1
      <4>2. CASE c # d
        <5>1. c \in 0..(d - 1) /\ c + 1 \in 1..d
          BY <1>1, <4>2
        <5>. QED
          BY <1>6, <1>9, <5>1
      <4>. QED
        BY <4>1, <4>2
    <3>. QED
      BY <3>1
  <2>6. \A j \in On(d + 1) : ~(j < -(d + 1))
    <3>1. ASSUME NEW j \in On(d + 1), j < -(d + 1)
          PROVE  FALSE
      <4>1. d + 1 \in Nat
        BY <1>1
      <4>2. j \in Int /\ -(d + 1) <= j
        BY <4>1, OnFacts
      <4>. QED
        BY <3>1, <4>1, <4>2
    <3>. QED
      BY <3>1
  <2>7. 0..(d' - 1) = 0..d
    BY <1>1, <2>3
  <2>. QED
    BY <1>7, <2>1, <2>3, <2>5, <2>6, <2>7 DEF SInv
<1>. QED
  BY <1>1, <1>10, <1>11, <1>12, <1>2 DEF Extend

\* One difference is printed, and one less is left.
LEMMA CountsOne ==
    ASSUME IInv, SInv, phase = "trace", d # 0, NEW e \in EdgeType, e.op # " ",
           printed' = <<e>> \o lines \o printed
    PROVE  /\ Cardinality(Differences') = Len(path_lengths) - 1 - (d - 1)
           /\ Len(path_lengths) \in Nat /\ d \in Nat
<1>. TypeOK
  BY DEF IInv
<1>. DEFINE B == {edge \in EdgeType : edge.op # " "}
            Counted(r) == {i \in 1..Len(r) : r[i] \in B}
            u == <<e>> \o lines \o printed
<1>1. lines \in Seq(EdgeType) /\ printed \in Seq(EdgeType) /\ d \in Nat
      /\ path_lengths \in Seq([Diagonals -> Nat])
  BY InputFacts, TypeFacts
<1>2. u \in Seq(EdgeType)
  <2>1. <<e>> \in Seq(EdgeType)
    BY ONLY e \in EdgeType
  <2>. QED
    BY <1>1, <2>1, ConcatProperties
<1>3. \A i \in 1..Len(lines) : lines[i] \notin B
  BY DEF SInv
<1>4. Counted(printed) = Differences
  <2>1. \A i \in 1..Len(printed) : printed[i] \in EdgeType
    BY <1>1, ElementOfSeq
  <2>. QED
    BY <2>1 DEF Differences
<1>5. Counted(u) = Differences'
  <2>1. \A i \in 1..Len(u) : u[i] \in EdgeType
    <3>. HIDE DEF u
    <3>. QED
      BY <1>2, ElementOfSeq
  <2>2. printed' = u
    OBVIOUS
  <2>. HIDE DEF u
  <2>. QED
    BY <2>1, <2>2 DEF Differences
<1>6. Cardinality(Counted(u)) = Cardinality(Counted(printed)) + 1
  <2>1. e \in B
    OBVIOUS
  <2>. HIDE DEF B
  <2>2. \A i \in 1..Len(lines) : ~(lines[i] \in B)
    BY <1>3
  <2>3. lines \in Seq(EdgeType) /\ printed \in Seq(EdgeType) /\ e \in EdgeType
    BY <1>1
  <2>4. Cardinality({i \in 1..Len(<<e>> \o lines \o printed) : (<<e>> \o lines \o printed)[i] \in B})
          = Cardinality({i \in 1..Len(printed) : printed[i] \in B}) + 1
    BY ONLY <2>1, <2>2, <2>3, OneMore
  <2>. QED
    BY <2>4 DEF Counted, u
<1>7. Cardinality(Differences) = Len(path_lengths) - 1 - d /\ Len(path_lengths) \in Nat
  <2>1. Len(path_lengths) \in Nat
    BY ONLY <1>1
  <2>. QED
    BY <2>1 DEF SInv
<1>8. Cardinality(Differences') = Cardinality(Differences) + 1
  BY <1>4, <1>5, <1>6
<1>. QED
  BY ONLY <1>1, <1>7, <1>8

LEMMA TracesShortest ==
    ASSUME IInv, SInv, StepRight \/ StepDown \/ UpDiagonal
    PROVE  SInv'
<1>. TypeOK
  BY DEF IInv
<1>0. phase = "trace" /\ Tracing /\ phase' = "trace"
  <2>1. phase = "trace" /\ phase' \in {"trace", "internal error"}
    BY DEF StepRight, StepDown, UpDiagonal
  <2>2. IInv'
    BY RightStep, DownStep, UpStep
  <2>. QED
    BY <2>1, <2>2 DEF IInv
<1>1. /\ x \in Nat /\ x <= N /\ y \in Nat /\ y <= M /\ d \in Nat
      /\ N \in Nat /\ M \in Nat /\ N = Len(input.expected) /\ M = Len(input.got)
      /\ expected = input.expected /\ got = input.got
      /\ lines \in Seq(EdgeType) /\ printed \in Seq(EdgeType)
      /\ path_lengths \in Seq([Diagonals -> Nat]) /\ Len(path_lengths) \in Nat
  BY InputFacts, TypeFacts
<1>2. /\ Len(path_lengths) - 1 <= Distance
      /\ \A i \in 1..Len(lines) : lines[i].op = " "
      /\ Cardinality(Differences) = Len(path_lengths) - 1 - d
  BY <1>0 DEF SInv
<1>3. /\ input' = input /\ path_lengths' = path_lengths
      /\ expected' = expected /\ got' = got /\ N' = N /\ M' = M
  BY Frame DEF StepRight, StepDown, UpDiagonal, searchVars
<1>4. Distance' = Distance
  BY <1>3 DEF Distance
<1>5. x' \in 0..N /\ y' \in 0..M
  <2>1. TypeOK'
    BY RightStep, DownStep, UpStep DEF IInv
  <2>. QED
    BY <1>3, <2>1 DEF TypeOK
<1>6. ASSUME NEW length, Shortest(input, length)
      PROVE  /\ length[<<N, M>>] \in Nat /\ length[<<x, y>>] \in Nat
             /\ length[<<x', y'>>] \in Nat
             /\ length[<<N, M>>] <= length[<<x, y>>] + (Len(path_lengths) - 1 - d)
             /\ x > 0 => length[<<x, y>>] <= length[<<x - 1, y>>] + 1
             /\ y > 0 => length[<<x, y>>] <= length[<<x, y - 1>>] + 1
             /\ Equal => length[<<x, y>>] <= length[<<x - 1, y - 1>>]
  <2>1. <<N, M>> \in Nodes(input) /\ <<x, y>> \in Nodes(input) /\ <<x', y'>> \in Nodes(input)
    BY <1>1, <1>5 DEF Nodes
  <2>2. length[<<N, M>>] \in Nat /\ length[<<x, y>>] \in Nat /\ length[<<x', y'>>] \in Nat
    BY <1>6, <2>1 DEF Shortest
  <2>3. length[<<N, M>>] <= length[<<x, y>>] + (Len(path_lengths) - 1 - d)
    BY <1>0, <1>6 DEF SInv
  <2>. DEFINE node == <<x, y>>
  <2>4. node \in Nodes(input) /\ node[1] = x /\ node[2] = y
    BY <2>1
  <2>. HIDE DEF node
  <2>5. /\ x > 0 => length[node] <= length[<<x - 1, y>>] + 1
        /\ y > 0 => length[node] <= length[<<x, y - 1>>] + 1
        /\ Equal => length[node] <= length[<<x - 1, y - 1>>]
    BY <1>1, <1>6, <2>4 DEF Shortest, Equal
  <2>. QED
    BY <2>2, <2>3, <2>5 DEF node
<1>7. CASE StepRight
  <2>1. x' = x - 1 /\ y' = y /\ d' = d - 1 /\ lines' = <<>> /\ d # 0
        /\ printed' = <<Edge("-")>> \o lines \o printed
    BY <1>1, <1>7 DEF StepRight, Difference
  <2>2. Edge("-") \in EdgeType /\ Edge("-").op # " "
    BY <1>1 DEF Edge, EdgeType
  <2>3. Cardinality(Differences') = Len(path_lengths) - 1 - (d - 1)
    BY <1>0, <2>1, <2>2, CountsOne
  <2>4. x > 0
    BY <1>1, <1>5, <2>1
  <2>5. ASSUME NEW length, Shortest(input, length)
        PROVE  length[<<N, M>>] <= length[<<x', y'>>] + (Len(path_lengths) - 1 - (d - 1))
    <3>1. length[<<x', y'>>] = length[<<x - 1, y>>]
      BY <2>1
    <3>2. /\ length[<<N, M>>] \in Nat /\ length[<<x, y>>] \in Nat /\ length[<<x', y'>>] \in Nat
          /\ length[<<N, M>>] <= length[<<x, y>>] + (Len(path_lengths) - 1 - d)
          /\ length[<<x, y>>] <= length[<<x', y'>>] + 1
      BY <1>6, <2>4, <2>5, <3>1
    <3>3. Len(path_lengths) \in Nat /\ d \in Nat
      BY <1>1
    <3>. QED
      BY ONLY <3>2, <3>3
  <2>6. \A i \in 1..Len(lines') : FALSE
    BY <2>1
  <2>. QED
    BY <1>0, <1>2, <1>3, <1>4, <2>1, <2>3, <2>5, <2>6 DEF SInv
<1>8. CASE StepDown
  <2>1. x' = x /\ y' = y - 1 /\ d' = d - 1 /\ lines' = <<>> /\ d # 0
        /\ printed' = <<Edge("+")>> \o lines \o printed
    BY <1>1, <1>8 DEF StepDown, Difference
  <2>2. Edge("+") \in EdgeType /\ Edge("+").op # " "
    BY <1>1 DEF Edge, EdgeType
  <2>3. Cardinality(Differences') = Len(path_lengths) - 1 - (d - 1)
    BY <1>0, <2>1, <2>2, CountsOne
  <2>4. y > 0
    BY <1>1, <1>5, <2>1
  <2>5. ASSUME NEW length, Shortest(input, length)
        PROVE  length[<<N, M>>] <= length[<<x', y'>>] + (Len(path_lengths) - 1 - (d - 1))
    <3>1. length[<<x', y'>>] = length[<<x, y - 1>>]
      BY <2>1
    <3>2. /\ length[<<N, M>>] \in Nat /\ length[<<x, y>>] \in Nat /\ length[<<x', y'>>] \in Nat
          /\ length[<<N, M>>] <= length[<<x, y>>] + (Len(path_lengths) - 1 - d)
          /\ length[<<x, y>>] <= length[<<x', y'>>] + 1
      BY <1>6, <2>4, <2>5, <3>1
    <3>3. Len(path_lengths) \in Nat /\ d \in Nat
      BY <1>1
    <3>. QED
      BY ONLY <3>2, <3>3
  <2>6. \A i \in 1..Len(lines') : FALSE
    BY <2>1
  <2>. QED
    BY <1>0, <1>2, <1>3, <1>4, <2>1, <2>3, <2>5, <2>6 DEF SInv
<1>9. CASE UpDiagonal
  <2>1. x' = x - 1 /\ y' = y - 1 /\ d' = d /\ lines' = <<Edge(" ")>> \o lines /\ Equal
        /\ printed' = printed
    BY <1>0, <1>9 DEF UpDiagonal, searchVars
  <2>2. Edge(" ") \in EdgeType /\ Edge(" ").op = " "
    BY <1>1 DEF Edge, EdgeType
  <2>3. \A i \in 1..Len(lines') : lines'[i].op = " "
    <3>. DEFINE e == Edge(" ")
                l == <<e>> \o lines
    <3>0. e \in EdgeType /\ lines \in Seq(EdgeType)
      BY <1>1, <2>2
    <3>1. e.op = " "
      BY <2>2
    <3>. HIDE DEF e
    <3>2. Len(l) = Len(lines) + 1 /\ Len(lines) \in Nat /\ l[1] = e
          /\ \A i \in 1..Len(lines) : l[i + 1] = lines[i]
      BY ONLY <3>0 DEF l
    <3>. HIDE DEF l
    <3>3. ASSUME NEW i \in 1..Len(l)
          PROVE  l[i].op = " "
      <4>1. CASE i = 1
        BY <3>1, <3>2, <4>1
      <4>2. CASE i # 1
        <5>1. i - 1 \in 1..Len(lines) /\ (i - 1) + 1 = i
          BY <3>2, <4>2
        <5>2. l[i] = lines[i - 1]
          BY <3>2, <5>1
        <5>. QED
          BY <1>2, <5>1, <5>2
      <4>. QED
        BY <4>1, <4>2
    <3>4. lines' = l
      BY <2>1 DEF l, e
    <3>. QED
      BY <3>3, <3>4
  <2>4. Differences' = Differences
    BY <2>1 DEF Differences
  <2>5. ASSUME NEW length, Shortest(input, length)
        PROVE  length[<<N, M>>] <= length[<<x', y'>>] + (Len(path_lengths) - 1 - d)
    <3>1. length[<<x', y'>>] = length[<<x - 1, y - 1>>]
      BY <2>1
    <3>2. /\ length[<<N, M>>] \in Nat /\ length[<<x, y>>] \in Nat /\ length[<<x', y'>>] \in Nat
          /\ length[<<N, M>>] <= length[<<x, y>>] + (Len(path_lengths) - 1 - d)
          /\ length[<<x, y>>] <= length[<<x', y'>>]
      BY <1>6, <2>1, <2>5, <3>1
    <3>3. Len(path_lengths) \in Nat /\ d \in Nat
      BY <1>1
    <3>. QED
      BY ONLY <3>2, <3>3
  <2>. QED
    BY <1>0, <1>2, <1>3, <1>4, <2>1, <2>3, <2>4, <2>5 DEF SInv
<1>. QED
  BY <1>7, <1>8, <1>9

\* What is left when all differences are printed are equal lines.
LEMMA PrintsShortest ==
    ASSUME IInv, SInv, Printed
    PROVE  SInv'
<1>. TypeOK
  BY DEF IInv
<1>1. /\ input' = input /\ printed' = printed /\ phase = "trace" /\ phase' = "printed"
      /\ d = 0 /\ x' = x
  BY DEF Printed, searchVars, traceVars
<1>2. expected' = expected /\ got' = got /\ N' = N /\ M' = M
  BY <1>1, Frame
<1>3. Distance' = Distance /\ Differences' = Differences
  BY <1>1, <1>2 DEF Distance, Differences
<1>4. PICK length : Shortest(input, length) /\ Distance = length[<<N, M>>]
  BY DistanceIsShortest
<1>5. /\ x \in Nat /\ x <= N /\ x <= M /\ y = x
      /\ N \in Nat /\ M \in Nat /\ N = Len(input.expected) /\ M = Len(input.got)
      /\ \A i \in 1..x : input.expected[i] = input.got[i]
      /\ Len(path_lengths) \in Nat
  <2>1. x' = y' /\ \A i \in 1..x' : expected'[i] = got'[i]
    BY <1>1, PrintedStep DEF IInv, Traced
  <2>2. y' = y
    BY DEF Printed, traceVars
  <2>. QED
    BY <1>1, <1>2, <2>1, <2>2, InputFacts, TypeFacts
<1>6. length[<<x, x>>] = 0
  <2>. DEFINE T == {a \in Nat : a <= x => length[<<a, a>>] = 0}
  <2>1. 0 \in T
    BY <1>4 DEF Shortest
  <2>2. ASSUME NEW a \in Nat, a \in T
        PROVE  a + 1 \in T
    <3>1. SUFFICES ASSUME a + 1 <= x
                   PROVE  length[<<a + 1, a + 1>>] = 0
      OBVIOUS
    <3>. DEFINE node == <<a + 1, a + 1>>
    <3>2. node \in Nodes(input) /\ node[1] = a + 1 /\ node[2] = a + 1
      BY <1>5, <3>1 DEF Nodes
    <3>. HIDE DEF node
    <3>3. input.expected[a + 1] = input.got[a + 1] /\ a + 1 > 0
      BY <1>5, <3>1
    <3>4. length[node] <= length[<<(a + 1) - 1, (a + 1) - 1>>] /\ length[node] \in Nat
      BY <1>4, <3>2, <3>3 DEF Shortest
    <3>5. (a + 1) - 1 = a /\ length[<<a, a>>] = 0
      BY <1>5, <2>2, <3>1
    <3>6. length[node] <= 0
      BY <3>4, <3>5
    <3>. QED
      BY <3>4, <3>6 DEF node
  <2>3. Nat \subseteq T
    <3>. HIDE DEF T
    <3>. QED
      BY <2>1, <2>2, AllNumbers
  <2>. QED
    BY <1>5, <2>3
<1>7. /\ Len(path_lengths) - 1 <= Distance
      /\ Cardinality(Differences) = Len(path_lengths) - 1 - d
      /\ Distance <= length[<<x, y>>] + (Len(path_lengths) - 1 - d)
  BY <1>1, <1>4 DEF SInv
<1>8. Distance \in Nat
  <2>1. <<N, M>> \in Nodes(input)
    BY <1>5 DEF Nodes
  <2>. QED
    BY <1>4, <2>1 DEF Shortest
<1>9. Cardinality(Differences) = Distance
  BY <1>1, <1>5, <1>6, <1>7, <1>8
<1>. QED
  BY <1>1, <1>3, <1>9 DEF SInv

\* What is printed is a smallest diff.
THEOREM DiffIsSmallest == Spec => []DiffSmallest
<1>1. Init => SInv
  BY DEF Init, SInv
<1>2. ASSUME IInv, SInv, [Next]_vars
      PROVE  SInv'
  <2>1. CASE Compare
    <3>1. phase' \in {"equal", "unequal", "search"}
      BY <2>1 DEF Compare
    <3>2. d' = 0 /\ k' = 0
      BY <1>2, <2>1 DEF Compare, searchVars, IInv, Fresh
    <3>3. ASSUME NEW j \in On(0)
          PROVE  ~(j < 0)
      BY OnZero
    <3>4. \A c \in 0..(0 - 1) : FALSE
      OBVIOUS
    <3>. QED
      BY <3>1, <3>2, <3>3, <3>4 DEF SInv
  <2>2. CASE Search
    BY <1>2, <2>2, SearchesAll
  <2>3. CASE Printed
    BY <1>2, <2>3, PrintsShortest
  <2>4. CASE StepRight \/ StepDown \/ UpDiagonal
    BY <1>2, <2>4, TracesShortest
  <2>6. CASE LineBeforeFirst
    BY <2>6 DEF LineBeforeFirst, SInv
  <2>5. CASE UNCHANGED vars
    <3>1. /\ input' = input /\ phase' = phase /\ d' = d /\ k' = k /\ v' = v
          /\ path_lengths' = path_lengths /\ x' = x /\ y' = y
          /\ lines' = lines /\ printed' = printed
      BY <2>5 DEF vars
    <3>2. N' = N /\ M' = M /\ expected' = expected /\ got' = got
      BY <3>1, Frame
    <3>3. Distance' = Distance /\ Differences' = Differences
      BY <3>1, <3>2 DEF Distance, Differences
    <3>. QED
      BY <1>2, <3>1, <3>2, <3>3 DEF SInv
  <2>. QED
    BY <1>2, <2>1, <2>2, <2>3, <2>4, <2>5, <2>6 DEF Next, Step
<1>3. SInv => DiffSmallest
  BY DEF SInv, DiffSmallest
<1>. QED
  BY <1>1, <1>2, <1>3, Inductive, PTL DEF Spec

=============================================================================
