--------------------------- MODULE StartupProofs ---------------------------
(***************************************************************************)
(* Proofs about nihtest up to the test's start: the test that is run is    *)
(* the one that was described, the options mean what they say, and the     *)
(* settings are those of the strongest source, for command lines and files *)
(* of any length.                                                          *)
(***************************************************************************)
EXTENDS ParserProofs, OptionsProofs

-----------------------------------------------------------------------------
(* What the lines say *)

LineNames == TestDirectives \cup ConfDirectives \cup {"comment", "unknown"}
SaidType == [name : LineNames, args : Seq(Text)]
SaidAt(f, k) == [name |-> LinesOf(f)[k].name, args |-> Arguments(f, k)]

LEMMA SaidAtIs ==
    ASSUME case \in CaseType, NEW f \in FileNames, NEW k \in 1..Whole(f)
    PROVE  SaidAt(f, k) \in SaidType
<1>1. LinesOf(f)[k] \in Line /\ Arguments(f, k) \in Seq(Text)
  BY LineIs DEF Whole
<1>2. LinesOf(f)[k].name \in LineNames
  BY <1>1 DEF Line, LineNames
<1>. QED
  BY <1>1, <1>2 DEF SaidAt, SaidType

LEMMA SaidUpToIs ==
    ASSUME case \in CaseType, NEW f \in FileNames, NEW names
    PROVE  /\ SaidUpTo(f, names) \in [0..Whole(f) -> Seq(SaidType)]
           /\ SaidUpTo(f, names)[0] = <<>>
           /\ \A k \in 1..Whole(f) :
                 SaidUpTo(f, names)[k] =
                    IF LinesOf(f)[k].name \in names
                    THEN Append(SaidUpTo(f, names)[k - 1], SaidAt(f, k))
                    ELSE SaidUpTo(f, names)[k - 1]
<1>. DEFINE S == 0..Whole(f)
            E(U, k) == IF k = 0 THEN <<>>
                       ELSE IF k \in Where(f, names)
                       THEN Append(U[k - 1], SaidAt(f, k))
                       ELSE U[k - 1]
            rank == [k \in S |-> k]
            D == [k \in S |-> [U \in [S -> Seq(SaidType)] |-> E(U, k)]]
<1>1. Whole(f) \in Nat /\ <<>> \in Seq(SaidType)
  BY LinesAre DEF Whole
<1>2. rank \in [S -> Nat] /\ \A k \in S : rank[k] = k
  BY <1>1
<1>3. \A k \in S : k \in Nat /\ (k # 0 => k - 1 \in S /\ rank[k - 1] < rank[k] /\ k \in 1..Whole(f))
  BY <1>1
<1>4. ASSUME NEW k \in S, NEW U, \A j \in S : rank[j] < rank[k] => U[j] \in Seq(SaidType)
      PROVE  E(U, k) \in Seq(SaidType)
  <2>. HIDE DEF S, rank, SaidType
  <2>1. CASE k = 0
    BY <1>1, <2>1
  <2>2. CASE k # 0
    <3>1. U[k - 1] \in Seq(SaidType) /\ SaidAt(f, k) \in SaidType
      BY <1>3, <1>4, <2>2, SaidAtIs
    <3>2. Append(U[k - 1], SaidAt(f, k)) \in Seq(SaidType)
      BY <3>1, AppendType
    <3>. QED
      BY <2>2, <3>1, <3>2
  <2>. QED
    BY <2>1, <2>2
<1>5. ASSUME NEW k \in S, NEW U, NEW W, \A j \in S : rank[j] < rank[k] => U[j] = W[j]
      PROVE  E(U, k) = E(W, k)
  <2>. HIDE DEF S, rank
  <2>1. CASE k = 0
    BY <2>1
  <2>2. CASE k # 0
    <3>1. U[k - 1] = W[k - 1]
      BY <1>3, <1>5, <2>2
    <3>. QED
      BY <2>2, <3>1
  <2>. QED
    BY <2>1, <2>2
<1>6. PICK U \in [S -> Seq(SaidType)] : \A k \in S : U[k] = D[k][U]
  <2>1. \A k \in S : \A U \in [S -> Seq(SaidType)] : D[k][U] = E(U, k) /\ E(U, k) \in Seq(SaidType)
    <3>. HIDE DEF S, E, rank
    <3>. QED
      BY <1>4
  <2>2. \A k \in S : \A U, W \in [S -> Seq(SaidType)] :
          (\A j \in S : rank[j] < rank[k] => U[j] = W[j]) => D[k][U] = D[k][W]
    <3>. HIDE DEF S, E, rank, D
    <3>. QED
      BY <1>5, <2>1
  <2>3. Seq(SaidType) # {}
    BY <1>1
  <2>. HIDE DEF S, D, rank, E
  <2>4. DependsBelow(S, Seq(SaidType), rank, D)
    BY <1>2, <2>1, <2>2, <2>3 DEF DependsBelow
  <2>5. \E solution : Satisfies(solution, S, Seq(SaidType), D)
    BY ONLY <2>4, Recursion, Zenon
  <2>. QED
    BY <2>5 DEF Satisfies
<1>7. U = [k \in S |-> E(U, k)]
  <2>. HIDE DEF S, E
  <2>. QED
    BY <1>6
<1>. DEFINE UpTo == CHOOSE W : W = [k \in S |-> E(W, k)]
<1>8. UpTo = [k \in S |-> E(UpTo, k)]
  <2>. HIDE DEF S, E
  <2>. QED
    BY <1>7
<1>9. SaidUpTo(f, names) = UpTo
  BY DEF SaidUpTo, SaidAt, Whole
<1>. HIDE DEF UpTo
<1>10. \A k \in S : UpTo[k] = E(UpTo, k)
  <2>. HIDE DEF S, E
  <2>. QED
    BY <1>8
<1>11. \A k \in S : UpTo[k] \in Seq(SaidType)
  <2>. DEFINE T == {k \in S : UpTo[k] \in Seq(SaidType)}
  <2>1. ASSUME NEW k \in S, \A j \in S : rank[j] < rank[k] => j \in T
        PROVE  k \in T
    <3>. HIDE DEF S, rank, E
    <3>. QED
      BY <1>4, <1>10, <2>1
  <2>2. S \subseteq T
    <3>. HIDE DEF S, rank, T
    <3>. QED
      BY <1>2, <2>1, ByRank
  <2>. HIDE DEF S
  <2>. QED
    BY <2>2
<1>12. UpTo \in [S -> Seq(SaidType)]
  <2>. HIDE DEF S, E
  <2>. QED
    BY <1>8, <1>11
<1>13. UpTo[0] = <<>>
  BY <1>1, <1>10
<1>14. ASSUME NEW k \in 1..Whole(f)
       PROVE  UpTo[k] = IF LinesOf(f)[k].name \in names
                        THEN Append(UpTo[k - 1], SaidAt(f, k)) ELSE UpTo[k - 1]
  <2>1. k \in S /\ k # 0
    BY <1>1
  <2>2. k \in Where(f, names) <=> LinesOf(f)[k].name \in names
    BY WhereIs
  <2>3. UpTo[k] = E(UpTo, k)
    BY <1>10, <2>1
  <2>. QED
    BY <2>1, <2>2, <2>3
<1>. QED
  BY <1>9, <1>12, <1>13, <1>14

\* A line more in a sequence that is made of what lines say.
LEMMA FirstsAppend ==
    ASSUME NEW said \in Seq(SaidType), NEW s \in SaidType
    PROVE  Firsts(Append(said, s)) = Append(Firsts(said), s.args[1])
<1>. DEFINE n == Len(said)
            u == Append(said, s)
<1>1. n \in Nat /\ Len(u) = n + 1 /\ u[n + 1] = s /\ \A k \in 1..n : u[k] = said[k]
  OBVIOUS
<1>. HIDE DEF u, n
<1>2. Firsts(u) = [k \in 1..(n + 1) |-> u[k].args[1]]
  BY <1>1 DEF Firsts
<1>3. Firsts(said) = [k \in 1..n |-> said[k].args[1]]
  BY DEF Firsts, n
<1>4. Len(Firsts(said)) = n
  BY <1>1, <1>3
<1>5. Append(Firsts(said), s.args[1]) =
         [k \in 1..(n + 1) |-> IF k = n + 1 THEN s.args[1] ELSE Firsts(said)[k]]
  BY <1>1, <1>3, <1>4
<1>6. \A k \in 1..(n + 1) : u[k].args[1] = IF k = n + 1 THEN s.args[1] ELSE Firsts(said)[k]
  BY <1>1, <1>3
<1>7. Firsts(u) = Append(Firsts(said), s.args[1])
  BY <1>2, <1>5, <1>6
<1>. QED
  BY <1>7 DEF u

\* Likewise for anything that is said of each line.
LEMMA EachAppend ==
    ASSUME NEW said \in Seq(SaidType), NEW s \in SaidType, NEW g
    PROVE  [k \in 1..Len(Append(said, s)) |-> g[Append(said, s)[k]]] =
              Append([k \in 1..Len(said) |-> g[said[k]]], g[s])
<1>. DEFINE n == Len(said)
            u == Append(said, s)
            each == [k \in 1..n |-> g[said[k]]]
<1>1. n \in Nat /\ Len(u) = n + 1 /\ u[n + 1] = s /\ \A k \in 1..n : u[k] = said[k]
  OBVIOUS
<1>. HIDE DEF u, n
<1>2. Len(each) = n
  BY <1>1
<1>3. Append(each, g[s]) = [k \in 1..(n + 1) |-> IF k = n + 1 THEN g[s] ELSE each[k]]
  BY <1>1, <1>2
<1>4. \A k \in 1..(n + 1) : g[u[k]] = IF k = n + 1 THEN g[s] ELSE each[k]
  BY <1>1
<1>5. [k \in 1..Len(u) |-> g[u[k]]] = Append(each, g[s])
  BY <1>1, <1>3, <1>4
<1>. QED
  BY <1>5 DEF u, n

LEMMA ToSetAppend ==
    ASSUME NEW S, NEW s \in Seq(S), NEW e
    PROVE  ToSet(Append(s, e)) = ToSet(s) \cup {e}
<1>1. Len(s) \in Nat /\ Len(Append(s, e)) = Len(s) + 1 /\ Append(s, e)[Len(s) + 1] = e
      /\ \A k \in 1..Len(s) : Append(s, e)[k] = s[k]
  OBVIOUS
<1>. HIDE DEF Append
<1>2. \A x : x \in ToSet(Append(s, e)) <=> \E k \in 1..(Len(s) + 1) : x = Append(s, e)[k]
  BY <1>1 DEF ToSet
<1>3. \A x : x \in ToSet(s) <=> \E k \in 1..Len(s) : x = s[k]
  BY DEF ToSet
<1>4. 1..(Len(s) + 1) = 1..Len(s) \cup {Len(s) + 1}
  BY <1>1
<1>. QED
  BY <1>1, <1>2, <1>3, <1>4

LEMMA SameSaid ==
    ASSUME case' = case
    PROVE  \A f, names : SaidUpTo(f, names)' = SaidUpTo(f, names)
BY DEF SaidUpTo, LinesOf, Where, Arguments

-----------------------------------------------------------------------------
(* The invariant: what has been read so far is what the lines say so far *)

\* The last line of a directive up to line n, and a field it fills.
LastLine(f, d, n, k) ==
    /\ k \in 1..n /\ LinesOf(f)[k].name = d
    /\ \A j \in 1..n : LinesOf(f)[j].name = d => j <= k
SaysOne(f, d, default, n, value) ==
    /\ (\A k \in 1..n : LinesOf(f)[k].name # d) => value = default
    /\ \A k \in 1..n : LastLine(f, d, n, k) => value = Arguments(f, k)[1]
SaysAll(f, d, n, value) ==
    /\ (\A k \in 1..n : LinesOf(f)[k].name # d) => value = <<>>
    /\ \A k \in 1..n : LastLine(f, d, n, k) => value = Arguments(f, k)

FileDirectives == {"file", "file-del", "file-new"}

SinglesSaid(n) ==
    /\ SaysOne("test", "stdin-file", <<>>, n, test.input_file)
    /\ SaysOne("test", "return", <<>>, n, test.exit_code)
    /\ SaysOne("test", "preload", <<>>, n, test.preload_library)
    /\ SaysOne("test", "program", <<>>, n, test.program)
ListsSaid(n) ==
    /\ SaysAll("test", "args", n, test.arguments)
    /\ SaysAll("test", "features", n, test.required_features)
    /\ SaysAll("test", "precheck", n, test.precheck_command)
TextsSaid(n) ==
    /\ test.output = Firsts(SaidUpTo("test", {"stdout"})[n])
    /\ test.error_output = Firsts(SaidUpTo("test", {"stderr"})[n])
    /\ test.input = Firsts(SaidUpTo("test", {"stdin"})[n])
FilesSaid(n) ==
    test.files = [k \in 1..Len(SaidUpTo("test", FileDirectives)[n]) |->
                     LET s == SaidUpTo("test", FileDirectives)[n][k] IN FileOf(s.name, s.args)]
EnvironmentSaid(n) ==
    test.environment = {<<s.args[1], s.args[2]>> : s \in ToSet(SaidUpTo("test", {"setenv"})[n])}
ReplaceSaid(n) ==
    test.error_output_replace =
        [k \in 1..Len(SaidUpTo("test", {"stderr-replace"})[n]) |->
            LET s == SaidUpTo("test", {"stderr-replace"})[n][k] IN <<s.args[1], s.args[2]>>]
TestSaid(n) ==
    /\ SinglesSaid(n) /\ ListsSaid(n) /\ TextsSaid(n)
    /\ FilesSaid(n) /\ EnvironmentSaid(n) /\ ReplaceSaid(n)

ProgramSaid(n) == SaysOne("conf", "default-program", <<>>, n, configuration.default_program)
ComparesSaid(n) ==
    configuration.file_compare =
        {<<Extensions(s.args), SubSeq(s.args, 3, Len(s.args))>> :
            s \in ToSet(SaidUpTo("conf", {"file-compare"})[n])}
\* The settings as the file has them; once it has been read, those of main before it.
SettingsSaid(n) ==
    /\ stage # "test" =>
          /\ SaysOne("conf", "keep-sandbox", <<"never">>, n, configuration.keep_sandbox)
          /\ SaysOne("conf", "print-results", <<"failed">>, n, configuration.print_results)
    /\ stage = "test" =>
          /\ IF keep_sandbox = "unset"
             THEN SaysOne("conf", "keep-sandbox", <<"never">>, n, configuration.keep_sandbox)
             ELSE configuration.keep_sandbox = <<keep_sandbox>>
          /\ IF print_results = "unset"
             THEN SaysOne("conf", "print-results", <<"failed">>, n, configuration.print_results)
             ELSE configuration.print_results = <<print_results>>
ConfSaid(n) == ProgramSaid(n) /\ ComparesSaid(n) /\ SettingsSaid(n)

Described ==
    /\ \A n \in Nat : n = LinesRead("test") /\ outcome = "running" /\ Faultless("test", n) => TestSaid(n)
    /\ \A n \in Nat : n = LinesRead("conf") /\ Faultless("conf", n) => ConfSaid(n)
    /\ TestAsDescribed

\* Files are read when there are no more options.
OptionsFirst == stage = "options" \/ options = "done"

\* A test that is refused for nothing else has no program; one that is run has one.
ProgramKnown ==
    /\ outcome = "refused" /\ reading = "test" /\ open /\ Where("test", {"return"}) # {}
          /\ Faultless("test", Whole("test")) => ProgramOf = <<>>
    /\ outcome = "loaded" => ProgramOf # <<>>

SInv == Inv /\ Described /\ OptionsFirst /\ ProgramKnown

\* What the last line says when there is one line more.
LEMMA SaysOneMore ==
    ASSUME NEW f, NEW d, NEW default, NEW k \in Nat \ {0}, NEW v, NEW w,
           SaysOne(f, d, default, k - 1, v),
           w = IF LinesOf(f)[k].name = d THEN Arguments(f, k)[1] ELSE v
    PROVE  SaysOne(f, d, default, k, w)
<1>. DEFINE name(j) == LinesOf(f)[j].name
            arg(j) == Arguments(f, j)[1]
<1>. HIDE DEF name, arg
<1>1. /\ (\A j \in 1..(k - 1) : name(j) # d) => v = default
      /\ \A j \in 1..(k - 1) : name(j) = d /\ (\A i \in 1..(k - 1) : name(i) = d => i <= j) => v = arg(j)
      /\ w = IF name(k) = d THEN arg(k) ELSE v
  BY DEF SaysOne, LastLine, name, arg
<1>2. \A j : j \in 1..k <=> j \in 1..(k - 1) \/ j = k
  OBVIOUS
<1>3. (\A j \in 1..k : name(j) # d) => w = default
  BY <1>1, <1>2
<1>4. ASSUME NEW j \in 1..k, name(j) = d, \A i \in 1..k : name(i) = d => i <= j
      PROVE  w = arg(j)
  <2>1. CASE j = k
    BY <1>1, <1>4, <2>1
  <2>2. CASE j # k
    <3>1. j \in 1..(k - 1) /\ ~(k <= j)
      BY <2>2
    <3>2. name(k) # d
      BY <1>4, <3>1
    <3>3. \A i \in 1..(k - 1) : name(i) = d => i <= j
      BY <1>2, <1>4
    <3>. QED
      BY <1>1, <1>4, <3>1, <3>2, <3>3
  <2>. QED
    BY <2>1, <2>2
<1>. QED
  BY <1>3, <1>4 DEF SaysOne, LastLine, name, arg

LEMMA SaysAllMore ==
    ASSUME NEW f, NEW d, NEW k \in Nat \ {0}, NEW v, NEW w,
           SaysAll(f, d, k - 1, v),
           w = IF LinesOf(f)[k].name = d THEN Arguments(f, k) ELSE v
    PROVE  SaysAll(f, d, k, w)
<1>. DEFINE name(j) == LinesOf(f)[j].name
            arg(j) == Arguments(f, j)
<1>. HIDE DEF name, arg
<1>1. /\ (\A j \in 1..(k - 1) : name(j) # d) => v = <<>>
      /\ \A j \in 1..(k - 1) : name(j) = d /\ (\A i \in 1..(k - 1) : name(i) = d => i <= j) => v = arg(j)
      /\ w = IF name(k) = d THEN arg(k) ELSE v
  BY DEF SaysAll, LastLine, name, arg
<1>2. \A j : j \in 1..k <=> j \in 1..(k - 1) \/ j = k
  OBVIOUS
<1>3. (\A j \in 1..k : name(j) # d) => w = <<>>
  BY <1>1, <1>2
<1>4. ASSUME NEW j \in 1..k, name(j) = d, \A i \in 1..k : name(i) = d => i <= j
      PROVE  w = arg(j)
  <2>1. CASE j = k
    BY <1>1, <1>4, <2>1
  <2>2. CASE j # k
    <3>1. j \in 1..(k - 1) /\ ~(k <= j)
      BY <2>2
    <3>2. name(k) # d
      BY <1>4, <3>1
    <3>3. \A i \in 1..(k - 1) : name(i) = d => i <= j
      BY <1>2, <1>4
    <3>. QED
      BY <1>1, <1>4, <3>1, <3>2, <3>3
  <2>. QED
    BY <2>1, <2>2
<1>. QED
  BY <1>3, <1>4 DEF SaysAll, LastLine, name, arg

-----------------------------------------------------------------------------
(* A line more *)

\* What a faultless line does.
TakesTestLine(k) ==
    /\ case \in CaseType /\ case' = case /\ k \in 1..Whole("test")
    /\ test \in TestType
    /\ LinesOf("test")[k].name \in TestDirectives \cup {"comment"}
    /\ test' = IF LinesOf("test")[k].name = "comment" THEN test
               ELSE TestTakes(test, LinesOf("test")[k].name, Arguments("test", k))

LEMMA LinesBefore ==
    ASSUME case \in CaseType, NEW f \in FileNames, NEW k \in 1..Whole(f)
    PROVE  k \in Nat \ {0} /\ k - 1 \in 0..Whole(f) /\ k \in 0..Whole(f) /\ Whole(f) \in Nat
<1>1. Whole(f) \in Nat
  BY LinesAre DEF Whole
<1>. QED
  BY <1>1

LEMMA SinglesMore ==
    ASSUME NEW k, TakesTestLine(k), SinglesSaid(k - 1)
    PROVE  SinglesSaid(k)'
<1>. DEFINE d == LinesOf("test")[k].name
            a == Arguments("test", k)
<1>1. k \in Nat \ {0}
  BY LinesBefore DEF TakesTestLine, FileNames
<1>2. /\ test'.input_file = IF d = "stdin-file" THEN a[1] ELSE test.input_file
      /\ test'.exit_code = IF d = "return" THEN a[1] ELSE test.exit_code
      /\ test'.preload_library = IF d = "preload" THEN a[1] ELSE test.preload_library
      /\ test'.program = IF d = "program" THEN a[1] ELSE test.program
  <2>1. CASE d = "comment"
    BY <2>1 DEF TakesTestLine
  <2>2. CASE d # "comment"
    BY <2>2, TestTakesFields DEF TakesTestLine
  <2>. QED
    BY <2>1, <2>2
<1>3. /\ SaysOne("test", "stdin-file", <<>>, k, test'.input_file)
      /\ SaysOne("test", "return", <<>>, k, test'.exit_code)
      /\ SaysOne("test", "preload", <<>>, k, test'.preload_library)
      /\ SaysOne("test", "program", <<>>, k, test'.program)
  BY <1>1, <1>2, SaysOneMore DEF SinglesSaid
<1>4. /\ \A f : LinesOf(f)' = LinesOf(f)
      /\ \A f, j : Arguments(f, j)' = Arguments(f, j)
  BY SameFiles DEF TakesTestLine
<1>5. \A f, e, j : LastLine(f, e, k, j)' <=> LastLine(f, e, k, j)
  BY <1>4 DEF LastLine
<1>. QED
  BY <1>3, <1>4, <1>5 DEF SinglesSaid, SaysOne

LEMMA ListsMore ==
    ASSUME NEW k, TakesTestLine(k), ListsSaid(k - 1)
    PROVE  ListsSaid(k)'
<1>. DEFINE d == LinesOf("test")[k].name
            a == Arguments("test", k)
<1>1. k \in Nat \ {0}
  BY LinesBefore DEF TakesTestLine, FileNames
<1>2. /\ test'.arguments = IF d = "args" THEN a ELSE test.arguments
      /\ test'.required_features = IF d = "features" THEN a ELSE test.required_features
      /\ test'.precheck_command = IF d = "precheck" THEN a ELSE test.precheck_command
  <2>1. CASE d = "comment"
    BY <2>1 DEF TakesTestLine
  <2>2. CASE d # "comment"
    BY <2>2, TestTakesFields DEF TakesTestLine
  <2>. QED
    BY <2>1, <2>2
<1>3. /\ SaysAll("test", "args", k, test'.arguments)
      /\ SaysAll("test", "features", k, test'.required_features)
      /\ SaysAll("test", "precheck", k, test'.precheck_command)
  BY <1>1, <1>2, SaysAllMore DEF ListsSaid
<1>4. /\ \A f : LinesOf(f)' = LinesOf(f)
      /\ \A f, j : Arguments(f, j)' = Arguments(f, j)
  BY SameFiles DEF TakesTestLine
<1>5. \A f, e, j : LastLine(f, e, k, j)' <=> LastLine(f, e, k, j)
  BY <1>4 DEF LastLine
<1>. QED
  BY <1>3, <1>4, <1>5 DEF ListsSaid, SaysAll

\* What lines of some directives have said up to a line.
LEMMA SaidMore ==
    ASSUME case \in CaseType, NEW f \in FileNames, NEW k \in 1..Whole(f), NEW names
    PROVE  /\ SaidUpTo(f, names)[k - 1] \in Seq(SaidType)
           /\ SaidAt(f, k) \in SaidType
           /\ SaidUpTo(f, names)[k] =
                 IF LinesOf(f)[k].name \in names
                 THEN Append(SaidUpTo(f, names)[k - 1], SaidAt(f, k))
                 ELSE SaidUpTo(f, names)[k - 1]
<1>1. k - 1 \in 0..Whole(f)
  BY LinesBefore
<1>2. SaidUpTo(f, names) \in [0..Whole(f) -> Seq(SaidType)]
  BY SaidUpToIs
<1>3. SaidUpTo(f, names)[k - 1] \in Seq(SaidType)
  BY <1>1, <1>2
<1>. QED
  BY <1>3, SaidUpToIs, SaidAtIs

LEMMA TextsMore ==
    ASSUME NEW k, TakesTestLine(k), TextsSaid(k - 1)
    PROVE  TextsSaid(k)'
<1>. DEFINE d == LinesOf("test")[k].name
            a == Arguments("test", k)
<1>1. case \in CaseType /\ "test" \in FileNames /\ k \in 1..Whole("test")
  BY DEF TakesTestLine, FileNames
<1>2. /\ test'.output = IF d = "stdout" THEN Append(test.output, a[1]) ELSE test.output
      /\ test'.error_output = IF d = "stderr" THEN Append(test.error_output, a[1]) ELSE test.error_output
      /\ test'.input = IF d = "stdin" THEN Append(test.input, a[1]) ELSE test.input
  <2>1. CASE d = "comment"
    BY <2>1 DEF TakesTestLine
  <2>2. CASE d # "comment"
    BY <2>2, TestTakesFields DEF TakesTestLine
  <2>. QED
    BY <2>1, <2>2
<1>3. \A e : Firsts(SaidUpTo("test", {e})[k]) =
                IF d = e THEN Append(Firsts(SaidUpTo("test", {e})[k - 1]), a[1])
                ELSE Firsts(SaidUpTo("test", {e})[k - 1])
  <2>. TAKE e
  <2>1. /\ SaidUpTo("test", {e})[k - 1] \in Seq(SaidType)
        /\ SaidAt("test", k) \in SaidType
        /\ SaidUpTo("test", {e})[k] =
                 IF LinesOf("test")[k].name \in {e}
                 THEN Append(SaidUpTo("test", {e})[k - 1], SaidAt("test", k))
                 ELSE SaidUpTo("test", {e})[k - 1]
    BY <1>1, SaidMore
  <2>2. Firsts(Append(SaidUpTo("test", {e})[k - 1], SaidAt("test", k))) =
           Append(Firsts(SaidUpTo("test", {e})[k - 1]), SaidAt("test", k).args[1])
    BY <2>1, FirstsAppend
  <2>3. SaidAt("test", k).args[1] = a[1]
    BY DEF SaidAt
  <2>. QED
    BY <2>1, <2>2, <2>3
<1>4. /\ test'.output = Firsts(SaidUpTo("test", {"stdout"})[k])
      /\ test'.error_output = Firsts(SaidUpTo("test", {"stderr"})[k])
      /\ test'.input = Firsts(SaidUpTo("test", {"stdin"})[k])
  BY <1>2, <1>3 DEF TextsSaid
<1>5. \A f, names : SaidUpTo(f, names)' = SaidUpTo(f, names)
  BY SameSaid DEF TakesTestLine
<1>6. \A s : Firsts(s)' = Firsts(s)
  BY DEF Firsts
<1>. QED
  BY <1>4, <1>5, <1>6 DEF TextsSaid

LEMMA FilesMore ==
    ASSUME NEW k, TakesTestLine(k), FilesSaid(k - 1)
    PROVE  FilesSaid(k)'
<1>. DEFINE d == LinesOf("test")[k].name
            a == Arguments("test", k)
            before == SaidUpTo("test", FileDirectives)[k - 1]
            after == SaidUpTo("test", FileDirectives)[k]
            s == SaidAt("test", k)
            g == [x \in SaidType |-> FileOf(x.name, x.args)]
<1>1. case \in CaseType /\ "test" \in FileNames /\ k \in 1..Whole("test")
  BY DEF TakesTestLine, FileNames
<1>2. test'.files = IF d \in FileDirectives THEN Append(test.files, FileOf(d, a)) ELSE test.files
  <2>1. CASE d = "comment"
    BY <2>1 DEF TakesTestLine, FileDirectives
  <2>2. CASE d # "comment"
    BY <2>2, TestTakesFields DEF TakesTestLine, FileDirectives
  <2>. QED
    BY <2>1, <2>2
<1>3. /\ before \in Seq(SaidType) /\ s \in SaidType
      /\ after = IF d \in FileDirectives THEN Append(before, s) ELSE before
  BY <1>1, SaidMore
<1>4. g[s] = FileOf(d, a)
  <2>1. g[s] = FileOf(s.name, s.args)
    BY <1>3
  <2>2. s.name = d /\ s.args = a
    BY DEF SaidAt
  <2>. QED
    BY <2>1, <2>2
<1>5. \A u \in Seq(SaidType) : [j \in 1..Len(u) |-> FileOf(u[j].name, u[j].args)] = [j \in 1..Len(u) |-> g[u[j]]]
  <2>. SUFFICES ASSUME NEW u \in Seq(SaidType)
                PROVE  [j \in 1..Len(u) |-> FileOf(u[j].name, u[j].args)] = [j \in 1..Len(u) |-> g[u[j]]]
    OBVIOUS
  <2>1. \A j \in 1..Len(u) : u[j] \in SaidType
    OBVIOUS
  <2>2. \A j \in 1..Len(u) : g[u[j]] = FileOf(u[j].name, u[j].args)
    BY <2>1
  <2>. QED
    BY <2>2
<1>. HIDE DEF g, s, after, before
<1>6. test.files = [j \in 1..Len(before) |-> g[before[j]]]
  <2>1. test.files = [j \in 1..Len(before) |-> FileOf(before[j].name, before[j].args)]
    BY DEF FilesSaid, before
  <2>. QED
    BY <1>3, <1>5, <2>1
<1>7. [j \in 1..Len(Append(before, s)) |-> g[Append(before, s)[j]]] =
         Append([j \in 1..Len(before) |-> g[before[j]]], g[s])
  BY <1>3, EachAppend
<1>8. after \in Seq(SaidType)
  BY <1>3, AppendType
<1>9. test'.files = [j \in 1..Len(after) |-> g[after[j]]]
  BY <1>2, <1>3, <1>4, <1>6, <1>7
<1>10. test'.files = [j \in 1..Len(after) |-> FileOf(after[j].name, after[j].args)]
  BY <1>5, <1>8, <1>9
<1>11. SaidUpTo("test", FileDirectives)' = SaidUpTo("test", FileDirectives)
  BY SameSaid DEF TakesTestLine
<1>. QED
  BY <1>10, <1>11 DEF FilesSaid, after

LEMMA EnvironmentMore ==
    ASSUME NEW k, TakesTestLine(k), EnvironmentSaid(k - 1)
    PROVE  EnvironmentSaid(k)'
<1>. DEFINE d == LinesOf("test")[k].name
            a == Arguments("test", k)
            before == SaidUpTo("test", {"setenv"})[k - 1]
            after == SaidUpTo("test", {"setenv"})[k]
            s == SaidAt("test", k)
<1>1. case \in CaseType /\ "test" \in FileNames /\ k \in 1..Whole("test")
  BY DEF TakesTestLine, FileNames
<1>2. test'.environment = IF d = "setenv" THEN test.environment \cup {<<a[1], a[2]>>}
                          ELSE test.environment
  <2>1. CASE d = "comment"
    BY <2>1 DEF TakesTestLine
  <2>2. CASE d # "comment"
    <3>1. test \in TestType /\ d \in TestDirectives /\ test' = TestTakes(test, d, a)
      BY <2>2 DEF TakesTestLine
    <3>. HIDE DEF d, a
    <3>. QED
      BY ONLY <3>1, TestTakesEnvironment
  <2>. QED
    BY <2>1, <2>2
<1>3. /\ before \in Seq(SaidType) /\ s \in SaidType
      /\ after = IF d \in {"setenv"} THEN Append(before, s) ELSE before
  BY <1>1, SaidMore
<1>4. s.args = a
  BY DEF SaidAt
<1>. HIDE DEF s, after, before
<1>5. ToSet(Append(before, s)) = ToSet(before) \cup {s}
  BY <1>3, ToSetAppend
<1>6. ToSet(after) = IF d = "setenv" THEN ToSet(before) \cup {s} ELSE ToSet(before)
  BY <1>3, <1>5
<1>7. test.environment = {<<x.args[1], x.args[2]>> : x \in ToSet(before)}
  BY DEF EnvironmentSaid, before
<1>8. test'.environment = {<<x.args[1], x.args[2]>> : x \in ToSet(after)}
  BY <1>2, <1>4, <1>6, <1>7
<1>9. SaidUpTo("test", {"setenv"})' = SaidUpTo("test", {"setenv"})
  BY SameSaid DEF TakesTestLine
<1>. QED
  BY <1>8, <1>9 DEF EnvironmentSaid, after

LEMMA ReplaceMore ==
    ASSUME NEW k, TakesTestLine(k), ReplaceSaid(k - 1)
    PROVE  ReplaceSaid(k)'
<1>. DEFINE d == LinesOf("test")[k].name
            a == Arguments("test", k)
            before == SaidUpTo("test", {"stderr-replace"})[k - 1]
            after == SaidUpTo("test", {"stderr-replace"})[k]
            s == SaidAt("test", k)
            g == [x \in SaidType |-> <<x.args[1], x.args[2]>>]
<1>1. case \in CaseType /\ "test" \in FileNames /\ k \in 1..Whole("test")
  BY DEF TakesTestLine, FileNames
<1>2. test'.error_output_replace = IF d = "stderr-replace"
                                   THEN Append(test.error_output_replace, <<a[1], a[2]>>)
                                   ELSE test.error_output_replace
  <2>1. CASE d = "comment"
    BY <2>1 DEF TakesTestLine
  <2>2. CASE d # "comment"
    BY <2>2, TestTakesReplace DEF TakesTestLine
  <2>. QED
    BY <2>1, <2>2
<1>3. /\ before \in Seq(SaidType) /\ s \in SaidType
      /\ after = IF d \in {"stderr-replace"} THEN Append(before, s) ELSE before
  BY <1>1, SaidMore
<1>4. g[s] = <<a[1], a[2]>>
  <2>1. g[s] = <<s.args[1], s.args[2]>>
    BY <1>3
  <2>2. s.args = a
    BY DEF SaidAt
  <2>. QED
    BY <2>1, <2>2
<1>5. \A u \in Seq(SaidType) : [j \in 1..Len(u) |-> <<u[j].args[1], u[j].args[2]>>] = [j \in 1..Len(u) |-> g[u[j]]]
  <2>. SUFFICES ASSUME NEW u \in Seq(SaidType)
                PROVE  [j \in 1..Len(u) |-> <<u[j].args[1], u[j].args[2]>>] = [j \in 1..Len(u) |-> g[u[j]]]
    OBVIOUS
  <2>1. \A j \in 1..Len(u) : u[j] \in SaidType
    OBVIOUS
  <2>2. \A j \in 1..Len(u) : g[u[j]] = <<u[j].args[1], u[j].args[2]>>
    BY <2>1
  <2>. QED
    BY <2>2
<1>. HIDE DEF g, s, after, before
<1>6. test.error_output_replace = [j \in 1..Len(before) |-> g[before[j]]]
  <2>1. test.error_output_replace = [j \in 1..Len(before) |-> <<before[j].args[1], before[j].args[2]>>]
    BY DEF ReplaceSaid, before
  <2>. QED
    BY <1>3, <1>5, <2>1
<1>7. [j \in 1..Len(Append(before, s)) |-> g[Append(before, s)[j]]] =
         Append([j \in 1..Len(before) |-> g[before[j]]], g[s])
  BY <1>3, EachAppend
<1>8. after \in Seq(SaidType)
  BY <1>3, AppendType
<1>9. test'.error_output_replace = [j \in 1..Len(after) |-> g[after[j]]]
  BY <1>2, <1>3, <1>4, <1>6, <1>7
<1>10. test'.error_output_replace = [j \in 1..Len(after) |-> <<after[j].args[1], after[j].args[2]>>]
  BY <1>5, <1>8, <1>9
<1>11. SaidUpTo("test", {"stderr-replace"})' = SaidUpTo("test", {"stderr-replace"})
  BY SameSaid DEF TakesTestLine
<1>. QED
  BY <1>10, <1>11 DEF ReplaceSaid, after

\* Likewise for the configuration.
TakesConfLine(k) ==
    /\ case \in CaseType /\ case' = case /\ k \in 1..Whole("conf")
    /\ configuration \in ConfType
    /\ LinesOf("conf")[k].name \in ConfDirectives \cup {"comment"}
    /\ configuration' = IF LinesOf("conf")[k].name = "comment" THEN configuration
                        ELSE ConfTakes(configuration, LinesOf("conf")[k].name, Arguments("conf", k))

LEMMA ConfFields ==
    ASSUME NEW k, TakesConfLine(k), NEW d, d = LinesOf("conf")[k].name,
           NEW a, a = Arguments("conf", k)
    PROVE  /\ configuration'.default_program = IF d = "default-program" THEN a[1]
                                               ELSE configuration.default_program
           /\ configuration'.keep_sandbox = IF d = "keep-sandbox" THEN a[1]
                                            ELSE configuration.keep_sandbox
           /\ configuration'.print_results = IF d = "print-results" THEN a[1]
                                             ELSE configuration.print_results
           /\ configuration'.file_compare =
                 IF d = "file-compare"
                 THEN configuration.file_compare \cup {<<Extensions(a), SubSeq(a, 3, Len(a))>>}
                 ELSE configuration.file_compare
<1>1. CASE d = "comment"
  BY <1>1 DEF TakesConfLine
<1>2. CASE d # "comment"
  <2>1. d \in ConfDirectives /\ configuration \in ConfType /\ configuration' = ConfTakes(configuration, d, a)
    BY <1>2 DEF TakesConfLine
  <2>2. ConfTakes(configuration, d, a).file_compare =
           IF d = "file-compare"
           THEN configuration.file_compare \cup {<<Extensions(a), SubSeq(a, 3, Len(a))>>}
           ELSE configuration.file_compare
    BY ONLY <2>1, ConfTakesCompares
  <2>. QED
    BY <2>1, <2>2, ConfTakesFields
<1>. QED
  BY <1>1, <1>2

LEMMA ConfMore ==
    ASSUME NEW k, TakesConfLine(k), ConfSaid(k - 1), stage # "test", stage' = stage
    PROVE  ConfSaid(k)'
<1>. DEFINE d == LinesOf("conf")[k].name
            a == Arguments("conf", k)
            before == SaidUpTo("conf", {"file-compare"})[k - 1]
            after == SaidUpTo("conf", {"file-compare"})[k]
            s == SaidAt("conf", k)
<1>1. case \in CaseType /\ "conf" \in FileNames /\ k \in 1..Whole("conf")
  BY DEF TakesConfLine, FileNames
<1>2. k \in Nat \ {0}
  BY <1>1, LinesBefore
<1>3. /\ configuration'.default_program = IF d = "default-program" THEN a[1]
                                          ELSE configuration.default_program
      /\ configuration'.keep_sandbox = IF d = "keep-sandbox" THEN a[1]
                                       ELSE configuration.keep_sandbox
      /\ configuration'.print_results = IF d = "print-results" THEN a[1]
                                        ELSE configuration.print_results
      /\ configuration'.file_compare =
            IF d = "file-compare"
            THEN configuration.file_compare \cup {<<Extensions(a), SubSeq(a, 3, Len(a))>>}
            ELSE configuration.file_compare
  BY ConfFields
<1>4. /\ SaysOne("conf", "default-program", <<>>, k, configuration'.default_program)
      /\ SaysOne("conf", "keep-sandbox", <<"never">>, k, configuration'.keep_sandbox)
      /\ SaysOne("conf", "print-results", <<"failed">>, k, configuration'.print_results)
  BY <1>2, <1>3, SaysOneMore DEF ConfSaid, ProgramSaid, SettingsSaid
<1>5. /\ \A f : LinesOf(f)' = LinesOf(f)
      /\ \A f, j : Arguments(f, j)' = Arguments(f, j)
  BY SameFiles DEF TakesConfLine
<1>6. \A f, e, j : LastLine(f, e, k, j)' <=> LastLine(f, e, k, j)
  BY <1>5 DEF LastLine
<1>7. ProgramSaid(k)' /\ SettingsSaid(k)'
  BY <1>4, <1>5, <1>6 DEF ProgramSaid, SettingsSaid, SaysOne
<1>8. /\ before \in Seq(SaidType) /\ s \in SaidType
      /\ after = IF d \in {"file-compare"} THEN Append(before, s) ELSE before
  BY <1>1, SaidMore
<1>9. s.args = a
  BY DEF SaidAt
<1>. HIDE DEF s, after, before
<1>10. ToSet(Append(before, s)) = ToSet(before) \cup {s}
  BY <1>8, ToSetAppend
<1>11. ToSet(after) = IF d = "file-compare" THEN ToSet(before) \cup {s} ELSE ToSet(before)
  BY <1>8, <1>10
<1>12. configuration.file_compare =
          {<<Extensions(x.args), SubSeq(x.args, 3, Len(x.args))>> : x \in ToSet(before)}
  BY DEF ConfSaid, ComparesSaid, before
<1>13. configuration'.file_compare =
          {<<Extensions(x.args), SubSeq(x.args, 3, Len(x.args))>> : x \in ToSet(after)}
  BY <1>3, <1>9, <1>11, <1>12
<1>14. SaidUpTo("conf", {"file-compare"})' = SaidUpTo("conf", {"file-compare"})
  BY SameSaid DEF TakesConfLine
<1>15. ComparesSaid(k)'
  BY <1>13, <1>14 DEF ComparesSaid, after
<1>. QED
  BY <1>7, <1>15 DEF ConfSaid

-----------------------------------------------------------------------------
(* The steps *)

\* What was said stays so where nothing is read.
LEMMA TestSaidStays ==
    ASSUME case' = case, test' = test
    PROVE  \A n : TestSaid(n) => TestSaid(n)'
<1>1. /\ \A f : LinesOf(f)' = LinesOf(f)
      /\ \A f, k : Arguments(f, k)' = Arguments(f, k)
  BY SameFiles
<1>2. \A f, names : SaidUpTo(f, names)' = SaidUpTo(f, names)
  BY SameSaid
<1>3. \A f, d, n, k : LastLine(f, d, n, k)' <=> LastLine(f, d, n, k)
  BY <1>1 DEF LastLine
<1>4. \A n : SinglesSaid(n) => SinglesSaid(n)'
  BY <1>1, <1>3 DEF SinglesSaid, SaysOne
<1>5. \A n : ListsSaid(n) => ListsSaid(n)'
  BY <1>1, <1>3 DEF ListsSaid, SaysAll
<1>6. \A n : TextsSaid(n) => TextsSaid(n)'
  BY <1>2 DEF TextsSaid
<1>7. \A n : FilesSaid(n) => FilesSaid(n)'
  BY <1>2 DEF FilesSaid
<1>8. \A n : EnvironmentSaid(n) => EnvironmentSaid(n)'
  BY <1>2 DEF EnvironmentSaid
<1>9. \A n : ReplaceSaid(n) => ReplaceSaid(n)'
  BY <1>2 DEF ReplaceSaid
<1>. QED
  BY <1>4, <1>5, <1>6, <1>7, <1>8, <1>9 DEF TestSaid

LEMMA ConfSaidStays ==
    ASSUME case' = case, configuration' = configuration, stage' = stage \/ stage' # "test",
           stage = "test" => stage' = "test" /\ keep_sandbox' = keep_sandbox
                                             /\ print_results' = print_results
    PROVE  \A n : ConfSaid(n) => ConfSaid(n)'
<1>1. /\ \A f : LinesOf(f)' = LinesOf(f)
      /\ \A f, k : Arguments(f, k)' = Arguments(f, k)
  BY SameFiles
<1>2. \A f, names : SaidUpTo(f, names)' = SaidUpTo(f, names)
  BY SameSaid
<1>3. \A f, d, n, k : LastLine(f, d, n, k)' <=> LastLine(f, d, n, k)
  BY <1>1 DEF LastLine
<1>4. \A n : ProgramSaid(n) => ProgramSaid(n)'
  BY <1>1, <1>3 DEF ProgramSaid, SaysOne
<1>5. \A n : ComparesSaid(n) => ComparesSaid(n)'
  BY <1>2 DEF ComparesSaid
<1>6. \A n : SettingsSaid(n) => SettingsSaid(n)'
  BY <1>1, <1>3 DEF SettingsSaid, SaysOne
<1>. QED
  BY <1>4, <1>5, <1>6 DEF ConfSaid

LEMMA LineDescribes ==
    ASSUME SInv, ReadsLine, UNCHANGED <<files, stage, optionVars>>,
           stage = "test" \/ (stage = "configuration" /\ reading = "conf")
    PROVE  Described'
<1>. DEFINE k == line_no + 1
            d == LinesOf(reading)[k].name
            a == Arguments(reading, k)
<1>1. /\ outcome = "running" /\ open
      /\ reading \in FileNames /\ case \in CaseType /\ line_no \in Nat
      /\ k \in 1..Whole(reading) /\ line = LinesOf(reading)[k]
      /\ UNCHANGED <<case, reading, open>>
      /\ outcome' \in {"running", "aborted"}
      /\ outcome' = "aborted" => reading = "test"
      /\ outcome' = "running" =>
            /\ test' = IF reading = "test" /\ Accepts(reading, k) THEN TestTakes(test, d, a) ELSE test
            /\ configuration' = IF reading = "conf" /\ Accepts(reading, k)
                                THEN ConfTakes(configuration, d, a) ELSE configuration
      /\ outcome' = "aborted" => UNCHANGED <<test, configuration>>
  BY ReadsLineIs, Zenon DEF SInv, Inv
<1>2. /\ LinesRead(reading) = line_no
      /\ \A f \in FileNames : LinesRead(f)' = IF f = reading THEN k ELSE LinesRead(f)
  BY LineCounts DEF SInv, Inv
<1>3. \A f, n : Faultless(f, n)' <=> Faultless(f, n)
  BY <1>1, FaultlessStays
<1>4. ASSUME Faultless(reading, k)
      PROVE  /\ Faultless(reading, line_no)
             /\ d \in Known(reading) \cup {"comment"}
             /\ d # "comment" => Accepts(reading, k)
  <2>1. Faults(reading, k) = {} /\ Faultless(reading, line_no)
    BY <1>1, <1>4 DEF Faultless
  <2>. HIDE DEF k
  <2>. QED
    BY <2>1 DEF Faults, Accepts
<1>5. "comment" \notin Known(reading)
  BY <1>1, TableAsSaid
<1>6. d = "comment" => ~Accepts(reading, k)
  BY <1>5 DEF Accepts
<1>7. /\ UNCHANGED <<keep_sandbox, print_results, stage>>
      /\ test \in TestType /\ configuration \in ConfType
      /\ reading = "conf" => stage # "test"
  BY DEF SInv, Inv, Shape, ParserTypeOK, optionVars, ownVars
<1>. HIDE DEF k, d, a
<1>8. ASSUME NEW n \in Nat, n = LinesRead("test")', outcome' = "running", Faultless("test", n)'
      PROVE  TestSaid(n)'
  <2>1. CASE reading = "test"
    <3>1. n = k /\ k - 1 = line_no /\ line_no = LinesRead("test")
      BY <1>1, <1>2, <1>8, <2>1 DEF k, FileNames
    <3>2. Faultless("test", k) /\ Faultless("test", line_no)
      BY <1>3, <1>4, <1>8, <2>1, <3>1
    <3>3. TestSaid(k - 1)
      BY <1>1, <3>1, <3>2 DEF SInv, Described
    <3>4. TakesTestLine(k)
      <4>1. d \in TestDirectives \cup {"comment"} /\ (d = "comment" <=> ~Accepts(reading, k))
        BY <1>4, <1>6, <2>1, <3>2 DEF Known
      <4>2. test' = IF d = "comment" THEN test ELSE TestTakes(test, d, a)
        BY <1>1, <1>8, <2>1, <4>1
      <4>. QED
        BY <1>1, <1>7, <2>1, <4>1, <4>2 DEF TakesTestLine, d, a
    <3>. QED
      BY <3>1, <3>3, <3>4, SinglesMore, ListsMore, TextsMore, FilesMore, EnvironmentMore, ReplaceMore
         DEF TestSaid
  <2>2. CASE reading # "test"
    <3>1. n = LinesRead("test") /\ test' = test
      BY <1>1, <1>2, <1>8, <2>2 DEF FileNames
    <3>2. TestSaid(n)
      BY <1>1, <1>3, <1>8, <3>1 DEF SInv, Described
    <3>. QED
      BY <1>1, <3>1, <3>2, TestSaidStays
  <2>. QED
    BY <2>1, <2>2
<1>9. ASSUME NEW n \in Nat, n = LinesRead("conf")', Faultless("conf", n)'
      PROVE  ConfSaid(n)'
  <2>1. CASE reading = "conf"
    <3>1. n = k /\ k - 1 = line_no /\ line_no = LinesRead("conf")
      BY <1>1, <1>2, <1>9, <2>1 DEF k, FileNames
    <3>2. Faultless("conf", k) /\ Faultless("conf", line_no)
      BY <1>3, <1>4, <1>9, <2>1, <3>1
    <3>3. ConfSaid(k - 1)
      BY <1>1, <3>1, <3>2 DEF SInv, Described
    <3>4. TakesConfLine(k)
      <4>1. d \in ConfDirectives \cup {"comment"} /\ (d = "comment" <=> ~Accepts(reading, k))
        BY <1>4, <1>6, <2>1, <3>2 DEF Known
      <4>2. configuration' = IF d = "comment" THEN configuration ELSE ConfTakes(configuration, d, a)
        BY <1>1, <2>1, <4>1
      <4>. QED
        BY <1>1, <1>7, <2>1, <4>1, <4>2 DEF TakesConfLine, d, a
    <3>. QED
      BY <1>7, <2>1, <3>1, <3>3, <3>4, ConfMore
  <2>2. CASE reading # "conf"
    <3>1. n = LinesRead("conf") /\ configuration' = configuration
      BY <1>1, <1>2, <1>9, <2>2 DEF FileNames
    <3>2. ConfSaid(n)
      BY <1>3, <1>9, <3>1 DEF SInv, Described
    <3>. QED
      BY <1>1, <1>7, <3>1, <3>2, ConfSaidStays
  <2>. QED
    BY <2>1, <2>2
<1>10. TestAsDescribed'
  BY <1>1 DEF TestAsDescribed
<1>. QED
  BY <1>8, <1>9, <1>10 DEF Described

-----------------------------------------------------------------------------
(* The whole files *)

LEMMA LargestIs ==
    ASSUME NEW n \in Nat, NEW S \in SUBSET (1..n), S # {}
    PROVE  \E k \in S : \A j \in S : j <= k
<1>. DEFINE bounds == {m \in Nat : \A j \in S : j <= m}
<1>1. bounds \in SUBSET Nat /\ n \in bounds
  OBVIOUS
<1>2. PICK m \in bounds : \A i \in bounds : m <= i
  <2>. HIDE DEF bounds
  <2>. QED
    BY <1>1, LeastNumber
<1>3. m \in S
  <2>. SUFFICES ASSUME m \notin S
                PROVE  FALSE
    OBVIOUS
  <2>1. \A j \in S : j <= m - 1 /\ j >= 1
    BY <1>2
  <2>2. PICK j \in S : TRUE
    OBVIOUS
  <2>3. j \in Nat /\ m \in Nat /\ j <= m - 1 /\ j >= 1
    BY <1>2, <2>1
  <2>4. m - 1 \in bounds
    BY <2>1, <2>3
  <2>. QED
    BY <1>2, <2>3, <2>4
<1>. QED
  BY <1>2, <1>3

LEMMA LastLineIs ==
    ASSUME case \in CaseType, NEW f \in FileNames, NEW d, Where(f, {d}) # {}
    PROVE  LastLine(f, d, Whole(f), Max(Where(f, {d})))
<1>1. Whole(f) \in Nat
  BY LinesAre DEF Whole
<1>2. /\ Where(f, {d}) \in SUBSET Nat
      /\ \A k : k \in Where(f, {d}) <=> k \in 1..Whole(f) /\ LinesOf(f)[k].name = d
  BY WhereIs
<1>3. Where(f, {d}) \in SUBSET (1..Whole(f))
  BY <1>2
<1>4. PICK k \in Where(f, {d}) : \A j \in Where(f, {d}) : j <= k
  BY <1>1, <1>3, LargestIs
<1>5. Max(Where(f, {d})) = k
  BY <1>2, <1>4, MaxIs
<1>. QED
  BY <1>2, <1>4, <1>5 DEF LastLine

LEMMA SingleIs ==
    ASSUME case \in CaseType, NEW f \in FileNames, NEW d, NEW default, NEW v,
           SaysOne(f, d, default, Whole(f), v)
    PROVE  v = Single(f, d, default)
<1>1. \A k : k \in Where(f, {d}) <=> k \in 1..Whole(f) /\ LinesOf(f)[k].name = d
  BY WhereIs
<1>2. CASE Where(f, {d}) = {}
  BY <1>1, <1>2 DEF SaysOne, Single
<1>3. CASE Where(f, {d}) # {}
  <2>1. LastLine(f, d, Whole(f), Max(Where(f, {d})))
    BY <1>3, LastLineIs
  <2>2. v = Arguments(f, Max(Where(f, {d})))[1]
    BY <2>1 DEF SaysOne, LastLine
  <2>. QED
    BY <1>3, <2>2 DEF Single
<1>. QED
  BY <1>2, <1>3

LEMMA ListIs ==
    ASSUME case \in CaseType, NEW d, NEW v, SaysAll("test", d, Whole("test"), v)
    PROVE  v = List(d)
<1>1. "test" \in FileNames
  BY DEF FileNames
<1>2. \A k : k \in Where("test", {d}) <=> k \in 1..Whole("test") /\ LinesOf("test")[k].name = d
  BY <1>1, WhereIs
<1>3. CASE Where("test", {d}) = {}
  BY <1>2, <1>3 DEF SaysAll, List
<1>4. CASE Where("test", {d}) # {}
  <2>1. LastLine("test", d, Whole("test"), Max(Where("test", {d})))
    BY <1>1, <1>4, LastLineIs
  <2>2. v = Arguments("test", Max(Where("test", {d})))
    BY <2>1 DEF SaysAll, LastLine
  <2>. QED
    BY <1>4, <2>2 DEF List
<1>. QED
  BY <1>3, <1>4

\* Whatever is said, a line says.
LEMMA SaidByLines ==
    ASSUME case \in CaseType, NEW f \in FileNames, NEW names, NEW n \in 0..Whole(f)
    PROVE  \A s \in ToSet(SaidUpTo(f, names)[n]) :
              \E k \in 1..n : LinesOf(f)[k].name \in names /\ s = SaidAt(f, k)
<1>. DEFINE S == {m \in Nat : m <= Whole(f) =>
                     \A s \in ToSet(SaidUpTo(f, names)[m]) :
                        \E k \in 1..m : LinesOf(f)[k].name \in names /\ s = SaidAt(f, k)}
<1>1. Whole(f) \in Nat
  BY LinesAre DEF Whole
<1>2. 0 \in S
  <2>1. SaidUpTo(f, names)[0] = <<>>
    BY SaidUpToIs
  <2>2. ToSet(SaidUpTo(f, names)[0]) = {}
    BY <2>1 DEF ToSet
  <2>. QED
    BY <2>2
<1>3. ASSUME NEW m \in S
      PROVE  m + 1 \in S
  <2>. SUFFICES ASSUME m + 1 <= Whole(f), NEW s \in ToSet(SaidUpTo(f, names)[m + 1])
                PROVE  \E k \in 1..(m + 1) : LinesOf(f)[k].name \in names /\ s = SaidAt(f, k)
    OBVIOUS
  <2>. DEFINE before == SaidUpTo(f, names)[m]
  <2>1. m + 1 \in 1..Whole(f) /\ (m + 1) - 1 = m /\ m <= Whole(f)
    BY <1>1
  <2>2. /\ before \in Seq(SaidType)
        /\ SaidUpTo(f, names)[m + 1] = IF LinesOf(f)[m + 1].name \in names
                                       THEN Append(before, SaidAt(f, m + 1)) ELSE before
    BY <2>1, SaidMore
  <2>3. \A x \in ToSet(before) : \E k \in 1..m : LinesOf(f)[k].name \in names /\ x = SaidAt(f, k)
    BY <2>1
  <2>. HIDE DEF before, S
  <2>4. CASE LinesOf(f)[m + 1].name \in names
    <3>1. ToSet(Append(before, SaidAt(f, m + 1))) = ToSet(before) \cup {SaidAt(f, m + 1)}
      BY <2>2, ToSetAppend
    <3>2. s \in ToSet(before) \/ s = SaidAt(f, m + 1)
      BY <2>2, <2>4, <3>1
    <3>3. \A k \in 1..m : k \in 1..(m + 1)
      BY <2>1
    <3>. QED
      BY <2>1, <2>3, <2>4, <3>2, <3>3
  <2>5. CASE LinesOf(f)[m + 1].name \notin names
    <3>1. s \in ToSet(before)
      BY <2>2, <2>5
    <3>2. \A k \in 1..m : k \in 1..(m + 1)
      BY <2>1
    <3>. QED
      BY <2>3, <3>1, <3>2
  <2>. QED
    BY <2>4, <2>5
<1>4. n \in S
  <2>1. S \in SUBSET Nat /\ n \in Nat
    BY <1>1
  <2>. HIDE DEF S
  <2>. QED
    BY <1>2, <1>3, <2>1, AllNumbers
<1>. QED
  BY <1>1, <1>4

LEMMA FileSaidIs ==
    ASSUME NEW d \in FileDirectives, NEW a \in Seq(Text), Len(a) \in Takes(d)
    PROVE  FileOf(d, a) = [name |-> a[1],
                           input |-> IF d = "file-new" THEN <<>> ELSE a[2],
                           output |-> IF d = "file-del" THEN <<>> ELSE Last(a)]
<1>1. Len(a) = 2 \/ (d = "file" /\ Len(a) = 3)
  BY DEF Takes, FileDirectives
<1>2. Last(a) = a[Len(a)]
  BY DEF Last
<1>3. CASE d = "file-del"
  BY <1>3 DEF FileOf
<1>4. CASE d # "file-del" /\ Len(a) = 2
  BY <1>2, <1>4 DEF FileOf
<1>5. CASE d = "file" /\ Len(a) = 3
  BY <1>2, <1>5 DEF FileOf
<1>. QED
  BY <1>1, <1>3, <1>4, <1>5 DEF FileDirectives

\* The files of a test case without mistakes.
LEMMA WholeFiles ==
    ASSUME case \in CaseType, FilesSaid(Whole("test")), Faultless("test", Whole("test")),
           NEW said, said = Said("test", FileDirectives)
    PROVE  /\ Len(said) \in Nat
           /\ Len(test.files) = Len(said)
           /\ ToSet(test.files) =
                 {[name |-> f.args[1],
                   input |-> IF f.name = "file-new" THEN <<>> ELSE f.args[2],
                   output |-> IF f.name = "file-del" THEN <<>> ELSE Last(f.args)] : f \in ToSet(said)}
<1>. DEFINE n == Whole("test")
<1>1. "test" \in FileNames /\ n \in Nat
  BY LinesAre DEF FileNames, Whole
<1>2. said = SaidUpTo("test", FileDirectives)[n]
  BY DEF Said, Whole
<1>3. n \in 0..n
  BY <1>1
<1>4. said \in Seq(SaidType)
  BY <1>1, <1>2, <1>3, SaidUpToIs
<1>5. test.files = [k \in 1..Len(said) |-> FileOf(said[k].name, said[k].args)]
  BY <1>2 DEF FilesSaid
<1>6. ASSUME NEW s \in ToSet(said)
      PROVE  FileOf(s.name, s.args) =
                [name |-> s.args[1],
                 input |-> IF s.name = "file-new" THEN <<>> ELSE s.args[2],
                 output |-> IF s.name = "file-del" THEN <<>> ELSE Last(s.args)]
  <2>1. PICK k \in 1..n : LinesOf("test")[k].name \in FileDirectives /\ s = SaidAt("test", k)
    BY <1>1, <1>2, <1>3, SaidByLines
  <2>2. s.name = LinesOf("test")[k].name /\ s.args = Arguments("test", k)
    BY <2>1 DEF SaidAt
  <2>3. s.args \in Seq(Text)
    BY <1>1, <2>1, <2>2, LineIs DEF Whole
  <2>4. Faults("test", k) = {}
    BY <2>1 DEF Faultless
  <2>5. s.name \in FileDirectives /\ s.name # "comment" /\ s.name \in Known("test")
    BY <2>1, <2>2 DEF FileDirectives, Known, TestDirectives
  <2>6. Numbered("test", k)
    BY <2>2, <2>4, <2>5 DEF Faults
  <2>7. Len(s.args) \in Takes(s.name)
    BY <2>2, <2>6 DEF Numbered
  <2>. QED
    BY <2>3, <2>5, <2>7, FileSaidIs
<1>. HIDE DEF n
<1>7. Len(test.files) = Len(said) /\ Len(said) \in Nat
  BY <1>4, <1>5
<1>8. ToSet(test.files) = {FileOf(s.name, s.args) : s \in ToSet(said)}
  <2>1. \A x : x \in ToSet(test.files) <=> \E k \in 1..Len(said) : x = FileOf(said[k].name, said[k].args)
    BY <1>5, <1>7 DEF ToSet
  <2>2. \A s : s \in ToSet(said) <=> \E k \in 1..Len(said) : s = said[k]
    BY DEF ToSet
  <2>. QED
    BY <2>1, <2>2
<1>. QED
  BY <1>6, <1>7, <1>8

\* Sorting loses and doubles no entry.
LEMMA SortKeeps ==
    ASSUME NEW S, NEW from \in Seq(S), NEW to, SortsTo(from, to)
    PROVE  /\ Len(to) = Len(from) /\ ToSet(to) = ToSet(from)
           /\ \A j, k \in 1..Len(to) : j < k => ~Less(to[k].name, to[j].name)
<1>. DEFINE n == Len(from)
<1>1. n \in Nat
  OBVIOUS
<1>2. PICK order \in [1..n -> 1..n] :
         /\ \A j, k \in 1..n : order[j] = order[k] => j = k
         /\ to = [k \in 1..n |-> from[order[k]]]
  BY DEF SortsTo
<1>3. order \in Injection(1..n, 1..n)
  BY <1>2 DEF Injection, IsInjective
<1>4. IsFiniteSet(1..n)
  BY <1>1, FS_Interval
<1>5. order \in Surjection(1..n, 1..n)
  <2>. HIDE DEF n
  <2>. QED
    BY <1>3, <1>4, FS_Injection
<1>6. \A k \in 1..n : \E j \in 1..n : order[j] = k
  BY <1>5 DEF Surjection
<1>7. Len(to) = n
  BY <1>1, <1>2
<1>8. ToSet(to) = ToSet(from)
  <2>1. \A x : x \in ToSet(to) <=> \E k \in 1..n : x = from[order[k]]
    BY <1>2, <1>7 DEF ToSet
  <2>2. \A x : x \in ToSet(from) <=> \E k \in 1..n : x = from[k]
    BY DEF ToSet
  <2>3. \A k \in 1..n : order[k] \in 1..n
    BY <1>2
  <2>. HIDE DEF n
  <2>. QED
    BY <1>6, <2>1, <2>2, <2>3
<1>. QED
  BY <1>7, <1>8 DEF SortsTo

\* What TestRead does when it does not refuse the test.
Loads ==
    /\ outcome' = "loaded"
    /\ UNCHANGED <<case, configuration>>
    /\ (IF test.program = <<>> THEN configuration.default_program ELSE test.program) # <<>>
    /\ \E sorted : SortsTo(test.files, sorted) /\
          test' = [test EXCEPT !.program = IF test.program = <<>> THEN configuration.default_program
                                           ELSE test.program,
                               !.files = sorted]

LEMMA LoadsFields ==
    ASSUME test \in TestType, Loads
    PROVE  /\ test'.output = test.output /\ test'.error_output = test.error_output
           /\ test'.input = test.input /\ test'.input_file = test.input_file
           /\ test'.exit_code = test.exit_code /\ test'.preload_library = test.preload_library
           /\ test'.arguments = test.arguments
           /\ test'.required_features = test.required_features
           /\ test'.precheck_command = test.precheck_command
           /\ test'.environment = test.environment
           /\ test'.error_output_replace = test.error_output_replace
           /\ test'.program = IF test.program = <<>> THEN configuration.default_program
                              ELSE test.program
           /\ SortsTo(test.files, test'.files)
<1>. DEFINE p == IF test.program = <<>> THEN configuration.default_program ELSE test.program
<1>1. PICK sorted : SortsTo(test.files, sorted) /\ test' = [test EXCEPT !.program = p, !.files = sorted]
  BY DEF Loads
<1>. HIDE DEF p, Text, Entry
<1>2. /\ test'.output = test.output /\ test'.error_output = test.error_output
      /\ test'.input = test.input /\ test'.input_file = test.input_file
      /\ test'.exit_code = test.exit_code /\ test'.preload_library = test.preload_library
      /\ test'.arguments = test.arguments
      /\ test'.required_features = test.required_features
      /\ test'.precheck_command = test.precheck_command
      /\ test'.environment = test.environment
      /\ test'.error_output_replace = test.error_output_replace
      /\ test'.program = p /\ test'.files = sorted
  BY <1>1 DEF TestType
<1>. QED
  BY <1>1, <1>2 DEF p

LEMMA ProgramIs ==
    ASSUME case \in CaseType, SinglesSaid(Whole("test")), ProgramSaid(Whole("conf"))
    PROVE  (IF test.program = <<>> THEN configuration.default_program ELSE test.program) = ProgramOf
<1>1. "test" \in FileNames /\ "conf" \in FileNames
  BY DEF FileNames
<1>2. test.program = Single("test", "program", <<>>)
  BY <1>1, SingleIs DEF SinglesSaid
<1>3. configuration.default_program = Single("conf", "default-program", <<>>)
  BY <1>1, SingleIs DEF ProgramSaid
<1>. QED
  BY <1>2, <1>3 DEF ProgramOf

LEMMA SameWhole ==
    ASSUME case' = case
    PROVE  /\ \A f, names : Said(f, names)' = Said(f, names)
           /\ \A f, d, default : Single(f, d, default)' = Single(f, d, default)
           /\ \A d : List(d)' = List(d)
           /\ ProgramOf' = ProgramOf
<1>1. /\ \A f : LinesOf(f)' = LinesOf(f)
      /\ \A f, names : Where(f, names)' = Where(f, names)
      /\ \A f, k : Arguments(f, k)' = Arguments(f, k)
  BY SameFiles
<1>2. \A f, names : Said(f, names)' = Said(f, names)
  BY <1>1, SameSaid DEF Said
<1>3. \A f, d, default : Single(f, d, default)' = Single(f, d, default)
  BY <1>1 DEF Single
<1>4. \A d : List(d)' = List(d)
  BY <1>1 DEF List
<1>. QED
  BY <1>2, <1>3, <1>4 DEF ProgramOf

LEMMA LoadsDescribed ==
    ASSUME case \in CaseType, test \in TestType, Loads,
           TestSaid(Whole("test")), ConfSaid(Whole("conf")), Faultless("test", Whole("test"))
    PROVE  TestAsDescribed'
<1>. DEFINE n == Whole("test")
            said == Said("test", FileDirectives)
            replace == Said("test", {"stderr-replace"})
<1>1. "test" \in FileNames
  BY DEF FileNames
<1>2. \A names : Said("test", names) = SaidUpTo("test", names)[n]
  BY DEF Said, Whole
<1>3. Said("conf", {"file-compare"}) = SaidUpTo("conf", {"file-compare"})[Whole("conf")]
  BY DEF Said, Whole
<1>4. /\ test'.output = test.output /\ test'.error_output = test.error_output
      /\ test'.input = test.input /\ test'.input_file = test.input_file
      /\ test'.exit_code = test.exit_code /\ test'.preload_library = test.preload_library
      /\ test'.arguments = test.arguments
      /\ test'.required_features = test.required_features
      /\ test'.precheck_command = test.precheck_command
      /\ test'.environment = test.environment
      /\ test'.error_output_replace = test.error_output_replace
      /\ test'.program = IF test.program = <<>> THEN configuration.default_program
                         ELSE test.program
      /\ SortsTo(test.files, test'.files)
  BY LoadsFields
<1>5. /\ SinglesSaid(n) /\ ListsSaid(n) /\ TextsSaid(n)
      /\ FilesSaid(n) /\ EnvironmentSaid(n) /\ ReplaceSaid(n)
  BY DEF TestSaid
<1>6. ProgramSaid(Whole("conf")) /\ ComparesSaid(Whole("conf"))
  BY DEF ConfSaid
<1>7. case' = case /\ configuration' = configuration
  BY DEF Loads
<1>. HIDE DEF n
<1>8. /\ \A f, names : Said(f, names)' = Said(f, names)
      /\ \A f, d, default : Single(f, d, default)' = Single(f, d, default)
      /\ \A d : List(d)' = List(d)
      /\ ProgramOf' = ProgramOf
      /\ \A u : Firsts(u)' = Firsts(u)
  BY <1>7, SameWhole DEF Firsts
<1>9. /\ test'.output = Firsts(Said("test", {"stdout"}))
      /\ test'.error_output = Firsts(Said("test", {"stderr"}))
      /\ test'.input = Firsts(Said("test", {"stdin"}))
  BY <1>2, <1>4, <1>5 DEF TextsSaid
<1>10. /\ test'.input_file = Single("test", "stdin-file", <<>>)
       /\ test'.exit_code = Single("test", "return", <<>>)
       /\ test'.preload_library = Single("test", "preload", <<>>)
  BY <1>1, <1>4, <1>5, SingleIs DEF SinglesSaid, n
<1>11. test'.program = ProgramOf
  BY <1>4, <1>5, <1>6, ProgramIs DEF n
<1>12. /\ test'.arguments = List("args")
       /\ test'.required_features = List("features")
       /\ test'.precheck_command = List("precheck")
  BY <1>4, <1>5, ListIs DEF ListsSaid, n
<1>13. test'.environment = {<<s.args[1], s.args[2]>> : s \in ToSet(Said("test", {"setenv"}))}
  BY <1>2, <1>4, <1>5 DEF EnvironmentSaid
<1>14. test'.error_output_replace =
          [k \in 1..Len(Firsts(replace)) |->
              LET args == replace[k].args IN <<args[1], args[2]>>]
  <2>1. n \in 0..n /\ replace = SaidUpTo("test", {"stderr-replace"})[n]
    BY <1>1, <1>2, LinesAre DEF n, Whole
  <2>2. replace \in Seq(SaidType)
    BY <1>1, <2>1, SaidUpToIs DEF n
  <2>. HIDE DEF replace
  <2>3. Len(Firsts(replace)) = Len(replace)
    BY <2>2 DEF Firsts
  <2>4. test.error_output_replace =
           [k \in 1..Len(replace) |-> <<replace[k].args[1], replace[k].args[2]>>]
    BY <1>5, <2>1 DEF ReplaceSaid
  <2>. QED
    BY <1>4, <2>3, <2>4
<1>15. /\ Len(test'.files) = Len(said)
       /\ ToSet(test'.files) =
             {[name |-> f.args[1],
               input |-> IF f.name = "file-new" THEN <<>> ELSE f.args[2],
               output |-> IF f.name = "file-del" THEN <<>> ELSE Last(f.args)] : f \in ToSet(said)}
       /\ \A j, k \in 1..Len(test'.files) :
             j < k => ~Less(test'.files[k].name, test'.files[j].name)
  <2>1. test.files \in Seq(Entry)
    <3>. HIDE DEF Entry
    <3>. QED
      BY DEF TestType
  <2>2. /\ Len(test'.files) = Len(test.files) /\ ToSet(test'.files) = ToSet(test.files)
        /\ \A j, k \in 1..Len(test'.files) :
              j < k => ~Less(test'.files[k].name, test'.files[j].name)
    BY <1>4, <2>1, SortKeeps
  <2>3. /\ Len(test.files) = Len(said)
        /\ ToSet(test.files) =
             {[name |-> f.args[1],
               input |-> IF f.name = "file-new" THEN <<>> ELSE f.args[2],
               output |-> IF f.name = "file-del" THEN <<>> ELSE Last(f.args)] : f \in ToSet(said)}
    BY <1>5, WholeFiles DEF n
  <2>. QED
    BY <2>2, <2>3
<1>16. configuration'.file_compare =
          {<<Extensions(s.args), SubSeq(s.args, 3, Len(s.args))>> :
              s \in ToSet(Said("conf", {"file-compare"}))}
  BY <1>3, <1>6, <1>7 DEF ComparesSaid
<1>. QED
  BY <1>8, <1>9, <1>10, <1>11, <1>12, <1>13, <1>14, <1>15, <1>16 DEF TestAsDescribed, FileDirectives

LEMMA SameDescribes ==
    ASSUME SInv, case' = case, test' = test, outcome = "running", outcome' # "loaded",
           \A f \in FileNames : LinesRead(f)' = LinesRead(f),
           configuration' = configuration, stage' = stage,
           stage = "test" => keep_sandbox' = keep_sandbox /\ print_results' = print_results
    PROVE  Described'
<1>1. \A f, n : Faultless(f, n)' <=> Faultless(f, n)
  BY FaultlessStays
<1>2. \A n : TestSaid(n) => TestSaid(n)'
  BY TestSaidStays
<1>3. \A n : ConfSaid(n) => ConfSaid(n)'
  BY ConfSaidStays
<1>4. LinesRead("conf")' = LinesRead("conf") /\ LinesRead("test")' = LinesRead("test")
  BY DEF FileNames
<1>5. \A n \in Nat : n = LinesRead("test")' /\ outcome' = "running" /\ Faultless("test", n)' => TestSaid(n)'
  BY <1>1, <1>2, <1>4 DEF SInv, Described
<1>6. \A n \in Nat : n = LinesRead("conf")' /\ Faultless("conf", n)' => ConfSaid(n)'
  BY <1>1, <1>3, <1>4 DEF SInv, Described
<1>7. TestAsDescribed'
  BY DEF TestAsDescribed
<1>. QED
  BY <1>5, <1>6, <1>7 DEF Described

\* When the test case has been read to its end, so has the configuration.
LEMMA WholeSaid ==
    ASSUME SInv, outcome = "running", open, ok, reading = "test", line_no = Len(lines)
    PROVE  /\ Faultless("test", Whole("test"))
           /\ TestSaid(Whole("test")) /\ ConfSaid(Whole("conf"))
<1>1. "test" \in FileNames /\ "conf" \in FileNames /\ case \in CaseType
  BY DEF FileNames, SInv, Inv, Shape, ParserTypeOK
<1>2. lines = LinesOf("test")
  BY LackingIs DEF SInv
<1>3. LinesRead("test") = Whole("test") /\ LinesRead("conf") = Whole("conf")
  BY <1>2 DEF LinesRead, Whole
<1>4. Whole("test") \in Nat /\ Whole("conf") \in Nat
  BY <1>1, LinesAre DEF Whole
<1>5. Faultless("test", Whole("test")) /\ Faultless("conf", Whole("conf"))
  BY <1>2 DEF SInv, Inv, FaultsCount, Whole
<1>. QED
  BY <1>3, <1>4, <1>5 DEF SInv, Described

LEMMA TestReadDescribes ==
    ASSUME SInv, TestRead, UNCHANGED <<files, stage, optionVars>>
    PROVE  Described' /\ ProgramKnown'
<1>1. /\ outcome = "running" /\ open /\ ok /\ reading = "test"
      /\ line_no = Len(lines) /\ lines = LinesOf("test") /\ line_no = Whole("test")
      /\ outcome' \in {"loaded", "refused"}
      /\ UNCHANGED <<case, reading, open, line_no, ok, seen, messages, configuration>>
  BY TestReadIs DEF SInv
<1>2. case \in CaseType /\ test \in TestType
  BY DEF SInv, Inv, Shape, ParserTypeOK
<1>3. /\ Faultless("test", Whole("test"))
      /\ TestSaid(Whole("test")) /\ ConfSaid(Whole("conf"))
  BY <1>1, WholeSaid
<1>4. \A f, n : Faultless(f, n)' <=> Faultless(f, n)
  BY <1>1, FaultlessStays
<1>5. stage' = stage /\ keep_sandbox' = keep_sandbox /\ print_results' = print_results
  BY DEF optionVars, ownVars
<1>6. \A n : ConfSaid(n) => ConfSaid(n)'
  BY <1>1, <1>5, ConfSaidStays
<1>7. LinesRead("conf")' = LinesRead("conf")
  <2>1. \A f : LinesOf(f)' = LinesOf(f)
    BY <1>1, SameFiles
  <2>. QED
    BY <1>1, <2>1 DEF LinesRead
<1>8. \A n \in Nat : n = LinesRead("conf")' /\ Faultless("conf", n)' => ConfSaid(n)'
  BY <1>4, <1>6, <1>7 DEF SInv, Described
<1>9. outcome' # "running"
  BY <1>1
<1>. DEFINE program == IF test.program = <<>> THEN configuration.default_program ELSE test.program
<1>10. program = ProgramOf
  BY <1>2, <1>3, ProgramIs DEF TestSaid, ConfSaid
<1>11. CASE outcome' = "refused"
  <2>1. program = <<>>
    BY <1>11 DEF TestRead
  <2>2. ProgramOf' = <<>>
    BY <1>1, <1>10, <2>1, SameWhole
  <2>3. TestAsDescribed'
    BY <1>11 DEF TestAsDescribed
  <2>. QED
    BY <1>8, <1>9, <1>11, <2>2, <2>3 DEF Described, ProgramKnown
<1>12. CASE outcome' = "loaded"
  <2>1. Loads
    BY <1>1, <1>12 DEF TestRead, Loads
  <2>2. TestAsDescribed'
    BY <1>2, <1>3, <2>1, LoadsDescribed
  <2>3. ProgramOf' # <<>>
    BY <1>1, <1>10, <2>1, SameWhole DEF Loads
  <2>. QED
    BY <1>8, <1>9, <1>12, <2>2, <2>3 DEF Described, ProgramKnown
<1>. QED
  BY <1>1, <1>11, <1>12

LEMMA ReadFilesDescribes ==
    ASSUME SInv, ReadFiles
    PROVE  SInv'
<1>1. /\ stage = "test" \/ (stage = "configuration" /\ reading = "conf")
      /\ ParserNext
      /\ UNCHANGED <<files, stage, optionVars>>
  BY DEF ReadFiles
<1>2. Inv'
  BY ReadFilesKeeps DEF SInv
<1>3. OptionsFirst'
  BY <1>1 DEF SInv, OptionsFirst, optionVars, ownVars
<1>4. keep_sandbox' = keep_sandbox /\ print_results' = print_results
  BY <1>1 DEF optionVars, ownVars
<1>5. CASE ReadsLine
  <2>1. Described'
    BY <1>1, <1>5, LineDescribes
  <2>2. outcome' \notin {"refused", "loaded"}
    <3>1. outcome' \in {"running", "aborted"}
      BY <1>5, ReadsLineIs, Zenon DEF SInv, Inv
    <3>. QED
      BY <3>1
  <2>. QED
    BY <1>2, <1>3, <2>1, <2>2 DEF SInv, ProgramKnown
<1>6. CASE OpenFile
  <2>1. /\ outcome = "running" /\ outcome' = "running" /\ ~open /\ open' /\ line_no' = 0
        /\ UNCHANGED <<case, reading, test, configuration>>
    BY <1>6 DEF OpenFile
  <2>2. \A f : LinesOf(f)' = LinesOf(f)
    BY <2>1, SameFiles
  <2>3. \A f \in FileNames : LinesRead(f)' = LinesRead(f)
    BY <2>1, <2>2 DEF LinesRead
  <2>4. Described'
    BY <1>1, <1>4, <2>1, <2>3, SameDescribes
  <2>. QED
    BY <1>2, <1>3, <2>1, <2>4 DEF SInv, ProgramKnown
<1>7. CASE CannotOpen
  <2>1. /\ outcome = "running" /\ outcome' # "loaded" /\ ~open /\ ~open' /\ ~case[reading].exists
        /\ UNCHANGED <<case, test, configuration>>
        /\ reading' = reading \/ (reading = "conf" /\ reading' = "test")
    BY <1>7 DEF CannotOpen
  <2>2. \A f : LinesOf(f)' = LinesOf(f)
    BY <2>1, SameFiles
  <2>3. reading = "conf" => Len(LinesOf("conf")) = 0
    BY <2>1 DEF LinesOf
  <2>4. \A f \in FileNames : LinesRead(f)' = LinesRead(f)
    BY <2>1, <2>2, <2>3 DEF LinesRead, FileNames
  <2>5. Described'
    BY <1>1, <1>4, <2>1, <2>4, SameDescribes
  <2>. QED
    BY <1>2, <1>3, <2>1, <2>5 DEF SInv, ProgramKnown
<1>8. CASE RefuseFile
  <2>1. /\ outcome = "running" /\ outcome' = "refused" /\ open /\ line_no = Len(lines)
        /\ ~ok \/ Lacking # {}
        /\ UNCHANGED <<case, reading, open, line_no, test, configuration>>
    BY <1>8 DEF RefuseFile, EndOfFile
  <2>2. \A f : LinesOf(f)' = LinesOf(f)
    BY <2>1, SameFiles
  <2>3. \A f \in FileNames : LinesRead(f)' = LinesRead(f)
    BY <2>1, <2>2 DEF LinesRead
  <2>4. Described'
    BY <1>1, <1>4, <2>1, <2>3, SameDescribes
  <2>5. reading = "test" => Where("test", {"return"}) = {} \/ ~Faultless("test", Whole("test"))
    <3>1. /\ lines = LinesOf(reading)
          /\ reading = "test" => Lacking = {"return"} \ seen
          /\ reading = "test" => ("return" \in seen <=> Where("test", {"return"}) # {})
      BY <2>1, LackingIs DEF SInv
    <3>2. open /\ outcome = "running" => (ok <=> Faultless(reading, line_no))
      BY DEF SInv, Inv, FaultsCount
    <3>. QED
      BY <2>1, <3>1, <3>2 DEF Whole
  <2>6. ProgramKnown'
    <3>1. Where("test", {"return"})' = Where("test", {"return"})
      BY <2>1, SameFiles
    <3>2. Faultless("test", Whole("test"))' <=> Faultless("test", Whole("test"))
      BY <2>1, FaultlessStays
    <3>. QED
      BY <2>1, <2>5, <3>1, <3>2 DEF ProgramKnown
  <2>. QED
    BY <1>2, <1>3, <2>4, <2>6 DEF SInv
<1>9. CASE ConfigurationRead
  <2>1. /\ outcome = "running" /\ outcome' = "running" /\ open /\ ~open' /\ line_no = Len(lines)
        /\ reading = "conf" /\ reading' = "test"
        /\ UNCHANGED <<case, line_no, test, configuration>>
    BY <1>9 DEF ConfigurationRead, EndOfFile
  <2>2. \A f : LinesOf(f)' = LinesOf(f)
    BY <2>1, SameFiles
  <2>3. lines = LinesOf("conf")
    BY <2>1, LackingIs DEF SInv
  <2>4. \A f \in FileNames : LinesRead(f)' = LinesRead(f)
    BY <2>1, <2>2, <2>3 DEF LinesRead, FileNames
  <2>5. Described'
    BY <1>1, <1>4, <2>1, <2>4, SameDescribes
  <2>. QED
    BY <1>2, <1>3, <2>1, <2>5 DEF SInv, ProgramKnown
<1>10. CASE TestRead
  BY <1>1, <1>2, <1>3, <1>10, TestReadDescribes DEF SInv
<1>. QED
  BY <1>1, <1>5, <1>6, <1>7, <1>8, <1>9, <1>10 DEF ParserNext, ReadsLine

LEMMA OverrideDescribes ==
    ASSUME SInv, Override
    PROVE  SInv'
<1>1. /\ stage = "configuration" /\ stage' = "test" /\ reading = "test"
      /\ outcome = "running" /\ outcome' = "running"
      /\ configuration' =
            [configuration EXCEPT
                !.keep_sandbox = IF keep_sandbox = "unset" THEN @ ELSE <<keep_sandbox>>,
                !.print_results = IF print_results = "unset" THEN @ ELSE <<print_results>>]
      /\ UNCHANGED <<case, reading, open, line_no, test, options, keep_sandbox, print_results>>
  BY DEF Override, optionVars, ownVars
<1>2. configuration \in ConfType
  BY DEF SInv, Inv, Shape, ParserTypeOK
<1>3. /\ configuration'.default_program = configuration.default_program
      /\ configuration'.file_compare = configuration.file_compare
      /\ configuration'.keep_sandbox = IF keep_sandbox = "unset" THEN configuration.keep_sandbox
                                       ELSE <<keep_sandbox>>
      /\ configuration'.print_results = IF print_results = "unset" THEN configuration.print_results
                                        ELSE <<print_results>>
  <2>. HIDE DEF Text, When
  <2>. QED
    BY <1>1, <1>2 DEF ConfType
<1>4. /\ \A f : LinesOf(f)' = LinesOf(f)
      /\ \A f, k : Arguments(f, k)' = Arguments(f, k)
  BY <1>1, SameFiles
<1>5. \A f, names : SaidUpTo(f, names)' = SaidUpTo(f, names)
  BY <1>1, SameSaid
<1>6. \A f, d, n, k : LastLine(f, d, n, k)' <=> LastLine(f, d, n, k)
  BY <1>4 DEF LastLine
<1>7. \A n : ProgramSaid(n) => ProgramSaid(n)'
  BY <1>3, <1>4, <1>6 DEF ProgramSaid, SaysOne
<1>8. \A n : ComparesSaid(n) => ComparesSaid(n)'
  BY <1>3, <1>5 DEF ComparesSaid
<1>9. ASSUME NEW n, SettingsSaid(n)
      PROVE  SettingsSaid(n)'
  <2>1. /\ SaysOne("conf", "keep-sandbox", <<"never">>, n, configuration.keep_sandbox)
        /\ SaysOne("conf", "print-results", <<"failed">>, n, configuration.print_results)
    BY <1>1, <1>9 DEF SettingsSaid
  <2>2. keep_sandbox = "unset" =>
           (SaysOne("conf", "keep-sandbox", <<"never">>, n, configuration.keep_sandbox))'
    BY <1>3, <1>4, <1>6, <2>1 DEF SaysOne
  <2>3. print_results = "unset" =>
           (SaysOne("conf", "print-results", <<"failed">>, n, configuration.print_results))'
    BY <1>3, <1>4, <1>6, <2>1 DEF SaysOne
  <2>. QED
    BY <1>1, <1>3, <2>2, <2>3 DEF SettingsSaid
<1>10. \A f \in FileNames : LinesRead(f)' = LinesRead(f)
  BY <1>1, <1>4 DEF LinesRead
<1>11. \A f, n : Faultless(f, n)' <=> Faultless(f, n)
  BY <1>1, FaultlessStays
<1>12. \A n : TestSaid(n) => TestSaid(n)'
  BY <1>1, TestSaidStays
<1>13. \A n : ConfSaid(n) => ConfSaid(n)'
  BY <1>7, <1>8, <1>9 DEF ConfSaid
<1>14. LinesRead("conf")' = LinesRead("conf") /\ LinesRead("test")' = LinesRead("test")
  BY <1>10 DEF FileNames
<1>15. \A n \in Nat : n = LinesRead("test")' /\ outcome' = "running" /\ Faultless("test", n)' => TestSaid(n)'
  BY <1>1, <1>11, <1>12, <1>14 DEF SInv, Described
<1>16. \A n \in Nat : n = LinesRead("conf")' /\ Faultless("conf", n)' => ConfSaid(n)'
  BY <1>11, <1>13, <1>14 DEF SInv, Described
<1>17. TestAsDescribed' /\ ProgramKnown'
  BY <1>1 DEF TestAsDescribed, ProgramKnown
<1>18. Inv' /\ OptionsFirst'
  BY <1>1, OverrideKeeps DEF SInv, OptionsFirst
<1>. QED
  BY <1>15, <1>16, <1>17, <1>18 DEF SInv, Described

\* Nothing has been said in front of the first line.
FromNothing == \A f \in FileNames : \A names : SaidUpTo(f, names)[0] = <<>>

LEMMA FromNothingIs ==
    ASSUME Inv
    PROVE  FromNothing
BY SaidUpToIs DEF Inv, Shape, ParserTypeOK, FromNothing

\* What a test and a configuration are in which nothing was said yet.
LEMMA NothingSaid ==
    ASSUME FromNothing
    PROVE  /\ TestSaid(0) <=>
                 /\ test.input_file = <<>> /\ test.exit_code = <<>> /\ test.preload_library = <<>>
                 /\ test.program = <<>> /\ test.arguments = <<>> /\ test.required_features = <<>>
                 /\ test.precheck_command = <<>> /\ test.output = <<>> /\ test.error_output = <<>>
                 /\ test.input = <<>> /\ test.files = <<>> /\ test.environment = {}
                 /\ test.error_output_replace = <<>>
           /\ stage # "test" =>
                 (ConfSaid(0) <=>
                     /\ configuration.default_program = <<>> /\ configuration.file_compare = {}
                     /\ configuration.keep_sandbox = <<"never">>
                     /\ configuration.print_results = <<"failed">>)
<1>1. \A names : SaidUpTo("test", names)[0] = <<>> /\ SaidUpTo("conf", names)[0] = <<>>
  BY DEF FromNothing, FileNames
<1>2. /\ \A f, d, default, v : SaysOne(f, d, default, 0, v) <=> v = default
      /\ \A f, d, v : SaysAll(f, d, 0, v) <=> v = <<>>
  BY DEF SaysOne, SaysAll
<1>3. Firsts(<<>>) = <<>> /\ ToSet(<<>>) = {}
  BY DEF Firsts, ToSet
<1>4. TextsSaid(0) <=> test.output = <<>> /\ test.error_output = <<>> /\ test.input = <<>>
  BY <1>1, <1>3 DEF TextsSaid
<1>5. FilesSaid(0) <=> test.files = <<>>
  BY <1>1 DEF FilesSaid
<1>6. ReplaceSaid(0) <=> test.error_output_replace = <<>>
  BY <1>1 DEF ReplaceSaid
<1>7. EnvironmentSaid(0) <=> test.environment = {}
  BY <1>1, <1>3 DEF EnvironmentSaid
<1>8. ComparesSaid(0) <=> configuration.file_compare = {}
  BY <1>1, <1>3 DEF ComparesSaid
<1>. QED
  BY <1>2, <1>4, <1>5, <1>6, <1>7, <1>8
     DEF TestSaid, ConfSaid, SinglesSaid, ListsSaid, ProgramSaid, SettingsSaid

LEMMA ChooseFilesDescribes ==
    ASSUME SInv, ChooseFiles, FromNothing'
    PROVE  SInv'
<1>1. /\ stage = "options" /\ stage' = "configuration" /\ options = "done"
      /\ UNCHANGED <<reading, open, outcome, test, configuration, options>>
  BY DEF ChooseFiles, optionVars, ownVars
<1>2. reading = "conf" /\ ~open /\ outcome = "running"
  BY <1>1 DEF SInv, Inv, Shape
<1>3. /\ LinesRead("conf") = 0 /\ LinesRead("test") = 0
      /\ LinesRead("conf")' = 0 /\ LinesRead("test")' = 0
  BY <1>1, <1>2 DEF LinesRead
<1>4. Faultless("test", 0) /\ Faultless("conf", 0)
  BY DEF Faultless
<1>5. TestSaid(0) /\ ConfSaid(0)
  BY <1>2, <1>3, <1>4 DEF SInv, Described
<1>6. FromNothing
  BY FromNothingIs DEF SInv
<1>7. TestSaid(0)' /\ ConfSaid(0)'
  <2>1. /\ test.input_file = <<>> /\ test.exit_code = <<>> /\ test.preload_library = <<>>
        /\ test.program = <<>> /\ test.arguments = <<>> /\ test.required_features = <<>>
        /\ test.precheck_command = <<>> /\ test.output = <<>> /\ test.error_output = <<>>
        /\ test.input = <<>> /\ test.files = <<>> /\ test.environment = {}
        /\ test.error_output_replace = <<>>
        /\ configuration.default_program = <<>> /\ configuration.file_compare = {}
        /\ configuration.keep_sandbox = <<"never">>
        /\ configuration.print_results = <<"failed">>
    BY <1>1, <1>5, <1>6, NothingSaid
  <2>2. \A names : SaidUpTo("test", names)'[0] = <<>> /\ SaidUpTo("conf", names)'[0] = <<>>
    BY DEF FromNothing, FileNames
  <2>3. Firsts(<<>>) = <<>> /\ ToSet(<<>>) = {}
    BY DEF Firsts, ToSet
  <2>4. TextsSaid(0)'
    BY <1>1, <2>1, <2>2, <2>3 DEF TextsSaid
  <2>5. FilesSaid(0)' /\ ReplaceSaid(0)'
    BY <1>1, <2>1, <2>2 DEF FilesSaid, ReplaceSaid
  <2>6. EnvironmentSaid(0)' /\ ComparesSaid(0)'
    BY <1>1, <2>1, <2>2, <2>3 DEF EnvironmentSaid, ComparesSaid
  <2>7. SinglesSaid(0)' /\ ListsSaid(0)'
    BY <1>1, <2>1 DEF SinglesSaid, ListsSaid, SaysOne, SaysAll
  <2>8. ProgramSaid(0)' /\ SettingsSaid(0)'
    BY <1>1, <2>1 DEF ProgramSaid, SettingsSaid, SaysOne
  <2>. QED
    BY <2>4, <2>5, <2>6, <2>7, <2>8 DEF TestSaid, ConfSaid
<1>8. TestAsDescribed' /\ ProgramKnown' /\ OptionsFirst'
  BY <1>1, <1>2 DEF TestAsDescribed, ProgramKnown, OptionsFirst
<1>9. Described'
  BY <1>3, <1>7, <1>8 DEF Described
<1>. QED
  BY <1>8, <1>9, ChooseFilesKeeps DEF SInv

LEMMA OptionsDescribe ==
    ASSUME SInv, OptionsNext, UNCHANGED <<parserVars, files, stage>>
    PROVE  SInv'
<1>1. options = "open"
  BY DEF OptionsNext, Parsing, HelpOrVersion, ConfigFile, Results, Sandbox, Usage, FinishOptions, Returned
<1>2. stage = "options" /\ stage' = "options"
  BY <1>1 DEF SInv, OptionsFirst
<1>3. /\ outcome = "running" /\ outcome' = "running"
      /\ UNCHANGED <<case, reading, open, line_no, test, configuration>>
  BY <1>2 DEF SInv, Inv, Shape, parserVars
<1>4. \A f : LinesOf(f)' = LinesOf(f)
  BY <1>3, SameFiles
<1>5. \A f \in FileNames : LinesRead(f)' = LinesRead(f)
  BY <1>3, <1>4 DEF LinesRead
<1>6. Described'
  BY <1>2, <1>3, <1>5, SameDescribes
<1>7. Inv'
  BY SettingsKept, OptionsKeep DEF SInv, Inv, Shape
<1>. QED
  BY <1>2, <1>3, <1>6, <1>7 DEF SInv, OptionsFirst, ProgramKnown

LEMMA StutterDescribes ==
    ASSUME SInv, UNCHANGED vars
    PROVE  SInv'
<1>1. UNCHANGED <<parserVars, files, stage>> /\ UNCHANGED optionVars
  BY DEF vars
<1>2. UNCHANGED <<case, reading, open, line_no, test, configuration, outcome, options, stage,
                  keep_sandbox, print_results>>
  BY <1>1 DEF parserVars, optionVars, ownVars
<1>3. Inv'
  BY <1>1, SettingsKept, OptionsKeep DEF SInv, Inv, Shape
<1>4. \A f : LinesOf(f)' = LinesOf(f)
  BY <1>2, SameFiles
<1>5. LinesRead("conf")' = LinesRead("conf") /\ LinesRead("test")' = LinesRead("test")
  BY <1>2, <1>4 DEF LinesRead
<1>6. \A f, n : Faultless(f, n)' <=> Faultless(f, n)
  BY <1>2, FaultlessStays
<1>7. \A n : (TestSaid(n) => TestSaid(n)') /\ (ConfSaid(n) => ConfSaid(n)')
  BY <1>2, TestSaidStays, ConfSaidStays
<1>8. /\ \A f, names : Said(f, names)' = Said(f, names)
      /\ \A f, d, default : Single(f, d, default)' = Single(f, d, default)
      /\ \A d : List(d)' = List(d)
      /\ ProgramOf' = ProgramOf
      /\ \A u : Firsts(u)' = Firsts(u)
  BY <1>2, SameWhole DEF Firsts
<1>9. TestAsDescribed'
  BY <1>2, <1>8 DEF SInv, Described, TestAsDescribed
<1>10. \A n \in Nat : n = LinesRead("test")' /\ outcome' = "running" /\ Faultless("test", n)' => TestSaid(n)'
  BY <1>2, <1>5, <1>6, <1>7 DEF SInv, Described
<1>11. \A n \in Nat : n = LinesRead("conf")' /\ Faultless("conf", n)' => ConfSaid(n)'
  BY <1>5, <1>6, <1>7 DEF SInv, Described
<1>12. ProgramKnown'
  <2>1. Where("test", {"return"})' = Where("test", {"return"})
    BY <1>2, SameFiles
  <2>2. Faultless("test", Whole("test"))' <=> Faultless("test", Whole("test"))
    BY <1>2, FaultlessStays
  <2>. QED
    BY <1>2, <1>8, <2>1, <2>2 DEF SInv, ProgramKnown
<1>. QED
  BY <1>2, <1>3, <1>9, <1>10, <1>11, <1>12 DEF SInv, Described, OptionsFirst

LEMMA SBegins ==
    ASSUME Init
    PROVE  SInv
<1>1. Inv
  BY Begins
<1>2. /\ reading = "conf" /\ open = FALSE /\ outcome = "running" /\ stage = "options"
      /\ configuration = Defaults /\ test = EmptyTest
  BY DEF Init, ParserInit
<1>3. LinesRead("conf") = 0 /\ LinesRead("test") = 0
  BY <1>2 DEF LinesRead
<1>4. FromNothing
  BY <1>1, FromNothingIs
<1>5. TestSaid(0)
  <2>. DEFINE T == TestSaid(0)
  <2>1. /\ test.input_file = <<>> /\ test.exit_code = <<>> /\ test.preload_library = <<>>
        /\ test.program = <<>> /\ test.arguments = <<>> /\ test.required_features = <<>>
        /\ test.precheck_command = <<>> /\ test.output = <<>> /\ test.error_output = <<>>
        /\ test.input = <<>> /\ test.files = <<>> /\ test.environment = {}
        /\ test.error_output_replace = <<>>
    BY <1>2 DEF EmptyTest
  <2>. QED
    BY <1>4, <2>1, NothingSaid
<1>6. ConfSaid(0)
  <2>1. /\ configuration.default_program = <<>> /\ configuration.file_compare = {}
        /\ configuration.keep_sandbox = <<"never">>
        /\ configuration.print_results = <<"failed">>
    BY <1>2 DEF Defaults
  <2>. QED
    BY <1>2, <1>4, <2>1, NothingSaid
<1>7. TestAsDescribed /\ ProgramKnown /\ OptionsFirst
  BY <1>2 DEF TestAsDescribed, ProgramKnown, OptionsFirst
<1>. QED
  BY <1>1, <1>3, <1>5, <1>6, <1>7 DEF SInv, Described

LEMMA SKeeps ==
    ASSUME SInv, [Next]_vars, FromNothing'
    PROVE  SInv'
BY ReadFilesDescribes, ChooseFilesDescribes, OverrideDescribes, OptionsDescribe, StutterDescribes
   DEF Next, Terminated

\* What has been read of files without mistakes is what their lines say, at every line.
THEOREM ReadAsSaid == Spec => []SInv
<1>1. Inv => FromNothing
  BY FromNothingIs
<1>. QED
  BY <1>1, SBegins, SKeeps, Invariance, PTL DEF Spec

\* A test that is run is the one its file describes, with the configuration's
\* file-compare commands: for files of any length, with any lines, in any order, and
\* however std::sort exchanges entries with the same name. Of several precheck lines it
\* is the last that is described.
THEOREM TestIsAsDescribed == Spec => []TestAsDescribed
<1>1. SInv => TestAsDescribed
  BY DEF SInv, Described
<1>. QED
  BY <1>1, ReadAsSaid, PTL

\* What it takes, args or not.
LEMMA LoadedIf ==
    ASSUME SInv, outcome \in {"loaded", "refused"}
    PROVE  outcome = "loaded" <=> /\ Sound("conf")
                                  /\ case.test.exists
                                  /\ Sound("test") /\ Where("test", {"return"}) # {}
                                  /\ ProgramOf # <<>>
<1>1. case \in CaseType /\ "test" \in FileNames /\ "conf" \in FileNames /\ reading \in FileNames
  BY DEF SInv, Inv, Shape, ParserTypeOK, FileNames
<1>2. Sound("conf") <=> Faultless("conf", Whole("conf"))
  BY <1>1, FaultlessIsSound
<1>3. Sound("test") <=> Faultless("test", Whole("test"))
  BY <1>1, FaultlessIsSound
<1>5. CASE outcome = "loaded"
  <2>1. /\ reading = "test" /\ open /\ "return" \in seen /\ line_no = Len(lines)
        /\ case.test.exists
    BY <1>5 DEF SInv, Inv, Shape, SeenAreRead
  <2>2. Where("test", {"return"}) # {}
    BY <2>1, LackingIs DEF SInv
  <2>3. Faultless("conf", Whole("conf")) /\ Faultless("test", Whole("test"))
    BY <1>5, <2>1 DEF SInv, Inv, FaultsCount
  <2>4. ProgramOf # <<>>
    BY <1>5 DEF SInv, ProgramKnown
  <2>. QED
    BY <1>2, <1>3, <1>5, <2>1, <2>2, <2>3, <2>4
<1>6. CASE outcome = "refused"
  BY <1>1, <1>2, <1>3, <1>6 DEF SInv, Inv, FaultsCount, Shape, ProgramKnown, FileNames
<1>. QED
  BY <1>5, <1>6

\* A directive that may not be repeated, in a file without mistakes.
LEMMA OnceIfThere ==
    ASSUME case \in CaseType, Sound("test"), NEW d \in {"args", "return"}
    PROVE  Cardinality(Where("test", {d})) = 1 <=> Where("test", {d}) # {}
<1>1. IsFiniteSet(Where("test", {d}))
  BY WhereIs DEF FileNames
<1>2. d \in Known("test") \ Repeatable
  BY DEF Known, TestDirectives, Repeatable
<1>3. Cardinality(Where("test", {d})) <= 1
  BY <1>2 DEF Sound
<1>. QED
  BY <1>1, <1>3, AtMostOne

LEMMA SInvLoadsIfSound == SInv => LoadedIfSound
<1>. SUFFICES ASSUME SInv, outcome \in {"loaded", "refused"},
                     case.test.exists => Where("test", {"args"}) # {}
              PROVE  outcome = "loaded" <=> /\ Sound("conf")
                                            /\ case.test.exists /\ SoundTest
                                            /\ ProgramOf # <<>>
  BY DEF LoadedIfSound
<1>1. case \in CaseType
  BY DEF SInv, Inv, Shape, ParserTypeOK
<1>2. case.test.exists => (SoundTest <=> Sound("test") /\ Where("test", {"return"}) # {})
  BY <1>1, OnceIfThere DEF SoundTest
<1>. QED
  BY <1>2, LoadedIf

\* A test is started exactly if configuration and test case are without mistakes and there
\* is a program: for files of any length, whatever the order of their lines, in which args
\* is not missing.
THEOREM LoadsIfSound == Spec => []LoadedIfSound
BY SInvLoadsIfSound, ReadAsSaid, PTL

LEMMA SInvReadsAsWritten == SInv => ReadAsWritten
<1>. SUFFICES ASSUME SInv, outcome = "loaded", NEW k \in Where("test", {"args"}),
                     LinesOf("test")[k].text \in Written(case.written)
              PROVE  test.arguments = case.written
  BY DEF ReadAsWritten
<1>1. case \in CaseType /\ "test" \in FileNames
  BY DEF SInv, Inv, Shape, ParserTypeOK, FileNames
<1>2. test.arguments = List("args")
  BY DEF SInv, Described, TestAsDescribed
<1>3. \A j \in Where("test", {"args"}) : j = k
  <2>1. Sound("test")
    BY LoadedIf
  <2>2. "args" \in Known("test") \ Repeatable
    BY DEF Known, TestDirectives, Repeatable
  <2>3. Cardinality(Where("test", {"args"})) <= 1
    BY <2>1, <2>2 DEF Sound
  <2>4. IsFiniteSet(Where("test", {"args"}))
    BY <1>1, WhereIs
  <2>. QED
    BY <2>3, <2>4, AtMostOne
<1>4. k \in 1..Whole("test") /\ LinesOf("test")[k].name = "args" /\ Where("test", {"args"}) \in SUBSET Nat
  BY <1>1, WhereIs
<1>5. Max(Where("test", {"args"})) = k
  <2>1. \A j \in Where("test", {"args"}) : j <= k
    BY <1>3, <1>4
  <2>. QED
    BY <1>4, <2>1, MaxIs
<1>6. test.arguments = Arguments("test", k)
  BY <1>2, <1>5 DEF List
<1>7. Arguments("test", k) = Tokenize(LinesOf("test")[k].text).args
  BY <1>4 DEF Arguments, WholeLine
<1>8. LinesOf("test")[k].text \in Text /\ case.written \in Seq(Text)
  <2>1. LinesOf("test")[k] \in Line
    BY <1>1, <1>4, LineIs DEF Whole
  <2>. QED
    BY <1>1, <2>1 DEF Line, CaseType
<1>. QED
  BY <1>6, <1>7, <1>8, ReadBack

\* However the arguments are written down, the test that is run has them as they were
\* meant: any number of arguments of any length.
THEOREM WrittenIsRead == Spec => []ReadAsWritten
BY SInvReadsAsWritten, ReadAsSaid, PTL

-----------------------------------------------------------------------------
(* The command line *)

OptionsInv == GetoptInv /\ MainInv /\ FileNamed

LEMMA OptionsBeginWell == Init => OptionsInv
<1>. SUFFICES ASSUME Init
              PROVE  OptionsInv
  OBVIOUS
<1>1. PICK i : command = i.command /\ \E group \in Invocations : i \in group
  BY DEF Init
<1>2. IsSequence(command) /\ \A w \in Range(command) : IsSequence(w)
  BY <1>1, StartupAssumption
<1>3. WordsSound(command)
  BY <1>2 DEF WordsSound, IsSequence
<1>4. OptionsInit
  BY DEF Init
<1>5. FileNamed
  BY <1>4 DEF OptionsInit, FileNamed
<1>. QED
  BY <1>3, <1>4, <1>5, OptionsBegin DEF OptionsInv

LEMMA OptionsStayWell == OptionsInv /\ [Next]_vars => OptionsInv'
<1>. SUFFICES ASSUME OptionsInv, [Next]_vars
              PROVE  OptionsInv'
  OBVIOUS
<1>1. CASE OptionsNext
  BY <1>1, OptionsHonour, FileStays DEF OptionsInv
<1>2. CASE UNCHANGED optionVars
  <2>1. UNCHANGED <<command, configuration_file>>
    BY <1>2 DEF optionVars, ownVars
  <2>. QED
    BY <1>2, <2>1, StutterHonours DEF OptionsInv, FileNamed
<1>3. OptionsNext \/ UNCHANGED optionVars
  BY DEF Next, ChooseFiles, ReadFiles, Override, Terminated, vars
<1>. QED
  BY <1>1, <1>2, <1>3

\* What is known of argv and of the options handed out holds throughout.
THEOREM OptionsInvariance == Spec => []OptionsInv
BY OptionsBeginWell, OptionsStayWell, PTL DEF Spec

\* permute_args keeps the order in each block, and when all options are handed out argv has
\* them first and optind is behind them: for every command line.
THEOREM ArgumentsArePermuted == Spec => []ArgvPermuted
<1>1. OptionsInv => ArgvPermuted
  BY GetoptInvPermuted DEF OptionsInv
<1>. QED
  BY <1>1, OptionsInvariance, PTL

\* The first option that ends nihtest does so, and without one it goes on exactly if one
\* test case was named: for every command line, however options are put together in words,
\* abbreviated, or mixed with other words.
THEOREM OptionsAreHonoured == Spec => []OptionsHonoured
<1>1. OptionsInv => OptionsHonoured
  BY Honours DEF OptionsInv
<1>. QED
  BY <1>1, OptionsInvariance, PTL

LEMMA StartupTyped == Inv /\ OptionsInv => TypeOK
<1>. SUFFICES ASSUME Inv, OptionsInv
              PROVE  TypeOK
  OBVIOUS
<1>1. OptionsTypeOK
  BY OptionsTyped DEF OptionsInv
<1>2. /\ ParserTypeOK
      /\ stage \in {"options", "configuration", "test"}
      /\ stage = "options" => case.conf = NoFile /\ ~open
  BY DEF Inv, Shape
<1>3. stage = "configuration" => outcome \in {"running", "refused"}
  BY DEF Inv, Shape, ParserTypeOK
<1>. QED
  BY <1>1, <1>2, <1>3 DEF TypeOK

\* Every variable has its type: optind and the marks of the words skipped stay in argv, and
\* what is left of a word of options is the end of it.
THEOREM StartupTypes == Spec => []TypeOK
BY StartupTyped, Invariance, OptionsInvariance, PTL

-----------------------------------------------------------------------------
(* The settings *)

LEMMA AskedIs ==
    ASSUME NEW values, Len(Demanded) \in Nat
    PROVE  /\ NoneOf(Demanded, Len(Demanded), values) => Asked(values, "") = ""
           /\ \A k : LastOf(Demanded, Len(Demanded), values, k) => Asked(values, "") = Demanded[k]
<1>. DEFINE n == Len(Demanded)
            given == {k \in 1..n : Demanded[k] \in values}
<1>1. Asked(values, "") = IF given = {} THEN "" ELSE Demanded[Max(given)]
  BY DEF Asked
<1>2. given \in SUBSET Nat
  OBVIOUS
<1>3. NoneOf(Demanded, n, values) => given = {}
  BY DEF NoneOf
<1>4. ASSUME NEW k, LastOf(Demanded, n, values, k)
      PROVE  k \in given /\ \A m \in given : m <= k
  <2>1. k \in 1..n /\ Demanded[k] \in values /\ \A j \in (k + 1)..n : Demanded[j] \notin values
    BY <1>4 DEF LastOf
  <2>2. ASSUME NEW m \in given, ~(m <= k)
        PROVE  FALSE
    <3>1. m \in (k + 1)..n /\ Demanded[m] \in values
      BY <2>1, <2>2
    <3>. QED
      BY <2>1, <3>1
  <2>. QED
    BY <2>1, <2>2
<1>. HIDE DEF given
<1>5. \A k : LastOf(Demanded, n, values, k) => Max(given) = k /\ given # {}
  BY <1>2, <1>4, MaxIs
<1>. QED
  BY <1>1, <1>3, <1>5

LEMMA LoadedSettings ==
    ASSUME SInv, outcome = "loaded"
    PROVE  /\ options = "done"
           /\ configuration.keep_sandbox = IF keep_sandbox = "unset"
                                           THEN Single("conf", "keep-sandbox", <<"never">>)
                                           ELSE <<keep_sandbox>>
           /\ configuration.print_results = IF print_results = "unset"
                                            THEN Single("conf", "print-results", <<"failed">>)
                                            ELSE <<print_results>>
<1>1. reading = "test" /\ open /\ stage = "test" /\ case \in CaseType
  BY DEF SInv, Inv, Shape, ParserTypeOK
<1>2. options = "done"
  BY <1>1 DEF SInv, OptionsFirst
<1>3. "conf" \in FileNames /\ Whole("conf") \in Nat
  BY <1>1, LinesAre DEF FileNames, Whole
<1>4. Whole("conf") = LinesRead("conf")
  BY <1>1 DEF LinesRead, Whole
<1>5. Faultless("conf", Whole("conf"))
  BY <1>1 DEF SInv, Inv, FaultsCount
<1>6. SettingsSaid(Whole("conf"))
  BY <1>3, <1>4, <1>5 DEF SInv, Described, ConfSaid
<1>. QED
  BY <1>1, <1>2, <1>3, <1>6, SingleIs DEF SettingsSaid

LEMMA AllDemandsMet ==
    ASSUME OptionsInv, options = "done"
    PROVE  /\ Len(Demanded) \in Nat
           /\ \E setting : /\ ResultsOf(Demanded, Len(Demanded), setting)
                           /\ print_results = WithEnvironment(setting, "VERBOSE", "always")
           /\ \E setting : /\ SandboxOf(Demanded, Len(Demanded), setting)
                           /\ keep_sandbox = WithEnvironment(setting, "KEEP_BROKEN", "failed")
<1>4. Demanded = HandedOver
  BY DoneReadsAsMeant DEF OptionsInv
<1>1. Len(Demanded) \in Nat
  BY <1>4, HandedOverType DEF OptionsInv, GetoptInv
<1>2. returned = "EOF"
  BY DEF OptionsInv, MainInv, Ending
<1>3. Applied = Len(Demanded)
  BY <1>2, <1>4 DEF Applied, Pending, Taken
<1>. QED
  BY <1>1, <1>3, <1>4 DEF OptionsInv, MainInv, SettingsOf

LEMMA StrongestResults ==
    ASSUME SInv, OptionsInv, outcome = "loaded", NEW asked, asked = Asked({"q", "v"}, "")
    PROVE  configuration.print_results =
              CASE asked = "q" -> <<"never">>
                [] asked = "v" \/ (asked = "" /\ "VERBOSE" \in environment) -> <<"always">>
                [] OTHER -> Single("conf", "print-results", <<"failed">>)
<1>. DEFINE d == Demanded
            n == Len(Demanded)
            file == Single("conf", "print-results", <<"failed">>)
<1>1. options = "done"
  BY LoadedSettings
<1>2. configuration.print_results = IF print_results = "unset" THEN file ELSE <<print_results>>
  BY LoadedSettings
<1>3. n \in Nat
  BY <1>1, AllDemandsMet
<1>4. PICK setting : /\ ResultsOf(d, n, setting)
                     /\ print_results = WithEnvironment(setting, "VERBOSE", "always")
  BY <1>1, AllDemandsMet
<1>5. \/ asked = "" /\ setting = "unset"
      \/ asked = "q" /\ setting = "never"
      \/ asked = "v" /\ setting = "always"
  <2>1. CASE NoneOf(d, n, {"q", "v"}) /\ setting = "unset"
    BY <1>3, <2>1, AskedIs
  <2>2. ASSUME NEW k, LastOf(d, n, {"q", "v"}, k), setting = IF d[k] = "q" THEN "never" ELSE "always"
        PROVE  \/ asked = "q" /\ setting = "never"
               \/ asked = "v" /\ setting = "always"
    <3>1. d[k] \in {"q", "v"}
      BY <2>2 DEF LastOf
    <3>2. asked = d[k]
      BY <1>3, <2>2, AskedIs
    <3>. QED
      BY <2>2, <3>1, <3>2
  <2>. QED
    BY <1>4, <2>1, <2>2 DEF ResultsOf, ResultOptions
<1>. HIDE DEF d, n, file
<1>6. print_results = IF setting = "unset" /\ "VERBOSE" \in environment THEN "always" ELSE setting
  BY <1>4 DEF WithEnvironment
<1>7. configuration.print_results =
         CASE asked = "q" -> <<"never">>
           [] asked = "v" \/ (asked = "" /\ "VERBOSE" \in environment) -> <<"always">>
           [] OTHER -> file
  BY <1>2, <1>5, <1>6
<1>. QED
  BY <1>7 DEF file

LEMMA StrongestSandbox ==
    ASSUME SInv, OptionsInv, outcome = "loaded",
           NEW asked, asked = Asked({"keep-broken", "no-cleanup", "setup-only"}, "")
    PROVE  configuration.keep_sandbox =
              CASE asked \in {"no-cleanup", "setup-only"} -> <<"always">>
                [] asked = "keep-broken" \/ (asked = "" /\ "KEEP_BROKEN" \in environment) -> <<"failed">>
                [] OTHER -> Single("conf", "keep-sandbox", <<"never">>)
<1>. DEFINE d == Demanded
            n == Len(Demanded)
            file == Single("conf", "keep-sandbox", <<"never">>)
<1>1. options = "done"
  BY LoadedSettings
<1>2. configuration.keep_sandbox = IF keep_sandbox = "unset" THEN file ELSE <<keep_sandbox>>
  BY LoadedSettings
<1>3. n \in Nat
  BY <1>1, AllDemandsMet
<1>4. PICK setting : /\ SandboxOf(d, n, setting)
                     /\ keep_sandbox = WithEnvironment(setting, "KEEP_BROKEN", "failed")
  BY <1>1, AllDemandsMet
<1>5. \/ asked = "" /\ setting = "unset"
      \/ asked = "keep-broken" /\ setting = "failed"
      \/ asked \in {"no-cleanup", "setup-only"} /\ setting = "always"
  <2>1. CASE NoneOf(d, n, SandboxOptions) /\ setting = "unset"
    BY <1>3, <2>1, AskedIs DEF SandboxOptions
  <2>2. ASSUME NEW k, LastOf(d, n, SandboxOptions, k),
               setting = IF d[k] = "keep-broken" THEN "failed" ELSE "always"
        PROVE  \/ asked = "keep-broken" /\ setting = "failed"
               \/ asked \in {"no-cleanup", "setup-only"} /\ setting = "always"
    <3>1. d[k] \in {"keep-broken", "no-cleanup", "setup-only"}
      BY <2>2 DEF LastOf, SandboxOptions
    <3>2. asked = d[k]
      BY <1>3, <2>2, AskedIs DEF SandboxOptions
    <3>. QED
      BY <2>2, <3>1, <3>2
  <2>. QED
    BY <1>4, <2>1, <2>2 DEF SandboxOf
<1>. HIDE DEF d, n, file
<1>6. keep_sandbox = IF setting = "unset" /\ "KEEP_BROKEN" \in environment THEN "failed" ELSE setting
  BY <1>4 DEF WithEnvironment
<1>7. configuration.keep_sandbox =
         CASE asked \in {"no-cleanup", "setup-only"} -> <<"always">>
           [] asked = "keep-broken" \/ (asked = "" /\ "KEEP_BROKEN" \in environment) -> <<"failed">>
           [] OTHER -> file
  BY <1>2, <1>5, <1>6
<1>. QED
  BY <1>7 DEF file

\* A test runs with the settings of the strongest source that has any, the command line
\* before the environment before the configuration file before the defaults: for every
\* command line, environment and configuration.
THEOREM TheStrongestWins == Spec => []StrongestWins
<1>1. SInv /\ OptionsInv => StrongestWins
  BY StrongestResults, StrongestSandbox DEF StrongestWins
<1>. QED
  BY <1>1, ReadAsSaid, OptionsInvariance, PTL

=============================================================================
