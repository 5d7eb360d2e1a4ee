--------------------------- MODULE MCCompareFiles ---------------------------
(* Instances of CompareFiles for TLC: all pairs of sorted lists over a few names,
   and the lists that list_files makes of small directory trees. *)
EXTENDS CompareFiles, ListFiles

Three == 1..3
InOrder(S) == SelectSeq(<<1, 2, 3>>, LAMBDA n : n \in S)
Entries(deleted, wanted) ==
    LET names == InOrder(deleted \cup wanted)
    IN [k \in 1..Len(names) |-> [name |-> names[k], output |-> names[k] \in wanted]]

NoContent == [n \in Three |-> <<>>]
Case(expected_, got_, judge_) ==
    [expected |-> expected_, got |-> got_, judge |-> judge_, left |-> NoContent,
     right |-> NoContent, copied |-> FALSE]

\* Every choice of deleted, wanted and found files, and of what comparing comes to.
AllCases ==
    {Case(Entries(deleted, wanted), InOrder(found), v) :
        deleted \in SUBSET Three, wanted \in SUBSET Three, found \in SUBSET Three,
        v \in [Three -> Verdict]}

\* Files named by several directives.
Repeated ==
    LET Ascends(list) == \A j, k \in DOMAIN list : j < k => list[j].name <= list[k].name
        Lists == {list \in UNION {[1..len -> [name : {1, 2}, output : BOOLEAN]] : len \in 2..4} :
                     Ascends(list)}
    IN {Case(list, InOrder(found), v @@ (3 :> "same")) :
           list \in Lists, found \in SUBSET {1, 2}, v \in [{1, 2} -> Verdict]}

\* All pairs of contents of up to two buffers.
MCByte == {0, 1}
Contents == UNION {[1..len -> MCByte] : len \in 0..4}
ByBytes ==
    {[expected |-> Entries({}, {2}), got |-> <<2>>, judge |-> [n \in Three |-> "bytes"],
      left |-> [NoContent EXCEPT ![2] = left_], right |-> [NoContent EXCEPT ![2] = right_],
      copied |-> copied_] :
        left_ \in Contents, right_ \in Contents, copied_ \in BOOLEAN}

-----------------------------------------------------------------------------
\* Directory trees, whose files are numbered by StringLess.
a == <<97>>
b == <<98>>
c == <<99>>
ab == <<97, 98>>
aDotB == <<97, 46, 98>>

\* The program made exactly the files of the tree, which the test expects.
AsExpected(files) ==
    LET ranked == SortStrings({Join[path] : path \in files})
        Rank(path) == CHOOSE k \in 1..Len(ranked) : ranked[k] = path
        Listed(tree) == [k \in 1..Len(list_files(tree)) |-> Rank(list_files(tree)[k])]
        Wanting(list) == LET sorted == SortSeq(list, <) IN
            Case([k \in 1..Len(sorted) |-> [name |-> sorted[k], output |-> TRUE]], list,
                 [n \in Three |-> "same"])
    IN {Wanting(Listed(tree)) : tree \in SUBSET files}

\* No character of these names sorts before the slash.
PlainFiles == {{<<a, b>>, <<a, c, a>>, <<ab>>}, {<<ab>>, <<b>>, <<c, a>>}}
PlainTrees == UNION {AsExpected(files) : files \in PlainFiles}
ASSUME PlainAssumption == \A files \in PlainFiles : IsTree(files) /\ IsPlain(files)

MergedCases == UNION {AllCases, Repeated, ByBytes, PlainTrees}

\* "a.b" sorts before "a/b", but after "a".
DottedTrees == AsExpected({<<a, b>>, <<aDotB>>, <<c>>})

=============================================================================
