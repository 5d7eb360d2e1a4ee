----------------------------- MODULE ListFiles ------------------------------
(***************************************************************************)
(* OS::list_files (src/src/OS-Unix.cc): the files below a directory, each  *)
(* directory's entries sorted, subdirectories listed where they stand.     *)
(*                                                                         *)
(* A name is a sequence of character codes.  A path is the sequence of the *)
(* names on it; a tree is a set of paths, those of its files.  (A          *)
(* directory without files adds nothing to the list.)                      *)
(***************************************************************************)
EXTENDS Naturals, FiniteSets, SequencesExt

Slash == 47
Text == Seq(Nat)
Path == Seq(Text)

\* std::string's operator<.
StringLess(s, t) ==
    \E k \in 0..Len(s) :
        /\ k < Len(t)
        /\ \A i \in 1..k : s[i] = t[i]
        /\ k = Len(s) \/ s[k + 1] < t[k + 1]

\* The elements of S in an order.  (SetToSortSeq would do, but for the provers, which
\* cannot see into the SortSeq it uses.)
Ordered(S, Less(_, _)) ==
    CHOOSE seq \in [1..Cardinality(S) -> S] : \A j, k \in DOMAIN seq : j < k => Less(seq[j], seq[k])

SortStrings(S) == Ordered(S, StringLess)

\* The directory listed, ".", is the empty path.
append_path_component(directory, name) ==
    IF directory = <<>> THEN name ELSE directory \o <<Slash>> \o name

\* The name of a path, as list_files_recurse puts it together on the way down.
Join[path \in Path] ==
    IF path = <<>> THEN <<>>
    ELSE append_path_component(Join[Front(path)], Last(path))

\* Mutant: entries are taken in the order of their lengths.
ShortestFirst(S) == Ordered(S, LAMBDA s, t : Len(s) < Len(t) \/
                                   (Len(s) = Len(t) /\ StringLess(s, t)))

SortEntries(S) == SortStrings(S)

\* What readdir finds in the directory at path, sorted.
ReadDir(tree, path) ==
    SortEntries({file[Len(path) + 1] : file \in {f \in tree : IsStrictPrefix(path, f)}})

\* list_files_recurse, which looks at its directory alone.
list_files(tree) ==
    LET Listed[path \in {<<>>} \cup UNION {Prefixes(file) : file \in tree}] ==
            IF path \in tree THEN <<Join[path]>>
            ELSE LET entries == ReadDir(tree, path)
                 IN FlattenSeq([k \in 1..Len(entries) |-> Listed[Append(path, entries[k])]])
    IN Listed[<<>>]

-----------------------------------------------------------------------------
\* Files have names, without a slash in them, and are no directories.
IsTree(tree) ==
    /\ IsFiniteSet(tree)
    /\ tree \subseteq Path
    /\ \A file \in tree : /\ file # <<>>
                          /\ \A i \in 1..Len(file) :
                                /\ file[i] # <<>>
                                /\ \A j \in 1..Len(file[i]) : file[i][j] # Slash
    /\ \A file, other \in tree : ~IsStrictPrefix(file, other)

\* No character sorts before the slash.
IsPlain(tree) == \A file \in tree : \A i \in 1..Len(file) : \A j \in 1..Len(file[i]) : file[i][j] > Slash

=============================================================================
