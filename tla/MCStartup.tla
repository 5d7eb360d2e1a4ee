----------------------------- MODULE MCStartup -----------------------------
(* Instances of Startup for TLC: short command lines of all kinds; short texts of all
   kinds, arguments written down in all ways, and short files made of typical lines. *)
EXTENDS Startup

MCWord == {"a", "n", "never", "sometimes", "always"}

\* Order of characters; the inputs have no others in names of files.
Code(c) == CASE c = Tab -> 1 [] c = Blank -> 2 [] c = "." -> 3 [] c = "a" -> 4 [] c = "n" -> 5
MCLess(s, t) ==
    \E k \in 1..(Len(s) + 1) :
        /\ k <= Len(t)
        /\ SubSeq(s, 1, k - 1) = SubSeq(t, 1, k - 1)
        /\ k <= Len(s) => Code(s[k]) < Code(t[k])

L(name, text) == [name |-> name, text |-> text]
t == <<"t">>
ConfName == <<"nihtest", ".", "conf">>
TestName == <<"t", ".", "test">>
\* A file's lines, in a set for the file may be missing.
Exists(ls) == {ls}
Missing == {}
Disk(conf, test_) ==
    {[name |-> ConfName, lines |-> ls] : ls \in conf} \cup {[name |-> TestName, lines |-> ls] : ls \in test_}
Case(conf, test_, written_) ==
    [command |-> <<t>>, environment |-> {}, written |-> written_,
     files |-> Disk(conf, test_)]

a == <<"a">>
n == <<"n">>
and == <<Blank>>
default == Exists(<<L("default-program", a)>>)
good == L("return", n)
args == L("args", <<>>)

Strings(S, low, high) == UNION {[1..len -> S] : len \in low..high}
Special == {"a", "n", Blank, Tab, Quote, Backslash}

\* All texts of up to four characters as the only arguments.
AnyText ==
    {Case(default, Exists(<<L("args", text), good>>), <<>>) : text \in Strings(Special, 0, 4)}

\* Arguments of up to two characters, or up to three arguments, in all ways they can be written.
Lists == {<<one>> : one \in Strings((Special \cup {"nl"}), 0, 2)}
             \cup {<<one, two>> : one \in Strings({"a", Blank, Tab, Backslash}, 0, 2),
                                  two \in Strings({"a", Tab, Backslash, Quote}, 0, 1)}
             \cup Strings({<<Blank>>, <<"a">>}, 3, 3)
WrittenDown ==
    UNION {{Case(default, Exists(<<good, L("args", text)>>), list) : text \in Written(list)} :
              list \in Lists}

\* Files of up to two of these lines, alone and behind the two that must appear, or three of
\* those that are related.
TestLines ==
    {L("comment", <<>>), L("unknown", a), args, L("description", a \o and),
     L("features", <<>>), L("file", a \o and \o n), L("file", n \o and \o a \o and \o n),
     L("file-del", a \o and \o n), L("file-new", a \o and \o n), L("precheck", a \o and \o n),
     L("precheck", n), L("preload", a), L("program", <<Quote, Quote>>), L("program", n),
     L("return", n), L("return", n \o and \o a), L("setenv", a \o and \o n), L("setenv", a \o and \o a),
     L("setenv", a), L("stderr", <<Quote>>), L("stderr-replace", a \o and \o n),
     L("stderr-replace", <<"[">> \o and \o n), L("stdin", <<>>), L("stdin-file", a),
     L("stdin-file", <<Quote, Quote>>), L("stdin-file", <<Quote, "a">>), L("stdout", n)}
\* Those that concern each other, or the errors of which do.
Related ==
    {l \in TestLines : l.name \in {"unknown", "file", "file-del", "return", "setenv", "stdin",
                                   "stdin-file", "stdout"}}
TestFiles ==
    {Case(default, Exists(ls), <<>>) : ls \in Strings(TestLines, 0, 2)}
        \cup {Case(default, Exists(<<args>> \o ls), <<>>) : ls \in Strings(Related, 3, 3)}
        \cup {Case(conf, Exists(<<good, args>> \o ls), <<>>) :
                 conf \in {Missing, default}, ls \in Strings(TestLines, 0, 2)}

ConfLines ==
    {L("comment", <<>>), L("unknown", a), L("args", a), L("default-program", n),
     L("file-compare", a \o and \o n), L("file-compare", a \o and \o n \o and \o a),
     L("file-compare", a \o and \o n \o and \o n), L("keep-sandbox", <<"never">>),
     L("keep-sandbox", <<"sometimes">>), L("print-results", <<"never">>),
     L("sandbox-directory", a \o and \o n), L("source-directory", a),
     L("top-build-directory", <<>>)}
ConfFiles ==
    {Case(Exists(ls), test_, <<>>) : ls \in Strings(ConfLines, 0, 3),
                                 test_ \in {Exists(<<args, good>>), Missing}}

-----------------------------------------------------------------------------
(* Command lines *)

O(symbols) == <<Dash>> \o symbols
LongWord(symbols) == O(O(symbols))

OtherWords == {t, <<"u">>, EndMark}
SettingWords ==
    {O(<<"v">>), LongWord(<<"q">>), LongWord(<<"keep">>), LongWord(<<"no-cleanup">>),
     LongWord(<<"setup-only">>)}
TypicalWords ==
    OtherWords \cup {O(<<>>), O(<<"v">>), O(<<"C">>), O(<<"v", "C">>), O(<<"v", "h">>),
                     LongWord(<<"ver">>), LongWord(<<"ver", "bose">>), LongWord(<<"config-file">>)}
AllWords ==
    TypicalWords \cup SettingWords
        \cup {<<>>, O(<<"q">>), O(<<"x", "V">>), O(<<"v", Dash>>), LongWord(<<"ver", "sion">>),
              LongWord(<<"ver", "bose", "=", "t">>), LongWord(<<"=">>), LongWord(<<"help", "t">>)}

Call(line_, environment_, conf) ==
    [command |-> line_, environment |-> environment_, written |-> <<>>,
     files |-> Disk(conf, Exists(<<good, args, L("program", a)>>))
                   \cup {[name |-> t, lines |-> <<L("print-results", <<"always">>)>>]}]

Lines ==
    {Call(line_, environment_, Missing) :
        line_ \in Strings(AllWords, 0, 2) \cup Strings(TypicalWords, 3, 3),
        environment_ \in {{}, {"POSIXLY_CORRECT"}}}
\* Words to be moved.
Moved ==
    {Call(line_, {}, Missing) :
        line_ \in Strings({t, <<"u">>, O(<<"v">>), LongWord(<<"q">>)}, 4, 5)
                      \cup Strings({t, O(<<"v">>), EndMark}, 4, 5)}
\* Settings from all sources.
Sources ==
    {Call(line_ \o <<t>>, environment_, conf) :
        line_ \in Strings(SettingWords, 0, 2),
        environment_ \in SUBSET {"VERBOSE", "KEEP_BROKEN"},
        conf \in {Missing, Exists(<<L("keep-sandbox", <<"always">>), L("print-results", <<"never">>)>>)}}

MCInvocations == {AnyText, WrittenDown, TestFiles, ConfFiles, Lines, Moved, Sources}

=============================================================================
