----------------------------- MODULE Tokenizer -----------------------------
(***************************************************************************)
(* Parser::tokenize (src/src/Parser.cc): what follows a directive's name   *)
(* is split into arguments, which may be quoted.                           *)
(*                                                                         *)
(* A text is a sequence of symbols. A symbol is a character with a meaning *)
(* of its own here, a letter, or a word of letters of which nothing but    *)
(* its identity matters. No such word follows a backslash.                 *)
(***************************************************************************)
EXTENDS Integers, Sequences, FiniteSetsExt

CONSTANT Word   \* letters and words

Blank == " "
Tab == "\t"
Quote == "\""
Backslash == "\\"
Whitespace == {Blank, Tab}

\* What escapes stand for; a dot is special in file-compare only, a bracket in
\* regular expressions.
Control == {"bs", "ff", "nl", "cr"}
Symbol == Word \cup Control \cup Whitespace \cup {Quote, Backslash, ".", "["}

\* Mutant: there is no case for the backslash.
EscapeNotBackslash(c) ==
    CASE c = Quote -> <<Backslash>>
      [] c = "b" -> <<"bs">>
      [] c = "f" -> <<"ff">>
      [] c = "n" -> <<"nl">>
      [] c = "r" -> <<"cr">>
      [] c = "t" -> <<Tab>>
      [] OTHER -> <<>>

\* The cases for the backslash and the quote are one: both give a backslash. Any
\* other character is dropped along with the backslash.
Escape(c) ==
    CASE c \in {Backslash, Quote} -> <<Backslash>>
      [] c = "b" -> <<"bs">>
      [] c = "f" -> <<"ff">>
      [] c = "n" -> <<"nl">>
      [] c = "r" -> <<"cr">>
      [] c = "t" -> <<Tab>>
      [] OTHER -> <<>>

\* find_first_not_of and find: the first place from k on, or behind the end.
FirstOf(places, text) == IF places = {} THEN Len(text) + 1 ELSE Min(places)
SkipWhitespace(text, k) == FirstOf({j \in k..Len(text) : text[j] \notin Whitespace}, text)
NextBlank(text, k) == FirstOf({j \in k..Len(text) : text[j] = Blank}, text)

\* What is between the quotes, from k on, and where the closing one is; the text
\* may end before it, or in the middle of an escape.
Quoted(text) ==
    LET From[k \in 1..(Len(text) + 1)] ==
          IF k > Len(text) \/ (k = Len(text) /\ text[k] = Backslash)
          THEN [ok |-> FALSE, arg |-> <<>>, close |-> k]
          ELSE IF text[k] = Quote
          THEN [ok |-> TRUE, arg |-> <<>>, close |-> k]
          ELSE IF text[k] = Backslash
          THEN [From[k + 2] EXCEPT !.arg = Escape(text[k + 1]) \o @]
          ELSE [From[k + 1] EXCEPT !.arg = <<text[k]>> \o @]
    IN From

\* The arguments of a text, and whether tokenize ended without an error. After an
\* error it returns, and the arguments before are used all the same.
\* An argument without quotes ends at a blank, but not at a tab or a quote.
Tokenize(text) ==
    LET From[k \in 1..(Len(text) + 1)] ==
          IF k > Len(text)
          THEN [ok |-> TRUE, args |-> <<>>]
          ELSE IF text[k] = Quote
          THEN LET quoted == Quoted(text)[k + 1] IN
               IF quoted.ok
               THEN [From[SkipWhitespace(text, quoted.close + 1)] EXCEPT !.args = <<quoted.arg>> \o @]
               ELSE [ok |-> FALSE, args |-> <<>>]
          ELSE LET blank == NextBlank(text, k) IN
               [From[SkipWhitespace(text, blank + 1)]
                    EXCEPT !.args = <<SubSeq(text, k, blank - 1)>> \o @]
    IN From[SkipWhitespace(text, 1)]

-----------------------------------------------------------------------------
(* How a test case's author writes arguments down *)

\* Escaped as needed, from each place on, and put in quotes.
Spelled(c) ==
    CASE c = Backslash -> <<Backslash, Backslash>>
      [] c = "nl" -> <<Backslash, "n">>
      [] OTHER -> <<c>>
Escaped(arg) ==
    LET From[k \in 1..(Len(arg) + 1)] ==
          IF k > Len(arg) THEN <<>> ELSE Spelled(arg[k]) \o From[k + 1]
    IN From
InQuotes(arg) == <<Quote>> \o Escaped(arg)[1] \o <<Quote>>

\* No argument with a quote can be put in quotes.
Quotable(arg) == \A k \in 1..Len(arg) : arg[k] # Quote
Bare(arg) == /\ arg # <<>>
             /\ arg[1] # Quote
             /\ \A k \in 1..Len(arg) : arg[k] \notin {Blank, Tab, "nl"}

\* All ways to write arguments down, with some gaps between them and behind the last;
\* there need be none behind a quote.
Gaps == {<<Blank>>, <<Blank, Tab>>}
GapsBehindQuotes == Gaps \cup {<<>>, <<Tab>>}
GapsBehindBare(args, k) == IF k < Len(args) THEN Gaps ELSE Gaps \cup {<<>>}
WrittenBefore(args, k, rests) ==
    (IF Quotable(args[k])
     THEN {InQuotes(args[k]) \o gap \o rest : gap \in GapsBehindQuotes, rest \in rests} ELSE {})
    \cup
    (IF Bare(args[k])
     THEN {args[k] \o gap \o rest : gap \in GapsBehindBare(args, k), rest \in rests} ELSE {})
Written(args) ==
    LET From[k \in 1..(Len(args) + 1)] ==
          IF k > Len(args) THEN {<<>>} ELSE WrittenBefore(args, k, From[k + 1])
    IN From[1]

=============================================================================
