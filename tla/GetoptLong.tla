----------------------------- MODULE GetoptLong -----------------------------
(***************************************************************************)
(* getopt_long (src/src/getopt_long.c), nihtest's replacement where the C  *)
(* library has none: it hands out the options of a command line one by one *)
(* and moves the words that are none behind them.                          *)
(*                                                                         *)
(* A word is a sequence of symbols: characters of which options are made,  *)
(* and pieces of names, cut where abbreviations end. argv has the words    *)
(* behind the program's name, so that argv[optind] is the code's, and      *)
(* optind >= argc is optind > Len(argv).                                   *)
(*                                                                         *)
(* Left out, for nihtest's tables do not reach it: arguments of options,   *)
(* "-W", results in order ("-" in front of the short options), flags and   *)
(* optreset; opterr is 0.                                                  *)
(***************************************************************************)
EXTENDS Integers, Sequences, FiniteSets, SequencesExt

CONSTANTS
    Short,     \* letters of options
    Long       \* table of long options: names and values

VARIABLES
    environment,     \* variables that are set; nobody changes them
    argv,
    optind,          \* next word to look at
    place,           \* letters left of a word of options; <<>> is the code's EMSG
    nonopt_start,    \* first word skipped, or -1
    nonopt_end,      \* first option behind the words skipped, or -1
    returned         \* of the last call, or "scanning" in the middle of one

GetoptInit ==
    /\ optind = 1
    /\ place = <<>>
    /\ nonopt_start = -1
    /\ nonopt_end = -1
    /\ returned = "scanning"

-----------------------------------------------------------------------------
(* permute_args *)

Gcd(a, b) ==
    LET From[p \in Nat \X (Nat \ {0})] ==
            IF p[1] % p[2] = 0 THEN p[2] ELSE From[<<p[2], p[1] % p[2]>>]
    IN From[<<a, b>>]

\* Exchanges the blocks [start, end) and [end, behind), cycle by cycle.
Permuted(args, start, end, behind) ==
    LET nnonopts == end - start
        nopts == behind - end
        cyclelen == (nnonopts + nopts) \div Gcd(nnonopts, nopts)
        After[k \in 0..(nnonopts + nopts)] ==
            IF k = 0 THEN [args |-> args, pos |-> end]
            ELSE LET before == After[k - 1]
                     cstart == end + (k - 1) \div cyclelen
                     last == IF (k - 1) % cyclelen = 0 THEN cstart ELSE before.pos
                     pos == IF last >= end THEN last - nnonopts ELSE last + nopts
                     a == before.args
                 IN [args |-> [a EXCEPT ![pos] = a[cstart], ![cstart] = a[pos]], pos |-> pos]
    IN After[nnonopts + nopts].args

\* The words and the place of the first one skipped, when those skipped up to end have
\* been moved behind the options up to behind.
Rearranged(end, behind) ==
    IF end = -1 THEN [argv |-> argv, first |-> behind]
    ELSE [argv |-> Permuted(argv, nonopt_start, end, behind),
          first |-> behind - (end - nonopt_start)]

-----------------------------------------------------------------------------
(* getopt_internal and getopt_long *)

Dash == "-"
IsOption(w) == Len(w) > 1 /\ w[1] = Dash
IsLong(w) == IsOption(w) /\ w[2] = Dash
EndMark == <<Dash, Dash>>

word == argv[optind]
AtWord == returned = "scanning" /\ place = <<>> /\ optind <= Len(argv)
AtNonOption == AtWord /\ ~IsOption(word)

EndOfArguments ==
    /\ returned = "scanning" /\ place = <<>> /\ optind > Len(argv)
    /\ argv' = Rearranged(nonopt_end, optind).argv
    /\ optind' = IF nonopt_end = -1 /\ nonopt_start # -1
                 THEN nonopt_start
                 ELSE Rearranged(nonopt_end, optind).first
    /\ nonopt_start' = -1
    /\ nonopt_end' = -1
    /\ returned' = "EOF"
    /\ UNCHANGED <<environment, place>>

StopAtNonOption ==
    /\ AtNonOption
    /\ "POSIXLY_CORRECT" \in environment
    /\ returned' = "EOF"
    /\ UNCHANGED <<environment, argv, optind, place, nonopt_start, nonopt_end>>

\* Mutant: the end of the block stays where it was.
SkipWithOldEnd ==
    /\ AtNonOption
    /\ "POSIXLY_CORRECT" \notin environment
    /\ argv' = Rearranged(nonopt_end, optind).argv
    /\ nonopt_start' = IF nonopt_start = -1 THEN optind
                       ELSE IF nonopt_end = -1 THEN nonopt_start
                       ELSE Rearranged(nonopt_end, optind).first
    /\ optind' = optind + 1
    /\ UNCHANGED <<environment, place, nonopt_end, returned>>

\* A second block of them joins the first one.
SkipNonOption ==
    /\ AtNonOption
    /\ "POSIXLY_CORRECT" \notin environment
    /\ argv' = Rearranged(nonopt_end, optind).argv
    /\ nonopt_start' = IF nonopt_start = -1 THEN optind
                       ELSE IF nonopt_end = -1 THEN nonopt_start
                       ELSE Rearranged(nonopt_end, optind).first
    /\ nonopt_end' = -1
    /\ optind' = optind + 1
    /\ UNCHANGED <<environment, place, returned>>

\* nonopt_end once an option is met.
EndOfSkipped == IF nonopt_start # -1 /\ nonopt_end = -1 THEN optind ELSE nonopt_end

ShortOption ==
    /\ returned = "scanning"
    /\ place # <<>> \/ (AtWord /\ IsOption(word) /\ ~IsLong(word))
    /\ nonopt_end' = EndOfSkipped
    /\ LET letters == IF place = <<>> THEN Tail(word) ELSE place
       IN /\ returned' = IF Head(letters) \in Short THEN Head(letters) ELSE "?"
          /\ place' = Tail(letters)
          /\ optind' = IF Tail(letters) = <<>> THEN optind + 1 ELSE optind
    /\ UNCHANGED <<environment, argv, nonopt_start>>

\* Mutant: the first name that begins like it is taken.
ValueOfFirst(name) ==
    LET begins == {i \in 1..Len(Long) : IsPrefix(name, Long[i].name)}
    IN IF begins = {} THEN "?" ELSE Long[Min(begins)].value

\* An exact match ends the search; two others before it are too many. There is no name
\* with a "=" and no option with an argument: "?" again.
ValueOf(name) ==
    LET begins == {i \in 1..Len(Long) : IsPrefix(name, Long[i].name)}
        exact == {i \in begins : Long[i].name = name}
        others == {i \in begins \ exact : exact = {} \/ i < Min(exact)}
    IN IF Cardinality(others) > 1 \/ begins = {} THEN "?"
       ELSE Long[IF exact # {} THEN Min(exact) ELSE Min(others)].value

LongOption ==
    /\ AtWord /\ IsLong(word) /\ word # EndMark
    /\ nonopt_end' = EndOfSkipped
    /\ optind' = optind + 1
    /\ returned' = ValueOf(SubSeq(word, 3, Len(word)))
    /\ UNCHANGED <<environment, argv, place, nonopt_start>>

EndOfOptions ==
    /\ AtWord /\ word = EndMark
    /\ argv' = Rearranged(EndOfSkipped, optind + 1).argv
    /\ optind' = Rearranged(EndOfSkipped, optind + 1).first
    /\ nonopt_start' = -1
    /\ nonopt_end' = -1
    /\ returned' = "EOF"
    /\ UNCHANGED <<environment, place>>

GetoptNext == EndOfArguments \/ StopAtNonOption \/ SkipNonOption \/ ShortOption \/ LongOption
                  \/ EndOfOptions

=============================================================================
