-------------------------- MODULE MCCompareArrays --------------------------
(* Small instances of CompareArrays for TLC: all pairs of short lists. *)
EXTENDS CompareArrays

Lists(S, n) == UNION {[1..m -> S] : m \in 0..n}
Pairs(S, n) == [expected : Lists(S, n), got : Lists(S, n), verbose : BOOLEAN]

\* Two lines suffice for lines that move or repeat, the third never matches alone.
SmallPairs == Pairs({"a", "b"}, 4) \cup Pairs({"a", "b", "c"}, 3)

\* What malloc leaves in front of a block, and the one number that does harm.
StrayInts == {-1, 0, 33}

\* A program that writes although nothing is expected.
NothingExpected == {[expected |-> <<>>, got |-> <<"a", "b">>, verbose |-> TRUE]}

=============================================================================
