----------------------------- MODULE MCTestCase -----------------------------
(* Small instances of TestCase for TLC: one test case, varied in one or two
   respects at a time. *)
EXTENDS TestCase, TLC

AllStatuses == {"0", "1"}

\* "edit" is given and expected, "new" is only expected.
Simple == [loads |-> "ok", skip |-> "no", helper |-> <<>>, stdin |-> FALSE,
           input |-> ("edit" :> {"build"}),
           output |-> ("edit" :> {"build"}) @@ ("new" :> {"source"}),
           comparator |-> {}, program |-> {"build"}, status |-> "0",
           accepts |-> [out |-> {<<"x">>}, err |-> {<<>>, <<"x">>}],
           plainName |-> TRUE, plainPath |-> TRUE, locks |-> FALSE, keep |-> "never",
           sandboxDirectory |-> "", sourceDirectory |-> "relative"]

\* One file and silent programs, to keep other variations small.
Small == [Simple EXCEPT !.input = <<>>, !.output = ("new" :> {"build"}),
                        !.accepts = [out |-> {<<>>}, err |-> {<<>>}]]
With(t, k) == [t EXCEPT !.keep = k]

Unloadable == {[Small EXCEPT !.loads = l] : l \in {"error", "bad regex"}}
Skipped == {[Small EXCEPT !.skip = s] : s \in {"preload", "feature", "no config.h"}}
Prechecked == {[Small EXCEPT !.helper = ("precheck" :> p), !.sourceDirectory = d] :
                  p \in {{}, {"build"}, {"source"}}, d \in {"relative", "absolute"}}
FromFile == {[Small EXCEPT !.helper = ("stdin-file" :> p), !.keep = "failed"] :
                  p \in {{}, {"build"}}}
Compared == {[With(Small, k) EXCEPT !.comparator = {"new"}, !.stdin = TRUE] : k \in When}
Oddities == {[Small EXCEPT !.plainName = FALSE], [Small EXCEPT !.plainPath = FALSE],
             [Small EXCEPT !.locks = TRUE]}
Elsewhere == {[Small EXCEPT !.sandboxDirectory = d, !.program = p,
                            !.output = ("new" :> {"source"}),
                            !.sourceDirectory = "absolute"] :
                  d \in {"absolute", "relative"}, p \in {{"build"}, {"beside source"}}}
NoSource == {[Small EXCEPT !.output = ("new" :> {"source"}), !.sourceDirectory = d] :
                  d \in {"", "absolute"}}

Varied == Unloadable \cup Skipped \cup Prechecked \cup FromFile \cup Compared
              \cup Oddities \cup Elsewhere \cup NoSource
              \cup {With(Simple, k) : k \in When}

=============================================================================
