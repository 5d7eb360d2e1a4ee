-------------------------- MODULE CompareContract ---------------------------
(***************************************************************************)
(* What Test::compare_files (src/src/Test.cc:117-124) is promised by       *)
(* CompareFiles::compare: each file wanted or present is settled once, as  *)
(* right only if it is both; the answer comes when all are, and is yes     *)
(* exactly if all are right.  Comparing a file may throw instead.          *)
(***************************************************************************)
CONSTANT Files

VARIABLES
    wanted,   \* the files that are to be there
    present,  \* those that are
    todo,     \* those that are not settled
    judged,   \* what the others came to
    answer    \* "none" until there is one

vars == <<wanted, present, todo, judged, answer>>

Init ==
    /\ wanted \in SUBSET Files
    /\ present \in SUBSET Files
    /\ todo = wanted \cup present
    /\ judged = [f \in Files |-> "unseen"]
    /\ answer = "none"

Settle(f, verdict) ==
    /\ f \in todo
    /\ verdict = "right" => f \in wanted \cap present
    /\ todo' = todo \ {f}
    /\ judged' = [judged EXCEPT ![f] = verdict]

AllRight == \A f \in wanted \cup present : judged[f] = "right"

Return ==
    /\ todo = {}
    /\ answer' = IF AllRight THEN "same" ELSE "differ"
    /\ UNCHANGED <<wanted, present, todo, judged>>

Throw == answer' = "threw" /\ UNCHANGED <<wanted, present, todo, judged>>

Next ==
    /\ answer = "none"
    /\ \/ /\ \E f \in Files, verdict \in {"right", "wrong"} : Settle(f, verdict)
          /\ UNCHANGED <<wanted, present, answer>>
       \/ Return
       \/ Throw

Spec == Init /\ [][Next]_vars

=============================================================================
