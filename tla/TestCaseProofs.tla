--------------------------- MODULE TestCaseProofs ---------------------------
(***************************************************************************)
(* Proofs about TestCase, for any test cases, files and commands.          *)
(*                                                                         *)
(* What may be done depends on whether nihtest is in the sandbox, which    *)
(* the code keeps in in_sandbox, and a handler sees only there. Placed     *)
(* says that this agrees with the place in execute_test; Judged, that a    *)
(* difference found so far is in failed and a file not in todo is settled; *)
(* Leaving, what is known between the verdict and its report: that nihtest *)
(* is out of the sandbox, which is still there or was dealt with.  LoopInv *)
(* is Judged of the loop over the files alone, in both directions.         *)
(***************************************************************************)
EXTENDS TestCase, TLAPS

Early ==
    \/ pc \in {"load", "skip", "precheck", "enter"}
    \/ pc = "command" /\ caller = "precheck"
Late ==
    \/ pc \in {"populate", "judge", "list", "compare", "catch"}
    \/ pc = "command" /\ caller \in {"program", "comparator"}

Out == pc \in {"remove", "report"}

Placed ==
    /\ pc = "command" => caller # "none"
    /\ Early => ~inSandbox /\ sandbox = "none" /\ ~ran
    /\ Late => inSandbox /\ sandbox = "exists"
    /\ Out => inSandbox /\ cwd = Home /\ result # "none"
    /\ pc = "remove" => sandbox = "exists"
    /\ exit = "none" <=> pc # "done"

Comparing == pc = "compare" \/ (pc = "command" /\ caller = "comparator")

AsExpected(f) == IF Expected(f) THEN judged[f] = "right" ELSE f \notin listing

Judged ==
    /\ pc = "judge" => got.kind = "returned"
    /\ pc = "list" \/ Comparing =>
          /\ got.kind = "returned"
          /\ "status" \notin failed => got.status = tc.status
          /\ \A s \in Outputs : s \notin failed => got.output[s] \in tc.accepts[s]
    /\ pc = "command" /\ caller = "comparator" => current \in Files /\ Expected(current)
    /\ Comparing /\ "files" \notin failed => \A f \in Files \ todo : AsExpected(f)

\* What PassMeansAll asks for, without the exit status.
Earned ==
    /\ got.kind = "returned" /\ got.status = tc.status
    /\ \A s \in Outputs : got.output[s] \in tc.accepts[s]
    /\ \A f \in Files : AsExpected(f)

\* The sandbox was kept, removed, or rm has an excuse.
DealtWith ==
    IF Keep THEN sandbox = "exists"
    ELSE sandbox = "gone" \/ hindered \/ ~tc.plainPath \/ tc.sandboxDirectory = "relative"

Leaving ==
    /\ Out /\ result # "99" => (result = "0" <=> failed = {})
    /\ Out /\ result = "0" => Earned
    /\ pc = "report" => DealtWith

IInv ==
    /\ TypeOK /\ Placed /\ Judged /\ Leaving
    /\ SandboxGone /\ EvidenceKept /\ SkippedUntouched /\ PassMeansAll

-----------------------------------------------------------------------------
(* The steps, sorted by what they leave alone *)

\* The commands and what they leave behind do nothing but to the files.
Elsewhere == UNCHANGED <<tc, pc, exit, testVars, placeVars, loopVars, caller>>

LEMMA ElsewhereKeeps ==
    ASSUME IInv, Elsewhere,
           content' \in [Files -> Content], stray' \in BOOLEAN, locked' \in BOOLEAN
    PROVE  IInv'
  <1>1. TypeOK'
    BY DEF IInv, TypeOK, Elsewhere, testVars, placeVars, loopVars
  <1>2. Placed'
    BY DEF IInv, Placed, Early, Late, Out, Home, Elsewhere, testVars, placeVars
  <1>3. Judged'
    BY DEF IInv, Judged, Comparing, AsExpected, Expected, Elsewhere, testVars, loopVars
  <1>4. SandboxGone' /\ EvidenceKept'
    BY DEF IInv, SandboxGone, EvidenceKept, MayKeep, Elsewhere, placeVars
  <1>5. SkippedUntouched' /\ PassMeansAll'
    BY DEF IInv, SkippedUntouched, PassMeansAll, Expected, Elsewhere, testVars, placeVars, loopVars
  <1>6. Leaving'
    BY DEF IInv, Leaving, Out, Earned, DealtWith, Keep, KeepAfterError, KeepAfterVerdict, AsExpected,
           Expected, Elsewhere, testVars, placeVars, loopVars
  <1>. QED
    BY <1>1, <1>2, <1>3, <1>4, <1>5, <1>6 DEF IInv

Others ==
    \/ CommandReturns \/ CommandThrows \/ Command \/ StrayEnds
    \/ (\E f \in Files : Touch(f)) \/ Lock

LEMMA OthersStep == IInv /\ Others => IInv'
  <1>. SUFFICES ASSUME IInv, Others
                PROVE  IInv'
    OBVIOUS
  <1>1. Elsewhere
    BY DEF Others, Elsewhere, Command, CommandReturns, CommandThrows, CommandWrites, CommandCloses,
           CommandEnds, StrayEnds, Touch, Lock, commandVars, sandboxVars, testVars, placeVars, loopVars
  <1>2. content \in [Files -> Content] /\ stray \in BOOLEAN /\ locked \in BOOLEAN
    BY DEF IInv, TypeOK
  <1>3. content' \in [Files -> Content]
    BY <1>2 DEF Others, Command, CommandReturns, CommandThrows, CommandWrites, CommandCloses,
           CommandEnds, StrayEnds, Touch, Lock, sandboxVars
  <1>4. stray' \in BOOLEAN
    BY <1>2 DEF Others, Command, CommandReturns, CommandThrows, CommandWrites, CommandCloses,
           CommandEnds, StrayEnds, Touch, Lock, sandboxVars
  <1>5. locked' \in BOOLEAN
    BY <1>2 DEF Others, Command, CommandReturns, CommandThrows, CommandWrites, CommandCloses,
           CommandEnds, StrayEnds, Touch, Lock, sandboxVars
  <1>. QED
    BY <1>1, <1>3, <1>4, <1>5, ElsewhereKeeps

\* The steps of nihtest itself.
Own ==
    \/ Load \/ Skip \/ Precheck \/ PrecheckDone \/ EnterSandbox
    \/ (\E f \in Files : CopyInput(f)) \/ RunProgram \/ ProgramDone
    \/ JudgeProgram \/ ListFiles
    \/ (\E f \in Files : MissOrSurplus(f) \/ CompareFile(f))
    \/ ComparatorDone \/ CommandFailed \/ LeaveAfterVerdict \/ LeaveAfterError
    \/ RemoveSandbox \/ Report \/ StartCommand

LEMMA NextIsOwn == Next => Own \/ Others \/ UNCHANGED vars
  BY DEF Next, Nihtest, Own, Others, Terminated

-----------------------------------------------------------------------------
(* Types *)

\* The files a test case names are files.
LEMMA Named == ASSUME tc \in TestCases
               PROVE  DOMAIN tc.input \in SUBSET Files /\ DOMAIN tc.output \in SUBSET Files
  <1>. tc \in TestCaseType
    BY TestCaseAssumption
  <1>1. tc.input \in Partial(Files, SUBSET Places) /\ tc.output \in Partial(Files, SUBSET Places)
    BY DEF TestCaseType
  <1>. QED
    BY <1>1 DEF Partial

LEMMA JudgeType ==
    ASSUME TypeOK, NEW f, NEW verdict \in {"unseen", "right", "wrong"}, Judge(f, verdict)
    PROVE  /\ judged' \in [Files -> {"unseen", "right", "wrong"}]
           /\ failed' \in SUBSET (Outputs \cup {"status", "files"})
           /\ todo' \in SUBSET Files
  BY DEF TypeOK, Judge

LEMMA TypeStep == TypeOK /\ Own => TypeOK'
  <1>. SUFFICES ASSUME TypeOK, Own
                PROVE  TypeOK'
    OBVIOUS
  <1>0. DOMAIN tc.input \in SUBSET Files /\ DOMAIN tc.output \in SUBSET Files
    BY Named DEF TypeOK
  <1>1. Differences \in SUBSET (Outputs \cup {"status", "files"})
    BY DEF Differences
  <1>2. Inhabited \in BOOLEAN
    BY DEF Inhabited
  <1>. USE DEF Exit, Raise, Call, Results, testVars, placeVars, loopVars, sandboxVars, commandVars
  <1>3. CASE Load
    <2>1. pc' \in {"skip", "catch", "done"} /\ exit' \in Results \cup {exit}
      BY <1>3 DEF Load
    <2>2. UNCHANGED <<tc, testVars, placeVars, loopVars, sandboxVars, caller>>
      BY <1>3 DEF Load
    <2>. QED
      BY <2>1, <2>2 DEF TypeOK
  <1>4. CASE Skip
    <2>1. pc' \in {"precheck", "catch", "done"} /\ exit' \in Results \cup {exit}
      BY <1>4 DEF Skip
    <2>2. UNCHANGED <<tc, testVars, placeVars, loopVars, sandboxVars, caller>>
      BY <1>4 DEF Skip
    <2>. QED
      BY <2>1, <2>2 DEF TypeOK
  <1>5. CASE Precheck
    BY <1>5 DEF TypeOK, Precheck
  <1>6. CASE PrecheckDone
    BY <1>6 DEF TypeOK, PrecheckDone
  <1>7. CASE EnterSandbox
    <2>1. /\ pc' \in {"populate", "catch", "done"} /\ exit' \in Results \cup {exit}
          /\ sandbox' \in {"none", "exists"} /\ cwd' \in {cwd, "sandbox"}
          /\ todo' \in {todo, DOMAIN tc.input}
      BY <1>7 DEF EnterSandbox
    <2>3. inSandbox' \in BOOLEAN
      BY <1>7 DEF EnterSandbox, TypeOK
    <2>2. UNCHANGED <<tc, testVars, result, hindered, current, listing, sandboxVars, caller>>
      BY <1>7 DEF EnterSandbox
    <2>. QED
      BY <1>0, <2>1, <2>2, <2>3 DEF TypeOK
  <1>8. ASSUME NEW f \in Files, CopyInput(f)
        PROVE  TypeOK'
    BY <1>8 DEF TypeOK, CopyInput, Content
  <1>9. CASE RunProgram
    BY <1>9 DEF TypeOK, RunProgram
  <1>10. CASE ProgramDone
    BY <1>10 DEF TypeOK, ProgramDone
  <1>11. CASE JudgeProgram
    BY <1>1, <1>11 DEF TypeOK, JudgeProgram
  <1>12. CASE ListFiles
    BY <1>0, <1>12 DEF TypeOK, ListFiles
  <1>13. ASSUME NEW f \in Files, MissOrSurplus(f)
         PROVE  TypeOK'
    BY <1>13, JudgeType DEF TypeOK, MissOrSurplus
  <1>14. ASSUME NEW f \in Files, CompareFile(f)
         PROVE  TypeOK'
    BY <1>14 DEF TypeOK, CompareFile, Judge, Content
  <1>15. CASE ComparatorDone
    BY <1>15, JudgeType DEF TypeOK, ComparatorDone
  <1>16. CASE CommandFailed
    BY <1>16 DEF TypeOK, CommandFailed
  <1>17. CASE LeaveAfterVerdict \/ LeaveAfterError
    <2>1. /\ pc' \in {"remove", "done"} /\ exit' \in Results \cup {exit}
          /\ cwd' \in {cwd, "build", "elsewhere"} /\ result' \in {result, "0", "1", "99"}
      BY <1>17 DEF LeaveAfterVerdict, LeaveAfterError, ChangeBack, Home
    <2>3. hindered' \in BOOLEAN
      BY <1>17 DEF LeaveAfterVerdict, LeaveAfterError, ChangeBack, TypeOK
    <2>2. UNCHANGED <<tc, testVars, sandbox, inSandbox, loopVars, sandboxVars, caller>>
      BY <1>17 DEF LeaveAfterVerdict, LeaveAfterError
    <2>. QED
      BY <2>1, <2>2, <2>3 DEF TypeOK
  <1>18. CASE RemoveSandbox
    BY <1>2, <1>18 DEF TypeOK, RemoveSandbox
  <1>20. CASE Report
    <2>1. exit' \in Results \cup {"none"} /\ pc' = "done"
      BY <1>20 DEF Report, TypeOK
    <2>. QED
      BY <1>20, <2>1 DEF TypeOK, Report
  <1>19. CASE StartCommand
    BY <1>19 DEF TypeOK, StartCommand
  <1>. QED
    BY <1>3, <1>4, <1>5, <1>6, <1>7, <1>8, <1>9, <1>10, <1>11, <1>12, <1>13, <1>14, <1>15,
       <1>16, <1>17, <1>18, <1>19, <1>20 DEF Own

-----------------------------------------------------------------------------
(* In and out of the sandbox *)

LEMMA PlaceStep == TypeOK /\ Placed /\ Own => Placed'
  <1>. SUFFICES ASSUME TypeOK, Placed, Own
                PROVE  Placed'
    OBVIOUS
  <1>. USE DEF TypeOK, Placed, Early, Late, Out, Home, Exit, Raise, Call, testVars, placeVars, loopVars,
               sandboxVars, commandVars
  <1>3. CASE Load
    BY <1>3 DEF Load
  <1>4. CASE Skip
    BY <1>4 DEF Skip
  <1>5. CASE Precheck
    BY <1>5 DEF Precheck
  <1>6. CASE PrecheckDone
    BY <1>6 DEF PrecheckDone, Returned
  <1>7. CASE EnterSandbox
    BY <1>7 DEF EnterSandbox
  <1>8. ASSUME NEW f \in Files, CopyInput(f)
        PROVE  Placed'
    BY <1>8 DEF CopyInput
  <1>9. CASE RunProgram
    BY <1>9 DEF RunProgram
  <1>10. CASE ProgramDone
    BY <1>10 DEF ProgramDone, Returned
  <1>11. CASE JudgeProgram
    BY <1>11 DEF JudgeProgram
  <1>12. CASE ListFiles
    BY <1>12 DEF ListFiles
  <1>13. ASSUME NEW f \in Files, MissOrSurplus(f)
         PROVE  Placed'
    BY <1>13 DEF MissOrSurplus
  <1>14. ASSUME NEW f \in Files, CompareFile(f)
         PROVE  Placed'
    BY <1>14 DEF CompareFile
  <1>15. CASE ComparatorDone
    BY <1>15 DEF ComparatorDone, Returned
  <1>16. CASE CommandFailed
    BY <1>16 DEF CommandFailed
  <1>17. CASE LeaveAfterVerdict \/ LeaveAfterError
    BY <1>17 DEF LeaveAfterVerdict, LeaveAfterError, ChangeBack
  <1>19. CASE RemoveSandbox \/ Report
    BY <1>19 DEF RemoveSandbox, Report
  <1>18. CASE StartCommand
    BY <1>18 DEF StartCommand
  <1>. QED
    BY <1>3, <1>4, <1>5, <1>6, <1>7, <1>8, <1>9, <1>10, <1>11, <1>12, <1>13, <1>14, <1>15,
       <1>16, <1>17, <1>18, <1>19 DEF Own

\* nihtest ends in front of the sandbox, in it by accident or because it cannot get out, or
\* when it reports the result.
LEMMA LastSteps ==
    ASSUME TypeOK, Placed, Own
    PROVE  \/ pc' # "done" /\ exit' = "none"
           \/ Early /\ exit' \in {"77", "99", "aborted"} /\ UNCHANGED <<inSandbox, ran>>
                    /\ (exit' = "77" => UNCHANGED sandbox)
           \/ Late /\ exit' \in {"aborted", "killed"} /\ UNCHANGED <<inSandbox, sandbox>>
           \/ Late /\ exit' = "99" /\ hindered' /\ UNCHANGED <<inSandbox, sandbox>>
           \/ Report
  <1>. USE DEF Placed, Early, Late, Exit, Raise, Call, testVars, placeVars
  <1>1. CASE Load \/ Skip \/ Precheck \/ PrecheckDone \/ EnterSandbox
    BY <1>1 DEF Load, Skip, Precheck, PrecheckDone, EnterSandbox, Returned
  <1>2. ASSUME NEW f \in Files, CopyInput(f) \/ MissOrSurplus(f) \/ CompareFile(f)
        PROVE  pc' # "done" /\ exit' = "none"
    BY <1>2 DEF CopyInput, MissOrSurplus, CompareFile
  <1>3. CASE RunProgram \/ ProgramDone \/ ListFiles \/ ComparatorDone \/ StartCommand
    BY <1>3 DEF RunProgram, ProgramDone, ListFiles, ComparatorDone, StartCommand, Returned
  <1>4. CASE JudgeProgram
    BY <1>4 DEF JudgeProgram
  <1>5. CASE CommandFailed
    BY <1>5 DEF CommandFailed, TypeOK
  <1>6. CASE LeaveAfterVerdict \/ LeaveAfterError
    BY <1>6 DEF LeaveAfterVerdict, LeaveAfterError, ChangeBack
  <1>7. CASE RemoveSandbox
    BY <1>7 DEF RemoveSandbox
  <1>. QED
    BY <1>1, <1>2, <1>3, <1>4, <1>5, <1>6, <1>7 DEF Own

\* What is kept is what the exit status allows to keep.
LEMMA KeepIs ==
    ASSUME TypeOK, Placed, Leaving, Report
    PROVE  MayKeep' <=> Keep
  <1>1. tc.keep \in When
    BY TestCaseAssumption DEF TypeOK, TestCaseType
  <1>2. tc' = tc /\ exit' = result /\ Out
    BY DEF Report, Exit, Out
  <1>3. CASE result = "99"
    BY <1>1, <1>2, <1>3 DEF MayKeep, Keep, KeepAfterError, When
  <1>4. CASE result # "99"
    BY <1>2, <1>4 DEF MayKeep, Keep, KeepAfterVerdict, Leaving
  <1>. QED
    BY <1>3, <1>4

LEMMA SandboxStep ==
    ASSUME TypeOK, Placed, Leaving, Own
    PROVE  SandboxGone' /\ EvidenceKept' /\ SkippedUntouched'
  <1>. USE DEF SandboxGone, EvidenceKept, SkippedUntouched
  <1>1. CASE pc' # "done" /\ exit' = "none"
    BY <1>1
  <1>2. CASE Early /\ exit' \in {"77", "99", "aborted"} /\ UNCHANGED <<inSandbox, ran>>
                /\ (exit' = "77" => UNCHANGED sandbox)
    BY <1>2 DEF Placed
  <1>3. CASE Late /\ exit' \in {"aborted", "killed"} /\ UNCHANGED <<inSandbox, sandbox>>
    BY <1>3 DEF Placed
  <1>4. CASE Late /\ exit' = "99" /\ hindered' /\ UNCHANGED <<inSandbox, sandbox>>
    BY <1>4 DEF Placed
  <1>5. CASE Report
    <2>1. exit' = result /\ result \in {"0", "1", "99"} /\ UNCHANGED <<tc, sandbox, hindered>>
      BY <1>5 DEF Report, Exit, Placed, Out, TypeOK, placeVars
    <2>2. DealtWith /\ (MayKeep' <=> Keep)
      BY <1>5, KeepIs DEF Report, Leaving
    <2>. QED
      BY <2>1, <2>2 DEF DealtWith
  <1>. QED
    BY <1>1, <1>2, <1>3, <1>4, <1>5, LastSteps

-----------------------------------------------------------------------------
(* The verdict *)

\* What is found out of a file does not disturb what is known of the others.
LEMMA JudgeKeeps ==
    ASSUME TypeOK, Judged, Comparing, NEW f \in Files, NEW verdict, Judge(f, verdict),
           verdict = "right" => Expected(f),
           UNCHANGED <<tc, got, listing, current>>, pc' = "compare"
    PROVE  Judged'
  <1>1. "files" \notin failed' => verdict = "right" /\ failed' = failed
    BY DEF Judge
  <1>2. failed \subseteq failed' /\ \A x : x # "files" /\ x \in failed' => x \in failed
    BY DEF Judge
  <1>3. ASSUME "files" \notin failed', NEW h \in Files \ todo'
        PROVE  AsExpected(h)'
    <2>1. CASE h = f
      BY <1>1, <1>3, <2>1 DEF AsExpected, Expected, Judge, TypeOK
    <2>2. CASE h # f
      <3>1. h \in Files \ todo /\ judged'[h] = judged[h]
        BY <1>3, <2>2 DEF Judge, TypeOK
      <3>2. AsExpected(h)
        BY <1>1, <1>3, <3>1 DEF Judged
      <3>. QED
        BY <3>1, <3>2 DEF AsExpected, Expected
    <2>. QED
      BY <2>1, <2>2
  <1>. QED
    BY <1>2, <1>3 DEF Judged, Comparing, Outputs

LEMMA JudgedStep == TypeOK /\ Judged /\ Own => Judged'
  <1>. SUFFICES ASSUME TypeOK, Judged, Own
                PROVE  Judged'
    OBVIOUS
  <1>. USE DEF Exit, Raise, Call, testVars, placeVars, loopVars, sandboxVars, commandVars
  <1>1. CASE Load \/ Skip \/ Precheck \/ PrecheckDone \/ EnterSandbox \/ RunProgram
    BY <1>1 DEF Load, Skip, Precheck, PrecheckDone, EnterSandbox, RunProgram, Returned, Judged,
                Comparing
  <1>2. ASSUME NEW f \in Files, CopyInput(f)
        PROVE  Judged'
    BY <1>2 DEF CopyInput, Judged, Comparing
  <1>3. CASE ProgramDone
    BY <1>3 DEF ProgramDone, Returned, Judged, Comparing
  <1>4. CASE JudgeProgram
    BY <1>4 DEF JudgeProgram, Differences, Outputs, Judged, Comparing
  <1>5. CASE ListFiles
    BY <1>5 DEF ListFiles, Judged, Comparing, AsExpected, Expected
  <1>6. ASSUME NEW f \in Files, MissOrSurplus(f)
        PROVE  Judged'
    BY <1>6, JudgeKeeps DEF MissOrSurplus, Comparing
  <1>7. ASSUME NEW f \in Files, CompareFile(f)
        PROVE  Judged'
    <2>1. CASE Judge(f, content[f]) /\ UNCHANGED <<pc, current>>
      BY <1>7, <2>1, JudgeKeeps DEF CompareFile, Comparing
    <2>2. CASE Call("comparator") /\ current' = f /\ UNCHANGED <<todo, failed, judged>>
      BY <1>7, <2>2 DEF CompareFile, Judged, Comparing, AsExpected, Expected
    <2>3. CASE Raise /\ UNCHANGED <<todo, failed, judged, current>>
      BY <1>7, <2>3 DEF CompareFile, Judged, Comparing
    <2>. QED
      BY <1>7, <2>1, <2>2, <2>3 DEF CompareFile
  <1>8. CASE ComparatorDone
    <2>1. current \in Files /\ Expected(current) /\ Comparing
      BY <1>8 DEF ComparatorDone, Returned, Judged, Comparing
    <2>. QED
      BY <1>8, <2>1, JudgeKeeps DEF ComparatorDone
  <1>9. CASE CommandFailed
    BY <1>9 DEF CommandFailed, Judged, Comparing
  <1>10. CASE LeaveAfterVerdict \/ LeaveAfterError \/ RemoveSandbox \/ Report
    BY <1>10 DEF LeaveAfterVerdict, LeaveAfterError, ChangeBack, RemoveSandbox, Report, Judged,
                 Comparing
  <1>11. CASE StartCommand
    BY <1>11 DEF StartCommand, Judged, Comparing, AsExpected, Expected
  <1>. QED
    BY <1>1, <1>2, <1>3, <1>4, <1>5, <1>6, <1>7, <1>8, <1>9, <1>10, <1>11 DEF Own

LEMMA LeavingStep ==
    ASSUME TypeOK, Placed, Judged, Leaving, Own
    PROVE  Leaving'
  <1>. USE DEF Exit, testVars, placeVars, loopVars
  <1>1. CASE LeaveAfterVerdict
    <2>0. pc = "compare" /\ todo = {} /\ UNCHANGED <<tc, failed, got, judged, listing>>
      BY <1>1 DEF LeaveAfterVerdict
    <2>1. CASE pc' = "remove" /\ result' = IF failed = {} THEN "0" ELSE "1"
      <3>1. failed = {} => Earned
        BY <2>0 DEF Judged, Comparing, Earned
      <3>2. Earned => Earned'
        BY <2>0 DEF Earned, AsExpected, Expected
      <3>. QED
        BY <2>0, <2>1, <3>1, <3>2 DEF Leaving, Out
    <2>2. CASE pc' = "done"
      BY <2>2 DEF Leaving, Out
    <2>. QED
      BY <1>1, <2>1, <2>2 DEF LeaveAfterVerdict, ChangeBack
  <1>2. CASE LeaveAfterError
    BY <1>2 DEF LeaveAfterError, ChangeBack, Leaving, Out
  <1>3. CASE RemoveSandbox
    <2>1. /\ pc = "remove" /\ pc' = "report" /\ sandbox = "exists" /\ Out
          /\ UNCHANGED <<tc, result, cwd, failed, got, judged, listing>>
      BY <1>3 DEF RemoveSandbox, Placed, Out
    <2>2. Keep' <=> Keep
      BY <2>1 DEF Keep, KeepAfterError, KeepAfterVerdict
    <2>3. Earned => Earned'
      BY <2>1 DEF Earned, AsExpected, Expected
    <2>4. NamesSandbox \/ tc.sandboxDirectory = "relative"
      <3>1. tc.sandboxDirectory \in {"", "relative", "absolute"}
        BY TestCaseAssumption DEF TypeOK, TestCaseType
      <3>. QED
        BY <2>1, <3>1 DEF NamesSandbox, Placed, Home
    <2>5. DealtWith'
      BY <1>3, <2>1, <2>2, <2>4 DEF RemoveSandbox, DealtWith, Placed
    <2>. QED
      BY <2>1, <2>3, <2>5 DEF Leaving, Out
  <1>4. CASE Report
    BY <1>4 DEF Report, Leaving, Out
  <1>5. CASE ~LeaveAfterVerdict /\ ~LeaveAfterError /\ ~RemoveSandbox /\ ~Report
    <2>1. pc' \notin {"remove", "report"}
      BY <1>5 DEF Own, Load, Skip, Precheck, PrecheckDone, EnterSandbox, CopyInput, RunProgram,
          ProgramDone, JudgeProgram, ListFiles, MissOrSurplus, CompareFile, ComparatorDone,
          CommandFailed, StartCommand, Raise, Call
    <2>. QED
      BY <2>1 DEF Leaving, Out
  <1>. QED
    BY <1>1, <1>2, <1>3, <1>4, <1>5

LEMMA PassStep ==
    ASSUME TypeOK, Placed, Leaving, Own
    PROVE  PassMeansAll'
  <1>. SUFFICES ASSUME exit' = "0"
                PROVE  PassMeansAll'
    BY DEF PassMeansAll
  <1>1. Report /\ result = "0" /\ Out
    BY LastSteps DEF Report, Exit, Out
  <1>2. UNCHANGED <<tc, got, judged, listing>>
    BY <1>1 DEF Report, testVars, loopVars
  <1>3. Earned
    BY <1>1 DEF Leaving
  <1>. QED
    BY <1>2, <1>3 DEF PassMeansAll, Earned, AsExpected, Expected

-----------------------------------------------------------------------------
(* The invariant and what follows from it *)

LEMMA InitInv == Init => IInv
  BY DEF Init, IInv, TypeOK, Placed, Early, Late, Out, Judged, Comparing, Leaving, SandboxGone, EvidenceKept,
         SkippedUntouched, PassMeansAll, Content, Unseen, Results

LEMMA StepInv == IInv /\ [Next]_vars => IInv'
  <1>. SUFFICES ASSUME IInv, [Next]_vars
                PROVE  IInv'
    OBVIOUS
  <1>1. CASE Own
    BY <1>1, TypeStep, PlaceStep, SandboxStep, JudgedStep, LeavingStep, PassStep DEF IInv
  <1>2. CASE Others
    BY <1>2, OthersStep
  <1>3. CASE UNCHANGED vars
    <2>1. Elsewhere /\ UNCHANGED <<content, stray, locked>>
      BY <1>3 DEF vars, Elsewhere, testVars, placeVars, loopVars, sandboxVars, commandVars
    <2>2. content' \in [Files -> Content] /\ stray' \in BOOLEAN /\ locked' \in BOOLEAN
      BY <2>1 DEF IInv, TypeOK
    <2>. QED
      BY <2>1, <2>2, ElsewhereKeeps
  <1>. QED
    BY <1>1, <1>2, <1>3, NextIsOwn

LEMMA Invariance == Spec => []IInv
  BY InitInv, StepInv, PTL DEF Spec

\* Every variable keeps its type, whatever fails and whoever is in the sandbox.
THEOREM TypeCorrect == Spec => []TypeOK
  <1>1. IInv => TypeOK
    BY DEF IInv
  <1>. QED
    BY Invariance, <1>1, PTL

\* Exit status 0 is given only after everything was compared and as expected, with any
\* number of files, however they are changed meanwhile (Test.cc:205-234).
THEOREM PassIsEarned == Spec => []PassMeansAll
  <1>1. IInv => PassMeansAll
    BY DEF IInv
  <1>. QED
    BY Invariance, <1>1, PTL

\* Whatever step fails, a sandbox that may not be kept is removed, but in the cases
\* SandboxGone names, in which rm fails unnoticed or nihtest is stuck (Test.cc:228-233,
\* 281-287, OS-Unix.cc:180-184).
THEOREM SandboxIsGone == Spec => []SandboxGone
  <1>1. IInv => SandboxGone
    BY DEF IInv
  <1>. QED
    BY Invariance, <1>1, PTL

\* A sandbox that may be kept for a look at the failure is kept (Test.cc:229, 233).
THEOREM EvidenceIsKept == Spec => []EvidenceKept
  <1>1. IInv => EvidenceKept
    BY DEF IInv
  <1>. QED
    BY Invariance, <1>1, PTL

\* A skipped test has run no program and made no sandbox (Test.cc:139-171).
THEOREM SkippedIsUntouched == Spec => []SkippedUntouched
  <1>1. IInv => SkippedUntouched
    BY DEF IInv
  <1>. QED
    BY Invariance, <1>1, PTL

\* The sandbox is removed from outside and after the result is known, and then nothing more
\* is done of the test: steps of other processes and of nihtest alike keep to this order
\* (Test.cc:205-235, 281-287).
THEOREM RemovalIsLast == Spec => RemovedLast
  <1>. DEFINE FromOutside == sandbox' = "gone" /\ sandbox # "gone" => cwd # "sandbox" /\ result # "none"
              NoMore == sandbox = "gone" => UNCHANGED <<testVars, placeVars, loopVars, caller>>
              Last == FromOutside /\ NoMore
  <1>. USE DEF testVars, placeVars, loopVars
  <1>1. ASSUME IInv, Own
        PROVE  Last
    <2>1. CASE RemoveSandbox
      BY <1>1, <2>1 DEF IInv, Placed, Out, Home, RemoveSandbox
    <2>2. CASE Report
      BY <2>2 DEF Report, commandVars
    <2>3. CASE ~RemoveSandbox /\ ~Report
      <3>1. Early \/ Late
        BY <1>1, <2>3 DEF Own, Early, Late, IInv, Placed, TypeOK, Load, Skip, Precheck, PrecheckDone,
            EnterSandbox, CopyInput, RunProgram, ProgramDone, JudgeProgram, ListFiles, MissOrSurplus,
            CompareFile, ComparatorDone, CommandFailed, LeaveAfterVerdict, LeaveAfterError,
            StartCommand, Returned
      <3>2. sandbox # "gone"
        BY <1>1, <3>1 DEF IInv, Placed
      <3>3. sandbox' # "gone"
        BY <1>1, <2>3, <3>2 DEF Own, Load, Skip, Precheck, PrecheckDone, EnterSandbox, CopyInput,
            RunProgram, ProgramDone, JudgeProgram, ListFiles, MissOrSurplus, CompareFile,
            ComparatorDone, CommandFailed, LeaveAfterVerdict, LeaveAfterError, StartCommand
      <3>. QED
        BY <3>2, <3>3
    <2>. QED
      BY <2>1, <2>2, <2>3
  <1>2. Others => UNCHANGED <<testVars, placeVars, loopVars, caller>>
    BY DEF Others, Command, CommandReturns, CommandThrows, CommandWrites, CommandCloses,
           CommandEnds, StrayEnds, Touch, Lock, commandVars
  <1>3. IInv /\ [Next]_vars => [Last]_vars
    BY <1>1, <1>2, NextIsOwn
  <1>. QED
    BY Invariance, <1>3, PTL DEF Spec, RemovedLast

-----------------------------------------------------------------------------
(* The loop over the files *)

\* compare_files as CompareContract sees it: a loop that is left with files to do threw.
LoopAnswer ==
    IF Comparing THEN "none"
    ELSE IF todo # {} THEN "threw"
    ELSE IF "files" \in failed THEN "differ" ELSE "same"

Loop == INSTANCE CompareContract
    WITH wanted <- DOMAIN tc.output, present <- listing, answer <- LoopAnswer

\* It starts and goes on as CompareContract does; other steps do not disturb it.
FollowsContract ==
    /\ ~Comparing /\ Comparing' => Loop!Init'
    /\ Comparing => [Loop!Next]_(Loop!vars)

Listed == DOMAIN tc.output \cup listing
BeforeLoop == Early \/ (Late /\ ~Comparing /\ pc # "catch")

\* What the loop starts from, and what it has come to.
LoopInv ==
    /\ BeforeLoop => judged = Unseen
    /\ pc = "list" => "files" \notin failed
    /\ Comparing => /\ todo \subseteq Listed
                    /\ "files" \notin failed <=> \A f \in Listed \ todo : judged[f] = "right"
    /\ pc = "command" /\ caller = "comparator" =>
          current \in todo /\ Expected(current) /\ current \in listing

LEMMA LoopStays ==
    ASSUME UNCHANGED <<tc, pc, testVars, loopVars, caller>>
    PROVE  UNCHANGED Loop!vars /\ (Comparing' <=> Comparing) /\ (LoopInv => LoopInv')
  <1>. USE DEF testVars, loopVars, Comparing
  <1>1. UNCHANGED Loop!vars
    BY DEF Loop!vars, LoopAnswer
  <1>2. LoopInv => LoopInv'
    BY DEF LoopInv, Listed, BeforeLoop, Early, Late, Expected
  <1>. QED
    BY <1>1, <1>2

\* What is found out of a file settles it, and the loop goes on.
LEMMA JudgeSettles ==
    ASSUME TypeOK, LoopInv, Comparing, NEW f \in Files, NEW verdict \in {"right", "wrong"},
           f \in todo, verdict = "right" => Expected(f) /\ f \in listing,
           Judge(f, verdict), UNCHANGED <<tc, listing>>, pc' = "compare"
    PROVE  Loop!Next /\ LoopInv'
  <1>1. Loop!Settle(f, verdict)
    BY DEF Loop!Settle, Judge, Expected
  <1>2. Comparing' /\ LoopAnswer = "none" /\ LoopAnswer' = "none"
    BY DEF Comparing, LoopAnswer
  <1>3. Loop!Next
    BY <1>1, <1>2 DEF Loop!Next
  <1>4. f \in Listed /\ Listed' = Listed /\ todo' \subseteq Listed
    BY DEF Judge, LoopInv, Listed
  <1>5. judged'[f] = verdict /\ \A h \in Files : h # f => judged'[h] = judged[h]
    BY DEF Judge, TypeOK
  <1>6. Listed \subseteq Files
    BY Named DEF Listed, TypeOK
  <1>7. \A h : h \in Listed \ todo' <=> h \in Listed \ todo \/ h = f
    BY <1>4 DEF Judge
  <1>8. "files" \notin failed' <=> "files" \notin failed /\ verdict = "right"
    BY DEF Judge
  <1>9. "files" \notin failed <=> \A h \in Listed \ todo : judged[h] = "right"
    BY DEF LoopInv
  <1>10. "files" \notin failed' <=> \A h \in Listed' \ todo' : judged'[h] = "right"
    <2>1. \A h \in Listed \ todo : judged'[h] = judged[h]
      BY <1>5, <1>6
    <2>. QED
      BY <1>4, <1>5, <1>7, <1>8, <1>9, <2>1
  <1>. QED
    BY <1>2, <1>3, <1>4, <1>10 DEF LoopInv, BeforeLoop, Early, Late

\* Whoever leaves the loop with files to do has thrown.
LEMMA ThrowEnds ==
    ASSUME LoopInv, Comparing, todo # {}, pc' = "catch", UNCHANGED <<tc, todo, judged, listing>>
    PROVE  Loop!Next /\ LoopInv'
  <1>1. ~Comparing' /\ LoopAnswer = "none" /\ LoopAnswer' = "threw"
    BY DEF Comparing, LoopAnswer
  <1>2. Loop!Next
    BY <1>1 DEF Loop!Next, Loop!Throw
  <1>. QED
    BY <1>1, <1>2 DEF LoopInv, BeforeLoop, Early, Late

LEMMA LoopStep ==
    ASSUME TypeOK, Placed, LoopInv, Own
    PROVE  FollowsContract /\ LoopInv'
  <1>. USE DEF Exit, Raise, Call, testVars, placeVars, loopVars, sandboxVars, commandVars
  <1>1. CASE Load \/ Skip \/ Precheck \/ PrecheckDone \/ EnterSandbox \/ RunProgram \/ ProgramDone
    <2>1. BeforeLoop /\ ~Comparing /\ ~Comparing' /\ pc' # "list" /\ judged' = judged
      BY <1>1 DEF Load, Skip, Precheck, PrecheckDone, EnterSandbox, RunProgram, ProgramDone,
                  Returned, BeforeLoop, Early, Late, Comparing
    <2>. QED
      BY <2>1 DEF FollowsContract, LoopInv, Comparing
  <1>2. ASSUME NEW f \in Files, CopyInput(f)
        PROVE  FollowsContract /\ LoopInv'
    BY <1>2 DEF CopyInput, FollowsContract, LoopInv, BeforeLoop, Early, Late, Comparing
  <1>3. CASE JudgeProgram
    <2>1. BeforeLoop /\ ~Comparing /\ ~Comparing' /\ judged' = judged
      BY <1>3 DEF JudgeProgram, BeforeLoop, Early, Late, Comparing
    <2>2. pc' = "list" => "files" \notin failed'
      BY <1>3 DEF JudgeProgram, Differences, Outputs
    <2>. QED
      BY <2>1, <2>2 DEF FollowsContract, LoopInv, Comparing
  <1>4. CASE ListFiles
    <2>1. pc = "list" /\ judged = Unseen /\ "files" \notin failed /\ ~Comparing
          /\ UNCHANGED <<tc, judged, failed>>
      BY <1>4 DEF ListFiles, LoopInv, BeforeLoop, Late, Comparing
    <2>2. CASE pc' = "compare"
      <3>1. todo' = Listed' /\ listing' \in SUBSET Files
        BY <1>4, <2>1, <2>2 DEF ListFiles, Listed
      <3>2. DOMAIN tc.output \in SUBSET Files
        BY Named DEF TypeOK
      <3>3. Comparing' /\ LoopAnswer' = "none"
        BY <2>2 DEF Comparing, LoopAnswer
      <3>4. Loop!Init'
        BY <2>1, <3>1, <3>2, <3>3 DEF Loop!Init, Listed, Unseen
      <3>5. LoopInv'
        BY <2>1, <2>2, <3>1, <3>3 DEF LoopInv, BeforeLoop, Early
      <3>. QED
        BY <2>1, <3>4, <3>5 DEF FollowsContract
    <2>3. CASE pc' # "compare"
      <3>1. pc' \in {"catch", "done"} /\ ~Comparing'
        BY <1>4, <2>3 DEF ListFiles, Comparing
      <3>. QED
        BY <2>1, <3>1 DEF FollowsContract, LoopInv, BeforeLoop, Early, Late
    <2>. QED
      BY <2>2, <2>3
  <1>5. ASSUME NEW f \in Files, MissOrSurplus(f)
        PROVE  FollowsContract /\ LoopInv'
    <2>1. Comparing /\ Comparing'
      BY <1>5 DEF MissOrSurplus, Comparing
    <2>2. Loop!Next /\ LoopInv'
      BY <1>5, <2>1, JudgeSettles DEF MissOrSurplus
    <2>. QED
      BY <2>1, <2>2 DEF FollowsContract
  <1>6. ASSUME NEW f \in Files, CompareFile(f)
        PROVE  FollowsContract /\ LoopInv'
    <2>0. Comparing /\ pc = "compare" /\ f \in todo /\ Expected(f) /\ f \in listing
          /\ UNCHANGED <<tc, ran, listing>>
      BY <1>6 DEF CompareFile, Comparing
    <2>1. CASE content[f] # "absent" /\ Judge(f, content[f]) /\ UNCHANGED pc
      <3>1. content[f] \in {"right", "wrong"}
        BY <2>1 DEF TypeOK, Content
      <3>. QED
        BY <2>0, <2>1, <3>1, JudgeSettles DEF FollowsContract
    <2>2. CASE Call("comparator") /\ current' = f /\ UNCHANGED <<todo, failed, judged>>
      <3>1. Comparing' /\ ~BeforeLoop' /\ pc' = "command"
        BY <2>2 DEF Comparing, BeforeLoop, Early, Late
      <3>2. UNCHANGED Loop!vars
        BY <2>0, <2>2, <3>1 DEF Loop!vars, LoopAnswer
      <3>3. LoopInv'
        BY <2>0, <2>2, <3>1 DEF LoopInv, Listed, Expected
      <3>. QED
        BY <2>0, <3>2, <3>3 DEF FollowsContract
    <2>3. CASE Raise /\ UNCHANGED <<todo, failed, judged, current>>
      <3>1. inSandbox
        BY <2>0 DEF Placed, Late
      <3>. QED
        BY <2>0, <2>3, <3>1, ThrowEnds DEF FollowsContract
    <2>. QED
      BY <1>6, <2>1, <2>2, <2>3 DEF CompareFile
  <1>7. CASE ComparatorDone
    <2>1. /\ Comparing /\ pc' = "compare" /\ Comparing' /\ UNCHANGED <<tc, listing>>
          /\ current \in todo /\ Expected(current) /\ current \in listing
      BY <1>7 DEF ComparatorDone, Returned, LoopInv, Comparing
    <2>2. current \in Files
      BY <2>1 DEF TypeOK
    <2>. DEFINE verdict == IF outcome.status = "0" THEN "right" ELSE "wrong"
    <2>3. verdict \in {"right", "wrong"} /\ Judge(current, verdict)
      BY <1>7 DEF ComparatorDone
    <2>. HIDE DEF verdict
    <2>. QED
      BY <2>1, <2>2, <2>3, JudgeSettles DEF FollowsContract
  <1>8. CASE CommandFailed
    <2>1. CASE caller = "comparator"
      <3>1. Comparing /\ current \in todo /\ inSandbox
        BY <1>8, <2>1 DEF CommandFailed, Comparing, LoopInv, Placed, Late
      <3>2. pc' = "catch" /\ UNCHANGED <<tc, todo, judged, listing>>
        BY <1>8, <2>1, <3>1 DEF CommandFailed
      <3>. QED
        BY <3>1, <3>2, ThrowEnds DEF FollowsContract
    <2>2. CASE caller # "comparator"
      BY <1>8, <2>2 DEF CommandFailed, FollowsContract, LoopInv, BeforeLoop, Early, Late, Comparing
    <2>. QED
      BY <2>1, <2>2
  <1>9. CASE LeaveAfterVerdict
    <2>1. /\ Comparing /\ todo = {} /\ pc' \in {"remove", "done"} /\ ~Comparing'
          /\ UNCHANGED <<tc, todo, judged, failed, listing>>
      BY <1>9 DEF LeaveAfterVerdict, ChangeBack, Comparing
    <2>2. LoopAnswer = "none" /\ LoopAnswer' = IF "files" \in failed THEN "differ" ELSE "same"
      BY <2>1 DEF LoopAnswer
    <2>3. Loop!AllRight <=> "files" \notin failed
      BY <2>1 DEF Loop!AllRight, LoopInv, Listed
    <2>4. Loop!Next
      BY <2>1, <2>2, <2>3 DEF Loop!Next, Loop!Return
    <2>. QED
      BY <2>1, <2>4 DEF FollowsContract, LoopInv, BeforeLoop, Early, Late
  <1>10. CASE LeaveAfterError \/ RemoveSandbox \/ Report
    <2>1. ~Comparing /\ ~Comparing' /\ ~BeforeLoop' /\ pc' # "list"
      BY <1>10 DEF LeaveAfterError, ChangeBack, RemoveSandbox, Report, BeforeLoop, Early, Late,
                   Comparing
    <2>. QED
      BY <2>1 DEF FollowsContract, LoopInv, Comparing
  <1>11. CASE StartCommand
    <2>1. /\ (Comparing' <=> Comparing) /\ (BeforeLoop' <=> BeforeLoop) /\ pc = "command"
          /\ UNCHANGED <<tc, pc, caller, failed, judged, loopVars>>
      BY <1>11 DEF StartCommand, Comparing, BeforeLoop, Early, Late
    <2>2. UNCHANGED Loop!vars
      BY <2>1 DEF Loop!vars, LoopAnswer
    <2>. QED
      BY <2>1, <2>2 DEF FollowsContract, LoopInv, Listed, Expected
  <1>. QED
    BY <1>1, <1>2, <1>3, <1>4, <1>5, <1>6, <1>7, <1>8, <1>9, <1>10, <1>11 DEF Own

\* However the files are changed meanwhile and whatever throws, execute_test gets from its
\* loop over the files what CompareContract promises - as it does from CompareFiles::compare
\* (CompareFilesProofs, ContractIsKept) - so that the two can be put together
\* (Test.cc:117-124).
THEOREM LoopFollowsContract == Spec => [][FollowsContract]_vars
  <1>1. Init => LoopInv
    BY DEF Init, LoopInv, BeforeLoop, Early, Late, Comparing
  <1>2. IInv /\ LoopInv /\ [Next]_vars => FollowsContract /\ LoopInv'
    <2>. SUFFICES ASSUME IInv, LoopInv, [Next]_vars
                  PROVE  FollowsContract /\ LoopInv'
      OBVIOUS
    <2>1. CASE Own
      BY <2>1, LoopStep DEF IInv
    <2>2. CASE Others \/ UNCHANGED vars
      <3>1. UNCHANGED <<tc, pc, testVars, loopVars, caller>>
        BY <2>2 DEF Others, Command, CommandReturns, CommandThrows, CommandWrites, CommandCloses,
               CommandEnds, StrayEnds, Touch, Lock, vars, testVars, placeVars, loopVars, sandboxVars, commandVars
      <3>. QED
        BY <3>1, LoopStays DEF FollowsContract
    <2>. QED
      BY <2>1, <2>2, NextIsOwn
  <1>. QED
    BY Invariance, <1>1, <1>2, PTL DEF Spec

=============================================================================
