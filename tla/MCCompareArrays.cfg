SPECIFICATION FairSpec
CONSTANTS
  Line = {"a", "b", "c"}
  Inputs <- SmallPairs
  Unset = 999999999
  Stray <- StrayInts
INVARIANTS
  TypeOK
  AlwaysFound
  DiffCorrect
  DiffSmallest
  VerdictSame
PROPERTIES
  Finishes
