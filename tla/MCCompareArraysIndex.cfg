SPECIFICATION Spec
CONSTANTS
  Line = {"a", "b"}
  Inputs <- NothingExpected
  Unset = 999999999
  Stray <- StrayInts
INVARIANTS
  IndexInRange
