SPECIFICATION Spec
CONSTANTS
  TestCases <- Elsewhere
  Files = {"edit", "new"}
  Byte = {"x"}
  Statuses <- AllStatuses
  MaxWritten = 1
INVARIANTS
  NeverKept
