SPECIFICATION FairSpec
CONSTANTS
  TestCases <- Varied
  Files = {"edit", "new"}
  Byte = {"x"}
  Statuses <- AllStatuses
  MaxWritten = 1
INVARIANTS
  TypeOK
  PassMeansAll
  SandboxGone
  EvidenceKept
  SkippedUntouched
PROPERTIES
  RemovedLast
  Finishes
