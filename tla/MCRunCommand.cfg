SPECIFICATION Spec
CONSTANTS
  Commands <- Anything
  Capacity = 1
  BufferSize = 2
  MaxWritten = 2
  Byte = {"a", "b"}
  Statuses <- AllStatuses
  Signals <- AllSignals
INVARIANTS
  TypeOK
  StreamIntact
  PolledUntilEof
  OutputComplete
  StatusFaithful
  InputIntact
  EofMeansAll
  BufferLimit
\* Input longer than a pipe can block both sides for good.
CHECK_DEADLOCK FALSE
