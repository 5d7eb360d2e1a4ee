SPECIFICATION Spec
CONSTANTS
  Commands <- TwoBytes
  Capacity = 2
  BufferSize = 3
  MaxWritten = 1
  Byte = {"a", "b"}
  Statuses <- AllStatuses
  Signals <- AllSignals
INVARIANTS
  Survives
