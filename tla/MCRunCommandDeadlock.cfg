SPECIFICATION FairSpec
CONSTANTS
  Commands <- Doubled
  Capacity = 1
  BufferSize = 3
  MaxWritten = 2
  Byte = {"a"}
  Statuses <- AllStatuses
  Signals <- AllSignals
PROPERTIES
  WriteReturns
CHECK_DEADLOCK FALSE
