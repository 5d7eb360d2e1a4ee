SPECIFICATION FairSpec
CONSTANTS
  Commands <- FitsOne
  Capacity = 1
  BufferSize = 3
  MaxWritten = 2
  Byte = {"a"}
  Statuses <- AllStatuses
  Signals <- AllSignals
PROPERTIES
  Terminates
  Unblocked
  ImplementsContract
