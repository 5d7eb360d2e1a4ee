SPECIFICATION Spec
CONSTANTS
  Byte <- MCByte
  BufferSize = 2
  Names <- Three
  Cases <- DottedTrees
INVARIANTS
  ListingExact
