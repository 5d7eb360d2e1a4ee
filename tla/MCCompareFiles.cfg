SPECIFICATION FairSpec
CONSTANTS
  Byte <- MCByte
  BufferSize = 2
  Names <- Three
  Cases <- MergedCases
INVARIANTS
  TypeOK
  MergeExact
  VerdictRight
  ListingExact
  PassMeansSame
  ContentsDecide
PROPERTIES
  Finishes
  KeepsContract
