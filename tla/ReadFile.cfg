SPECIFICATION FairSpec
CONSTANTS
  Block <- MCBlock
  Window <- MCWindow
  BufferLen <- MCBufferLen
  Reads <- MCReads
INVARIANTS
  DeliveredInOrder
  ClearBytesUntouched
  AlignedReadIsPlaintext
  NothingPresentIsDropped
  IntactFileIsRead
PROPERTIES
  ReadEnds
