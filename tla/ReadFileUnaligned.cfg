SPECIFICATION Spec
CONSTANTS
  Block <- MCBlock
  Window <- MCWindow
  BufferLen <- MCBufferLen
  Reads <- MCUnaligned
INVARIANTS
  AnyReadIsPlaintext
