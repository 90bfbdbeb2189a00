SPECIFICATION Spec
CONSTANTS
  Block = 2
  M24 = 3
  M32 = 128
  PRIME_32 = 37
  PRIME_64 = 133
  Name = "data"
  Cases <- MCCases
INVARIANTS
  ArchiveIsItsFiles
  FilesAreNamed
  IdsFindTheirHeader
  StoredRangesAreTheEntrys
