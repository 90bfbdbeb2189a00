SPECIFICATION FairSpec
CONSTANTS
  Files = {"f", "g"}
  Chunks = 2
  Stored <- MCStored
  Listing <- MCListing
  Expressions <- MCExpressions
  Replies = {0, 1, 2}
  MaxLives = 3
INVARIANTS
  OneGuid
  CallbacksFindContext
  FullFilesHaveAllThereIs
  ScanIsComplete
PROPERTIES
  FilesFoundAreKept
  EveryReadAnswered
CHECK_DEADLOCK FALSE
