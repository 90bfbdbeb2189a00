SPECIFICATION Spec
CONSTANTS
  Rank <- MCRank
  Lower <- MCLower
  Filesystems <- MCFilesystems
  Names = {"a", "A", "b", "c", "d", "x"}
  Page = 3
INVARIANTS
  ListingIsTheDirectory
  ListedIsFound
  WalkIsLookup
  NoHandleIsStale
