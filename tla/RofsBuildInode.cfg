SPECIFICATION BuildSpec
CONSTANTS
  Rank <- MCRank
  Lower <- MCLower
  Inputs <- MCInputs
  Queries <- MCQueries
INVARIANTS
  EntryInodeRoundTrips
