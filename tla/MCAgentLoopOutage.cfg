SPECIFICATION LoopSpec
CONSTANTS
  search = search
  list = list
  write = write
  gated = gated
  Reads <- MCReads
  Writes <- MCWrites
  Asking <- MCAsking
  Searches <- MCSearches
  Untrusted <- MCSearches
  Listings <- MCListings
  Native <- MCNone
  Denied <- MCNone
  Drafts <- MCDrafts
  Tiers = 2
  MaxSteps = 5
INVARIANT NothingWasDone
