SPECIFICATION Spec
CONSTANTS
  q1 = q1
  None = None
  NoQuery = NoQuery
  Channels = {c1}
  Queries = {}
  Matches <- MatchesFirst
  ListLimit = 1
  MaxSearches = 2
  MaxMessages = 1
INVARIANTS
  LockedShowsNothing
