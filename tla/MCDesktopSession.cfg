SPECIFICATION Spec
CONSTANTS
  q1 = q1
  None = None
  NoQuery = NoQuery
  Channels = {c1, c2}
  Queries = {q1}
  Matches <- MatchesFirst
  ListLimit = 1
  MaxSearches = 1
  MaxMessages = 2
SYMMETRY ChannelSymmetry
INVARIANTS
  TypeOK
  HistoryComplete
  SearchResultsCurrent
PROPERTY DraftKept
