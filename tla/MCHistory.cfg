SPECIFICATION LSpec
CONSTANTS
  IntBits = 6
  Limit = 17
  HistorySize = 3
  MaxArgs = 4
  Sessions <- MCSessions
  Bases = {10}
INVARIANT
  HistoryShows
