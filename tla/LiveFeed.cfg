SPECIFICATION FairSpec
CONSTANTS
  d1 = d1
  live = live
  past = past
  Drivers <- MCDrivers
  Live = live
  Past = past
  Replayed = past
  None = None
  MaxTokens = 2
  MaxChanges = 2
INVARIANTS OneFeed MobileShowsItsSession
PROPERTIES ReplayLapsGoAway SilenceIsNoticed FeedComesBack
CHECK_DEADLOCK FALSE
