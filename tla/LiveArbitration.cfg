\* Two starts, a stop, a status probe and two polls, every one of which may
\* overlap the others, lose its Redis call or die.
CONSTANTS
  s1 = s1
  s2 = s2
  k1 = k1
  q1 = q1
  t1 = t1
  t2 = t2
  NoKey = NoKey
  Pending = Pending
  Starts <- TwoStarts
  Stops <- OneStop
  Watchers <- OneWatcher
  Polls <- TwoPolls
SPECIFICATION FairSpec
INVARIANTS LiveHasPriority SingleReplay PlayingIsTracked
PROPERTIES SlotIsFreedAgain ClaimedRaceIsIngested
CHECK_DEADLOCK FALSE
