SPECIFICATION FairSpec
CONSTANTS
  Publishers = {p1, p2}
  PageSize = 1
  WakeTail = 2
  Margin = 1
  MaxTime = 3
  MaxEvents = 3
  MaxSeq = 1
  MaxCrashes = 1
  MaxBoots = 2
INVARIANTS FeedInv NoLostWakeup MissedOnlyIfOvertaken
PROPERTIES CatchesUp
CHECK_DEADLOCK FALSE
