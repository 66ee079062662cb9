SPECIFICATION FairSpec
CONSTANTS
  NumThreads = 2
  MaxReqs = 2
INVARIANT StatsHonest
PROPERTIES StatsGrow StopWorks
CHECK_DEADLOCK FALSE
