SPECIFICATION FairPageSpec
CONSTANTS
  MaxVersion = 3
  MaxFailures = 2
INVARIANTS ConnectionMatches
PROPERTIES EventuallyFresh
CHECK_DEADLOCK FALSE
