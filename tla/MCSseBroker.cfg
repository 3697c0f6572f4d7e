SPECIFICATION FairSpec
CONSTANTS
  Clients = {c1, c2}
  QMax = 2
  MaxEvents = 4
INVARIANTS NothingSkipped AwakeWhileWatched
PROPERTIES Delivered StreamIsForgotten
CHECK_DEADLOCK FALSE
