CONSTANTS
  p1 = p1
  p2 = p2
  Publishers <- TwoPublishers
  Cap = 2
  WireCap = 1
  MaxVersion = 5
  MaxStreams = 3
SPECIFICATION FairSpec
INVARIANTS
  TypeOK
  SettledShowsStore
PROPERTY
  PageCatchesUp
CHECK_DEADLOCK FALSE
