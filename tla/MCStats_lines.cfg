CONSTANTS
  c1 = c1
  c2 = c2
  Levels <- OffInfoDebug
  Watched = c1
  Conns <- TwoConns
  MaxReads = 2
  MaxFrames = 2
SPECIFICATION FairSpec
INVARIANTS
  TypeOK
  Reconciles
PROPERTIES
  NoFalseHint
  LinesEndWithLink
CHECK_DEADLOCK FALSE
