CONSTANTS
  r1 = r1
  r2 = r2
  u1 = u1
  u2 = u2
  NoPort = NoPort
  None = None
  Runs <- OneRun
  Ports <- TwoPorts
  Starts = {"hosted", "port", "demo"}
SPECIFICATION FairSpec
INVARIANTS
  FixedRunStays
  ErrorMeansDisconnected
PROPERTIES
  RetriesForever
  LinkLossShown
  CancelledRunReturns
CHECK_DEADLOCK FALSE
