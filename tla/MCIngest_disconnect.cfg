CONSTANTS
  r1 = r1
  r2 = r2
  u1 = u1
  u2 = u2
  NoPort = NoPort
  None = None
  Runs <- OneRun
  Ports <- OnePort
  Starts = {"hosted"}
SPECIFICATION Spec
INVARIANT
  DisconnectStopsIngest
