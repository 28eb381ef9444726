CONSTANTS
  r1 = r1
  r2 = r2
  u1 = u1
  u2 = u2
  NoPort = NoPort
  None = None
  Runs <- TwoRuns
  Ports <- OnePort
  Starts = {"hosted"}
SPECIFICATION Spec
INVARIANTS
  TypeOK
  OneLiveRun
  ConfigMatchesRun
  PortAgreement
  OneDialAfterCancel
