CONSTANTS
  c1 = c1
  c2 = c2
  sps = sps
  ula = ula
  home = home
  zone = zone
  zoned = zoned
  Malformed = Malformed
  Panic = Panic
  mixed = mixed
  empty = empty
  NoPort = NoPort
  Refused = Refused
  NoForm = NoForm
  NoFile = NoFile
  None = None
  FlagPort = FlagPort
  Clients <- TwoClients
  Names <- SomeNames
  Empty = empty
  IP <- Literals
  Localhost <- Home
  Parsed <- Decoded
  Resolver <- Answers
  Ports <- SomePorts
  URIs <- SomeURIs
  Texts <- SomeTexts
  Pieces <- TextLengths
  MaxStarts = 2
SPECIFICATION ServiceFairSpec
INVARIANTS
  ServiceTypeOK
  SuccessCutsNobody
  SavedForNextRun
  TargetAllowed
PROPERTY
  ExitsWhenTold
CHECK_DEADLOCK FALSE
